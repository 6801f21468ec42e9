----------------------------- MODULE LuaConsole -----------------------------
(***************************************************************************)
(* A script's output and the button it is started with: the ring of        *)
(* printed lines in the UE5 DLL, the task of the host that polls it, and   *)
(* what the window shows.                                                  *)
(*                                                                         *)
(*   src/crates/ue5-lua/src/output.rs              OutputBuffer            *)
(*   src/crates/app/src-tauri/src/commands.rs      run_lua_script,         *)
(*                                 stop_lua_script, spawn_lua_polling_task *)
(*   src/crates/app/src/components/lua-scripts-tab.tsx                     *)
(*                                                                         *)
(* The runtime behind it is LuaRuntime; here it is its state and the lines *)
(* it prints while a script runs.  Only the last line is told apart from   *)
(* the others.  Commands run one after the other on the main thread, and   *)
(* the user waits for one before the next; the tasks run beside them.      *)
(***************************************************************************)
EXTENDS Naturals, Sequences, SequencesExt

CONSTANTS
    Scripts,
    Capacity,   \* OUTPUT_CAPACITY (4096)
    Batch,      \* LUA_POLL_DRAIN_BATCH (64)
    MaxRuns     \* bound: the scripts started

ASSUME ConsoleAssumption == {Capacity, Batch, MaxRuns} \subseteq Nat \ {0}

Runs == 1 .. MaxRuns
NoRun == 0

VARIABLES
    ring,     \* the buffered lines, oldest first: "line" or "marker" (<dropped n lines>)
    drops,    \* pending_drops
    gap,      \* history: a line was dropped, and the host has had no marker since
    vm,       \* the runtime: "idle", "running" or "stopped"
    link,     \* the connection: "up", "broken" (the game went) or "detached"
    main,     \* the command on the main thread: its step and its script
    runs,     \* the script of each run so far
    handle,   \* Attached.lua_polling: the run whose task it cancels, or NoRun
    task,     \* the polling task of each run: its step, its cancel flag, the lines it took
    shown     \* luaRunByScript: the scripts whose button says Stop

consoleVars == <<ring, drops, gap, vm, link, main, runs, handle, task, shown>>

NoTask == [at |-> "none", cancel |-> FALSE, took |-> <<>>]
Free == [at |-> "free", script |-> "none"]
Lines == {"line", "marker"}

ConsoleTypeOK ==
    /\ ring \in Seq(Lines) /\ Len(ring) <= Capacity
    /\ drops \in 0 .. 2 /\ gap \in BOOLEAN
    /\ vm \in {"idle", "running", "stopped"} /\ link \in {"up", "broken", "detached"}
    /\ main \in [at : {"free", "read", "cancel", "stop", "run", "chunk", "start", "install",
                       "halt", "halted"},
                 script : Scripts \cup {"none"}]
    /\ runs \in Seq(Scripts) /\ Len(runs) <= MaxRuns
    /\ handle \in {NoRun} \cup Runs
    /\ task \in [Runs ->
            [at : {"none", "wait", "drain", "emit", "ask", "fail", "end", "gone"},
             cancel : BOOLEAN, took : Seq(Lines)]]
    /\ \A r \in Runs : Len(task[r].took) <= Batch
    /\ shown \subseteq Scripts

ConsoleInit ==
    /\ ring = <<>> /\ drops = 0 /\ gap = FALSE
    /\ vm = "idle" /\ link = "up"
    /\ main = Free /\ runs = <<>> /\ handle = NoRun
    /\ task = [r \in Runs |-> NoTask] /\ shown = {}

-----------------------------------------------------------------------------
(* OutputBuffer.                                                            *)

\* A deliberate error: the oldest line goes without being counted.
Evict_Silent(lines, line, d) ==
    [lines |-> Append(IF Len(lines) >= Capacity THEN Tail(lines) ELSE lines, line), drops |-> d]

\* push_with_eviction.
Evict(lines, line, d) ==
    IF Len(lines) >= Capacity
    THEN [lines |-> Append(Tail(lines), line), drops |-> d + 1]
    ELSE [lines |-> Append(lines, line), drops |-> d]

\* push: what was dropped before is told first, which may drop another line.
Pushed(line) ==
    LET told == IF drops > 0 THEN Evict(ring, "marker", 0) ELSE [lines |-> ring, drops |-> 0]
    IN  Evict(told.lines, line, told.drops)

\* print(), by the main chunk or by a callback.
ScriptPrints ==
    /\ vm = "running" /\ link = "up"
    /\ ring' = Pushed("line").lines /\ drops' = Pushed("line").drops
    /\ gap' = (gap \/ Len(Pushed("line").lines) < Len(ring) + (IF drops > 0 THEN 2 ELSE 1))
    /\ UNCHANGED <<vm, link, main, runs, handle, task, shown>>

\* drain: up to n of the oldest.
Oldest(n) == SubSeq(ring, 1, n)
Drained(n) == SubSeq(ring, n + 1, Len(ring))

\* A callback fails.
ScriptFails ==
    /\ vm = "running" /\ main.at # "chunk" /\ link = "up"
    /\ vm' = "stopped"
    /\ UNCHANGED <<ring, drops, gap, link, main, runs, handle, task, shown>>

-----------------------------------------------------------------------------
(* run_lua_script.                                                          *)

RingOnly == UNCHANGED <<ring, drops, gap>>
MainGoes(step) == main' = [main EXCEPT !.at = step]

\* handleRun: the button turns before the command is sent.
RunClicked(s) ==
    /\ main = Free /\ s \notin shown /\ Len(runs) < MaxRuns
    /\ shown' = shown \cup {s} /\ runs' = Append(runs, s)
    /\ main' = [at |-> "read", script |-> s]
    /\ UNCHANGED <<vm, link, handle, task>> /\ RingOnly

\* The command returns an error, and the button turns back.
Rejected == main' = Free /\ shown' = shown \ {main.script}

\* The script's file cannot be read, or no session of the game is attached.
ReadBody ==
    /\ main.at = "read"
    /\ \/ Rejected
       \/ link # "detached" /\ MainGoes("cancel") /\ UNCHANGED shown
    /\ UNCHANGED <<vm, link, runs, handle, task>> /\ RingOnly

Cancelled_Task(r) == [task EXCEPT ![r].cancel = TRUE]

\* The task of the script before is told to go, and nobody tells the window.
CancelPrevious ==
    /\ main.at = "cancel"
    /\ handle' = IF link = "detached" THEN handle ELSE NoRun
    /\ task' = IF handle # NoRun /\ link # "detached" THEN Cancelled_Task(handle) ELSE task
    /\ IF link = "detached" THEN Rejected ELSE MainGoes("stop") /\ UNCHANGED shown
    /\ UNCHANGED <<vm, link, runs>> /\ RingOnly

\* stop_lua, its outcome ignored.
StopPrevious ==
    /\ main.at = "stop"
    /\ vm' = IF link = "up" THEN "idle" ELSE vm
    /\ MainGoes("run")
    /\ UNCHANGED <<link, runs, handle, task, shown>> /\ RingOnly

\* run_lua answers when the main chunk has ended.
RunLua ==
    /\ main.at = "run"
    /\ IF link = "up"
       THEN vm' = "running" /\ MainGoes("chunk") /\ UNCHANGED shown
       ELSE Rejected /\ UNCHANGED vm
    /\ UNCHANGED <<link, runs, handle, task>> /\ RingOnly

ChunkEnds ==
    /\ main.at = "chunk"
    /\ \/ link = "up" /\ MainGoes("start") /\ UNCHANGED <<vm, shown>>
       \/ vm' = "stopped" /\ Rejected
    /\ UNCHANGED <<link, runs, handle, task>> /\ RingOnly

\* The event that the script has started.
Started_L ==
    /\ main.at = "start"
    /\ shown' = shown \cup {main.script} /\ MainGoes("install")
    /\ UNCHANGED <<vm, link, runs, handle, task>> /\ RingOnly

\* A detach in between: no handle, no task, an error.
Install ==
    /\ main.at = "install"
    /\ IF link = "detached"
       THEN Rejected /\ UNCHANGED <<handle, task>>
       ELSE /\ main' = Free /\ handle' = Len(runs)
            /\ task' = [task EXCEPT ![Len(runs)] = [NoTask EXCEPT !.at = "wait"]]
            /\ UNCHANGED shown
    /\ UNCHANGED <<vm, link, runs>> /\ RingOnly

-----------------------------------------------------------------------------
(* stop_lua_script, detach, and the end of the game.                        *)

\* The handle is taken, whichever script's button it was.
StopClicked(s) ==
    /\ main = Free /\ s \in shown
    /\ IF link = "detached" \/ handle = NoRun
       THEN main' = [at |-> "halt", script |-> "none"] /\ UNCHANGED <<handle, task>>
       ELSE /\ main' = [at |-> "halt", script |-> runs[handle]]
            /\ task' = Cancelled_Task(handle) /\ handle' = NoRun
    /\ UNCHANGED <<vm, link, runs, shown>> /\ RingOnly

StopLua ==
    /\ main.at = "halt"
    /\ vm' = IF link = "up" THEN "idle" ELSE vm
    /\ MainGoes("halted")
    /\ UNCHANGED <<link, runs, handle, task, shown>> /\ RingOnly

\* The event that it has stopped, for the script of the handle if there was one.
Halted ==
    /\ main.at = "halted"
    /\ shown' = shown \ {main.script} /\ main' = Free
    /\ UNCHANGED <<vm, link, runs, handle, task>> /\ RingOnly

\* do_detach: the task is told to go, and nobody tells the window.
DetachLua ==
    /\ link # "detached"
    /\ link' = "detached" /\ vm' = "idle"
    /\ task' = IF handle # NoRun THEN Cancelled_Task(handle) ELSE task
    /\ handle' = NoRun
    /\ ring' = <<>> /\ drops' = 0 /\ gap' = FALSE
    /\ UNCHANGED <<main, runs, shown>>

\* The game goes, and with it the runtime and its ring.
LinkBreaks ==
    /\ link = "up"
    /\ link' = "broken" /\ vm' = "idle"
    /\ ring' = <<>> /\ drops' = 0 /\ gap' = FALSE
    /\ UNCHANGED <<main, runs, handle, task, shown>>

-----------------------------------------------------------------------------
(* spawn_lua_polling_task.  A task that is past its look at the flag goes   *)
(* through with its round.                                                  *)

TaskOnly == UNCHANGED <<vm, link, main, runs, handle>>
TaskAt(r, step) == task' = [task EXCEPT ![r].at = step]

Wakes(r) ==
    /\ task[r].at = "wait"
    /\ TaskAt(r, IF task[r].cancel THEN "gone" ELSE "drain")
    /\ UNCHANGED shown /\ TaskOnly /\ RingOnly

\* A deliberate error: a poll that fails ends the task without a word.
Drains_Quietly(r) ==
    /\ task[r].at = "drain" /\ link # "up"
    /\ TaskAt(r, "gone") /\ UNCHANGED shown /\ TaskOnly /\ RingOnly

Drains(r) ==
    LET n == IF Len(ring) < Batch THEN Len(ring) ELSE Batch IN
    /\ task[r].at = "drain"
    /\ IF link = "up"
       THEN /\ task' = [task EXCEPT ![r] = [@ EXCEPT !.at = "emit", !.took = Oldest(n)]]
            /\ ring' = Drained(n)
            /\ UNCHANGED <<drops, gap>>
       ELSE TaskAt(r, "fail") /\ RingOnly
    /\ UNCHANGED shown /\ TaskOnly

\* The event with the lines.
Emits(r) ==
    /\ task[r].at = "emit"
    /\ gap' = (gap /\ "marker" \notin ToSet(task[r].took))
    /\ task' = [task EXCEPT ![r] = [@ EXCEPT !.at = "ask", !.took = <<>>]]
    /\ UNCHANGED <<ring, drops, shown>> /\ TaskOnly

AsksStatus(r) ==
    /\ task[r].at = "ask"
    /\ TaskAt(r, CASE link # "up" -> "fail"
                   [] link = "up" /\ vm = "running" -> "wait"
                   [] OTHER -> "end")
    /\ UNCHANGED shown /\ TaskOnly /\ RingOnly

\* The event that the script has stopped, by itself or with the connection.
TellsStopped(r) ==
    /\ task[r].at \in {"fail", "end"}
    /\ shown' = shown \ {runs[r]} /\ TaskAt(r, "gone")
    /\ TaskOnly /\ RingOnly

-----------------------------------------------------------------------------
MainMoves ==
    \/ ReadBody \/ CancelPrevious \/ StopPrevious \/ RunLua \/ ChunkEnds \/ Started_L \/ Install
    \/ StopLua \/ Halted

TaskMoves(r) == Wakes(r) \/ Drains(r) \/ Emits(r) \/ AsksStatus(r) \/ TellsStopped(r)

ConsoleNext ==
    \/ ScriptPrints \/ ScriptFails \/ DetachLua \/ LinkBreaks
    \/ \E s \in Scripts : RunClicked(s) \/ StopClicked(s)
    \/ MainMoves
    \/ \E r \in Runs : TaskMoves(r)

\* The main thread finishes a command, and the executor runs every task.
ConsoleFairness ==
    WF_consoleVars(MainMoves) /\ \A r \in Runs : WF_consoleVars(TaskMoves(r))

ConsoleSpec == ConsoleInit /\ [][ConsoleNext]_consoleVars /\ ConsoleFairness

-----------------------------------------------------------------------------
(* Properties.                                                              *)

\* A line is never lost without a trace: as long as the host has seen no marker
\* since, one is in the ring, is on its way, or is due with the next line, though
\* a marker takes a place in the ring and can be dropped itself.
LossShown ==
    gap => \/ drops > 0 \/ "marker" \in ToSet(ring)
           \/ \E r \in Runs : "marker" \in ToSet(task[r].took)

\* The button of the script started last turns back once that script no longer
\* runs, whether it failed, was stopped or lost its connection, unless the user
\* detaches, and whatever tasks of earlier runs still poll.  An earlier script's
\* button need not: nobody tells the window that another script has replaced it.
ButtonTurnsBack ==
    \A s \in Scripts :
        (/\ Len(runs) > 0 /\ s = Last(runs) /\ s \in shown
         /\ vm # "running" /\ main = Free /\ link # "detached")
        ~> (s \notin shown \/ s # Last(runs) \/ vm = "running" \/ link = "detached")
=============================================================================
