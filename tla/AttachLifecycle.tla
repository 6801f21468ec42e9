-------------------------- MODULE AttachLifecycle --------------------------
(***************************************************************************)
(* One attach after the other, as the host app lives through them: the     *)
(* attach command, the exit watch, do_detach, and the tasks that keep a    *)
(* session alive (freeze loops, read probes, the retry of pending          *)
(* features).                                                              *)
(*                                                                         *)
(*   crates/app/src-tauri/src/{commands,attach,freeze,watch,state}.rs      *)
(*   crates/app/src/{hooks/use-attach.ts,components/activate-bar.tsx}      *)
(*                                                                         *)
(* A session is an Arc: the pipe is closed, and the DLL restores the game  *)
(* and awaits the next client, when the last holder lets go of it.  The    *)
(* DLL serves one client, so who still holds the session of the last       *)
(* attach decides whether the next attach can connect.                     *)
(*                                                                         *)
(* A session goes by the number of the attach call that opened it, a       *)
(* process by a number never used twice.  Each game has one feature of     *)
(* each kind of loop.                                                      *)
(***************************************************************************)
EXTENDS Naturals

CONSTANTS
    Games,
    Procs,      \* bound: the processes ever started, 1 .. n
    Calls,      \* bound: the attach calls ever made
    Tasks,      \* bound: the loops ever spawned
    Togglers,   \* who runs set_freeze: "ui", on the main thread, or "hotkey"
    None

ASSUME AttachAssumption ==
    /\ Procs \subseteq Nat
    /\ Togglers \subseteq {"ui", "hotkey"}
    /\ None \notin Games \cup Procs \cup Calls \cup Tasks
    /\ "user" \notin Calls

VARIABLES
    running,   \* the process of each game, or None
    started,   \* the processes started so far
    attached,  \* state.attached: a session or None
    paused,    \* the process watcher is paused
    ui,        \* attachState of the UI: its kind and game
    switch,    \* freezeOnByFeature of the UI: is the freeze drawn as on?
    call,      \* each attach call: the step it is at
    of,        \* ... and its game and process
    det,       \* do_detach, run by the exit watch of a call or by the user
    exitWatch, \* Attached.exit_watch of each session: the call that spawned it
    retry,     \* the retry task of each call: off, asleep, or the session it uses
    task,      \* each loop: the session it holds, or None
    aborted,   \* the loops that are to end at their next await
    handles,   \* freeze_handles / read_probe_handles: kind, game -> loop
    toggle     \* set_freeze of each toggler: its step, game and session

gameVars == <<running, started>>
uiVars == <<ui, switch>>
callVars == <<call, of>>
detVars == <<det, exitWatch>>
taskVars == <<task, aborted, handles>>
vars == <<gameVars, attached, paused, uiVars, callVars, detVars, retry, taskVars, toggle>>

Detachers == Calls \cup {"user"}
Keys == {"freeze", "probe"} \X Games

NoToggle == [step |-> "none", game |-> None, sess |-> None]

\* A set_freeze on its way: a session is cloned before its loop is spawned.
Toggling ==
    [step : {"on", "off"}, game : Games, sess : {None}]
    \cup [step : {"spawn"}, game : Games, sess : Calls]

TypeOK ==
    /\ running \in [Games -> Procs \cup {None}]
    /\ started \in Nat
    /\ attached \in Calls \cup {None}
    /\ paused \in BOOLEAN
    /\ ui \in [kind : {"idle", "attaching", "resolving", "attached"},
               game : Games \cup {None}]
    /\ switch \in [Games -> BOOLEAN]
    /\ call \in [Calls -> {"new", "connect", "resolve", "publish", "watch", "sweep",
                           "probe", "failed", "panicked", "done"}]
    /\ of \in [Calls -> [game : Games \cup {None}, proc : Procs \cup {None}]]
    /\ det \in [Detachers -> {"off", "waiting", "abort", "take", "resume", "gone"}]
    /\ exitWatch \in [Calls -> Calls \cup {None}]
    /\ retry \in [Calls -> {"off", "asleep"} \cup Calls]
    /\ task \in [Tasks -> Calls \cup {None}]
    /\ aborted \subseteq Tasks
    /\ handles \in [Keys -> Tasks \cup {None}]
    /\ toggle \in [Togglers -> {NoToggle} \cup Toggling]

Init ==
    /\ running = [g \in Games |-> None] /\ started = 0
    /\ attached = None /\ paused = FALSE
    /\ ui = [kind |-> "idle", game |-> None]
    /\ switch = [g \in Games |-> FALSE]
    /\ call = [c \in Calls |-> "new"]
    /\ of = [c \in Calls |-> [game |-> None, proc |-> None]]
    /\ det = [d \in Detachers |-> "off"]
    /\ exitWatch = [c \in Calls |-> None]
    /\ retry = [c \in Calls |-> "off"]
    /\ task = [k \in Tasks |-> None] /\ aborted = {}
    /\ handles = [h \in Keys |-> None]
    /\ toggle = [x \in Togglers |-> NoToggle]

GameOf(s) == of[s].game
Alive(s) == running[GameOf(s)] = of[s].proc

\* The attach call has opened its session and not returned yet.
InFlight(s) == call[s] \in {"resolve", "publish", "watch", "sweep", "probe"}

\* Who holds the Arc of a session.
Held(s) ==
    \/ attached = s
    \/ InFlight(s)
    \/ \E k \in Tasks : task[k] = s
    \/ \E x \in Togglers : toggle[x].sess = s
    \/ \E c \in Calls : retry[c] = s

AttachedTo(g) == attached # None /\ GameOf(attached) = g

Shows(kind, g) == ui' = [kind |-> kind, game |-> g]
Idle == Shows("idle", None)
-----------------------------------------------------------------------------
\* The game.  Starting it takes longer than what follows at once on its exit:
\* the requests of an attach in flight fail, the exit watch runs do_detach.
Launch(g) ==
    /\ running[g] = None
    /\ det["user"] = "off"
    /\ \A c \in Calls : GameOf(c) = g => ~InFlight(c) /\ det[c] \in {"off", "gone"}
    /\ started + 1 \in Procs
    /\ started' = started + 1
    /\ running' = [running EXCEPT ![g] = started + 1]
    /\ UNCHANGED <<attached, paused, uiVars, callVars, detVars, retry, taskVars, toggle>>

Exit(g) ==
    /\ running[g] # None
    /\ running' = [running EXCEPT ![g] = None]
    /\ UNCHANGED <<started, attached, paused, uiVars, callVars, detVars, retry, taskVars,
                   toggle>>
-----------------------------------------------------------------------------
\* The attach command.

\* The commands of the UI are taken in the order of its clicks.
InTurn == \A x \in Togglers \cap {"ui"} : toggle[x].step = "none"

Goes(c, step) == call' = [call EXCEPT ![c] = step]

\* The calls are numbered in any fixed order.
NextCall == LET new == {c \in Calls : call[c] = "new"}
            IN  IF new = {} THEN {} ELSE {CHOOSE c \in new : TRUE}

\* The click on Activate, the pause of the watcher and the process snapshot.
\* A game that is not found ends the call, with the watcher resumed.
Start(c, g) ==
    /\ c \in NextCall
    /\ ui.kind # "attaching" /\ ui.game # g /\ InTurn
    /\ IF running[g] = None
          THEN Goes(c, "failed") /\ paused' = FALSE /\ Idle
          ELSE Goes(c, "connect") /\ paused' = TRUE /\ Shows("attaching", g)
    /\ of' = [of EXCEPT ![c] = [game |-> g, proc |-> running[g]]]
    /\ UNCHANGED <<gameVars, attached, switch, detVars, retry, taskVars, toggle>>

\* backend.attach: inject, open the pipe (free only while nobody holds another
\* session of that process), Hello.
Connect(c) ==
    /\ call[c] = "connect"
    /\ Alive(c)
    /\ \A s \in Calls : of[s].proc = of[c].proc => ~Held(s)
    /\ Goes(c, "resolve")
    /\ Shows("resolving", GameOf(c))
    /\ UNCHANGED <<gameVars, attached, paused, switch, of, detVars, retry, taskVars, toggle>>

\* A deliberate error: this way out does not resume the watcher.
ConnectFails_StaysPaused(c) ==
    /\ call[c] = "connect"
    /\ Goes(c, "failed")
    /\ Idle
    /\ UNCHANGED <<gameVars, attached, paused, switch, of, detVars, retry, taskVars, toggle>>

\* A busy pipe, a dead process, a failed injection, a panic of the worker.
ConnectFails(c) ==
    /\ call[c] = "connect"
    /\ Goes(c, "failed")
    /\ paused' = FALSE
    /\ Idle
    /\ UNCHANGED <<gameVars, attached, switch, of, detVars, retry, taskVars, toggle>>

\* resolve_all and the finalize pass, whose addresses are not modelled here.  A
\* panic of either worker returns at once: the watcher stays paused.
Resolve(c) ==
    /\ call[c] = "resolve"
    /\ \/ Goes(c, "publish") /\ UNCHANGED ui
       \/ Goes(c, "panicked") /\ Idle
    /\ UNCHANGED <<gameVars, attached, paused, switch, of, detVars, retry, taskVars, toggle>>

\* *state.attached.write() = Some(attached), whatever was there.
Publish(c) ==
    /\ call[c] = "publish"
    /\ attached' = c
    /\ Goes(c, "watch")
    /\ UNCHANGED <<gameVars, paused, uiVars, of, detVars, retry, taskVars, toggle>>

\* A watch that is still waiting is cancelled; one that runs do_detach goes on.
Cancelled(w) == IF w # None /\ det[w] = "waiting" THEN [det EXCEPT ![w] = "gone"] ELSE det

\* A deliberate error: a process that cannot be opened any more is not watched.
Watch_NeedsProcess(c) ==
    /\ call[c] = "watch"
    /\ Goes(c, "sweep")
    /\ det' = [det EXCEPT ![c] = IF Alive(c) THEN "waiting" ELSE "gone"]
    /\ exitWatch' = IF attached = None THEN exitWatch ELSE [exitWatch EXCEPT ![attached] = c]
    /\ UNCHANGED <<gameVars, attached, paused, uiVars, of, retry, taskVars, toggle>>

\* The exit watch is spawned, and stored in what is attached by now in place of
\* the one there.  With nothing attached its handle is dropped, and it goes on.
Watch(c) ==
    /\ call[c] = "watch"
    /\ Goes(c, "sweep")
    /\ IF attached = None
          THEN det' = [det EXCEPT ![c] = "waiting"] /\ UNCHANGED exitWatch
          ELSE /\ det' = [Cancelled(exitWatch[attached]) EXCEPT ![c] = "waiting"]
               /\ exitWatch' = [exitWatch EXCEPT ![attached] = c]
    /\ UNCHANGED <<gameVars, attached, paused, uiVars, of, retry, taskVars, toggle>>

\* The event "attached", which resets the freeze switches, and the retry task.
Announce(c) ==
    /\ Goes(c, "done")
    /\ Shows("attached", GameOf(c))
    /\ switch' = [switch EXCEPT ![GameOf(c)] = FALSE]
    /\ retry' = [retry EXCEPT ![c] = "asleep"]

\* The features to read, from what is attached by now: none perhaps.
Sweep(c) ==
    /\ call[c] = "sweep"
    /\ \/ AttachedTo(GameOf(c)) /\ Goes(c, "probe") /\ UNCHANGED <<uiVars, retry>>
       \/ Announce(c)
    /\ UNCHANGED <<gameVars, attached, paused, of, detVars, taskVars, toggle>>

\* The numbers that no loop and no handle uses.
Free == {k \in Tasks : task[k] = None /\ \A h \in Keys : handles[h] # k}

\* A loop is spawned, and its handle put where the key's last one was.
Spawn(s, key) ==
    /\ Free # {}
    /\ LET k == CHOOSE k \in Free : TRUE
       IN  /\ task' = [task EXCEPT ![k] = s]
           /\ handles' = [handles EXCEPT ![key] = k]
    /\ UNCHANGED aborted

\* The first read is over and its probe loop is spawned.  A panic of the read
\* returns at once, with the session attached.
Probe(c) ==
    /\ call[c] = "probe"
    /\ \/ Announce(c) /\ Spawn(c, <<"probe", GameOf(c)>>)
       \/ Goes(c, "panicked") /\ Idle /\ UNCHANGED <<switch, retry, taskVars>>
    /\ UNCHANGED <<gameVars, attached, paused, of, detVars, toggle>>
-----------------------------------------------------------------------------
\* do_detach, on the main thread for the user and on a worker for a watch.
Detaching(d, step, next) == det[d] = step /\ det' = [det EXCEPT ![d] = next]

\* The click on Deactivate.
Deactivate ==
    /\ ui.kind = "attached" /\ InTurn
    /\ Detaching("user", "off", "abort")
    /\ UNCHANGED <<gameVars, attached, paused, uiVars, callVars, exitWatch, retry, taskVars,
                   toggle>>

\* wait_for_pid_exit returns, and the watch looks whose game is attached.
Notice(c) ==
    /\ Detaching(c, "waiting", IF AttachedTo(GameOf(c)) THEN "abort" ELSE "gone")
    /\ ~Alive(c)
    /\ UNCHANGED <<gameVars, attached, paused, uiVars, callVars, exitWatch, retry, taskVars,
                   toggle>>

\* A deliberate error: the handles are dropped, not aborted.
AbortLoops_Drops(d) ==
    /\ Detaching(d, "abort", "take")
    /\ handles' = [h \in Keys |-> None]
    /\ UNCHANGED <<gameVars, attached, paused, uiVars, callVars, exitWatch, retry, task,
                   aborted, toggle>>

\* Both maps are drained, and every loop in them aborted.
AbortLoops(d) ==
    /\ Detaching(d, "abort", "take")
    /\ aborted' = (aborted \cup {handles[h] : h \in Keys}) \ {None}
    /\ handles' = [h \in Keys |-> None]
    /\ UNCHANGED <<gameVars, attached, paused, uiVars, callVars, exitWatch, retry, task, toggle>>

\* attached.write().take(), and its exit watch is cancelled.
Take(d) ==
    /\ det[d] = "take"
    /\ det' = [(IF attached = None THEN det ELSE Cancelled(exitWatch[attached]))
                  EXCEPT ![d] = "resume"]
    /\ exitWatch' = IF attached = None THEN exitWatch
                    ELSE [exitWatch EXCEPT ![attached] = None]
    /\ attached' = None
    /\ UNCHANGED <<gameVars, paused, uiVars, callVars, retry, taskVars, toggle>>

\* The event "idle", and the watcher goes on.
Resume(d) ==
    /\ Detaching(d, "resume", IF d = "user" THEN "off" ELSE "gone")
    /\ paused' = FALSE
    /\ Idle
    /\ UNCHANGED <<gameVars, attached, switch, callVars, exitWatch, retry, taskVars, toggle>>

LoopEnds(k) ==
    /\ k \in aborted
    /\ task' = [task EXCEPT ![k] = None]
    /\ aborted' = aborted \ {k}
    /\ UNCHANGED <<gameVars, attached, paused, uiVars, callVars, detVars, retry, handles, toggle>>
-----------------------------------------------------------------------------
\* The retry task wakes up: it ends if its game is not attached (or nothing is
\* pending any more), else it resolves with the session attached by now.
RetryWakes(c) ==
    /\ retry[c] = "asleep"
    /\ \/ AttachedTo(GameOf(c)) /\ retry' = [retry EXCEPT ![c] = attached]
       \/ retry' = [retry EXCEPT ![c] = "off"]
    /\ UNCHANGED <<gameVars, attached, paused, uiVars, callVars, detVars, taskVars, toggle>>

\* The resolve returns, and its outcome goes to what is attached by now.
RetryApplies(c) ==
    /\ retry[c] \in Calls
    /\ retry' = [retry EXCEPT ![c] = "asleep"]
    /\ UNCHANGED <<gameVars, attached, paused, uiVars, callVars, detVars, taskVars, toggle>>
-----------------------------------------------------------------------------
\* set_freeze, for a freeze that runs as a loop of the host.
Wants(x, g, on) ==
    /\ toggle[x].step = "none"
    /\ toggle' = [toggle EXCEPT ![x] =
                     [step |-> IF on THEN "on" ELSE "off", game |-> g, sess |-> None]]
    /\ UNCHANGED <<gameVars, attached, paused, ui, callVars, detVars, retry, taskVars>>

\* The switch of the card flips at once.
Flip(g) ==
    /\ ui = [kind |-> "attached", game |-> g]
    /\ Wants("ui", g, ~switch[g])
    /\ switch' = [switch EXCEPT ![g] = ~@]

\* The hotkey looks whether a loop is registered.
Press(g) ==
    /\ AttachedTo(g)
    /\ Wants("hotkey", g, handles[<<"freeze", g>>] = None)
    /\ UNCHANGED switch

\* The UI is told of a hotkey that worked, and takes back a click that failed.
Told(x, ok) ==
    LET g == toggle[x].game
        on == toggle[x].step # "off"
    IN  switch' = IF ok = (x = "hotkey") THEN [switch EXCEPT ![g] = IF ok THEN on ELSE ~on]
                  ELSE switch

\* On: the session is cloned under the read lock, which is then released.
SetOn(x) ==
    /\ toggle[x].step = "on"
    /\ x = "ui" => det["user"] = "off"
    /\ IF AttachedTo(toggle[x].game)
          THEN /\ toggle' = [toggle EXCEPT ![x].step = "spawn", ![x].sess = attached]
               /\ UNCHANGED switch
          ELSE toggle' = [toggle EXCEPT ![x] = NoToggle] /\ Told(x, FALSE)
    /\ UNCHANGED <<gameVars, attached, paused, ui, callVars, detVars, retry, taskVars>>

\* The loop is spawned and registered.
SetSpawn(x) ==
    /\ toggle[x].step = "spawn"
    /\ Spawn(toggle[x].sess, <<"freeze", toggle[x].game>>)
    /\ toggle' = [toggle EXCEPT ![x] = NoToggle]
    /\ Told(x, TRUE)
    /\ UNCHANGED <<gameVars, attached, paused, ui, callVars, detVars, retry>>

\* Off: the loop that is registered is aborted.
SetOff(x) ==
    /\ toggle[x].step = "off"
    /\ x = "ui" => det["user"] = "off"
    /\ LET key == <<"freeze", toggle[x].game>>
       IN  /\ aborted' = (aborted \cup {handles[key]}) \ {None}
           /\ handles' = [handles EXCEPT ![key] = None]
    /\ toggle' = [toggle EXCEPT ![x] = NoToggle]
    /\ Told(x, TRUE)
    /\ UNCHANGED <<gameVars, attached, paused, ui, callVars, detVars, retry, task>>

CallStep(c) ==
    Connect(c) \/ ConnectFails(c) \/ Resolve(c) \/ Publish(c) \/ Watch(c) \/ Sweep(c) \/ Probe(c)
DetachStep(d) == AbortLoops(d) \/ Take(d) \/ Resume(d)
ToggleStep(x) == SetOn(x) \/ SetSpawn(x) \/ SetOff(x)

Next ==
    \/ \E g \in Games : Launch(g) \/ Exit(g)
    \/ \E c \in Calls, g \in Games : Start(c, g)
    \/ \E c \in Calls : CallStep(c) \/ Notice(c) \/ RetryWakes(c) \/ RetryApplies(c)
    \/ Deactivate
    \/ \E d \in Detachers : DetachStep(d)
    \/ \E k \in Tasks : LoopEnds(k)
    \/ \E g \in Games : "ui" \in Togglers /\ Flip(g)
    \/ \E g \in Games : "hotkey" \in Togglers /\ Press(g)
    \/ \E x \in Togglers : ToggleStep(x)

\* Every task and command that can go on does; nothing is assumed of the user,
\* nor of the game.
Fairness ==
    /\ \A c \in Calls : WF_vars(CallStep(c)) /\ WF_vars(Notice(c)) /\ WF_vars(RetryApplies(c))
    /\ \A d \in Detachers : WF_vars(DetachStep(d))
    /\ \A k \in Tasks : WF_vars(LoopEnds(k))
    /\ \A x \in Togglers : WF_vars(ToggleStep(x))

Spec == Init /\ [][Next]_vars /\ Fairness
-----------------------------------------------------------------------------
\* The process watcher is paused only for an attach in flight, an attached game
\* or a detach that will resume it, however attaches and detaches overlap.  The
\* one exception is an attach whose worker panicked after the pipe was open.
PausedWhileBusy ==
    paused =>
        \/ attached # None
        \/ \E c \in Calls : call[c] \in {"connect", "resolve", "publish", "panicked"}
        \/ \E d \in Detachers : det[d] \in {"take", "resume"}

\* "When the game dies we auto-detach": a dead process does not stay attached.
ExitNoticed == \A s \in Calls : attached = s /\ ~Alive(s) ~> attached # s

\* do_detach, step 4: "Drop `Attached` - this drops `Ue5Session`, which closes
\* the pipe".  A session that is over is let go of by every task, or else the
\* pipe of the running game stays taken and no later attach can connect.
DetachClosesPipe ==
    \A s \in Calls :
        call[s] \in {"done", "panicked"} /\ attached # s ~> ~Held(s) \/ ~Alive(s)
=============================================================================
