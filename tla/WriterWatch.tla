----------------------------- MODULE WriterWatch -----------------------------
(***************************************************************************)
(* Who writes this address?  A write watchpoint in debug register 0 of     *)
(* every thread of the game, set by the DLL (FindWriter) or by a debugger  *)
(* from outside (discover watch-write).                                    *)
(*                                                                         *)
(*   src/crates/glacier-007-dll/src/find_writer.rs                         *)
(*   src/crates/discover/src/watch_write.rs, handlers/watch_write.rs       *)
(*                                                                         *)
(* A change of a thread's registers takes effect as a whole, and fails for *)
(* a thread that is gone; one that exists may refuse to be armed.  Under a *)
(* debugger the whole game stands still while an event is handled.         *)
(***************************************************************************)
EXTENDS FiniteSets

CONSTANTS GameThreads, FirstThreads  \* all the game ever has, those it starts with

ASSUME WatchAssumption == FirstThreads \subseteq GameThreads /\ FirstThreads # {}

VARIABLES
    tool,    \* who watches: "dll" or "debugger"
    thread,  \* the game's threads: their step
    armed,   \* the threads with register 0 set
    watch,   \* the watcher: its step, the threads it has to visit, those it keeps in mind
    hit,     \* HIT, and whose registers the HIT_ statics hold
    answer   \* what the watcher reports

watchVars == <<tool, thread, armed, watch, hit, answer>>

Nobody == "nobody"
Alive == {t \in GameThreads : thread[t] \notin {"unborn", "gone", "crashed"}}

WatchTypeOK ==
    /\ tool \in {"dll", "debugger"}
    /\ thread \in [GameThreads ->
         {"unborn", "run", "trapped", "stores", "disarms", "event", "gone", "crashed"}]
    /\ armed \subseteq GameThreads
    /\ watch \in [at : {"idle", "arm", "wait", "clear", "detach", "done"},
                 todo : SUBSET GameThreads, known : SUBSET GameThreads]
    /\ hit \in [is : BOOLEAN, of : GameThreads \cup {Nobody}]
    /\ answer \in [is : {"none", "error", "found"}, of : GameThreads \cup {Nobody}]

WatchInit ==
    /\ tool \in {"dll", "debugger"}
    /\ thread = [t \in GameThreads |-> IF t \in FirstThreads THEN "run" ELSE "unborn"]
    /\ armed = {} /\ watch = [at |-> "idle", todo |-> {}, known |-> {}]
    /\ hit = [is |-> FALSE, of |-> Nobody] /\ answer = [is |-> "none", of |-> Nobody]

Set(t, step) == thread' = [thread EXCEPT ![t] = step]

\* With a debugger, an event that nobody has taken stops every thread.
Suspended == \E t \in GameThreads : thread[t] = "event"

-----------------------------------------------------------------------------
(* The game. *)

GameRuns == UNCHANGED <<tool, watch, answer>>

ThreadStarts(t) ==
    /\ thread[t] = "unborn" /\ ~Suspended
    /\ Set(t, IF tool = "debugger" /\ watch.at \notin {"idle", "done"} THEN "event" ELSE "run")
    /\ UNCHANGED <<armed, hit>> /\ GameRuns

ThreadEnds(t) ==
    /\ thread[t] = "run" /\ ~Suspended /\ Alive # {t}
    /\ Set(t, "gone") /\ armed' = armed \ {t}
    /\ UNCHANGED hit /\ GameRuns

\* A thread writes the address with its register set.
Writes(t) ==
    /\ thread[t] = "run" /\ t \in armed /\ ~Suspended
    /\ Set(t, IF tool = "debugger" THEN "event" ELSE "trapped")
    /\ UNCHANGED <<armed, hit>> /\ GameRuns

\* The vectored handler claims the hit, or sees that it is claimed.  Without the
\* handler, or the debugger, nobody takes the exception.
Handled(t) ==
    /\ thread[t] = "trapped"
    /\ IF watch.at = "done"
         THEN Set(t, "crashed") /\ UNCHANGED hit
         ELSE /\ Set(t, IF hit.is THEN "disarms" ELSE "stores")
              /\ hit' = [hit EXCEPT !.is = TRUE]
    /\ UNCHANGED armed /\ GameRuns

Stores(t) ==
    /\ thread[t] = "stores"
    /\ hit' = [hit EXCEPT !.of = t] /\ Set(t, "disarms")
    /\ UNCHANGED armed /\ GameRuns

Disarms(t) ==
    /\ thread[t] = "disarms"
    /\ armed' = armed \ {t} /\ Set(t, "run")
    /\ UNCHANGED hit /\ GameRuns

-----------------------------------------------------------------------------
(* The watcher. *)

\* AddVectoredExceptionHandler, or DebugActiveProcess and the first burst of
\* events; then the threads there are now.
Begin ==
    /\ watch.at = "idle"
    /\ watch' = [at |-> "arm", todo |-> Alive, known |-> {}]
    /\ hit' = [hit EXCEPT !.is = FALSE]
    /\ UNCHANGED <<tool, thread, armed, answer>>

\* set_dr0 for one of them: a thread that is armed is kept in mind.
Arm(t) ==
    /\ watch.at = "arm" /\ t \in watch.todo
    /\ \E ok \in {b \in BOOLEAN : b => t \in Alive} :
         /\ armed' = IF ok THEN armed \cup {t} ELSE armed
         /\ watch' = [watch EXCEPT !.todo = @ \ {t}, !.known = IF ok THEN @ \cup {t} ELSE @]
    /\ UNCHANGED <<tool, thread, hit, answer>>

Armed ==
    /\ watch.at = "arm" /\ watch.todo = {}
    /\ IF watch.known = {}
         THEN watch' = [watch EXCEPT !.at = "detach"] /\ answer' = [answer EXCEPT !.is = "error"]
         ELSE watch' = [watch EXCEPT !.at = "wait"] /\ UNCHANGED answer
    /\ UNCHANGED <<tool, thread, armed, hit>>

\* A deliberate error: a thread that starts during the watch is armed and not kept in mind.
NewThread_Forgotten(t) ==
    /\ watch.at = "wait" /\ thread[t] = "event" /\ t \notin watch.known
    /\ \E ok \in BOOLEAN : armed' = IF ok THEN armed \cup {t} ELSE armed
    /\ Set(t, "run") /\ UNCHANGED <<tool, watch, hit, answer>>

\* The debugger arms a thread that starts, and keeps it in mind even if it refuses.
NewThread(t) ==
    /\ watch.at = "wait" /\ thread[t] = "event" /\ t \notin watch.known
    /\ \E ok \in BOOLEAN : armed' = IF ok THEN armed \cup {t} ELSE armed
    /\ watch' = [watch EXCEPT !.known = @ \cup {t}]
    /\ Set(t, "run") /\ UNCHANGED <<tool, hit, answer>>

Finished(is, of) ==
    /\ watch' = [watch EXCEPT !.at = "clear", !.todo = watch.known]
    /\ answer' = [is |-> is, of |-> of]

\* The debugger sees a single step of an armed thread: it takes the registers and
\* is done, or cannot read what it needs and waits for the next write.
Captures(t) ==
    /\ watch.at = "wait" /\ thread[t] = "event" /\ t \in watch.known
    /\ \/ Finished("found", t)
       \/ UNCHANGED <<watch, answer>>
    /\ Set(t, "run") /\ UNCHANGED <<tool, armed, hit>>

\* The DLL polls HIT, and reads the statics when the teardown is done.
SeesHit ==
    /\ watch.at = "wait" /\ tool = "dll" /\ hit.is
    /\ Finished("found", Nobody)
    /\ UNCHANGED <<tool, thread, armed, hit>>

Deadline ==
    /\ watch.at = "wait" /\ ~hit.is
    /\ Finished("error", Nobody)
    /\ UNCHANGED <<tool, thread, armed, hit>>

\* A thread that has gone is forgotten by the debugger; there is nothing to clear.
Clear(t) ==
    /\ watch.at = "clear" /\ t \in watch.todo
    /\ armed' = armed \ {t} /\ watch' = [watch EXCEPT !.todo = @ \ {t}]
    /\ UNCHANGED <<tool, thread, hit, answer>>

Cleared_W ==
    /\ watch.at = "clear" /\ watch.todo = {}
    /\ watch' = [watch EXCEPT !.at = "detach"]
    /\ UNCHANGED <<tool, thread, armed, hit, answer>>

\* RemoveVectoredExceptionHandler, or DebugActiveProcessStop.  A single step that
\* the debugger has not taken goes to the game; other threads just run on.
Detach ==
    /\ watch.at = "detach"
    /\ watch' = [watch EXCEPT !.at = "done"]
    /\ thread' = [t \in GameThreads |->
         IF thread[t] # "event" THEN thread[t] ELSE IF t \in watch.known THEN "crashed" ELSE "run"]
    /\ answer' = IF tool = "dll" /\ answer.is = "found" THEN [answer EXCEPT !.of = hit.of] ELSE answer
    /\ UNCHANGED <<tool, armed, hit>>

Watcher ==
    \/ Begin \/ Armed \/ SeesHit \/ Deadline \/ Cleared_W \/ Detach
    \/ \E t \in GameThreads : Arm(t) \/ NewThread(t) \/ Captures(t) \/ Clear(t)

WatchNext ==
    \/ Watcher
    \/ \E t \in GameThreads :
         ThreadStarts(t) \/ ThreadEnds(t) \/ Writes(t) \/ Handled(t) \/ Stores(t) \/ Disarms(t)

WatchSpec == WatchInit /\ [][WatchNext]_watchVars

-----------------------------------------------------------------------------

\* "DR registers are cleared on every known thread before detach": once a watch is
\* over, however it ended and whatever threads came and went meanwhile, no living
\* thread of the game is left with a register that nobody answers for.
WatchLeavesClean == watch.at = "done" => armed \cap Alive = {}
=============================================================================
