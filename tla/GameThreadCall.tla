--------------------------- MODULE GameThreadCall ---------------------------
(***************************************************************************)
(* The game-thread executor: a caller publishes a job in a set of statics, *)
(* arms a hardware breakpoint on the game's threads, and waits; the first  *)
(* game thread to hit it runs the job in a vectored exception handler.     *)
(*                                                                         *)
(*   crates/batman-lod-dll/src/gthread.rs    (grace, cached game thread)   *)
(*   crates/glacier-007-dll/src/gthread.rs   (neither)                     *)
(*                                                                         *)
(* Every load and store of a static that another thread could separate     *)
(* from the next is a step of its own.  The calls of one caller follow one *)
(* another.  The callers are the pipe worker and, in the UE5 DLL, also the *)
(* threads of the Lua runtime, whose call_ufunction takes no lock either.  *)
(* An SEH fault in the engine is an execution like any other, its answer   *)
(* being the fault.  A job that runs into the breakpoint itself finds      *)
(* CLAIMED set and goes on; that nested trap is part of Run.               *)
(***************************************************************************)
EXTENDS Naturals, FiniteSets

CONSTANTS
    Threads,   \* the game's threads
    Callers,   \* the threads of the DLL that make calls
    MaxCalls,  \* bound: the calls of each caller
    None,
    Expired,   \* what a caller is told on a timeout
    Grace,     \* a claimed job is waited for past the deadline (UE5 DLL)
    Caches,    \* the claiming thread is remembered and armed first (UE5 DLL)
    Paces      \* how executions are scheduled: "steady" or "raced"

Jobs == Callers \X (1 .. MaxCalls)

ASSUME GameThreadAssumption ==
    /\ MaxCalls \in Nat
    /\ None \notin Threads \cup Jobs /\ Expired \notin Jobs \cup {None}
    /\ {Grace, Caches} \subseteq BOOLEAN
    /\ Paces \subseteq {"steady", "raced"}

VARIABLES
    pace,      \* how this execution is scheduled (see Steady)
    armed,     \* ARMED: the handler may take a job
    claimed,   \* CLAIMED
    done,      \* DONE
    job,       \* JOB_*: the job published last
    ret,       \* JOB_RET / PARMS: the job whose answer was stored last
    gameTid,   \* GAME_TID: the thread that ran the last job
    dr0,       \* the threads whose DR0 is armed
    handlers,  \* the callers whose vectored handler is installed
    th,        \* where each game thread is
    hold,      \* the job a claiming thread has loaded
    pc,        \* where each caller is
    calls,     \* the number of calls each has made
    mine,      \* the threads it has armed in this call
    runs,      \* how often the engine has executed each job
    outcome    \* what each caller was told: a job's answer, or Expired

statics == <<armed, claimed, done, job, ret, gameTid>>
threadVars == <<th, hold, runs>>
callerVars == <<pc, calls, mine, outcome>>
vars == <<pace, statics, dr0, handlers, threadVars, callerVars>>

Places == {"game", "trapped", "checked", "claimed", "loaded", "ran", "leaving", "dead"}
Steps == {"idle", "publish", "gate", "arm", "fast", "cold", "grace", "ungate",
          "disarm", "remove", "read"}

TypeOK ==
    /\ pace \in Paces
    /\ armed \in BOOLEAN /\ claimed \in BOOLEAN /\ done \in BOOLEAN
    /\ job \in Jobs \cup {None} /\ ret \in Jobs \cup {None}
    /\ gameTid \in Threads \cup {None}
    /\ dr0 \subseteq Threads /\ handlers \subseteq Callers
    /\ th \in [Threads -> Places] /\ hold \in [Threads -> Jobs \cup {None}]
    /\ pc \in [Callers -> Steps] /\ calls \in [Callers -> 0 .. MaxCalls]
    /\ mine \in [Callers -> SUBSET Threads]
    /\ runs \in [Jobs -> Nat]
    /\ outcome \in [Jobs -> Jobs \cup {None, Expired}]

Init ==
    /\ pace \in Paces
    /\ armed = FALSE /\ claimed = FALSE /\ done = FALSE
    /\ job = None /\ ret = None /\ gameTid = None
    /\ dr0 = {} /\ handlers = {}
    /\ th = [t \in Threads |-> "game"] /\ hold = [t \in Threads |-> None]
    /\ pc = [c \in Callers |-> "idle"] /\ calls = [c \in Callers |-> 0]
    /\ mine = [c \in Callers |-> {}]
    /\ runs = [j \in Jobs |-> 0] /\ outcome = [j \in Jobs |-> None]

Current(c) == <<c, calls[c]>>

\* What a steady execution leaves out, and a raced one does not:
\*   - a caller, who looks every 2 ms, ends its wait while a thread is between
\*     its look at DONE and its exchange on CLAIMED;
\*   - a handler is entered between the caller's last look and its store of
\*     ARMED, the next instruction;
\*   - a trap of one call's teardown is still to be dispatched when the next
\*     call installs its handler;
\*   - an engine call outlasts the grace period of 2 s.
Steady == pace = "steady"

\* No thread is between its look at DONE and its exchange.
NoneChecked == \A t \in Threads : th[t] # "checked"
-----------------------------------------------------------------------------
\* A game thread.
Goes(t, place) == th' = [th EXCEPT ![t] = place]

\* It reaches the rendezvous with its breakpoint armed.
Trap(t) ==
    /\ th[t] = "game" /\ t \in dr0
    /\ Goes(t, "trapped")
    /\ UNCHANGED <<pace, statics, dr0, handlers, hold, runs, callerVars>>

\* veh: a job is pending and not done.  Otherwise the thread is only disarmed.
Enter(t) ==
    /\ th[t] = "trapped" /\ handlers # {}
    /\ Steady => \A c \in Callers : pc[c] # "ungate"
    /\ Goes(t, IF armed /\ ~done THEN "checked" ELSE "leaving")
    /\ UNCHANGED <<pace, statics, dr0, handlers, hold, runs, callerVars>>

\* The handler is gone before the exception is dispatched: nobody handles it,
\* and the game dies.
Unhandled(t) ==
    /\ th[t] = "trapped" /\ handlers = {}
    /\ Goes(t, "dead")
    /\ UNCHANGED <<pace, statics, dr0, handlers, hold, runs, callerVars>>

\* A deliberate error: CLAIMED is stored, not exchanged.
Claim_Unexchanged(t) ==
    /\ th[t] = "checked"
    /\ claimed' = TRUE
    /\ Goes(t, "claimed")
    /\ UNCHANGED <<pace, armed, done, job, ret, gameTid, dr0, handlers, hold, runs, callerVars>>

\* The compare_exchange on CLAIMED.
Claim(t) ==
    /\ th[t] = "checked"
    /\ claimed' = TRUE
    /\ Goes(t, IF claimed THEN "leaving" ELSE "claimed")
    /\ UNCHANGED <<pace, armed, done, job, ret, gameTid, dr0, handlers, hold, runs, callerVars>>

Load(t) ==
    /\ th[t] = "claimed"
    /\ hold' = [hold EXCEPT ![t] = job]
    /\ Goes(t, "loaded")
    /\ UNCHANGED <<pace, statics, dr0, handlers, runs, callerVars>>

\* The engine call, under SEH, and the store of its answer.
Run(t) ==
    /\ th[t] = "loaded"
    /\ runs' = [runs EXCEPT ![hold[t]] = @ + 1]
    /\ ret' = hold[t]
    /\ Goes(t, "ran")
    /\ UNCHANGED <<pace, armed, claimed, done, job, gameTid, dr0, handlers, hold, callerVars>>

Finish(t) ==
    /\ th[t] = "ran"
    /\ done' = TRUE
    /\ gameTid' = IF Caches THEN t ELSE gameTid
    /\ Goes(t, "leaving")
    /\ UNCHANGED <<pace, armed, claimed, job, ret, dr0, handlers, hold, runs, callerVars>>

\* The context it resumes with has DR0 clear, whoever armed it meanwhile.
Leave(t) ==
    /\ th[t] = "leaving"
    /\ dr0' = dr0 \ {t}
    /\ hold' = [hold EXCEPT ![t] = None]
    /\ Goes(t, "game")
    /\ UNCHANGED <<pace, statics, handlers, runs, callerVars>>
-----------------------------------------------------------------------------
\* A caller.
At(c, step, next) == pc[c] = step /\ pc' = [pc EXCEPT ![c] = next]

\* A deliberate error: DONE of the last call stays set.
Reset_KeepsDone(c) ==
    /\ calls[c] < MaxCalls
    /\ At(c, "idle", "publish")
    /\ calls' = [calls EXCEPT ![c] = @ + 1]
    /\ claimed' = FALSE
    /\ UNCHANGED <<pace, armed, done, job, ret, gameTid, dr0, handlers, threadVars, mine, outcome>>

Reset(c) ==
    /\ calls[c] < MaxCalls
    /\ At(c, "idle", "publish")
    /\ calls' = [calls EXCEPT ![c] = @ + 1]
    /\ done' = FALSE /\ claimed' = FALSE
    /\ UNCHANGED <<pace, armed, job, ret, gameTid, dr0, handlers, threadVars, mine, outcome>>

Publish(c) ==
    /\ At(c, "publish", "gate")
    /\ job' = Current(c)
    /\ UNCHANGED <<pace, armed, claimed, done, ret, gameTid, dr0, handlers, threadVars,
                   calls, mine, outcome>>

\* AddVectoredExceptionHandler, then ARMED.
Gate(c) ==
    /\ At(c, "gate", "arm")
    /\ Steady => \A t \in Threads : th[t] # "trapped"
    /\ handlers' = handlers \cup {c}
    /\ armed' = TRUE
    /\ UNCHANGED <<pace, claimed, done, job, ret, gameTid, dr0, threadVars, calls, mine, outcome>>

\* Only the cached game thread, for 750 ms.
ArmFast(c) ==
    /\ gameTid # None
    /\ At(c, "arm", "fast")
    /\ mine' = [mine EXCEPT ![c] = {gameTid}]
    /\ dr0' = dr0 \cup {gameTid}
    /\ UNCHANGED <<pace, statics, handlers, threadVars, calls, outcome>>

\* A deliberate error: the thread armed first is not on the list to disarm.
ArmCold_ForgetsFast(c) ==
    /\ ~done
    /\ At(c, "arm", "cold") \/ At(c, "fast", "cold")
    /\ gameTid' = None
    /\ \E got \in SUBSET (Threads \ mine[c]) :
        /\ mine[c] \cup got # {}
        /\ mine' = [mine EXCEPT ![c] = got]
        /\ dr0' = dr0 \cup got
    /\ UNCHANGED <<pace, armed, claimed, done, job, ret, handlers, threadVars, calls, outcome>>

\* Every thread not armed yet that can be, at once (no thread is cached, or it
\* could not be armed) or when the cached one did not come by.
ArmCold(c) ==
    /\ ~done
    /\ At(c, "arm", "cold") \/ At(c, "fast", "cold")
    /\ gameTid' = None
    /\ \E got \in SUBSET (Threads \ mine[c]) :
        /\ mine[c] \cup got # {}
        /\ mine' = [mine EXCEPT ![c] = @ \cup got]
        /\ dr0' = dr0 \cup got
    /\ UNCHANGED <<pace, armed, claimed, done, job, ret, handlers, threadVars, calls, outcome>>

\* No thread could be armed (the game is exiting): the call is given up.
NoThreads(c) ==
    /\ ~done
    /\ At(c, "arm", "idle")
    /\ armed' = FALSE
    /\ handlers' = handlers \ {c}
    /\ gameTid' = None
    /\ outcome' = [outcome EXCEPT ![Current(c)] = Expired]
    /\ UNCHANGED <<pace, claimed, done, job, ret, dr0, threadVars, calls, mine>>

\* DONE is seen, the answer of a straggler perhaps.
Woken(c) ==
    /\ done /\ (Steady => NoneChecked)
    /\ \E step \in {"arm", "fast", "cold"} : At(c, step, "ungate")
    /\ UNCHANGED <<pace, statics, dr0, handlers, threadVars, calls, mine, outcome>>

\* A deliberate error: the deadline applies to a claimed job only.
Deadline_WaitsForClaim(c) ==
    /\ ~done /\ claimed /\ (Steady => NoneChecked)
    /\ At(c, "cold", IF Grace THEN "grace" ELSE "ungate")
    /\ UNCHANGED <<pace, statics, dr0, handlers, threadVars, calls, mine, outcome>>

\* The deadline passes: a job claimed by then has the grace period to finish.
Deadline(c) ==
    /\ ~done /\ (Steady => NoneChecked)
    /\ At(c, "cold", IF Grace /\ claimed THEN "grace" ELSE "ungate")
    /\ UNCHANGED <<pace, statics, dr0, handlers, threadVars, calls, mine, outcome>>

GraceEnds(c) ==
    /\ Steady => done /\ NoneChecked
    /\ At(c, "grace", "ungate")
    /\ UNCHANGED <<pace, statics, dr0, handlers, threadVars, calls, mine, outcome>>

\* A deliberate error: the handler goes before the breakpoints do.
Ungate_RemovesHandler(c) ==
    /\ At(c, "ungate", "disarm")
    /\ armed' = FALSE
    /\ handlers' = handlers \ {c}
    /\ UNCHANGED <<pace, claimed, done, job, ret, gameTid, dr0, threadVars, calls, mine, outcome>>

Ungate(c) ==
    /\ At(c, "ungate", "disarm")
    /\ armed' = FALSE
    /\ UNCHANGED <<pace, claimed, done, job, ret, gameTid, dr0, handlers, threadVars,
                   calls, mine, outcome>>

Disarm(c) ==
    /\ At(c, "disarm", "remove")
    /\ dr0' = dr0 \ mine[c]
    /\ mine' = [mine EXCEPT ![c] = {}]
    /\ UNCHANGED <<pace, statics, handlers, threadVars, calls, outcome>>

Remove(c) ==
    /\ At(c, "remove", "read")
    /\ handlers' = handlers \ {c}
    /\ UNCHANGED <<pace, statics, dr0, threadVars, calls, mine, outcome>>

\* DONE decides what the caller is told, and the answer is whatever is stored.
Read(c) ==
    /\ At(c, "read", "idle")
    /\ outcome' = [outcome EXCEPT ![Current(c)] = IF done THEN ret ELSE Expired]
    /\ UNCHANGED <<pace, statics, dr0, handlers, threadVars, calls, mine>>

ThreadStep(t) ==
    Enter(t) \/ Unhandled(t) \/ Claim(t) \/ Load(t) \/ Run(t) \/ Finish(t) \/ Leave(t)

CallerStep(c) ==
    \/ Publish(c) \/ Gate(c) \/ ArmFast(c) \/ ArmCold(c) \/ NoThreads(c) \/ Woken(c)
    \/ Deadline(c) \/ GraceEnds(c) \/ Ungate(c) \/ Disarm(c) \/ Remove(c) \/ Read(c)

Next ==
    \/ \E t \in Threads : Trap(t) \/ ThreadStep(t)
    \/ \E c \in Callers : Reset(c) \/ CallerStep(c)

\* A thread in the handler and a caller with a deadline go on; that the game
\* ever reaches the rendezvous is not assumed.
Fairness ==
    /\ \A t \in Threads : WF_vars(ThreadStep(t))
    /\ \A c \in Callers : WF_vars(CallerStep(c))

Spec == Init /\ [][Next]_vars /\ Fairness
-----------------------------------------------------------------------------
\* What has become of a job, in the words of the promise.  An execution after
\* the timeout, a second one, or the answer of another job has none.
StateOf(j) ==
    CASE outcome[j] = Expired /\ runs[j] = 0 -> "timeout"
      [] outcome[j] = j /\ runs[j] = 1 -> "ran"
      [] outcome[j] = None /\ j[2] > calls[j[1]] -> "new"
      [] outcome[j] = None /\ j[2] = calls[j[1]] /\ runs[j] = 0 -> "pending"
      [] outcome[j] = None /\ j[2] = calls[j[1]] /\ runs[j] = 1 -> "executed"
      [] OTHER -> "broken"

\* Of a raced execution nothing is promised.
Promised(j) == IF Steady THEN StateOf(j) ELSE "new"

P == INSTANCE GameThreadPromise WITH state <- [j \in Jobs |-> Promised(j)]

\* Every call of a steady execution keeps the promise: executed at most once and
\* while its caller waits, its own answer, and no execution after a timeout.
KeepsPromise == P!Promise

\* Every breakpoint that is armed is on the list of a call that will disarm it
\* and has its handler installed until then, however traps and teardowns
\* interleave: each trap is raised with a handler in place.  (It may be gone by
\* the time the exception is dispatched: nothing makes the teardown wait.)
BreakpointsOwned == \A t \in dr0 : \E c \in handlers : t \in mine[c]

\* Between calls the game is left as it was: no breakpoint armed, no handler
\* installed, the gate closed; and in a steady execution no thread that could
\* still run an old job.
LeftClean ==
    (\A c \in Callers : pc[c] = "idle") =>
        /\ dr0 = {} /\ handlers = {} /\ ~armed
        /\ Steady => \A t \in Threads : th[t] \notin {"checked", "claimed", "loaded", "ran"}

\* However badly it is timed, one call is executed at most once, and is said to
\* have run only if it was: what the exchange on CLAIMED is there for.  Of a
\* raced execution this is said of its first call: a thread caught by the
\* teardown may meet the flags of the next.
OncePerCall ==
    Steady \/ (\A c \in Callers : calls[c] <= 1) =>
        \A j \in Jobs : runs[j] <= 1 /\ (outcome[j] = j => runs[j] = 1)

\* A call is answered, whether or not the game ever reaches the rendezvous.
CallAnswered == \A c \in Callers : pc[c] # "idle" ~> pc[c] = "idle"

\* GtOutcome::Timeout: "The call did NOT run."
TimedOutNeverRuns == \A j \in Jobs : outcome[j] = Expired => runs[j] = 0

\* "Single concurrent call: ... the handoff statics are sound": the answer a
\* caller gets is that of its own job.
OwnAnswer == \A j \in Jobs : outcome[j] \in Jobs => outcome[j] = j
=============================================================================
