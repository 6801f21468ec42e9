----------------------------- MODULE DllFreeze -----------------------------
(***************************************************************************)
(* A freeze that runs inside the DLL (Glacier's god mode): the registry of *)
(* slots and the thread that re-stamps them, and the host's side of it,    *)
(* set_freeze and do_detach, with the locks they take.                     *)
(*                                                                         *)
(*   crates/glacier-007-dll/src/{freeze,worker}.rs                         *)
(*   crates/glacier-host/src/{backend,client}.rs                           *)
(*   crates/app/src-tauri/src/{commands,keybinds,state}.rs                 *)
(*                                                                         *)
(* The thread is independent of the pipe: what is not stopped by its       *)
(* handle goes on, so the handles the host keeps (dll_freeze_handles) are  *)
(* what the player's switch depends on.  state.attached is a parking_lot   *)
(* RwLock, whose readers queue behind a writer that waits.                 *)
(***************************************************************************)
EXTENDS Naturals, FiniteSets

CONSTANTS
    Features,   \* the freezes: each holds a box of the game's memory
    MaxSlots,   \* bound: the freezes started in one process of the game
    Togglers,   \* who runs set_freeze: "ui", on the main thread, or "hotkey"
    None

ASSUME FreezeAssumption ==
    /\ MaxSlots \in Nat
    /\ Togglers \subseteq {"ui", "hotkey"}
    /\ None \notin Nat \cup Features

ASSUME NobodyAssumption == None \notin {"ui", "hotkey", "user", "watch", "retry"}

Slots == 1 .. MaxSlots
Detachers == {"user", "watch"}

VARIABLES
    owner,     \* what each slot of this process was started for, or None
    list,      \* FREEZE: the slots registered, by their handles
    active,    \* those whose active flag is set
    todo,      \* the slots the pass in progress has still to visit
    box,       \* what each feature's box holds: "held", "hurt" or "gone"
    orphans,   \* history: the slots that were active when their pipe was lost
    session,   \* state.attached: "none", or how its pipe is
    handles,   \* dll_freeze_handles: feature -> slot
    switch,    \* freezeOnByFeature of the UI
    toggle,    \* set_freeze of each toggler: its step, feature and slot
    det,       \* do_detach, by the user or by the exit watch
    drained,   \* the handles each has taken and not stopped yet
    readers,   \* who has read-locked state.attached
    writer,    \* who has write-locked it, or waits for its readers, or None
    mutex      \* who holds the lock of dll_freeze_handles, or None

dllVars == <<owner, list, active, todo, box, orphans>>
locks == <<readers, writer, mutex>>
detVars == <<det, drained>>
vars == <<dllVars, session, handles, switch, toggle, detVars, locks>>

NoToggle == [step |-> "none", f |-> None, slot |-> None]

InFlight ==
    [step : {"on", "start", "off"}, f : Features, slot : {None}]
        \cup [step : {"insert", "unread", "stop"}, f : Features, slot : Slots]

TypeOK ==
    /\ owner \in [Slots -> Features \cup {None}]
    /\ list \subseteq Slots /\ active \subseteq list /\ todo \subseteq Slots
    /\ box \in [Features -> {"held", "hurt", "gone"}]
    /\ orphans \subseteq Slots
    /\ session \in {"none", "open", "broken", "dead"}
    /\ handles \in [Features -> Slots \cup {None}]
    /\ switch \in [Features -> BOOLEAN]
    /\ toggle \in [Togglers -> {NoToggle} \cup InFlight]
    /\ det \in [Detachers -> {"off", "drain", "read", "stop", "take", "taking"}]
    /\ drained \in [Detachers -> SUBSET Slots]
    /\ readers \subseteq Togglers \cup Detachers
    /\ writer \in Detachers \cup {"retry", None}
    /\ mutex \in Togglers \cup Detachers \cup {None}

FreshDll ==
    /\ owner' = [h \in Slots |-> None]
    /\ list' = {} /\ active' = {} /\ todo' = {} /\ orphans' = {}
    /\ box' = [f \in Features |-> "hurt"]

Init ==
    /\ owner = [h \in Slots |-> None]
    /\ list = {} /\ active = {} /\ todo = {} /\ orphans = {}
    /\ box = [f \in Features |-> "hurt"]
    /\ session = "none"
    /\ handles = [f \in Features |-> None]
    /\ switch = [f \in Features |-> FALSE]
    /\ toggle = [x \in Togglers |-> NoToggle]
    /\ det = [d \in Detachers |-> "off"]
    /\ drained = [d \in Detachers |-> {}]
    /\ readers = {} /\ writer = None /\ mutex = None
-----------------------------------------------------------------------------
\* The freeze thread.

\* A deliberate error: the list is copied before the stopped slots are dropped.
Pass_CopiesFirst ==
    /\ todo = {} /\ list # {}
    /\ list' = list \cap active
    /\ todo' = list
    /\ UNCHANGED <<owner, active, box, orphans, session, handles, switch, toggle, detVars, locks>>

\* tick: the slots that were stopped are dropped, the others copied.
Pass ==
    /\ todo = {} /\ list # {}
    /\ list' = list \cap active
    /\ todo' = list'
    /\ UNCHANGED <<owner, active, box, orphans, session, handles, switch, toggle, detVars, locks>>

First(set) == CHOOSE h \in set : \A other \in set : h <= other

\* A deliberate error: a box that is gone ends the pass.
Visit_Returns ==
    /\ todo # {}
    /\ LET f == owner[First(todo)]
       IN  /\ todo' = IF box[f] = "gone" THEN {} ELSE todo \ {First(todo)}
           /\ box' = [box EXCEPT ![f] = IF @ = "gone" THEN @ ELSE "held"]
    /\ UNCHANGED <<owner, list, active, orphans, session, handles, switch, toggle, detVars, locks>>

\* A slot of the copy is stamped, in the order of the registrations, whether or
\* not it has been stopped meanwhile.  A box that cannot be read, or does not
\* hold a plausible number, is skipped.
Visit ==
    /\ todo # {}
    /\ todo' = todo \ {First(todo)}
    /\ box' = [box EXCEPT ![owner[First(todo)]] = IF @ = "gone" THEN @ ELSE "held"]
    /\ UNCHANGED <<owner, list, active, orphans, session, handles, switch, toggle, detVars, locks>>

\* The game hurts the player, or frees the box (its address may be used again).
GameWrites(f) ==
    /\ \E v \in {"hurt", "gone"} \ {box[f]} : box' = [box EXCEPT ![f] = v]
    /\ UNCHANGED <<owner, list, active, todo, orphans, session, handles, switch, toggle, detVars,
                   locks>>
-----------------------------------------------------------------------------
\* The connection.

\* No toggle and no do_detach is in flight.  Injecting and resolving takes
\* seconds: an attach does not overtake what was in flight when it began.
Quiet ==
    /\ \A x \in Togglers : toggle[x] = NoToggle
    /\ \A d \in Detachers : det[d] = "off"

\* A deliberate error: the switches of the last session are kept.
Attach_KeepsSwitches ==
    /\ session = "none" /\ Quiet
    /\ writer = None /\ readers = {}
    /\ session' = "open"
    /\ UNCHANGED <<dllVars, handles, switch, toggle, detVars, locks>>

\* attach, to its end: the event "attached" resets the switches.
Attach ==
    /\ session = "none" /\ Quiet
    /\ writer = None /\ readers = {}
    /\ session' = "open"
    /\ switch' = [f \in Features |-> FALSE]
    /\ UNCHANGED <<dllVars, handles, toggle, detVars, locks>>

\* The DLL's worker leaves the client (an I/O or a decode error, a panic): every
\* request fails from now on, and the freeze thread goes on.
PipeBreaks ==
    /\ session = "open"
    /\ session' = "broken"
    /\ orphans' = orphans \cup active
    /\ UNCHANGED <<owner, list, active, todo, box, handles, switch, toggle, detVars, locks>>

AppDies ==
    /\ session # "none"
    /\ session' = "none"
    /\ orphans' = active
    /\ handles' = [f \in Features |-> None]
    /\ switch' = [f \in Features |-> FALSE]
    /\ toggle' = [x \in Togglers |-> NoToggle]
    /\ det' = [d \in Detachers |-> "off"]
    /\ drained' = [d \in Detachers |-> {}]
    /\ readers' = {} /\ writer' = None /\ mutex' = None
    /\ UNCHANGED <<owner, list, active, todo, box>>

\* The game exits and is started again: handles count from 1 anew.
GameRestarts ==
    /\ FreshDll
    /\ session' = IF session = "none" THEN "none" ELSE "dead"
    /\ UNCHANGED <<handles, switch, toggle, detVars, locks>>
-----------------------------------------------------------------------------
\* The locks.  A guard is dropped at the end of its block, whatever happened.
Release(p) ==
    /\ readers' = readers \ {p}
    /\ mutex' = IF mutex = p THEN None ELSE mutex
    /\ UNCHANGED writer

ReadLock(p) ==
    /\ writer = None
    /\ readers' = readers \cup {p}
    /\ UNCHANGED <<writer, mutex>>

\* Another command that writes state.attached: retry_resolve of some feature.
RetryWaits ==
    /\ session # "none" /\ writer = None
    /\ writer' = "retry"
    /\ UNCHANGED <<dllVars, session, handles, switch, toggle, detVars, readers, mutex>>

RetryWrites ==
    /\ writer = "retry" /\ readers = {}
    /\ writer' = None
    /\ UNCHANGED <<dllVars, session, handles, switch, toggle, detVars, readers, mutex>>
-----------------------------------------------------------------------------
\* set_freeze for a DLL-side freeze.
Frozen(f) == \E h \in active \ orphans : owner[h] = f

OnMain(x) == x = "ui" => det["user"] = "off"

\* The bound: there is a slot left for every toggle that may be in flight.
HasFree == Cardinality({h \in Slots : owner[h] = None}) >= Cardinality(Togglers)

\* The switch flips at once.  The hotkey looks into freeze_handles, the map of
\* the loops of the host, where a freeze of the DLL never is: it asks for "on".
Press(x, f) ==
    /\ session # "none" /\ toggle[x] = NoToggle /\ OnMain(x)
    /\ LET on == IF x = "ui" THEN ~switch[f] ELSE TRUE
       IN  /\ on => HasFree
           /\ toggle' = [toggle EXCEPT ![x] = [step |-> IF on THEN "on" ELSE "off",
                                               f |-> f, slot |-> None]]
           /\ switch' = IF x = "ui" THEN [switch EXCEPT ![f] = on] ELSE switch
    /\ UNCHANGED <<dllVars, session, handles, detVars, locks>>

Goes(x, step, h) == toggle' = [toggle EXCEPT ![x].step = step, ![x].slot = h]

\* The end: the UI draws what a hotkey has set, and takes back a click that failed.
Ends(x, ok, on) ==
    /\ toggle' = [toggle EXCEPT ![x] = NoToggle]
    /\ switch' = IF ok = (x = "hotkey") THEN [switch EXCEPT ![toggle[x].f] = (ok = on)]
                 ELSE switch

\* On: the read lock is held until the end.
LockOn(x) ==
    /\ toggle[x].step = "on" /\ OnMain(x)
    /\ IF session = "none"
          THEN writer = None /\ Ends(x, FALSE, TRUE) /\ UNCHANGED locks
          ELSE ReadLock(x) /\ Goes(x, "start", None) /\ UNCHANGED switch
    /\ UNCHANGED <<dllVars, session, handles, detVars>>

\* Request::StartFreeze: a new slot, or an error of the pipe.
StartFreeze(x) ==
    /\ toggle[x].step = "start"
    /\ IF session = "open"
          THEN \E h \in Slots :
                /\ owner[h] = None /\ \A other \in Slots : other < h => owner[other] # None
                /\ owner' = [owner EXCEPT ![h] = toggle[x].f]
                /\ list' = list \cup {h} /\ active' = active \cup {h}
                /\ Goes(x, "insert", h)
                /\ UNCHANGED <<todo, box, orphans, switch, locks>>
          ELSE Release(x) /\ Ends(x, FALSE, TRUE) /\ UNCHANGED dllVars
    /\ UNCHANGED <<session, handles, detVars>>

\* The handle replaces whatever the map holds for the feature.
Insert(x) ==
    /\ toggle[x].step = "insert" /\ mutex = None
    /\ handles' = [handles EXCEPT ![toggle[x].f] = toggle[x].slot]
    /\ Release(x)
    /\ Ends(x, TRUE, TRUE)
    /\ UNCHANGED <<dllVars, session, detVars>>

\* Off: the handle is removed, and the guard of the map lives to the end of the
\* `if let`.  Without a handle there is nothing to stop.
Remove(x) ==
    /\ toggle[x].step = "off" /\ OnMain(x) /\ mutex = None
    /\ LET h == handles[toggle[x].f]
       IN  IF h = None
              THEN Ends(x, TRUE, FALSE) /\ UNCHANGED <<handles, locks>>
              ELSE /\ handles' = [handles EXCEPT ![toggle[x].f] = None]
                   /\ mutex' = x
                   /\ Goes(x, "unread", h)
                   /\ UNCHANGED <<switch, readers, writer>>
    /\ UNCHANGED <<dllVars, session, detVars>>

LockOff(x) ==
    /\ toggle[x].step = "unread"
    /\ ReadLock(x)
    /\ Goes(x, "stop", toggle[x].slot)
    /\ UNCHANGED <<dllVars, session, handles, switch, detVars>>

\* Request::StopFreeze, whose error is ignored, like a session that is gone.
Stopped(hs) == active' = IF session = "open" THEN active \ hs ELSE active

StopFreeze(x) ==
    /\ toggle[x].step = "stop"
    /\ Stopped({toggle[x].slot})
    /\ Release(x)
    /\ Ends(x, TRUE, FALSE)
    /\ UNCHANGED <<owner, list, todo, box, orphans, session, handles, detVars>>
-----------------------------------------------------------------------------
\* do_detach.
Detaching(d, step, next) == det[d] = step /\ det' = [det EXCEPT ![d] = next]

\* By the user, on the main thread, or by the watch once the process is gone.
Detach(d) ==
    /\ Detaching(d, "off", "drain")
    /\ IF d = "user"
          THEN session # "none" /\ ("ui" \in Togglers => toggle["ui"] = NoToggle)
          ELSE session = "dead"
    /\ UNCHANGED <<dllVars, session, handles, switch, toggle, drained, locks>>

\* A deliberate error: the lock of the map is held while the slots are stopped.
Drain_HoldsLock(d) ==
    /\ mutex = None
    /\ drained' = [drained EXCEPT ![d] = {handles[f] : f \in Features} \ {None}]
    /\ handles' = [f \in Features |-> None]
    /\ Detaching(d, "drain", IF drained'[d] = {} THEN "take" ELSE "read")
    /\ mutex' = IF drained'[d] = {} THEN None ELSE d
    /\ UNCHANGED <<dllVars, session, switch, toggle, readers, writer>>

Drain(d) ==
    /\ mutex = None
    /\ drained' = [drained EXCEPT ![d] = {handles[f] : f \in Features} \ {None}]
    /\ handles' = [f \in Features |-> None]
    /\ Detaching(d, "drain", IF drained'[d] = {} THEN "take" ELSE "read")
    /\ UNCHANGED <<dllVars, session, switch, toggle, locks>>

LockDetach(d) ==
    /\ Detaching(d, "read", "stop")
    /\ ReadLock(d)
    /\ UNCHANGED <<dllVars, session, handles, switch, toggle, drained>>

\* A deliberate error: the session is closed without stopping anything.
StopDrained_Skips(d) ==
    /\ Detaching(d, "stop", "take")
    /\ drained' = [drained EXCEPT ![d] = {}]
    /\ Release(d)
    /\ UNCHANGED <<dllVars, session, handles, switch, toggle>>

\* A StopFreeze for each handle, whose errors are ignored.
StopDrained(d) ==
    /\ Detaching(d, "stop", "take")
    /\ Stopped(drained[d])
    /\ drained' = [drained EXCEPT ![d] = {}]
    /\ Release(d)
    /\ UNCHANGED <<owner, list, todo, box, orphans, session, handles, switch, toggle>>

\* The write lock, first its queue, then with the readers gone.  A watch that
\* has not started do_detach yet is aborted by the user's.
LockTake(d) ==
    /\ Detaching(d, "take", "taking")
    /\ writer = None
    /\ writer' = d
    /\ UNCHANGED <<dllVars, session, handles, switch, toggle, drained, readers, mutex>>

Take(d) ==
    /\ Detaching(d, "taking", "off")
    /\ writer = d /\ readers = {}
    /\ writer' = None
    /\ session' = "none"
    /\ UNCHANGED <<dllVars, handles, switch, toggle, drained, readers, mutex>>

ToggleStep(x) ==
    LockOn(x) \/ StartFreeze(x) \/ Insert(x) \/ Remove(x) \/ LockOff(x) \/ StopFreeze(x)
DetachStep(d) == Drain(d) \/ LockDetach(d) \/ StopDrained(d) \/ LockTake(d) \/ Take(d)

Next ==
    \/ Pass \/ Visit
    \/ \E f \in Features : GameWrites(f)
    \/ Attach \/ PipeBreaks \/ AppDies \/ GameRestarts
    \/ RetryWaits \/ RetryWrites
    \/ \E x \in Togglers : ToggleStep(x) \/ \E f \in Features : Press(x, f)
    \/ \E d \in Detachers : Detach(d) \/ DetachStep(d)

\* The freeze thread runs, and a lock is handed to who waits for it, sooner or
\* later, also when others keep taking it.
Fairness ==
    /\ WF_vars(Pass \/ Visit)
    /\ WF_vars(RetryWrites)
    /\ \A x \in Togglers : SF_vars(ToggleStep(x))
    /\ \A d \in Detachers : SF_vars(DetachStep(d))

Spec == Init /\ [][Next]_vars /\ Fairness
-----------------------------------------------------------------------------
\* When nothing is in flight, a switch is drawn as on exactly if the DLL freezes
\* that feature, but for what was left running when a pipe was lost.
SwitchShowsFreeze ==
    session = "open" /\ Quiet => \A f \in Features : switch[f] <=> Frozen(f)

\* A handle of an earlier process of the game is never used on the present one
\* to stop the freeze of another feature, although the numbers repeat.
StopsItsOwn ==
    [][\A x \in Togglers :
        StopFreeze(x) => \A h \in active \ active' : owner[h] = toggle[x].f]_vars

\* Once it has been stopped and visited, or not been copied, a slot is never
\* stamped again: at most one stamp comes after StopFreeze.
StoppedStaysOut ==
    [][\A h \in Slots : h \notin active \cup todo /\ h \notin active' => h \notin todo']_vars

\* "Re-stamps every active slot": the freeze holds against the game, whatever
\* becomes of the boxes of the other slots.
FreezeHolds ==
    \A h \in Slots, f \in Features :
        h \in active /\ owner[h] = f /\ box[f] = "hurt" ~> h \notin active \/ box[f] # "hurt"

\* No toggle is stuck behind a lock: the reader, the holder of the map and the
\* writer that waits never wait for one another.
TogglesEnd == \A x \in Togglers : toggle[x] # NoToggle ~> toggle[x] = NoToggle
=============================================================================
