-------------------------- MODULE DllFreeze_proofs --------------------------
(***************************************************************************)
(* The safety of the DLL-side freeze, for any number of features and       *)
(* slots.  That a switch shows what the DLL does is not inductive: while a *)
(* toggle or a detach is in flight the two differ, each step in its own    *)
(* way.  Kept says for every feature which slot the host accounts for at   *)
(* that moment, and Accounts that it is the one that runs.                 *)
(***************************************************************************)
EXTENDS DllFreeze, TLAPS

\* The invariant is that of the UI's toggles.  The hotkey only ever asks for
\* "on", and a second "on" leaves a slot behind that no handle names.
OnlyUi == Togglers = {"ui"}

ui == toggle["ui"]

\* The slots that run and were not left behind by a lost pipe.
Live == active \ orphans

\* Should a slot of this feature be running?  A toggle in flight has started
\* its slot, or not yet, and has stopped it at its end only.
Asked(f) == IF ui.f = f THEN ui.step \notin {"on", "start"} ELSE switch[f]

\* The slot the host accounts for: that of the toggle in flight, or the handle.
Kept(f) == IF ui.f = f /\ ui.step # "off" THEN ui.slot ELSE handles[f]

Accounts ==
    session = "open" /\ det["user"] \in {"off", "drain"} =>
        \A f \in Features :
            /\ Asked(f) => Kept(f) \in Live /\ owner[Kept(f)] = f
            /\ \A h \in Live : owner[h] = f => Asked(f) /\ h = Kept(f)

\* What a detach has not stopped yet, it has drained.
DetachAccounts ==
    session = "open" =>
        /\ det["user"] \in {"read", "stop"} => Live \subseteq drained["user"]
        /\ det["user"] \in {"take", "taking"} => Live = {}

\* Without a pipe, every slot that still runs was left behind by its loss.
Orphaned == session # "open" => Live = {}

\* A slot that runs, or that was running, was started in this process.
Started == \A h \in active \cup orphans : owner[h] \in Features

\* The switch flips when it is pressed, and do_detach has the main thread to
\* itself.
MainThread ==
    /\ ui.step \in {"on", "start", "insert"} => switch[ui.f]
    /\ ui.step \in {"off", "unread", "stop"} => ~switch[ui.f]
    /\ det["user"] # "off" => ui = NoToggle
    /\ det["watch"] # "off" => session \in {"dead", "none"}

IInv ==
    /\ TypeOK
    /\ Accounts
    /\ DetachAccounts
    /\ Orphaned
    /\ Started
    /\ MainThread
-----------------------------------------------------------------------------
\* The type of a toggle in flight, and what a step or an end makes of it.
LEMMA GoesType ==
  ASSUME TypeOK, NEW x \in Togglers, toggle[x] # NoToggle,
         NEW step, NEW h,
         \/ step = "start" /\ h = None
         \/ step \in {"insert", "unread", "stop"} /\ h \in Slots,
         Goes(x, step, h)
  PROVE  toggle' \in [Togglers -> {NoToggle} \cup InFlight]
  <1> DEFINE old == toggle[x]
             new == [old EXCEPT !.step = step, !.slot = h]
  <1>1. \E A, C : old \in [step : A, f : Features, slot : C]
    BY DEF TypeOK, InFlight
  <1>2. new \in InFlight
    <2>1. new \in [step : {step}, f : Features, slot : {h}]
      BY <1>1
    <2> QED
      BY <2>1 DEF InFlight
  <1>3. toggle' = [toggle EXCEPT ![x] = new]
    BY DEF Goes, TypeOK
  <1> QED
    BY <1>2, <1>3 DEF TypeOK

LEMMA EndsType ==
  ASSUME TypeOK, NEW x \in Togglers, toggle[x] # NoToggle,
         NEW ok \in BOOLEAN, NEW on \in BOOLEAN, Ends(x, ok, on)
  PROVE  /\ toggle' \in [Togglers -> {NoToggle} \cup InFlight]
         /\ switch' \in [Features -> BOOLEAN]
  BY DEF TypeOK, InFlight, Ends

\* Every operation keeps the types, whoever the togglers are.
LEMMA ToggleType ==
  ASSUME TypeOK, NEW x \in Togglers, ToggleStep(x)
  PROVE  TypeOK'
  <1> USE FreezeAssumption
  <1>1. CASE LockOn(x)
    <2>1. toggle[x] # NoToggle
      BY <1>1 DEF LockOn, NoToggle
    <2>2. CASE session = "none"
      BY <1>1, <2>1, <2>2, EndsType DEF LockOn, locks, TypeOK, dllVars, detVars
    <2>3. CASE session # "none"
      BY <1>1, <2>1, <2>3, GoesType DEF LockOn, ReadLock, TypeOK, dllVars, detVars
    <2> QED
      BY <2>2, <2>3
  <1>2. CASE StartFreeze(x)
    <2>1. toggle[x] # NoToggle /\ toggle[x].f \in Features
      BY <1>2 DEF StartFreeze, NoToggle, TypeOK, InFlight
    <2>2. CASE session = "open"
      <3>1. PICK h \in Slots :
                /\ owner' = [owner EXCEPT ![h] = toggle[x].f]
                /\ list' = list \cup {h} /\ active' = active \cup {h}
                /\ Goes(x, "insert", h)
                /\ UNCHANGED <<todo, box, orphans, switch, locks>>
        BY <1>2, <2>2 DEF StartFreeze
      <3>2. toggle' \in [Togglers -> {NoToggle} \cup InFlight]
        BY <2>1, <3>1, GoesType
      <3> QED
        BY <1>2, <2>1, <3>1, <3>2 DEF StartFreeze, TypeOK, locks, detVars
    <2>3. CASE session # "open"
      BY <1>2, <2>1, <2>3, EndsType DEF StartFreeze, Release, TypeOK, dllVars, detVars
    <2> QED
      BY <2>2, <2>3
  <1>3. CASE Insert(x)
    <2>1. toggle[x] # NoToggle /\ toggle[x].f \in Features /\ toggle[x].slot \in Slots
      BY <1>3 DEF Insert, NoToggle, TypeOK, InFlight
    <2> QED
      BY <1>3, <2>1, EndsType DEF Insert, Release, TypeOK, dllVars, detVars
  <1>4. CASE Remove(x)
    <2>1. toggle[x] # NoToggle /\ toggle[x].f \in Features
      BY <1>4 DEF Remove, NoToggle, TypeOK, InFlight
    <2>2. CASE handles[toggle[x].f] = None
      BY <1>4, <2>1, <2>2, EndsType DEF Remove, locks, TypeOK, dllVars, detVars
    <2>3. CASE handles[toggle[x].f] # None
      <3>1. handles[toggle[x].f] \in Slots
        BY <2>1, <2>3 DEF TypeOK
      <3> QED
        BY <1>4, <2>1, <2>3, <3>1, GoesType DEF Remove, TypeOK, dllVars, detVars
    <2> QED
      BY <2>2, <2>3
  <1>5. CASE LockOff(x)
    <2>1. toggle[x] # NoToggle /\ toggle[x].slot \in Slots
      BY <1>5 DEF LockOff, NoToggle, TypeOK, InFlight
    <2> QED
      BY <1>5, <2>1, GoesType DEF LockOff, ReadLock, TypeOK, dllVars, detVars
  <1>6. CASE StopFreeze(x)
    <2>1. toggle[x] # NoToggle
      BY <1>6 DEF StopFreeze, NoToggle
    <2> QED
      BY <1>6, <2>1, EndsType DEF StopFreeze, Stopped, Release, TypeOK, detVars
  <1> QED
    BY <1>1, <1>2, <1>3, <1>4, <1>5, <1>6 DEF ToggleStep

LEMMA DetachType ==
  ASSUME TypeOK, NEW d \in Detachers, Detach(d) \/ DetachStep(d)
  PROVE  TypeOK'
  <1> USE FreezeAssumption DEF Detaching, TypeOK, dllVars
  <1>1. CASE Detach(d)
    BY <1>1 DEF Detach, locks
  <1>2. CASE Drain(d)
    BY <1>2 DEF Drain, locks
  <1>3. CASE LockDetach(d)
    BY <1>3 DEF LockDetach, ReadLock
  <1>4. CASE StopDrained(d)
    BY <1>4 DEF StopDrained, Stopped, Release
  <1>5. CASE LockTake(d)
    BY <1>5 DEF LockTake
  <1>6. CASE Take(d)
    BY <1>6 DEF Take
  <1> QED
    BY <1>1, <1>2, <1>3, <1>4, <1>5, <1>6 DEF DetachStep

LEMMA TypeNext == TypeOK /\ [Next]_vars => TypeOK'
  <1> SUFFICES ASSUME TypeOK, [Next]_vars PROVE TypeOK'
    OBVIOUS
  <1> USE FreezeAssumption
  <1>1. CASE Pass \/ Visit
    BY <1>1 DEF Pass, Visit, TypeOK, detVars, locks
  <1>2. ASSUME NEW f \in Features, GameWrites(f) PROVE TypeOK'
    BY <1>2 DEF GameWrites, TypeOK, detVars, locks
  <1>3. CASE Attach \/ PipeBreaks
    BY <1>3 DEF Attach, PipeBreaks, TypeOK, dllVars, detVars, locks
  <1>4. CASE AppDies
    BY <1>4 DEF AppDies, TypeOK
  <1>5. CASE GameRestarts
    BY <1>5 DEF GameRestarts, FreshDll, TypeOK, detVars, locks
  <1>6. CASE RetryWaits \/ RetryWrites
    BY <1>6 DEF RetryWaits, RetryWrites, TypeOK, dllVars, detVars
  <1>7. ASSUME NEW x \in Togglers, NEW f \in Features, Press(x, f) PROVE TypeOK'
    <2> DEFINE on == IF x = "ui" THEN ~switch[f] ELSE TRUE
               new == [step |-> IF on THEN "on" ELSE "off", f |-> f, slot |-> None]
    <2>1. new \in InFlight /\ on \in BOOLEAN
      BY DEF InFlight, TypeOK
    <2>2. /\ toggle' = [toggle EXCEPT ![x] = new]
          /\ switch' = IF x = "ui" THEN [switch EXCEPT ![f] = on] ELSE switch
      BY <1>7 DEF Press
    <2> HIDE DEF on, new
    <2> QED
      BY <1>7, <2>1, <2>2 DEF Press, TypeOK, dllVars, detVars, locks
  <1>8. CASE UNCHANGED vars
    BY <1>8 DEF vars, TypeOK, dllVars, detVars, locks
  <1> QED
    BY <1>1, <1>2, <1>3, <1>4, <1>5, <1>6, <1>7, <1>8, ToggleType, DetachType DEF Next

\* Everything the thread, the host and the locks keep has its type.
THEOREM TypeCorrect == Spec => []TypeOK
  <1>1. Init => TypeOK
    BY FreezeAssumption DEF Init, TypeOK
  <1> QED
    BY <1>1, TypeNext, PTL DEF Spec
-----------------------------------------------------------------------------
\* What a step makes of a toggle, field by field.
LEMMA GoesFields ==
  ASSUME TypeOK, NEW x \in Togglers, toggle[x] # NoToggle, NEW step, NEW h, Goes(x, step, h)
  PROVE  /\ toggle'[x].step = step /\ toggle'[x].f = toggle[x].f /\ toggle'[x].slot = h
         /\ \A y \in Togglers \ {x} : toggle'[y] = toggle[y]
  <1> DEFINE old == toggle[x]
             new == [old EXCEPT !.step = step, !.slot = h]
  <1>1. \E A, C : old \in [step : A, f : {old.f}, slot : C]
    BY DEF TypeOK, InFlight
  <1>2. new \in [step : {step}, f : {old.f}, slot : {h}]
    BY <1>1
  <1>3. toggle'[x] = new /\ \A y \in Togglers \ {x} : toggle'[y] = toggle[y]
    BY DEF Goes, TypeOK
  <1> QED
    BY <1>2, <1>3

\* The absence of a slot is not a slot.
LEMMA NoneIsNoSlot == None \notin Slots
  BY FreezeAssumption DEF Slots

\* The steps of a toggle and their fields.
LEMMA Fields ==
  ASSUME TypeOK, NEW x \in Togglers
  PROVE  LET t == toggle[x]
         IN  /\ t.step = "none" <=> t = NoToggle
             /\ t.step = "none" => t.f = None
             /\ t.step \in {"on", "start", "off"} => t.f \in Features /\ t.slot = None
             /\ t.step \in {"insert", "unread", "stop"} => t.f \in Features /\ t.slot \in Slots
             /\ t.step \in {"none", "on", "start", "off", "insert", "unread", "stop"}
  BY DEF TypeOK, InFlight, NoToggle

\* A step that leaves alone what the invariant is about keeps it: a stamp, a
\* pass, a write of the game, and a lock of another command.
LEMMA FrameInv ==
  ASSUME OnlyUi, IInv, TypeOK',
         UNCHANGED <<owner, active, orphans, session, handles, switch, toggle, detVars>>
  PROVE  IInv'
  BY DEF IInv, Accounts, DetachAccounts, Orphaned, Started, MainThread, Asked, Kept, Live,
         ui, detVars

LEMMA InitInv == OnlyUi /\ Init => IInv
  <1> SUFFICES ASSUME OnlyUi, Init PROVE IInv
    OBVIOUS
  <1>1. TypeOK
    BY FreezeAssumption DEF Init, TypeOK
  <1> QED
    BY <1>1 DEF Init, IInv, Accounts, DetachAccounts, Orphaned, Started, MainThread, Live,
                ui, NoToggle, OnlyUi

\* The connection: what runs without a pipe is an orphan, and a new session
\* begins with every switch off.
LEMMA ConnectionInv ==
  ASSUME OnlyUi, IInv, TypeOK', Attach \/ PipeBreaks \/ AppDies \/ GameRestarts
  PROVE  IInv'
  <1> USE FreezeAssumption
  <1>1. CASE Attach
    <2>1. ui = NoToggle /\ ui' = NoToggle /\ Live = {} /\ det' = [d \in Detachers |-> "off"]
      BY <1>1 DEF Attach, Quiet, IInv, Orphaned, OnlyUi, ui, detVars, TypeOK
    <2>2. Accounts'
      BY <1>1, <2>1 DEF Attach, Accounts, Asked, Live, NoToggle, dllVars
    <2>3. DetachAccounts' /\ Orphaned' /\ Started' /\ MainThread'
      BY <1>1, <2>1 DEF Attach, DetachAccounts, Orphaned, Started, MainThread, Live,
                        NoToggle, dllVars, IInv, Detachers
    <2> QED
      BY <2>2, <2>3 DEF IInv
  <1>2. CASE PipeBreaks
    <2>1. /\ session = "open" /\ session' = "broken" /\ active' = active
          /\ orphans' = orphans \cup active
          /\ UNCHANGED <<owner, switch, toggle, det>>
      BY <1>2 DEF PipeBreaks, detVars
    <2>2. det["watch"] = "off"
      BY <2>1 DEF IInv, MainThread
    <2> QED
      BY <2>1, <2>2 DEF IInv, Accounts, DetachAccounts, Orphaned, Started, MainThread, Live, ui
  <1>3. CASE AppDies
    <2>1. /\ session' = "none" /\ orphans' = active /\ active' = active /\ owner' = owner
          /\ ui' = NoToggle /\ det' = [d \in Detachers |-> "off"]
      BY <1>3 DEF AppDies, OnlyUi, ui
    <2> QED
      BY <2>1 DEF IInv, Accounts, DetachAccounts, Orphaned, Started, MainThread, Live,
                  NoToggle, Detachers
  <1>4. CASE GameRestarts
    <2>1. /\ session' \in {"none", "dead"} /\ orphans' = {} /\ active' = {}
          /\ session' = "none" \/ session # "none"
          /\ UNCHANGED <<switch, toggle, det>>
      BY <1>4 DEF GameRestarts, FreshDll, detVars
    <2> QED
      BY <2>1 DEF IInv, Accounts, DetachAccounts, Orphaned, Started, MainThread, Live, ui
  <1> QED
    BY <1>1, <1>2, <1>3, <1>4

\* The switch of the card: a freeze that runs is to be stopped, and one that
\* does not is to be started.
LEMMA PressInv ==
  ASSUME OnlyUi, IInv, TypeOK', NEW f \in Features, Press("ui", f)
  PROVE  IInv'
  <1> USE FreezeAssumption
  <1> DEFINE on == ~switch[f]
  <1>1. /\ ui = NoToggle /\ det["user"] = "off"
        /\ ui' = [step |-> IF on THEN "on" ELSE "off", f |-> f, slot |-> None]
        /\ switch' = [switch EXCEPT ![f] = on]
        /\ UNCHANGED <<owner, active, orphans, session, handles, det, drained>>
    BY DEF Press, OnMain, dllVars, detVars, OnlyUi, ui, IInv, TypeOK
  <1>2. switch'[f] = on /\ \A g \in Features \ {f} : switch'[g] = switch[g]
    BY <1>1 DEF IInv, TypeOK
  <1>3. MainThread'
    BY <1>1, <1>2 DEF IInv, MainThread
  <1>4. Accounts'
    BY <1>1, <1>2 DEF IInv, Accounts, Asked, Kept, Live, NoToggle
  <1>5. DetachAccounts' /\ Orphaned' /\ Started'
    BY <1>1 DEF IInv, DetachAccounts, Orphaned, Started, Live
  <1> QED
    BY <1>3, <1>4, <1>5 DEF IInv

\* set_freeze, step by step: a slot is in flight from its start until it is a
\* handle, and from the removal of the handle until it is stopped.
LEMMA ToggleInv ==
  ASSUME OnlyUi, IInv, TypeOK', ToggleStep("ui")
  PROVE  IInv'
  <1> USE FreezeAssumption
  <1>0. ui = toggle["ui"] /\ ui' = toggle'["ui"] /\ TypeOK /\ "ui" \in Togglers
    BY DEF ui, IInv, OnlyUi
  <1>1. ui # NoToggle
    BY <1>0, Fields DEF ToggleStep, LockOn, StartFreeze, Insert, Remove, LockOff, StopFreeze
  <1>2. det["user"] = "off"
    BY <1>1 DEF IInv, MainThread
  <1>3. CASE LockOn("ui")
    <2>1. CASE session = "none"
      <3>1. ui.step = "on" /\ ui' = NoToggle /\ switch' = [switch EXCEPT ![ui.f] = FALSE]
        BY <1>0, <1>3, <2>1 DEF LockOn, Ends, TypeOK
      <3> QED
        BY <1>0, <1>2, <1>3, <2>1, <3>1, Fields
           DEF LockOn, IInv, Accounts, DetachAccounts, Orphaned, Started, MainThread, Live,
               NoToggle, dllVars, detVars
    <2>2. CASE session # "none"
      <3>1. ui.step = "on" /\ Goes("ui", "start", None) /\ UNCHANGED switch
        BY <1>0, <1>3, <2>2 DEF LockOn
      <3>2. ui'.step = "start" /\ ui'.f = ui.f
        BY <1>0, <1>1, <3>1, GoesFields
      <3> QED
        BY <1>0, <1>2, <1>3, <3>1, <3>2
           DEF LockOn, IInv, Accounts, DetachAccounts, Orphaned, Started, MainThread, Asked,
               Kept, Live, dllVars, detVars
    <2> QED
      BY <2>1, <2>2
  <1>4. CASE StartFreeze("ui")
    <2>1. CASE session = "open"
      <3>1. PICK h \in Slots :
              /\ owner[h] = None
              /\ owner' = [owner EXCEPT ![h] = ui.f]
              /\ active' = active \cup {h}
              /\ Goes("ui", "insert", h)
              /\ UNCHANGED <<orphans, switch, session, handles, det, drained>>
        BY <1>0, <1>4, <2>1 DEF StartFreeze, detVars
      <3>2. ui.step = "start" /\ ui.f \in Features
        BY <1>0, <1>4, Fields DEF StartFreeze
      <3>3. ui'.step = "insert" /\ ui'.f = ui.f /\ ui'.slot = h
        BY <1>0, <1>1, <3>1, GoesFields
      <3>4. h \notin active \cup orphans
        BY <3>1 DEF IInv, Started
      <3>5. /\ owner'[h] = ui.f
            /\ \A k \in Slots \ {h} : owner'[k] = owner[k]
        BY <1>0, <3>1 DEF TypeOK
      <3>6. Live \subseteq Slots /\ Live' = Live \cup {h}
        BY <1>0, <3>1, <3>4 DEF TypeOK, Live
      <3>7. Accounts'
        BY <1>2, <2>1, <3>1, <3>2, <3>3, <3>4, <3>5, <3>6
           DEF IInv, Accounts, Asked, Kept, Live
      <3>8. DetachAccounts' /\ Orphaned'
        BY <1>2, <2>1, <3>1 DEF DetachAccounts, Orphaned
      <3>9. Started'
        BY <1>0, <3>1, <3>2, <3>5 DEF IInv, Started, TypeOK
      <3>10. MainThread'
        BY <1>2, <3>1, <3>2, <3>3 DEF IInv, MainThread
      <3> QED
        BY <3>7, <3>8, <3>9, <3>10 DEF IInv
    <2>2. CASE session # "open"
      <3>1. ui.step = "start" /\ ui' = NoToggle /\ switch' = [switch EXCEPT ![ui.f] = FALSE]
        BY <1>0, <1>4, <2>2 DEF StartFreeze, Ends, TypeOK
      <3> QED
        BY <1>2, <1>4, <2>2, <3>1
           DEF StartFreeze, IInv, Accounts, DetachAccounts, Orphaned, Started, MainThread,
               Live, NoToggle, dllVars, detVars
    <2> QED
      BY <2>1, <2>2
  <1>5. CASE Insert("ui")
    <2>1. /\ ui.step = "insert" /\ ui' = NoToggle /\ ui.f \in Features
          /\ handles' = [handles EXCEPT ![ui.f] = ui.slot]
          /\ UNCHANGED <<owner, active, orphans, switch, session, det, drained>>
      BY <1>0, <1>5, Fields DEF Insert, Ends, TypeOK, dllVars, detVars
    <2>2. /\ handles'[ui.f] = ui.slot /\ switch[ui.f]
          /\ \A g \in Features \ {ui.f} : handles'[g] = handles[g]
      BY <1>0, <2>1 DEF IInv, MainThread, TypeOK
    <2>3. Accounts'
      BY <2>1, <2>2 DEF IInv, Accounts, Asked, Kept, Live, NoToggle
    <2>4. DetachAccounts' /\ Orphaned' /\ Started' /\ MainThread'
      BY <2>1, <2>2 DEF IInv, DetachAccounts, Orphaned, Started, MainThread, Live, NoToggle
    <2> QED
      BY <2>3, <2>4 DEF IInv
  <1>6. CASE Remove("ui")
    <2>0. ui.step = "off" /\ ui.f \in Features /\ ~switch[ui.f]
      BY <1>0, <1>6, Fields DEF Remove, IInv, MainThread
    <2>1. CASE handles[ui.f] = None
      <3>1. /\ ui' = NoToggle
            /\ UNCHANGED <<owner, active, orphans, session, switch, handles, det, drained>>
        BY <1>0, <1>6, <2>1 DEF Remove, Ends, TypeOK, dllVars, detVars
      <3>2. session # "open"
        BY <1>0, <1>2, <2>0, <2>1, NoneIsNoSlot
           DEF IInv, Accounts, Asked, Kept, Live, TypeOK
      <3> QED
        BY <1>2, <3>1, <3>2
           DEF IInv, Accounts, DetachAccounts, Orphaned, Started, MainThread, Live, NoToggle
    <2>2. CASE handles[ui.f] # None
      <3>1. /\ handles' = [handles EXCEPT ![ui.f] = None]
            /\ Goes("ui", "unread", handles[ui.f])
            /\ UNCHANGED <<owner, active, orphans, session, switch, det, drained>>
        BY <1>0, <1>6, <2>2 DEF Remove, dllVars, detVars
      <3>2. ui'.step = "unread" /\ ui'.f = ui.f /\ ui'.slot = handles[ui.f]
        BY <1>0, <1>1, <3>1, GoesFields
      <3>3. \A g \in Features \ {ui.f} : handles'[g] = handles[g]
        BY <1>0, <3>1 DEF TypeOK
      <3>4. Accounts'
        BY <2>0, <3>1, <3>2, <3>3 DEF IInv, Accounts, Asked, Kept, Live
      <3>5. DetachAccounts' /\ Orphaned' /\ Started' /\ MainThread'
        BY <1>2, <2>0, <3>1, <3>2
           DEF IInv, DetachAccounts, Orphaned, Started, MainThread, Live
      <3> QED
        BY <3>4, <3>5 DEF IInv
    <2> QED
      BY <2>1, <2>2
  <1>7. CASE LockOff("ui")
    <2>1. /\ ui.step = "unread" /\ Goes("ui", "stop", ui.slot)
          /\ UNCHANGED <<owner, active, orphans, session, switch, handles, det, drained>>
      BY <1>0, <1>7 DEF LockOff, dllVars, detVars
    <2>2. ui'.step = "stop" /\ ui'.f = ui.f /\ ui'.slot = ui.slot
      BY <1>0, <1>1, <2>1, GoesFields
    <2> QED
      BY <1>2, <2>1, <2>2
         DEF IInv, Accounts, DetachAccounts, Orphaned, Started, MainThread, Asked, Kept, Live
  <1>8. CASE StopFreeze("ui")
    <2>1. /\ ui.step = "stop" /\ ui' = NoToggle /\ ui.f \in Features /\ ~switch[ui.f]
          /\ active' = IF session = "open" THEN active \ {ui.slot} ELSE active
          /\ UNCHANGED <<owner, orphans, session, switch, handles, det, drained>>
      BY <1>0, <1>8, Fields
         DEF StopFreeze, Stopped, Ends, TypeOK, detVars, IInv, MainThread
    <2>2. Accounts'
      BY <1>2, <2>1 DEF IInv, Accounts, Asked, Kept, Live, NoToggle
    <2>3. DetachAccounts' /\ Orphaned' /\ Started' /\ MainThread'
      BY <1>2, <2>1 DEF IInv, DetachAccounts, Orphaned, Started, MainThread, Live, NoToggle
    <2> QED
      BY <2>2, <2>3 DEF IInv
  <1> QED
    BY <1>3, <1>4, <1>5, <1>6, <1>7, <1>8 DEF ToggleStep

\* do_detach: what is live has a handle, and what has a handle is stopped.
LEMMA DetachInv ==
  ASSUME OnlyUi, IInv, TypeOK', NEW d \in Detachers, Detach(d) \/ DetachStep(d)
  PROVE  IInv'
  <1> USE FreezeAssumption
  <1>0. TypeOK /\ ui = toggle["ui"] /\ ui' = toggle'["ui"] /\ "ui" \in Togglers
    BY DEF IInv, ui, OnlyUi
  <1>1. /\ det' = [det EXCEPT ![d] = det'[d]]
        /\ UNCHANGED <<owner, orphans, switch, toggle>>
    BY <1>0 DEF Detach, DetachStep, Drain, LockDetach, StopDrained, LockTake, Take,
                Detaching, dllVars, TypeOK, Detachers
  <1>2. ui' = ui
    BY <1>0, <1>1
  <1>3. CASE Detach(d)
    BY <1>0, <1>1, <1>2, <1>3
       DEF Detach, Detaching, IInv, Accounts, DetachAccounts, Orphaned, Started, MainThread,
           Asked, Kept, Live, Detachers, TypeOK, dllVars
  <1>4. CASE Drain(d)
    <2>1. /\ det[d] = "drain"
          /\ drained' = [drained EXCEPT ![d] = {handles[f] : f \in Features} \ {None}]
          /\ det'[d] = IF drained'[d] = {} THEN "take" ELSE "read"
          /\ UNCHANGED <<active, session>>
      BY <1>0, <1>4 DEF Drain, Detaching, dllVars, TypeOK
    <2>2. CASE d = "user"
      <3>1. ui.step = "none" /\ ui.f = None
        BY <2>1, <2>2 DEF IInv, MainThread, NoToggle
      <3>2. session = "open" => Live \subseteq drained'["user"]
        <4> SUFFICES ASSUME session = "open", NEW h \in Live PROVE h \in drained'["user"]
          OBVIOUS
        <4>1. owner[h] \in Features /\ h \in Slots
          BY <1>0 DEF IInv, Started, Live, TypeOK
        <4>2. h = handles[owner[h]]
          BY <2>1, <2>2, <3>1, <4>1 DEF IInv, Accounts, Asked, Kept
        <4> QED
          BY <1>0, <2>1, <2>2, <4>1, <4>2, NoneIsNoSlot DEF TypeOK
      <3>3. Accounts' /\ DetachAccounts'
        BY <1>0, <1>1, <2>1, <2>2, <3>2 DEF Accounts, DetachAccounts, Live, TypeOK
      <3>4. Orphaned' /\ Started' /\ MainThread'
        BY <1>0, <1>1, <1>2, <2>1, <2>2
           DEF IInv, Orphaned, Started, MainThread, Live, TypeOK, Detachers
      <3> QED
        BY <3>3, <3>4 DEF IInv
    <2>3. CASE d = "watch"
      <3>1. session \in {"dead", "none"} /\ det'["user"] = det["user"]
        BY <1>0, <1>1, <2>1, <2>3 DEF IInv, MainThread, TypeOK, Detachers
      <3> QED
        BY <1>1, <1>2, <2>1, <3>1
           DEF IInv, Accounts, DetachAccounts, Orphaned, Started, MainThread, Live
    <2> QED
      BY <2>2, <2>3 DEF Detachers
  <1>5. CASE LockDetach(d)
    BY <1>0, <1>1, <1>2, <1>5
       DEF LockDetach, Detaching, IInv, Accounts, DetachAccounts, Orphaned, Started,
           MainThread, Asked, Kept, Live, Detachers, TypeOK, dllVars
  <1>6. CASE StopDrained(d)
    <2>1. /\ det[d] = "stop" /\ det'[d] = "take"
          /\ active' = IF session = "open" THEN active \ drained[d] ELSE active
          /\ drained' = [drained EXCEPT ![d] = {}]
          /\ UNCHANGED <<handles, session>>
      BY <1>0, <1>6 DEF StopDrained, Stopped, Detaching, TypeOK
    <2> QED
      BY <1>0, <1>1, <1>2, <2>1
         DEF IInv, Accounts, DetachAccounts, Orphaned, Started, MainThread, Live, Detachers,
             TypeOK
  <1>7. CASE LockTake(d)
    BY <1>0, <1>1, <1>2, <1>7
       DEF LockTake, Detaching, IInv, Accounts, DetachAccounts, Orphaned, Started,
           MainThread, Asked, Kept, Live, Detachers, TypeOK, dllVars
  <1>8. CASE Take(d)
    BY <1>0, <1>1, <1>2, <1>8
       DEF Take, Detaching, IInv, Accounts, DetachAccounts, Orphaned, Started,
           MainThread, Live, Detachers, TypeOK, dllVars
  <1> QED
    BY <1>3, <1>4, <1>5, <1>6, <1>7, <1>8 DEF DetachStep

LEMMA InvNext == OnlyUi /\ IInv /\ [Next]_vars => IInv'
  <1> SUFFICES ASSUME OnlyUi, IInv, [Next]_vars PROVE IInv'
    OBVIOUS
  <1>1. TypeOK'
    BY TypeNext DEF IInv
  <1>2. CASE \/ Pass \/ Visit \/ RetryWaits \/ RetryWrites
             \/ \E f \in Features : GameWrites(f)
             \/ UNCHANGED vars
    BY <1>1, <1>2, FrameInv
       DEF Pass, Visit, RetryWaits, RetryWrites, GameWrites, dllVars, vars
  <1>3. ASSUME NEW x \in Togglers, ToggleStep(x) \/ \E f \in Features : Press(x, f)
        PROVE  IInv'
    <2>1. x = "ui"
      BY DEF OnlyUi
    <2> QED
      BY <1>1, <1>3, <2>1, ToggleInv, PressInv
  <1> QED
    BY <1>1, <1>2, <1>3, ConnectionInv, DetachInv DEF Next
-----------------------------------------------------------------------------
\* When nothing is in flight, a switch is drawn as on exactly if the DLL runs a
\* slot of that feature that no lost pipe has left behind.
THEOREM SwitchCorrect ==
  ASSUME OnlyUi
  PROVE  Spec => []SwitchShowsFreeze
  <1>1. ASSUME IInv PROVE SwitchShowsFreeze
    <2> SUFFICES ASSUME session = "open", Quiet, NEW f \in Features
                 PROVE  switch[f] <=> Frozen(f)
      BY DEF SwitchShowsFreeze
    <2>1. ui = NoToggle /\ det["user"] = "off" /\ f # None
      BY FreezeAssumption DEF Quiet, OnlyUi, ui, Detachers
    <2>2. Live = active \ orphans
      BY DEF Live
    <2> QED
      BY <1>1, <2>1, <2>2 DEF IInv, Accounts, Asked, Kept, NoToggle, Frozen
  <1>2. Init => IInv
    BY InitInv
  <1>3. IInv /\ [Next]_vars => IInv'
    BY InvNext
  <1> QED
    BY <1>1, <1>2, <1>3, PTL DEF Spec

-----------------------------------------------------------------------------
\* The same for any togglers, with less to say: the handles that a toggle could
\* stop by are those of its own feature.  A handle of an earlier process may
\* still be in the map, but only while its switch is off or on its way to "on".
OwnHandle(f) == handles[f] = None \/ owner[handles[f]] = f

Starting(f) ==
    \E x \in Togglers :
        x = "ui" /\ toggle[x].f = f /\ toggle[x].step \in {"on", "start", "insert"}

OwnHandles ==
    session = "open" =>
        /\ \A f \in Features : switch[f] => OwnHandle(f) \/ Starting(f)
        /\ \A x \in Togglers :
            /\ toggle[x].step = "off" => OwnHandle(toggle[x].f)
            /\ toggle[x].step \in {"insert", "unread", "stop"} =>
                   owner[toggle[x].slot] = toggle[x].f

LEMMA OwnToggle ==
  ASSUME TypeOK, TypeOK', OwnHandles, NEW x \in Togglers, ToggleStep(x)
  PROVE  OwnHandles'
  <1> USE FreezeAssumption
  <1> DEFINE t == toggle[x]
             f == t.f
  <1>0. SUFFICES ASSUME session' = "open" PROVE OwnHandles'
    BY DEF OwnHandles
  <1>1. session = "open"
    BY <1>0 DEF ToggleStep, LockOn, StartFreeze, Insert, Remove, LockOff, StopFreeze
  <1>2. t # NoToggle /\ f \in Features
    BY Fields DEF ToggleStep, LockOn, StartFreeze, Insert, Remove, LockOff, StopFreeze
  <1>3. CASE LockOn(x)
    <2>1. t.step = "on" /\ Goes(x, "start", None) /\ UNCHANGED <<owner, handles, switch>>
      BY <1>1, <1>3 DEF LockOn, dllVars
    <2>2. /\ toggle'[x].step = "start" /\ toggle'[x].f = f
          /\ \A y \in Togglers \ {x} : toggle'[y] = toggle[y]
      BY <1>2, <2>1, GoesFields
    <2> QED
      BY <1>1, <2>1, <2>2 DEF OwnHandles, OwnHandle, Starting
  <1>4. CASE StartFreeze(x)
    <2>1. PICK h \in Slots :
            /\ owner[h] = None
            /\ owner' = [owner EXCEPT ![h] = f]
            /\ Goes(x, "insert", h)
            /\ UNCHANGED <<handles, switch>>
      BY <1>1, <1>4 DEF StartFreeze
    <2>2. /\ toggle'[x].step = "insert" /\ toggle'[x].f = f /\ toggle'[x].slot = h
          /\ \A y \in Togglers \ {x} : toggle'[y] = toggle[y]
      BY <1>2, <2>1, GoesFields
    <2>3. owner'[h] = f /\ \A k \in Slots : owner[k] # None => owner'[k] = owner[k]
      BY <2>1 DEF TypeOK
    <2>4. \A g \in Features : OwnHandle(g) => OwnHandle(g)'
      BY <2>1, <2>3 DEF OwnHandle, TypeOK
    <2>5. \A g \in Features : Starting(g) => Starting(g)'
      BY <1>4, <2>2 DEF Starting, StartFreeze
    <2>6. \A y \in Togglers \ {x} :
            toggle[y].step \in {"insert", "unread", "stop"} =>
                owner'[toggle[y].slot] = toggle[y].f
      BY <1>1, <2>3, Fields DEF OwnHandles
    <2>7. \A y \in Togglers \ {x} : toggle[y].step = "off" => OwnHandle(toggle[y].f)'
      BY <1>1, <2>2, <2>4, Fields DEF OwnHandles
    <2> QED
      BY <1>1, <2>1, <2>2, <2>3, <2>4, <2>5, <2>6, <2>7 DEF OwnHandles, OwnHandle
  <1>5. CASE Insert(x)
    <2>1. /\ t.step = "insert" /\ t.slot \in Slots
          /\ handles' = [handles EXCEPT ![f] = t.slot]
          /\ toggle' = [toggle EXCEPT ![x] = NoToggle]
          /\ owner' = owner
          /\ \A g \in Features \ {f} : switch'[g] = switch[g]
      BY <1>2, <1>5, Fields DEF Insert, Ends, TypeOK, dllVars
    <2>2. toggle'[x] = NoToggle /\ \A y \in Togglers \ {x} : toggle'[y] = toggle[y]
      BY <2>1 DEF TypeOK
    <2>3. \A g \in Features : g = f \/ OwnHandle(g) => OwnHandle(g)'
      BY <1>1, <1>2, <2>1 DEF OwnHandles, OwnHandle, TypeOK
    <2>4. \A g \in Features \ {f} : Starting(g) => Starting(g)'
      BY <2>2 DEF Starting
    <2> QED
      BY <1>1, <2>1, <2>2, <2>3, <2>4, Fields DEF OwnHandles, NoToggle
  <1>6. CASE Remove(x)
    <2>1. CASE handles[f] = None
      <3>1. /\ toggle' = [toggle EXCEPT ![x] = NoToggle]
            /\ UNCHANGED <<owner, handles>>
            /\ \A g \in Features \ {f} : switch'[g] = switch[g]
        BY <1>2, <1>6, <2>1 DEF Remove, Ends, TypeOK, dllVars
      <3>2. toggle'[x] = NoToggle /\ \A y \in Togglers \ {x} : toggle'[y] = toggle[y]
        BY <3>1 DEF TypeOK
      <3>3. \A g \in Features : OwnHandle(g)' <=> OwnHandle(g)
        BY <3>1 DEF OwnHandle
      <3>4. \A g \in Features \ {f} : Starting(g) => Starting(g)'
        BY <3>2 DEF Starting
      <3>5. OwnHandle(f)
        BY <2>1 DEF OwnHandle
      <3>6. ASSUME NEW g \in Features, switch'[g] PROVE OwnHandle(g)' \/ Starting(g)'
        <4>1. CASE g = f
          BY <3>3, <3>5, <4>1, Fields
        <4>2. CASE g # f
          BY <1>1, <3>1, <3>3, <3>4, <3>6, <4>2 DEF OwnHandles
        <4> QED
          BY <4>1, <4>2
      <3>7. ASSUME NEW y \in Togglers
            PROVE  /\ (toggle[y].step = "off" => OwnHandle(toggle[y].f))'
                   /\ (toggle[y].step \in {"insert", "unread", "stop"}
                           => owner[toggle[y].slot] = toggle[y].f)'
        <4>1. CASE y = x
          BY <3>2, <4>1 DEF NoToggle
        <4>2. CASE y # x
          <5>1. toggle'[y] = toggle[y]
            BY <3>2, <4>2
          <5>2. toggle[y].step = "off" => OwnHandle(toggle[y].f)
            BY <1>1 DEF OwnHandles
          <5>3. toggle[y].step \in {"insert", "unread", "stop"}
                    => owner[toggle[y].slot] = toggle[y].f
            BY <1>1 DEF OwnHandles
          <5> QED
            BY <3>1, <5>1, <5>2, <5>3 DEF OwnHandle
        <4> QED
          BY <4>1, <4>2
      <3> QED
        BY <3>6, <3>7 DEF OwnHandles
    <2>2. CASE handles[f] # None
      <3>1. /\ handles' = [handles EXCEPT ![f] = None]
            /\ Goes(x, "unread", handles[f]) /\ t.step = "off"
            /\ UNCHANGED <<owner, switch>>
        BY <1>6, <2>2 DEF Remove, dllVars
      <3>2. /\ toggle'[x].step = "unread" /\ toggle'[x].f = f /\ toggle'[x].slot = handles[f]
            /\ \A y \in Togglers \ {x} : toggle'[y] = toggle[y]
        BY <1>2, <3>1, GoesFields
      <3>3. \A g \in Features : OwnHandle(g) => OwnHandle(g)'
        BY <1>2, <3>1 DEF OwnHandle, TypeOK
      <3>4. \A g \in Features : Starting(g) => Starting(g)'
        BY <3>1, <3>2 DEF Starting
      <3>5. owner[handles[f]] = f
        BY <1>1, <2>2, <3>1 DEF OwnHandles, OwnHandle
      <3> QED
        BY <1>1, <3>1, <3>2, <3>3, <3>4, <3>5, Fields DEF OwnHandles
    <2> QED
      BY <2>1, <2>2
  <1>7. CASE LockOff(x)
    <2>1. t.step = "unread" /\ Goes(x, "stop", t.slot) /\ UNCHANGED <<owner, handles, switch>>
      BY <1>7 DEF LockOff, dllVars
    <2>2. /\ toggle'[x].step = "stop" /\ toggle'[x].f = f /\ toggle'[x].slot = t.slot
          /\ \A y \in Togglers \ {x} : toggle'[y] = toggle[y]
      BY <1>2, <2>1, GoesFields
    <2> QED
      BY <1>1, <2>1, <2>2 DEF OwnHandles, OwnHandle, Starting
  <1>8. CASE StopFreeze(x)
    <2>1. /\ t.step = "stop" /\ toggle' = [toggle EXCEPT ![x] = NoToggle]
          /\ UNCHANGED <<owner, handles>>
          /\ switch' \in {switch, [switch EXCEPT ![f] = FALSE]}
      BY <1>8 DEF StopFreeze, Ends
    <2>2. toggle'[x] = NoToggle /\ \A y \in Togglers \ {x} : toggle'[y] = toggle[y]
      BY <2>1 DEF TypeOK
    <2>3. \A g \in Features : switch'[g] => switch[g]
      BY <1>2, <2>1 DEF TypeOK
    <2> QED
      BY <1>1, <2>1, <2>2, <2>3 DEF OwnHandles, OwnHandle, Starting, NoToggle
  <1> QED
    BY <1>3, <1>4, <1>5, <1>6, <1>7, <1>8 DEF ToggleStep

LEMMA OwnNext == TypeOK /\ OwnHandles /\ [Next]_vars => OwnHandles'
  <1> SUFFICES ASSUME TypeOK, OwnHandles, [Next]_vars PROVE OwnHandles'
    OBVIOUS
  <1> USE FreezeAssumption
  <1>0. TypeOK'
    BY TypeNext
  <1>1. CASE UNCHANGED <<owner, session, handles, switch, toggle>>
    BY <1>1 DEF OwnHandles, OwnHandle, Starting
  <1>2. CASE session' # "open"
    BY <1>2 DEF OwnHandles
  <1>3. CASE Attach
    BY <1>3 DEF Attach, Quiet, OwnHandles, NoToggle
  <1>4. ASSUME NEW x \in Togglers, NEW f \in Features, Press(x, f) PROVE OwnHandles'
    <2> DEFINE on == IF x = "ui" THEN ~switch[f] ELSE TRUE
               new == [step |-> IF on THEN "on" ELSE "off", f |-> f, slot |-> None]
    <2>1. /\ toggle[x] = NoToggle /\ toggle' = [toggle EXCEPT ![x] = new]
          /\ switch' = IF x = "ui" THEN [switch EXCEPT ![f] = on] ELSE switch
          /\ UNCHANGED <<owner, session, handles>>
      BY <1>4 DEF Press, dllVars
    <2>2. toggle'[x] = new /\ \A y \in Togglers \ {x} : toggle'[y] = toggle[y]
      BY <2>1 DEF TypeOK
    <2>3. \A g \in Features : OwnHandle(g)' <=> OwnHandle(g)
      BY <2>1 DEF OwnHandle
    <2>4. \A g \in Features : Starting(g) => Starting(g)'
      BY <2>1, <2>2 DEF Starting, NoToggle
    <2>5. CASE x # "ui"
      BY <2>1, <2>2, <2>3, <2>4, <2>5, Fields DEF OwnHandles
    <2>6. CASE x = "ui"
      <3>1. switch[f] => ~Starting(f)
        BY <2>1, <2>6 DEF Starting, NoToggle
      <3>2. switch'[f] => Starting(f)'
        BY <2>1, <2>2, <2>6 DEF Starting, TypeOK
      <3>3. \A g \in Features \ {f} : switch'[g] = switch[g]
        BY <2>1 DEF TypeOK
      <3> QED
        BY <2>1, <2>2, <2>3, <2>4, <2>6, <3>1, <3>2, <3>3, Fields DEF OwnHandles
    <2> QED
      BY <2>5, <2>6
  <1>5. ASSUME NEW d \in Detachers, Drain(d) PROVE OwnHandles'
    <2>1. handles' = [f \in Features |-> None] /\ UNCHANGED <<owner, session, switch, toggle>>
      BY <1>5 DEF Drain, dllVars
    <2> QED
      BY <2>1, Fields DEF OwnHandles, OwnHandle
  <1>6. CASE Next
    <2>1. CASE \/ Pass \/ Visit \/ RetryWaits \/ RetryWrites
               \/ \E f \in Features : GameWrites(f)
      BY <1>1, <2>1 DEF Pass, Visit, RetryWaits, RetryWrites, GameWrites, dllVars
    <2>2. CASE PipeBreaks \/ AppDies \/ GameRestarts
      BY <1>2, <2>2 DEF PipeBreaks, AppDies, GameRestarts
    <2>3. ASSUME NEW d \in Detachers, Detach(d) \/ DetachStep(d) PROVE OwnHandles'
      BY <1>1, <1>2, <1>5, <2>3
         DEF Detach, DetachStep, LockDetach, StopDrained, LockTake, Take, dllVars
    <2> QED
      BY <1>0, <1>3, <1>4, <1>6, <2>1, <2>2, <2>3, OwnToggle DEF Next
  <1> QED
    BY <1>1, <1>6 DEF vars, dllVars

\* A toggle that switches off stops a slot of its own feature, whoever toggles,
\* also after the game was restarted and its handles count from 1 again.
THEOREM StopsCorrect == Spec => StopsItsOwn
  <1>1. OwnHandles /\ [Next]_vars =>
            [\A x \in Togglers :
                StopFreeze(x) => \A h \in active \ active' : owner[h] = toggle[x].f]_vars
    <2> SUFFICES ASSUME OwnHandles, NEW x \in Togglers, StopFreeze(x),
                        NEW h \in active \ active'
                 PROVE  owner[h] = toggle[x].f
      OBVIOUS
    <2>1. toggle[x].step = "stop" /\ session = "open" /\ h = toggle[x].slot
      BY DEF StopFreeze, Stopped
    <2> QED
      BY <2>1 DEF OwnHandles
  <1>2. Init => TypeOK /\ OwnHandles
    BY FreezeAssumption DEF Init, TypeOK, OwnHandles
  <1>3. TypeOK /\ OwnHandles /\ [Next]_vars => TypeOK' /\ OwnHandles'
    BY TypeNext, OwnNext
  <1> QED
    BY <1>1, <1>2, <1>3, PTL DEF Spec, StopsItsOwn

\* Once it has been stopped and visited, a slot is stamped no more: a pass copies
\* active slots only.
THEOREM StoppedCorrect == Spec => StoppedStaysOut
  <1>1. [Next]_vars =>
          [\A h \in Slots :
              h \notin active \cup todo /\ h \notin active' => h \notin todo']_vars
    <2> SUFFICES ASSUME [Next]_vars, NEW h \in Slots, h \notin active \cup todo
                 PROVE  h \notin todo'
      OBVIOUS
    <2>1. CASE Pass \/ Visit
      BY <2>1 DEF Pass, Visit
    <2>2. CASE ~(Pass \/ Visit)
      <3>1. todo' = todo \/ todo' = {}
        BY <2>2 DEF Next, vars, dllVars, GameWrites, Attach, PipeBreaks, AppDies,
               GameRestarts, FreshDll, RetryWaits, RetryWrites, ToggleStep, Press, LockOn,
               StartFreeze, Insert, Remove, LockOff, StopFreeze, Detach, DetachStep, Drain,
               LockDetach, StopDrained, LockTake, Take
      <3> QED
        BY <3>1
    <2> QED
      BY <2>1, <2>2
  <1> QED
    BY <1>1, PTL DEF Spec, StoppedStaysOut

-----------------------------------------------------------------------------
(* The locks.                                                               *)

\* A lock is held by whom its block has taken it for, and by nobody else.
LocksHeld ==
    /\ \A x \in Togglers :
         /\ x \in readers <=> toggle[x].step \in {"start", "insert", "stop"}
         /\ mutex = x <=> toggle[x].step \in {"unread", "stop"}
    /\ \A d \in Detachers :
         /\ d \in readers <=> det[d] = "stop"
         /\ writer = d <=> det[d] = "taking"
         /\ mutex # d

\* Who waits for whom: for the session, behind a writer; for the map, which its holder
\* keeps; for the readers, as a writer; for the main thread, which a detach occupies.
ForSession(p) ==
    \/ p \in Togglers /\ toggle[p].step \in {"on", "unread"}
    \/ p \in Detachers /\ det[p] \in {"read", "take"}

ForMap(p) ==
    \/ p \in Togglers /\ toggle[p].step \in {"insert", "off"}
    \/ p \in Detachers /\ det[p] = "drain"

ForMain(p) == p = "ui" /\ p \in Togglers /\ toggle[p].step \in {"on", "off"}

WaitsFor(p, q) ==
    \/ ForSession(p) /\ q = writer
    \/ ForMap(p) /\ q = mutex
    \/ p = writer /\ q \in readers
    \/ ForMain(p) /\ q = "user" /\ det["user"] # "off"

Actors == Togglers \cup Detachers \cup {"retry"}

\* Of any actors, one at least waits for none of the others: nobody waits in a circle.
NoCircle == \A S \in (SUBSET Actors) \ {{}} : \E p \in S : \A q \in S : ~WaitsFor(p, q)

\* A toggle takes and drops its own locks only, at the steps that LocksHeld names.
LEMMA ToggleLocks ==
  ASSUME TypeOK, LocksHeld, NEW x \in Togglers, ToggleStep(x)
  PROVE  LocksHeld'
  <1>1. /\ det' = det /\ writer' = writer
        /\ x \notin Detachers /\ x # None
    BY FreezeAssumption, NobodyAssumption
    DEF ToggleStep, LockOn, StartFreeze, Insert, Remove, LockOff, StopFreeze, ReadLock, Release,
        detVars, locks, Detachers
  <1>2. ASSUME /\ \A y \in Togglers \ {x} : toggle'[y] = toggle[y]
               /\ readers' \ {x} = readers \ {x}
               /\ mutex' = mutex \/ {mutex, mutex'} = {x, None}
               /\ x \in readers' <=> toggle'[x].step \in {"start", "insert", "stop"}
               /\ mutex' = x <=> toggle'[x].step \in {"unread", "stop"}
        PROVE  LocksHeld'
    <2>1. \A y \in Togglers \ {x} : (y \in readers' <=> y \in readers) /\ (mutex' = y <=> mutex = y)
      BY <1>2, FreezeAssumption, NobodyAssumption
    <2>2. \A d \in Detachers : (d \in readers' <=> d \in readers) /\ mutex' # d
      BY <1>1, <1>2, FreezeAssumption, NobodyAssumption DEF LocksHeld, Detachers
    <2> QED
      BY <1>1, <1>2, <2>1, <2>2 DEF LocksHeld
  <1>3. ASSUME NEW ok, NEW on, Ends(x, ok, on)
        PROVE  /\ toggle'[x].step = "none"
               /\ \A y \in Togglers \ {x} : toggle'[y] = toggle[y]
    BY <1>3 DEF Ends, TypeOK, NoToggle
  <1>4. CASE LockOn(x)
    <2>1. CASE session = "none"
      <3>1. Ends(x, FALSE, TRUE) /\ UNCHANGED locks /\ toggle[x].step = "on"
        BY <1>4, <2>1 DEF LockOn
      <3>2. toggle'[x].step = "none" /\ \A y \in Togglers \ {x} : toggle'[y] = toggle[y]
        BY <1>3, <3>1
      <3> QED
        BY <1>2, <3>1, <3>2 DEF locks, LocksHeld
    <2>2. CASE session # "none"
      <3>1. ReadLock(x) /\ Goes(x, "start", None) /\ toggle[x].step = "on"
        BY <1>4, <2>2 DEF LockOn
      <3>2. toggle'[x].step = "start" /\ \A y \in Togglers \ {x} : toggle'[y] = toggle[y]
        BY <3>1, GoesFields DEF NoToggle
      <3> QED
        BY <1>2, <3>1, <3>2 DEF ReadLock, LocksHeld
    <2> QED
      BY <2>1, <2>2
  <1>5. CASE StartFreeze(x)
    <2>1. CASE session = "open"
      <3>1. PICK h \in Slots : Goes(x, "insert", h) /\ UNCHANGED locks /\ toggle[x].step = "start"
        BY <1>5, <2>1 DEF StartFreeze, locks
      <3>2. toggle'[x].step = "insert" /\ \A y \in Togglers \ {x} : toggle'[y] = toggle[y]
        BY <3>1, GoesFields DEF NoToggle
      <3> QED
        BY <1>2, <3>1, <3>2 DEF locks, LocksHeld
    <2>2. CASE session # "open"
      <3>1. Release(x) /\ Ends(x, FALSE, TRUE)
        BY <1>5, <2>2 DEF StartFreeze
      <3>2. toggle'[x].step = "none" /\ \A y \in Togglers \ {x} : toggle'[y] = toggle[y]
        BY <1>3, <3>1
      <3> QED
        BY <1>1, <1>2, <3>1, <3>2 DEF Release
    <2> QED
      BY <2>1, <2>2
  <1>6. CASE Insert(x) \/ StopFreeze(x)
    <2>1. Release(x) /\ \E on \in BOOLEAN : Ends(x, TRUE, on)
      BY <1>6 DEF Insert, StopFreeze
    <2>2. toggle'[x].step = "none" /\ \A y \in Togglers \ {x} : toggle'[y] = toggle[y]
      BY <1>3, <2>1
    <2> QED
      BY <1>1, <1>2, <2>1, <2>2 DEF Release
  <1>7. CASE Remove(x)
    <2>1. toggle[x].step = "off" /\ mutex = None
      BY <1>7 DEF Remove
    <2>2. CASE handles[toggle[x].f] = None
      <3>1. Ends(x, TRUE, FALSE) /\ UNCHANGED locks
        BY <1>7, <2>2 DEF Remove
      <3>2. toggle'[x].step = "none" /\ \A y \in Togglers \ {x} : toggle'[y] = toggle[y]
        BY <1>3, <3>1
      <3> QED
        BY <1>2, <2>1, <3>1, <3>2 DEF locks, LocksHeld
    <2>3. CASE handles[toggle[x].f] # None
      <3>1. /\ mutex' = x /\ readers' = readers
            /\ Goes(x, "unread", handles[toggle[x].f])
        BY <1>7, <2>3 DEF Remove
      <3>2. toggle'[x].step = "unread" /\ \A y \in Togglers \ {x} : toggle'[y] = toggle[y]
        BY <2>1, <3>1, GoesFields DEF NoToggle
      <3> QED
        BY <1>2, <2>1, <3>1, <3>2 DEF LocksHeld
    <2> QED
      BY <2>2, <2>3
  <1>8. CASE LockOff(x)
    <2>1. ReadLock(x) /\ Goes(x, "stop", toggle[x].slot) /\ toggle[x].step = "unread"
      BY <1>8 DEF LockOff
    <2>2. toggle'[x].step = "stop" /\ \A y \in Togglers \ {x} : toggle'[y] = toggle[y]
      BY <2>1, GoesFields DEF NoToggle
    <2> QED
      BY <1>2, <2>1, <2>2 DEF ReadLock, LocksHeld
  <1> QED
    BY <1>4, <1>5, <1>6, <1>7, <1>8 DEF ToggleStep

LEMMA DetachLocks ==
  ASSUME TypeOK, LocksHeld, NEW d \in Detachers, Detach(d) \/ DetachStep(d)
  PROVE  LocksHeld'
  <1>1. toggle' = toggle /\ d \notin Togglers /\ d # None /\ mutex # d
    BY FreezeAssumption, NobodyAssumption
    DEF Detach, DetachStep, Drain, LockDetach, StopDrained, LockTake, Take, Detachers, LocksHeld
  <1>2. PICK next \in {"drain", "read", "stop", "take", "taking", "off"} :
          det' = [det EXCEPT ![d] = next]
    BY DEF Detach, DetachStep, Drain, LockDetach, StopDrained, LockTake, Take, Detaching
  <1>3. det'[d] = next /\ \A e \in Detachers \ {d} : det'[e] = det[e]
    BY <1>2 DEF TypeOK
  <1>4. mutex' = mutex /\ readers' \ {d} = readers \ {d}
    BY <1>1
    DEF Detach, DetachStep, Drain, LockDetach, StopDrained, LockTake, Take, locks, ReadLock,
        Release
  <1>5. d \in readers' <=> det'[d] = "stop"
    BY <1>2, <1>3
    DEF Detach, DetachStep, Drain, LockDetach, StopDrained, LockTake, Take, Detaching, LocksHeld,
        TypeOK, locks, ReadLock, Release
  <1>6. \A e \in Detachers : writer' = e <=> det'[e] = "taking"
    <2>1. CASE Detach(d) \/ Drain(d) \/ LockDetach(d) \/ StopDrained(d)
      <3>1. writer' = writer /\ det[d] # "taking" /\ det'[d] # "taking"
        BY <1>2, <1>3, <2>1
        DEF Detach, Drain, LockDetach, StopDrained, Detaching, LocksHeld, TypeOK, locks,
            ReadLock, Release
      <3> QED
        BY <1>3, <3>1 DEF LocksHeld
    <2>2. CASE LockTake(d)
      <3>1. writer = None /\ writer' = d /\ det'[d] = "taking"
        BY <2>2 DEF LockTake, Detaching, TypeOK
      <3>2. None \notin Detachers
        BY NobodyAssumption DEF Detachers
      <3> QED
        BY <1>3, <3>1, <3>2 DEF LocksHeld
    <2>3. CASE Take(d)
      <3>1. writer = d /\ writer' = None /\ det'[d] = "off"
        BY <2>3 DEF Take, Detaching, TypeOK
      <3>2. None \notin Detachers
        BY NobodyAssumption DEF Detachers
      <3> QED
        BY <1>3, <3>1, <3>2 DEF LocksHeld
    <2> QED
      BY <2>1, <2>2, <2>3 DEF DetachStep
  <1> QED
    BY <1>1, <1>3, <1>4, <1>5, <1>6 DEF LocksHeld

LEMMA LocksNext == TypeOK /\ LocksHeld /\ [Next]_vars => LocksHeld'
  <1> SUFFICES ASSUME TypeOK, LocksHeld, [Next]_vars PROVE LocksHeld'
    OBVIOUS
  <1>1. CASE \/ Pass \/ Visit \/ Attach \/ PipeBreaks \/ GameRestarts
             \/ \E f \in Features : GameWrites(f)
             \/ UNCHANGED vars
    <2>1. UNCHANGED <<toggle, detVars, locks>>
      BY <1>1 DEF Pass, Visit, Attach, PipeBreaks, GameRestarts, GameWrites, vars
    <2> QED
      BY <2>1 DEF LocksHeld, detVars, locks
  <1>2. CASE AppDies
    BY <1>2, FreezeAssumption, NobodyAssumption DEF AppDies, LocksHeld, NoToggle, Detachers
  <1>3. CASE RetryWaits \/ RetryWrites
    BY <1>3, FreezeAssumption, NobodyAssumption
    DEF RetryWaits, RetryWrites, LocksHeld, Detachers, detVars
  <1>4. ASSUME NEW x \in Togglers, ToggleStep(x) PROVE LocksHeld'
    BY <1>4, ToggleLocks
  <1>5. ASSUME NEW x \in Togglers, NEW f \in Features, Press(x, f) PROVE LocksHeld'
    <2>1. PICK step \in {"on", "off"} :
            toggle' = [toggle EXCEPT ![x] = [step |-> step, f |-> f, slot |-> None]]
      BY <1>5 DEF Press
    <2>2. toggle[x].step = "none" /\ UNCHANGED <<detVars, locks>>
      BY <1>5 DEF Press, NoToggle
    <2>3. toggle'[x].step = step /\ \A y \in Togglers \ {x} : toggle'[y] = toggle[y]
      BY <2>1 DEF TypeOK
    <2> QED
      BY <2>2, <2>3 DEF LocksHeld, detVars, locks
  <1>6. ASSUME NEW d \in Detachers, Detach(d) \/ DetachStep(d) PROVE LocksHeld'
    BY <1>6, DetachLocks
  <1> QED
    BY <1>1, <1>2, <1>3, <1>4, <1>5, <1>6 DEF Next

\* A reader waits for nobody; a writer, for the readers; who waits for the session, for
\* the writer; and the map is held by the main thread's toggle, which waits for the
\* session alone.
LEMMA NobodyCircles ==
  ASSUME OnlyUi, TypeOK, LocksHeld, MainThread
  PROVE  NoCircle
  <1> SUFFICES ASSUME NEW S \in SUBSET Actors, S # {}
               PROVE  \E p \in S : \A q \in S : ~WaitsFor(p, q)
    BY DEF NoCircle
  <1>0. /\ "ui" \notin Detachers /\ "retry" \notin Detachers \cup Togglers
        /\ None \notin Actors /\ Togglers = {"ui"} /\ toggle["ui"] = ui
    BY FreezeAssumption, NobodyAssumption DEF OnlyUi, Detachers, Actors, ui
  <1>1. \A p \in S : ~(ForMain(p) /\ det["user"] # "off")
    BY <1>0 DEF MainThread, ForMain, NoToggle
  <1>2. ASSUME NEW p \in S, p \in readers
        PROVE  \A q \in S : ~WaitsFor(p, q)
    <2>1. CASE p = "ui"
      BY <1>0, <1>1, <1>2, <2>1
      DEF WaitsFor, ForSession, ForMap, LocksHeld, TypeOK
    <2>2. CASE p \in Detachers
      BY <1>0, <1>1, <1>2, <2>2
      DEF WaitsFor, ForSession, ForMap, LocksHeld
    <2>3. p \in Togglers \cup Detachers
      BY <1>2 DEF TypeOK
    <2> QED
      BY <1>0, <2>1, <2>2, <2>3
  <1>3. ASSUME S \cap readers = {}, NEW p \in S, p = writer
        PROVE  \A q \in S : ~WaitsFor(p, q)
    <2>1. p \in Detachers \cup {"retry"}
      BY <1>0, <1>3 DEF TypeOK
    <2>2. ~ForSession(p) /\ ~ForMap(p)
      BY <1>0, <1>3, <2>1 DEF ForSession, ForMap, LocksHeld
    <2> QED
      BY <1>1, <1>3, <2>2 DEF WaitsFor
  <1>4. ASSUME S \cap readers = {}, writer \notin S, NEW p \in S, ~ForMap(p)
        PROVE  \A q \in S : ~WaitsFor(p, q)
    BY <1>1, <1>4 DEF WaitsFor
  <1>5. ASSUME S \cap readers = {}, writer \notin S, \A p \in S : ForMap(p), NEW p \in S
        PROVE  \A q \in S : ~WaitsFor(p, q)
    <2>1. mutex \notin S
      BY <1>0, <1>5 DEF TypeOK, LocksHeld, ForMap
    <2> QED
      BY <1>1, <1>5, <2>1 DEF WaitsFor
  <1>6. CASE S \cap readers # {}
    BY <1>2, <1>6
  <1>7. CASE S \cap readers = {} /\ writer \in S
    BY <1>3, <1>7
  <1>8. CASE S \cap readers = {} /\ writer \notin S
    BY <1>4, <1>5, <1>8
  <1> QED
    BY <1>6, <1>7, <1>8

\* As long as set_freeze runs on the main thread alone, the locks of set_freeze, do_detach
\* and retry_resolve never close a circle: the reader that holds the session, the holder
\* of the map and the writer that queues are never each behind the next.
THEOREM NoCircleCorrect ==
  ASSUME OnlyUi
  PROVE  Spec => []NoCircle
  <1>1. Init => IInv /\ LocksHeld
    BY InitInv, FreezeAssumption, NobodyAssumption DEF Init, LocksHeld, NoToggle, Detachers
  <1>2. IInv /\ LocksHeld /\ [Next]_vars => IInv' /\ LocksHeld'
    BY InvNext, LocksNext DEF IInv
  <1>3. IInv /\ LocksHeld => NoCircle
    BY NobodyCircles DEF IInv
  <1> QED
    BY <1>1, <1>2, <1>3, PTL DEF Spec
=============================================================================
