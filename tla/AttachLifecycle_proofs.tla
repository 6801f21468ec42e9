----------------------- MODULE AttachLifecycle_proofs -----------------------
(***************************************************************************)
(* The process watcher is paused only while something is under way that    *)
(* resumes it, for any number of games, attach calls, loops and restarts.  *)
(*                                                                         *)
(* That is nearly inductive.  What is missing is that the exit watch of a  *)
(* call, one of those that resume, cannot be overwritten while it is about *)
(* to: Watch puts a new watch under the number of its call, and nothing    *)
(* runs under that number before.                                          *)
(***************************************************************************)
EXTENDS AttachLifecycle, TLAPS

\* Before its Watch step, nothing detaches in the name of a call.
Unwatched ==
    \A c \in Calls :
        call[c] \in {"new", "connect", "resolve", "publish", "watch"} => det[c] = "off"

IInv ==
    /\ TypeOK
    /\ Unwatched
    /\ PausedWhileBusy
-----------------------------------------------------------------------------
(* Types.                                                                  *)

LEMMA GameOfType ==
  ASSUME TypeOK, NEW c \in Calls
  PROVE  GameOf(c) \in Games \cup {None}
  BY DEF TypeOK, GameOf

\* A watch that is cancelled only goes from waiting to gone.
LEMMA CancelledType ==
  ASSUME TypeOK, NEW w \in Calls \cup {None}
  PROVE  /\ Cancelled(w) \in [Detachers -> {"off", "waiting", "abort", "take", "resume", "gone"}]
         /\ \A d \in Detachers :
                Cancelled(w)[d] # det[d] => det[d] = "waiting" /\ Cancelled(w)[d] = "gone"
  BY AttachAssumption DEF TypeOK, Cancelled, Detachers

\* A loop that is spawned has a number, and so has its handle.
LEMMA SpawnType ==
  ASSUME TypeOK, NEW s \in Calls \cup {None}, NEW key, Spawn(s, key)
  PROVE  /\ task' \in [Tasks -> Calls \cup {None}]
         /\ handles' \in [Keys -> Tasks \cup {None}]
         /\ aborted' \subseteq Tasks
  <1>1. (CHOOSE k \in Free : TRUE) \in Tasks
    BY DEF Spawn, Free
  <1> QED
    BY <1>1 DEF Spawn, TypeOK

LEMMA ToldType ==
  ASSUME TypeOK, NEW x \in Togglers, NEW ok \in BOOLEAN, Told(x, ok)
  PROVE  switch' \in [Games -> BOOLEAN]
  BY DEF Told, TypeOK

\* Every step of an attach call keeps the types.
LEMMA CallType ==
  ASSUME TypeOK, NEW c \in Calls, CallStep(c)
  PROVE  TypeOK'
  <1> USE AttachAssumption DEF gameVars, uiVars, callVars, detVars, taskVars
  <1>0. GameOf(c) \in Games \cup {None}
    BY GameOfType
  <1>1. CASE Connect(c)
    BY <1>0, <1>1 DEF Connect, Goes, Shows, TypeOK
  <1>2. CASE ConnectFails(c)
    BY <1>2 DEF ConnectFails, Goes, Shows, Idle, TypeOK
  <1>3. CASE Resolve(c)
    BY <1>3 DEF Resolve, Goes, Shows, Idle, TypeOK
  <1>4. CASE Publish(c)
    BY <1>4 DEF Publish, Goes, TypeOK
  <1>5. CASE Watch(c)
    <2>1. CASE attached = None
      BY <1>5, <2>1 DEF Watch, Goes, TypeOK, Detachers
    <2>2. CASE attached # None
      <3>1. attached \in Calls /\ exitWatch[attached] \in Calls \cup {None}
        BY <2>2 DEF TypeOK
      <3>2. Cancelled(exitWatch[attached])
                \in [Detachers -> {"off", "waiting", "abort", "take", "resume", "gone"}]
        BY <3>1, CancelledType
      <3>3. /\ det' = [Cancelled(exitWatch[attached]) EXCEPT ![c] = "waiting"]
            /\ exitWatch' = [exitWatch EXCEPT ![attached] = c]
        BY <1>5, <2>2 DEF Watch
      <3> QED
        BY <1>5, <3>1, <3>2, <3>3 DEF Watch, Goes, TypeOK
    <2> QED
      BY <2>1, <2>2
  <1>6. CASE Sweep(c)
    <2>1. CASE Announce(c)
      BY <1>0, <1>6, <2>1 DEF Sweep, Goes, Announce, Shows, TypeOK
    <2>2. CASE Goes(c, "probe") /\ UNCHANGED <<uiVars, retry>>
      BY <1>6, <2>2 DEF Sweep, Goes, TypeOK
    <2> QED
      BY <1>6, <2>1, <2>2 DEF Sweep
  <1>7. CASE Probe(c)
    <2>1. CASE Announce(c) /\ Spawn(c, <<"probe", GameOf(c)>>)
      <3>1. /\ task' \in [Tasks -> Calls \cup {None}]
            /\ handles' \in [Keys -> Tasks \cup {None}]
            /\ aborted' \subseteq Tasks
        BY <2>1, SpawnType
      <3> QED
        BY <1>0, <1>7, <2>1, <3>1 DEF Probe, Goes, Announce, Shows, TypeOK
    <2>2. CASE Goes(c, "panicked") /\ Idle /\ UNCHANGED <<switch, retry, taskVars>>
      BY <1>7, <2>2 DEF Probe, Goes, Shows, Idle, TypeOK
    <2> QED
      BY <1>7, <2>1, <2>2 DEF Probe
  <1> QED
    BY <1>1, <1>2, <1>3, <1>4, <1>5, <1>6, <1>7 DEF CallStep

\* Every step of do_detach keeps the types, and so do its two triggers.
LEMMA DetachType ==
  ASSUME TypeOK,
         Deactivate \/ (\E c \in Calls : Notice(c)) \/ (\E d \in Detachers : DetachStep(d))
  PROVE  TypeOK'
  <1> USE AttachAssumption DEF gameVars, uiVars, callVars, detVars, taskVars, Detaching
  <1>1. CASE Deactivate
    BY <1>1 DEF Deactivate, TypeOK
  <1>2. ASSUME NEW c \in Calls, Notice(c) PROVE TypeOK'
    BY <1>2 DEF Notice, TypeOK
  <1>3. ASSUME NEW d \in Detachers, AbortLoops(d) PROVE TypeOK'
    BY <1>3 DEF AbortLoops, TypeOK
  <1>4. ASSUME NEW d \in Detachers, Take(d) PROVE TypeOK'
    <2>1. CASE attached = None
      BY <1>4, <2>1 DEF Take, TypeOK
    <2>2. CASE attached # None
      <3>1. attached \in Calls /\ exitWatch[attached] \in Calls \cup {None}
        BY <2>2 DEF TypeOK
      <3>2. Cancelled(exitWatch[attached])
                \in [Detachers -> {"off", "waiting", "abort", "take", "resume", "gone"}]
        BY <3>1, CancelledType
      <3>3. /\ det' = [Cancelled(exitWatch[attached]) EXCEPT ![d] = "resume"]
            /\ exitWatch' = [exitWatch EXCEPT ![attached] = None]
        BY <1>4, <2>2 DEF Take
      <3> QED
        BY <1>4, <3>1, <3>2, <3>3 DEF Take, TypeOK
    <2> QED
      BY <2>1, <2>2
  <1>5. ASSUME NEW d \in Detachers, Resume(d) PROVE TypeOK'
    BY <1>5 DEF Resume, Shows, Idle, TypeOK
  <1> QED
    BY <1>1, <1>2, <1>3, <1>4, <1>5 DEF DetachStep

\* Every step of set_freeze keeps the types.
LEMMA ToggleType ==
  ASSUME TypeOK, NEW x \in Togglers, ToggleStep(x)
  PROVE  TypeOK'
  <1> USE AttachAssumption DEF gameVars, uiVars, callVars, detVars, taskVars
  <1>0. toggle[x].step # "none" => toggle[x] \in Toggling
    BY DEF TypeOK, NoToggle
  <1>1. CASE SetOn(x)
    <2>1. CASE AttachedTo(toggle[x].game)
      <3> DEFINE new == [toggle[x] EXCEPT !.step = "spawn", !.sess = attached]
      <3>1. attached \in Calls
        BY <2>1 DEF AttachedTo, TypeOK
      <3>2. toggle[x] \in [step : {"on"}, game : Games, sess : {None}]
        BY <1>0, <1>1 DEF SetOn, Toggling
      <3>3. new \in Toggling
        BY <3>1, <3>2 DEF Toggling
      <3>4. toggle' = [toggle EXCEPT ![x] = new]
        BY <1>1, <2>1 DEF SetOn, TypeOK
      <3> HIDE DEF new
      <3> QED
        BY <1>1, <2>1, <3>3, <3>4 DEF SetOn, TypeOK
    <2>2. CASE ~AttachedTo(toggle[x].game)
      <3>1. switch' \in [Games -> BOOLEAN]
        BY <1>1, <2>2, ToldType DEF SetOn
      <3> QED
        BY <1>1, <2>2, <3>1 DEF SetOn, TypeOK
    <2> QED
      BY <2>1, <2>2
  <1>2. CASE SetSpawn(x)
    <2>1. toggle[x].sess \in Calls
      BY <1>0, <1>2 DEF SetSpawn, Toggling
    <2>2. /\ task' \in [Tasks -> Calls \cup {None}]
          /\ handles' \in [Keys -> Tasks \cup {None}]
          /\ aborted' \subseteq Tasks
      BY <1>2, <2>1, SpawnType DEF SetSpawn
    <2>3. switch' \in [Games -> BOOLEAN]
      BY <1>2, ToldType DEF SetSpawn
    <2> QED
      BY <1>2, <2>2, <2>3 DEF SetSpawn, TypeOK
  <1>3. CASE SetOff(x)
    <2> DEFINE key == <<"freeze", toggle[x].game>>
    <2>1. key \in Keys
      BY <1>0, <1>3 DEF SetOff, Toggling, Keys
    <2>2. /\ aborted' = (aborted \cup {handles[key]}) \ {None}
          /\ handles' = [handles EXCEPT ![key] = None]
      BY <1>3 DEF SetOff
    <2>3. switch' \in [Games -> BOOLEAN]
      BY <1>3, ToldType DEF SetOff
    <2> HIDE DEF key
    <2>4. handles[key] \in Tasks \cup {None}
      BY <2>1 DEF TypeOK
    <2>5. aborted' \subseteq Tasks /\ handles' \in [Keys -> Tasks \cup {None}]
      BY <2>1, <2>2, <2>4 DEF TypeOK
    <2> QED
      BY <1>3, <2>3, <2>5 DEF SetOff, TypeOK
  <1> QED
    BY <1>1, <1>2, <1>3 DEF ToggleStep

LEMMA TypeInit == Init => TypeOK
  <1> SUFFICES ASSUME Init PROVE TypeOK
    OBVIOUS
  <1>1. /\ running \in [Games -> Procs \cup {None}]
        /\ started \in Nat
        /\ attached \in Calls \cup {None}
        /\ ui \in [kind : {"idle", "attaching", "resolving", "attached"},
                  game : Games \cup {None}]
    BY DEF Init
  <1>2. paused \in BOOLEAN
    BY DEF Init
  <1>3. switch \in [Games -> BOOLEAN]
    BY DEF Init
  <1>4. /\ call \in [Calls -> {"new", "connect", "resolve", "publish", "watch", "sweep",
                              "probe", "failed", "panicked", "done"}]
        /\ of \in [Calls -> [game : Games \cup {None}, proc : Procs \cup {None}]]
        /\ det \in [Detachers -> {"off", "waiting", "abort", "take", "resume", "gone"}]
        /\ exitWatch \in [Calls -> Calls \cup {None}]
        /\ retry \in [Calls -> {"off", "asleep"} \cup Calls]
    BY DEF Init
  <1>5. /\ task \in [Tasks -> Calls \cup {None}]
        /\ aborted \subseteq Tasks
        /\ handles \in [Keys -> Tasks \cup {None}]
        /\ toggle \in [Togglers -> {NoToggle} \cup Toggling]
    BY DEF Init
  <1> QED
    BY <1>1, <1>2, <1>3, <1>4, <1>5 DEF TypeOK

LEMMA TypeNext == TypeOK /\ [Next]_vars => TypeOK'
  <1> SUFFICES ASSUME TypeOK, [Next]_vars PROVE TypeOK'
    OBVIOUS
  <1> USE AttachAssumption DEF gameVars, uiVars, callVars, detVars, taskVars
  <1>1. ASSUME NEW g \in Games, Launch(g) PROVE TypeOK'
    BY <1>1 DEF Launch, TypeOK
  <1>2. ASSUME NEW g \in Games, Exit(g) PROVE TypeOK'
    BY <1>2 DEF Exit, TypeOK
  <1>3. ASSUME NEW c \in Calls, NEW g \in Games, Start(c, g) PROVE TypeOK'
    <2>1. [game |-> g, proc |-> running[g]] \in [game : Games \cup {None},
                                                 proc : Procs \cup {None}]
      BY DEF TypeOK
    <2>2. of' \in [Calls -> [game : Games \cup {None}, proc : Procs \cup {None}]]
      BY <1>3, <2>1 DEF Start, TypeOK
    <2>3. CASE running[g] = None
      <3>1. /\ call' = [call EXCEPT ![c] = "failed"]
            /\ ui' = [kind |-> "idle", game |-> None]
            /\ paused' = FALSE
        BY <1>3, <2>3 DEF Start, Goes, Shows, Idle
      <3>2. /\ UNCHANGED <<running, started, attached, switch, det, exitWatch, retry,
                           task, aborted, handles, toggle>>
        BY <1>3 DEF Start
      <3> QED
        BY <2>2, <3>1, <3>2 DEF TypeOK
    <2>4. CASE running[g] # None
      BY <1>3, <2>2, <2>4 DEF Start, Goes, Shows, TypeOK
    <2> QED
      BY <2>3, <2>4
  <1>4. ASSUME NEW c \in Calls, CallStep(c) PROVE TypeOK'
    BY <1>4, CallType
  <1>5. ASSUME NEW c \in Calls, RetryWakes(c) PROVE TypeOK'
    <2>1. AttachedTo(GameOf(c)) => attached \in Calls
      BY DEF AttachedTo, TypeOK
    <2> QED
      BY <1>5, <2>1 DEF RetryWakes, TypeOK
  <1>6. ASSUME NEW c \in Calls, RetryApplies(c) PROVE TypeOK'
    BY <1>6 DEF RetryApplies, TypeOK
  <1>7. CASE Deactivate \/ (\E c \in Calls : Notice(c)) \/ (\E d \in Detachers : DetachStep(d))
    BY <1>7, DetachType
  <1>8. ASSUME NEW k \in Tasks, LoopEnds(k) PROVE TypeOK'
    BY <1>8 DEF LoopEnds, TypeOK
  <1>9. ASSUME NEW x \in Togglers, NEW g \in Games, NEW on \in BOOLEAN, Wants(x, g, on),
               switch' \in [Games -> BOOLEAN]
        PROVE  TypeOK'
    <2> DEFINE new == [step |-> IF on THEN "on" ELSE "off", game |-> g, sess |-> None]
    <2>1. new \in Toggling
      BY DEF Toggling
    <2>2. toggle' = [toggle EXCEPT ![x] = new]
      BY <1>9 DEF Wants
    <2> HIDE DEF new
    <2> QED
      BY <1>9, <2>1, <2>2 DEF Wants, TypeOK
  <1>10. ASSUME NEW g \in Games, "ui" \in Togglers, Flip(g) PROVE TypeOK'
    <2>1. (~switch[g]) \in BOOLEAN
      OBVIOUS
    <2>2. switch' \in [Games -> BOOLEAN]
      BY <1>10, <2>1 DEF Flip, TypeOK
    <2> QED
      BY <1>9, <1>10, <2>1, <2>2 DEF Flip
  <1>11. ASSUME NEW g \in Games, "hotkey" \in Togglers, Press(g) PROVE TypeOK'
    <2>1. (handles[<<"freeze", g>>] = None) \in BOOLEAN /\ switch' \in [Games -> BOOLEAN]
      BY <1>11 DEF Press, TypeOK
    <2> QED
      BY <1>9, <1>11, <2>1 DEF Press
  <1>12. ASSUME NEW x \in Togglers, ToggleStep(x) PROVE TypeOK'
    BY <1>12, ToggleType
  <1>13. CASE UNCHANGED vars
    BY <1>13 DEF vars, TypeOK
  <1> QED
    BY <1>1, <1>2, <1>3, <1>4, <1>5, <1>6, <1>7, <1>8, <1>10, <1>11, <1>12, <1>13 DEF Next

\* Every variable keeps its type: in particular a toggle in flight has its game,
\* and its session from the moment it is to be spawned.
THEOREM TypeCorrect == Spec => []TypeOK
  BY TypeInit, TypeNext, PTL DEF Spec
-----------------------------------------------------------------------------
(* The watcher.                                                            *)

LEMMA UnwatchedNext == TypeOK /\ Unwatched /\ [Next]_vars => Unwatched'
  <1> SUFFICES ASSUME TypeOK, Unwatched, [Next]_vars PROVE Unwatched'
    OBVIOUS
  <1> USE AttachAssumption DEF gameVars, uiVars, callVars, detVars, taskVars, Unwatched
  <1>1. ASSUME NEW c \in Calls, NEW g \in Games, Start(c, g) PROVE Unwatched'
    <2>1. call[c] = "new"
      BY <1>1 DEF Start, NextCall
    <2> QED
      BY <1>1, <2>1 DEF Start, Goes, TypeOK
  <1>2. ASSUME NEW c \in Calls,
               \/ Connect(c) \/ ConnectFails(c) \/ Resolve(c)
               \/ Publish(c) \/ Sweep(c) \/ Probe(c)
        PROVE  Unwatched'
    BY <1>2 DEF Connect, ConnectFails, Resolve, Publish, Sweep, Probe, Announce, Goes, TypeOK
  <1>3. ASSUME NEW c \in Calls, Watch(c) PROVE Unwatched'
    <2>1. ASSUME NEW e \in Calls \ {c} PROVE det'[e] # det[e] => det[e] # "off"
      <3>1. CASE attached = None
        BY <1>3, <2>1, <3>1 DEF Watch, TypeOK, Detachers
      <3>2. CASE attached # None
        BY <1>3, <2>1, <3>2, CancelledType DEF Watch, TypeOK, Detachers
      <3> QED
        BY <3>1, <3>2
    <2>2. ASSUME NEW e \in Calls \ {c} PROVE call'[e] = call[e]
      BY <1>3, <2>2 DEF Watch, Goes, TypeOK
    <2>3. call'[c] = "sweep"
      BY <1>3 DEF Watch, Goes, TypeOK
    <2> QED
      BY <2>1, <2>2, <2>3
  <1>4. ASSUME NEW d \in Detachers, \/ d = "user" /\ Deactivate
                                    \/ d \in Calls /\ Notice(d)
                                    \/ DetachStep(d)
        PROVE  Unwatched'
    <2>1. call' = call
      BY <1>4 DEF Deactivate, Notice, DetachStep, AbortLoops, Take, Resume
    <2>2. d \in Calls => det[d] # "off"
      BY <1>4 DEF Deactivate, Notice, DetachStep, AbortLoops, Take, Resume, Detaching
    <2>3. ASSUME NEW e \in Calls \ {d} PROVE det'[e] # det[e] => det[e] # "off"
      <3>1. CASE Take(d)
        <4>1. CASE attached = None
          BY <2>3, <3>1, <4>1 DEF Take, TypeOK, Detachers
        <4>2. CASE attached # None
          BY <2>3, <3>1, <4>2, CancelledType DEF Take, TypeOK, Detachers
        <4> QED
          BY <4>1, <4>2
      <3>2. CASE ~Take(d)
        BY <1>4, <2>3, <3>2
           DEF Deactivate, Notice, DetachStep, AbortLoops, Resume, Detaching, TypeOK, Detachers
      <3> QED
        BY <3>1, <3>2
    <2> QED
      BY <2>1, <2>2, <2>3
  <1>5. CASE UNCHANGED <<call, det>>
    BY <1>5
  <1> QED
    BY <1>1, <1>2, <1>3, <1>4, <1>5
       DEF Next, CallStep, Detachers, vars, Launch, Exit, RetryWakes, RetryApplies, LoopEnds,
           Flip, Press, Wants, ToggleStep, SetOn, SetSpawn, SetOff

\* What keeps the watcher paused: each of the three ends in the next, or in a
\* step that resumes.
Busy(c) == call[c] \in {"connect", "resolve", "publish", "panicked"}
Ending(d) == det[d] \in {"take", "resume"}

LEMMA PausedNext ==
  TypeOK /\ Unwatched /\ PausedWhileBusy /\ [Next]_vars => PausedWhileBusy'
  <1> SUFFICES ASSUME TypeOK, Unwatched, PausedWhileBusy, [Next]_vars, paused'
               PROVE  \/ attached' # None
                      \/ \E c \in Calls : Busy(c)'
                      \/ \E d \in Detachers : Ending(d)'
    BY DEF PausedWhileBusy, Busy, Ending
  <1> DEFINE Goal == \/ attached' # None
                     \/ \E c \in Calls : Busy(c)'
                     \/ \E d \in Detachers : Ending(d)'
  <1> USE AttachAssumption DEF gameVars, uiVars, callVars, detVars, taskVars
  <1>1. ASSUME NEW c \in Calls, NEW g \in Games, Start(c, g) PROVE Goal
    BY <1>1 DEF Start, Goes, TypeOK, Busy
  <1>2. ASSUME NEW c \in Calls, Connect(c) \/ Resolve(c) PROVE Goal
    BY <1>2 DEF Connect, Resolve, Goes, TypeOK, Busy
  <1>3. ASSUME NEW c \in Calls, ConnectFails(c) PROVE Goal
    BY <1>3 DEF ConnectFails
  <1>4. ASSUME NEW c \in Calls, Publish(c) PROVE Goal
    BY <1>4 DEF Publish
  <1>5. ASSUME NEW d \in Detachers, Resume(d) PROVE Goal
    BY <1>5 DEF Resume
  <1>6. ASSUME NEW d \in Detachers, AbortLoops(d) \/ Take(d) PROVE Goal
    <2>1. CASE AbortLoops(d)
      BY <2>1 DEF AbortLoops, Detaching, TypeOK, Ending
    <2>2. CASE Take(d)
      <3>1. CASE attached = None
        BY <2>2, <3>1 DEF Take, TypeOK, Ending
      <3>2. CASE attached # None
        BY <2>2, <3>2, CancelledType DEF Take, TypeOK, Ending
      <3> QED
        BY <3>1, <3>2
    <2> QED
      BY <1>6, <2>1, <2>2
  \* The steps below leave the watcher and what is attached alone, and none of
  \* them touches a call or a detach that keeps the watcher paused.
  <1>7. ASSUME attached' = attached, paused' = paused,
               \A c \in Calls : call'[c] # call[c] => ~Busy(c),
               \A d \in Detachers : det'[d] # det[d] => ~Ending(d)
        PROVE  Goal
    BY <1>7 DEF PausedWhileBusy, Busy, Ending
  <1>8. ASSUME NEW c \in Calls, Watch(c) PROVE Goal
    <2>1. call[c] = "watch" /\ det[c] = "off" /\ c \in Detachers
      BY <1>8 DEF Watch, Unwatched, Detachers
    <2>2. \A e \in Calls : call'[e] # call[e] => ~Busy(e)
      BY <1>8, <2>1 DEF Watch, Goes, TypeOK, Busy
    <2>3. \A d \in Detachers : det'[d] # det[d] => ~Ending(d)
      <3>1. CASE attached = None
        BY <1>8, <2>1, <3>1 DEF Watch, TypeOK, Ending
      <3>2. CASE attached # None
        BY <1>8, <2>1, <3>2, CancelledType DEF Watch, TypeOK, Ending
      <3> QED
        BY <3>1, <3>2
    <2> QED
      BY <1>7, <1>8, <2>2, <2>3 DEF Watch
  <1>9. ASSUME NEW c \in Calls, Sweep(c) \/ Probe(c) PROVE Goal
    <2>1. \A e \in Calls : call'[e] # call[e] => ~Busy(e)
      BY <1>9 DEF Sweep, Probe, Announce, Goes, TypeOK, Busy
    <2> QED
      BY <1>7, <1>9, <2>1 DEF Sweep, Probe
  <1>10. ASSUME Deactivate \/ (\E c \in Calls : Notice(c)) PROVE Goal
    <2>1. \A d \in Detachers : det'[d] # det[d] => ~Ending(d)
      BY <1>10 DEF Deactivate, Notice, Detaching, TypeOK, Detachers, Ending
    <2> QED
      BY <1>7, <1>10, <2>1 DEF Deactivate, Notice
  <1>11. CASE UNCHANGED <<attached, paused, call, det>>
    BY <1>7, <1>11
  <1> QED
    BY <1>1, <1>2, <1>3, <1>4, <1>5, <1>6, <1>8, <1>9, <1>10, <1>11
       DEF Next, CallStep, DetachStep, vars, Launch, Exit, RetryWakes, RetryApplies, LoopEnds,
           Flip, Press, Wants, ToggleStep, SetOn, SetSpawn, SetOff

LEMMA WatcherInit == Init => IInv
  BY TypeInit DEF Init, IInv, Unwatched, PausedWhileBusy, Detachers

LEMMA WatcherNext == IInv /\ [Next]_vars => IInv'
  BY TypeNext, UnwatchedNext, PausedNext DEF IInv

\* However attaches, exits and detaches overlap, a watcher that is paused has an
\* attach in flight, an attached game or a detach that will resume it: the app
\* does not stop looking for games with nothing left to make it look again.
\* (The exception that the property names: a worker's panic after the pipe was
\* open.)
THEOREM PausedCorrect == Spec => []PausedWhileBusy
  <1>1. IInv => PausedWhileBusy
    BY DEF IInv
  <1> QED
    BY <1>1, WatcherInit, WatcherNext, PTL DEF Spec
=============================================================================
