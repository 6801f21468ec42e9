----------------------- MODULE GameThreadCall_proofs -----------------------
(***************************************************************************)
(* The safety of the game-thread executor, for any number of game threads, *)
(* calls and, where it matters who else calls, callers.                    *)
(*                                                                         *)
(* Three invariants, from the one that needs least to the one that needs   *)
(* most: an armed breakpoint has its handler (Handled); the first call is  *)
(* executed once however badly it is timed (OnceInv); and the calls of one *)
(* caller do what they promise in a steady execution (SerialInv), from     *)
(* which follow that the game is left clean and the refinement of          *)
(* GameThreadPromise.                                                      *)
(***************************************************************************)
EXTENDS GameThreadCall, TLAPS

\* "Single concurrent call": the premise of the statics of the handoff.
Alone == \E c : Callers = {c}

\* The premises of the promise, besides a steady execution: a claimed job is
\* waited for.
Serial == Alone /\ Grace

Armed == {"fast", "cold", "grace", "ungate", "disarm"}
Working == {"claimed", "loaded", "ran"}
-----------------------------------------------------------------------------
\* A breakpoint belongs to a caller that still has to disarm it, and its handler
\* is there from before it arms the first until after it has disarmed the last.
\* The gate was opened last by a caller that still has to close it.
Gated == {"arm", "fast", "cold", "grace", "ungate"}

Handled ==
    /\ \A t \in dr0 : \E c \in Callers : t \in mine[c]
    /\ \A c \in Callers :
        /\ mine[c] # {} => pc[c] \in Armed
        /\ pc[c] \in Armed \cup {"arm", "remove"} <=> c \in handlers
    /\ armed => \E c \in Callers : pc[c] \in Gated

\* The job at hand has been executed: its thread is about to say so, or has.
Executed == done \/ \E t \in Threads : th[t] = "ran"

\* At most one thread is past the claim, with DONE yet to come.
OneWorks ==
    /\ \A t \in Threads : th[t] \in Working => claimed /\ ~done
    /\ \A t, u \in Threads : th[t] \in Working /\ th[u] \in Working => t = u
    /\ done => claimed

\* The first call of one caller: until its job is published and the gate is open no
\* thread is anywhere near it, and what claims it holds the right to execute it.
Begun(c) == calls[c] = 1 /\ pc[c] \notin {"publish", "gate"}

OneCall(c) ==
    /\ calls[c] = 0 => pc[c] = "idle"
    /\ armed \/ claimed \/ dr0 # {} => Begun(c)
    /\ calls[c] = 1 /\ pc[c] # "publish" => job = <<c, 1>>
    /\ \A t \in Threads :
        /\ th[t] # "game" => Begun(c)
        /\ th[t] \in {"loaded", "ran"} => hold[t] = <<c, 1>>
    /\ runs[<<c, 1>>] = IF Executed THEN 1 ELSE 0
    /\ Executed => ret = <<c, 1>>
    /\ outcome[<<c, 1>>] = <<c, 1>> => done
    /\ \A i \in 2 .. MaxCalls : runs[<<c, i>>] = 0 /\ outcome[<<c, i>>] = None

FirstCalls == \A c \in Callers : calls[c] <= 1

OnceInv == OneWorks /\ \A c \in Callers : OneCall(c)

\* A steady execution: where a game thread can be, by where its caller is.  A
\* thread that is still on its way when the teardown begins finds the gate
\* closed, or no handler.
Meets(c) ==
    /\ armed => pc[c] \in Gated
    /\ pc[c] = "grace" => claimed
    /\ pc[c] \in {"publish", "gate", "arm"} => ~claimed
    /\ \A t \in Threads :
        /\ th[t] = "trapped" => pc[c] # "arm"
        /\ th[t] \in Working \cup {"checked"} => pc[c] \in {"fast", "cold", "grace"}

\* What is loaded, executed and answered is the job at hand.
AtHand(c) ==
    pc[c] # "idle" =>
        /\ calls[c] \in 1 .. MaxCalls
        /\ pc[c] # "publish" => job = Current(c)
        /\ \A t \in Threads : th[t] \in {"loaded", "ran"} => hold[t] = Current(c)
        /\ outcome[Current(c)] = None
        /\ runs[Current(c)] = IF Executed THEN 1 ELSE 0
        /\ Executed => ret = Current(c)

\* The calls before it are settled, and those after it not even begun.
Settled(j) ==
    \/ outcome[j] = j /\ runs[j] = 1
    \/ outcome[j] = Expired /\ runs[j] = 0

Others(c) ==
    \A i \in 1 .. MaxCalls :
        /\ i > calls[c] => outcome[<<c, i>>] = None /\ runs[<<c, i>>] = 0
        /\ i < calls[c] => Settled(<<c, i>>)
        /\ i = calls[c] /\ pc[c] = "idle" => Settled(<<c, i>>)

SerialInv ==
    /\ OneWorks
    /\ \A c \in Callers : Meets(c) /\ AtHand(c) /\ Others(c)
-----------------------------------------------------------------------------
\* A call that has begun has a job.
LEMMA CurrentIsJob ==
  ASSUME NEW c \in Callers, calls[c] \in 1 .. MaxCalls
  PROVE  Current(c) \in Jobs
  BY DEF Current, Jobs

\* Types: a caller publishes no job but its own, and what is executed is a job.
\* The type invariant alone does not know that a thread that has loaded a job
\* has one, nor that a caller that waits has begun a call.
JobTypes ==
    /\ \A c \in Callers : pc[c] # "idle" => calls[c] \in 1 .. MaxCalls
    /\ \A t \in Threads : th[t] \in {"claimed", "trapped", "checked"} => job \in Jobs
    /\ \A t \in Threads : th[t] \in {"loaded", "ran"} => hold[t] \in Jobs
    /\ \A t \in Threads : th[t] = "ran" => ret \in Jobs
    /\ \A c \in Callers : pc[c] \notin {"idle", "publish"} => job \in Jobs
    /\ dr0 # {} => job \in Jobs
    /\ done => ret \in Jobs

LEMMA TypeInit == Init => TypeOK /\ JobTypes
  <1> SUFFICES ASSUME Init PROVE TypeOK /\ JobTypes
    OBVIOUS
  <1> USE GameThreadAssumption DEF Init
  <1>1. armed \in BOOLEAN /\ claimed \in BOOLEAN /\ done \in BOOLEAN
    OBVIOUS
  <1>2. TypeOK
    BY <1>1 DEF TypeOK, Places, Steps
  <1>3. JobTypes
    BY DEF JobTypes
  <1> QED
    BY <1>2, <1>3

LEMMA ThreadTypes ==
  ASSUME TypeOK, JobTypes, NEW t \in Threads, Trap(t) \/ ThreadStep(t)
  PROVE  TypeOK' /\ JobTypes'
  <1> USE GameThreadAssumption
      DEF TypeOK, JobTypes, statics, threadVars, callerVars, Goes, Places
  <1>1. CASE Trap(t)
    BY <1>1 DEF Trap
  <1>2. CASE Enter(t)
    BY <1>2 DEF Enter
  <1>3. CASE Unhandled(t)
    BY <1>3 DEF Unhandled
  <1>4. CASE Claim(t)
    BY <1>4 DEF Claim
  <1>5. CASE Load(t)
    BY <1>5 DEF Load
  <1>6. CASE Run(t)
    <2>1. hold[t] \in Jobs /\ runs' = [runs EXCEPT ![hold[t]] = @ + 1]
      BY <1>6 DEF Run
    <2>2. runs' \in [Jobs -> Nat]
      BY <2>1
    <2> QED
      BY <1>6, <2>1, <2>2 DEF Run
  <1>7. CASE Finish(t)
    <2>1. armed' \in BOOLEAN /\ claimed' \in BOOLEAN /\ done' \in BOOLEAN
      BY <1>7 DEF Finish
    <2>2. ret \in Jobs
      BY <1>7 DEF Finish
    <2> QED
      BY <1>7, <2>1, <2>2 DEF Finish
  <1>8. CASE Leave(t)
    BY <1>8 DEF Leave
  <1> QED
    BY <1>1, <1>2, <1>3, <1>4, <1>5, <1>6, <1>7, <1>8 DEF ThreadStep

LEMMA CallerTypes ==
  ASSUME TypeOK, JobTypes, NEW c \in Callers, Reset(c) \/ CallerStep(c)
  PROVE  TypeOK' /\ JobTypes'
  <1> USE GameThreadAssumption
      DEF TypeOK, JobTypes, statics, threadVars, callerVars, At, Steps
  <1>1. CASE Reset(c)
    <2>1. calls' = [calls EXCEPT ![c] = @ + 1] /\ calls[c] < MaxCalls /\ calls[c] \in 0 .. MaxCalls
      BY <1>1 DEF Reset
    <2>2. calls'[c] \in 1 .. MaxCalls /\ calls' \in [Callers -> 0 .. MaxCalls]
      BY <2>1
    <2> QED
      BY <1>1, <2>1, <2>2 DEF Reset
  <1>2. CASE Publish(c)
    <2>1. Current(c) \in Jobs
      BY <1>2, CurrentIsJob DEF Publish
    <2> QED
      BY <1>2, <2>1 DEF Publish
  <1>3. CASE Gate(c)
    <2>1. armed' \in BOOLEAN /\ claimed' \in BOOLEAN /\ done' \in BOOLEAN
      BY <1>3 DEF Gate
    <2> QED
      BY <1>3, <2>1 DEF Gate
  <1>4. CASE ArmFast(c)
    BY <1>4 DEF ArmFast
  <1>5. CASE ArmCold(c)
    BY <1>5 DEF ArmCold
  <1>6. CASE NoThreads(c)
    <2>1. Current(c) \in Jobs
      BY <1>6, CurrentIsJob DEF NoThreads
    <2> QED
      BY <1>6, <2>1 DEF NoThreads
  <1>7. CASE Woken(c) \/ Deadline(c) \/ GraceEnds(c)
    BY <1>7 DEF Woken, Deadline, GraceEnds
  <1>8. CASE Ungate(c)
    BY <1>8 DEF Ungate
  <1>9. CASE Disarm(c)
    BY <1>9 DEF Disarm
  <1>10. CASE Remove(c)
    BY <1>10 DEF Remove
  <1>11. CASE Read(c)
    <2>1. Current(c) \in Jobs /\ (done => ret \in Jobs)
      BY <1>11, CurrentIsJob DEF Read
    <2> QED
      BY <1>11, <2>1 DEF Read
  <1> QED
    BY <1>1, <1>2, <1>3, <1>4, <1>5, <1>6, <1>7, <1>8, <1>9, <1>10, <1>11 DEF CallerStep

LEMMA TypeNext == TypeOK /\ JobTypes /\ [Next]_vars => TypeOK' /\ JobTypes'
  <1> SUFFICES ASSUME TypeOK, JobTypes, [Next]_vars PROVE TypeOK' /\ JobTypes'
    OBVIOUS
  <1>1. CASE UNCHANGED vars
    BY <1>1 DEF vars, statics, threadVars, callerVars, TypeOK, JobTypes
  <1> QED
    BY <1>1, ThreadTypes, CallerTypes DEF Next

\* Every static, register and counter has its type, however the calls of
\* several callers and the traps of the game's threads interleave.
THEOREM TypeCorrect == Spec => []TypeOK
  BY TypeInit, TypeNext, PTL DEF Spec
-----------------------------------------------------------------------------
LEMMA HandledInit == Init => Handled
  BY DEF Init, Handled, Armed

LEMMA HandledThread ==
  ASSUME TypeOK, Handled, NEW t \in Threads, Trap(t) \/ ThreadStep(t)
  PROVE  Handled'
  <1>1. UNCHANGED <<armed, handlers, pc, mine>> /\ dr0' \subseteq dr0
    BY DEF Trap, ThreadStep, Enter, Unhandled, Claim, Load, Run, Finish, Leave,
           statics, callerVars
  <1> QED
    BY <1>1 DEF Handled

LEMMA HandledCaller ==
  ASSUME TypeOK, Handled, NEW c \in Callers, Reset(c) \/ CallerStep(c)
  PROVE  Handled'
  <1> USE DEF statics, threadVars, callerVars, At, TypeOK, Armed, Gated
  <1>1. CASE Reset(c) \/ Publish(c) \/ Gate(c) \/ Read(c)
    BY <1>1 DEF Reset, Publish, Gate, Read, Handled
  <1>2. CASE ArmFast(c)
    BY <1>2 DEF ArmFast, Handled
  <1>3. CASE ArmCold(c)
    BY <1>3 DEF ArmCold, Handled
  <1>4. CASE NoThreads(c)
    <2>1. mine[c] = {}
      BY <1>4 DEF NoThreads, Handled
    <2> QED
      BY <1>4, <2>1 DEF NoThreads, Handled
  <1>5. CASE Woken(c) \/ Deadline(c) \/ GraceEnds(c)
    <2>1. /\ UNCHANGED <<armed, dr0, handlers, mine>>
          /\ pc' = [pc EXCEPT ![c] = pc'[c]]
          /\ pc[c] \in Gated /\ pc'[c] \in Armed \cap Gated
          /\ pc[c] \in Armed \cup {"arm"}
      BY <1>5 DEF Woken, Deadline, GraceEnds
    <2> QED
      BY <2>1 DEF Handled
  <1>6. CASE Ungate(c)
    BY <1>6 DEF Ungate, Handled
  <1>7. CASE Disarm(c)
    <2>1. /\ dr0' = dr0 \ mine[c] /\ mine' = [mine EXCEPT ![c] = {}]
          /\ pc' = [pc EXCEPT ![c] = "remove"] /\ pc[c] = "disarm"
          /\ UNCHANGED <<armed, handlers>>
      BY <1>7 DEF Disarm
    <2>2. \A t \in dr0' : \E d \in Callers : t \in mine'[d]
      BY <2>1 DEF Handled
    <2> QED
      BY <2>1, <2>2 DEF Handled
  <1>8. CASE Remove(c)
    <2>1. mine[c] = {}
      BY <1>8 DEF Remove, Handled
    <2> QED
      BY <1>8, <2>1 DEF Remove, Handled
  <1> QED
    BY <1>1, <1>2, <1>3, <1>4, <1>5, <1>6, <1>7, <1>8 DEF CallerStep

\* Each breakpoint that is armed has its owner's handler behind it, for any
\* callers, threads and calls and in whatever order traps and teardowns go.
THEOREM OwnedCorrect == Spec => []BreakpointsOwned
  <1>1. Init => TypeOK /\ JobTypes /\ Handled
    BY TypeInit, HandledInit
  <1>2. TypeOK /\ JobTypes /\ Handled /\ [Next]_vars => TypeOK' /\ JobTypes' /\ Handled'
    <2> SUFFICES ASSUME TypeOK, JobTypes, Handled, [Next]_vars
                 PROVE  TypeOK' /\ JobTypes' /\ Handled'
      OBVIOUS
    <2>1. CASE UNCHANGED vars
      BY <2>1, TypeNext DEF vars, statics, callerVars, Handled
    <2> QED
      BY <2>1, TypeNext, HandledThread, HandledCaller DEF Next
  <1>3. Handled => BreakpointsOwned
    BY DEF Handled, BreakpointsOwned
  <1> QED
    BY <1>1, <1>2, <1>3, PTL DEF Spec
-----------------------------------------------------------------------------
LEMMA OneWorksThread ==
  ASSUME TypeOK, OneWorks, NEW t \in Threads, Trap(t) \/ ThreadStep(t)
  PROVE  OneWorks'
  <1> USE DEF statics, threadVars, callerVars, Goes, TypeOK, OneWorks, Working
  <1>1. CASE Claim(t)
    <2>1. CASE claimed
      BY <1>1, <2>1 DEF Claim
    <2>2. CASE ~claimed
      <3>1. ~done /\ \A u \in Threads : th[u] \notin Working
        BY <2>2
      <3> QED
        BY <1>1, <2>2, <3>1 DEF Claim
    <2> QED
      BY <2>1, <2>2
  <1>2. CASE Finish(t)
    <2>1. claimed /\ \A u \in Threads \ {t} : th[u] \notin Working
      BY <1>2 DEF Finish
    <2> QED
      BY <1>2, <2>1 DEF Finish
  <1>3. CASE ~Claim(t) /\ ~Finish(t)
    <2>1. /\ th' = [th EXCEPT ![t] = th'[t]] /\ UNCHANGED <<claimed, done>>
          /\ th'[t] \in Working => th[t] \in Working
      BY <1>3 DEF Trap, ThreadStep, Enter, Unhandled, Load, Run, Leave
    <2> QED
      BY <2>1
  <1> QED
    BY <1>1, <1>2, <1>3

\* The caller's steps but the reset leave the claim and the threads alone.
LEMMA CallerFrame ==
  ASSUME NEW c \in Callers, CallerStep(c)
  PROVE  /\ UNCHANGED <<th, hold, runs, claimed, done, ret, calls>>
         /\ pc' = [pc EXCEPT ![c] = pc'[c]]
  BY DEF CallerStep, Publish, Gate, ArmFast, ArmCold, NoThreads, Woken, Deadline, GraceEnds,
         Ungate, Disarm, Remove, Read, At, statics, threadVars, callerVars

\* Only the execution itself makes the job at hand an executed one.
LEMMA ExecutedThread ==
  ASSUME TypeOK, OneWorks, NEW t \in Threads, Trap(t) \/ ThreadStep(t)
  PROVE  /\ Run(t) => ~Executed /\ Executed'
         /\ ~Run(t) => (Executed' <=> Executed) /\ UNCHANGED <<runs, ret>>
  <1> USE DEF statics, threadVars, callerVars, Goes, TypeOK, OneWorks, Working, Executed
  <1>1. CASE Run(t)
    BY <1>1 DEF Run
  <1>2. CASE Finish(t)
    BY <1>2 DEF Finish, Run
  <1>3. CASE ~Run(t) /\ ~Finish(t)
    <2>1. /\ th' = [th EXCEPT ![t] = th'[t]] /\ done' = done
          /\ th'[t] # "ran" /\ th[t] # "ran"
          /\ UNCHANGED <<runs, ret>>
      BY <1>3 DEF Trap, ThreadStep, Enter, Unhandled, Claim, Load, Leave
    <2> QED
      BY <1>3, <2>1
  <1> QED
    BY <1>1, <1>2, <1>3

LEMMA OnceThread ==
  ASSUME MaxCalls # 0, FirstCalls, TypeOK, OnceInv, NEW t \in Threads, Trap(t) \/ ThreadStep(t)
  PROVE  OnceInv'
  <1> USE DEF statics, threadVars, callerVars, Goes
  <1>1. OneWorks /\ OneWorks'
    BY OneWorksThread DEF OnceInv
  <1>2. SUFFICES ASSUME NEW c \in Callers PROVE OneCall(c)'
    BY <1>1 DEF OnceInv
  <1>3. OneCall(c) /\ <<c, 1>> \in Jobs
    BY GameThreadAssumption DEF OnceInv, Jobs
  <1>4. Begun(c)
    BY <1>3 DEF OneCall, Trap, ThreadStep, Enter, Unhandled, Claim, Load, Run, Finish, Leave
  <1>5. /\ UNCHANGED <<armed, job, callerVars>> /\ dr0' \subseteq dr0
        /\ \A u \in Threads \ {t} : th'[u] = th[u] /\ hold'[u] = hold[u]
        /\ done => done'
    BY DEF Trap, ThreadStep, Enter, Unhandled, Claim, Load, Run, Finish, Leave, TypeOK
  <1>6. th'[t] \in {"loaded", "ran"} => hold'[t] = <<c, 1>>
    BY <1>3, <1>4 DEF Trap, ThreadStep, Enter, Unhandled, Claim, Load, Run, Finish, Leave,
                      TypeOK, OneCall, Begun
  <1>7. /\ runs'[<<c, 1>>] = IF Executed' THEN 1 ELSE 0
        /\ Executed' => ret' = <<c, 1>>
    <2>1. CASE Run(t)
      <3>1. hold[t] = <<c, 1>> /\ runs' = [runs EXCEPT ![hold[t]] = @ + 1] /\ ret' = hold[t]
        BY <1>3, <2>1 DEF Run, OneCall
      <3>2. ~Executed /\ Executed'
        BY <1>1, <2>1, ExecutedThread
      <3>3. runs[<<c, 1>>] = 0 /\ runs'[<<c, 1>>] = 1
        BY <1>3, <3>1, <3>2 DEF OneCall, TypeOK
      <3> QED
        BY <3>1, <3>2, <3>3
    <2>2. CASE ~Run(t)
      BY <1>1, <1>3, <2>2, ExecutedThread DEF OneCall
    <2> QED
      BY <2>1, <2>2
  <1>8. claimed' => Begun(c)'
    BY <1>4, <1>5 DEF Begun
  <1>9. \A i \in 2 .. MaxCalls : runs'[<<c, i>>] = 0 /\ outcome'[<<c, i>>] = None
    <2> SUFFICES ASSUME NEW i \in 2 .. MaxCalls
                 PROVE  runs'[<<c, i>>] = runs[<<c, i>>]
      BY <1>3, <1>5 DEF OneCall
    <2>1. <<c, i>> \in Jobs /\ <<c, i>> # <<c, 1>>
      BY GameThreadAssumption DEF Jobs
    <2>2. Run(t) => hold[t] = <<c, 1>>
      BY <1>3 DEF Run, OneCall
    <2> QED
      BY <1>1, <2>1, <2>2, ExecutedThread DEF Run, TypeOK
  <1> QED
    BY <1>3, <1>4, <1>5, <1>6, <1>7, <1>8, <1>9 DEF OneCall, Begun

LEMMA OnceCaller ==
  ASSUME MaxCalls # 0, FirstCalls, Alone, TypeOK, JobTypes, OnceInv, NEW c \in Callers,
         Reset(c) \/ CallerStep(c), FirstCalls'
  PROVE  OnceInv'
  <1> USE DEF statics, threadVars, callerVars, At
  <1>0. OneCall(c) /\ OneWorks /\ <<c, 1>> \in Jobs
    BY GameThreadAssumption DEF OnceInv, Jobs
  <1>1. SUFFICES OneWorks' /\ OneCall(c)'
    BY DEF OnceInv, Alone
  <1>2. calls[c] \in {0, 1}
    BY GameThreadAssumption DEF TypeOK, FirstCalls
  <1>3. CASE Reset(c)
    <2>1. calls[c] = 0 /\ ~Begun(c)
      BY <1>2, <1>3 DEF Reset, Begun, FirstCalls, TypeOK
    <2>2. ~armed /\ ~claimed /\ ~done /\ dr0 = {} /\ \A t \in Threads : th[t] = "game"
      BY <1>0, <2>1 DEF OneCall, OneWorks
    <2>3. /\ ~claimed' /\ ~done' /\ pc'[c] = "publish" /\ calls'[c] = 1
          /\ UNCHANGED <<armed, ret, dr0, threadVars, outcome>>
      BY <1>3, <2>1 DEF Reset, TypeOK
    <2> QED
      BY <1>0, <2>2, <2>3 DEF OneCall, OneWorks, Begun, Executed, Working
  <1>4. CASE CallerStep(c)
    <2>1. /\ UNCHANGED <<th, hold, runs, claimed, done, ret, calls>>
          /\ pc' = [pc EXCEPT ![c] = pc'[c]]
      BY <1>4, CallerFrame
    <2>2. OneWorks' /\ (Executed' <=> Executed)
      BY <1>0, <2>1 DEF OneWorks, Executed
    <2>3. calls[c] = 1
      <3>1. pc[c] # "idle"
        BY <1>4 DEF CallerStep, Publish, Gate, ArmFast, ArmCold, NoThreads, Woken, Deadline,
                    GraceEnds, Ungate, Disarm, Remove, Read
      <3> QED
        BY <1>0, <1>2, <3>1 DEF OneCall
    <2>4. CASE Publish(c)
      BY <1>0, <2>1, <2>2, <2>3, <2>4 DEF Publish, OneCall, Begun, Current, TypeOK
    <2>5. CASE Gate(c)
      <3>1. job = <<c, 1>>
        BY <1>0, <2>3, <2>5 DEF Gate, OneCall, Begun
      <3> QED
        BY <1>0, <2>1, <2>2, <2>3, <2>5 DEF Gate, OneCall, Begun, TypeOK
    <2>6. CASE ~Publish(c) /\ ~Gate(c)
      <3>1. Begun(c) /\ Begun(c)' /\ job' = job
        BY <1>4, <2>1, <2>3, <2>6
           DEF CallerStep, ArmFast, ArmCold, NoThreads, Woken, Deadline, GraceEnds, Ungate,
               Disarm, Remove, Read, Begun, TypeOK
      <3>2. outcome'[<<c, 1>>] = <<c, 1>> => done \/ outcome[<<c, 1>>] = <<c, 1>>
        BY <1>0, <1>4, <2>3, <2>6, GameThreadAssumption
           DEF CallerStep, ArmFast, ArmCold, NoThreads, Woken, Deadline, GraceEnds, Ungate,
               Disarm, Remove, Read, Current, TypeOK
      <3>3. \A i \in 2 .. MaxCalls : outcome'[<<c, i>>] = outcome[<<c, i>>]
        <4> SUFFICES ASSUME NEW i \in 2 .. MaxCalls
                     PROVE  outcome'[<<c, i>>] = outcome[<<c, i>>]
          OBVIOUS
        <4>1. <<c, i>> \in Jobs /\ <<c, i>> # Current(c)
          BY <2>3, GameThreadAssumption DEF Jobs, Current
        <4> QED
          BY <1>4, <4>1
             DEF CallerStep, Publish, Gate, ArmFast, ArmCold, NoThreads, Woken, Deadline,
                 GraceEnds, Ungate, Disarm, Remove, Read, TypeOK
      <3> QED
        BY <1>0, <2>1, <2>2, <2>3, <3>1, <3>2, <3>3 DEF OneCall, Begun
    <2> QED
      BY <2>2, <2>4, <2>5, <2>6
  <1> QED
    BY <1>3, <1>4

\* The first call of a caller that is alone is executed at most once, and is said
\* to have run only if it was, however the handler, the teardown and the caller's
\* last look interleave and however long the job takes.
THEOREM OnceRaced ==
  ASSUME Alone
  PROVE  Spec => []((\A c \in Callers : calls[c] <= 1) =>
                        \A j \in Jobs : runs[j] <= 1 /\ (outcome[j] = j => runs[j] = 1))
  <1> DEFINE Once ==
        FirstCalls => \A j \in Jobs : runs[j] <= 1 /\ (outcome[j] = j => runs[j] = 1)
  <1>1. CASE MaxCalls = 0
    <2>1. Jobs = {}
      BY <1>1 DEF Jobs
    <2>2. Once
      BY <2>1
    <2> QED
      BY <2>2, PTL DEF FirstCalls
  <1>2. CASE MaxCalls # 0
    <2>1. Init => TypeOK /\ JobTypes /\ (FirstCalls => OnceInv)
      <3> SUFFICES ASSUME Init PROVE OnceInv
        BY TypeInit
      <3>1. \A c \in Callers, i \in 1 .. MaxCalls : <<c, i>> \in Jobs
        BY DEF Jobs
      <3>2. 1 \in 1 .. MaxCalls /\ \A i \in 2 .. MaxCalls : i \in 1 .. MaxCalls
        BY <1>2, GameThreadAssumption
      <3> QED
        BY <3>1, <3>2, GameThreadAssumption
           DEF Init, OnceInv, OneCall, OneWorks, Begun, Executed, Working
    <2>2. ASSUME TypeOK, JobTypes, FirstCalls => OnceInv, [Next]_vars
          PROVE  TypeOK' /\ JobTypes' /\ (FirstCalls => OnceInv)'
      <3> SUFFICES ASSUME FirstCalls' PROVE OnceInv'
        BY <2>2, TypeNext
      <3>1. CASE UNCHANGED vars
        BY <2>2, <3>1
           DEF vars, statics, threadVars, callerVars, OnceInv, OneCall, OneWorks, Begun,
               Executed, FirstCalls
      <3>2. ASSUME NEW t \in Threads, Trap(t) \/ ThreadStep(t) PROVE OnceInv'
        <4>1. FirstCalls
          BY <3>2 DEF FirstCalls, Trap, ThreadStep, Enter, Unhandled, Claim, Load, Run, Finish,
                      Leave, callerVars
        <4> QED
          BY <1>2, <2>2, <3>2, <4>1, OnceThread
      <3>3. ASSUME NEW c \in Callers, Reset(c) \/ CallerStep(c) PROVE OnceInv'
        <4>1. ASSUME NEW d \in Callers PROVE calls[d] <= 1
          <5>1. calls[d] \in Nat /\ calls'[d] \in {calls[d], calls[d] + 1}
            BY <2>2, <3>3, CallerFrame DEF Reset, TypeOK
          <5> QED
            BY <5>1 DEF FirstCalls
        <4> QED
          BY <1>2, <2>2, <3>3, <4>1, OnceCaller DEF FirstCalls
      <3> QED
        BY <2>2, <3>1, <3>2, <3>3 DEF Next
    <2>3. (FirstCalls => OnceInv) => Once
      <3> SUFFICES ASSUME OnceInv, NEW j \in Jobs
                   PROVE  runs[j] <= 1 /\ (outcome[j] = j => runs[j] = 1)
        OBVIOUS
      <3>1. PICK c \in Callers, i \in 1 .. MaxCalls : j = <<c, i>>
        BY DEF Jobs
      <3>2. OneCall(c) /\ (i = 1 \/ i \in 2 .. MaxCalls) /\ None # j
        BY GameThreadAssumption DEF OnceInv
      <3> QED
        BY <3>1, <3>2 DEF OneCall, Executed
    <2> QED
      BY <2>1, <2>2, <2>3, PTL DEF Spec, FirstCalls
  <1> QED
    BY <1>1, <1>2
-----------------------------------------------------------------------------
LEMMA SerialThread ==
  ASSUME Serial, Steady, TypeOK, JobTypes, Handled, SerialInv,
         NEW t \in Threads, Trap(t) \/ ThreadStep(t)
  PROVE  SerialInv'
  <1> USE DEF statics, threadVars, callerVars, Goes, Working
  <1>1. OneWorks /\ OneWorks'
    BY OneWorksThread DEF SerialInv
  <1>2. SUFFICES ASSUME NEW c \in Callers PROVE Meets(c)' /\ AtHand(c)' /\ Others(c)'
    BY <1>1 DEF SerialInv
  <1>3. Meets(c) /\ AtHand(c) /\ Others(c)
    BY DEF SerialInv
  <1>4. /\ UNCHANGED <<armed, job, callerVars>>
        /\ th' = [th EXCEPT ![t] = th'[t]]
        /\ \A u \in Threads \ {t} : th'[u] = th[u] /\ hold'[u] = hold[u]
        /\ (done => done') /\ (claimed => claimed')
    BY <1>1 DEF Trap, ThreadStep, Enter, Unhandled, Claim, Load, Run, Finish, Leave, TypeOK
  <1>5. Current(c)' = Current(c)
    BY <1>4 DEF Current
  <1>6. Meets(c)'
    <2>1. th'[t] = "trapped" => pc[c] # "arm"
      <3>1. CASE Trap(t)
        BY <3>1 DEF Trap, Handled, Armed, Serial, Alone
      <3>2. CASE ThreadStep(t)
        BY <3>2 DEF ThreadStep, Enter, Unhandled, Claim, Load, Run, Finish, Leave, TypeOK
      <3> QED
        BY <3>1, <3>2
    <2>2. th'[t] = "checked" => th[t] = "trapped" /\ armed /\ pc[c] # "ungate"
      BY DEF Trap, ThreadStep, Enter, Unhandled, Claim, Load, Run, Finish, Leave, TypeOK
    <2>3. th'[t] \in Working => th[t] \in Working \cup {"checked"}
      BY DEF Trap, ThreadStep, Enter, Unhandled, Claim, Load, Run, Finish, Leave, TypeOK
    <2>4. claimed' => claimed \/ th[t] = "checked"
      BY DEF Trap, ThreadStep, Enter, Unhandled, Claim, Load, Run, Finish, Leave
    <2>5. th'[t] \in Working \cup {"checked"} => pc[c] \in {"fast", "cold", "grace"}
      BY <1>3, <2>2, <2>3 DEF Meets, Gated
    <2>6. claimed' => pc[c] \notin {"publish", "gate", "arm"}
      BY <1>3, <2>4 DEF Meets
    <2>7. ASSUME NEW u \in Threads
          PROVE  /\ th'[u] = "trapped" => pc[c] # "arm"
                 /\ th'[u] \in Working \cup {"checked"} => pc[c] \in {"fast", "cold", "grace"}
      <3>1. CASE u = t
        BY <2>1, <2>5, <3>1
      <3>2. CASE u # t
        BY <1>3, <1>4, <3>2 DEF Meets
      <3> QED
        BY <3>1, <3>2
    <2>8. pc' = pc /\ armed' = armed /\ (claimed => claimed')
      BY <1>4
    <2> QED
      BY <1>3, <2>6, <2>7, <2>8 DEF Meets
  <1>7. CASE Run(t)
    <2>1. /\ hold[t] = Current(c) /\ ret' = hold[t] /\ runs' = [runs EXCEPT ![hold[t]] = @ + 1]
          /\ pc[c] # "idle" /\ hold' = hold
      BY <1>3, <1>7 DEF Run, Meets, AtHand
    <2>2. ~Executed /\ Executed'
      BY <1>1, <1>7, ExecutedThread
    <2>3. /\ runs[Current(c)] = 0 /\ runs'[Current(c)] = 1
          /\ \A j \in Jobs : j # Current(c) => runs'[j] = runs[j]
      BY <1>3, <2>1, <2>2, CurrentIsJob DEF AtHand, TypeOK
    <2>4. AtHand(c)'
      BY <1>3, <1>4, <1>5, <2>1, <2>2, <2>3 DEF AtHand
    <2>5. \A i \in 1 .. MaxCalls : i # calls[c] => <<c, i>> \in Jobs /\ <<c, i>> # Current(c)
      BY DEF Jobs, Current
    <2>6. Others(c)'
      BY <1>3, <1>4, <2>1, <2>3, <2>5 DEF Others, Settled
    <2> QED
      BY <1>6, <2>4, <2>6
  <1>8. CASE ~Run(t)
    <2>1. (Executed' <=> Executed) /\ UNCHANGED <<runs, ret>>
      BY <1>1, <1>8, ExecutedThread
    <2>2. pc[c] # "idle" /\ th'[t] \in {"loaded", "ran"} => hold'[t] = Current(c)
      BY <1>3, <1>8 DEF Trap, ThreadStep, Enter, Unhandled, Claim, Load, Finish, Leave,
                        TypeOK, Meets, AtHand
    <2> QED
      BY <1>3, <1>4, <1>5, <1>6, <2>1, <2>2 DEF AtHand, Others, Settled
  <1> QED
    BY <1>7, <1>8

LEMMA SerialReset ==
  ASSUME Serial, Steady, TypeOK, SerialInv, NEW c \in Callers, Reset(c)
  PROVE  SerialInv'
  <1> USE DEF statics, threadVars, callerVars, At
  <1>1. OneWorks /\ Meets(c) /\ Others(c)
    BY DEF SerialInv
  <1>2. /\ pc[c] = "idle" /\ pc'[c] = "publish" /\ ~done' /\ ~claimed'
        /\ calls[c] < MaxCalls /\ calls'[c] = calls[c] + 1
        /\ UNCHANGED <<armed, job, ret, threadVars, outcome>>
    BY DEF Reset, TypeOK
  <1>3. \A t \in Threads : th[t] \notin Working \cup {"checked"}
    BY <1>1, <1>2 DEF Meets
  <1>4. ~armed
    BY <1>1, <1>2 DEF Meets, Gated
  <1>5. OneWorks' /\ Meets(c)' /\ ~Executed'
    BY <1>2, <1>3, <1>4 DEF OneWorks, Meets, Executed, Working, Gated
  <1>6. calls[c] \in 0 .. MaxCalls /\ MaxCalls \in Nat
    BY GameThreadAssumption DEF TypeOK
  <1>7. AtHand(c)'
    <2>1. calls'[c] \in 1 .. MaxCalls /\ calls'[c] > calls[c]
      BY <1>2, <1>6
    <2>2. outcome[<<c, calls'[c]>>] = None /\ runs[<<c, calls'[c]>>] = 0
      BY <1>1, <2>1 DEF Others
    <2> QED
      BY <1>2, <1>3, <1>5, <2>1, <2>2 DEF AtHand, Current, Working
  <1>8. Others(c)'
    <2> SUFFICES ASSUME NEW i \in 1 .. MaxCalls
                 PROVE  /\ i > calls'[c] => outcome[<<c, i>>] = None /\ runs[<<c, i>>] = 0
                        /\ i < calls'[c] => Settled(<<c, i>>)
      BY <1>2 DEF Others, Settled
    <2>1. i > calls'[c] => i > calls[c]
      BY <1>2, <1>6
    <2>2. i < calls'[c] => i < calls[c] \/ i = calls[c]
      BY <1>2, <1>6
    <2> QED
      BY <1>1, <1>2, <2>1, <2>2 DEF Others
  <1> QED
    BY <1>5, <1>7, <1>8 DEF SerialInv, Serial, Alone

\* The end of a call: what it is told settles it.
LEMMA SerialEnd ==
  ASSUME Serial, Steady, TypeOK, SerialInv, NEW c \in Callers, NoThreads(c) \/ Read(c)
  PROVE  SerialInv'
  <1> USE GameThreadAssumption DEF statics, threadVars, callerVars, At
  <1>1. OneWorks /\ Meets(c) /\ AtHand(c) /\ Others(c)
    BY DEF SerialInv
  <1>2. /\ pc[c] \in {"arm", "read"} /\ pc'[c] = "idle"
        /\ armed' => armed
        /\ outcome' = [outcome EXCEPT ![Current(c)] = IF done THEN ret ELSE Expired]
        /\ UNCHANGED <<claimed, done, ret, threadVars, calls>>
    BY DEF NoThreads, Read, TypeOK
  <1>3. \A t \in Threads : th[t] \notin Working \cup {"checked"}
    BY <1>1, <1>2 DEF Meets
  <1>4. ~armed'
    BY <1>1, <1>2 DEF Meets, NoThreads, Read, Gated
  <1>5. OneWorks' /\ Meets(c)' /\ AtHand(c)' /\ (Executed <=> done)
    BY <1>1, <1>2, <1>3, <1>4 DEF OneWorks, Meets, AtHand, Executed, Working
  <1>6. calls[c] \in 1 .. MaxCalls /\ Current(c) \in Jobs
    BY <1>1, <1>2, CurrentIsJob DEF AtHand
  <1>7. Settled(Current(c))'
    <2>1. outcome'[Current(c)] = IF done THEN ret ELSE Expired
      BY <1>2, <1>6 DEF TypeOK
    <2>2. Current(c)' = Current(c)
      BY <1>2 DEF Current
    <2> QED
      BY <1>1, <1>2, <1>5, <2>1, <2>2 DEF AtHand, Settled
  <1>8. \A i \in 1 .. MaxCalls : i # calls[c] => outcome'[<<c, i>>] = outcome[<<c, i>>]
    BY <1>2, <1>6 DEF TypeOK, Jobs, Current
  <1>9. Others(c)'
    <2> SUFFICES ASSUME NEW i \in 1 .. MaxCalls
                 PROVE  /\ i > calls[c] => outcome'[<<c, i>>] = None /\ runs[<<c, i>>] = 0
                        /\ i < calls[c] => Settled(<<c, i>>)'
                        /\ i = calls[c] => Settled(<<c, i>>)'
      BY <1>2 DEF Others
    <2>1. CASE i = calls[c]
      BY <1>2, <1>7, <2>1 DEF Current, Settled
    <2>2. CASE i # calls[c]
      BY <1>1, <1>2, <1>8, <2>2 DEF Others, Settled
    <2> QED
      BY <2>1, <2>2, <1>6
  <1> QED
    BY <1>5, <1>9 DEF SerialInv, Serial, Alone

LEMMA SerialCaller ==
  ASSUME Serial, Steady, TypeOK, SerialInv, NEW c \in Callers,
         CallerStep(c), ~NoThreads(c), ~Read(c)
  PROVE  SerialInv'
  <1> USE DEF statics, threadVars, callerVars, At
  <1>1. OneWorks /\ Meets(c) /\ AtHand(c) /\ Others(c)
    BY DEF SerialInv
  <1>2. /\ UNCHANGED <<th, hold, runs, claimed, done, ret, calls, outcome>>
        /\ pc[c] # "idle" /\ pc'[c] # "idle"
    BY DEF CallerStep, Publish, Gate, ArmFast, ArmCold, Woken, Deadline, GraceEnds, Ungate,
           Disarm, Remove, TypeOK
  <1>3. OneWorks' /\ (Executed' <=> Executed)
    BY <1>1, <1>2 DEF OneWorks, Executed
  <1>4. AtHand(c)'
    <2>1. pc'[c] # "publish" => job' = Current(c)
      BY <1>1 DEF AtHand, CallerStep, Publish, Gate, ArmFast, ArmCold, Woken, Deadline,
                  GraceEnds, Ungate, Disarm, Remove, TypeOK
    <2> QED
      BY <1>1, <1>2, <1>3, <2>1 DEF AtHand, Current
  <1>5. Others(c)'
    BY <1>1, <1>2 DEF Others, Settled
  <1>6. Meets(c)'
    <2>1. CASE Publish(c) \/ Gate(c)
      BY <1>1, <1>2, <2>1 DEF Publish, Gate, Meets, Gated, TypeOK
    <2>2. CASE ArmFast(c) \/ ArmCold(c)
      BY <1>1, <1>2, <2>2 DEF ArmFast, ArmCold, Meets, Gated, TypeOK
    <2>3. CASE Woken(c)
      BY <1>1, <1>2, <2>3 DEF Woken, NoneChecked, Meets, Gated, OneWorks, TypeOK
    <2>4. CASE Deadline(c)
      <3>1. /\ ~done /\ NoneChecked
            /\ pc'[c] = IF claimed THEN "grace" ELSE "ungate"
            /\ pc[c] = "cold" /\ UNCHANGED armed
        BY <2>4 DEF Deadline, Serial, TypeOK
      <3> QED
        BY <1>1, <1>2, <3>1 DEF Meets, NoneChecked, Gated, OneWorks
    <2>5. CASE GraceEnds(c)
      BY <1>1, <1>2, <2>5 DEF GraceEnds, NoneChecked, Meets, Gated, OneWorks, TypeOK
    <2>6. CASE Ungate(c)
      BY <1>1, <1>2, <2>6 DEF Ungate, Meets, TypeOK
    <2>7. CASE Disarm(c) \/ Remove(c)
      BY <1>1, <1>2, <2>7 DEF Disarm, Remove, Meets, Gated, TypeOK
    <2> QED
      BY <2>1, <2>2, <2>3, <2>4, <2>5, <2>6, <2>7 DEF CallerStep
  <1> QED
    BY <1>3, <1>4, <1>5, <1>6 DEF SerialInv, Serial, Alone

\* All that a serial caller relies on, together.
Inv == TypeOK /\ JobTypes /\ Handled /\ (Steady => SerialInv)

LEMMA SerialInit == Serial /\ Init => Inv
  <1> SUFFICES ASSUME Serial, Init PROVE SerialInv
    BY TypeInit, HandledInit DEF Inv
  <1>1. OneWorks
    BY DEF Init, OneWorks, Working
  <1>2. ASSUME NEW c \in Callers PROVE Meets(c) /\ AtHand(c) /\ Others(c)
    <2>1. Meets(c) /\ AtHand(c)
      BY DEF Init, Meets, AtHand, Working
    <2>2. Others(c)
      <3> SUFFICES ASSUME NEW i \in 1 .. MaxCalls
                   PROVE  outcome[<<c, i>>] = None /\ runs[<<c, i>>] = 0 /\ i > calls[c]
        BY DEF Others, Init
      <3> QED
        BY GameThreadAssumption DEF Init, Jobs
    <2> QED
      BY <2>1, <2>2
  <1> QED
    BY <1>1, <1>2 DEF SerialInv

\* How an execution is scheduled does not change.
LEMMA PaceStays == [Next]_vars => pace' = pace /\ (Steady' <=> Steady)
  BY DEF Next, Trap, ThreadStep, Enter, Unhandled, Claim, Load, Run, Finish, Leave, Reset,
         CallerStep, Publish, Gate, ArmFast, ArmCold, NoThreads, Woken, Deadline, GraceEnds,
         Ungate, Disarm, Remove, Read, vars, Steady

LEMMA SerialNext == Serial /\ Inv /\ [Next]_vars => Inv'
  <1> SUFFICES ASSUME Serial, Inv, [Next]_vars PROVE Inv'
    OBVIOUS
  <1>1. TypeOK' /\ JobTypes'
    BY TypeNext DEF Inv
  <1>2. CASE UNCHANGED vars
    BY <1>1, <1>2
       DEF vars, statics, threadVars, callerVars, Steady, Inv, Handled, SerialInv,
           OneWorks, Meets, AtHand, Others, Settled, Executed, Current
  <1>3. ASSUME NEW t \in Threads, Trap(t) \/ ThreadStep(t) PROVE Inv'
    <2>1. Steady' => Steady
      BY <1>3, PaceStays DEF Next
    <2> QED
      BY <1>1, <1>3, <2>1, HandledThread, SerialThread DEF Inv
  <1>4. ASSUME NEW c \in Callers, Reset(c) \/ CallerStep(c) PROVE Inv'
    <2>1. Handled'
      BY <1>4, HandledCaller DEF Inv
    <2>2. Steady' => Steady
      BY <1>4, PaceStays DEF Next
    <2>3. Steady' => SerialInv'
      BY <1>4, <2>2, SerialReset, SerialEnd, SerialCaller DEF Inv
    <2> QED
      BY <1>1, <2>1, <2>3 DEF Inv
  <1> QED
    BY <1>2, <1>3, <1>4 DEF Next

\* Between the calls of a caller that is alone the game is as it was: no
\* breakpoint, no handler, no open gate and, in a steady execution, no thread
\* with a job to run.
THEOREM CleanCorrect ==
  ASSUME Serial
  PROVE  Spec => []LeftClean
  <1>1. Inv => LeftClean
    <2> SUFFICES ASSUME Inv, \A c \in Callers : pc[c] = "idle"
                 PROVE  /\ dr0 = {} /\ handlers = {} /\ ~armed
                        /\ Steady => \A t \in Threads :
                                th[t] \notin {"checked", "claimed", "loaded", "ran"}
      BY DEF LeftClean
    <2>1. dr0 = {} /\ handlers = {} /\ ~armed
      BY DEF Inv, Handled, Armed, Gated, TypeOK
    <2>2. CASE Steady
      <3>1. PICK c \in Callers : Meets(c)
        BY <2>2 DEF Inv, SerialInv, Serial, Alone
      <3> QED
        BY <2>1, <3>1 DEF Meets, Working
    <2> QED
      BY <2>1, <2>2
  <1>2. Init => Inv
    BY SerialInit
  <1>3. Inv /\ [Next]_vars => Inv'
    BY SerialNext
  <1> QED
    BY <1>1, <1>2, <1>3, PTL DEF Spec
-----------------------------------------------------------------------------
\* What has become of the job of each call, in the words of the promise.
StatesKnown ==
    \A c \in Callers, i \in 1 .. MaxCalls :
        LET j == <<c, i>>
        IN  /\ i > calls[c] => StateOf(j) = "new"
            /\ i = calls[c] /\ pc[c] # "idle" =>
                    StateOf(j) = IF Executed THEN "executed" ELSE "pending"
            /\ i < calls[c] \/ (i = calls[c] /\ pc[c] = "idle") =>
                    StateOf(j) = IF outcome[j] = j THEN "ran" ELSE "timeout"

LEMMA StateIs == Inv /\ Steady => StatesKnown
  <1> SUFFICES ASSUME Inv, Steady, NEW c \in Callers, NEW i \in 1 .. MaxCalls
               PROVE  StatesKnown!(c, i)
    BY DEF StatesKnown
  <1> DEFINE j == <<c, i>>
  <1>1. /\ j \in Jobs /\ j[1] = c /\ j[2] = i /\ calls[c] \in Nat /\ i \in Nat
        /\ None # j /\ Expired # j /\ None # Expired
    BY GameThreadAssumption DEF Jobs, Inv, TypeOK
  <1>2. AtHand(c) /\ Others(c)
    BY DEF Inv, SerialInv
  <1>3. CASE i > calls[c]
    <2>1. outcome[j] = None
      BY <1>2, <1>3 DEF Others
    <2> QED
      BY <1>1, <1>3, <2>1 DEF StateOf
  <1>4. CASE i = calls[c] /\ pc[c] # "idle"
    <2>1. outcome[j] = None /\ runs[j] = IF Executed THEN 1 ELSE 0
      BY <1>2, <1>4 DEF AtHand, Current
    <2> QED
      BY <1>1, <1>4, <2>1 DEF StateOf
  <1>5. CASE i < calls[c] \/ (i = calls[c] /\ pc[c] = "idle")
    <2>1. Settled(j)
      BY <1>2, <1>5 DEF Others
    <2> QED
      BY <1>1, <1>5, <2>1 DEF StateOf, Settled
  <1> QED
    BY <1>1, <1>3, <1>4, <1>5

\* The state of the promise, and one move of it.
promised == [j \in Jobs |-> Promised(j)]

LEMMA MoveIs ==
  ASSUME Steady, Steady', NEW j \in Jobs, NEW from, NEW to,
         StateOf(j) = from, StateOf(j)' = to,
         \A k \in Jobs \ {j} : StateOf(k)' = StateOf(k)
  PROVE  P!Move(j, from, to)
  <1>1. promised[j] = from
    BY DEF promised, Promised
  <1>2. promised' = [promised EXCEPT ![j] = to]
    BY DEF promised, Promised
  <1> QED
    BY <1>1, <1>2 DEF P!Move, promised

\* Nothing happens to the promise while nothing is called, executed or told,
\* nor in a raced execution.
LEMMA PromiseFrame ==
  ASSUME pace' = pace, UNCHANGED <<runs, outcome, calls>> \/ ~Steady
  PROVE  UNCHANGED promised
  BY DEF promised, Promised, StateOf, Steady

\* A call is a move of the promise, and so is the execution of its job.
LEMMA PromiseReset ==
  ASSUME Serial, Inv, Inv', Steady, Steady',
         NEW c \in Callers, Reset(c)
  PROVE  P!PromiseNext
  <1>1. PICK i \in 1 .. MaxCalls : i = calls[c] + 1
    BY GameThreadAssumption DEF Reset, Inv, TypeOK
  <1>2. /\ pc[c] = "idle" /\ pc'[c] = "publish" /\ calls'[c] = i /\ ~done'
        /\ UNCHANGED <<runs, outcome, th>>
    BY <1>1 DEF Reset, At, Inv, TypeOK, threadVars
  <1>3. i > calls[c] /\ calls[c] \in Nat
    BY <1>1 DEF Inv, TypeOK
  <1>4. ~Executed'
    BY <1>2 DEF Inv, SerialInv, Meets, Executed, Working
  <1>5. StatesKnown /\ StatesKnown'
    BY StateIs, PTL
  <1>6. StateOf(<<c, i>>) = "new" /\ StateOf(<<c, i>>)' = "pending"
    BY <1>2, <1>3, <1>4, <1>5 DEF StatesKnown
  <1>7. \A k \in Jobs \ {<<c, i>>} : StateOf(k)' = StateOf(k)
    <2> SUFFICES ASSUME NEW k \in Jobs \ {<<c, i>>} PROVE StateOf(k)' = StateOf(k)
      OBVIOUS
    <2>1. PICK n \in 1 .. MaxCalls : k = <<c, n>> /\ n # i
      BY DEF Jobs, Serial, Alone
    <2>2. (n > i /\ n > calls[c]) \/ (n < i /\ (n < calls[c] \/ n = calls[c]))
      BY <1>1, <1>3, <2>1
    <2> QED
      BY <1>2, <1>5, <2>1, <2>2 DEF StatesKnown
  <1>8. <<c, i>> \in Jobs
    BY DEF Jobs
  <1> QED
    BY <1>5, <1>6, <1>7, <1>8, MoveIs DEF P!PromiseNext, P!Call

LEMMA PromiseRun ==
  ASSUME Serial, Inv, Inv', Steady, Steady',
         NEW t \in Threads, Run(t)
  PROVE  P!PromiseNext
  <1>1. PICK c \in Callers : Callers = {c}
    BY DEF Serial, Alone
  <1>2. AtHand(c) /\ pc[c] # "idle" /\ OneWorks
    BY DEF Inv, SerialInv, Meets, Run, Working
  <1>3. PICK i \in 1 .. MaxCalls : i = calls[c]
    BY <1>2 DEF AtHand
  <1>4. /\ hold[t] = <<c, i>> /\ runs' = [runs EXCEPT ![<<c, i>>] = @ + 1]
        /\ UNCHANGED <<pc, calls, outcome>>
    BY <1>2, <1>3 DEF AtHand, Current, Run, callerVars
  <1>5. ~Executed /\ Executed'
    BY <1>2, ExecutedThread DEF Inv, ThreadStep
  <1>6. StatesKnown /\ StatesKnown'
    BY StateIs, PTL
  <1>7. StateOf(<<c, i>>) = "pending" /\ StateOf(<<c, i>>)' = "executed"
    BY <1>2, <1>3, <1>4, <1>5, <1>6 DEF StatesKnown
  <1>8. \A k \in Jobs \ {<<c, i>>} : StateOf(k)' = StateOf(k)
    <2> SUFFICES ASSUME NEW k \in Jobs \ {<<c, i>>} PROVE StateOf(k)' = StateOf(k)
      OBVIOUS
    <2>1. runs'[k] = runs[k] /\ outcome'[k] = outcome[k] /\ calls' = calls
      BY <1>4 DEF Inv, TypeOK
    <2> QED
      BY <2>1 DEF StateOf
  <1>9. <<c, i>> \in Jobs
    BY DEF Jobs
  <1> QED
    BY <1>7, <1>8, <1>9, MoveIs DEF P!PromiseNext, P!Execute

\* What a caller is told: its own answer after the execution, and a timeout
\* only without one.
LEMMA PromiseEnd ==
  ASSUME Serial, Inv, Inv', Steady, Steady',
         NEW c \in Callers, NoThreads(c) \/ Read(c)
  PROVE  P!PromiseNext
  <1>1. AtHand(c) /\ Meets(c)
    BY DEF Inv, SerialInv
  <1>2. PICK i \in 1 .. MaxCalls : i = calls[c]
    BY <1>1 DEF AtHand, NoThreads, Read, At
  <1>3. /\ pc[c] \in {"arm", "read"} /\ pc'[c] = "idle"
        /\ outcome' = [outcome EXCEPT ![<<c, i>>] = IF done THEN ret ELSE Expired]
        /\ UNCHANGED <<runs, calls>>
    BY <1>2 DEF NoThreads, Read, At, Current, statics, threadVars, Inv, TypeOK
  <1>4. Executed <=> done
    BY <1>1, <1>3 DEF Meets, Executed, Working
  <1>5. <<c, i>> \in Jobs /\ Expired # <<c, i>>
    BY GameThreadAssumption DEF Jobs
  <1>6. (done => ret = <<c, i>>) /\ outcome'[<<c, i>>] = IF done THEN ret ELSE Expired
    BY <1>1, <1>2, <1>3, <1>4, <1>5 DEF AtHand, Current, Inv, TypeOK
  <1>7. StatesKnown /\ StatesKnown'
    BY StateIs, PTL
  <1>8. \A k \in Jobs \ {<<c, i>>} : StateOf(k)' = StateOf(k)
    <2> SUFFICES ASSUME NEW k \in Jobs \ {<<c, i>>} PROVE StateOf(k)' = StateOf(k)
      OBVIOUS
    <2>1. runs' = runs /\ outcome'[k] = outcome[k] /\ calls' = calls
      BY <1>3, <1>5 DEF Inv, TypeOK
    <2> QED
      BY <2>1 DEF StateOf
  <1>9. CASE done
    <2>1. StateOf(<<c, i>>) = "executed" /\ StateOf(<<c, i>>)' = "ran"
      BY <1>2, <1>3, <1>4, <1>6, <1>7, <1>9 DEF StatesKnown
    <2> QED
      BY <1>5, <1>8, <2>1, MoveIs DEF P!PromiseNext, P!Ran
  <1>10. CASE ~done
    <2>1. StateOf(<<c, i>>) = "pending" /\ StateOf(<<c, i>>)' = "timeout"
      BY <1>2, <1>3, <1>4, <1>5, <1>6, <1>7, <1>10 DEF StatesKnown
    <2> QED
      BY <1>5, <1>8, <2>1, MoveIs DEF P!PromiseNext, P!Timeout
  <1> QED
    BY <1>9, <1>10

\* The calls of a caller that is alone implement the promise: every step is
\* a step of it or changes nothing it speaks of.  So a job is executed at most
\* once and while its caller waits, its caller is told its own answer, and what
\* timed out is never executed.
THEOREM PromiseKept ==
  ASSUME Serial
  PROVE  Spec => KeepsPromise
  <1>1. Init => P!PromiseInit
    <2> SUFFICES ASSUME Init, NEW j \in Jobs PROVE StateOf(j) = "new"
      BY DEF P!PromiseInit, Promised
    <2>1. j \in Jobs /\ j[1] \in Callers /\ j[2] \in 1 .. MaxCalls
      BY DEF Jobs
    <2>2. calls[j[1]] = 0 /\ outcome[j] = None /\ j[2] > 0
      BY <2>1 DEF Init
    <2> QED
      BY <2>2, GameThreadAssumption DEF StateOf
  <1>2. ASSUME Inv, Inv', [Next]_vars PROVE [P!PromiseNext]_promised
    <2>0. pace' = pace /\ (Steady' <=> Steady)
      BY <1>2, PaceStays
    <2>1. CASE UNCHANGED vars \/ ~Steady
      BY <2>0, <2>1, PromiseFrame DEF vars, threadVars, callerVars
    <2>2. ASSUME Steady, NEW t \in Threads, Trap(t) \/ ThreadStep(t)
          PROVE  [P!PromiseNext]_promised
      <3>1. CASE Run(t)
        BY <1>2, <2>0, <2>2, <3>1, PromiseRun
      <3>2. CASE ~Run(t)
        <4>1. UNCHANGED <<runs, outcome, calls>>
          BY <2>2, <3>2
             DEF Trap, ThreadStep, Enter, Unhandled, Claim, Load, Finish, Leave, callerVars
        <4> QED
          BY <2>0, <4>1, PromiseFrame
      <3> QED
        BY <3>1, <3>2
    <2>3. ASSUME Steady, NEW c \in Callers, Reset(c) \/ CallerStep(c)
          PROVE  [P!PromiseNext]_promised
      <3>1. CASE Reset(c)
        BY <1>2, <2>0, <2>3, <3>1, PromiseReset
      <3>2. CASE NoThreads(c) \/ Read(c)
        BY <1>2, <2>0, <2>3, <3>2, PromiseEnd
      <3>3. CASE CallerStep(c) /\ ~NoThreads(c) /\ ~Read(c)
        <4>1. UNCHANGED <<runs, outcome, calls>>
          BY <3>3 DEF CallerStep, Publish, Gate, ArmFast, ArmCold, Woken, Deadline,
                      GraceEnds, Ungate, Disarm, Remove, threadVars
        <4> QED
          BY <2>0, <4>1, PromiseFrame
      <3> QED
        BY <2>3, <3>1, <3>2, <3>3
    <2> QED
      BY <1>2, <2>1, <2>2, <2>3 DEF Next
  <1>3. Init => Inv
    BY SerialInit
  <1>4. Inv /\ [Next]_vars => Inv'
    BY SerialNext
  <1>5. Init /\ [][Next]_vars => [][P!PromiseNext]_promised
    BY <1>2, <1>3, <1>4, PTL
  <1> QED
    BY <1>1, <1>5, PTL DEF Spec, KeepsPromise, P!Promise, promised

\* The same caller's calls are executed at most once each, and said to have run
\* only if they were.
THEOREM OnceSerial ==
  ASSUME Serial
  PROVE  Spec => []OncePerCall
  <1> DEFINE First ==
        (\A c \in Callers : calls[c] <= 1) =>
            \A j \in Jobs : runs[j] <= 1 /\ (outcome[j] = j => runs[j] = 1)
  <1>1. Inv /\ First => OncePerCall
    <2> SUFFICES ASSUME Inv, Steady, NEW j \in Jobs
                 PROVE  runs[j] <= 1 /\ (outcome[j] = j => runs[j] = 1)
      BY DEF OncePerCall
    <2>1. PICK c \in Callers, i \in 1 .. MaxCalls : j = <<c, i>>
      BY DEF Jobs
    <2>2. AtHand(c) /\ Others(c) /\ calls[c] \in Nat /\ Expired # j /\ None # j
      BY GameThreadAssumption DEF Inv, SerialInv, TypeOK
    <2>3. CASE i = calls[c] /\ pc[c] # "idle"
      BY <2>1, <2>2, <2>3 DEF AtHand, Current
    <2>4. CASE ~(i = calls[c] /\ pc[c] # "idle")
      BY <2>1, <2>2, <2>4 DEF Others, Settled
    <2> QED
      BY <2>3, <2>4
  <1>2. Init => Inv
    BY SerialInit
  <1>3. Inv /\ [Next]_vars => Inv'
    BY SerialNext
  <1>4. Spec => []First
    BY OnceRaced DEF Serial
  <1> QED
    BY <1>1, <1>2, <1>3, <1>4, PTL DEF Spec

\* What GtOutcome and the statics' comment promise ("The call did NOT run", "Single
\* concurrent call") does hold for the caller that is alone, in a steady execution: each call of its own is
\* answered with its own job's answer, or has timed out and was not executed.
THEOREM AnswersSerial ==
  ASSUME Serial
  PROVE  Spec => [](Steady => TimedOutNeverRuns /\ OwnAnswer)
  <1>1. Inv => (Steady => TimedOutNeverRuns /\ OwnAnswer)
    <2> SUFFICES ASSUME Inv, Steady, NEW j \in Jobs
                 PROVE  /\ outcome[j] = Expired => runs[j] = 0
                        /\ outcome[j] \in Jobs => outcome[j] = j
      BY DEF TimedOutNeverRuns, OwnAnswer
    <2>1. PICK c \in Callers, i \in 1 .. MaxCalls : j = <<c, i>>
      BY DEF Jobs
    <2>2. /\ AtHand(c) /\ Others(c) /\ calls[c] \in Nat
          /\ Expired # j /\ None # Expired /\ None \notin Jobs /\ Expired \notin Jobs
      BY GameThreadAssumption DEF Inv, SerialInv, TypeOK
    <2>3. CASE i = calls[c] /\ pc[c] # "idle"
      BY <2>1, <2>2, <2>3 DEF AtHand, Current
    <2>4. CASE ~(i = calls[c] /\ pc[c] # "idle")
      BY <2>1, <2>2, <2>4 DEF Others, Settled
    <2> QED
      BY <2>3, <2>4
  <1> QED
    BY <1>1, SerialInit, SerialNext, PTL DEF Spec
=============================================================================
