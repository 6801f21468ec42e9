--------------------------- MODULE Threads_proofs ---------------------------
(***************************************************************************)
(* The safety of the parts that run on threads and tasks of their own,     *)
(* each for any value of its constants: the scripts' console, the scripts' *)
(* runtime, the pipe with its worker and hosts, and the freeze of a        *)
(* property; and of the model that has them side by side.                  *)
(***************************************************************************)
EXTENDS MCThreads, SequenceTheorems, TLAPS

-----------------------------------------------------------------------------
(* LuaConsole.  A marker is in the ring, due, or with a task on its way;   *)
(* the task that a command installs takes the place of one that never ran. *)

Underway_L == main.at \in {"read", "cancel", "stop", "run", "chunk", "start", "install"}

\* A task holds lines only between taking them and telling them.
Taken == \A r \in Runs : task[r].at # "emit" => task[r].took = << >>

\* The run of a command under way has no task yet, nor has any run to come.
Fresh ==
    /\ Underway_L =>
         main.script \in Scripts /\ Len(runs) # 0 /\ task[Len(runs)].at = "none"
    /\ \A r \in Runs : r > Len(runs) => task[r].at = "none"
    /\ handle <= Len(runs)

ConsoleInv ==
    /\ ConsoleTypeOK
    /\ Taken
    /\ Fresh
    /\ LossShown

TaskSteps == {"none", "wait", "drain", "emit", "ask", "fail", "end", "gone"}
Task == [at : TaskSteps, cancel : BOOLEAN, took : Seq(Lines)]

\* The elements of a sequence with one more at its end.
LEMMA ToSetAppend ==
  ASSUME NEW S, NEW s \in Seq(S), NEW e \in S
  PROVE  ToSet(s) \subseteq ToSet(Append(s, e)) /\ e \in ToSet(Append(s, e))
  <1>1. /\ Append(s, e) \in Seq(S) /\ Len(Append(s, e)) = Len(s) + 1
        /\ \A i \in 1 .. Len(s) : Append(s, e)[i] = s[i]
        /\ Append(s, e)[Len(s) + 1] = e
    BY AppendProperties
  <1>2. DOMAIN s = 1 .. Len(s) /\ DOMAIN Append(s, e) = 1 .. Len(s) + 1 /\ Len(s) \in Nat
    BY <1>1
  <1> QED
    BY <1>1, <1>2 DEF ToSet

\* What is in a sequence is in one of the two parts it is cut into.
LEMMA ToSetCut ==
  ASSUME NEW S, NEW s \in Seq(S), NEW n \in 0 .. Len(s), NEW e \in ToSet(s)
  PROVE  e \in ToSet(SubSeq(s, 1, n)) \/ e \in ToSet(SubSeq(s, n + 1, Len(s)))
  <1>1. Len(s) \in Nat /\ DOMAIN s = 1 .. Len(s)
    OBVIOUS
  <1>2. PICK i \in 1 .. Len(s) : e = s[i]
    BY <1>1 DEF ToSet
  <1>3. \A j \in 1 .. Len(s) : s[j] \in S
    BY ElementOfSeq
  <1>4. CASE i <= n
    <2> DEFINE t == SubSeq(s, 1, n)
    <2>1. t \in Seq(S) /\ Len(t) = n /\ \A j \in 1 .. n : t[j] = s[j]
      BY <1>1, <1>3, <1>4, SubSeqProperties
    <2> HIDE DEF t
    <2>2. i \in DOMAIN t /\ t[i] = e
      BY <1>1, <1>2, <1>4, <2>1
    <2>3. e \in ToSet(t)
      BY <2>2 DEF ToSet
    <2> QED
      BY <2>3 DEF t
  <1>5. CASE i > n
    <2> DEFINE t == SubSeq(s, n + 1, Len(s))
    <2>1. /\ t \in Seq(S) /\ Len(t) = Len(s) - n
          /\ \A j \in 1 .. Len(s) - n : t[j] = s[n + j]
      <3>1. \A j \in n + 1 .. Len(s) : s[j] \in S
        BY <1>1, <1>3
      <3>2. /\ t \in Seq(S)
            /\ Len(t) = IF n + 1 <= Len(s) THEN Len(s) - (n + 1) + 1 ELSE 0
            /\ \A j \in 1 .. Len(s) - (n + 1) + 1 : t[j] = s[n + 1 + j - 1]
        BY <1>1, <3>1, SubSeqProperties
      <3>3. Len(s) - (n + 1) + 1 = Len(s) - n /\ n + 1 <= Len(s)
        BY <1>1, <1>2, <1>5
      <3> HIDE DEF t
      <3>4. ASSUME NEW j \in 1 .. Len(s) - n PROVE t[j] = s[n + j]
        <4>1. n + 1 + j - 1 = n + j
          BY <1>1
        <4> QED
          BY <3>2, <3>3, <4>1
      <3> QED
        BY <3>2, <3>3, <3>4
    <2> HIDE DEF t
    <2>2. i - n \in DOMAIN t /\ t[i - n] = e
      BY <1>1, <1>2, <1>5, <2>1
    <2>3. e \in ToSet(t)
      BY <2>2 DEF ToSet
    <2> QED
      BY <2>3 DEF t
  <1> QED
    BY <1>1, <1>2, <1>4, <1>5

\* A line goes into the ring: at a full ring the oldest makes room and is counted.
LEMMA EvictCounts ==
  ASSUME NEW lines \in Seq(Lines), Len(lines) <= Capacity, NEW line \in Lines, NEW d \in Nat
  PROVE  /\ Evict(lines, line, d).lines \in Seq(Lines)
         /\ Len(Evict(lines, line, d).lines) <= Capacity
         /\ line \in ToSet(Evict(lines, line, d).lines)
         /\ \/ Evict(lines, line, d).drops = d + 1
            \/ /\ Evict(lines, line, d).drops = d
               /\ Len(Evict(lines, line, d).lines) = Len(lines) + 1
               /\ ToSet(lines) \subseteq ToSet(Evict(lines, line, d).lines)
  <1>0. Capacity \in Nat /\ Capacity >= 1 /\ Len(lines) \in Nat
    BY ConsoleAssumption
  <1>1. CASE Len(lines) >= Capacity
    <2>1. lines # << >>
      BY <1>0, <1>1
    <2> DEFINE rest == Tail(lines)
    <2>2. rest \in Seq(Lines) /\ Len(rest) = Len(lines) - 1
      BY <2>1, HeadTailProperties
    <2>3. Evict(lines, line, d) = [lines |-> Append(rest, line), drops |-> d + 1]
      BY <1>1 DEF Evict
    <2> HIDE DEF rest
    <2>4. Append(rest, line) \in Seq(Lines) /\ Len(Append(rest, line)) = Len(rest) + 1
      BY <2>2, AppendProperties
    <2>5. line \in ToSet(Append(rest, line))
      BY <2>2, ToSetAppend
    <2> QED
      BY <1>0, <2>2, <2>3, <2>4, <2>5
  <1>2. CASE ~(Len(lines) >= Capacity)
    <2>1. /\ Append(lines, line) \in Seq(Lines)
          /\ Len(Append(lines, line)) = Len(lines) + 1
          /\ ToSet(lines) \subseteq ToSet(Append(lines, line))
          /\ line \in ToSet(Append(lines, line))
      BY AppendProperties, ToSetAppend
    <2> QED
      BY <1>0, <1>2, <2>1 DEF Evict
  <1> QED
    BY <1>1, <1>2

\* What is printed keeps the trace of what is lost, and leaves one of what it drops.
LEMMA PushedTells ==
  ASSUME ConsoleTypeOK
  PROVE  /\ Pushed("line").lines \in Seq(Lines) /\ Len(Pushed("line").lines) <= Capacity
         /\ Pushed("line").drops \in 0 .. 2
         /\ drops > 0 => Pushed("line").drops > 0 \/ "marker" \in ToSet(Pushed("line").lines)
         /\ drops = 0 =>
              \/ Pushed("line").drops > 0
              \/ /\ Len(Pushed("line").lines) = Len(ring) + 1
                 /\ ToSet(ring) \subseteq ToSet(Pushed("line").lines)
  <1>0. /\ ring \in Seq(Lines) /\ Len(ring) <= Capacity /\ drops \in 0 .. 2
        /\ {"line", "marker"} \subseteq Lines
    BY DEF ConsoleTypeOK, Lines
  <1>1. CASE drops > 0
    <2> DEFINE told == Evict(ring, "marker", 0)
    <2>1. /\ told.lines \in Seq(Lines) /\ Len(told.lines) <= Capacity /\ told.drops \in 0 .. 1
          /\ "marker" \in ToSet(told.lines)
      BY <1>0, EvictCounts
    <2>2. Pushed("line") = Evict(told.lines, "line", told.drops)
      BY <1>1 DEF Pushed
    <2> HIDE DEF told
    <2> DEFINE next == Evict(told.lines, "line", told.drops)
    <2>3. /\ next.lines \in Seq(Lines) /\ Len(next.lines) <= Capacity
          /\ \/ next.drops = told.drops + 1
             \/ next.drops = told.drops /\ ToSet(told.lines) \subseteq ToSet(next.lines)
      BY <1>0, <2>1, EvictCounts
    <2> HIDE DEF next
    <2> QED
      BY <1>1, <2>1, <2>2, <2>3 DEF next
  <1>2. CASE drops = 0
    <2>1. Pushed("line") = Evict(ring, "line", 0)
      BY <1>0, <1>2 DEF Pushed
    <2> DEFINE next == Evict(ring, "line", 0)
    <2>2. /\ next.lines \in Seq(Lines) /\ Len(next.lines) <= Capacity
          /\ \/ next.drops = 1
             \/ /\ next.drops = 0 /\ Len(next.lines) = Len(ring) + 1
                /\ ToSet(ring) \subseteq ToSet(next.lines)
      BY <1>0, EvictCounts
    <2> HIDE DEF next
    <2> QED
      BY <1>2, <2>1, <2>2 DEF next
  <1> QED
    BY <1>0, <1>1, <1>2

\* Cancelling the task of a run changes neither its step nor what it took.
LEMMA CancelKeeps ==
  ASSUME task \in [Runs -> Task], NEW r \in {NoRun} \cup Runs
  PROVE  /\ Cancelled_Task(r) \in [Runs -> Task]
         /\ \A q \in Runs : /\ Cancelled_Task(r)[q].at = task[q].at
                            /\ Cancelled_Task(r)[q].took = task[q].took
  <1>1. TRUE \in BOOLEAN
    OBVIOUS
  <1>2. ASSUME NEW q \in Runs
        PROVE  [task[q] EXCEPT !.cancel = TRUE] \in
                   [at : {task[q].at}, cancel : {TRUE}, took : {task[q].took}]
    BY DEF Task
  <1>3. ASSUME NEW q \in Runs
        PROVE  Cancelled_Task(r)[q] = IF q = r THEN [task[q] EXCEPT !.cancel = TRUE] ELSE task[q]
    BY DEF Cancelled_Task
  <1>4. ASSUME NEW q \in Runs
        PROVE  /\ Cancelled_Task(r)[q] \in Task /\ Cancelled_Task(r)[q].at = task[q].at
               /\ Cancelled_Task(r)[q].took = task[q].took
    <2>1. task[q] \in Task
      OBVIOUS
    <2> QED
      BY <1>1, <1>2, <1>3, <2>1 DEF Task
  <1>5. DOMAIN Cancelled_Task(r) = Runs
    BY DEF Cancelled_Task
  <1>6. Cancelled_Task(r) = [q \in Runs |-> Cancelled_Task(r)[q]]
    BY <1>5 DEF Cancelled_Task
  <1> QED
    BY <1>4, <1>6

\* The run of a command under way is one of the bound's.
LEMMA RunsInRange ==
  ASSUME ConsoleTypeOK, Len(runs) # 0
  PROVE  Len(runs) \in Runs
  <1>1. Len(runs) \in Nat /\ Len(runs) <= MaxRuns /\ MaxRuns \in Nat
    BY ConsoleAssumption DEF ConsoleTypeOK
  <1> QED
    BY <1>1 DEF Runs

LEMMA ConsoleInitInv == ConsoleInit => ConsoleInv
  <1> SUFFICES ASSUME ConsoleInit PROVE ConsoleInv
    OBVIOUS
  <1> USE ConsoleAssumption
  <1>1. << >> \in Seq(Lines) /\ << >> \in Seq(Scripts) /\ Len(<< >>) = 0
    BY EmptySeq
  <1>2. FALSE \in BOOLEAN
    OBVIOUS
  <1>3. NoTask \in Task /\ NoTask.at = "none" /\ NoTask.took = << >>
    BY <1>1, <1>2 DEF NoTask, Task, TaskSteps
  <1>4. task \in [Runs -> Task] /\ \A r \in Runs : task[r] = NoTask
    BY <1>3 DEF ConsoleInit
  <1>5. main.at = "free" /\ main \in [at : {"free"}, script : {"none"}]
    BY DEF ConsoleInit, Free
  <1>6. gap \in BOOLEAN
    BY <1>2 DEF ConsoleInit
  <1>7. ConsoleTypeOK
    BY <1>1, <1>3, <1>4, <1>5, <1>6 DEF ConsoleInit, ConsoleTypeOK, Task, TaskSteps, Runs, NoRun
  <1>8. Taken /\ Fresh
    BY <1>1, <1>3, <1>4, <1>5 DEF ConsoleInit, Taken, Fresh, Underway_L, NoRun
  <1> QED
    BY <1>7, <1>8 DEF ConsoleInit, ConsoleInv, LossShown

\* What prints, fails or goes away beside the commands and the tasks.
LEMMA WorldKeepsConsole ==
  ASSUME ConsoleInv, ScriptPrints \/ ScriptFails \/ DetachLua \/ LinkBreaks
  PROVE  ConsoleInv'
  <1> USE ConsoleAssumption
  <1>0. ConsoleTypeOK /\ Taken /\ Fresh /\ LossShown /\ task \in [Runs -> Task]
    BY DEF ConsoleInv, ConsoleTypeOK, Task, TaskSteps
  <1>1. CASE ScriptPrints
    <2>1. /\ ring' = Pushed("line").lines /\ drops' = Pushed("line").drops
          /\ gap' = (gap \/ Len(Pushed("line").lines) < Len(ring) + (IF drops > 0 THEN 2 ELSE 1))
          /\ UNCHANGED <<vm, link, main, runs, handle, task, shown>>
      BY <1>1 DEF ScriptPrints
    <2>2. /\ ring' \in Seq(Lines) /\ Len(ring') <= Capacity /\ drops' \in 0 .. 2
          /\ drops > 0 => drops' > 0 \/ "marker" \in ToSet(ring')
          /\ drops = 0 =>
               drops' > 0 \/ (Len(ring') = Len(ring) + 1 /\ ToSet(ring) \subseteq ToSet(ring'))
      BY <1>0, <2>1, PushedTells
    <2>3. gap' \in BOOLEAN
      BY <2>1
    <2>4. ConsoleTypeOK'
      BY <1>0, <2>1, <2>2, <2>3 DEF ConsoleTypeOK
    <2>5. Taken' /\ Fresh'
      BY <1>0, <2>1 DEF Taken, Fresh, Underway_L
    <2>6. LossShown'
      <3> SUFFICES ASSUME gap', ~(drops' > 0), "marker" \notin ToSet(ring')
                   PROVE  \E r \in Runs : "marker" \in ToSet(task[r].took)
        BY <2>1 DEF LossShown
      <3>1. drops \in 0 .. 2 /\ Len(ring) \in Nat
        BY <1>0 DEF ConsoleTypeOK
      <3>2. drops = 0 /\ Len(ring') = Len(ring) + 1 /\ ToSet(ring) \subseteq ToSet(ring')
        BY <2>2, <3>1
      <3>3. gap \/ Len(ring') < Len(ring) + (IF drops > 0 THEN 2 ELSE 1)
        BY ONLY <2>1, gap'
      <3>4. Len(ring') < Len(ring) + (IF drops > 0 THEN 2 ELSE 1) => FALSE
        BY <3>1, <3>2
      <3>5. gap
        BY ONLY <3>3, <3>4
      <3> QED
        BY <1>0, <3>2, <3>5 DEF LossShown
    <2> QED
      BY <2>4, <2>5, <2>6 DEF ConsoleInv
  <1>2. CASE ScriptFails
    BY <1>0, <1>2 DEF ScriptFails, ConsoleInv, ConsoleTypeOK, Taken, Fresh, Underway_L, LossShown
  <1>a. << >> \in Seq(Lines) /\ Len(<< >>) <= Capacity /\ 0 \in 0 .. 2
    BY EmptySeq
  <1>b. gap' = FALSE => gap' \in BOOLEAN
    OBVIOUS
  <1>3. CASE LinkBreaks
    <2>1. /\ link' = "broken" /\ vm' = "idle" /\ ring' = << >> /\ drops' = 0 /\ gap' = FALSE
          /\ UNCHANGED <<main, runs, handle, task, shown>>
      BY <1>3 DEF LinkBreaks
    <2>2. ConsoleTypeOK'
      <3>1. ring' \in Seq(Lines) /\ Len(ring') <= Capacity /\ drops' \in 0 .. 2
        BY <1>a, <2>1
      <3>2. gap' \in BOOLEAN
        BY <1>b, <2>1
      <3> QED
        BY <1>0, <2>1, <3>1, <3>2 DEF ConsoleTypeOK
    <2> QED
      BY <1>0, <2>1, <2>2 DEF ConsoleInv, Taken, Fresh, Underway_L, LossShown
  <1>4. CASE DetachLua
    <2>1. /\ link' = "detached" /\ vm' = "idle" /\ ring' = << >> /\ drops' = 0 /\ gap' = FALSE
          /\ task' = (IF handle # NoRun THEN Cancelled_Task(handle) ELSE task)
          /\ handle' = NoRun /\ UNCHANGED <<main, runs, shown>>
      BY <1>4 DEF DetachLua
    <2>2. /\ task' \in [Runs -> Task]
          /\ \A r \in Runs : task'[r].at = task[r].at /\ task'[r].took = task[r].took
      BY <1>0, <2>1, CancelKeeps DEF ConsoleTypeOK
    <2>3. Len(runs) \in Nat
      BY <1>0 DEF ConsoleTypeOK
    <2>4. ConsoleTypeOK'
      <3>1. ring' \in Seq(Lines) /\ Len(ring') <= Capacity /\ drops' \in 0 .. 2
        BY <1>a, <2>1
      <3>2. gap' \in BOOLEAN
        BY <1>b, <2>1
      <3> QED
        BY <1>0, <2>1, <2>2, <3>1, <3>2 DEF ConsoleTypeOK, Task, TaskSteps, NoRun
    <2>5. Taken' /\ Fresh'
      BY <1>0, <2>1, <2>2, <2>3, RunsInRange DEF Taken, Fresh, Underway_L, NoRun
    <2> QED
      BY <2>1, <2>4, <2>5 DEF ConsoleInv, LossShown
  <1> QED
    BY <1>1, <1>2, <1>3, <1>4

MainSteps ==
    {"free", "read", "cancel", "stop", "run", "chunk", "start", "install", "halt", "halted"}
Main == [at : MainSteps, script : Scripts \cup {"none"}]

\* The commands, and the clicks they begin with.
LEMMA MainKeepsConsole ==
  ASSUME ConsoleInv, (\E s \in Scripts : RunClicked(s) \/ StopClicked(s)) \/ MainMoves
  PROVE  ConsoleInv'
  <1> USE ConsoleAssumption
  <1>0. /\ ConsoleTypeOK /\ Taken /\ Fresh /\ LossShown /\ task \in [Runs -> Task]
        /\ main \in Main /\ Free \in Main /\ Free.at = "free" /\ shown \subseteq Scripts
        /\ vm \in {"idle", "running", "stopped"} /\ handle \in {NoRun} \cup Runs
    BY DEF ConsoleInv, ConsoleTypeOK, Task, TaskSteps, Main, MainSteps, Free
  <1>1. ASSUME NEW step \in MainSteps
        PROVE  /\ [main EXCEPT !.at = step] \in Main /\ [main EXCEPT !.at = step].at = step
               /\ [main EXCEPT !.at = step].script = main.script
    <2>1. [main EXCEPT !.at = step] \in [at : {step}, script : {main.script}]
      BY <1>0 DEF Main
    <2> QED
      BY <1>0, <2>1 DEF Main
  \* The steps that start no run and no task and take no handle.
  <1>2. ASSUME vm' \in {"idle", "running", "stopped"}, main' \in Main, shown' \subseteq Scripts,
               UNCHANGED <<ring, drops, gap, link, runs, handle, task>>,
               Underway_L' => Underway_L /\ main'.script = main.script
        PROVE  ConsoleInv'
    <2>1. ConsoleTypeOK'
      BY <1>0, <1>2 DEF ConsoleTypeOK, Main, MainSteps
    <2>2. Taken' /\ Fresh'
      BY <1>0, <1>2 DEF Taken, Fresh
    <2>3. LossShown'
      BY <1>0, <1>2 DEF LossShown
    <2> QED
      BY <2>1, <2>2, <2>3 DEF ConsoleInv
  <1>3. ASSUME NEW s \in Scripts, RunClicked(s) PROVE ConsoleInv'
    <2>1. /\ Len(runs) < MaxRuns /\ shown' = shown \cup {s} /\ runs' = Append(runs, s)
          /\ main' = [at |-> "read", script |-> s]
          /\ UNCHANGED <<vm, link, handle, task, ring, drops, gap>>
      BY <1>3 DEF RunClicked, RingOnly
    <2>2. runs' \in Seq(Scripts) /\ Len(runs') = Len(runs) + 1 /\ Len(runs) \in Nat
      BY <1>0, <2>1, AppendProperties DEF ConsoleTypeOK
    <2>3. Len(runs') \in Runs /\ MaxRuns \in Nat
      BY <2>1, <2>2 DEF Runs
    <2>4. ConsoleTypeOK'
      BY <1>0, <2>1, <2>2, <2>3 DEF ConsoleTypeOK
    <2>5. Len(runs') # 0 /\ task'[Len(runs')].at = "none"
      BY <1>0, <2>1, <2>2, <2>3 DEF Fresh
    <2>6. Fresh'
      BY <1>0, <2>1, <2>2, <2>5 DEF Fresh, Runs, NoRun
    <2> QED
      BY <1>0, <2>1, <2>4, <2>6 DEF ConsoleInv, Taken, LossShown
  <1>4. ASSUME NEW s \in Scripts, StopClicked(s) PROVE ConsoleInv'
    <2>1. CASE link = "detached" \/ handle = NoRun
      <3>1. /\ main' = [at |-> "halt", script |-> "none"]
            /\ UNCHANGED <<handle, task, vm, link, runs, shown, ring, drops, gap>>
        BY <1>4, <2>1 DEF StopClicked, RingOnly
      <3>2. main' \in Main /\ main'.at = "halt"
        BY <3>1 DEF Main, MainSteps
      <3> QED
        BY <1>0, <1>2, <3>1, <3>2 DEF Underway_L
    <2>2. CASE ~(link = "detached" \/ handle = NoRun)
      <3>1. /\ main' = [at |-> "halt", script |-> runs[handle]]
            /\ task' = Cancelled_Task(handle) /\ handle' = NoRun
            /\ UNCHANGED <<vm, link, runs, shown, ring, drops, gap>>
        BY <1>4, <2>2 DEF StopClicked, RingOnly
      <3>2. Len(runs) \in Nat /\ handle \in 1 .. Len(runs)
        BY <1>0, <2>2 DEF ConsoleTypeOK, Fresh, Runs, NoRun
      <3>3. runs[handle] \in Scripts
        BY <1>0, <3>2, ElementOfSeq DEF ConsoleTypeOK
      <3>4. main' \in Main /\ ~Underway_L'
        BY <3>1, <3>3 DEF Main, MainSteps, Underway_L
      <3>5. /\ task' \in [Runs -> Task]
            /\ \A r \in Runs : task'[r].at = task[r].at /\ task'[r].took = task[r].took
        BY <1>0, <3>1, CancelKeeps
      <3>6. ConsoleTypeOK'
        BY <1>0, <3>1, <3>4, <3>5 DEF ConsoleTypeOK, Task, TaskSteps, Main, MainSteps
      <3>7. Taken' /\ Fresh'
        BY <1>0, <3>1, <3>2, <3>4, <3>5 DEF Taken, Fresh, NoRun
      <3>8. LossShown'
        BY <1>0, <3>1, <3>5 DEF LossShown
      <3> QED
        BY <3>6, <3>7, <3>8 DEF ConsoleInv
    <2> QED
      BY <2>1, <2>2
  \* An error ends the command.
  <1>5. ASSUME Rejected, vm' \in {"idle", "running", "stopped"},
               UNCHANGED <<ring, drops, gap, link, runs, handle, task>>
        PROVE  ConsoleInv'
    <2>1. main' = Free /\ shown' \subseteq Scripts
      BY <1>0, <1>5 DEF Rejected
    <2> QED
      BY <1>0, <1>2, <1>5, <2>1 DEF Underway_L
  <1>6. ASSUME NEW step \in MainSteps, MainGoes(step), shown' \subseteq Scripts, Underway_L,
               vm' \in {"idle", "running", "stopped"},
               UNCHANGED <<ring, drops, gap, link, runs, handle, task>>
        PROVE  ConsoleInv'
    <2>1. main' \in Main /\ main'.script = main.script
      BY <1>1, <1>6 DEF MainGoes
    <2> QED
      BY <1>2, <1>6, <2>1
  <1>7. CASE ReadBody
    BY <1>0, <1>5, <1>6, <1>7 DEF ReadBody, RingOnly, Underway_L, MainSteps
  <1>8. CASE CancelPrevious
    <2>1. main.at = "cancel" /\ UNCHANGED <<vm, link, runs, ring, drops, gap>>
      BY <1>8 DEF CancelPrevious, RingOnly
    <2>2. CASE link = "detached"
      BY <1>0, <1>5, <1>8, <2>1, <2>2 DEF CancelPrevious
    <2>3. CASE link # "detached"
      <3>1. handle' = NoRun /\ MainGoes("stop") /\ UNCHANGED shown
        BY <1>8, <2>3 DEF CancelPrevious
      <3>2. /\ task' \in [Runs -> Task]
            /\ \A r \in Runs : task'[r].at = task[r].at /\ task'[r].took = task[r].took
        <4>1. task' = IF handle # NoRun THEN Cancelled_Task(handle) ELSE task
          BY <1>8, <2>3 DEF CancelPrevious
        <4> QED
          BY <1>0, <4>1, CancelKeeps
      <3>3. main' \in Main /\ main'.at = "stop" /\ main'.script = main.script
        BY <1>1, <3>1 DEF MainGoes, MainSteps
      <3>4. ConsoleTypeOK'
        BY <1>0, <2>1, <3>1, <3>2, <3>3
           DEF ConsoleTypeOK, Task, TaskSteps, Main, MainSteps
      <3>5. Len(runs) \in Nat /\ Underway_L
        BY <1>0, <2>1 DEF ConsoleTypeOK, Underway_L
      <3>6. Taken' /\ Fresh'
        BY <1>0, <2>1, <3>1, <3>2, <3>3, <3>5, RunsInRange DEF Taken, Fresh, NoRun
      <3>7. LossShown'
        BY <1>0, <2>1, <3>2 DEF LossShown
      <3> QED
        BY <3>4, <3>6, <3>7 DEF ConsoleInv
    <2> QED
      BY <2>2, <2>3
  <1>9. CASE StopPrevious
    BY <1>0, <1>6, <1>9 DEF StopPrevious, RingOnly, Underway_L, MainSteps
  <1>10. CASE RunLua
    BY <1>0, <1>5, <1>6, <1>10 DEF RunLua, RingOnly, Underway_L, MainSteps
  <1>11. CASE ChunkEnds
    BY <1>0, <1>5, <1>6, <1>11 DEF ChunkEnds, RingOnly, Underway_L, MainSteps
  <1>12. CASE Started_L
    <2>1. main.script \in Scripts
      BY <1>0, <1>12 DEF Started_L, Fresh, Underway_L
    <2>2. shown' \subseteq Scripts
      BY <1>0, <1>12, <2>1 DEF Started_L
    <2> QED
      BY <1>0, <1>6, <1>12, <2>2 DEF Started_L, RingOnly, Underway_L, MainSteps
  <1>13. CASE Install
    <2>1. main.at = "install" /\ UNCHANGED <<vm, link, runs, ring, drops, gap>>
      BY <1>13 DEF Install, RingOnly
    <2>2. CASE link = "detached"
      BY <1>0, <1>5, <1>13, <2>1, <2>2 DEF Install
    <2>3. CASE link # "detached"
      <3>1. /\ main' = Free /\ handle' = Len(runs) /\ UNCHANGED shown
            /\ task' = [task EXCEPT ![Len(runs)] = [NoTask EXCEPT !.at = "wait"]]
        BY <1>13, <2>3 DEF Install
      <3>2. Len(runs) \in Runs /\ task[Len(runs)].at = "none"
        BY <1>0, <2>1, RunsInRange DEF Fresh, Underway_L
      <3> DEFINE new == [NoTask EXCEPT !.at = "wait"]
      <3>3. new \in Task /\ new.took = << >> /\ new.at = "wait"
        <4>1. FALSE \in BOOLEAN /\ << >> \in Seq(Lines)
          BY EmptySeq
        <4>2. new \in [at : {"wait"}, cancel : {FALSE}, took : {<< >>}]
          BY DEF NoTask, new
        <4> QED
          BY <4>1, <4>2 DEF Task, TaskSteps
      <3> HIDE DEF new
      <3>4. task' = [task EXCEPT ![Len(runs)] = new]
        BY <3>1 DEF new
      <3>5. /\ task' \in [Runs -> Task] /\ task'[Len(runs)] = new
            /\ \A r \in Runs : r # Len(runs) => task'[r] = task[r]
        BY <1>0, <3>2, <3>3, <3>4
      <3>6. task[Len(runs)].took = << >>
        BY <1>0, <3>2 DEF Taken
      <3>7. \A r \in Runs : task'[r].took = task[r].took
        BY <3>3, <3>5, <3>6
      <3>8. ConsoleTypeOK'
        BY <1>0, <2>1, <3>1, <3>2, <3>5, <3>7
           DEF ConsoleTypeOK, Task, TaskSteps, Main, MainSteps
      <3>9. Taken'
        BY <1>0, <3>3, <3>5 DEF Taken
      <3>10. Len(runs) \in Nat
        BY <1>0 DEF ConsoleTypeOK
      <3>11. Fresh'
        BY <1>0, <2>1, <3>1, <3>5, <3>10 DEF Fresh, Underway_L
      <3>12. LossShown'
        BY <1>0, <2>1, <3>7 DEF LossShown
      <3> QED
        BY <3>8, <3>9, <3>11, <3>12 DEF ConsoleInv
    <2> QED
      BY <2>2, <2>3
  <1>14. CASE StopLua
    <2>1. main' \in Main /\ main'.at = "halted"
      BY <1>1, <1>14 DEF StopLua, MainGoes, MainSteps
    <2> QED
      BY <1>0, <1>2, <1>14, <2>1 DEF StopLua, RingOnly, Underway_L
  <1>15. CASE Halted
    BY <1>0, <1>2, <1>15 DEF Halted, RingOnly, Underway_L
  <1> QED
    BY <1>3, <1>4, <1>7, <1>8, <1>9, <1>10, <1>11, <1>12, <1>13, <1>14, <1>15 DEF MainMoves

\* The tasks: their lines leave the ring with them, and are told or dropped as one.
LEMMA TasksKeepConsole ==
  ASSUME ConsoleInv, NEW r \in Runs, TaskMoves(r)
  PROVE  ConsoleInv'
  <1> USE ConsoleAssumption
  <1>0. /\ ConsoleTypeOK /\ Taken /\ Fresh /\ LossShown /\ task \in [Runs -> Task]
        /\ shown \subseteq Scripts /\ ring \in Seq(Lines) /\ Len(ring) <= Capacity
        /\ Len(ring) \in Nat /\ gap \in BOOLEAN /\ Batch \in Nat
    BY DEF ConsoleInv, ConsoleTypeOK, Task, TaskSteps
  <1>1. UNCHANGED <<vm, link, main, runs, handle>> /\ task[r].at # "none"
    BY DEF TaskMoves, Wakes, Drains, Emits, AsksStatus, TellsStopped, TaskOnly
  \* What every step of a task leaves true, whatever it takes from the ring.
  <1>2. ASSUME NEW new \in Task, task' = [task EXCEPT ![r] = new], new.at # "none",
               new.at # "emit" => new.took = << >>, Len(new.took) <= Batch,
               ring' \in Seq(Lines), Len(ring') <= Capacity, drops' = drops,
               gap' \in BOOLEAN, shown' \subseteq Scripts, LossShown'
        PROVE  ConsoleInv'
    <2>1. /\ task' \in [Runs -> Task] /\ task'[r] = new
          /\ \A q \in Runs : q # r => task'[q] = task[q]
      BY <1>0, <1>2
    <2>2. \A q \in Runs : Len(task'[q].took) <= Batch
      BY <1>0, <1>2, <2>1 DEF ConsoleTypeOK
    <2>3. ConsoleTypeOK'
      BY <1>0, <1>1, <1>2, <2>1, <2>2 DEF ConsoleTypeOK, Task, TaskSteps
    <2>4. Taken'
      BY <1>0, <1>2, <2>1 DEF Taken
    <2>5. Len(runs) \in Nat /\ (Len(runs) # 0 => Len(runs) \in Runs)
      BY <1>0, RunsInRange DEF ConsoleTypeOK
    <2>6. Fresh'
      BY <1>0, <1>1, <2>1, <2>5 DEF Fresh, Underway_L
    <2> QED
      BY <1>2, <2>3, <2>4, <2>6 DEF ConsoleInv
  \* The steps that take and tell nothing.
  <1>3. ASSUME NEW step \in TaskSteps \ {"none", "emit"}, TaskAt(r, step), task[r].at # "emit",
               shown' \subseteq Scripts, UNCHANGED <<ring, drops, gap>>
        PROVE  ConsoleInv'
    <2> DEFINE new == [task[r] EXCEPT !.at = step]
    <2>1. new \in [at : {step}, cancel : BOOLEAN, took : {task[r].took}]
      BY <1>0 DEF Task
    <2>2. task[r].took = << >> /\ << >> \in Seq(Lines) /\ Len(<< >>) <= Batch
      BY <1>0, <1>3, EmptySeq DEF Taken
    <2>3. new \in Task /\ new.at = step /\ new.took = << >>
      BY <2>1, <2>2 DEF Task
    <2>4. task' = [task EXCEPT ![r] = new]
      BY <1>0, <1>3 DEF TaskAt
    <2> HIDE DEF new
    <2>5. \A q \in Runs : task'[q].took = task[q].took
      BY <1>0, <2>2, <2>3, <2>4
    <2>6. LossShown'
      BY <1>0, <1>3, <2>5 DEF LossShown
    <2> QED
      BY <1>0, <1>2, <1>3, <2>2, <2>3, <2>4, <2>6
  <1>4. CASE Wakes(r)
    BY <1>0, <1>3, <1>4 DEF Wakes, RingOnly, TaskSteps
  <1>5. CASE AsksStatus(r)
    <2> DEFINE step == CASE link # "up" -> "fail"
                         [] link = "up" /\ vm = "running" -> "wait"
                         [] OTHER -> "end"
    <2>1. step \in {"fail", "wait", "end"}
      <3>1. CASE link # "up"
        BY <3>1
      <3>2. CASE link = "up" /\ vm = "running"
        BY <3>2
      <3>3. CASE link = "up" /\ vm # "running"
        BY <3>3
      <3> QED
        BY <3>1, <3>2, <3>3
    <2>2. task[r].at = "ask" /\ TaskAt(r, step) /\ UNCHANGED <<shown, ring, drops, gap>>
      BY <1>5 DEF AsksStatus, RingOnly
    <2> HIDE DEF step
    <2> QED
      BY <1>0, <1>3, <2>1, <2>2 DEF TaskSteps
  <1>6. CASE TellsStopped(r)
    BY <1>0, <1>3, <1>6 DEF TellsStopped, RingOnly, TaskSteps
  <1>7. CASE Drains(r) /\ link # "up"
    BY <1>0, <1>3, <1>7 DEF Drains, RingOnly, TaskSteps
  <1>8. CASE Drains(r) /\ link = "up"
    <2> DEFINE n == IF Len(ring) < Batch THEN Len(ring) ELSE Batch
               some == SubSeq(ring, 1, n)
               rest == SubSeq(ring, n + 1, Len(ring))
               new == [task[r] EXCEPT !.at = "emit", !.took = some]
    <2>1. n \in 0 .. Len(ring) /\ n <= Batch
      BY <1>0
    <2>2. /\ task' = [task EXCEPT ![r] = new] /\ ring' = rest
          /\ UNCHANGED <<drops, gap, shown>> /\ task[r].at = "drain"
      BY <1>0, <1>8 DEF Drains, Oldest, Drained
    <2> HIDE DEF n
    <2>3. \A i \in 1 .. Len(ring) : ring[i] \in Lines
      BY <1>0, ElementOfSeq
    <2>4. some \in Seq(Lines) /\ Len(some) = n
      BY <1>0, <2>1, <2>3, SubSeqProperties
    <2>5. rest \in Seq(Lines) /\ Len(rest) <= Len(ring)
      <3>1. \A i \in n + 1 .. Len(ring) : ring[i] \in Lines
        BY <1>0, <2>1, <2>3
      <3>2. /\ rest \in Seq(Lines)
            /\ Len(rest) = IF n + 1 <= Len(ring) THEN Len(ring) - (n + 1) + 1 ELSE 0
        BY <1>0, <2>1, <3>1, SubSeqProperties
      <3> HIDE DEF rest
      <3> QED
        BY <1>0, <2>1, <3>2
    <2>6. ASSUME "marker" \in ToSet(ring)
          PROVE  "marker" \in ToSet(some) \/ "marker" \in ToSet(rest)
      BY <1>0, <2>1, <2>6, ToSetCut
    <2> HIDE DEF some, rest
    <2>7. new \in [at : {"emit"}, cancel : BOOLEAN, took : {some}]
      BY <1>0 DEF Task
    <2>8. new \in Task /\ new.at = "emit" /\ new.took = some
      BY <2>4, <2>7 DEF Task, TaskSteps
    <2> HIDE DEF new
    <2>9. /\ task'[r] = new /\ \A q \in Runs : q # r => task'[q] = task[q]
      BY <1>0, <2>2
    <2>10. "marker" \notin ToSet(task[r].took)
      <3>1. task[r].took = << >>
        BY <1>0, <2>2 DEF Taken
      <3>2. DOMAIN << >> = {}
        OBVIOUS
      <3> QED
        BY <3>1, <3>2 DEF ToSet
    <2>11. LossShown'
      <3> SUFFICES ASSUME gap, ~(drops > 0), "marker" \notin ToSet(rest)
                   PROVE  \E q \in Runs : "marker" \in ToSet(task'[q].took)
        BY <2>2 DEF LossShown
      <3>1. CASE "marker" \in ToSet(ring)
        BY <2>6, <2>8, <2>9, <3>1
      <3>2. CASE "marker" \notin ToSet(ring)
        <4>1. PICK q \in Runs : "marker" \in ToSet(task[q].took)
          BY <1>0, <3>2 DEF LossShown
        <4>2. q # r
          BY <2>10, <4>1
        <4> QED
          BY <2>9, <4>1, <4>2
      <3> QED
        BY <3>1, <3>2
    <2>12. Len(rest) <= Capacity
      BY <1>0, <2>5
    <2> QED
      BY <1>0, <1>2, <2>1, <2>2, <2>4, <2>5, <2>8, <2>11, <2>12
  <1>9. CASE Emits(r)
    <2> DEFINE new == [task[r] EXCEPT !.at = "ask", !.took = << >>]
    <2>1. /\ gap' = (gap /\ "marker" \notin ToSet(task[r].took))
          /\ task' = [task EXCEPT ![r] = new]
          /\ UNCHANGED <<ring, drops, shown>>
      BY <1>0, <1>9 DEF Emits
    <2>2. << >> \in Seq(Lines) /\ Len(<< >>) <= Batch
      BY <1>0, EmptySeq
    <2>3. new \in [at : {"ask"}, cancel : BOOLEAN, took : {<< >>}]
      BY <1>0 DEF Task
    <2>4. new \in Task /\ new.at = "ask" /\ new.took = << >>
      BY <2>2, <2>3 DEF Task, TaskSteps
    <2> HIDE DEF new
    <2>5. \A q \in Runs : q # r => task'[q] = task[q]
      BY <1>0, <2>1
    <2>6. LossShown'
      <3> SUFFICES ASSUME gap, "marker" \notin ToSet(task[r].took), ~(drops > 0),
                          "marker" \notin ToSet(ring)
                   PROVE  \E q \in Runs : "marker" \in ToSet(task'[q].took)
        BY <2>1 DEF LossShown
      <3>1. PICK q \in Runs : "marker" \in ToSet(task[q].took)
        BY <1>0 DEF LossShown
      <3>2. q # r
        BY <3>1
      <3> QED
        BY <2>5, <3>1, <3>2
    <2>7. gap' \in BOOLEAN
      BY <2>1
    <2> QED
      BY <1>0, <1>2, <2>1, <2>2, <2>4, <2>6, <2>7
  <1> QED
    BY <1>4, <1>5, <1>6, <1>7, <1>8, <1>9 DEF TaskMoves

LEMMA ConsoleNextInv == ConsoleInv /\ [ConsoleNext]_consoleVars => ConsoleInv'
  <1> SUFFICES ASSUME ConsoleInv, [ConsoleNext]_consoleVars PROVE ConsoleInv'
    OBVIOUS
  <1>1. CASE UNCHANGED consoleVars
    BY <1>1 DEF consoleVars, ConsoleInv, ConsoleTypeOK, Taken, Fresh, Underway_L, LossShown
  <1> QED
    BY <1>1, WorldKeepsConsole, MainKeepsConsole, TasksKeepConsole DEF ConsoleNext

\* No printed line is lost without a marker that the host has seen, will see or is
\* due, whatever the size of the ring and of a batch, and whoever polls it.
THEOREM LossCorrect == ConsoleSpec => []LossShown
  <1>1. ConsoleInv => LossShown
    BY DEF ConsoleInv
  <1> QED
    BY <1>1, ConsoleInitInv, ConsoleNextInv, PTL DEF ConsoleSpec

\* The ring, the runs and their polling tasks keep their types, and never hold more than
\* their limits.
THEOREM ConsoleTypeCorrect == ConsoleSpec => []ConsoleTypeOK
  <1>1. ConsoleInv => ConsoleTypeOK
    BY DEF ConsoleInv
  <1> QED
    BY <1>1, ConsoleInitInv, ConsoleNextInv, PTL DEF ConsoleSpec

-----------------------------------------------------------------------------
(* LuaRuntime.  A VM that a stop has ended is older than the one in the    *)
(* slot, and code runs of that one only, under its lock; an id once popped *)
(* is never among those that wait for their deadline again.                *)

Tables ==
    [delayed : SUBSET Ids, callbacks : [Ids -> {NoVm} \cup Vms], keybind : {NoVm} \cup Vms,
     gameThread : Seq(Vms), next : 1 .. MaxDelayed + 1]

WorkerSteps ==
    {"off", "start", "degraded", "recv", "build", "swap", "lock", "body", "call", "gone"}
Worker == [at : WorkerSteps, cmd : Command, runs : {NoVm} \cup Vms]

GameSteps == {"engine", "clone", "drain", "body", "call", "put", "join"}
GameThread == [at : GameSteps, pending : Seq(Vms), runs : {NoVm} \cup Vms]

\* The VM's mutex is held by the thread that is at its code, and by nobody else.
Locking ==
    /\ lock = "worker" <=> worker.at \in {"body", "call"}
    /\ lock = "game" <=> game.at \in {"drain", "body", "call"}

Running ==
    /\ IF worker.at \in {"body", "call"} THEN worker.runs \in Vms ELSE worker.runs = NoVm
    /\ IF game.at \in {"body", "call"} THEN game.runs \in Vms ELSE game.runs = NoVm

BuiltFirst ==
    /\ conn = "new" => worker.at = "off"
    /\ worker.at \in {"off", "start"} => built = 0
    /\ worker.at = "swap" => built # 0

\* What a stop has ended is neither in the slot nor running.
Newest ==
    /\ quiet = 0 \/ quiet < built
    /\ lua = NoVm \/ lua > quiet
    /\ worker.runs = NoVm \/ worker.runs > quiet
    /\ game.runs = NoVm \/ game.runs > quiet

Given(i) == i \in 1 .. workers.next - 1 /\ i \notin workers.delayed

Popped ==
    /\ workers.delayed \subseteq 1 .. workers.next - 1
    /\ timer.due # 0 => Given(timer.due)
    /\ \A c \in ToSet(inbox) \cup {worker.cmd} : c.kind = "delayed" => Given(c.id)

LuaInv ==
    /\ LuaTypeOK
    /\ Locking
    /\ Running
    /\ BuiltFirst
    /\ Newest
    /\ Popped

LEMMA LuaTypes ==
  ASSUME LuaTypeOK
  PROVE  /\ MaxVms \in Nat /\ MaxVms >= 1 /\ MaxDelayed \in Nat /\ MaxDelayed >= 1
         /\ lua \in 0 .. MaxVms /\ built \in 0 .. MaxVms /\ quiet \in 0 .. MaxVms
         /\ inbox \in Seq(Command) /\ workers \in Tables /\ worker \in Worker
         /\ timer \in [alive : BOOLEAN, due : 0 .. MaxDelayed] /\ game \in GameThread
  <1>1. MaxVms \in Nat /\ MaxVms >= 1 /\ MaxDelayed \in Nat /\ MaxDelayed >= 1
    BY LuaAssumption
  <1>2. lua \in 0 .. MaxVms /\ built \in 0 .. MaxVms /\ quiet \in 0 .. MaxVms
    BY <1>1 DEF LuaTypeOK, Vms, NoVm
  <1>3. timer \in [alive : BOOLEAN, due : {0} \cup Ids] /\ {0} \cup Ids = 0 .. MaxDelayed
    BY <1>1 DEF LuaTypeOK, Ids
  <1>4. inbox \in Seq(Command) /\ workers \in Tables
    BY DEF LuaTypeOK, Tables
  <1>5. worker \in Worker
    BY DEF LuaTypeOK, Worker, WorkerSteps
  <1>6. game \in GameThread
    BY DEF LuaTypeOK, GameThread, GameSteps
  <1> QED
    BY <1>1, <1>2, <1>3, <1>4, <1>5, <1>6

LEMMA ToSetTail ==
  ASSUME NEW S, NEW s \in Seq(S), s # << >>
  PROVE  ToSet(Tail(s)) \subseteq ToSet(s) /\ Head(s) \in ToSet(s) /\ Head(s) \in S
  <1> DEFINE t == Tail(s)
  <1>1. /\ t \in Seq(S) /\ Len(t) = Len(s) - 1
        /\ \A i \in 1 .. Len(t) : t[i] = s[i + 1]
        /\ Head(s) \in S
    BY HeadTailProperties
  <1>2. Len(s) \in Nat /\ Len(s) # 0 /\ DOMAIN s = 1 .. Len(s)
    BY EmptySeq, LenProperties
  <1>3. Head(s) = s[1]
    OBVIOUS
  <1> HIDE DEF t
  <1>4. DOMAIN t = 1 .. Len(s) - 1
    BY <1>1, LenProperties
  <1>5. ToSet(t) \subseteq ToSet(s)
    BY <1>1, <1>2, <1>4 DEF ToSet
  <1>6. 1 \in DOMAIN s
    BY <1>2
  <1>7. Head(s) \in ToSet(s)
    BY <1>3, <1>6 DEF ToSet
  <1> QED
    BY <1>1, <1>5, <1>7 DEF t

LEMMA ToSetAppended ==
  ASSUME NEW S, NEW s \in Seq(S), NEW e \in S
  PROVE  ToSet(Append(s, e)) \subseteq ToSet(s) \cup {e}
  <1>1. /\ Append(s, e) \in Seq(S) /\ Len(Append(s, e)) = Len(s) + 1
        /\ \A i \in 1 .. Len(s) : Append(s, e)[i] = s[i]
        /\ Append(s, e)[Len(s) + 1] = e
    BY AppendProperties
  <1>2. DOMAIN s = 1 .. Len(s) /\ DOMAIN Append(s, e) = 1 .. Len(s) + 1 /\ Len(s) \in Nat
    BY <1>1
  <1> QED
    BY <1>1, <1>2 DEF ToSet

\* The two ways in which the table of delayed callbacks changes: some go, and the
\* next id comes.
IdsStep ==
    \/ workers'.delayed \subseteq workers.delayed /\ workers'.next = workers.next
    \/ /\ workers'.delayed = workers.delayed \cup {workers.next}
       /\ workers'.next = workers.next + 1

LEMMA PoppedNext ==
  ASSUME LuaTypeOK, Popped, IdsStep,
         timer'.due = 0 \/ timer'.due = timer.due \/ Given(timer.due)',
         \A c \in ToSet(inbox') \cup {worker'.cmd} :
             \/ c \in ToSet(inbox) \cup {worker.cmd}
             \/ c.kind # "delayed"
             \/ timer.due # 0 /\ c.id = timer.due
  PROVE  Popped'
  <1>0. workers.next >= 1
    BY LuaTypes DEF Tables
  <1>1. workers.next \in Nat /\ workers.delayed \subseteq 1 .. workers.next - 1
    BY LuaTypes DEF Tables, Popped
  <1>2. ASSUME NEW i, Given(i) PROVE Given(i)'
    BY <1>1, <1>2 DEF Given, IdsStep
  <1>3. workers'.delayed \subseteq 1 .. workers'.next - 1
    <2>1. CASE workers'.delayed \subseteq workers.delayed /\ workers'.next = workers.next
      BY <1>1, <2>1
    <2>2. CASE /\ workers'.delayed = workers.delayed \cup {workers.next}
               /\ workers'.next = workers.next + 1
      <3>1. workers.next \in 1 .. workers'.next - 1 /\ workers'.next - 1 = workers.next
        BY <1>0, <1>1, <2>2
      <3>2. 1 .. workers.next - 1 \subseteq 1 .. workers'.next - 1
        BY <1>1, <3>1
      <3> QED
        BY <1>1, <2>2, <3>1, <3>2
    <2> QED
      BY <2>1, <2>2 DEF IdsStep
  <1>4. timer'.due # 0 => Given(timer.due)'
    BY <1>2 DEF Popped
  <1>5. ASSUME NEW c \in ToSet(inbox') \cup {worker'.cmd}, c.kind = "delayed"
        PROVE  Given(c.id)'
    <2>1. Given(c.id)
      BY <1>5 DEF Popped
    <2> QED
      BY <1>2, <2>1
  <1> QED
    BY <1>3, <1>4, <1>5 DEF Popped

LEMMA LuaInitInv == LuaInit => LuaInv
  <1> SUFFICES ASSUME LuaInit PROVE LuaInv
    OBVIOUS
  <1>0. 1 \in 1 .. MaxDelayed + 1 /\ MaxVms \in Nat /\ 0 \in 0 .. MaxDelayed
    BY LuaAssumption
  <1>1. FALSE \in BOOLEAN
    OBVIOUS
  <1>2. << >> \in Seq(Command) /\ << >> \in Seq(Vms) /\ ToSet(<< >>) = {}
    <2>1. DOMAIN << >> = {}
      OBVIOUS
    <2> QED
      BY <2>1, EmptySeq DEF ToSet
  <1>3. workers \in Tables /\ workers.delayed = {} /\ workers.next = 1
    <2>1. [i \in Ids |-> NoVm] \in [Ids -> {NoVm} \cup Vms]
      OBVIOUS
    <2> QED
      BY <1>0, <1>2, <2>1 DEF LuaInit, NoWorkers, Tables
  <1>4. /\ worker \in [at : {"off"}, cmd : [kind : {"shutdown"}], runs : {NoVm}]
        /\ worker.cmd.kind = "shutdown"
    BY DEF LuaInit
  <1>5. worker \in Worker
    BY <1>4 DEF Worker, WorkerSteps, Command
  <1>6. timer \in [alive : BOOLEAN, due : {0}] /\ timer.due = 0
    BY <1>1 DEF LuaInit
  <1>7. /\ game \in [at : {"engine"}, pending : Seq(Vms), runs : {NoVm}]
        /\ shutdown \in BOOLEAN /\ keys \in BOOLEAN /\ active \in BOOLEAN
    BY <1>1, <1>2 DEF LuaInit
  <1>8. LuaTypeOK
    BY <1>0, <1>2, <1>3, <1>5, <1>6, <1>7
       DEF LuaInit, LuaTypeOK, Tables, Worker, WorkerSteps, NoVm
  <1>9. Locking /\ Running /\ BuiltFirst /\ Newest
    BY <1>4, <1>7 DEF LuaInit, Locking, Running, BuiltFirst, Newest, NoVm
  <1>10. Popped
    <2>1. inbox = << >>
      BY DEF LuaInit
    <2> QED
      BY <1>2, <1>3, <1>4, <1>6, <2>1 DEF Popped
  <1> QED
    BY <1>8, <1>9, <1>10 DEF LuaInv

LEMMA Sent ==
  ASSUME LuaTypeOK, NEW c \in Command, Send(c)
  PROVE  inbox' \in Seq(Command) /\ ToSet(inbox') \subseteq ToSet(inbox) \cup {c}
  BY LuaTypes, AppendProperties, ToSetAppended DEF Send

\* The order to shut down goes into the channel as any other command.
LEMMA TornDown ==
  ASSUME LuaTypeOK, Teardown
  PROVE  /\ inbox' \in Seq(Command) /\ shutdown' \in BOOLEAN
         /\ \A c \in ToSet(inbox') : c \in ToSet(inbox) \/ c.kind # "delayed"
  <1> DEFINE c == [kind |-> "shutdown"]
  <1>1. c \in Command /\ c.kind # "delayed"
    BY DEF Command
  <1>2. Send(c) /\ shutdown' = TRUE
    BY DEF Teardown
  <1> HIDE DEF c
  <1>3. inbox' \in Seq(Command) /\ ToSet(inbox') \subseteq ToSet(inbox) \cup {c}
    BY <1>1, <1>2, Sent
  <1>4. TRUE \in BOOLEAN
    OBVIOUS
  <1>5. shutdown' \in BOOLEAN
    BY <1>2, <1>4
  <1> QED
    BY <1>1, <1>3, <1>5

LEMMA GoneTo ==
  ASSUME LuaTypeOK, NEW step \in WorkerSteps, Goto(step)
  PROVE  worker' \in Worker /\ worker'.at = step /\ worker'.runs = NoVm /\ worker'.cmd = worker.cmd
  <1>1. worker \in Worker
    BY LuaTypes
  <1>2. worker' \in [at : {step}, cmd : {worker.cmd}, runs : {NoVm}]
    BY <1>1 DEF Goto, Worker
  <1> QED
    BY <1>1, <1>2 DEF Worker

LEMMA ClearedKeeps ==
  ASSUME NEW w \in Tables
  PROVE  Cleared(w) \in Tables /\ Cleared(w).delayed = {} /\ Cleared(w).next = w.next
  <1>1. [i \in Ids |-> NoVm] \in [Ids -> {NoVm} \cup Vms]
    OBVIOUS
  <1>2. << >> \in Seq(Vms)
    BY EmptySeq
  <1>3. NoWorkers \in [delayed : {{}}, callbacks : [Ids -> {NoVm} \cup Vms], keybind : {NoVm},
                       gameThread : {<< >>}, next : {1}]
    BY <1>1 DEF NoWorkers
  <1>4. Cleared(w) \in [delayed : {{}}, callbacks : [Ids -> {NoVm} \cup Vms], keybind : {NoVm},
                        gameThread : {<< >>}, next : {w.next}]
    BY <1>3 DEF Cleared
  <1> QED
    BY <1>2, <1>4 DEF Tables

\* What a script registers: at most one more id, the next one.
LEMMA RegistrationsKeep ==
  ASSUME LuaTypeOK, NEW v \in Vms, workers' \in Registrations(workers, v)
  PROVE  workers' \in Tables /\ IdsStep
  <1>0. workers \in Tables /\ MaxDelayed \in Nat
    BY LuaTypes
  <1>1. CASE workers' = [workers EXCEPT !.keybind = v]
    <2>1. workers' \in [delayed : {workers.delayed}, callbacks : {workers.callbacks},
                        keybind : {v}, gameThread : {workers.gameThread}, next : {workers.next}]
      BY <1>0, <1>1 DEF Tables
    <2> QED
      BY <1>0, <2>1 DEF Tables, IdsStep
  <1>2. CASE workers' = [workers EXCEPT !.gameThread = Append(@, v)]
    <2> DEFINE queue == Append(workers.gameThread, v)
    <2>1. queue \in Seq(Vms)
      BY <1>0, AppendProperties DEF Tables
    <2>2. workers' \in [delayed : {workers.delayed}, callbacks : {workers.callbacks},
                        keybind : {workers.keybind}, gameThread : {queue}, next : {workers.next}]
      BY <1>0, <1>2 DEF Tables
    <2> HIDE DEF queue
    <2> QED
      BY <1>0, <2>1, <2>2 DEF Tables, IdsStep
  <1>3. CASE \E i \in {workers.next} \cap Ids :
               workers' = [workers EXCEPT !.next = i + 1, !.callbacks[i] = v,
                                          !.delayed = @ \cup {i}]
    <2>1. PICK i \in {workers.next} \cap Ids :
              workers' = [workers EXCEPT !.next = i + 1, !.callbacks[i] = v,
                                         !.delayed = @ \cup {i}]
      BY <1>3
    <2> DEFINE table == [workers.callbacks EXCEPT ![i] = v]
    <2>2. table \in [Ids -> {NoVm} \cup Vms]
      BY <1>0 DEF Tables
    <2>3. workers' \in [delayed : {workers.delayed \cup {i}}, callbacks : {table},
                        keybind : {workers.keybind}, gameThread : {workers.gameThread},
                        next : {i + 1}]
      BY <1>0, <2>1 DEF Tables
    <2> HIDE DEF table
    <2>4. i + 1 \in 1 .. MaxDelayed + 1 /\ i \in Ids /\ i = workers.next
      BY <1>0, <2>1 DEF Ids
    <2> QED
      BY <1>0, <2>2, <2>3, <2>4 DEF Tables, IdsStep
  <1> QED
    BY <1>1, <1>2, <1>3 DEF Registrations

\* What a step has to show beside the types.
LEMMA StepInv ==
  ASSUME lua' \in 0 .. MaxVms, built' \in 0 .. MaxVms, quiet' \in 0 .. MaxVms,
         lock' \in {"free", "worker", "game"}, script' \in {"Idle", "Running", "Stopped"},
         inbox' \in Seq(Command), workers' \in Tables, worker' \in Worker,
         timer' \in [alive : BOOLEAN, due : 0 .. MaxDelayed], game' \in GameThread,
         conn' \in {"new", "idle", "asked", "join", "gone"},
         shutdown' \in BOOLEAN, keys' \in BOOLEAN, active' \in BOOLEAN,
         Locking', Running', BuiltFirst', Newest', Popped'
  PROVE  LuaInv'
  <1>1. MaxVms \in Nat /\ MaxDelayed \in Nat
    BY LuaAssumption
  <1>2. {NoVm} \cup Vms = 0 .. MaxVms /\ {0} \cup Ids = 0 .. MaxDelayed
    BY <1>1 DEF NoVm, Vms, Ids
  <1>3. LuaTypeOK'
    BY <1>2 DEF LuaTypeOK, Tables, Worker, WorkerSteps, GameThread, GameSteps
  <1> QED
    BY <1>3 DEF LuaInv

\* The pipe worker, the timer and the key poll leave the VM and its lock alone.
LEMMA OthersKeepLua ==
  ASSUME LuaInv,
         \/ Ensure \/ ClientLeaves \/ Joined \/ \E kind \in {"run", "stop"} : Ask(kind)
         \/ TimerPops \/ TimerSends \/ TimerStops \/ KeyPress \/ KeysStop
  PROVE  LuaInv'
  <1>0. /\ LuaTypeOK /\ Locking /\ Running /\ BuiltFirst /\ Newest /\ Popped
        /\ MaxVms \in Nat /\ MaxDelayed \in Nat
        /\ lua \in 0 .. MaxVms /\ built \in 0 .. MaxVms /\ quiet \in 0 .. MaxVms
        /\ lock \in {"free", "worker", "game"} /\ script \in {"Idle", "Running", "Stopped"}
        /\ inbox \in Seq(Command) /\ workers \in Tables /\ worker \in Worker
        /\ timer \in [alive : BOOLEAN, due : 0 .. MaxDelayed] /\ game \in GameThread
        /\ conn \in {"new", "idle", "asked", "join", "gone"}
        /\ shutdown \in BOOLEAN /\ keys \in BOOLEAN /\ active \in BOOLEAN
    BY LuaTypes DEF LuaInv, LuaTypeOK
  <1>a. FALSE \in BOOLEAN /\ TRUE \in BOOLEAN
    OBVIOUS
  \* Only the channel, the tables and the threads' own states change.
  <1>1. ASSUME UNCHANGED <<lua, lock, built, script, worker, game, quiet>>,
               inbox' \in Seq(Command), workers' \in Tables,
               timer' \in [alive : BOOLEAN, due : 0 .. MaxDelayed],
               conn' \in {"new", "idle", "asked", "join", "gone"}, conn' = "new" => conn = "new",
               shutdown' \in BOOLEAN, keys' \in BOOLEAN, active' \in BOOLEAN, Popped'
        PROVE  LuaInv'
    <2>1. Locking' /\ Running' /\ BuiltFirst' /\ Newest'
      BY <1>0, <1>1 DEF Locking, Running, BuiltFirst, Newest
    <2> QED
      BY <1>0, <1>1, <2>1, StepInv
  <1>2. CASE Ensure
    <2>1. /\ conn' = "idle" /\ active' = TRUE /\ keys' = TRUE
          /\ worker' = [worker EXCEPT !.at = "start"]
          /\ timer' = [timer EXCEPT !.alive = TRUE]
          /\ UNCHANGED <<lua, lock, built, script, inbox, workers, shutdown, game, quiet>>
      BY <1>2 DEF Ensure
    <2>2. worker' \in [at : {"start"}, cmd : {worker.cmd}, runs : {worker.runs}]
      BY <1>0, <2>1 DEF Worker
    <2>3. timer' \in [alive : {TRUE}, due : {timer.due}]
      BY <1>0, <2>1
    <2>4. worker' \in Worker /\ worker'.at = "start" /\ worker'.cmd = worker.cmd
      BY <1>0, <2>2 DEF Worker, WorkerSteps
    <2>5. timer' \in [alive : BOOLEAN, due : 0 .. MaxDelayed] /\ timer'.due = timer.due
      BY <1>0, <1>a, <2>3
    <2>6. worker.at = "off" /\ worker'.runs = worker.runs
      BY <1>0, <1>2, <2>2 DEF Ensure, BuiltFirst
    <2>7. Locking' /\ Running' /\ BuiltFirst' /\ Newest'
      <3>1. Locking'
        BY <1>0, <2>1, <2>4, <2>6 DEF Locking
      <3>2. Running'
        BY <1>0, <2>1, <2>4, <2>6 DEF Running
      <3>3. BuiltFirst'
        BY <1>0, <2>1, <2>4, <2>6 DEF BuiltFirst
      <3>4. Newest'
        BY <1>0, <2>1, <2>6 DEF Newest
      <3> QED
        BY <3>1, <3>2, <3>3, <3>4
    <2>8. Popped'
      BY <1>0, <2>1, <2>4, <2>5, PoppedNext DEF IdsStep
    <2>9. active' \in BOOLEAN /\ keys' \in BOOLEAN
      BY <1>a, <2>1
    <2> QED
      BY <1>0, <2>1, <2>4, <2>5, <2>7, <2>8, <2>9, StepInv
  <1>3. ASSUME NEW kind \in {"run", "stop"}, Ask(kind) PROVE LuaInv'
    <2>1. [kind |-> kind] \in Command /\ [kind |-> kind].kind # "delayed"
      BY <1>3 DEF Command
    <2>2. /\ Send([kind |-> kind]) /\ conn = "idle" /\ conn' = "asked"
          /\ UNCHANGED <<lua, lock, built, script, workers, shutdown, worker, timer, keys,
                         game, active, quiet>>
      BY <1>3 DEF Ask
    <2>3. inbox' \in Seq(Command) /\ ToSet(inbox') \subseteq ToSet(inbox) \cup {[kind |-> kind]}
      BY <1>0, <2>1, <2>2, Sent
    <2>4. Popped'
      BY <1>0, <2>1, <2>2, <2>3, PoppedNext DEF IdsStep
    <2> QED
      BY <1>0, <1>1, <2>2, <2>3, <2>4
  <1>4. CASE ClientLeaves
    <2>1. /\ active' = FALSE /\ conn = "idle"
          /\ \/ conn' = "gone" /\ UNCHANGED <<inbox, shutdown>>
             \/ conn' = "join" /\ Teardown
          /\ UNCHANGED <<lua, lock, built, script, workers, worker, timer, keys, game, quiet>>
      BY <1>4 DEF ClientLeaves
    <2>2. inbox' \in Seq(Command) /\ shutdown' \in BOOLEAN /\ Popped'
      BY <1>0, <2>1, TornDown, PoppedNext DEF IdsStep
    <2>3. active' \in BOOLEAN
      BY <1>a, <2>1
    <2> QED
      BY <1>0, <1>1, <2>1, <2>2, <2>3
  <1>5. CASE Joined
    <2>1. /\ conn = "join" /\ conn' = "gone"
          /\ UNCHANGED <<lua, lock, built, script, inbox, workers, shutdown, worker, timer,
                         keys, game, active, quiet>>
      BY <1>5 DEF Joined
    <2>2. Popped'
      BY <1>0, <2>1, PoppedNext DEF IdsStep
    <2> QED
      BY <1>0, <1>1, <2>1, <2>2
  <1>6. CASE TimerPops
    <2>1. PICK i \in workers.delayed :
              /\ timer' = [timer EXCEPT !.due = i]
              /\ workers' = [workers EXCEPT !.delayed = @ \ {i}]
      BY <1>6 DEF TimerPops
    <2>2. /\ UNCHANGED <<inbox, keys, lua, lock, built, script, shutdown, worker, game, conn,
                         active, quiet>>
      BY <1>6 DEF TimerPops, PollOnly
    <2>3. workers' \in [delayed : {workers.delayed \ {i}}, callbacks : {workers.callbacks},
                        keybind : {workers.keybind}, gameThread : {workers.gameThread},
                        next : {workers.next}]
      BY <1>0, <2>1 DEF Tables
    <2>4. timer' \in [alive : {timer.alive}, due : {i}]
      BY <1>0, <2>1
    <2>5. workers' \in Tables
      BY <1>0, <2>3 DEF Tables
    <2>6. i \in 0 .. MaxDelayed /\ i \in 1 .. workers.next - 1
      BY <1>0, <2>1 DEF Tables, Ids, Popped
    <2>7. timer' \in [alive : BOOLEAN, due : 0 .. MaxDelayed]
      BY <1>0, <2>4, <2>6
    <2>8. Given(timer.due)'
      BY <2>3, <2>4, <2>6 DEF Given
    <2>9. IdsStep
      BY <2>3 DEF IdsStep
    <2>10. Popped'
      BY <1>0, <2>2, <2>8, <2>9, PoppedNext
    <2> QED
      BY <1>0, <1>1, <2>2, <2>5, <2>7, <2>10
  <1>7. CASE TimerSends /\ worker.at = "gone"
    <2>1. /\ timer' = [alive |-> FALSE, due |-> 0]
          /\ UNCHANGED <<inbox, workers, keys, lua, lock, built, script, shutdown, worker, game,
                         conn, active, quiet>>
      BY <1>7 DEF TimerSends, PollOnly
    <2>2. timer' \in [alive : BOOLEAN, due : 0 .. MaxDelayed] /\ timer'.due = 0
      BY <1>0, <1>a, <2>1
    <2>3. Popped'
      BY <1>0, <2>1, <2>2, PoppedNext DEF IdsStep
    <2> QED
      BY <1>0, <1>1, <2>1, <2>2, <2>3
  <1>8. CASE TimerSends /\ worker.at # "gone"
    <2> DEFINE c == [kind |-> "delayed", id |-> timer.due]
    <2>1. /\ timer.due # 0 /\ timer' = [timer EXCEPT !.due = 0] /\ Send(c)
          /\ UNCHANGED <<workers, keys, lua, lock, built, script, shutdown, worker, game,
                         conn, active, quiet>>
      BY <1>8 DEF TimerSends, PollOnly
    <2>2. c \in Command /\ c.id = timer.due
      BY <1>0, <2>1 DEF Command, Ids
    <2>3. timer' \in [alive : {timer.alive}, due : {0}]
      BY <1>0, <2>1
    <2>4. timer' \in [alive : BOOLEAN, due : 0 .. MaxDelayed] /\ timer'.due = 0
      BY <1>0, <2>3
    <2> HIDE DEF c
    <2>5. inbox' \in Seq(Command) /\ ToSet(inbox') \subseteq ToSet(inbox) \cup {c}
      BY <1>0, <2>1, <2>2, Sent
    <2>6. Popped'
      BY <1>0, <2>1, <2>2, <2>4, <2>5, PoppedNext DEF IdsStep
    <2> QED
      BY <1>0, <1>1, <2>1, <2>4, <2>5, <2>6
  <1>9. CASE TimerStops
    <2>1. /\ timer' = [timer EXCEPT !.alive = FALSE]
          /\ UNCHANGED <<inbox, workers, keys, lua, lock, built, script, shutdown, worker, game,
                         conn, active, quiet>>
      BY <1>9 DEF TimerStops, PollOnly
    <2>2. timer' \in [alive : {FALSE}, due : {timer.due}]
      BY <1>0, <2>1
    <2>3. timer' \in [alive : BOOLEAN, due : 0 .. MaxDelayed] /\ timer'.due = timer.due
      BY <1>0, <1>a, <2>2
    <2>4. Popped'
      BY <1>0, <2>1, <2>3, PoppedNext DEF IdsStep
    <2> QED
      BY <1>0, <1>1, <2>1, <2>3, <2>4
  <1>10. CASE KeyPress
    <2> DEFINE c == [kind |-> "key"]
    <2>1. /\ Send(c)
          /\ UNCHANGED <<workers, timer, keys, lua, lock, built, script, shutdown, worker, game,
                         conn, active, quiet>>
      BY <1>10 DEF KeyPress, PollOnly
    <2>2. c \in Command /\ c.kind # "delayed"
      BY DEF Command
    <2> HIDE DEF c
    <2>3. inbox' \in Seq(Command) /\ ToSet(inbox') \subseteq ToSet(inbox) \cup {c}
      BY <1>0, <2>1, <2>2, Sent
    <2>4. Popped'
      BY <1>0, <2>1, <2>2, <2>3, PoppedNext DEF IdsStep
    <2> QED
      BY <1>0, <1>1, <2>1, <2>3, <2>4
  <1>11. CASE KeysStop
    <2>1. /\ keys' = FALSE
          /\ UNCHANGED <<inbox, workers, timer, lua, lock, built, script, shutdown, worker, game,
                         conn, active, quiet>>
      BY <1>11 DEF KeysStop, PollOnly
    <2>2. keys' \in BOOLEAN
      BY <1>a, <2>1
    <2>3. Popped'
      BY <1>0, <2>1, PoppedNext DEF IdsStep
    <2> QED
      BY <1>0, <1>1, <2>1, <2>2, <2>3
  <1> QED
    BY <1>2, <1>3, <1>4, <1>5, <1>6, <1>7, <1>8, <1>9, <1>10, <1>11

\* The Lua worker: it puts a VM into the slot, or runs the one that is there, only
\* while it holds the lock.
LEMMA WorkerKeepsLua ==
  ASSUME LuaInv, WorkerMoves \/ BodyRegisters \/ BodyCalls \/ \E ok \in BOOLEAN : BodyEnds(ok)
  PROVE  LuaInv'
  <1>0. /\ LuaTypeOK /\ Locking /\ Running /\ BuiltFirst /\ Newest /\ Popped
        /\ MaxVms \in Nat /\ MaxVms >= 1 /\ MaxDelayed \in Nat
        /\ lua \in 0 .. MaxVms /\ built \in 0 .. MaxVms /\ quiet \in 0 .. MaxVms
        /\ lock \in {"free", "worker", "game"} /\ script \in {"Idle", "Running", "Stopped"}
        /\ inbox \in Seq(Command) /\ workers \in Tables /\ worker \in Worker
        /\ timer \in [alive : BOOLEAN, due : 0 .. MaxDelayed] /\ game \in GameThread
        /\ conn \in {"new", "idle", "asked", "join", "gone"}
        /\ shutdown \in BOOLEAN /\ keys \in BOOLEAN /\ active \in BOOLEAN
    BY LuaTypes DEF LuaInv, LuaTypeOK
  <1>1. ASSUME lua' \in 0 .. MaxVms, built' \in 0 .. MaxVms, quiet' \in 0 .. MaxVms,
               lock' \in {"free", "worker", "game"}, script' \in {"Idle", "Running", "Stopped"},
               inbox' \in Seq(Command), workers' \in Tables, worker' \in Worker,
               conn' \in {"idle", conn}, WorkerOnly, IdsStep,
               \A c \in ToSet(inbox') \cup {worker'.cmd} : c \in ToSet(inbox) \cup {worker.cmd},
               Locking', Running', BuiltFirst', Newest'
        PROVE  LuaInv'
    <2>1. UNCHANGED <<shutdown, timer, keys, game, active>>
      BY <1>1 DEF WorkerOnly
    <2>2. Popped'
      BY <1>0, <1>1, <2>1, PoppedNext
    <2>3. conn' \in {"new", "idle", "asked", "join", "gone"}
      BY <1>0, <1>1
    <2> QED
      BY <1>0, <1>1, <2>1, <2>2, <2>3, StepInv
  \* The steps between the commands, which touch neither the VM nor its lock.
  <1>2. ASSUME UNCHANGED <<lua, lock, built, quiet>>, script' \in {"Idle", "Running", "Stopped"},
               inbox' \in Seq(Command), workers' \in Tables, worker' \in Worker,
               conn' \in {"idle", conn}, WorkerOnly, IdsStep,
               \A c \in ToSet(inbox') \cup {worker'.cmd} : c \in ToSet(inbox) \cup {worker.cmd},
               worker.at \notin {"off", "body", "call"}, worker'.runs = NoVm,
               worker'.at \in {"degraded", "recv", "build", "lock", "gone"}
        PROVE  LuaInv'
    <2>1. game' = game
      BY <1>2 DEF WorkerOnly
    <2>2. Locking' /\ Running'
      BY <1>0, <1>2, <2>1 DEF Locking, Running
    <2>3. BuiltFirst' /\ Newest'
      BY <1>0, <1>2, <2>1 DEF BuiltFirst, Newest, NoVm
    <2> QED
      BY <1>0, <1>1, <1>2, <2>2, <2>3
  <1>3. IdsStep \/ workers' # workers
    BY DEF IdsStep
  <1>4. CASE FirstBuild
    <2>1. /\ worker.at = "start" /\ lock = "free" /\ built = 0 /\ quiet = 0
          /\ UNCHANGED <<lock, inbox, workers, conn, quiet>> /\ WorkerOnly
      BY <1>0, <1>4 DEF FirstBuild, BuiltFirst, Newest
    <2>2. CASE lua' = built + 1 /\ built' = built + 1 /\ Goto("recv") /\ UNCHANGED script
      <3>1. /\ worker' \in Worker /\ worker'.at = "recv" /\ worker'.runs = NoVm
            /\ worker'.cmd = worker.cmd
        BY <1>0, <2>2, GoneTo DEF WorkerSteps
      <3>2. game' = game
        BY <2>1 DEF WorkerOnly
      <3>3. Locking' /\ Running'
        BY <1>0, <2>1, <3>1, <3>2 DEF Locking, Running
      <3>4. BuiltFirst' /\ Newest'
        BY <1>0, <2>1, <2>2, <3>1, <3>2 DEF BuiltFirst, Newest, NoVm
      <3> QED
        BY <1>0, <1>1, <1>3, <2>1, <2>2, <3>1, <3>3, <3>4
    <2>3. CASE script' = "Stopped" /\ Goto("degraded") /\ UNCHANGED <<lua, built>>
      <3>1. /\ worker' \in Worker /\ worker'.at = "degraded" /\ worker'.runs = NoVm
            /\ worker'.cmd = worker.cmd
        BY <1>0, <2>3, GoneTo DEF WorkerSteps
      <3> QED
        BY <1>0, <1>2, <1>3, <2>1, <2>3, <3>1
    <2> QED
      BY <1>4, <2>2, <2>3 DEF FirstBuild
  <1>5. CASE Refuse
    <2> DEFINE step == IF Head(inbox).kind = "shutdown" THEN "gone" ELSE "degraded"
    <2>1. /\ worker.at = "degraded" /\ inbox # << >> /\ inbox' = Tail(inbox) /\ Goto(step)
          /\ conn' \in {"idle", conn}
          /\ UNCHANGED <<lua, lock, built, script, workers, quiet>> /\ WorkerOnly
      BY <1>5 DEF Refuse
    <2>2. inbox' \in Seq(Command) /\ ToSet(inbox') \subseteq ToSet(inbox)
      BY <1>0, <2>1, HeadTailProperties, ToSetTail
    <2>3. step \in {"gone", "degraded"}
      OBVIOUS
    <2> HIDE DEF step
    <2>4. worker' \in Worker /\ worker'.at = step /\ worker'.runs = NoVm /\ worker'.cmd = worker.cmd
      BY <1>0, <2>1, <2>3, GoneTo DEF WorkerSteps
    <2> QED
      BY <1>0, <1>2, <1>3, <2>1, <2>2, <2>3, <2>4
  <1>6. CASE Receive
    <2> DEFINE c == Head(inbox)
               step == CASE c.kind = "shutdown" -> "gone"
                         [] c.kind \in {"run", "stop"} -> "build"
                         [] OTHER -> "lock"
    <2>1. /\ worker.at = "recv" /\ inbox # << >> /\ inbox' = Tail(inbox)
          /\ worker' = [worker EXCEPT !.cmd = c, !.at = step]
          /\ workers' = IF c.kind \in {"run", "stop"} THEN Cleared(workers) ELSE workers
          /\ UNCHANGED <<lua, lock, built, script, conn, quiet>> /\ WorkerOnly
      BY <1>6 DEF Receive
    <2>2. /\ inbox' \in Seq(Command) /\ ToSet(inbox') \subseteq ToSet(inbox)
          /\ c \in ToSet(inbox) /\ c \in Command
      BY <1>0, <2>1, HeadTailProperties, ToSetTail
    <2>3. step \in {"gone", "build", "lock"}
      <3>1. CASE c.kind = "shutdown"
        BY <3>1
      <3>2. CASE c.kind \in {"run", "stop"}
        BY <3>2
      <3>3. CASE c.kind \notin {"shutdown", "run", "stop"}
        BY <3>3
      <3> QED
        BY <3>1, <3>2, <3>3
    <2>4. workers' \in Tables /\ IdsStep
      <3>1. CASE workers' = workers
        BY <1>0, <1>3, <3>1
      <3>2. CASE workers' = Cleared(workers)
        BY <1>0, <3>2, ClearedKeeps DEF IdsStep
      <3> QED
        BY <2>1, <3>1, <3>2
    <2> HIDE DEF c, step
    <2>5. worker' \in [at : {step}, cmd : {c}, runs : {worker.runs}]
      BY <1>0, <2>1 DEF Worker
    <2>6. worker' \in Worker
      BY <1>0, <2>2, <2>3, <2>5 DEF Worker, WorkerSteps
    <2>7. worker'.runs = NoVm
      BY <1>0, <2>1, <2>5 DEF Running
    <2> QED
      BY <1>0, <1>2, <2>1, <2>2, <2>3, <2>4, <2>5, <2>6, <2>7
  <1>7. CASE Build
    <2>1. /\ worker.at = "build" /\ built < MaxVms /\ built' = built + 1 /\ Goto("swap")
          /\ script' \in {script, "Running"}
          /\ UNCHANGED <<lua, lock, inbox, workers, conn, quiet>> /\ WorkerOnly
      BY <1>7 DEF Build
    <2>2. worker' \in Worker /\ worker'.at = "swap" /\ worker'.runs = NoVm /\ worker'.cmd = worker.cmd
      BY <1>0, <2>1, GoneTo DEF WorkerSteps
    <2>3. game' = game
      BY <2>1 DEF WorkerOnly
    <2>4. Locking' /\ Running'
      BY <1>0, <2>1, <2>2, <2>3 DEF Locking, Running
    <2>5. BuiltFirst' /\ Newest'
      BY <1>0, <2>1, <2>2, <2>3 DEF BuiltFirst, Newest, NoVm
    <2> QED
      BY <1>0, <1>1, <1>3, <2>1, <2>2, <2>4, <2>5
  <1>8. CASE BuildFails
    <2>1. /\ worker.at = "build" /\ lock = "free" /\ script' = "Stopped" /\ lua' = NoVm
          /\ conn' = "idle" /\ Goto("recv")
          /\ UNCHANGED <<lock, built, inbox, workers, quiet>> /\ WorkerOnly
      BY <1>8 DEF BuildFails
    <2>2. worker' \in Worker /\ worker'.at = "recv" /\ worker'.runs = NoVm /\ worker'.cmd = worker.cmd
      BY <1>0, <2>1, GoneTo DEF WorkerSteps
    <2>3. game' = game
      BY <2>1 DEF WorkerOnly
    <2>4. Locking' /\ Running'
      BY <1>0, <2>1, <2>2, <2>3 DEF Locking, Running
    <2>5. BuiltFirst' /\ Newest'
      BY <1>0, <2>1, <2>2, <2>3 DEF BuiltFirst, Newest, NoVm
    <2>6. lua' \in 0 .. MaxVms
      BY <1>0, <2>1 DEF NoVm
    <2> QED
      BY <1>0, <1>1, <1>3, <2>1, <2>2, <2>4, <2>5, <2>6
  <1>9. CASE Swap
    <2>1. /\ worker.at = "swap" /\ lock = "free" /\ lua' = built /\ built # 0
          /\ UNCHANGED <<built, inbox, workers>> /\ WorkerOnly
      BY <1>0, <1>9 DEF Swap, Swapped, BuiltFirst
    <2>2. game' = game /\ game.runs = NoVm
      BY <1>0, <2>1 DEF WorkerOnly, Locking, Running
    <2>3. CASE worker.cmd.kind = "run"
      <3>1. /\ lock' = "worker" /\ worker' = [worker EXCEPT !.at = "body", !.runs = built]
            /\ UNCHANGED <<script, conn, quiet>>
        BY <1>9, <2>3 DEF Swap, Swapped
      <3>2. worker' \in [at : {"body"}, cmd : {worker.cmd}, runs : {built}]
        BY <1>0, <3>1 DEF Worker
      <3>3. built \in Vms
        BY <1>0, <2>1 DEF Vms
      <3>4. worker' \in Worker
        BY <1>0, <3>2, <3>3 DEF Worker, WorkerSteps
      <3>5. Locking' /\ Running'
        BY <1>0, <2>1, <2>2, <3>1, <3>2, <3>3 DEF Locking, Running
      <3>6. BuiltFirst' /\ Newest'
        BY <1>0, <2>1, <2>2, <3>1, <3>2 DEF BuiltFirst, Newest, NoVm
      <3> QED
        BY <1>0, <1>1, <1>3, <2>1, <3>1, <3>2, <3>4, <3>5, <3>6
    <2>4. CASE worker.cmd.kind # "run"
      <3> DEFINE step == IF shutdown THEN "gone" ELSE "recv"
      <3>1. /\ script' = "Idle" /\ conn' = "idle" /\ quiet' = built - 1 /\ Goto(step)
            /\ UNCHANGED lock
        BY <1>9, <2>4 DEF Swap, Swapped, NextCommand
      <3>2. step \in {"gone", "recv"}
        OBVIOUS
      <3> HIDE DEF step
      <3>3. worker' \in Worker /\ worker'.at = step /\ worker'.runs = NoVm /\ worker'.cmd = worker.cmd
        BY <1>0, <3>1, <3>2, GoneTo DEF WorkerSteps
      <3>4. Locking' /\ Running'
        BY <1>0, <2>1, <2>2, <3>1, <3>2, <3>3 DEF Locking, Running
      <3>5. BuiltFirst' /\ Newest'
        BY <1>0, <2>1, <2>2, <3>1, <3>2, <3>3 DEF BuiltFirst, Newest, NoVm
      <3>6. quiet' \in 0 .. MaxVms
        BY <1>0, <2>1, <3>1
      <3> QED
        BY <1>0, <1>1, <1>3, <2>1, <3>1, <3>3, <3>4, <3>5, <3>6
    <2> QED
      BY <2>3, <2>4
  <1>10. CASE Dispatch
    <2> DEFINE c == worker.cmd
               key == IF c.kind = "delayed" THEN workers.callbacks[c.id] ELSE workers.keybind
               nothing == lua = NoVm \/ (c.kind = "key" /\ key = NoVm)
               step == IF shutdown THEN "gone" ELSE "recv"
    <2>1. /\ worker.at = "lock" /\ lock = "free"
          /\ workers' = IF c.kind = "delayed" /\ lua # NoVm
                        THEN [workers EXCEPT !.callbacks[c.id] = NoVm] ELSE workers
          /\ UNCHANGED <<lua, built, inbox, conn, quiet>> /\ WorkerOnly
      BY <1>10 DEF Dispatch
    <2>2. workers' \in Tables /\ IdsStep
      <3>1. CASE workers' = workers
        BY <1>0, <1>3, <3>1
      <3>2. CASE workers' = [workers EXCEPT !.callbacks[c.id] = NoVm]
        <4> DEFINE table == [workers.callbacks EXCEPT ![c.id] = NoVm]
        <4>1. table \in [Ids -> {NoVm} \cup Vms]
          BY <1>0 DEF Tables
        <4>2. workers' \in [delayed : {workers.delayed}, callbacks : {table},
                            keybind : {workers.keybind}, gameThread : {workers.gameThread},
                            next : {workers.next}]
          BY <1>0, <3>2 DEF Tables
        <4> HIDE DEF table
        <4> QED
          BY <1>0, <4>1, <4>2 DEF Tables, IdsStep
      <3> QED
        BY <2>1, <3>1, <3>2
    <2>3. step \in {"gone", "recv"}
      OBVIOUS
    \* The command ends without running anything.
    <2>4. ASSUME Goto(step), UNCHANGED lock, script' \in {"Idle", "Running", "Stopped"}
          PROVE  LuaInv'
      <3> HIDE DEF step
      <3>1. worker' \in Worker /\ worker'.at = step /\ worker'.runs = NoVm /\ worker'.cmd = worker.cmd
        BY <1>0, <2>3, <2>4, GoneTo DEF WorkerSteps
      <3> QED
        BY <1>0, <1>2, <2>1, <2>2, <2>3, <2>4, <3>1
    <2>5. CASE nothing
      <3>1. Goto(step) /\ UNCHANGED <<lock, script>>
        BY <1>10, <2>5 DEF Dispatch, NextCommand
      <3> QED
        BY <1>0, <2>4, <3>1
    <2>6. CASE ~nothing /\ key # lua
      <3>1. script' = "Stopped" /\ Goto(step) /\ UNCHANGED lock
        BY <1>10, <2>6 DEF Dispatch, NextCommand
      <3> QED
        BY <2>4, <3>1
    <2>7. CASE ~nothing /\ key = lua
      <3>1. /\ lock' = "worker" /\ UNCHANGED script
            /\ worker' = [worker EXCEPT !.at = "body", !.runs = lua]
        BY <1>10, <2>7 DEF Dispatch
      <3>2. worker' \in [at : {"body"}, cmd : {worker.cmd}, runs : {lua}]
        BY <1>0, <3>1 DEF Worker
      <3>3. lua \in Vms
        BY <1>0, <2>7 DEF Vms, NoVm
      <3>4. worker' \in Worker
        BY <1>0, <3>2, <3>3 DEF Worker, WorkerSteps
      <3>5. game' = game
        BY <2>1 DEF WorkerOnly
      <3>6. Locking' /\ Running'
        BY <1>0, <2>1, <3>1, <3>2, <3>3, <3>5 DEF Locking, Running
      <3>7. BuiltFirst' /\ Newest'
        BY <1>0, <2>1, <3>2, <3>5 DEF BuiltFirst, Newest
      <3> QED
        BY <1>0, <1>1, <2>1, <2>2, <3>1, <3>2, <3>4, <3>6, <3>7
    <2> HIDE DEF nothing, key, step
    <2> QED
      BY <2>5, <2>6, <2>7
  \* The steps of a script between its beginning and its end.
  <1>11. ASSUME NEW step \in {"body", "call"}, worker.at \in {"body", "call"},
                worker' \in [at : {step}, cmd : {worker.cmd}, runs : {worker.runs}],
                workers' \in Tables, IdsStep,
                UNCHANGED <<lua, lock, built, script, inbox, conn, quiet>>, WorkerOnly
         PROVE  LuaInv'
    <2>1. worker' \in Worker
      BY <1>0, <1>11 DEF Worker, WorkerSteps
    <2>2. game' = game
      BY <1>11 DEF WorkerOnly
    <2>3. Locking' /\ Running'
      BY <1>0, <1>11, <2>2 DEF Locking, Running
    <2>4. BuiltFirst' /\ Newest'
      BY <1>0, <1>11, <2>2 DEF BuiltFirst, Newest
    <2> QED
      BY <1>0, <1>1, <1>11, <2>1, <2>3, <2>4
  <1>12. CASE BodyRegisters
    <2>1. /\ worker.at = "body" /\ workers' \in Registrations(workers, worker.runs)
          /\ UNCHANGED <<lua, lock, built, script, inbox, worker, conn, quiet>> /\ WorkerOnly
      BY <1>12 DEF BodyRegisters
    <2>2. workers' \in Tables /\ IdsStep
      BY <1>0, <2>1, RegistrationsKeep DEF Running
    <2>3. worker' \in [at : {"body"}, cmd : {worker.cmd}, runs : {worker.runs}]
      BY <1>0, <2>1 DEF Worker
    <2> QED
      BY <1>11, <2>1, <2>2, <2>3
  <1>13. CASE BodyCalls
    <2>1. worker' \in [at : {"call"}, cmd : {worker.cmd}, runs : {worker.runs}]
      BY <1>0, <1>13 DEF BodyCalls, Worker
    <2> QED
      BY <1>0, <1>3, <1>11, <1>13, <2>1 DEF BodyCalls
  <1>14. CASE BodyReturns
    <2>1. worker' \in [at : {"body"}, cmd : {worker.cmd}, runs : {worker.runs}]
      BY <1>0, <1>14 DEF BodyReturns, Worker
    <2> QED
      BY <1>0, <1>3, <1>11, <1>14, <2>1 DEF BodyReturns
  <1>15. ASSUME NEW ok \in BOOLEAN, BodyEnds(ok) PROVE LuaInv'
    <2> DEFINE step == IF shutdown THEN "gone" ELSE "recv"
    <2>1. /\ worker.at = "body" /\ lock' = "free" /\ Goto(step)
          /\ script' \in {script, "Stopped"} /\ conn' \in {"idle", conn}
          /\ workers' = workers \/ workers' = Cleared(workers)
          /\ UNCHANGED <<lua, built, inbox, quiet>> /\ WorkerOnly
      BY <1>15 DEF BodyEnds, NextCommand
    <2>2. step \in {"gone", "recv"}
      OBVIOUS
    <2> HIDE DEF step
    <2>3. worker' \in Worker /\ worker'.at = step /\ worker'.runs = NoVm /\ worker'.cmd = worker.cmd
      BY <1>0, <2>1, <2>2, GoneTo DEF WorkerSteps
    <2>4. workers' \in Tables /\ IdsStep
      BY <1>0, <2>1, ClearedKeeps DEF IdsStep
    <2>5. game' = game
      BY <2>1 DEF WorkerOnly
    <2>6. Locking' /\ Running'
      BY <1>0, <2>1, <2>2, <2>3, <2>5 DEF Locking, Running
    <2>7. BuiltFirst' /\ Newest'
      BY <1>0, <2>1, <2>2, <2>3, <2>5 DEF BuiltFirst, Newest, NoVm
    <2> QED
      BY <1>0, <1>1, <2>1, <2>3, <2>4, <2>6, <2>7
  <1> QED
    BY <1>4, <1>5, <1>6, <1>7, <1>8, <1>9, <1>10, <1>12, <1>13, <1>14, <1>15
       DEF WorkerMoves, CommandMoves

\* The game's thread: it drains under the lock, and runs only closures of the VM in
\* the slot.
LEMMA GameKeepsLua ==
  ASSUME LuaInv, Tick \/ GameMoves \/ ClosureRegisters \/ ClosureCalls \/ ClosureEnds
  PROVE  LuaInv'
  <1>0. /\ LuaTypeOK /\ Locking /\ Running /\ BuiltFirst /\ Newest /\ Popped
        /\ MaxVms \in Nat /\ MaxVms >= 1 /\ MaxDelayed \in Nat
        /\ lua \in 0 .. MaxVms /\ built \in 0 .. MaxVms /\ quiet \in 0 .. MaxVms
        /\ lock \in {"free", "worker", "game"} /\ script \in {"Idle", "Running", "Stopped"}
        /\ inbox \in Seq(Command) /\ workers \in Tables /\ worker \in Worker
        /\ timer \in [alive : BOOLEAN, due : 0 .. MaxDelayed] /\ game \in GameThread
        /\ conn \in {"new", "idle", "asked", "join", "gone"}
        /\ shutdown \in BOOLEAN /\ keys \in BOOLEAN /\ active \in BOOLEAN
    BY LuaTypes DEF LuaInv, LuaTypeOK
  \* What a step of the game's thread has to show: its own state and the lock.
  <1>1. ASSUME lock' \in {"free", "worker", "game"}, inbox' \in Seq(Command),
               workers' \in Tables, game' \in GameThread, shutdown' \in BOOLEAN,
               UNCHANGED lua, GameOnly, IdsStep,
               \A c \in ToSet(inbox') : c \in ToSet(inbox) \/ c.kind # "delayed",
               Locking', Running', game'.runs = NoVm \/ game'.runs > quiet
        PROVE  LuaInv'
    <2>1. UNCHANGED <<built, script, worker, timer, keys, conn, active, quiet>>
      BY <1>1 DEF GameOnly
    <2>2. Popped'
      BY <1>0, <1>1, <2>1, PoppedNext
    <2>3. BuiltFirst' /\ Newest'
      BY <1>0, <1>1, <2>1 DEF BuiltFirst, Newest
    <2> QED
      BY <1>0, <1>1, <2>1, <2>2, <2>3, StepInv
  <1>2. IdsStep \/ workers' # workers
    BY DEF IdsStep
  \* A step that only moves the thread on, and neither takes the lock nor lets go of it.
  <1>3. ASSUME NEW step \in GameSteps,
               game' \in [at : {step}, pending : {game.pending}, runs : {game.runs}],
               step \in {"drain", "body", "call"} <=> game.at \in {"drain", "body", "call"},
               step \in {"body", "call"} <=> game.at \in {"body", "call"},
               UNCHANGED <<lua, lock, workers>>, GameOnly,
               inbox' \in Seq(Command), shutdown' \in BOOLEAN,
               \A c \in ToSet(inbox') : c \in ToSet(inbox) \/ c.kind # "delayed"
        PROVE  LuaInv'
    <2>1. worker' = worker
      BY <1>3 DEF GameOnly
    <2>2. Locking' /\ Running'
      BY <1>0, <1>3, <2>1 DEF Locking, Running
    <2>3. game' \in GameThread /\ game'.runs = game.runs
      BY <1>0, <1>3 DEF GameThread
    <2> QED
      BY <1>0, <1>1, <1>2, <1>3, <2>2, <2>3 DEF Newest
  <1>4. CASE Tick
    <2>1. game' \in [at : {"clone"}, pending : {game.pending}, runs : {game.runs}]
      BY <1>0, <1>4 DEF Tick, GameThread
    <2> QED
      BY <1>0, <1>3, <1>4, <2>1 DEF Tick, GameSteps
  <1>5. CASE DrainBegins /\ lock = "free" /\ lua # NoVm
    <2>1. /\ game.at = "clone" /\ lock = "free" /\ lock' = "game"
          /\ game' = [game EXCEPT !.at = "drain", !.pending = workers.gameThread]
          /\ workers' = [workers EXCEPT !.gameThread = << >>]
          /\ UNCHANGED <<lua, inbox, shutdown>> /\ GameOnly
      BY <1>5 DEF DrainBegins, Drain
    <2>2. game' \in [at : {"drain"}, pending : {workers.gameThread}, runs : {game.runs}]
      BY <1>0, <2>1 DEF GameThread
    <2>3. workers' \in [delayed : {workers.delayed}, callbacks : {workers.callbacks},
                        keybind : {workers.keybind}, gameThread : {<< >>}, next : {workers.next}]
      BY <1>0, <2>1 DEF Tables
    <2>4. << >> \in Seq(Vms)
      BY EmptySeq
    <2>5. workers' \in Tables /\ IdsStep
      BY <1>0, <2>3, <2>4 DEF Tables, IdsStep
    <2>6. game' \in GameThread /\ game'.runs = game.runs
      BY <1>0, <2>2 DEF GameThread, GameSteps, Tables
    <2>7. worker' = worker
      BY <2>1 DEF GameOnly
    <2>8. Locking' /\ Running'
      BY <1>0, <2>1, <2>2, <2>7 DEF Locking, Running
    <2> QED
      BY <1>0, <1>1, <2>1, <2>5, <2>6, <2>8 DEF Newest
  <1>6. CASE DrainBegins /\ ~(lock = "free" /\ lua # NoVm)
    <2>1. /\ game.at = "clone" /\ game' = [game EXCEPT !.at = "put"]
          /\ UNCHANGED <<lock, workers, lua, inbox, shutdown>> /\ GameOnly
      BY <1>6 DEF DrainBegins
    <2>2. game' \in [at : {"put"}, pending : {game.pending}, runs : {game.runs}]
      BY <1>0, <2>1 DEF GameThread
    <2> QED
      BY <1>0, <1>3, <2>1, <2>2 DEF GameSteps
  <1>7. CASE DrainNext
    <2> DEFINE runs_ == Head(game.pending) = lua
               step == IF runs_ THEN "body" ELSE "drain"
               vm_ == IF runs_ THEN lua ELSE NoVm
               rest == Tail(game.pending)
    <2>1. /\ game.at = "drain" /\ game.pending # << >>
          /\ game' = [game EXCEPT !.pending = rest, !.at = step, !.runs = vm_]
          /\ UNCHANGED <<lua, lock, inbox, workers, shutdown>> /\ GameOnly
      BY <1>7 DEF DrainNext
    <2>2. Head(game.pending) \in Vms /\ rest \in Seq(Vms)
      BY <1>0, <2>1, HeadTailProperties DEF GameThread
    <2>3. \/ step = "body" /\ vm_ = lua /\ lua \in Vms
          \/ step = "drain" /\ vm_ = NoVm
      BY <2>2
    <2> HIDE DEF runs_, step, vm_, rest
    <2>4. game' \in [at : {step}, pending : {rest}, runs : {vm_}]
      BY <1>0, <2>1 DEF GameThread
    <2>5. game' \in GameThread
      BY <2>2, <2>3, <2>4 DEF GameThread, GameSteps
    <2>6. worker' = worker
      BY <2>1 DEF GameOnly
    <2>7. Locking' /\ Running'
      BY <1>0, <2>1, <2>3, <2>4, <2>6 DEF Locking, Running
    <2>8. game'.runs = NoVm \/ game'.runs > quiet
      BY <1>0, <2>3, <2>4 DEF Newest
    <2> QED
      BY <1>0, <1>1, <1>2, <2>1, <2>5, <2>7, <2>8
  <1>8. CASE ClosureRegisters
    <2>1. /\ game.at = "body" /\ workers' \in Registrations(workers, game.runs)
          /\ UNCHANGED <<lua, lock, inbox, game, shutdown>> /\ GameOnly
      BY <1>8 DEF ClosureRegisters
    <2>2. workers' \in Tables /\ IdsStep
      BY <1>0, <2>1, RegistrationsKeep DEF Running
    <2>3. worker' = worker
      BY <2>1 DEF GameOnly
    <2>4. Locking' /\ Running'
      BY <1>0, <2>1, <2>3 DEF Locking, Running
    <2> QED
      BY <1>0, <1>1, <2>1, <2>2, <2>4 DEF Newest
  <1>9. CASE ClosureCalls
    <2>1. game' \in [at : {"call"}, pending : {game.pending}, runs : {game.runs}]
      BY <1>0, <1>9 DEF ClosureCalls, GameThread
    <2> QED
      BY <1>0, <1>3, <1>9, <2>1 DEF ClosureCalls, GameSteps
  <1>10. CASE ClosureCallTimesOut
    <2>1. game' \in [at : {"body"}, pending : {game.pending}, runs : {game.runs}]
      BY <1>0, <1>10 DEF ClosureCallTimesOut, GameThread
    <2> QED
      BY <1>0, <1>3, <1>10, <2>1 DEF ClosureCallTimesOut, GameSteps
  <1>11. CASE ClosureEnds \/ DrainEnds
    <2> DEFINE step == IF game.at = "body" THEN "drain" ELSE "put"
    <2>1. game' \in [at : {step}, pending : {game.pending}, runs : {NoVm}]
      BY <1>0, <1>11 DEF ClosureEnds, DrainEnds, GameThread, Running
    <2>2. /\ UNCHANGED <<lua, inbox, workers, shutdown>> /\ GameOnly
          /\ \/ game.at = "body" /\ step = "drain" /\ lock' = lock
             \/ game.at = "drain" /\ step = "put" /\ lock' = "free"
      BY <1>11 DEF ClosureEnds, DrainEnds
    <2> HIDE DEF step
    <2>3. game' \in GameThread
      BY <1>0, <2>1, <2>2 DEF GameThread, GameSteps
    <2>4. worker' = worker
      BY <2>2 DEF GameOnly
    <2>5. Locking' /\ Running'
      BY <1>0, <2>1, <2>2, <2>4 DEF Locking, Running
    <2> QED
      BY <1>0, <1>1, <1>2, <2>1, <2>2, <2>3, <2>5
  <1>12. CASE PutBack
    <2>1. \/ /\ game' = [game EXCEPT !.at = "join"] /\ Teardown
          \/ /\ game' = [game EXCEPT !.at = "engine"] /\ UNCHANGED <<inbox, shutdown>>
      BY <1>12 DEF PutBack
    <2>2. game.at = "put" /\ UNCHANGED <<lua, lock, workers>> /\ GameOnly
      BY <1>12 DEF PutBack
    <2>3. /\ inbox' \in Seq(Command) /\ shutdown' \in BOOLEAN
          /\ \A c \in ToSet(inbox') : c \in ToSet(inbox) \/ c.kind # "delayed"
      BY <1>0, <2>1, TornDown
    <2>4. \/ game' \in [at : {"join"}, pending : {game.pending}, runs : {game.runs}]
          \/ game' \in [at : {"engine"}, pending : {game.pending}, runs : {game.runs}]
      BY <1>0, <2>1 DEF GameThread
    <2> QED
      BY <1>0, <1>3, <2>2, <2>3, <2>4 DEF GameSteps
  <1>13. CASE GameJoined
    <2>1. game' \in [at : {"engine"}, pending : {game.pending}, runs : {game.runs}]
      BY <1>0, <1>13 DEF GameJoined, GameThread
    <2> QED
      BY <1>0, <1>3, <1>13, <2>1 DEF GameJoined, GameSteps
  <1> QED
    BY <1>4, <1>5, <1>6, <1>7, <1>8, <1>9, <1>10, <1>11, <1>12, <1>13 DEF GameMoves

LEMMA LuaNextInv == LuaInv /\ [LuaNext]_luaVars => LuaInv'
  <1> SUFFICES ASSUME LuaInv, [LuaNext]_luaVars PROVE LuaInv'
    OBVIOUS
  <1>1. CASE UNCHANGED luaVars
    <2>1. LuaTypeOK'
      BY <1>1 DEF luaVars, LuaInv, LuaTypeOK
    <2>2. Locking' /\ Running' /\ BuiltFirst' /\ Newest'
      BY <1>1 DEF luaVars, LuaInv, Locking, Running, BuiltFirst, Newest
    <2>3. Popped'
      BY <1>1 DEF luaVars, LuaInv, Popped, Given
    <2> QED
      BY <2>1, <2>2, <2>3 DEF LuaInv
  <1> QED
    BY <1>1, OthersKeepLua, WorkerKeepsLua, GameKeepsLua DEF LuaNext

\* After a stop no code of an older script runs, on any thread, and no dispatch that
\* is left over runs a callback ahead of its deadline, however many scripts there are.
THEOREM NothingLeftCorrect == LuaSpec => []NothingLeftOver
  <1>1. LuaInv => Silenced
    <2> SUFFICES ASSUME LuaInv PROVE Silenced
      OBVIOUS
    <2>1. /\ quiet \in Nat
          /\ worker.runs = NoVm \/ worker.runs > quiet
          /\ game.runs = NoVm \/ game.runs > quiet
      BY LuaTypes DEF LuaInv, Newest
    <2> QED
      BY <2>1 DEF Silenced, NoVm
  <1>2. LuaInv => NotEarly
    BY DEF LuaInv, Popped, Given, NotEarly
  <1>3. LuaInv => NothingLeftOver
    BY <1>1, <1>2 DEF NothingLeftOver
  <1> QED
    BY <1>3, LuaInitInv, LuaNextInv, PTL DEF LuaSpec

\* Every variable of the runtime keeps its type.
THEOREM LuaTypeCorrect == LuaSpec => []LuaTypeOK
  <1>1. LuaInv => LuaTypeOK
    BY DEF LuaInv
  <1> QED
    BY <1>1, LuaInitInv, LuaNextInv, PTL DEF LuaSpec

-----------------------------------------------------------------------------
(* Who of the runtime's threads waits for whom.                             *)

\* A request is in the channel, or the order to shut down.
Demands == {"run", "stop"}
Demanded == \E i \in 1 .. Len(inbox) : inbox[i].kind \in Demands
ToldToGo == \E i \in 1 .. Len(inbox) : inbox[i].kind = "shutdown"

OneDemand ==
    \A i, j \in 1 .. Len(inbox) :
        inbox[i].kind \in Demands /\ inbox[j].kind \in Demands => i = j

\* The worker is busy with a request.
AtDemand ==
    \/ worker.at \in {"build", "swap"}
    \/ worker.at \in {"body", "call"} /\ worker.cmd.kind = "run"

\* Whoever waits for an acknowledgement is owed it, by the worker or by what is in the
\* channel, and by one thing only.
OwedAnswer ==
    /\ OneDemand
    /\ AtDemand => ~Demanded
    /\ conn = "asked" <=> AtDemand \/ Demanded
    /\ worker.at \in {"build", "swap"} => worker.cmd.kind \in Demands
    /\ worker.at = "lock" => worker.cmd.kind \notin Demands
    /\ worker.at = "off" => conn = "new"

\* Whoever joins the threads has told them to end.
ToldToEnd ==
    /\ shutdown => conn \in {"join", "gone"}
    /\ ToldToGo \/ worker.at = "gone" => shutdown
    /\ conn = "join" \/ game.at = "join" => worker.at = "gone" \/ ToldToGo

LuaThreads == {"conn", "worker", "timer", "keys", "game"}

Lives(q) ==
    \/ q = "worker" /\ worker.at # "gone"
    \/ q = "timer" /\ timer.alive
    \/ q = "keys" /\ keys

Joins(p) == (p = "conn" /\ conn = "join") \/ (p = "game" /\ game.at = "join")

\* For an acknowledgement; for the threads it joins; for the VM, which the game's thread
\* has locked; for the game to reach ProcessEvent; for a command.
LuaWaits(p, q) ==
    \/ p = "conn" /\ conn = "asked" /\ q = "worker"
    \/ Joins(p) /\ Lives(q)
    \/ /\ p = "worker" /\ q = "game"
       /\ \/ worker.at \in {"start", "build", "swap", "lock"} /\ lock = "game"
          \/ worker.at = "call" /\ game.at \notin {"engine", "join"}
    \/ /\ p = "worker" /\ worker.at \in {"recv", "degraded"} /\ inbox = << >>
       /\ q \in {"conn", "timer", "keys", "game"}

\* Of any threads of the runtime, one at least waits for none of the others; and who
\* waits for an acknowledgement has a worker to give it.
NoLuaCircle ==
    /\ \A S \in (SUBSET LuaThreads) \ {{}} : \E p \in S : \A q \in S : ~LuaWaits(p, q)
    /\ conn = "asked" => worker.at \notin {"off", "gone"}

Answerable == OwedAnswer /\ ToldToEnd

LEMMA NothingAsked ==
  ASSUME inbox = << >>
  PROVE  ~Demanded /\ ~ToldToGo /\ OneDemand
  <1>1. 1 .. Len(inbox) = {}
    BY EmptySeq
  <1> QED
    BY <1>1 DEF Demanded, ToldToGo, OneDemand

\* What the channel holds after its first command has been taken.
LEMMA TakenOut ==
  ASSUME LuaTypeOK, OneDemand, inbox # << >>, inbox' = Tail(inbox)
  PROVE  /\ Head(inbox) \in Command /\ OneDemand'
         /\ Head(inbox).kind \in Demands => Demanded /\ ~Demanded'
         /\ Head(inbox).kind \notin Demands => (Demanded' <=> Demanded)
         /\ Head(inbox).kind = "shutdown" => ToldToGo
         /\ Head(inbox).kind # "shutdown" => (ToldToGo' <=> ToldToGo)
         /\ ToldToGo' => ToldToGo
  <1> DEFINE n == Len(inbox)
             was(i) == inbox[i].kind
             comes(i) == inbox'[i].kind
  <1>1. inbox \in Seq(Command) /\ n \in Nat /\ n # 0
    BY LuaTypes, EmptySeq, LenProperties
  <1>2. /\ Head(inbox) = inbox[1] /\ Head(inbox) \in Command
        /\ Len(inbox') = n - 1 /\ \A i \in 1 .. n - 1 : comes(i) = was(i + 1)
    BY <1>1, HeadTailProperties
  <1>3. \A i \in 1 .. n - 1 : i + 1 \in 1 .. n /\ i + 1 # 1
    BY <1>1
  <1>4. \A i \in 1 .. n : i = 1 \/ (i - 1 \in 1 .. n - 1 /\ was(i) = comes(i - 1))
    BY <1>1, <1>2
  <1>5. 1 \in 1 .. n
    BY <1>1
  <1>6. Demanded <=> \E i \in 1 .. n : was(i) \in Demands
    BY DEF Demanded
  <1>7. Demanded' <=> \E i \in 1 .. n - 1 : comes(i) \in Demands
    BY <1>2 DEF Demanded, Demands
  <1>8. ToldToGo <=> \E i \in 1 .. n : was(i) = "shutdown"
    BY DEF ToldToGo
  <1>9. ToldToGo' <=> \E i \in 1 .. n - 1 : comes(i) = "shutdown"
    BY <1>2 DEF ToldToGo
  <1>10. OneDemand <=> \A i, j \in 1 .. n : was(i) \in Demands /\ was(j) \in Demands => i = j
    BY DEF OneDemand
  <1>11. OneDemand' <=>
            \A i, j \in 1 .. n - 1 : comes(i) \in Demands /\ comes(j) \in Demands => i = j
    BY <1>2 DEF OneDemand, Demands
  <1>12. Head(inbox).kind = was(1)
    BY <1>2
  <1> HIDE DEF n, was, comes
  <1>13. OneDemand'
    <2> SUFFICES ASSUME NEW i \in 1 .. n - 1, NEW j \in 1 .. n - 1,
                        comes(i) \in Demands, comes(j) \in Demands
                 PROVE  i = j
      BY <1>11
    <2>1. was(i + 1) \in Demands /\ was(j + 1) \in Demands
      BY <1>2
    <2>2. i + 1 = j + 1
      BY <1>3, <1>10, <2>1
    <2> QED
      BY <1>1, <2>2
  <1>14. was(1) \in Demands => Demanded /\ ~Demanded'
    <2>1. ASSUME was(1) \in Demands, NEW i \in 1 .. n - 1, comes(i) \in Demands
          PROVE  FALSE
      <3>1. was(i + 1) \in Demands
        BY <1>2, <2>1
      <3> QED
        BY <1>3, <1>5, <1>10, <2>1, <3>1
    <2> QED
      BY <1>5, <1>6, <1>7, <2>1
  <1>15. was(1) \notin Demands => (Demanded' <=> Demanded)
    BY <1>2, <1>3, <1>4, <1>6, <1>7
  <1>16. was(1) # "shutdown" => (ToldToGo' <=> ToldToGo)
    BY <1>2, <1>3, <1>4, <1>8, <1>9
  <1>17. was(1) = "shutdown" => ToldToGo
    BY <1>5, <1>8
  <1> QED
    BY <1>2, <1>12, <1>13, <1>14, <1>15, <1>16, <1>17

\* And after one more has been put into it.
LEMMA PutIn ==
  ASSUME LuaTypeOK, OneDemand, NEW c \in Command, Send(c), c.kind \in Demands => ~Demanded
  PROVE  /\ OneDemand'
         /\ Demanded' <=> Demanded \/ c.kind \in Demands
         /\ ToldToGo' <=> ToldToGo \/ c.kind = "shutdown"
  <1> DEFINE n == Len(inbox)
             was(i) == inbox[i].kind
             comes(i) == inbox'[i].kind
  <1>1. inbox \in Seq(Command) /\ n \in Nat
    BY LuaTypes, LenProperties
  <1>2. /\ Len(inbox') = n + 1 /\ comes(n + 1) = c.kind
        /\ \A i \in 1 .. n : comes(i) = was(i)
    BY <1>1, AppendProperties DEF Send
  <1>3. \A i \in 1 .. n + 1 : i \in 1 .. n \/ i = n + 1
    BY <1>1
  <1>4. n + 1 \in 1 .. n + 1 /\ \A i \in 1 .. n : i \in 1 .. n + 1
    BY <1>1
  <1>5. Demanded <=> \E i \in 1 .. n : was(i) \in Demands
    BY DEF Demanded
  <1>6. Demanded' <=> \E i \in 1 .. n + 1 : comes(i) \in Demands
    BY <1>2 DEF Demanded, Demands
  <1>7. ToldToGo <=> \E i \in 1 .. n : was(i) = "shutdown"
    BY DEF ToldToGo
  <1>8. ToldToGo' <=> \E i \in 1 .. n + 1 : comes(i) = "shutdown"
    BY <1>2 DEF ToldToGo
  <1>9. OneDemand <=> \A i, j \in 1 .. n : was(i) \in Demands /\ was(j) \in Demands => i = j
    BY DEF OneDemand
  <1>10. OneDemand' <=>
            \A i, j \in 1 .. n + 1 : comes(i) \in Demands /\ comes(j) \in Demands => i = j
    BY <1>2 DEF OneDemand, Demands
  <1> HIDE DEF n, was, comes
  <1>11. Demanded' <=> Demanded \/ c.kind \in Demands
    BY <1>2, <1>3, <1>4, <1>5, <1>6
  <1>12. ToldToGo' <=> ToldToGo \/ c.kind = "shutdown"
    BY <1>2, <1>3, <1>4, <1>7, <1>8
  <1>13. ASSUME NEW i \in 1 .. n + 1, NEW j \in 1 .. n + 1,
                comes(i) \in Demands, comes(j) \in Demands
         PROVE  i = j
    <2>1. ASSUME NEW k \in 1 .. n, comes(k) \in Demands, comes(n + 1) \in Demands
          PROVE  FALSE
      BY <1>2, <1>5, <2>1
    <2> QED
      BY <1>2, <1>3, <1>9, <1>13, <2>1
  <1> QED
    BY <1>10, <1>11, <1>12, <1>13

LEMMA ChannelKept ==
  ASSUME inbox' = inbox
  PROVE  (OneDemand' <=> OneDemand) /\ (Demanded' <=> Demanded) /\ (ToldToGo' <=> ToldToGo)
  BY DEF OneDemand, Demanded, ToldToGo, Demands

LEMMA AnswerableFirst == LuaInit => Answerable
  <1> SUFFICES ASSUME LuaInit
               PROVE  Answerable
    OBVIOUS
  <1>1. ~Demanded /\ ~ToldToGo /\ OneDemand
    BY NothingAsked DEF LuaInit
  <1>2. worker.at = "off" /\ conn = "new" /\ ~shutdown /\ game.at = "engine"
    BY DEF LuaInit
  <1> QED
    BY <1>1, <1>2 DEF Answerable, OwedAnswer, ToldToEnd, AtDemand

\* A step that leaves the Lua worker where it is, and what it is owed as it is.
LEMMA WorkerStays ==
  ASSUME LuaTypeOK, Answerable, worker' = worker, OneDemand', Demanded' <=> Demanded,
         conn' = conn \/ {conn, conn'} \subseteq {"idle", "join", "gone"},
         shutdown => shutdown', shutdown' => conn' \in {"join", "gone"},
         ToldToGo => ToldToGo', ToldToGo' => ToldToGo \/ shutdown',
         conn' = "join" /\ conn # "join" => ToldToGo',
         game'.at = "join" /\ game.at # "join" => ToldToGo'
  PROVE  Answerable'
  <1>1. AtDemand' <=> AtDemand
    BY DEF AtDemand
  <1>2. conn \in {"new", "idle", "asked", "join", "gone"}
    BY DEF LuaTypeOK
  <1>3. conn' = "asked" <=> conn = "asked"
    BY <1>2
  <1>4. OwedAnswer'
    BY <1>1, <1>3 DEF Answerable, OwedAnswer, Demands
  <1>5. ToldToEnd'
    BY DEF Answerable, ToldToEnd
  <1> QED
    BY <1>4, <1>5 DEF Answerable

LEMMA OthersAnswerable ==
  ASSUME LuaInv, Answerable,
         \/ Ensure \/ ClientLeaves \/ Joined \/ \E kind \in {"run", "stop"} : Ask(kind)
         \/ TimerPops \/ TimerSends \/ TimerStops \/ KeyPress \/ KeysStop
  PROVE  Answerable'
  <1>0. /\ LuaTypeOK /\ BuiltFirst /\ OwedAnswer /\ ToldToEnd /\ OneDemand /\ worker \in Worker
        /\ timer \in [alive : BOOLEAN, due : 0 .. MaxDelayed]
    BY LuaTypes DEF LuaInv, Answerable, OwedAnswer
  <1>1. CASE Ensure
    <2>1. /\ conn = "new" /\ conn' = "idle" /\ worker' = [worker EXCEPT !.at = "start"]
          /\ UNCHANGED <<inbox, shutdown, game>>
      BY <1>1 DEF Ensure
    <2>2. worker.at = "off" /\ worker'.at = "start"
      BY <1>0, <2>1 DEF BuiltFirst, Worker
    <2>3. (OneDemand' <=> OneDemand) /\ (Demanded' <=> Demanded) /\ (ToldToGo' <=> ToldToGo)
      BY <2>1, ChannelKept
    <2>4. ~AtDemand /\ ~AtDemand'
      BY <2>2 DEF AtDemand
    <2>5. ~Demanded /\ ~shutdown /\ ~ToldToGo /\ game.at # "join"
      BY <1>0, <2>1, <2>2 DEF OwedAnswer, ToldToEnd
    <2>6. OwedAnswer' /\ ToldToEnd'
      BY <1>0, <2>1, <2>2, <2>3, <2>4, <2>5 DEF OwedAnswer, ToldToEnd
    <2> QED
      BY <2>6 DEF Answerable
  <1>2. ASSUME NEW kind \in {"run", "stop"}, Ask(kind)
        PROVE  Answerable'
    <2> DEFINE c == [kind |-> kind]
    <2>1. c \in Command /\ c.kind \in Demands /\ c.kind # "shutdown"
      BY DEF Command, Demands
    <2>2. conn = "idle" /\ conn' = "asked" /\ Send(c) /\ UNCHANGED <<shutdown, worker, game>>
      BY <1>2 DEF Ask
    <2> HIDE DEF c
    <2>3. ~AtDemand /\ ~Demanded /\ ~shutdown
      BY <1>0, <2>2 DEF OwedAnswer, ToldToEnd
    <2>4. OneDemand' /\ Demanded' /\ (ToldToGo' <=> ToldToGo)
      BY <1>0, <2>1, <2>2, <2>3, PutIn
    <2>5. ~AtDemand'
      BY <2>2, <2>3 DEF AtDemand
    <2>6. worker.at # "off"
      BY <1>0, <2>2 DEF OwedAnswer
    <2>7. OwedAnswer'
      BY <1>0, <2>2, <2>4, <2>5, <2>6 DEF OwedAnswer, Demands
    <2>8. ToldToEnd'
      BY <1>0, <2>2, <2>3, <2>4 DEF ToldToEnd
    <2> QED
      BY <2>7, <2>8 DEF Answerable
  <1>3. ASSUME Teardown
        PROVE  OneDemand' /\ (Demanded' <=> Demanded) /\ ToldToGo' /\ shutdown'
    <2> DEFINE c == [kind |-> "shutdown"]
    <2>1. c \in Command /\ c.kind \notin Demands /\ c.kind = "shutdown"
      BY DEF Command, Demands
    <2>2. Send(c) /\ shutdown'
      BY <1>3 DEF Teardown
    <2> HIDE DEF c
    <2> QED
      BY <1>0, <2>1, <2>2, PutIn
  <1>4. CASE ClientLeaves
    <2>1. /\ conn = "idle" /\ UNCHANGED <<worker, game>>
          /\ \/ conn' = "gone" /\ UNCHANGED <<inbox, shutdown>>
             \/ conn' = "join" /\ Teardown
      BY <1>4 DEF ClientLeaves
    <2>2. ~shutdown
      BY <1>0, <2>1 DEF ToldToEnd
    <2>3. CASE conn' = "gone" /\ UNCHANGED <<inbox, shutdown>>
      BY <1>0, <2>1, <2>2, <2>3, ChannelKept, WorkerStays
    <2>4. CASE conn' = "join" /\ Teardown
      BY <1>0, <1>3, <2>1, <2>4, WorkerStays
    <2> QED
      BY <2>1, <2>3, <2>4
  <1>5. CASE Joined
    <2>1. conn = "join" /\ conn' = "gone" /\ UNCHANGED <<inbox, shutdown, worker, game>>
      BY <1>5 DEF Joined
    <2> QED
      BY <1>0, <2>1, ChannelKept, WorkerStays
  <1>6. CASE TimerPops \/ TimerStops \/ KeysStop \/ (TimerSends /\ worker.at = "gone")
    <2>1. UNCHANGED <<inbox, shutdown, worker, game, conn>>
      BY <1>6 DEF TimerPops, TimerStops, KeysStop, TimerSends, PollOnly
    <2>2. shutdown => conn \in {"join", "gone"}
      BY <1>0 DEF ToldToEnd
    <2> QED
      BY <1>0, <2>1, <2>2, ChannelKept, WorkerStays
  <1>7. ASSUME NEW c \in Command, c.kind \in {"key", "delayed"}, Send(c), PollOnly
        PROVE  Answerable'
    <2>1. UNCHANGED <<shutdown, worker, game, conn>>
      BY <1>7 DEF PollOnly
    <2>2. OneDemand' /\ (Demanded' <=> Demanded) /\ (ToldToGo' <=> ToldToGo)
      BY <1>0, <1>7, PutIn DEF Demands
    <2>3. shutdown => conn \in {"join", "gone"}
      BY <1>0 DEF ToldToEnd
    <2> QED
      BY <1>0, <2>1, <2>2, <2>3, WorkerStays
  <1>8. CASE KeyPress
    <2> DEFINE c == [kind |-> "key"]
    <2>1. c \in Command /\ c.kind = "key"
      BY DEF Command
    <2>2. Send(c) /\ PollOnly
      BY <1>8 DEF KeyPress
    <2> HIDE DEF c
    <2> QED
      BY <1>7, <2>1, <2>2
  <1>9. CASE TimerSends /\ worker.at # "gone"
    <2> DEFINE c == [kind |-> "delayed", id |-> timer.due]
    <2>1. timer.due # 0 /\ Send(c) /\ PollOnly
      BY <1>9 DEF TimerSends
    <2>2. timer.due \in Ids
      BY <1>0, <2>1, LuaAssumption DEF Ids
    <2>3. c \in Command /\ c.kind = "delayed"
      BY <2>2 DEF Command
    <2> HIDE DEF c
    <2> QED
      BY <1>7, <2>1, <2>3
  <1> QED
    BY <1>1, <1>2, <1>4, <1>5, <1>6, <1>8, <1>9

LEMMA GameAnswerable ==
  ASSUME LuaInv, Answerable,
         Tick \/ GameMoves \/ ClosureRegisters \/ ClosureCalls \/ ClosureEnds
  PROVE  Answerable'
  <1>0. LuaTypeOK /\ ToldToEnd /\ OneDemand /\ game \in GameThread
    BY LuaTypes DEF LuaInv, Answerable, OwedAnswer
  <1>1. worker' = worker /\ conn' = conn
    BY DEF Tick, GameMoves, DrainBegins, DrainNext, ClosureCallTimesOut, DrainEnds, PutBack,
           GameJoined, ClosureRegisters, ClosureCalls, ClosureEnds, GameOnly
  <1>2. shutdown => conn \in {"join", "gone"}
    BY <1>0 DEF ToldToEnd
  <1>3. CASE PutBack /\ conn = "gone"
    <2> DEFINE c == [kind |-> "shutdown"]
    <2>1. c \in Command /\ c.kind \notin Demands /\ c.kind = "shutdown"
      BY DEF Command, Demands
    <2>2. Send(c) /\ shutdown'
      BY <1>3 DEF PutBack, Teardown
    <2> HIDE DEF c
    <2>3. OneDemand' /\ (Demanded' <=> Demanded) /\ ToldToGo'
      BY <1>0, <2>1, <2>2, PutIn
    <2> QED
      BY <1>0, <1>1, <1>3, <2>2, <2>3, WorkerStays
  <1>4. CASE ~(PutBack /\ conn = "gone")
    <2>1. UNCHANGED <<inbox, shutdown>>
      BY <1>4 DEF Tick, GameMoves, DrainBegins, DrainNext, ClosureCallTimesOut, DrainEnds,
                  PutBack, GameJoined, ClosureRegisters, ClosureCalls, ClosureEnds
    <2>2. game'.at # "join" \/ game.at = "join"
      BY <1>0, <1>4 DEF GameThread, Tick, GameMoves, DrainBegins, Drain, DrainNext,
                  ClosureCallTimesOut, DrainEnds, PutBack, GameJoined, ClosureRegisters,
                  ClosureCalls, ClosureEnds
    <2> QED
      BY <1>0, <1>1, <1>2, <2>1, <2>2, ChannelKept, WorkerStays
  <1> QED
    BY <1>3, <1>4

\* The commands: the one that is served answers who asked for it, and an end of the
\* worker was ordered.
LEMMA CommandsAnswerable ==
  ASSUME LuaInv, Answerable,
         WorkerMoves \/ BodyRegisters \/ BodyCalls \/ \E ok \in BOOLEAN : BodyEnds(ok)
  PROVE  Answerable'
  <1>0. /\ LuaTypeOK /\ OwedAnswer /\ ToldToEnd /\ OneDemand /\ worker \in Worker
        /\ shutdown => conn # "asked"
    BY LuaTypes DEF LuaInv, Answerable, OwedAnswer, ToldToEnd
  <1>1. game' = game /\ shutdown' = shutdown
    BY DEF WorkerMoves, CommandMoves, FirstBuild, Refuse, Receive, Build, BuildFails, Swap,
           Swapped, Dispatch, BodyRegisters, BodyCalls, BodyReturns, BodyEnds, WorkerOnly
  \* A step to one of the other places, the channel as it was.
  <1>2. ASSUME inbox' = inbox, NEW step \in WorkerSteps \ {"off"}, worker'.at = step,
               worker'.cmd = worker.cmd, worker.at \notin {"off", "gone"},
               step = "gone" => shutdown,
               step \in {"build", "swap"} => worker.cmd.kind \in Demands,
               step = "lock" => worker.cmd.kind \notin Demands,
               \/ conn' = conn /\ (AtDemand' <=> AtDemand)
               \/ conn' = "idle" /\ AtDemand /\ ~AtDemand'
        PROVE  Answerable'
    <2>1. (OneDemand' <=> OneDemand) /\ (Demanded' <=> Demanded) /\ (ToldToGo' <=> ToldToGo)
      BY <1>2, ChannelKept
    <2>2. OwedAnswer'
      BY <1>0, <1>2, <2>1 DEF OwedAnswer, Demands
    <2>3. ToldToEnd'
      BY <1>0, <1>1, <1>2, <2>1 DEF ToldToEnd, OwedAnswer
    <2> QED
      BY <2>2, <2>3 DEF Answerable
  <1>3. ASSUME NEW step \in WorkerSteps, Goto(step)
        PROVE  worker'.at = step /\ worker'.cmd = worker.cmd
    BY <1>0, <1>3, GoneTo
  <1>4. CASE FirstBuild
    <2>1. PICK step \in {"recv", "degraded"} : Goto(step)
      BY <1>4 DEF FirstBuild
    <2>2. worker'.at = step /\ worker'.cmd = worker.cmd
      BY <1>3, <2>1 DEF WorkerSteps
    <2>3. worker.at = "start" /\ inbox' = inbox /\ conn' = conn
      BY <1>4 DEF FirstBuild
    <2>4. ~AtDemand /\ ~AtDemand'
      BY <2>1, <2>2, <2>3 DEF AtDemand
    <2> QED
      BY <1>2, <2>1, <2>2, <2>3, <2>4 DEF WorkerSteps
  <1>5. CASE inbox # << >> /\ inbox' = Tail(inbox)
    <2>1. /\ Head(inbox) \in Command /\ OneDemand'
          /\ Head(inbox).kind \in Demands => Demanded /\ ~Demanded'
          /\ Head(inbox).kind \notin Demands => (Demanded' <=> Demanded)
          /\ Head(inbox).kind = "shutdown" => ToldToGo
          /\ Head(inbox).kind # "shutdown" => (ToldToGo' <=> ToldToGo)
          /\ ToldToGo' => ToldToGo
      BY <1>0, <1>5, TakenOut
    <2> DEFINE kind == Head(inbox).kind
    <2> HIDE DEF kind
    <2>2. CASE Refuse
      <3> DEFINE step == IF kind = "shutdown" THEN "gone" ELSE "degraded"
      <3>1. /\ worker.at = "degraded" /\ Goto(step)
            /\ conn' = IF kind \in {"run", "stop"} THEN "idle" ELSE conn
        BY <2>2 DEF Refuse, kind
      <3>2. step \in {"gone", "degraded"} /\ (step = "gone" <=> kind = "shutdown")
        OBVIOUS
      <3> HIDE DEF step
      <3>3. worker'.at = step
        BY <1>3, <3>1, <3>2 DEF WorkerSteps
      <3>4. ~AtDemand /\ ~AtDemand'
        BY <3>1, <3>2, <3>3 DEF AtDemand
      <3>5. OwedAnswer'
        BY <1>0, <2>1, <3>1, <3>2, <3>3, <3>4 DEF OwedAnswer, Demands, kind
      <3>6. ToldToEnd'
        BY <1>0, <1>1, <2>1, <3>1, <3>2, <3>3 DEF OwedAnswer, ToldToEnd, Demands, kind
      <3> QED
        BY <3>5, <3>6 DEF Answerable
    <2>3. CASE Receive
      <3> DEFINE step == CASE kind = "shutdown" -> "gone"
                           [] kind \in {"run", "stop"} -> "build"
                           [] OTHER -> "lock"
      <3>1. /\ worker.at = "recv" /\ conn' = conn
            /\ worker' = [worker EXCEPT !.cmd = Head(inbox), !.at = step]
        BY <2>3 DEF Receive, kind
      <3>2. /\ step = "gone" <=> kind = "shutdown"
            /\ step = "build" <=> kind \in Demands
            /\ step \in {"gone", "build", "lock"}
        BY DEF Demands
      <3> HIDE DEF step
      <3>3. worker'.at = step /\ worker'.cmd.kind = kind
        BY <1>0, <3>1 DEF Worker, kind
      <3>4. ~AtDemand /\ (AtDemand' <=> kind \in Demands)
        BY <3>1, <3>2, <3>3 DEF AtDemand
      <3>5. OwedAnswer'
        BY <1>0, <2>1, <3>1, <3>2, <3>3, <3>4 DEF OwedAnswer, Demands, kind
      <3>6. ToldToEnd'
        BY <1>0, <1>1, <2>1, <3>1, <3>2, <3>3 DEF ToldToEnd, kind
      <3> QED
        BY <3>5, <3>6 DEF Answerable
    <2>4. CASE ~Refuse /\ ~Receive
      <3>1. 1 \in 1 .. Len(inbox) /\ Len(inbox') = Len(inbox) - 1 /\ Len(inbox) \in Nat
        BY <1>0, <1>5, LuaTypes, HeadTailProperties, EmptySeq, LenProperties
      <3>2. inbox' = inbox
        BY <2>4 DEF WorkerMoves, CommandMoves, FirstBuild, Build, BuildFails, Swap,
                    Swapped, Dispatch, BodyRegisters, BodyCalls, BodyReturns, BodyEnds
      <3> QED
        BY <3>1, <3>2
    <2> QED
      BY <2>2, <2>3, <2>4
  <1>6. CASE Build
    <2>1. worker.at = "build" /\ Goto("swap") /\ inbox' = inbox /\ conn' = conn
      BY <1>6 DEF Build
    <2>2. worker'.at = "swap" /\ worker'.cmd = worker.cmd
      BY <1>3, <2>1 DEF WorkerSteps
    <2>3. AtDemand /\ AtDemand'
      BY <2>1, <2>2 DEF AtDemand
    <2> QED
      BY <1>0, <1>2, <2>1, <2>2, <2>3 DEF OwedAnswer, WorkerSteps
  <1>7. CASE BuildFails
    <2>1. worker.at = "build" /\ Goto("recv") /\ inbox' = inbox /\ conn' = "idle"
      BY <1>7 DEF BuildFails
    <2>2. worker'.at = "recv" /\ worker'.cmd = worker.cmd
      BY <1>3, <2>1 DEF WorkerSteps
    <2>3. AtDemand /\ ~AtDemand'
      BY <2>1, <2>2 DEF AtDemand
    <2> QED
      BY <1>2, <2>1, <2>2, <2>3 DEF WorkerSteps
  <1> DEFINE next == IF shutdown THEN "gone" ELSE "recv"
  <1>8. next \in {"gone", "recv"} /\ (next = "gone" => shutdown)
    OBVIOUS
  <1>9. NextCommand <=> Goto(next)
    BY DEF NextCommand
  <1> HIDE DEF next
  <1>10. CASE Swap /\ worker.cmd.kind = "run"
    <2>1. /\ worker.at = "swap" /\ inbox' = inbox /\ conn' = conn
          /\ worker' = [worker EXCEPT !.at = "body", !.runs = built]
      BY <1>10 DEF Swap, Swapped
    <2>2. worker'.at = "body" /\ worker'.cmd = worker.cmd
      BY <1>0, <2>1 DEF Worker
    <2>3. AtDemand /\ AtDemand'
      BY <1>10, <2>1, <2>2 DEF AtDemand
    <2> QED
      BY <1>2, <2>1, <2>2, <2>3 DEF WorkerSteps
  <1>11. CASE Swap /\ worker.cmd.kind # "run"
    <2>1. worker.at = "swap" /\ inbox' = inbox /\ conn' = "idle" /\ Goto(next)
      BY <1>9, <1>11 DEF Swap, Swapped
    <2>2. worker'.at = next /\ worker'.cmd = worker.cmd
      BY <1>3, <1>8, <2>1 DEF WorkerSteps
    <2>3. AtDemand /\ ~AtDemand'
      BY <1>8, <2>1, <2>2 DEF AtDemand
    <2> QED
      BY <1>2, <1>8, <2>1, <2>2, <2>3 DEF WorkerSteps
  <1>12. CASE Dispatch
    <2>1. /\ worker.at = "lock" /\ inbox' = inbox /\ conn' = conn
          /\ NextCommand \/ worker' = [worker EXCEPT !.at = "body", !.runs = lua]
      BY <1>12 DEF Dispatch
    <2>2. PICK step \in {"gone", "recv", "body"} : /\ worker'.at = step /\ worker'.cmd = worker.cmd
                                                   /\ step = "gone" => shutdown
      <3>1. CASE NextCommand
        BY <1>3, <1>8, <1>9, <3>1 DEF WorkerSteps
      <3>2. CASE worker' = [worker EXCEPT !.at = "body", !.runs = lua]
        BY <1>0, <3>2 DEF Worker
      <3> QED
        BY <2>1, <3>1, <3>2
    <2>3. worker.cmd.kind \notin Demands
      BY <1>0, <2>1 DEF OwedAnswer
    <2>4. ~AtDemand /\ ~AtDemand'
      BY <2>1, <2>2, <2>3 DEF AtDemand, Demands
    <2> QED
      BY <1>2, <2>1, <2>2, <2>3, <2>4 DEF WorkerSteps
  <1>13. CASE BodyRegisters \/ BodyCalls \/ BodyReturns
    <2>1. inbox' = inbox /\ conn' = conn /\ worker.at \in {"body", "call"}
      BY <1>13 DEF BodyRegisters, BodyCalls, BodyReturns
    <2>2. worker'.at \in {"body", "call"} /\ worker'.cmd = worker.cmd
      BY <1>0, <1>13 DEF Worker, BodyRegisters, BodyCalls, BodyReturns
    <2>3. AtDemand' <=> AtDemand
      BY <2>1, <2>2 DEF AtDemand
    <2> QED
      BY <1>2, <2>1, <2>2, <2>3 DEF WorkerSteps
  <1>14. ASSUME NEW ok \in BOOLEAN, BodyEnds(ok)
         PROVE  Answerable'
    <2>1. /\ worker.at = "body" /\ inbox' = inbox /\ Goto(next)
          /\ conn' = IF worker.cmd.kind = "run" THEN "idle" ELSE conn
      BY <1>9, <1>14 DEF BodyEnds
    <2>2. worker'.at = next /\ worker'.cmd = worker.cmd
      BY <1>3, <1>8, <2>1 DEF WorkerSteps
    <2>3. ~AtDemand' /\ (AtDemand <=> worker.cmd.kind = "run")
      BY <1>8, <2>1, <2>2 DEF AtDemand
    <2> QED
      BY <1>2, <1>8, <2>1, <2>2, <2>3 DEF WorkerSteps
  <1> QED
    BY <1>4, <1>5, <1>6, <1>7, <1>10, <1>11, <1>12, <1>13, <1>14
       DEF WorkerMoves, CommandMoves, Refuse, Receive

LEMMA AnswerableNext == LuaInv /\ Answerable /\ [LuaNext]_luaVars => Answerable'
  <1> SUFFICES ASSUME LuaInv, Answerable, [LuaNext]_luaVars
               PROVE  Answerable'
    OBVIOUS
  <1>1. CASE UNCHANGED luaVars
    <2>1. UNCHANGED <<inbox, worker, conn, shutdown, game>>
      BY <1>1 DEF luaVars
    <2>2. LuaTypeOK /\ OneDemand /\ (shutdown => conn \in {"join", "gone"})
      BY DEF LuaInv, Answerable, OwedAnswer, ToldToEnd
    <2> QED
      BY <2>1, <2>2, ChannelKept, WorkerStays
  <1> QED
    BY <1>1, OthersAnswerable, CommandsAnswerable, GameAnswerable DEF LuaNext

\* The pipe worker waits for an acknowledgement, whoever drops the runtime joins its
\* threads, the Lua worker waits for the VM's lock and for the game, and none of these
\* waits has a timeout but the last: there is no circle of them, whatever is in the
\* channel and whoever tears down (that the threads do end is RuntimeMovesOn).
THEOREM NoLuaCircleCorrect == LuaSpec => []NoLuaCircle
  <1>1. ASSUME LuaInv, Answerable, NEW S \in (SUBSET LuaThreads) \ {{}}
        PROVE  \E p \in S : \A q \in S : ~LuaWaits(p, q)
    <2>0. LuaTypeOK /\ Locking /\ OwedAnswer /\ ToldToEnd
      BY <1>1 DEF LuaInv, Answerable
    <2>1. CASE "timer" \in S \/ "keys" \in S
      BY <2>1 DEF LuaWaits, Joins
    <2>2. CASE "game" \in S /\ game.at # "join"
      BY <2>2 DEF LuaWaits, Joins
    <2>3. CASE "timer" \notin S /\ "keys" \notin S /\ "worker" \notin S
      <3>1. \A p \in S, q \in S : ~LuaWaits(p, q)
        BY <2>3 DEF LuaThreads, LuaWaits, Joins, Lives
      <3> QED
        BY <1>1, <3>1
    <2>4. CASE /\ "timer" \notin S /\ "keys" \notin S /\ "worker" \in S
               /\ "game" \notin S \/ game.at = "join"
      <3>1. S \subseteq {"conn", "worker", "game"}
        BY <1>1, <2>4 DEF LuaThreads
      <3>2. ASSUME NEW q \in S, LuaWaits("worker", q)
            PROVE  /\ worker.at \in {"recv", "degraded"} /\ inbox = << >>
                   /\ conn \notin {"asked", "join"} /\ game.at # "join"
        <4>1. worker.at \in {"recv", "degraded"} /\ inbox = << >>
          BY <2>0, <2>4, <3>2 DEF LuaWaits, Joins, Locking
        <4>2. ~Demanded /\ ~ToldToGo /\ ~AtDemand
          BY <4>1, NothingAsked DEF AtDemand
        <4> QED
          BY <2>0, <4>1, <4>2 DEF OwedAnswer, ToldToEnd
      <3>3. CASE \A q \in S : ~LuaWaits("worker", q)
        BY <2>4, <3>3
      <3>4. CASE \E q \in S : LuaWaits("worker", q)
        <4>1. worker.at \in {"recv", "degraded"} /\ conn \notin {"asked", "join"} /\ game.at # "join"
          BY <3>2, <3>4
        <4>2. "game" \notin S
          BY <2>4, <4>1
        <4>3. \A q \in S : ~LuaWaits("worker", q) \/ q = "conn"
          BY <2>0, <3>1, <4>1, <4>2 DEF LuaWaits, Joins, Locking
        <4>4. "conn" \in S
          BY <2>0, <3>4, <4>3
        <4>5. \A q \in S : ~LuaWaits("conn", q)
          BY <4>1 DEF LuaWaits, Joins
        <4> QED
          BY <4>4, <4>5
      <3> QED
        BY <3>3, <3>4
    <2> QED
      BY <2>1, <2>2, <2>3, <2>4
  <1>2. LuaInv /\ Answerable => (conn = "asked" => worker.at \notin {"off", "gone"})
    BY DEF Answerable, OwedAnswer, ToldToEnd
  <1>3. LuaInv /\ Answerable => NoLuaCircle
    BY <1>1, <1>2 DEF NoLuaCircle
  <1>4. LuaInit => LuaInv /\ Answerable
    BY LuaInitInv, AnswerableFirst
  <1>5. LuaInv /\ Answerable /\ [LuaNext]_luaVars => LuaInv' /\ Answerable'
    BY LuaNextInv, AnswerableNext
  <1> QED
    BY <1>3, <1>4, <1>5, PTL DEF LuaSpec

-----------------------------------------------------------------------------
(* PipeSession.  Of a connected host that has left no body unread, at most *)
(* one frame is in the pipe, in one direction or the other: the request it *)
(* waits with, or the answer to that.                                      *)

Connected(h) == pipe.host = h /\ pipe.open

\* The frames in the pipe: none, the host's request, or the answer to it.
NoFrame == pipe.toDll = << >> /\ pipe.toHost = << >>

RequestOf(h) ==
    /\ peer[h].at = "wait" /\ pipe.toHost = << >> /\ Len(pipe.toDll) = 1
    /\ Head(pipe.toDll).seq = peer[h].seq /\ Head(pipe.toDll).kind = peer[h].req

AnswerTo(h) ==
    /\ peer[h].at = "wait" /\ pipe.toDll = << >> /\ Len(pipe.toHost) = 1
    /\ LET reply == Head(pipe.toHost)
       IN  /\ reply.seq = peer[h].seq
           /\ reply.fits \/ peer[h].req \notin {"Hello", "Disconnect"}
           /\ \/ reply.kind = "Error"
              \/ IF peer[h].req = "Hello" THEN reply.kind = "Welcome"
                 ELSE <<peer[h].req, reply.kind>> \in Accepts(engine)

Owns ==
    \A h \in Hosts : Connected(h) /\ h \notin torn => NoFrame \/ RequestOf(h) \/ AnswerTo(h)

\* Whom the instance is for.
Hosting ==
    /\ server.at \in {"serve", "handle", "write", "restore", "flush"} => pipe.host # NoHost
    /\ pipe.host = NoHost => pipe.toDll = << >> /\ ~pipe.open
    /\ ~pipe.open => pipe.toHost = << >>
    /\ image.at = "absent" => pipe = NoPipe
    /\ \A h \in Hosts : Connected(h) => peer[h].at \in {"wait", "ready"}

\* A body is left unread only by a host that has been welcomed, until it leaves.
Tearing ==
    \A h \in torn : /\ peer[h].at \in {"ready", "wait", "broken"}
                    /\ peer[h].at = "wait" => peer[h].req # "Hello"

\* A client that the worker has not welcomed has sent its Hello, and nothing else.
Unserved ==
    server.at \notin {"handle", "write", "restore", "flush"} /\ ~(server.at = "serve" /\ server.gate)

Greeting ==
    \A h \in Hosts : Connected(h) /\ Unserved =>
        peer[h].at = "wait" /\ peer[h].req = "Hello" /\ pipe.toHost = << >>

\* Past the handshake no second Hello comes.  What the worker waits to have read, a host
\* that is in step has not looked at yet.
Gated ==
    /\ server.at \in {"handle", "write"} => server.gate
    /\ server.at = "handle" => pipe.toDll # << >>
    /\ server.gate /\ server.at \in {"serve", "handle", "write"} =>
         \A f \in ToSet(pipe.toDll) : f.kind \in Requests(engine)
    /\ server.at = "write" /\ pipe.open /\ pipe.host \notin torn =>
         pipe.toHost # << >> /\ ~Head(pipe.toHost).fits

PipeInv ==
    /\ PipeTypeOK
    /\ Hosting
    /\ Tearing
    /\ Greeting
    /\ Gated
    /\ Owns

ImageType == [at : {"absent", "loaded", "detach", "crashed"}, refs : Nat, same : BOOLEAN]
ServerType == [at : {"none", "ended"} \cup Inside, gate : BOOLEAN]
PipeType ==
    [up : BOOLEAN, host : Hosts \cup {NoHost}, open : BOOLEAN,
     toDll : Seq(Frame), toHost : Seq(Frame)]
PeerSteps == {"idle", "load", "open", "wait", "ready", "broken"}
Peer == [at : PeerSteps, seq : Nat, req : Kinds \cup {"none"}]

\* What a DLL answers its client takes; a Hello is no request of a session, and what
\* a Disconnect is answered with always fits.
LEMMA ClientTakesReplies ==
  ASSUME NEW e \in Engines
  PROVE  Replies(e) \subseteq Accepts(e)
  <1>1. Ue5Replies \subseteq Ue5Accepts
    BY DEF Ue5Replies, Ue5Accepts, CommonReplies
  <1>2. GlacierReplies \subseteq GlacierAccepts
    BY DEF GlacierReplies, GlacierAccepts, CommonReplies
  <1> QED
    BY <1>1, <1>2 DEF Replies, Accepts, Engines

LEMMA PairsOfReplies ==
  ASSUME NEW e \in Engines, NEW pair \in Replies(e)
  PROVE  /\ pair = <<pair[1], pair[2]>> /\ pair[1] \in Kinds /\ pair[2] \in Kinds
         /\ pair[1] # "Hello"
         /\ pair[1] = "Disconnect" => pair[2] = "DisconnectAck"
  <1>1. \A p \in CommonReplies : p = <<p[1], p[2]>>
    BY DEF CommonReplies
  <1>2. /\ \A p \in Ue5Replies : p = <<p[1], p[2]>>
        /\ \A p \in GlacierReplies : p = <<p[1], p[2]>>
    BY <1>1 DEF Ue5Replies, GlacierReplies
  <1>3. \A p \in CommonReplies : p[1] # "Hello"
    BY DEF CommonReplies
  <1>4. \A p \in Ue5Replies : p[1] # "Hello"
    BY <1>3 DEF Ue5Replies
  <1>5. \A p \in GlacierReplies : p[1] # "Hello"
    BY <1>3 DEF GlacierReplies
  <1>6. \A p \in CommonReplies : p[1] = "Disconnect" => p[2] = "DisconnectAck"
    BY DEF CommonReplies
  <1>7. \A p \in Ue5Replies : p[1] = "Disconnect" => p[2] = "DisconnectAck"
    BY <1>6 DEF Ue5Replies
  <1>8. \A p \in GlacierReplies : p[1] = "Disconnect" => p[2] = "DisconnectAck"
    BY <1>6 DEF GlacierReplies
  <1>9. pair \in Ue5Replies \/ pair \in GlacierReplies
    BY DEF Replies
  <1>10. pair[1] \in Kinds /\ pair[2] \in Kinds
    BY <1>9 DEF Kinds
  <1> QED
    BY <1>2, <1>4, <1>5, <1>7, <1>8, <1>9, <1>10

LEMMA RequestIsNoHello ==
  ASSUME NEW e \in Engines, NEW k \in Requests(e)
  PROVE  k # "Hello" /\ k \in Kinds
  BY PairsOfReplies DEF Requests

\* An answer of a DLL to a request of a session.
LEMMA ReplyIsTaken ==
  ASSUME NEW e \in Engines, NEW k, NEW a \in RepliesTo(e, k)
  PROVE  /\ a \in Kinds
         /\ a = "Error" \/ <<k, a>> \in Accepts(e)
         /\ k = "Disconnect" => a \notin Unbounded
  <1>1. "Error" \in Kinds /\ "Error" \notin Unbounded /\ "DisconnectAck" \notin Unbounded
    BY DEF Kinds, Unbounded
  <1>2. CASE a = "Error"
    BY <1>1, <1>2
  <1>3. CASE a # "Error"
    <2>1. PICK pair \in Replies(e) : pair[1] = k /\ pair[2] = a
      BY <1>3 DEF RepliesTo
    <2>2. pair = <<k, a>> /\ a \in Kinds /\ (k = "Disconnect" => a = "DisconnectAck")
      BY <2>1, PairsOfReplies
    <2>3. <<k, a>> \in Accepts(e)
      BY <2>2, ClientTakesReplies
    <2> QED
      BY <1>1, <2>2, <2>3
  <1> QED
    BY <1>2, <1>3

LEMMA OneMore ==
  ASSUME NEW S, NEW e \in S
  PROVE  /\ Append(<< >>, e) \in Seq(S) /\ Append(<< >>, e) # << >>
         /\ Len(Append(<< >>, e)) = 1 /\ Head(Append(<< >>, e)) = e
  <1>1. << >> \in Seq(S) /\ Len(<< >>) = 0
    BY EmptySeq
  <1> DEFINE s == Append(<< >>, e)
  <1>2. s \in Seq(S) /\ s # << >> /\ Len(s) = 1 /\ s[1] = e
    BY <1>1, AppendProperties
  <1>3. Head(s) = s[1]
    OBVIOUS
  <1> QED
    BY <1>2, <1>3

LEMMA LastOne ==
  ASSUME NEW S, NEW s \in Seq(S), Len(s) = 1
  PROVE  s # << >> /\ Head(s) \in S /\ Tail(s) = << >>
  <1>1. s # << >>
    BY EmptySeq
  <1>2. Tail(s) \in Seq(S) /\ Len(Tail(s)) = 0 /\ Head(s) \in S
    BY <1>1, HeadTailProperties
  <1>3. Tail(s) = << >>
    BY <1>2, EmptySeq
  <1> QED
    BY <1>1, <1>2, <1>3

LEMMA PipeInitInv == PipeInit => PipeInv
  <1> SUFFICES ASSUME PipeInit
               PROVE  PipeInv
    OBVIOUS
  <1>1. image \in ImageType /\ server \in ServerType /\ stop \in BOOLEAN /\ engine \in Engines
    BY DEF PipeInit, NoImage, NoServer, ImageType, ServerType
  <1>2. pipe \in PipeType
    <2>1. << >> \in Seq(Frame)
      BY EmptySeq
    <2> QED
      BY <2>1 DEF PipeInit, NoPipe, NoHost, PipeType
  <1>3. /\ peer \in [Hosts -> Peer]
        /\ \A h \in Hosts : peer[h].seq = 0 /\ peer[h].at = "idle"
    BY DEF PipeInit, Peer, PeerSteps
  <1>4. \A h \in Hosts : peer[h].seq <= MaxRequests[h]
    BY <1>3, PipeAssumption
  <1>5. PipeTypeOK
    BY <1>1, <1>2, <1>3, <1>4
    DEF PipeInit, PipeTypeOK, ImageType, ServerType, PipeType, Peer, PeerSteps
  <1>6. \A h \in Hosts : ~Connected(h)
    BY PipeAssumption DEF PipeInit, Connected, NoPipe, NoHost
  <1>7. Hosting
    BY <1>6 DEF PipeInit, Hosting, NoPipe, NoServer, NoHost
  <1>8. Tearing /\ Gated
    BY DEF PipeInit, Tearing, Gated, NoServer
  <1>9. Greeting /\ Owns
    BY <1>6 DEF Greeting, Owns
  <1> QED
    BY <1>5, <1>7, <1>8, <1>9 DEF PipeInv

LEMMA PipeTypes ==
  PipeTypeOK <=> /\ engine \in Engines /\ image \in ImageType /\ stop \in BOOLEAN
                 /\ server \in ServerType /\ pipe \in PipeType /\ peer \in [Hosts -> Peer]
                 /\ \A h \in Hosts : peer[h].seq <= MaxRequests[h]
                 /\ torn \subseteq Hosts
  BY DEF PipeTypeOK, ImageType, ServerType, PipeType, Peer, PeerSteps

\* The pipe's fields, one by one.
LEMMA PipeFields ==
  ASSUME NEW p \in PipeType
  PROVE  /\ p.up \in BOOLEAN /\ p.host \in Hosts \cup {NoHost} /\ p.open \in BOOLEAN
         /\ p.toDll \in Seq(Frame) /\ p.toHost \in Seq(Frame)
  BY DEF PipeType

\* What becomes of a host at one of its steps.
LEMMA ToStep ==
  ASSUME PipeTypeOK, NEW h \in Hosts, NEW step \in PeerSteps, To(h, step)
  PROVE  /\ peer' \in [Hosts -> Peer]
         /\ peer'[h].at = step /\ peer'[h].seq = peer[h].seq /\ peer'[h].req = "none"
         /\ \A k \in Hosts : k # h => peer'[k] = peer[k]
         /\ \A k \in Hosts : peer'[k].seq <= MaxRequests[k]
  <1>1. peer \in [Hosts -> Peer] /\ \A k \in Hosts : peer[k].seq <= MaxRequests[k]
    BY PipeTypes
  <1> DEFINE new == [peer[h] EXCEPT !.at = step, !.req = "none"]
  <1>2. new \in Peer /\ new.at = step /\ new.seq = peer[h].seq /\ new.req = "none"
    BY <1>1 DEF Peer
  <1>3. peer' = [peer EXCEPT ![h] = new]
    BY <1>1 DEF To, Peer
  <1> HIDE DEF new
  <1> QED
    BY <1>1, <1>2, <1>3

LEMMA AskingStep ==
  ASSUME PipeTypeOK, NEW h \in Hosts, NEW k \in Kinds, Asking(h, k), peer[h].seq < MaxRequests[h]
  PROVE  /\ peer' \in [Hosts -> Peer]
         /\ peer'[h].at = "wait" /\ peer'[h].seq = peer[h].seq + 1 /\ peer'[h].req = k
         /\ \A q \in Hosts : q # h => peer'[q] = peer[q]
         /\ \A q \in Hosts : peer'[q].seq <= MaxRequests[q]
  <1>1. peer \in [Hosts -> Peer] /\ \A q \in Hosts : peer[q].seq <= MaxRequests[q]
    BY PipeTypes
  <1>2. peer[h].seq \in Nat /\ MaxRequests[h] \in Nat
    BY <1>1, PipeAssumption DEF Peer
  <1> DEFINE new == [at |-> "wait", seq |-> peer[h].seq + 1, req |-> k]
  <1>3. new \in Peer /\ new.at = "wait" /\ new.seq = peer[h].seq + 1 /\ new.req = k
    BY <1>2 DEF Peer, PeerSteps
  <1>4. peer' = [peer EXCEPT ![h] = new]
    BY DEF Asking
  <1>5. new.seq <= MaxRequests[h]
    BY <1>2, <1>3
  <1> HIDE DEF new
  <1> QED
    BY <1>1, <1>3, <1>4, <1>5

LEMMA HungUpIs ==
  ASSUME NEW p \in PipeType
  PROVE  /\ HungUp(p) \in PipeType /\ HungUp(p).host = p.host /\ ~HungUp(p).open
         /\ HungUp(p).toDll = p.toDll /\ HungUp(p).toHost = << >>
  <1>1. << >> \in Seq(Frame)
    BY EmptySeq
  <1> QED
    BY <1>1 DEF HungUp, PipeType

\* A pipe without a client is as good as none.
Vacant ==
    pipe.host = NoHost /\ ~pipe.open /\ pipe.toDll = << >> /\ pipe.toHost = << >>

LEMMA VacantKeeps ==
  ASSUME PipeTypeOK', Vacant', Tearing', image'.at = "absent" => pipe' = NoPipe,
         server'.at \notin {"serve", "handle", "write", "restore", "flush"}
  PROVE  PipeInv'
  <1>1. \A h \in Hosts : ~(Connected(h)')
    BY DEF Vacant, Connected
  <1>2. Hosting'
    BY <1>1 DEF Hosting, Vacant
  <1>3. Gated'
    BY DEF Gated
  <1>4. Greeting' /\ Owns'
    BY <1>1 DEF Greeting, Owns
  <1> QED
    BY <1>2, <1>3, <1>4 DEF PipeInv

LEMMA NoPipeIs == NoPipe \in PipeType /\ NoPipe.host = NoHost /\ ~NoPipe.open
                  /\ NoPipe.toDll = << >> /\ NoPipe.toHost = << >>
  <1>1. << >> \in Seq(Frame)
    BY EmptySeq
  <1> QED
    BY <1>1 DEF NoPipe, PipeType

\* The step of a host that is not connected, and leaves the pipe alone.
LEMMA AsideKeeps ==
  ASSUME PipeInv, PipeTypeOK', NEW h \in Hosts, ~Connected(h), UNCHANGED <<engine, server, pipe>>,
         image'.at = "absent" => image.at = "absent",
         \A k \in Hosts : k # h => peer'[k] = peer[k] /\ (k \in torn' <=> k \in torn),
         h \in torn' => peer'[h].at = "broken"
  PROVE  PipeInv'
  <1>1. \A k \in Hosts : /\ Connected(k)' <=> Connected(k)
                         /\ Connected(k)' => k # h
    BY DEF Connected
  <1>2. Unserved' <=> Unserved
    BY DEF Unserved
  <1>3. Hosting'
    BY <1>1 DEF PipeInv, Hosting
  <1>4. Tearing'
    BY DEF PipeInv, PipeTypeOK, Tearing
  <1>5. Greeting'
    BY <1>1, <1>2 DEF PipeInv, Greeting
  <1>6. Gated'
    BY DEF PipeInv, PipeTypeOK, Gated, Connected
  <1>7. Owns'
    BY <1>1 DEF PipeInv, Owns, NoFrame, RequestOf, AnswerTo
  <1> QED
    BY <1>3, <1>4, <1>5, <1>6, <1>7 DEF PipeInv

\* A step of the worker that leaves the pipe alone.
LEMMA ServerKeeps ==
  ASSUME PipeInv, PipeTypeOK', UNCHANGED <<engine, pipe, peer, torn>>,
         image'.at = "absent" => image.at = "absent",
         server'.at \in {"serve", "handle", "write", "restore", "flush"} => pipe.host # NoHost,
         Unserved' => Unserved, Gated'
  PROVE  PipeInv'
  <1>1. \A k \in Hosts : Connected(k)' <=> Connected(k)
    BY DEF Connected
  <1>2. Hosting'
    BY <1>1 DEF PipeInv, Hosting
  <1>3. Tearing'
    BY DEF PipeInv, Tearing
  <1>4. Greeting'
    BY <1>1 DEF PipeInv, Greeting
  <1>5. Owns'
    BY <1>1 DEF PipeInv, Owns, NoFrame, RequestOf, AnswerTo
  <1> QED
    BY <1>2, <1>3, <1>4, <1>5 DEF PipeInv

LEMMA AsideSteps ==
  ASSUME PipeInv, NEW h \in Hosts,
         CheckLoaded(h) \/ OpenFails(h) \/ ReceivedBroken(h)
  PROVE  PipeInv'
  <1>0. PipeTypeOK /\ UNCHANGED <<engine, image, stop, server, pipe, torn>>
    BY DEF PipeInv, CheckLoaded, OpenFails, ReceivedBroken, HostOnly
  <1>1. ~Connected(h)
    BY DEF PipeInv, Hosting, Connected, CheckLoaded, OpenFails, ReceivedBroken
  <1>2. PICK step \in PeerSteps : To(h, step) /\ (h \in torn => step = "broken")
    BY DEF PipeInv, Tearing, CheckLoaded, OpenFails, ReceivedBroken, PeerSteps
  <1>3. /\ peer' \in [Hosts -> Peer] /\ peer'[h].at = step
        /\ \A k \in Hosts : k # h => peer'[k] = peer[k]
        /\ \A k \in Hosts : peer'[k].seq <= MaxRequests[k]
    BY <1>0, <1>2, ToStep
  <1>4. PipeTypeOK'
    BY <1>0, <1>3, PipeTypes
    DEF PipeTypeOK, Peer, PeerSteps
  <1> QED
    BY <1>0, <1>1, <1>2, <1>3, <1>4, AsideKeeps

LEMMA LoadLibraryKeeps ==
  ASSUME PipeInv, NEW h \in Hosts, LoadLibrary(h)
  PROVE  PipeInv'
  <1>0. /\ PipeTypeOK /\ To(h, "open") /\ peer[h].at = "load" /\ UNCHANGED <<engine, pipe, torn>>
        /\ image.at \in {"absent", "loaded"}
    BY DEF PipeInv, LoadLibrary
  <1>1. /\ peer' \in [Hosts -> Peer] /\ peer'[h].at = "open"
        /\ \A k \in Hosts : k # h => peer'[k] = peer[k]
        /\ \A k \in Hosts : peer'[k].seq <= MaxRequests[k]
    BY <1>0, ToStep DEF PeerSteps
  <1>2. h \notin torn /\ ~Connected(h)
    BY <1>0 DEF PipeInv, Tearing, Hosting, Connected
  <1>3. image \in ImageType /\ server \in ServerType /\ stop \in BOOLEAN
    BY <1>0, PipeTypes
  <1>4. CASE image.at = "absent"
    <2>1. PICK same \in BOOLEAN : image' = [at |-> "loaded", refs |-> 1, same |-> same]
      BY <1>4 DEF LoadLibrary
    <2>2. server' = [NoServer EXCEPT !.at = "load"] /\ stop' = FALSE
      BY <1>4 DEF LoadLibrary
    <2>3. image' \in ImageType /\ server' \in ServerType /\ stop' \in BOOLEAN
      BY <2>1, <2>2 DEF ImageType, ServerType, Inside, NoServer
    <2>4. PipeTypeOK'
      BY <1>0, <1>1, <2>3
      DEF PipeTypeOK, ImageType, ServerType, Peer, PeerSteps
    <2>5. Tearing'
      BY <1>0, <1>1, <1>2 DEF PipeInv, PipeTypeOK, Tearing
    <2>6. pipe = NoPipe
      BY <1>4 DEF PipeInv, Hosting
    <2>7. Vacant'
      BY <1>0, <2>6, NoPipeIs DEF Vacant
    <2>8. server'.at = "load" /\ image'.at = "loaded"
      BY <2>1, <2>2 DEF NoServer
    <2> QED
      BY <2>4, <2>5, <2>7, <2>8, VacantKeeps
  <1>5. CASE image.at # "absent"
    <2>1. image' = [image EXCEPT !.refs = @ + 1] /\ UNCHANGED <<server, stop>>
      BY <1>5 DEF LoadLibrary
    <2>2. image' \in ImageType /\ image'.at = image.at
      BY <1>3, <2>1 DEF ImageType
    <2>3. PipeTypeOK'
      BY <1>0, <1>1, <1>3, <2>1, <2>2
      DEF PipeTypeOK, ImageType, ServerType, Peer, PeerSteps
    <2> QED
      BY <1>0, <1>1, <1>2, <2>1, <2>2, <2>3, AsideKeeps
  <1> QED
    BY <1>4, <1>5

LEMMA OpenPipeKeeps ==
  ASSUME PipeInv, NEW h \in Hosts, OpenPipe(h)
  PROVE  PipeInv'
  <1>0. /\ PipeTypeOK /\ peer[h].at = "open" /\ pipe.up /\ pipe.host = NoHost
        /\ peer[h].seq < MaxRequests[h] /\ Asking(h, "Hello")
        /\ UNCHANGED <<engine, image, stop, server, torn>>
    BY DEF PipeInv, OpenPipe, Openable, HostOnly
  <1>1. "Hello" \in Kinds
    BY DEF Kinds
  <1>2. /\ peer' \in [Hosts -> Peer]
        /\ peer'[h].at = "wait" /\ peer'[h].seq = peer[h].seq + 1 /\ peer'[h].req = "Hello"
        /\ \A k \in Hosts : k # h => peer'[k] = peer[k]
        /\ \A k \in Hosts : peer'[k].seq <= MaxRequests[k]
    BY <1>0, <1>1, AskingStep
  <1>3. h \notin torn /\ h # NoHost
    BY <1>0, PipeAssumption DEF PipeInv, Tearing, NoHost
  <1>4. pipe \in PipeType /\ peer[h].seq \in Nat
    BY <1>0, PipeTypes DEF Peer
  <1>5. pipe.toHost = << >> /\ image.at # "absent"
    BY <1>0 DEF PipeInv, Hosting, NoPipe
  <1> DEFINE hello == Framed(h, "Hello")
  <1>6. hello \in Frame /\ hello.seq = peer[h].seq + 1 /\ hello.kind = "Hello"
    BY <1>1, <1>4 DEF Framed, Frame
  <1>7. pipe' = [pipe EXCEPT !.host = h, !.open = TRUE, !.toDll = <<hello>>]
    BY DEF OpenPipe
  <1> HIDE DEF hello
  <1>8. <<hello>> \in Seq(Frame) /\ Len(<<hello>>) = 1 /\ Head(<<hello>>) = hello
    BY <1>6
  <1>9. /\ pipe' \in PipeType /\ pipe'.host = h /\ pipe'.open
        /\ pipe'.toDll = <<hello>> /\ pipe'.toHost = << >>
    BY <1>4, <1>5, <1>7, <1>8 DEF PipeType
  <1>10. PipeTypeOK'
    BY <1>0, <1>2, <1>9
    DEF PipeTypeOK, PipeType, Peer, PeerSteps
  <1>11. server.at \notin {"serve", "handle", "write", "restore", "flush"}
    BY <1>0 DEF PipeInv, Hosting
  <1>12. \A k \in Hosts : Connected(k)' => k = h
    BY <1>9 DEF Connected
  <1>13. Hosting'
    BY <1>0, <1>2, <1>3, <1>5, <1>9, <1>12 DEF Hosting
  <1>14. Tearing'
    BY <1>0, <1>2, <1>3 DEF PipeInv, PipeTypeOK, Tearing
  <1>15. Greeting'
    BY <1>2, <1>9, <1>12 DEF Greeting
  <1>16. Gated'
    BY <1>0, <1>11 DEF Gated
  <1>17. RequestOf(h)'
    BY <1>2, <1>6, <1>8, <1>9 DEF RequestOf
  <1>18. Owns'
    BY <1>12, <1>17 DEF Owns
  <1> QED
    BY <1>10, <1>13, <1>14, <1>15, <1>16, <1>18 DEF PipeInv

LEMMA CallKeeps ==
  ASSUME PipeInv, NEW h \in Hosts, Call(h)
  PROVE  PipeInv'
  <1>0. /\ PipeTypeOK /\ peer[h].at = "ready" /\ peer[h].seq < MaxRequests[h]
        /\ UNCHANGED <<engine, image, stop, server, torn>>
    BY DEF PipeInv, Call, HostOnly
  <1>1. engine \in Engines /\ pipe \in PipeType /\ peer[h].seq \in Nat
    BY <1>0, PipeTypes DEF Peer
  <1>2. PICK k \in Requests(engine) :
          IF pipe.host = h
            THEN pipe' = [pipe EXCEPT !.toDll = Append(@, Framed(h, k))] /\ Asking(h, k)
            ELSE To(h, "broken") /\ UNCHANGED pipe
    BY DEF Call
  <1>3. CASE pipe.host # h
    <2>1. To(h, "broken") /\ UNCHANGED pipe
      BY <1>2, <1>3
    <2>2. /\ peer' \in [Hosts -> Peer] /\ peer'[h].at = "broken"
          /\ \A q \in Hosts : q # h => peer'[q] = peer[q]
          /\ \A q \in Hosts : peer'[q].seq <= MaxRequests[q]
      BY <1>0, <2>1, ToStep DEF PeerSteps
    <2>3. PipeTypeOK'
      BY <1>0, <2>1, <2>2 DEF PipeTypeOK, Peer, PeerSteps
    <2>4. ~Connected(h)
      BY <1>3 DEF Connected
    <2> QED
      BY <1>0, <2>1, <2>2, <2>3, <2>4, AsideKeeps
  <1>4. CASE pipe.host = h
    <2>1. k \in Kinds /\ k # "Hello" /\ Asking(h, k)
      BY <1>1, <1>2, <1>4, RequestIsNoHello
    <2>2. /\ peer' \in [Hosts -> Peer]
          /\ peer'[h].at = "wait" /\ peer'[h].seq = peer[h].seq + 1 /\ peer'[h].req = k
          /\ \A q \in Hosts : q # h => peer'[q] = peer[q]
          /\ \A q \in Hosts : peer'[q].seq <= MaxRequests[q]
      BY <1>0, <2>1, AskingStep
    <2> DEFINE frame == Framed(h, k)
               longer == Append(pipe.toDll, frame)
    <2>3. frame \in Frame /\ frame.seq = peer[h].seq + 1 /\ frame.kind = k
      BY <1>1, <2>1 DEF Framed, Frame
    <2>4. pipe' = [pipe EXCEPT !.toDll = longer]
      BY <1>1, <1>2, <1>4, PipeFields
    <2> HIDE DEF frame
    <2>5. pipe.toDll \in Seq(Frame) /\ pipe.toHost \in Seq(Frame)
      BY <1>1, PipeFields
    <2>6. longer \in Seq(Frame) /\ longer # << >>
      BY <2>3, <2>5, AppendProperties
    <2>7. ToSet(longer) \subseteq ToSet(pipe.toDll) \cup {frame}
      BY <2>3, <2>5, ToSetAppended
    <2>8. pipe.toDll = << >> => Len(longer) = 1 /\ Head(longer) = frame
      BY <2>3, OneMore
    <2> HIDE DEF longer
    <2>9. /\ pipe' \in PipeType /\ pipe'.host = h /\ pipe'.open = pipe.open
          /\ pipe'.toDll = longer /\ pipe'.toHost = pipe.toHost
      BY <1>1, <1>4, <2>4, <2>6 DEF PipeType
    <2>10. PipeTypeOK'
      BY <1>0, <2>2, <2>9 DEF PipeTypeOK, PipeType, Peer, PeerSteps
    <2>11. h # NoHost /\ image.at # "absent"
      BY <1>4, NoPipeIs, PipeAssumption DEF PipeInv, Hosting, NoHost
    <2>12. \A q \in Hosts : Connected(q)' => q = h /\ Connected(h)
      BY <1>4, <2>9 DEF Connected
    <2>13. Connected(h) => ~Unserved
      BY <1>0 DEF PipeInv, Greeting
    <2>14. Hosting'
      BY <1>0, <1>4, <2>2, <2>9, <2>11, <2>12 DEF PipeInv, Hosting
    <2>15. Tearing'
      BY <1>0, <2>1, <2>2 DEF PipeInv, PipeTypeOK, Tearing
    <2>16. Unserved' <=> Unserved
      BY <1>0 DEF Unserved
    <2>17. Greeting'
      BY <2>12, <2>13, <2>16 DEF Greeting
    <2>18. Gated'
      BY <1>0, <1>4, <2>3, <2>6, <2>7, <2>9 DEF PipeInv, Gated
    <2>19. ASSUME Connected(h), h \notin torn
           PROVE  RequestOf(h)'
      <3>1. NoFrame
        BY <1>0, <2>19 DEF PipeInv, Owns, RequestOf, AnswerTo
      <3> QED
        BY <2>2, <2>3, <2>8, <2>9, <3>1 DEF NoFrame, RequestOf
    <2>20. Owns'
      BY <1>0, <2>12, <2>19 DEF Owns
    <2> QED
      BY <2>10, <2>14, <2>15, <2>17, <2>18, <2>20 DEF PipeInv
  <1> QED
    BY <1>3, <1>4

LEMMA ReceivedKeeps ==
  ASSUME PipeInv, NEW h \in Hosts, Received(h)
  PROVE  PipeInv'
  <1> DEFINE reply == Head(pipe.toHost)
             step == After(h, reply.kind)
             less == [pipe EXCEPT !.toHost = Tail(@)]
             rest == IF reply.fits THEN less ELSE pipe
  <1>0. /\ PipeTypeOK /\ peer[h].at = "wait" /\ pipe.host = h /\ pipe.toHost # << >>
        /\ h \notin torn /\ UNCHANGED <<engine, image, stop, server>>
    BY DEF PipeInv, Received, HostOnly
  <1>1. /\ pipe' = IF step = "idle" THEN HungUp(rest) ELSE rest
        /\ torn' = IF reply.fits THEN torn ELSE torn \cup {h}
        /\ To(h, step)
    BY DEF Received
  <1>2. pipe \in PipeType /\ pipe.toHost \in Seq(Frame)
    BY <1>0, PipeTypes, PipeFields
  <1>3. Connected(h)
    BY <1>0, <1>2 DEF PipeInv, Hosting, Connected
  <1>4. AnswerTo(h)
    BY <1>0, <1>3 DEF PipeInv, Owns, NoFrame, RequestOf
  <1>5. pipe.toDll = << >> /\ Tail(pipe.toHost) = << >>
    BY <1>2, <1>4, LastOne DEF AnswerTo
  <1>6. << >> \in Seq(Frame)
    BY EmptySeq
  <1>7. /\ rest \in PipeType /\ rest.host = h /\ rest.open /\ rest.toDll = << >>
        /\ reply.fits => rest.toHost = << >>
    <2>1. less \in PipeType /\ less.host = h /\ less.open /\ less.toDll = << >> /\ less.toHost = << >>
      BY <1>0, <1>2, <1>3, <1>5, <1>6 DEF PipeType, Connected
    <2> HIDE DEF less, reply
    <2> QED
      BY <1>0, <1>2, <1>3, <1>5, <2>1 DEF Connected
  <1>8. step \in {"ready", "idle"} /\ (step = "idle" => peer[h].req \in {"Hello", "Disconnect"})
    <2>1. CASE peer[h].req = "Hello"
      BY <2>1 DEF After
    <2>2. CASE peer[h].req = "Disconnect"
      BY <2>2 DEF After
    <2>3. CASE peer[h].req \notin {"Hello", "Disconnect"}
      BY <2>3 DEF After
    <2> QED
      BY <2>1, <2>2, <2>3
  <1>9. step = "idle" => reply.fits
    BY <1>4, <1>8 DEF AnswerTo
  <1>w. server.at = "write" => ~reply.fits
    BY <1>0, <1>3 DEF PipeInv, Gated, Connected
  <1> HIDE DEF step, rest, reply
  <1>10. /\ pipe' \in PipeType /\ pipe'.host = h /\ (pipe'.open => step = "ready")
         /\ pipe'.toDll = << >> /\ (~pipe'.open => pipe'.toHost = << >>)
         /\ reply.fits => pipe'.toHost = << >>
    BY <1>1, <1>7, <1>8, HungUpIs
  <1>11. /\ peer' \in [Hosts -> Peer] /\ peer'[h].at = step
         /\ \A k \in Hosts : k # h => peer'[k] = peer[k]
         /\ \A k \in Hosts : peer'[k].seq <= MaxRequests[k]
    BY <1>0, <1>1, <1>8, ToStep DEF PeerSteps
  <1>12. /\ torn' \subseteq torn \cup {h} /\ (h \in torn' => step = "ready")
         /\ ~reply.fits => h \in torn'
    BY <1>0, <1>1, <1>8, <1>9
  <1>13. PipeTypeOK'
    BY <1>0, <1>10, <1>11, <1>12 DEF PipeTypeOK, PipeType, Peer, PeerSteps
  <1>14. h # NoHost /\ image.at # "absent"
    BY <1>0, NoPipeIs, PipeAssumption DEF PipeInv, Hosting, NoHost
  <1>15. \A k \in Hosts : Connected(k)' => k = h /\ peer'[k].at = "ready"
    BY <1>10, <1>11 DEF Connected
  <1>16. Hosting'
    BY <1>0, <1>10, <1>14, <1>15 DEF Hosting
  <1>17. Tearing'
    BY <1>0, <1>11, <1>12 DEF PipeInv, PipeTypeOK, Tearing
  <1>18. ~Unserved /\ server.at # "handle"
    BY <1>0, <1>3, <1>5 DEF PipeInv, Greeting, Gated
  <1>19. Greeting'
    BY <1>0, <1>18 DEF Greeting, Unserved
  <1>20. Gated'
    BY <1>0, <1>5, <1>10, <1>12, <1>18, <1>w DEF PipeInv, Gated
  <1>21. Owns'
    BY <1>10, <1>12, <1>15 DEF Owns, NoFrame
  <1> QED
    BY <1>13, <1>16, <1>17, <1>19, <1>20, <1>21 DEF PipeInv

\* A host that has left a body unread was welcomed before that.
LEMMA ReceivedTornKeeps ==
  ASSUME PipeInv, NEW h \in Hosts, ReceivedTorn(h)
  PROVE  PipeInv'
  <1>0. /\ PipeTypeOK /\ peer[h].at = "wait" /\ pipe.host = h /\ h \in torn
        /\ UNCHANGED <<engine, image, stop, server>>
    BY DEF PipeInv, ReceivedTorn, HostOnly
  <1>1. pipe \in PipeType /\ peer \in [Hosts -> Peer]
    BY <1>0, PipeTypes
  <1>2. PICK rest \in {pipe, [pipe EXCEPT !.toHost = << >>]} :
          \/ LET step == After(h, "Error")
             IN  /\ To(h, step)
                 /\ IF step = "idle" THEN pipe' = HungUp(rest) /\ torn' = torn \ {h}
                                     ELSE pipe' = rest /\ UNCHANGED torn
          \/ pipe' = [rest EXCEPT !.toHost = << >>] /\ UNCHANGED <<peer, torn>>
    BY DEF ReceivedTorn
  <1>3. << >> \in Seq(Frame)
    BY EmptySeq
  <1>4. /\ rest \in PipeType /\ rest.host = h /\ rest.open = pipe.open
        /\ rest.toDll = pipe.toDll /\ rest.toHost \in {pipe.toHost, << >>}
    BY <1>0, <1>1, <1>3 DEF PipeType
  <1>5. \/ /\ pipe' \in PipeType /\ pipe'.host = h /\ pipe'.open = pipe.open
           /\ pipe'.toDll = pipe.toDll /\ pipe'.toHost \in {pipe.toHost, << >>} /\ torn' = torn
           /\ To(h, "ready") \/ UNCHANGED peer
        \/ /\ pipe' \in PipeType /\ pipe'.host = h /\ ~pipe'.open
           /\ pipe'.toDll = pipe.toDll /\ pipe'.toHost = << >> /\ torn' = torn \ {h}
           /\ To(h, "idle")
    <2>1. CASE pipe' = [rest EXCEPT !.toHost = << >>] /\ UNCHANGED <<peer, torn>>
      BY <1>3, <1>4, <2>1 DEF PipeType
    <2>2. CASE /\ To(h, After(h, "Error"))
               /\ IF After(h, "Error") = "idle" THEN pipe' = HungUp(rest) /\ torn' = torn \ {h}
                                                ELSE pipe' = rest /\ UNCHANGED torn
      <3>1. After(h, "Error") \in {"ready", "idle"}
        BY DEF After
      <3>2. CASE After(h, "Error") = "idle"
        BY <1>4, <2>2, <3>2, HungUpIs
      <3>3. CASE After(h, "Error") = "ready"
        BY <1>4, <2>2, <3>3
      <3> QED
        BY <3>1, <3>2, <3>3
    <2> QED
      BY <1>2, <2>1, <2>2
  <1>6. /\ peer' \in [Hosts -> Peer]
        /\ peer'[h].at \in {"ready", "wait"} \/ (peer'[h].at = "idle" /\ h \notin torn' /\ ~pipe'.open)
        /\ peer'[h].at = "wait" => peer'[h].req # "Hello"
        /\ \A k \in Hosts : k # h => peer'[k] = peer[k]
        /\ \A k \in Hosts : peer'[k].seq <= MaxRequests[k]
    <2>1. CASE UNCHANGED peer
      BY <1>0, <1>1, <2>1, PipeTypes DEF PipeInv, Tearing
    <2>2. CASE To(h, "ready")
      BY <1>0, <2>2, ToStep DEF PeerSteps
    <2>3. CASE To(h, "idle") /\ h \notin torn' /\ ~pipe'.open
      BY <1>0, <2>3, ToStep DEF PeerSteps
    <2> QED
      BY <1>5, <2>1, <2>2, <2>3
  <1>7. /\ pipe' \in PipeType /\ pipe'.host = h /\ (pipe'.open => pipe.open)
        /\ pipe'.toDll = pipe.toDll /\ pipe'.toHost \in {pipe.toHost, << >>}
        /\ ~pipe'.open => pipe'.toHost = << >>
        /\ torn' \subseteq torn /\ \A k \in Hosts : k # h => (k \in torn' <=> k \in torn)
        /\ pipe'.open => h \in torn'
    BY <1>0, <1>5 DEF PipeInv, Hosting
  <1>8. PipeTypeOK'
    BY <1>0, <1>6, <1>7 DEF PipeTypeOK, PipeType, Peer, PeerSteps
  <1>9. \A k \in Hosts : Connected(k)' => k = h /\ Connected(h)
    BY <1>0, <1>7 DEF Connected
  <1>10. Connected(h) => ~Unserved
    BY <1>0 DEF PipeInv, Tearing, Greeting
  <1>11. h # NoHost /\ image.at # "absent"
    BY <1>0, NoPipeIs, PipeAssumption DEF PipeInv, Hosting, NoHost
  <1>12. Hosting'
    BY <1>0, <1>6, <1>7, <1>9, <1>11 DEF Hosting, Connected
  <1>13. Tearing'
    BY <1>0, <1>6, <1>7 DEF PipeInv, PipeTypeOK, Tearing
  <1>14. Unserved' <=> Unserved
    BY <1>0 DEF Unserved
  <1>15. Greeting'
    BY <1>9, <1>10, <1>14 DEF Greeting
  <1>16. Gated'
    BY <1>0, <1>7 DEF PipeInv, Gated
  <1>17. Owns'
    BY <1>7, <1>9 DEF Owns, Connected
  <1> QED
    BY <1>8, <1>12, <1>13, <1>15, <1>16, <1>17 DEF PipeInv

LEMMA LeaveKeeps ==
  ASSUME PipeInv, NEW h \in Hosts, Leave(h)
  PROVE  PipeInv'
  <1>0. /\ PipeTypeOK /\ To(h, "idle") /\ torn' = torn \ {h}
        /\ UNCHANGED <<engine, image, stop, server>>
    BY DEF PipeInv, Leave, HostOnly
  <1>1. /\ peer' \in [Hosts -> Peer] /\ peer'[h].at = "idle"
        /\ \A k \in Hosts : k # h => peer'[k] = peer[k]
        /\ \A k \in Hosts : peer'[k].seq <= MaxRequests[k]
    BY <1>0, ToStep DEF PeerSteps
  <1>2. pipe \in PipeType
    BY <1>0, PipeTypes
  <1>3. CASE pipe.host = h
    <2>1. pipe' = HungUp(pipe)
      BY <1>3 DEF Leave
    <2>2. /\ pipe' \in PipeType /\ pipe'.host = h /\ ~pipe'.open
          /\ pipe'.toDll = pipe.toDll /\ pipe'.toHost = << >>
      BY <1>2, <1>3, <2>1, HungUpIs
    <2>3. PipeTypeOK'
      BY <1>0, <1>1, <2>2 DEF PipeTypeOK, PipeType, Peer, PeerSteps
    <2>4. h # NoHost /\ image.at # "absent"
      BY <1>3, NoPipeIs, PipeAssumption DEF PipeInv, Hosting, NoHost
    <2>5. \A k \in Hosts : ~(Connected(k)')
      BY <2>2 DEF Connected
    <2>6. Hosting'
      BY <1>0, <2>2, <2>4, <2>5 DEF Hosting
    <2>7. Tearing'
      BY <1>0, <1>1 DEF PipeInv, PipeTypeOK, Tearing
    <2>8. Greeting' /\ Owns'
      BY <2>5 DEF Greeting, Owns
    <2>9. Gated'
      BY <1>0, <2>2 DEF PipeInv, Gated
    <2> QED
      BY <2>3, <2>6, <2>7, <2>8, <2>9 DEF PipeInv
  <1>4. CASE pipe.host # h
    <2>1. UNCHANGED pipe
      BY <1>4 DEF Leave
    <2>2. PipeTypeOK'
      BY <1>0, <1>1, <2>1 DEF PipeTypeOK, Peer, PeerSteps
    <2>3. ~Connected(h)
      BY <1>4 DEF Connected
    <2> QED
      BY <1>0, <1>1, <2>1, <2>2, <2>3, AsideKeeps
  <1> QED
    BY <1>3, <1>4

\* The worker waits for a client, or comes to an end.
LEMMA IdleWorkerKeeps ==
  ASSUME PipeInv, Start \/ Create \/ Listen \/ Accept \/ Flush
  PROVE  PipeInv'
  <1>0. /\ PipeTypeOK /\ UNCHANGED <<engine, image, stop, peer, torn>>
        /\ image.at # "absent" /\ server \in ServerType /\ pipe \in PipeType
    BY PipeTypes DEF PipeInv, Start, Create, Listen, Accept, Flush, ServerOnly, Mapped
  <1>1. Tearing'
    BY <1>0 DEF PipeInv, Tearing
  <1>2. ASSUME server' \in ServerType, pipe' \in PipeType
        PROVE  PipeTypeOK'
    BY <1>0, <1>2 DEF PipeTypeOK, ServerType, PipeType
  <1>3. CASE Start
    <2>1. /\ server' = [server EXCEPT !.at = IF stop THEN "ended" ELSE "create"]
          /\ UNCHANGED pipe
      BY <1>3 DEF Start
    <2>2. server' \in ServerType /\ server'.at \in {"ended", "create"} /\ server.at = "load"
      BY <1>0, <1>3, <2>1 DEF ServerType, Inside, Start
    <2>3. (Unserved' => Unserved) /\ Gated'
      BY <2>2 DEF Unserved, Gated
    <2> QED
      BY <1>0, <1>2, <2>1, <2>2, <2>3, ServerKeeps
  <1>4. CASE Create
    <2>1. server' = [server EXCEPT !.at = "created"] /\ pipe' = [NoPipe EXCEPT !.up = TRUE]
      BY <1>4 DEF Create
    <2>2. server' \in ServerType /\ server'.at = "created"
      BY <1>0, <2>1 DEF ServerType, Inside
    <2>3. pipe' \in PipeType /\ Vacant'
      BY <2>1, NoPipeIs DEF PipeType, Vacant
    <2> QED
      BY <1>0, <1>1, <1>2, <2>2, <2>3, VacantKeeps
  <1>5. CASE Listen /\ pipe.host = NoHost
    <2>1. server' = [server EXCEPT !.at = "listen"] /\ UNCHANGED pipe /\ server.at = "created"
      BY <1>5 DEF Listen
    <2>2. server' \in ServerType /\ server'.at = "listen"
      BY <1>0, <2>1 DEF ServerType, Inside
    <2>3. (Unserved' => Unserved) /\ Gated'
      BY <2>1, <2>2 DEF Unserved, Gated
    <2> QED
      BY <1>0, <1>2, <2>1, <2>2, <2>3, ServerKeeps
  <1>6. CASE Listen /\ pipe.host # NoHost
    <2>1. /\ server' = [server EXCEPT !.at = IF stop THEN "ended" ELSE "create"]
          /\ pipe' = NoPipe
      BY <1>6 DEF Listen
    <2>2. server' \in ServerType /\ server'.at \in {"ended", "create"}
      BY <1>0, <2>1 DEF ServerType, Inside
    <2>3. pipe' \in PipeType /\ Vacant'
      BY <2>1, NoPipeIs DEF Vacant
    <2> QED
      BY <1>0, <1>1, <1>2, <2>2, <2>3, VacantKeeps
  <1>7. CASE Accept /\ stop
    <2>1. server' = [server EXCEPT !.at = "ended", !.gate = FALSE] /\ pipe' = NoPipe
      BY <1>7 DEF Accept
    <2>2. server' \in ServerType /\ server'.at = "ended"
      BY <1>0, <2>1 DEF ServerType, Inside
    <2>3. pipe' \in PipeType /\ Vacant'
      BY <2>1, NoPipeIs DEF Vacant
    <2> QED
      BY <1>0, <1>1, <1>2, <2>2, <2>3, VacantKeeps
  <1>8. CASE Accept /\ ~stop
    <2>1. /\ server' = [server EXCEPT !.at = "serve", !.gate = FALSE]
          /\ UNCHANGED pipe /\ server.at = "listen" /\ pipe.host # NoHost
      BY <1>8 DEF Accept
    <2>2. server' \in ServerType /\ server'.at = "serve" /\ ~server'.gate
      BY <1>0, <2>1 DEF ServerType, Inside
    <2>3. (Unserved' => Unserved) /\ Gated'
      BY <2>1, <2>2 DEF Unserved, Gated
    <2> QED
      BY <1>0, <1>2, <2>1, <2>2, <2>3, ServerKeeps
  <1>9. CASE Flush
    <2>1. server' = [server EXCEPT !.at = "create"] /\ pipe' = NoPipe
      BY <1>9 DEF Flush
    <2>2. server' \in ServerType /\ server'.at = "create"
      BY <1>0, <2>1 DEF ServerType, Inside
    <2>3. pipe' \in PipeType /\ Vacant'
      BY <2>1, NoPipeIs DEF Vacant
    <2> QED
      BY <1>0, <1>1, <1>2, <2>2, <2>3, VacantKeeps
  <1> QED
    BY <1>3, <1>4, <1>5, <1>6, <1>7, <1>8, <1>9

\* It goes on with its client, and leaves the frames alone.
LEMMA ServingKeeps ==
  ASSUME PipeInv, ReadFrame \/ ReadEof \/ RestoreAll
  PROVE  PipeInv'
  <1>0. /\ PipeTypeOK /\ UNCHANGED <<engine, image, stop, pipe, peer, torn>>
        /\ server \in ServerType /\ pipe.host # NoHost
    BY PipeTypes DEF PipeInv, Hosting, ReadFrame, ReadEof, RestoreAll, ServerOnly
  <1>1. PICK step \in {"handle", "restore", "flush"} :
          /\ server' = [server EXCEPT !.at = step]
          /\ step = "handle" => server.at = "serve" /\ server.gate /\ pipe.toDll # << >>
    BY DEF ReadFrame, ReadEof, RestoreAll
  <1>2. server' \in ServerType /\ server'.at = step /\ server'.gate = server.gate
    BY <1>0, <1>1 DEF ServerType, Inside
  <1>3. PipeTypeOK'
    BY <1>0, <1>2 DEF PipeTypeOK, ServerType
  <1>4. ~(Unserved')
    BY <1>2 DEF Unserved
  <1>5. Gated'
    BY <1>0, <1>1, <1>2 DEF PipeInv, Gated
  <1> QED
    BY <1>0, <1>3, <1>4, <1>5, ServerKeeps

LEMMA WrittenKeeps ==
  ASSUME PipeInv, Written \/ WrittenBehind
  PROVE  PipeInv'
  <1>0. /\ PipeTypeOK /\ UNCHANGED <<engine, image, stop, pipe, peer, torn>>
        /\ server \in ServerType /\ server.at = "write" /\ server.gate /\ pipe.host # NoHost
    BY PipeTypes DEF PipeInv, Hosting, Gated, Written, WrittenBehind, ServerOnly
  <1>1. PICK step \in {"serve", "restore"} : server' = [server EXCEPT !.at = step]
    BY DEF Written, WrittenBehind
  <1>2. server' \in ServerType /\ server'.at = step /\ server'.gate
    BY <1>0, <1>1 DEF ServerType, Inside
  <1>3. PipeTypeOK'
    BY <1>0, <1>2 DEF PipeTypeOK, ServerType
  <1>4. ~(Unserved')
    BY <1>2 DEF Unserved
  <1>5. Gated'
    BY <1>0, <1>2 DEF PipeInv, Gated
  <1> QED
    BY <1>0, <1>3, <1>4, <1>5, ServerKeeps

\* The frame the worker answers, taken off the pipe and put back as the answer.
LEMMA AnsweredPipe ==
  ASSUME PipeTypeOK, NEW k \in Kinds, NEW fits \in BOOLEAN, Answered(k, fits),
         pipe.toDll # << >>
  PROVE  /\ pipe' \in PipeType /\ pipe'.host = pipe.host /\ pipe'.open = pipe.open
         /\ pipe'.toDll = Tail(pipe.toDll)
         /\ pipe.toHost = << >> =>
              /\ Len(pipe'.toHost) = 1
              /\ Head(pipe'.toHost).seq = Head(pipe.toDll).seq
              /\ Head(pipe'.toHost).kind = k /\ Head(pipe'.toHost).fits = fits
  <1>1. pipe \in PipeType /\ pipe.toDll \in Seq(Frame) /\ pipe.toHost \in Seq(Frame)
    BY PipeTypes, PipeFields
  <1> DEFINE answer == [Head(pipe.toDll) EXCEPT !.kind = k, !.fits = fits]
             more == IF Behind THEN pipe.toHost ELSE Append(pipe.toHost, answer)
             less == Tail(pipe.toDll)
  <1>2. Head(pipe.toDll) \in Frame /\ less \in Seq(Frame)
    BY <1>1, HeadTailProperties
  <1>3. /\ answer \in Frame /\ answer.seq = Head(pipe.toDll).seq
        /\ answer.kind = k /\ answer.fits = fits
    BY <1>2 DEF Frame
  <1>4. pipe' = [pipe EXCEPT !.toDll = less, !.toHost = more]
    BY <1>1 DEF Answered, PipeType
  <1> HIDE DEF answer, less
  <1>5. more \in Seq(Frame)
    BY <1>1, <1>3, AppendProperties
  <1>6. pipe.toHost = << >> => Len(more) = 1 /\ Head(more) = answer
    BY <1>3, OneMore DEF Behind
  <1> HIDE DEF more
  <1>7. /\ pipe' \in PipeType /\ pipe'.host = pipe.host /\ pipe'.open = pipe.open
        /\ pipe'.toDll = less /\ pipe'.toHost = more
    BY <1>1, <1>2, <1>4, <1>5 DEF PipeType
  <1> QED
    BY <1>3, <1>6, <1>7 DEF less

LEMMA HandshakeKeeps ==
  ASSUME PipeInv, Handshake
  PROVE  PipeInv'
  <1> DEFINE good == Head(pipe.toDll).kind = "Hello" /\ image.same
             k == IF good THEN "Welcome" ELSE "Error"
  <1>0. /\ PipeTypeOK /\ server.at = "serve" /\ ~server.gate
        /\ pipe.toDll # << >> /\ pipe.open
        /\ UNCHANGED <<engine, image, stop, peer, torn>>
    BY DEF PipeInv, Handshake, ServerOnly
  <1>1. /\ server' = [server EXCEPT !.gate = good, !.at = IF good THEN "serve" ELSE "restore"]
        /\ Answered(k, TRUE)
    BY DEF Handshake
  <1>2. pipe \in PipeType /\ server \in ServerType /\ pipe.toDll \in Seq(Frame)
    BY <1>0, PipeTypes, PipeFields
  <1>3. PICK h \in Hosts : pipe.host = h
    BY <1>0, <1>2, PipeFields DEF PipeInv, Hosting
  <1>4. Connected(h) /\ Unserved
    BY <1>0, <1>3 DEF Connected, Unserved
  <1>5. peer[h].at = "wait" /\ peer[h].req = "Hello" /\ pipe.toHost = << >> /\ h \notin torn
    BY <1>4 DEF PipeInv, Greeting, Tearing
  <1>6. RequestOf(h)
    BY <1>0, <1>4, <1>5 DEF PipeInv, Owns, NoFrame, AnswerTo
  <1>7. Tail(pipe.toDll) = << >>
    BY <1>2, <1>6, LastOne DEF RequestOf
  <1>8. k \in Kinds /\ k \in {"Welcome", "Error"}
    BY DEF Kinds
  <1>9. good \in BOOLEAN
    BY <1>2, PipeTypes, <1>0 DEF ImageType
  <1>10. /\ server' \in ServerType
         /\ \/ server'.at = "serve" /\ server'.gate
            \/ server'.at = "restore"
    <2> HIDE DEF good, k
    <2>1. CASE good
      <3>1. server' = [server EXCEPT !.gate = TRUE, !.at = "serve"]
        BY <1>1, <1>9, <2>1
      <3> QED
        BY <1>2, <3>1 DEF ServerType, Inside
    <2>2. CASE ~good
      <3>1. server' = [server EXCEPT !.gate = FALSE, !.at = "restore"]
        BY <1>1, <1>9, <2>2
      <3> QED
        BY <1>2, <3>1 DEF ServerType, Inside
    <2> QED
      BY <2>1, <2>2
  <1> HIDE DEF good, k
  <1>11. TRUE \in BOOLEAN
    OBVIOUS
  <1>12. /\ pipe' \in PipeType /\ pipe'.host = h /\ pipe'.open
         /\ pipe'.toDll = << >> /\ Len(pipe'.toHost) = 1
         /\ Head(pipe'.toHost).seq = Head(pipe.toDll).seq
         /\ Head(pipe'.toHost).kind = k /\ Head(pipe'.toHost).fits = TRUE
    BY <1>0, <1>1, <1>3, <1>5, <1>7, <1>8, <1>11, AnsweredPipe
  <1>13. PipeTypeOK'
    BY <1>0, <1>10, <1>12 DEF PipeTypeOK, PipeType, ServerType
  <1>14. \A q \in Hosts : Connected(q)' => q = h
    BY <1>12 DEF Connected
  <1>15. image.at # "absent" /\ h # NoHost
    BY <1>3, NoPipeIs, PipeAssumption DEF PipeInv, Hosting, NoHost
  <1>16. Hosting'
    BY <1>0, <1>5, <1>12, <1>14, <1>15 DEF Hosting
  <1>17. Tearing'
    BY <1>0 DEF PipeInv, Tearing
  <1>18. Greeting'
    BY <1>10 DEF Greeting, Unserved
  <1>19. Gated'
    <2>1. ToSet(<< >>) = {}
      BY DEF ToSet
    <2> QED
      BY <1>10, <1>12, <2>1 DEF Gated
  <1>20. AnswerTo(h)'
    BY <1>0, <1>5, <1>6, <1>8, <1>12 DEF AnswerTo, RequestOf
  <1>21. Owns'
    BY <1>14, <1>20 DEF Owns
  <1> QED
    BY <1>13, <1>16, <1>17, <1>18, <1>19, <1>21 DEF PipeInv

\* The frame that the worker handles, taken off the pipe without an answer.
LEMMA TakenOff ==
  ASSUME PipeTypeOK, pipe.toDll # << >>, pipe' = [pipe EXCEPT !.toDll = Tail(@)]
  PROVE  /\ pipe' \in PipeType /\ pipe'.host = pipe.host /\ pipe'.open = pipe.open
         /\ pipe'.toDll = Tail(pipe.toDll) /\ pipe'.toHost = pipe.toHost
  <1>1. pipe \in PipeType /\ pipe.toDll \in Seq(Frame)
    BY PipeTypes, PipeFields
  <1> DEFINE less == Tail(pipe.toDll)
  <1>2. less \in Seq(Frame)
    BY <1>1, HeadTailProperties
  <1>3. pipe' = [pipe EXCEPT !.toDll = less]
    BY <1>1 DEF PipeType
  <1> HIDE DEF less
  <1>4. /\ pipe' \in PipeType /\ pipe'.host = pipe.host /\ pipe'.open = pipe.open
        /\ pipe'.toDll = less /\ pipe'.toHost = pipe.toHost
    BY <1>1, <1>2, <1>3 DEF PipeType
  <1> QED
    BY <1>4 DEF less

\* A request whose handler panics, or whose client is gone, is not answered.
LEMMA UnansweredKeeps ==
  ASSUME PipeInv, server.at = "handle", UNCHANGED <<engine, image, stop, peer, torn>>,
         server' = [server EXCEPT !.at = "restore"], pipe' = [pipe EXCEPT !.toDll = Tail(@)]
  PROVE  PipeInv'
  <1>0. PipeTypeOK /\ server \in ServerType /\ pipe.toDll # << >> /\ pipe.host # NoHost
    BY PipeTypes DEF PipeInv, Gated, Hosting
  <1>1. pipe.toDll \in Seq(Frame)
    BY <1>0, PipeTypes, PipeFields
  <1>2. server' \in ServerType /\ server'.at = "restore"
    BY <1>0 DEF ServerType, Inside
  <1>3. /\ pipe' \in PipeType /\ pipe'.host = pipe.host /\ pipe'.open = pipe.open
        /\ pipe'.toDll = Tail(pipe.toDll) /\ pipe'.toHost = pipe.toHost
    BY <1>0, TakenOff
  <1>4. PipeTypeOK'
    BY <1>0, <1>2, <1>3 DEF PipeTypeOK, PipeType, ServerType
  <1>5. \A q \in Hosts : Connected(q)' <=> Connected(q)
    BY <1>3 DEF Connected
  <1>6. image.at # "absent"
    BY <1>0, NoPipeIs DEF PipeInv, Hosting
  <1>7. Hosting'
    BY <1>0, <1>3, <1>5, <1>6 DEF PipeInv, Hosting
  <1>8. Tearing'
    BY DEF PipeInv, Tearing
  <1>9. Greeting' /\ Gated'
    BY <1>2 DEF Greeting, Unserved, Gated
  <1>10. Owns'
    <2>1. SUFFICES ASSUME NEW q \in Hosts, Connected(q), q \notin torn
                   PROVE  NoFrame'
      BY <1>5 DEF Owns
    <2>2. RequestOf(q)
      BY <1>0, <2>1 DEF PipeInv, Owns, NoFrame, AnswerTo
    <2>3. Tail(pipe.toDll) = << >>
      BY <1>1, <2>2, LastOne DEF RequestOf
    <2> QED
      BY <1>3, <2>2, <2>3 DEF NoFrame, RequestOf
  <1> QED
    BY <1>4, <1>7, <1>8, <1>9, <1>10 DEF PipeInv

LEMMA AnswerKeeps ==
  ASSUME PipeInv, Answering
  PROVE  PipeInv'
  <1>0. /\ PipeTypeOK /\ server.at = "handle" /\ UNCHANGED <<engine, image, stop, peer, torn>>
        /\ pipe.toDll # << >> /\ server.gate
    BY DEF PipeInv, Answering, ServerOnly, Gated
  <1>1. /\ pipe \in PipeType /\ server \in ServerType /\ pipe.toDll \in Seq(Frame)
        /\ engine \in Engines
    BY <1>0, PipeTypes, PipeFields
  <1> DEFINE asked == Head(pipe.toDll).kind
  <1>2. /\ ToSet(Tail(pipe.toDll)) \subseteq ToSet(pipe.toDll)
        /\ \A f \in ToSet(pipe.toDll) : f.kind \in Requests(engine)
        /\ asked \in Requests(engine)
    <2>1. \A f \in ToSet(pipe.toDll) : f.kind \in Requests(engine)
      BY <1>0 DEF PipeInv, Gated
    <2>2. /\ ToSet(Tail(pipe.toDll)) \subseteq ToSet(pipe.toDll)
          /\ Head(pipe.toDll) \in ToSet(pipe.toDll)
      BY <1>0, <1>1, ToSetTail
    <2> QED
      BY <2>1, <2>2
  <1>3. PICK k \in RepliesTo(engine, asked) :
        \E fits \in {TRUE, k \notin Unbounded} :
          IF pipe.open
            THEN /\ Answered(k, fits)
                 /\ server' = [server EXCEPT !.at = CASE k = "DisconnectAck" -> "restore"
                                                      [] ~fits -> "write"
                                                      [] OTHER -> "serve"]
            ELSE /\ pipe' = [pipe EXCEPT !.toDll = Tail(@)]
                 /\ server' = [server EXCEPT !.at = "restore"]
    BY DEF Answering
  <1>4. PICK fits \in {TRUE, k \notin Unbounded} :
          IF pipe.open
            THEN /\ Answered(k, fits)
                 /\ server' = [server EXCEPT !.at = CASE k = "DisconnectAck" -> "restore"
                                                      [] ~fits -> "write"
                                                      [] OTHER -> "serve"]
            ELSE /\ pipe' = [pipe EXCEPT !.toDll = Tail(@)]
                 /\ server' = [server EXCEPT !.at = "restore"]
    BY <1>3
  <1>5. CASE ~pipe.open
    <2>1. pipe' = [pipe EXCEPT !.toDll = Tail(@)] /\ server' = [server EXCEPT !.at = "restore"]
      BY <1>4, <1>5
    <2> QED
      BY <1>0, <2>1, UnansweredKeeps
  <1>6. CASE pipe.open
    <2>1. /\ Answered(k, fits)
          /\ server' = [server EXCEPT !.at = CASE k = "DisconnectAck" -> "restore"
                                               [] ~fits -> "write"
                                               [] OTHER -> "serve"]
      BY <1>4, <1>6
    <2>2. /\ k \in Kinds /\ (k = "Error" \/ <<asked, k>> \in Accepts(engine))
          /\ asked = "Disconnect" => k \notin Unbounded
      BY <1>1, ReplyIsTaken
    <2>3. fits \in BOOLEAN /\ (asked = "Disconnect" => fits)
      BY <2>2
    <2>4. asked # "Hello"
      BY <1>1, <1>2, RequestIsNoHello
    <2>5. /\ server' \in ServerType /\ server'.at \in {"serve", "write", "restore"} /\ server'.gate
          /\ server'.at = "write" => ~fits
      <3>1. PICK step \in {"serve", "write", "restore"} :
              server' = [server EXCEPT !.at = step] /\ (step = "write" => ~fits)
        BY <2>1
      <3> QED
        BY <1>0, <1>1, <3>1 DEF ServerType, Inside
    <2>6. /\ pipe' \in PipeType /\ pipe'.host = pipe.host /\ pipe'.open
          /\ pipe'.toDll = Tail(pipe.toDll)
          /\ pipe.toHost = << >> =>
               /\ Len(pipe'.toHost) = 1
               /\ Head(pipe'.toHost).seq = Head(pipe.toDll).seq
               /\ Head(pipe'.toHost).kind = k /\ Head(pipe'.toHost).fits = fits
      BY <1>0, <1>6, <2>1, <2>2, <2>3, AnsweredPipe
    <2>7. PipeTypeOK'
      BY <1>0, <2>5, <2>6 DEF PipeTypeOK, PipeType, ServerType
    <2>8. \A q \in Hosts : Connected(q)' <=> Connected(q)
      BY <1>6, <2>6 DEF Connected
    <2>9. pipe.host # NoHost /\ image.at # "absent"
      BY <1>0, NoPipeIs DEF PipeInv, Hosting
    <2>10. Hosting'
      BY <1>0, <2>6, <2>8, <2>9 DEF PipeInv, Hosting
    <2>11. Tearing'
      BY <1>0 DEF PipeInv, Tearing
    <2>12. Greeting'
      BY <2>5 DEF Greeting, Unserved
    <2>13. Gated'
      <3>1. ASSUME server'.at = "write", pipe.host \notin torn
            PROVE  pipe'.toHost # << >> /\ ~Head(pipe'.toHost).fits
        <4>1. PICK q \in Hosts : pipe.host = q
          BY <1>1, <2>9, PipeFields
        <4>2. pipe.toHost = << >>
          BY <1>0, <1>6, <3>1, <4>1 DEF PipeInv, Owns, Connected, NoFrame, RequestOf, AnswerTo
        <4> QED
          BY <2>5, <2>6, <3>1, <4>2, PipeFields, LastOne
      <3> QED
        BY <1>0, <1>2, <2>5, <2>6, <3>1 DEF Gated
    <2>14. ASSUME NEW q \in Hosts, Connected(q), q \notin torn
           PROVE  AnswerTo(q)'
      <3>1. RequestOf(q)
        BY <1>0, <2>14 DEF PipeInv, Owns, NoFrame, AnswerTo
      <3>2. Tail(pipe.toDll) = << >>
        BY <1>1, <3>1, LastOne DEF RequestOf
      <3>3. /\ peer'[q].at = "wait" /\ peer'[q].req = asked /\ pipe'.toDll = << >>
            /\ Len(pipe'.toHost) = 1 /\ Head(pipe'.toHost).seq = peer'[q].seq
            /\ Head(pipe'.toHost).kind = k /\ Head(pipe'.toHost).fits = fits
        BY <1>0, <2>6, <3>1, <3>2 DEF RequestOf
      <3> HIDE DEF asked
      <3> QED
        BY <1>0, <2>2, <2>3, <2>4, <3>3 DEF AnswerTo
    <2>15. Owns'
      BY <1>0, <2>8, <2>14 DEF Owns
    <2> QED
      BY <2>7, <2>10, <2>11, <2>12, <2>13, <2>15 DEF PipeInv
  <1> QED
    BY <1>5, <1>6

LEMMA EjectKeeps ==
  ASSUME PipeInv, NEW h \in Hosts, Eject(h)
  PROVE  PipeInv'
  <1>0. /\ PipeTypeOK /\ image.at = "loaded" /\ UNCHANGED <<engine, peer, torn>>
        /\ image \in ImageType /\ server \in ServerType /\ pipe \in PipeType /\ stop \in BOOLEAN
    BY PipeTypes DEF PipeInv, Eject
  <1>1. CASE image.refs > 1
    <2>1. image' = [image EXCEPT !.refs = @ - 1] /\ UNCHANGED <<stop, server, pipe>>
      BY <1>1 DEF Eject
    <2>2. image' \in ImageType /\ image'.at = "loaded"
      BY <1>0, <1>1, <2>1 DEF ImageType
    <2>3. PipeTypeOK'
      BY <1>0, <2>1, <2>2 DEF PipeTypeOK, ImageType, ServerType, PipeType
    <2>4. (Unserved' => Unserved) /\ Gated'
      BY <1>0, <2>1 DEF PipeInv, Unserved, Gated
    <2> QED
      BY <1>0, <2>1, <2>2, <2>3, <2>4, ServerKeeps DEF PipeInv, Hosting
  <1>2. CASE ~(image.refs > 1)
    <2>1. /\ image' = [image EXCEPT !.refs = 0, !.at = "detach"]
          /\ stop' = TRUE
          /\ server' = [server EXCEPT !.at =
                 CASE @ = "listen" -> "ended"
                   [] @ = "serve" /\ pipe.toDll = << >> -> "restore"
                   [] @ = "write" -> "restore"
                   [] @ = "flush" -> "create"
                   [] OTHER -> @]
          /\ pipe' = IF server.at \in {"listen", "flush"} THEN NoPipe ELSE pipe
      BY <1>2 DEF Eject
    <2>2. image' \in ImageType /\ image'.at = "detach"
      BY <1>0, <2>1 DEF ImageType
    <2>3. stop' \in BOOLEAN
      BY <2>1
    <2>4. ASSUME server' \in ServerType, pipe' \in PipeType
          PROVE  PipeTypeOK'
      BY <1>0, <2>2, <2>3, <2>4 DEF PipeTypeOK, ImageType, ServerType, PipeType
    <2>5. CASE server.at \in {"listen", "flush"}
      <3>1. /\ pipe' = NoPipe
            /\ server' = [server EXCEPT !.at = "ended"] \/ server' = [server EXCEPT !.at = "create"]
        BY <1>0, <2>1, <2>5 DEF ServerType
      <3>2. server' \in ServerType /\ server'.at \in {"ended", "create"}
        BY <1>0, <3>1 DEF ServerType, Inside
      <3>3. pipe' \in PipeType /\ Vacant'
        BY <3>1, NoPipeIs DEF Vacant
      <3>4. Tearing'
        BY <1>0 DEF PipeInv, Tearing
      <3> QED
        BY <2>2, <2>4, <3>2, <3>3, <3>4, VacantKeeps
    <2>6. CASE server.at = "write" \/ (server.at = "serve" /\ pipe.toDll = << >>)
      <3>1. server' = [server EXCEPT !.at = "restore"] /\ UNCHANGED pipe
        BY <1>0, <2>1, <2>6 DEF ServerType
      <3>2. server' \in ServerType /\ server'.at = "restore"
        BY <1>0, <3>1 DEF ServerType, Inside
      <3>3. (Unserved' => Unserved) /\ Gated' /\ pipe.host # NoHost
        BY <2>6, <3>2 DEF PipeInv, Hosting, Unserved, Gated
      <3> QED
        BY <1>0, <2>2, <2>4, <3>1, <3>2, <3>3, ServerKeeps
    <2>7. CASE server.at \notin {"listen", "write", "flush"} /\ ~(server.at = "serve" /\ pipe.toDll = << >>)
      <3>1. UNCHANGED <<server, pipe>>
        BY <1>0, <2>1, <2>7 DEF ServerType
      <3>2. (Unserved' => Unserved) /\ Gated'
        BY <1>0, <3>1 DEF PipeInv, Unserved, Gated
      <3> QED
        BY <1>0, <2>2, <2>4, <3>1, <3>2, ServerKeeps DEF PipeInv, Hosting
    <2> QED
      BY <2>5, <2>6, <2>7
  <1> QED
    BY <1>1, <1>2

LEMMA GoneKeeps ==
  ASSUME PipeInv, Unmap \/ GameRestarts
  PROVE  PipeInv'
  <1>0. /\ PipeTypeOK /\ server' = NoServer /\ pipe' = NoPipe /\ UNCHANGED <<engine, peer, torn>>
        /\ image \in ImageType /\ stop \in BOOLEAN
    BY PipeTypes DEF PipeInv, Unmap, GameRestarts
  <1>1. image' = [image EXCEPT !.at = "crashed"] \/ image' = NoImage
    BY DEF Unmap, GameRestarts
  <1>2. image' \in ImageType
    <2>1. NoImage \in ImageType
      BY DEF ImageType, NoImage
    <2>2. [image EXCEPT !.at = "crashed"] \in ImageType
      BY <1>0 DEF ImageType
    <2> QED
      BY <1>1, <2>1, <2>2
  <1>3. stop' \in BOOLEAN
    BY <1>0 DEF Unmap, GameRestarts
  <1>4. server' \in ServerType /\ server'.at = "none"
    BY <1>0 DEF ServerType, NoServer
  <1>5. pipe' \in PipeType /\ Vacant'
    BY <1>0, NoPipeIs DEF Vacant
  <1>6. PipeTypeOK'
    BY <1>0, <1>2, <1>3, <1>4, <1>5 DEF PipeTypeOK, ImageType, ServerType, PipeType
  <1>7. Tearing'
    BY <1>0 DEF PipeInv, Tearing
  <1> QED
    BY <1>0, <1>4, <1>5, <1>6, <1>7, VacantKeeps

LEMMA PipeNextInv == PipeInv /\ [PipeNext]_pipeVars => PipeInv'
  <1> SUFFICES ASSUME PipeInv, [PipeNext]_pipeVars
               PROVE  PipeInv'
    OBVIOUS
  <1>1. ASSUME NEW h \in Hosts,
               CheckLoaded(h) \/ OpenFails(h) \/ ReceivedBroken(h)
        PROVE  PipeInv'
    BY <1>1, AsideSteps
  <1>2. ASSUME NEW h \in Hosts, LoadLibrary(h)
        PROVE  PipeInv'
    BY <1>2, LoadLibraryKeeps
  <1>3. ASSUME NEW h \in Hosts, OpenPipe(h)
        PROVE  PipeInv'
    BY <1>3, OpenPipeKeeps
  <1>4. ASSUME NEW h \in Hosts, Call(h)
        PROVE  PipeInv'
    BY <1>4, CallKeeps
  <1>5. ASSUME NEW h \in Hosts, Received(h)
        PROVE  PipeInv'
    BY <1>5, ReceivedKeeps
  <1>6. ASSUME NEW h \in Hosts, ReceivedTorn(h)
        PROVE  PipeInv'
    BY <1>6, ReceivedTornKeeps
  <1>7. ASSUME NEW h \in Hosts, Leave(h)
        PROVE  PipeInv'
    BY <1>7, LeaveKeeps
  <1>8. ASSUME NEW h \in Hosts, Eject(h)
        PROVE  PipeInv'
    BY <1>8, EjectKeeps
  <1>9. ASSUME Start \/ Create \/ Listen \/ Accept \/ Flush
        PROVE  PipeInv'
    BY <1>9, IdleWorkerKeeps
  <1>10. ASSUME ReadFrame \/ ReadEof \/ RestoreAll
         PROVE  PipeInv'
    BY <1>10, ServingKeeps
  <1>11. ASSUME Handshake
         PROVE  PipeInv'
    BY <1>11, HandshakeKeeps
  <1>12. ASSUME Answer \/ AnswerBehind
         PROVE  PipeInv'
    BY <1>12, AnswerKeeps DEF Answer, AnswerBehind
  <1>13. ASSUME Panics
         PROVE  PipeInv'
    BY <1>13, UnansweredKeeps DEF Panics, ServerOnly
  <1>14. ASSUME Unmap \/ GameRestarts
         PROVE  PipeInv'
    BY <1>14, GoneKeeps
  <1>w. ASSUME Written \/ WrittenBehind
        PROVE  PipeInv'
    BY <1>w, WrittenKeeps
  <1>15. CASE UNCHANGED pipeVars
    <2>1. UNCHANGED <<engine, image, stop, server, pipe, peer, torn>>
      BY <1>15 DEF pipeVars
    <2> QED
      BY <2>1
      DEF PipeInv, PipeTypeOK, Hosting, Tearing, Greeting, Gated, Owns, Connected, Unserved,
          NoFrame, RequestOf, AnswerTo
  <1> QED
    BY <1>1, <1>2, <1>3, <1>4, <1>5, <1>6, <1>7, <1>8, <1>9, <1>10, <1>11, <1>12, <1>13,
       <1>14, <1>w, <1>15
    DEF PipeNext, WorkerStep

\* The frames in the pipe of a connected host that has left no body unread are the
\* answer to the request it waits with, and that alone, of a kind its client takes:
\* there are no request numbers on the wire, so the order of the frames is all that
\* recv_frame and the typed clients go by.
THEOREM OwnCorrect == PipeSpec => []AnswersOwn
  <1>1. PipeInv => AnswersOwn
    <2> SUFFICES ASSUME PipeInv, NEW h \in Hosts, pipe.host = h, pipe.open, h \notin torn,
                        pipe.toHost # << >>
                 PROVE  AnswerTo(h)
      BY DEF AnswersOwn, AnswerTo
    <2> QED
      BY DEF PipeInv, Owns, Connected, NoFrame, RequestOf
  <1> QED
    BY <1>1, PipeInitInv, PipeNextInv, PTL DEF PipeSpec

\* The game, the DLL, the pipe and the hosts are never in a state that the code's
\* types and steps do not have, and no host sends more requests than it may.
THEOREM PipeTypeCorrect == PipeSpec => []PipeTypeOK
  <1>1. PipeInv => PipeTypeOK
    BY DEF PipeInv
  <1> QED
    BY <1>1, PipeInitInv, PipeNextInv, PTL DEF PipeSpec

-----------------------------------------------------------------------------
(* A request of a host as one call (PipeCall).                              *)

LEMMA SameProtocol ==
  /\ C!Kinds = Kinds /\ C!Engines = Engines
  /\ C!Requests(engine) = Requests(engine) /\ C!Accepts(engine) = Accepts(engine)
  <1>1. C!Ue5Replies = Ue5Replies /\ C!GlacierReplies = GlacierReplies
    BY DEF C!Ue5Replies, Ue5Replies, C!GlacierReplies, GlacierReplies, C!CommonReplies, CommonReplies
  <1>2. C!Ue5Accepts = Ue5Accepts /\ C!GlacierAccepts = GlacierAccepts
    BY DEF C!Ue5Accepts, Ue5Accepts, C!GlacierAccepts, GlacierAccepts
  <1>3. C!Kinds = Kinds
    BY <1>1 DEF C!Kinds, Kinds
  <1>4. C!Requests(engine) = Requests(engine)
    BY <1>1 DEF C!Requests, Requests, C!Replies, Replies
  <1>5. C!Accepts(engine) = Accepts(engine)
    BY <1>2 DEF C!Accepts, Accepts
  <1>6. C!Engines = Engines
    BY DEF C!Engines, Engines
  <1> QED
    BY <1>3, <1>4, <1>5, <1>6

LEMMA BecomesIs ==
  ASSUME NEW h \in Hosts, \A q \in Hosts : q # h => CallOf(q)' = CallOf(q)
  PROVE  hostCalls[h] = CallOf(h) /\ C!Becomes(h, CallOf(h)')
  <1>1. hostCalls' = [hostCalls EXCEPT ![h] = CallOf(h)']
    BY DEF hostCalls
  <1> QED
    BY <1>1 DEF hostCalls, C!Becomes

\* One host's call moves as PipeCall has it, and the others' stay.
LEMMA CallGoes ==
  ASSUME engine' = engine, NEW h \in Hosts,
         \A q \in Hosts : q # h => CallOf(q)' = CallOf(q),
         \/ CallOf(h)' = CallOf(h)
         \/ /\ CallOf(h) = C!NoCall
            /\ \/ CallOf(h)' = C!Lost
               \/ \E kind \in Requests(engine) \cup {"Hello"} : CallOf(h)' = C!Asked(kind)
         \/ \E kind \in Requests(engine) :
               CallOf(h) = C!Asked(kind) /\ CallOf(h)' = C!Running(kind)
         \/ \E kind \in Kinds :
               /\ CallOf(h) = IF kind = "Hello" THEN C!Asked(kind) ELSE C!Running(kind)
               /\ \E reply \in C!Answers(kind) : CallOf(h)' = C!Answer(kind, reply)
         \/ CallOf(h) # C!NoCall /\ (CallOf(h)' = C!Lost \/ CallOf(h)' = C!NoCall)
  PROVE  [C!CallNext]_(C!callVars)
  <1>1. hostCalls[h] = CallOf(h) /\ C!Becomes(h, CallOf(h)')
    BY BecomesIs
  <1>2. CASE CallOf(h)' = CallOf(h)
    <2>1. hostCalls' = hostCalls
      BY <1>2 DEF hostCalls
    <2> QED
      BY <2>1 DEF C!callVars
  <1>3. CASE /\ CallOf(h) = C!NoCall
             /\ \/ CallOf(h)' = C!Lost
                \/ \E kind \in Requests(engine) \cup {"Hello"} : CallOf(h)' = C!Asked(kind)
    <2>1. C!Ask(h)
      BY <1>1, <1>3, SameProtocol DEF C!Ask
    <2> QED
      BY <2>1 DEF C!CallNext
  <1>4. CASE \E kind \in Requests(engine) :
               CallOf(h) = C!Asked(kind) /\ CallOf(h)' = C!Running(kind)
    <2>1. C!Run(h)
      BY <1>1, <1>4, SameProtocol DEF C!Run
    <2> QED
      BY <2>1 DEF C!CallNext
  <1>5. CASE \E kind \in Kinds :
               /\ CallOf(h) = IF kind = "Hello" THEN C!Asked(kind) ELSE C!Running(kind)
               /\ \E reply \in C!Answers(kind) : CallOf(h)' = C!Answer(kind, reply)
    <2>1. C!Reply(h)
      BY <1>1, <1>5, SameProtocol DEF C!Reply
    <2> QED
      BY <2>1 DEF C!CallNext
  <1>6. CASE CallOf(h) # C!NoCall /\ (CallOf(h)' = C!Lost \/ CallOf(h)' = C!NoCall)
    <2>1. C!Lose(h) \/ C!End(h)
      BY <1>1, <1>6 DEF C!Lose, C!End
    <2> QED
      BY <2>1 DEF C!CallNext
  <1> QED
    BY <1>2, <1>3, <1>4, <1>5, <1>6

\* The call of a host by its step, and by the frames if it is in step.
LEMMA CallIs ==
  ASSUME NEW h \in Hosts
  PROVE  /\ peer[h].at # "wait" => CallOf(h) = C!NoCall
         /\ peer[h].at = "wait" => CallOf(h) # C!NoCall
         /\ peer[h].at = "wait" /\ ~InStep(h) => CallOf(h) = C!Lost
         /\ peer[h].at = "wait" /\ InStep(h) =>
              /\ pipe.toHost # << >> => CallOf(h) = C!Answer(peer[h].req, Head(pipe.toHost).kind)
              /\ pipe.toHost = << >> /\ pipe.toDll = << >> => CallOf(h) = C!Lost
              /\ pipe.toHost = << >> /\ pipe.toDll # << >> =>
                   CallOf(h) = IF server.at = "handle" THEN C!Running(peer[h].req)
                                                       ELSE C!Asked(peer[h].req)
  BY DEF CallOf, C!NoCall, C!Lost, C!Answer, C!Running, C!Asked

LEMMA CallIsNext ==
  ASSUME NEW h \in Hosts
  PROVE  /\ peer'[h].at # "wait" => CallOf(h)' = C!NoCall
         /\ peer'[h].at = "wait" => CallOf(h)' # C!NoCall
         /\ peer'[h].at = "wait" /\ ~InStep(h)' => CallOf(h)' = C!Lost
         /\ peer'[h].at = "wait" /\ InStep(h)' =>
              /\ pipe'.toHost # << >> => CallOf(h)' = C!Answer(peer'[h].req, Head(pipe'.toHost).kind)
              /\ pipe'.toHost = << >> /\ pipe'.toDll = << >> => CallOf(h)' = C!Lost
              /\ pipe'.toHost = << >> /\ pipe'.toDll # << >> =>
                   CallOf(h)' = IF server'.at = "handle" THEN C!Running(peer'[h].req)
                                                         ELSE C!Asked(peer'[h].req)
  BY DEF CallOf, C!NoCall, C!Lost, C!Answer, C!Running, C!Asked

\* A host that is out of step before and after has lost its call, or has none.
LEMMA OutOfStep ==
  ASSUME NEW q \in Hosts, ~InStep(q), ~InStep(q)', peer'[q] = peer[q]
  PROVE  CallOf(q)' = CallOf(q)
  BY CallIs, CallIsNext

\* A step of one host, or one that it has no part in, leaves the call of another.
LEMMA OtherCallStays ==
  ASSUME NEW q \in Hosts, peer'[q] = peer[q], q \in torn' <=> q \in torn,
         \/ server' = server /\ pipe' = pipe
         \/ pipe.host # q /\ pipe'.host # q
  PROVE  CallOf(q)' = CallOf(q)
  <1>1. CASE server' = server /\ pipe' = pipe
    BY <1>1 DEF CallOf, InStep
  <1>2. CASE pipe.host # q /\ pipe'.host # q
    BY <1>2, OutOfStep DEF InStep
  <1> QED
    BY <1>1, <1>2

\* A host's step after which it does not wait ends its call, if it has one.
LEMMA HostLetsGo ==
  ASSUME engine' = engine, NEW h \in Hosts, peer'[h].at # "wait",
         \A q \in Hosts : q # h => CallOf(q)' = CallOf(q)
  PROVE  [C!CallNext]_(C!callVars)
  <1>1. CallOf(h)' = C!NoCall
    BY CallIsNext
  <1>2. peer[h].at # "wait" => CallOf(h) = C!NoCall
    BY CallIs
  <1>3. peer[h].at = "wait" => CallOf(h) # C!NoCall
    BY CallIs
  <1> QED
    BY <1>1, <1>2, <1>3, CallGoes

\* A step of the worker or the loader is one of the call of the host that is in step.
LEMMA ServingMoves ==
  ASSUME UNCHANGED <<engine, peer, torn>>, \A q \in Hosts : InStep(q)' => InStep(q),
         \A h \in Hosts : InStep(h) /\ peer[h].at = "wait" =>
            \/ CallOf(h)' = CallOf(h)
            \/ \E kind \in Requests(engine) :
                  CallOf(h) = C!Asked(kind) /\ CallOf(h)' = C!Running(kind)
            \/ \E kind \in Kinds :
                  /\ CallOf(h) = IF kind = "Hello" THEN C!Asked(kind) ELSE C!Running(kind)
                  /\ \E reply \in C!Answers(kind) : CallOf(h)' = C!Answer(kind, reply)
            \/ CallOf(h)' = C!Lost
  PROVE  [C!CallNext]_(C!callVars)
  <1>1. ASSUME NEW q \in Hosts, ~InStep(q)
        PROVE  CallOf(q)' = CallOf(q)
    BY <1>1, OutOfStep
  <1>2. ASSUME NEW q \in Hosts, peer[q].at # "wait"
        PROVE  CallOf(q)' = CallOf(q)
    BY <1>2, CallIs, CallIsNext
  <1>3. CASE \E h \in Hosts : InStep(h) /\ peer[h].at = "wait"
    <2>1. PICK h \in Hosts : InStep(h) /\ peer[h].at = "wait"
      BY <1>3
    <2>2. \A q \in Hosts : q # h => CallOf(q)' = CallOf(q)
      BY <1>1, <2>1 DEF InStep
    <2>3. CallOf(h) # C!NoCall
      BY <2>1, CallIs
    <2> QED
      BY <2>1, <2>2, <2>3, CallGoes
  <1>4. CASE ~\E h \in Hosts : InStep(h) /\ peer[h].at = "wait"
    <2>1. \A q \in Hosts : CallOf(q)' = CallOf(q)
      BY <1>1, <1>2, <1>4
    <2>2. hostCalls' = hostCalls
      BY <2>1 DEF hostCalls
    <2> QED
      BY <2>2 DEF C!callVars
  <1> QED
    BY <1>3, <1>4

\* A step of the worker that moves no frame and takes no request up: the calls stay, or
\* are lost with the pipe.
LEMMA ServingIdles ==
  ASSUME PipeInv, UNCHANGED <<engine, peer, torn>>,
         \/ pipe' = pipe /\ (server'.at = "handle" <=> server.at = "handle")
         \/ ~pipe'.open
  PROVE  [C!CallNext]_(C!callVars)
  <1>1. ASSUME NEW q \in Hosts, InStep(q)'
        PROVE  InStep(q)
    BY <1>1 DEF InStep
  <1>2. ASSUME NEW q \in Hosts, InStep(q), peer[q].at = "wait"
        PROVE  CallOf(q)' = CallOf(q) \/ CallOf(q)' = C!Lost
    <2>1. CASE pipe' = pipe /\ (server'.at = "handle" <=> server.at = "handle")
      BY <2>1 DEF CallOf, InStep
    <2>2. CASE ~pipe'.open
      BY <1>2, <2>2, CallIsNext DEF InStep
    <2> QED
      BY <2>1, <2>2
  <1> QED
    BY <1>1, <1>2, ServingMoves

\* The host's steps that end a call, or have none.
LEMMA AsideCalls ==
  ASSUME PipeInv, NEW h \in Hosts,
         CheckLoaded(h) \/ LoadLibrary(h) \/ OpenFails(h) \/ ReceivedBroken(h)
  PROVE  [C!CallNext]_(C!callVars)
  <1>0. PipeTypeOK /\ engine' = engine /\ pipe' = pipe /\ torn' = torn
    BY DEF PipeInv, CheckLoaded, LoadLibrary, OpenFails, ReceivedBroken, HostOnly
  <1>1. PICK step \in PeerSteps : To(h, step) /\ step # "wait"
    BY DEF CheckLoaded, LoadLibrary, OpenFails, ReceivedBroken, PeerSteps
  <1>2. peer'[h].at = step /\ \A q \in Hosts : q # h => peer'[q] = peer[q]
    BY <1>0, <1>1, ToStep
  <1>3. server' = server \/ \A q \in Hosts : pipe.host # q
    <2>1. CASE LoadLibrary(h) /\ image.at = "absent"
      BY <2>1, NoPipeIs, PipeAssumption DEF PipeInv, Hosting, NoHost
    <2>2. CASE ~(LoadLibrary(h) /\ image.at = "absent")
      BY <2>2 DEF CheckLoaded, LoadLibrary, OpenFails, ReceivedBroken, HostOnly
    <2> QED
      BY <2>1, <2>2
  <1>4. ASSUME NEW q \in Hosts, q # h
        PROVE  CallOf(q)' = CallOf(q)
    BY <1>0, <1>2, <1>3, <1>4, OtherCallStays
  <1> QED
    BY <1>0, <1>1, <1>2, <1>4, HostLetsGo

\* A host that is out of step has no call that could be answered.
LEMMA TornCalls ==
  ASSUME PipeInv, NEW h \in Hosts, ReceivedTorn(h)
  PROVE  [C!CallNext]_(C!callVars)
  <1>0. /\ PipeTypeOK /\ pipe \in PipeType /\ pipe.host = h /\ h \in torn
        /\ UNCHANGED <<engine, server>>
    BY PipeTypes DEF PipeInv, ReceivedTorn, HostOnly
  <1>1. /\ pipe'.host = h
        /\ \/ UNCHANGED <<peer, torn>>
           \/ \E step \in {"ready", "idle"} : To(h, step) /\ (torn' = torn \/ torn' = torn \ {h})
    <2>1. PICK rest \in {pipe, [pipe EXCEPT !.toHost = << >>]} :
            \/ LET step == After(h, "Error")
               IN  /\ To(h, step)
                   /\ IF step = "idle" THEN pipe' = HungUp(rest) /\ torn' = torn \ {h}
                                       ELSE pipe' = rest /\ UNCHANGED torn
            \/ pipe' = [rest EXCEPT !.toHost = << >>] /\ UNCHANGED <<peer, torn>>
      BY DEF ReceivedTorn
    <2>2. << >> \in Seq(Frame)
      BY EmptySeq
    <2>3. rest \in PipeType /\ rest.host = h
      BY <1>0, <2>2 DEF PipeType
    <2>4. [rest EXCEPT !.toHost = << >>].host = h /\ HungUp(rest).host = h
      BY <2>3, HungUpIs DEF PipeType
    <2>5. After(h, "Error") \in {"ready", "idle"}
      BY DEF After
    <2> QED
      BY <2>1, <2>3, <2>4, <2>5
  <1>2. \A q \in Hosts : q # h => peer'[q] = peer[q] /\ (q \in torn' <=> q \in torn)
    BY <1>0, <1>1, ToStep DEF PeerSteps
  <1>3. ASSUME NEW q \in Hosts, q # h
        PROVE  CallOf(q)' = CallOf(q)
    BY <1>0, <1>1, <1>2, <1>3, OtherCallStays
  <1>4. CASE UNCHANGED <<peer, torn>>
    <2>1. CallOf(h)' = CallOf(h)
      BY <1>0, <1>4, OutOfStep DEF InStep
    <2> QED
      BY <1>0, <1>3, <2>1, CallGoes
  <1>5. CASE \E step \in {"ready", "idle"} : To(h, step)
    <2>1. peer'[h].at # "wait"
      BY <1>0, <1>5, ToStep DEF PeerSteps
    <2> QED
      BY <1>0, <1>3, <2>1, HostLetsGo
  <1> QED
    BY <1>1, <1>4, <1>5

\* The host has its answer, or goes.
LEMMA LeavingCalls ==
  ASSUME PipeInv, NEW h \in Hosts, Received(h) \/ Leave(h)
  PROVE  [C!CallNext]_(C!callVars)
  <1>0. PipeTypeOK /\ engine' = engine /\ server' = server /\ pipe \in PipeType
    BY PipeTypes DEF PipeInv, Received, Leave, HostOnly
  <1>1. /\ \E step \in PeerSteps : To(h, step) /\ step # "wait"
        /\ \A q \in Hosts : q # h => (q \in torn' <=> q \in torn)
    <2>1. CASE Leave(h)
      BY <2>1 DEF Leave, PeerSteps
    <2>2. CASE Received(h)
      <3> DEFINE step == After(h, Head(pipe.toHost).kind)
      <3>1. To(h, step) /\ (torn' = torn \/ torn' = torn \cup {h})
        BY <2>2 DEF Received
      <3>2. step \in {"ready", "idle"}
        <4>1. CASE peer[h].req = "Hello"
          BY <4>1 DEF After
        <4>2. CASE peer[h].req = "Disconnect"
          BY <4>2 DEF After
        <4>3. CASE peer[h].req \notin {"Hello", "Disconnect"}
          BY <4>3 DEF After
        <4> QED
          BY <4>1, <4>2, <4>3
      <3> QED
        BY <3>1, <3>2 DEF PeerSteps
    <2> QED
      BY <2>1, <2>2
  <1>2. PICK step \in PeerSteps : To(h, step) /\ step # "wait"
    BY <1>1
  <1>3. peer'[h].at = step /\ \A q \in Hosts : q # h => peer'[q] = peer[q]
    BY <1>0, <1>2, ToStep
  <1>4. pipe' = pipe \/ (pipe.host = h /\ pipe'.host = h)
    <2>1. CASE pipe.host = h
      <3> DEFINE rest == [pipe EXCEPT !.toHost = Tail(@)]
      <3>1. pipe' = rest \/ pipe' = pipe \/ pipe' = HungUp(rest) \/ pipe' = HungUp(pipe)
        BY <2>1 DEF Received, Leave
      <3>2. rest.host = pipe.host
        BY <1>0 DEF PipeType
      <3>3. HungUp(rest).host = rest.host /\ HungUp(pipe).host = pipe.host
        BY <1>0 DEF HungUp, PipeType
      <3> HIDE DEF rest
      <3> QED
        BY <2>1, <3>1, <3>2, <3>3
    <2>2. CASE pipe.host # h
      BY <2>2 DEF Received, Leave
    <2> QED
      BY <2>1, <2>2
  <1>5. ASSUME NEW q \in Hosts, q # h
        PROVE  CallOf(q)' = CallOf(q)
    BY <1>0, <1>1, <1>3, <1>4, <1>5, OtherCallStays
  <1> QED
    BY <1>0, <1>2, <1>3, <1>5, HostLetsGo

LEMMA OpenPipeCalls ==
  ASSUME PipeInv, NEW h \in Hosts, OpenPipe(h)
  PROVE  [C!CallNext]_(C!callVars)
  <1>0. /\ PipeTypeOK /\ peer[h].at = "open" /\ pipe.host = NoHost
        /\ peer[h].seq < MaxRequests[h] /\ Asking(h, "Hello")
        /\ engine' = engine /\ server' = server /\ torn' = torn
        /\ pipe \in PipeType
    BY PipeTypes DEF PipeInv, OpenPipe, Openable, HostOnly
  <1>1. "Hello" \in Kinds
    BY DEF Kinds
  <1>2. /\ peer'[h].at = "wait" /\ peer'[h].req = "Hello"
        /\ \A q \in Hosts : q # h => peer'[q] = peer[q]
    BY <1>0, <1>1, AskingStep
  <1>3. /\ pipe'.host = h /\ pipe'.open /\ pipe'.toDll # << >> /\ pipe'.toHost = pipe.toHost
    BY <1>0 DEF OpenPipe, PipeType
  <1>4. pipe.toHost = << >> /\ server.at # "handle" /\ h \notin torn
    BY <1>0 DEF PipeInv, Hosting, Tearing
  <1>5. CallOf(h) = C!NoCall
    BY <1>0, CallIs
  <1>6. CallOf(h)' = C!Asked("Hello")
    BY <1>0, <1>2, <1>3, <1>4, CallIsNext DEF InStep
  <1>7. ASSUME NEW q \in Hosts, q # h
        PROVE  CallOf(q)' = CallOf(q)
    BY <1>0, <1>2, <1>3, <1>7, PipeAssumption, OtherCallStays DEF NoHost
  <1> QED
    BY <1>0, <1>5, <1>6, <1>7, CallGoes

LEMMA CallCalls ==
  ASSUME PipeInv, NEW h \in Hosts, Call(h)
  PROVE  [C!CallNext]_(C!callVars)
  <1>0. /\ PipeTypeOK /\ peer[h].at = "ready" /\ peer[h].seq < MaxRequests[h]
        /\ UNCHANGED <<engine, server, torn>>
        /\ pipe \in PipeType /\ engine \in Engines
    BY PipeTypes DEF PipeInv, Call, HostOnly
  <1>1. PICK kind \in Requests(engine) :
          IF pipe.host = h
            THEN /\ pipe' = [pipe EXCEPT !.toDll = Append(@, Framed(h, kind))]
                 /\ Asking(h, kind)
            ELSE To(h, "broken") /\ UNCHANGED pipe
    BY DEF Call
  <1>2. CASE pipe.host # h
    <2>1. To(h, "broken") /\ pipe' = pipe
      BY <1>1, <1>2
    <2>2. peer'[h].at = "broken" /\ \A q \in Hosts : q # h => peer'[q] = peer[q]
      BY <1>0, <2>1, ToStep DEF PeerSteps
    <2>3. \A q \in Hosts : q # h => CallOf(q)' = CallOf(q)
      BY <1>0, <2>1, <2>2, OtherCallStays
    <2> QED
      BY <1>0, <2>2, <2>3, HostLetsGo
  <1>3. CASE pipe.host = h
    <2>1. kind \in Kinds /\ Asking(h, kind)
      BY <1>0, <1>1, <1>3, RequestIsNoHello
    <2>2. /\ peer'[h].at = "wait" /\ peer'[h].req = kind
          /\ \A q \in Hosts : q # h => peer'[q] = peer[q]
      BY <1>0, <2>1, AskingStep
    <2> DEFINE longer == Append(pipe.toDll, Framed(h, kind))
    <2>3. pipe' = [pipe EXCEPT !.toDll = longer]
      BY <1>0, <1>1, <1>3 DEF PipeType
    <2>4. longer # << >>
      <3>1. Framed(h, kind) \in Frame
        <4>1. peer[h].seq \in Nat
          BY <1>0, PipeTypes DEF Peer
        <4> QED
          BY <2>1, <4>1 DEF Framed, Frame
      <3>2. pipe.toDll \in Seq(Frame)
        BY <1>0, PipeFields
      <3> QED
        BY <3>1, <3>2, AppendProperties
    <2> HIDE DEF longer
    <2>5. /\ pipe'.host = h /\ pipe'.open = pipe.open
          /\ pipe'.toDll = longer /\ pipe'.toHost = pipe.toHost
      BY <1>0, <1>3, <2>3 DEF PipeType
    <2>6. ASSUME NEW q \in Hosts, q # h
          PROVE  CallOf(q)' = CallOf(q)
      BY <1>0, <1>3, <2>2, <2>5, <2>6, OtherCallStays
    <2>7. CallOf(h) = C!NoCall
      BY <1>0, CallIs
    <2>8. CASE InStep(h)
      <3>1. NoFrame
        BY <1>0, <2>8 DEF PipeInv, Owns, RequestOf, AnswerTo, Connected, InStep
      <3>2. server.at # "handle"
        BY <3>1 DEF PipeInv, Gated, NoFrame
      <3>3. InStep(h)'
        BY <1>0, <2>5, <2>8 DEF InStep
      <3>4. CallOf(h)' = C!Asked(kind)
        BY <1>0, <2>2, <2>4, <2>5, <3>1, <3>2, <3>3, CallIsNext DEF NoFrame
      <3> QED
        BY <1>0, <2>6, <2>7, <3>4, CallGoes
    <2>9. CASE ~InStep(h)
      <3>1. ~(InStep(h)')
        BY <1>0, <1>3, <2>5, <2>9 DEF InStep
      <3>2. CallOf(h)' = C!Lost
        BY <2>2, <3>1, CallIsNext
      <3> QED
        BY <1>0, <2>6, <2>7, <3>2, CallGoes
    <2> QED
      BY <2>8, <2>9
  <1> QED
    BY <1>2, <1>3

\* The worker waits for a client, lets one go, or is torn down.
LEMMA IdleCalls ==
  ASSUME PipeInv, Start \/ Create \/ Listen \/ Accept \/ ReadEof \/ RestoreAll \/ Flush
                  \/ Written \/ WrittenBehind \/ Unmap \/ GameRestarts \/ \E h \in Hosts : Eject(h)
  PROVE  [C!CallNext]_(C!callVars)
  <1>0. UNCHANGED <<engine, peer, torn>> /\ server \in ServerType
    BY PipeTypes
    DEF PipeInv, Start, Create, Listen, Accept, ReadEof, RestoreAll, Flush, Written,
        WrittenBehind, ServerOnly, Unmap, GameRestarts, Eject
  <1>1. ~NoPipe.open /\ ~[NoPipe EXCEPT !.up = TRUE].open
    BY DEF NoPipe
  <1>2. \/ pipe' = pipe /\ (server'.at = "handle" <=> server.at = "handle")
        \/ ~pipe'.open
    <2>1. CASE Start \/ Create \/ Flush \/ Unmap \/ GameRestarts
      BY <1>0, <1>1, <2>1 DEF Start, Create, Flush, Unmap, GameRestarts, ServerType
    <2>2. CASE Listen \/ Accept
      BY <1>0, <1>1, <2>2 DEF Listen, Accept, ServerType
    <2>3. CASE ReadEof \/ RestoreAll \/ Written \/ WrittenBehind
      BY <1>0, <2>3 DEF ReadEof, RestoreAll, Written, WrittenBehind, ServerType
    <2>4. CASE \E h \in Hosts : Eject(h)
      <3>1. CASE image.refs > 1
        BY <2>4, <3>1 DEF Eject
      <3>2. CASE ~(image.refs > 1)
        <4>1. /\ server' = [server EXCEPT !.at =
                   CASE @ = "listen" -> "ended"
                     [] @ = "serve" /\ pipe.toDll = << >> -> "restore"
                     [] @ = "write" -> "restore"
                     [] @ = "flush" -> "create"
                     [] OTHER -> @]
              /\ pipe' = IF server.at \in {"listen", "flush"} THEN NoPipe ELSE pipe
          BY <2>4, <3>2 DEF Eject
        <4>2. CASE server.at \in {"listen", "flush"}
          BY <1>1, <4>1, <4>2
        <4>3. CASE server.at \in {"serve", "write"}
          BY <1>0, <4>1, <4>3 DEF ServerType
        <4>4. CASE server.at \notin {"listen", "flush", "serve", "write"}
          BY <1>0, <4>1, <4>4 DEF ServerType
        <4> QED
          BY <4>2, <4>3, <4>4
      <3> QED
        BY <3>1, <3>2
    <2> QED
      BY <2>1, <2>2, <2>3, <2>4
  <1> QED
    BY <1>0, <1>2, ServingIdles

LEMMA ReadFrameCalls ==
  ASSUME PipeInv, ReadFrame
  PROVE  [C!CallNext]_(C!callVars)
  <1>0. /\ PipeTypeOK /\ UNCHANGED <<engine, pipe, peer, torn>>
        /\ server \in ServerType /\ server.at = "serve" /\ server.gate /\ pipe.toDll # << >>
        /\ pipe.toDll \in Seq(Frame) /\ server'.at = "handle"
    BY PipeTypes, PipeFields DEF PipeInv, ReadFrame, ServerOnly, ServerType
  <1>1. ASSUME NEW h \in Hosts, InStep(h), peer[h].at = "wait"
        PROVE  \E kind \in Requests(engine) :
                  CallOf(h) = C!Asked(kind) /\ CallOf(h)' = C!Running(kind)
    <2>1. RequestOf(h)
      BY <1>0, <1>1 DEF PipeInv, Owns, Connected, InStep, NoFrame, AnswerTo
    <2>2. peer[h].req \in Requests(engine)
      <3>1. Head(pipe.toDll) \in ToSet(pipe.toDll)
        BY <1>0, ToSetTail
      <3> QED
        BY <1>0, <2>1, <3>1 DEF PipeInv, Gated, RequestOf
    <2>3. CallOf(h) = C!Asked(peer[h].req)
      BY <1>0, <1>1, <2>1, CallIs DEF RequestOf
    <2>4. CallOf(h)' = C!Running(peer[h].req)
      BY <1>0, <1>1, <2>1, CallIsNext DEF RequestOf, InStep
    <2> QED
      BY <2>2, <2>3, <2>4
  <1>2. \A q \in Hosts : InStep(q)' => InStep(q)
    BY <1>0 DEF InStep
  <1> QED
    BY <1>0, <1>1, <1>2, ServingMoves

LEMMA HandshakeCalls ==
  ASSUME PipeInv, Handshake
  PROVE  [C!CallNext]_(C!callVars)
  <1> DEFINE good == Head(pipe.toDll).kind = "Hello" /\ image.same
             k == IF good THEN "Welcome" ELSE "Error"
  <1>0. /\ PipeTypeOK /\ UNCHANGED <<engine, peer, torn>> /\ server.at = "serve" /\ ~server.gate
        /\ pipe.toDll # << >> /\ pipe.open /\ Answered(k, TRUE)
    BY DEF PipeInv, Handshake, ServerOnly
  <1>1. k \in Kinds /\ k \in {"Welcome", "Error"} /\ "Hello" \in Kinds
    BY DEF Kinds
  <1>2. TRUE \in BOOLEAN
    OBVIOUS
  <1> HIDE DEF k, good
  <1>3. /\ pipe'.host = pipe.host /\ pipe'.open = pipe.open
        /\ pipe.toHost = << >> =>
             Len(pipe'.toHost) = 1 /\ Head(pipe'.toHost).kind = k
    BY <1>0, <1>1, <1>2, AnsweredPipe
  <1>4. ASSUME NEW h \in Hosts, InStep(h), peer[h].at = "wait"
        PROVE  /\ CallOf(h) = C!Asked("Hello")
               /\ \E reply \in C!Answers("Hello") : CallOf(h)' = C!Answer("Hello", reply)
    <2>1. Connected(h) /\ Unserved
      BY <1>0, <1>4 DEF InStep, Connected, Unserved
    <2>2. peer[h].req = "Hello" /\ pipe.toHost = << >>
      BY <2>1 DEF PipeInv, Greeting
    <2>3. CallOf(h) = C!Asked("Hello")
      BY <1>0, <1>4, <2>2, CallIs
    <2>4. pipe'.toHost # << >> /\ Head(pipe'.toHost).kind = k
      BY <1>3, <2>2
    <2>5. CallOf(h)' = C!Answer("Hello", k)
      BY <1>0, <1>3, <1>4, <2>2, <2>4, CallIsNext DEF InStep
    <2>6. k \in C!Answers("Hello")
      BY <1>1 DEF C!Answers
    <2> QED
      BY <2>3, <2>5, <2>6
  <1>5. \A q \in Hosts : InStep(q)' => InStep(q)
    BY <1>0, <1>3 DEF InStep
  <1> QED
    BY <1>0, <1>1, <1>4, <1>5, ServingMoves

LEMMA AnswerCalls ==
  ASSUME PipeInv, Answering
  PROVE  [C!CallNext]_(C!callVars)
  <1>0. /\ PipeTypeOK /\ server.at = "handle" /\ UNCHANGED <<engine, peer, torn>>
        /\ pipe.toDll # << >> /\ server.gate /\ engine \in Engines
        /\ pipe.toDll \in Seq(Frame)
    BY PipeTypes, PipeFields DEF PipeInv, Answering, ServerOnly, Gated
  <1> DEFINE asked == Head(pipe.toDll).kind
  <1>1. PICK k \in RepliesTo(engine, asked), fits \in {TRUE, FALSE} :
          IF pipe.open THEN Answered(k, fits) ELSE pipe' = [pipe EXCEPT !.toDll = Tail(@)]
    BY DEF Answering
  <1>2. k \in Kinds /\ (k = "Error" \/ <<asked, k>> \in Accepts(engine))
    BY <1>0, ReplyIsTaken
  <1>3. asked \in Requests(engine) /\ asked \in Kinds /\ asked # "Hello"
    <2>1. Head(pipe.toDll) \in ToSet(pipe.toDll)
      BY <1>0, ToSetTail
    <2>2. asked \in Requests(engine)
      BY <1>0, <2>1 DEF PipeInv, Gated
    <2> QED
      BY <1>0, <2>2, RequestIsNoHello
  <1> HIDE DEF asked
  <1>4. CASE ~pipe.open
    <2>1. ~pipe'.open
      BY <1>0, <1>1, <1>4, TakenOff
    <2> QED
      BY <1>0, <2>1, ServingIdles
  <1>5. CASE pipe.open
    <2>1. /\ pipe'.host = pipe.host /\ pipe'.open
          /\ pipe.toHost = << >> =>
               Len(pipe'.toHost) = 1 /\ Head(pipe'.toHost).kind = k
      BY <1>0, <1>1, <1>2, <1>5, AnsweredPipe
    <2>2. ASSUME NEW h \in Hosts, InStep(h), peer[h].at = "wait"
          PROVE  /\ CallOf(h) = C!Running(asked)
                 /\ \E reply \in C!Answers(asked) : CallOf(h)' = C!Answer(asked, reply)
      <3>1. RequestOf(h)
        BY <1>0, <2>2 DEF PipeInv, Owns, Connected, InStep, NoFrame, AnswerTo
      <3>2. peer[h].req = asked /\ pipe.toHost = << >>
        BY <3>1 DEF RequestOf, asked
      <3>3. CallOf(h) = C!Running(asked)
        BY <1>0, <2>2, <3>2, CallIs
      <3>4. pipe'.toHost # << >> /\ Head(pipe'.toHost).kind = k
        BY <2>1, <3>2
      <3>5. CallOf(h)' = C!Answer(asked, k)
        BY <1>0, <2>1, <2>2, <3>2, <3>4, CallIsNext DEF InStep
      <3>6. k \in C!Answers(asked)
        BY <1>2, <1>3, SameProtocol DEF C!Answers
      <3> QED
        BY <3>3, <3>5, <3>6
    <2>3. \A q \in Hosts : InStep(q)' => InStep(q)
      BY <1>0, <1>5, <2>1 DEF InStep
    <2> QED
      BY <1>0, <1>3, <2>2, <2>3, ServingMoves
  <1> QED
    BY <1>4, <1>5

LEMMA PanicCalls ==
  ASSUME PipeInv, Panics
  PROVE  [C!CallNext]_(C!callVars)
  <1>0. /\ PipeTypeOK /\ server.at = "handle" /\ UNCHANGED <<engine, peer, torn>>
        /\ pipe.toDll # << >> /\ pipe.toDll \in Seq(Frame)
        /\ pipe' = [pipe EXCEPT !.toDll = Tail(@)]
    BY PipeTypes, PipeFields DEF PipeInv, Panics, ServerOnly, Gated
  <1>1. /\ pipe'.host = pipe.host /\ pipe'.open = pipe.open
        /\ pipe'.toDll = Tail(pipe.toDll) /\ pipe'.toHost = pipe.toHost
    BY <1>0, TakenOff
  <1>2. ASSUME NEW h \in Hosts, InStep(h), peer[h].at = "wait"
        PROVE  CallOf(h)' = C!Lost
    <2>1. RequestOf(h)
      BY <1>0, <1>2 DEF PipeInv, Owns, Connected, InStep, NoFrame, AnswerTo
    <2>2. Tail(pipe.toDll) = << >>
      BY <1>0, <2>1, LastOne DEF RequestOf
    <2> QED
      BY <1>0, <1>1, <1>2, <2>1, <2>2, CallIsNext DEF RequestOf, InStep
  <1>3. \A q \in Hosts : InStep(q)' => InStep(q)
    BY <1>0, <1>1 DEF InStep
  <1> QED
    BY <1>0, <1>2, <1>3, ServingMoves

\* The steps of the session are steps of the calls that its hosts make, or leave them all.
LEMMA PipeCalls == PipeInv /\ [PipeNext]_pipeVars => [C!CallNext]_(C!callVars)
  <1> SUFFICES ASSUME PipeInv, [PipeNext]_pipeVars
               PROVE  [C!CallNext]_(C!callVars)
    OBVIOUS
  <1>1. ASSUME NEW h \in Hosts,
               CheckLoaded(h) \/ LoadLibrary(h) \/ OpenFails(h) \/ ReceivedBroken(h)
        PROVE  [C!CallNext]_(C!callVars)
    BY <1>1, AsideCalls
  <1>t. ASSUME NEW h \in Hosts, ReceivedTorn(h)
        PROVE  [C!CallNext]_(C!callVars)
    BY <1>t, TornCalls
  <1>2. ASSUME NEW h \in Hosts, Received(h) \/ Leave(h)
        PROVE  [C!CallNext]_(C!callVars)
    BY <1>2, LeavingCalls
  <1>3. ASSUME NEW h \in Hosts, OpenPipe(h)
        PROVE  [C!CallNext]_(C!callVars)
    BY <1>3, OpenPipeCalls
  <1>4. ASSUME NEW h \in Hosts, Call(h)
        PROVE  [C!CallNext]_(C!callVars)
    BY <1>4, CallCalls
  <1>5. ASSUME Start \/ Create \/ Listen \/ Accept \/ ReadEof \/ RestoreAll \/ Flush
               \/ Written \/ WrittenBehind \/ Unmap \/ GameRestarts \/ \E h \in Hosts : Eject(h)
        PROVE  [C!CallNext]_(C!callVars)
    BY <1>5, IdleCalls
  <1>6. ASSUME ReadFrame
        PROVE  [C!CallNext]_(C!callVars)
    BY <1>6, ReadFrameCalls
  <1>7. ASSUME Handshake
        PROVE  [C!CallNext]_(C!callVars)
    BY <1>7, HandshakeCalls
  <1>8. ASSUME Answer \/ AnswerBehind
        PROVE  [C!CallNext]_(C!callVars)
    BY <1>8, AnswerCalls DEF Answer, AnswerBehind
  <1>9. ASSUME Panics
        PROVE  [C!CallNext]_(C!callVars)
    BY <1>9, PanicCalls
  <1>10. CASE UNCHANGED pipeVars
    <2>1. UNCHANGED <<engine, server, pipe, peer, torn>>
      BY <1>10 DEF pipeVars
    <2>2. \A h \in Hosts : CallOf(h)' = CallOf(h)
      BY <2>1 DEF CallOf, InStep
    <2>3. hostCalls' = hostCalls
      BY <2>2 DEF hostCalls
    <2> QED
      BY <2>1, <2>3 DEF C!callVars
  <1> QED
    BY <1>1, <1>t, <1>2, <1>3, <1>4, <1>5, <1>6, <1>7, <1>8, <1>9, <1>10 DEF PipeNext, WorkerStep

\* A request of a session is one call (module PipeCall): send_frame and recv_frame, the
\* worker's loop and its handlers, the loader, the panics and the reconnects of several
\* hosts make it so that a request is taken up at most once, and that its caller gets the
\* answer to this very request, or finds the stream broken; what is behind a body left
\* unread is never taken for an answer.
THEOREM CallImplemented == PipeSpec => RequestIsCall
  <1>1. PipeInit => C!CallInit
    <2> SUFFICES ASSUME PipeInit
                 PROVE  C!CallInit
      OBVIOUS
    <2>1. \A h \in Hosts : CallOf(h) = C!NoCall
      BY CallIs DEF PipeInit
    <2>2. hostCalls = [h \in Hosts |-> C!NoCall]
      BY <2>1 DEF hostCalls
    <2> QED
      BY <2>2, SameProtocol DEF C!CallInit, PipeInit
  <1> QED
    BY <1>1, PipeInitInv, PipeNextInv, PipeCalls, PTL DEF PipeSpec, RequestIsCall, C!CallSpec

-----------------------------------------------------------------------------
(* Who can go on, of a host that waits and the worker.                      *)

\* A host that waits at an open pipe for what is not there yet has its request in it;
\* and without a worker at the pipe there is none to connect to.
Attended ==
    /\ \A h \in Hosts : pipe.host = h /\ peer[h].at \in {"wait", "ready"} => pipe.open
    /\ \A h \in Hosts :
          InStep(h) /\ peer[h].at = "wait" /\ server.at \notin {"restore", "flush"} => ~NoFrame
    /\ server.at \in {"none", "ended", "load", "create"} => pipe.host = NoHost /\ ~pipe.up
    /\ server.at # "none" => Mapped

\* What a host waits for is there, if only the end of the pipe.
HostGoesOn(h) == pipe.host # h \/ pipe.toHost # << >>

\* The worker is not blocked: it has a client to serve, a frame to read or the end of
\* the pipe, a request in hand, or an answer that has been read.
WorkerGoesOn ==
    /\ Mapped
    /\ \/ server.at \in {"load", "create", "created", "handle", "restore"}
       \/ server.at = "listen" /\ pipe.host # NoHost
       \/ server.at = "serve" /\ (pipe.toDll # << >> \/ ~pipe.open)
       \/ server.at \in {"write", "flush"} /\ (pipe.toHost = << >> \/ ~pipe.open)

\* A host that has left no body unread and the worker never wait for one another.
NeverBothWait ==
    \A h \in Hosts : peer[h].at = "wait" /\ h \notin torn => HostGoesOn(h) \/ WorkerGoesOn

LEMMA AttendedFirst == PipeInit => Attended
  <1> SUFFICES ASSUME PipeInit
               PROVE  Attended
    OBVIOUS
  <1>1. pipe.host = NoHost /\ ~pipe.up /\ server.at = "none" /\ \A h \in Hosts : h # NoHost
    BY PipeAssumption DEF PipeInit, NoPipe, NoServer, NoHost
  <1> QED
    BY <1>1 DEF Attended, InStep

\* Who is not at a pipe is not kept waiting by it.
LEMMA VacantAttends ==
  ASSUME pipe'.host = NoHost, server'.at \in {"none", "ended", "load", "create"} => ~pipe'.up,
         server'.at # "none" => Mapped'
  PROVE  Attended'
  BY PipeAssumption DEF Attended, InStep, NoHost

\* A step of one host, which leaves the worker and the other hosts alone.
LEMMA HostAttends ==
  ASSUME PipeInv, Attended, NEW h \in Hosts, UNCHANGED <<image, server>>,
         \A q \in Hosts : q # h => peer'[q] = peer[q] /\ (q \in torn' <=> q \in torn),
         \/ pipe' = pipe
         \/ pipe'.host = h /\ (pipe.host = h \/ pipe.up),
         pipe'.host = h /\ peer'[h].at \in {"wait", "ready"} => pipe'.open,
         pipe'.host = h /\ peer'[h].at = "wait" /\ h \notin torn' => pipe'.toDll # << >>
  PROVE  Attended'
  <1>1. Mapped' <=> Mapped
    BY DEF Mapped
  <1>2. CASE pipe' = pipe
    BY <1>1, <1>2 DEF Attended, InStep, NoFrame
  <1>3. CASE pipe'.host = h /\ (pipe.host = h \/ pipe.up)
    <2>1. server.at \notin {"none", "ended", "load", "create"}
      BY <1>3, PipeAssumption DEF Attended, NoHost
    <2> QED
      BY <1>1, <1>3, <2>1 DEF Attended, InStep, NoFrame
  <1> QED
    BY <1>2, <1>3

LEMMA AsideAttends ==
  ASSUME PipeInv, Attended, NEW h \in Hosts,
         CheckLoaded(h) \/ OpenFails(h) \/ ReceivedBroken(h)
  PROVE  Attended'
  <1>0. PipeTypeOK /\ UNCHANGED <<image, server, pipe, torn>>
    BY DEF PipeInv, CheckLoaded, OpenFails, ReceivedBroken, HostOnly
  <1>1. PICK step \in PeerSteps : To(h, step) /\ step \notin {"wait", "ready"}
    BY DEF CheckLoaded, OpenFails, ReceivedBroken, PeerSteps
  <1>2. peer'[h].at = step /\ \A q \in Hosts : q # h => peer'[q] = peer[q]
    BY <1>0, <1>1, ToStep
  <1> QED
    BY <1>0, <1>1, <1>2, HostAttends

\* A host that has left a body unread is owed nothing.
LEMMA TornAttends ==
  ASSUME PipeInv, Attended, NEW h \in Hosts, ReceivedTorn(h)
  PROVE  Attended'
  <1>0. /\ PipeTypeOK /\ UNCHANGED <<image, server>> /\ pipe \in PipeType
        /\ peer[h].at = "wait" /\ pipe.host = h /\ h \in torn
    BY PipeTypes DEF PipeInv, ReceivedTorn, HostOnly
  <1>1. PICK rest \in {pipe, [pipe EXCEPT !.toHost = << >>]} :
          \/ LET step == After(h, "Error")
             IN  /\ To(h, step)
                 /\ IF step = "idle" THEN pipe' = HungUp(rest) /\ torn' = torn \ {h}
                                     ELSE pipe' = rest /\ UNCHANGED torn
          \/ pipe' = [rest EXCEPT !.toHost = << >>] /\ UNCHANGED <<peer, torn>>
    BY DEF ReceivedTorn
  <1>2. pipe.open /\ rest.host = h /\ rest.open
    BY <1>0, <1>1 DEF Attended, PipeType
  <1>3. CASE pipe' = [rest EXCEPT !.toHost = << >>] /\ UNCHANGED <<peer, torn>>
    <2>1. pipe'.host = h /\ pipe'.open
      BY <1>0, <1>1, <1>2, <1>3 DEF PipeType
    <2> QED
      BY <1>0, <1>3, <2>1, HostAttends
  <1>4. CASE To(h, "idle") /\ pipe' = HungUp(rest) /\ torn' = torn \ {h}
    <2>1. peer'[h].at = "idle" /\ \A q \in Hosts : q # h => peer'[q] = peer[q]
      BY <1>0, <1>4, ToStep DEF PeerSteps
    <2>2. pipe'.host = h
      BY <1>0, <1>1, <1>2, <1>4 DEF HungUp, PipeType
    <2> QED
      BY <1>0, <1>4, <2>1, <2>2, HostAttends
  <1>5. CASE To(h, "ready") /\ pipe' = rest /\ UNCHANGED torn
    <2>1. peer'[h].at = "ready" /\ \A q \in Hosts : q # h => peer'[q] = peer[q]
      BY <1>0, <1>5, ToStep DEF PeerSteps
    <2> QED
      BY <1>0, <1>2, <1>5, <2>1, HostAttends
  <1>6. After(h, "Error") \in {"ready", "idle"}
    BY DEF After
  <1> QED
    BY <1>1, <1>3, <1>4, <1>5, <1>6

LEMMA LoadLibraryAttends ==
  ASSUME PipeInv, Attended, NEW h \in Hosts, LoadLibrary(h)
  PROVE  Attended'
  <1>0. /\ PipeTypeOK /\ To(h, "open") /\ pipe' = pipe /\ torn' = torn
        /\ image \in ImageType
    BY PipeTypes DEF PipeInv, LoadLibrary
  <1>1. peer'[h].at = "open" /\ \A q \in Hosts : q # h => peer'[q] = peer[q]
    BY <1>0, ToStep DEF PeerSteps
  <1>2. CASE image.at = "absent"
    <2>1. pipe = NoPipe /\ image'.at = "loaded"
      BY <1>2 DEF PipeInv, Hosting, LoadLibrary
    <2>2. pipe'.host = NoHost /\ ~pipe'.up /\ Mapped'
      BY <1>0, <2>1 DEF NoPipe, Mapped
    <2> QED
      BY <2>2, VacantAttends
  <1>3. CASE image.at # "absent"
    <2>1. server' = server /\ image'.at = image.at
      BY <1>0, <1>3 DEF LoadLibrary, ImageType
    <2> QED
      BY <1>0, <1>1, <2>1 DEF Attended, InStep, NoFrame, Mapped
  <1> QED
    BY <1>2, <1>3

LEMMA LeavingAttends ==
  ASSUME PipeInv, Attended, NEW h \in Hosts, Received(h) \/ Leave(h)
  PROVE  Attended'
  <1>0. /\ PipeTypeOK /\ UNCHANGED <<image, server>> /\ pipe \in PipeType
    BY PipeTypes DEF PipeInv, Received, Leave, HostOnly
  <1>1. CASE Leave(h)
    <2>1. To(h, "idle") /\ torn' = torn \ {h}
      BY <1>1 DEF Leave
    <2>2. peer'[h].at = "idle" /\ \A q \in Hosts : q # h => peer'[q] = peer[q]
      BY <1>0, <2>1, ToStep DEF PeerSteps
    <2>3. pipe' = pipe \/ (pipe'.host = h /\ pipe.host = h)
      BY <1>0, <1>1, HungUpIs DEF Leave
    <2> QED
      BY <1>0, <2>1, <2>2, <2>3, HostAttends
  <1>2. CASE Received(h)
    <2> DEFINE step == After(h, Head(pipe.toHost).kind)
               rest == IF Head(pipe.toHost).fits THEN [pipe EXCEPT !.toHost = Tail(@)] ELSE pipe
    <2>1. /\ pipe' = IF step = "idle" THEN HungUp(rest) ELSE rest
          /\ torn' = torn \/ torn' = torn \cup {h}
          /\ To(h, step) /\ pipe.host = h /\ peer[h].at = "wait"
      BY <1>2 DEF Received
    <2>2. step \in {"ready", "idle"}
      <3>1. CASE peer[h].req = "Hello"
        BY <3>1 DEF After
      <3>2. CASE peer[h].req = "Disconnect"
        BY <3>2 DEF After
      <3>3. CASE peer[h].req \notin {"Hello", "Disconnect"}
        BY <3>3 DEF After
      <3> QED
        BY <3>1, <3>2, <3>3
    <2>3. rest.host = h /\ rest.open = pipe.open
      BY <1>0, <2>1 DEF PipeType
    <2>4. HungUp(rest).host = rest.host
      BY <1>0, <2>3 DEF HungUp, PipeType
    <2> HIDE DEF step, rest
    <2>5. peer'[h].at = step /\ \A q \in Hosts : q # h => peer'[q] = peer[q]
      BY <1>0, <2>1, <2>2, ToStep DEF PeerSteps
    <2>6. pipe.open
      BY <2>1 DEF Attended
    <2>7. pipe'.host = h /\ (step = "ready" => pipe'.open)
      BY <2>1, <2>3, <2>4, <2>6
    <2> QED
      BY <1>0, <2>1, <2>2, <2>5, <2>7, HostAttends
  <1> QED
    BY <1>1, <1>2

LEMMA AskingAttends ==
  ASSUME PipeInv, Attended, NEW h \in Hosts, OpenPipe(h) \/ Call(h)
  PROVE  Attended'
  <1>0. /\ PipeTypeOK /\ UNCHANGED <<image, server, torn>> /\ pipe \in PipeType
        /\ engine \in Engines /\ peer[h].seq < MaxRequests[h]
    BY PipeTypes DEF PipeInv, OpenPipe, Call, HostOnly
  <1>1. CASE Call(h) /\ pipe.host # h
    <2>1. To(h, "broken") /\ pipe' = pipe
      BY <1>1 DEF Call
    <2>2. peer'[h].at = "broken" /\ \A q \in Hosts : q # h => peer'[q] = peer[q]
      BY <1>0, <2>1, ToStep DEF PeerSteps
    <2> QED
      BY <1>0, <2>1, <2>2, HostAttends
  <1>2. ASSUME NEW kind \in Kinds, Asking(h, kind),
               pipe'.host = h, pipe.host = h \/ pipe.up, pipe'.open, pipe'.toDll # << >>
        PROVE  Attended'
    <2>1. \A q \in Hosts : q # h => peer'[q] = peer[q]
      BY <1>0, <1>2, AskingStep
    <2> QED
      BY <1>0, <1>2, <2>1, HostAttends
  <1>3. CASE Call(h) /\ pipe.host = h
    <2>1. PICK kind \in Requests(engine) :
            /\ pipe' = [pipe EXCEPT !.toDll = Append(@, Framed(h, kind))]
            /\ Asking(h, kind)
      BY <1>3 DEF Call
    <2>2. kind \in Kinds
      BY <1>0, RequestIsNoHello
    <2> DEFINE longer == Append(pipe.toDll, Framed(h, kind))
    <2>3. longer # << >>
      <3>1. Framed(h, kind) \in Frame
        <4>1. peer[h].seq \in Nat
          BY <1>0, PipeTypes DEF Peer
        <4> QED
          BY <2>2, <4>1 DEF Framed, Frame
      <3>2. pipe.toDll \in Seq(Frame)
        BY <1>0, PipeFields
      <3> QED
        BY <3>1, <3>2, AppendProperties
    <2>4. pipe' = [pipe EXCEPT !.toDll = longer]
      BY <1>0, <2>1 DEF PipeType
    <2> HIDE DEF longer
    <2>5. pipe'.host = h /\ pipe'.open = pipe.open /\ pipe'.toDll # << >>
      BY <1>0, <1>3, <2>3, <2>4 DEF PipeType
    <2>6. pipe.open
      BY <1>3 DEF Attended, Call
    <2> QED
      BY <1>2, <1>3, <2>1, <2>2, <2>5, <2>6
  <1>4. CASE OpenPipe(h)
    <2>1. "Hello" \in Kinds
      BY DEF Kinds
    <2>2. Asking(h, "Hello") /\ pipe.up
      BY <1>4 DEF OpenPipe, Openable
    <2>3. pipe'.host = h /\ pipe'.open /\ pipe'.toDll # << >>
      BY <1>0, <1>4 DEF OpenPipe, PipeType
    <2> QED
      BY <1>2, <2>1, <2>2, <2>3
  <1> QED
    BY <1>1, <1>3, <1>4

\* The worker's steps, and those of the loader.
LEMMA IdleWorkerAttends ==
  ASSUME PipeInv, Attended,
         Start \/ Create \/ Listen \/ Accept \/ Flush \/ Unmap \/ GameRestarts
  PROVE  Attended'
  <1>0. server \in ServerType /\ pipe \in PipeType
    BY PipeTypes DEF PipeInv
  <1>1. NoPipe.host = NoHost /\ ~NoPipe.up
    BY DEF NoPipe
  <1>2. CASE Start
    <2>1. /\ server'.at \in {"ended", "create"} /\ server.at = "load" /\ pipe' = pipe
          /\ image' = image /\ Mapped
      BY <1>0, <1>2 DEF Start, ServerOnly, ServerType
    <2>2. pipe'.host = NoHost /\ ~pipe'.up /\ Mapped'
      BY <2>1 DEF Attended, Mapped
    <2> QED
      BY <2>2, VacantAttends
  <1>3. CASE Create
    <2>1. pipe'.host = NoHost /\ server'.at = "created" /\ Mapped'
      BY <1>0, <1>3 DEF Create, ServerOnly, ServerType, NoPipe, Mapped
    <2> QED
      BY <2>1, VacantAttends
  <1>4. CASE Listen \/ Accept
    <2>1. CASE pipe' = NoPipe
      <3>1. Mapped'
        BY <1>4 DEF Listen, Accept, ServerOnly, Mapped
      <3> QED
        BY <1>1, <2>1, <3>1, VacantAttends
    <2>2. CASE pipe' # NoPipe
      <3>1. /\ pipe' = pipe /\ server'.at \in {"listen", "serve"}
            /\ server.at \in {"created", "listen"}
            /\ UNCHANGED <<image, peer, torn>> /\ Mapped
        BY <1>0, <1>4, <2>2 DEF Listen, Accept, ServerOnly, ServerType
      <3> QED
        BY <3>1 DEF Attended, InStep, NoFrame, Mapped
    <2> QED
      BY <2>1, <2>2
  <1>5. CASE Flush
    <2>1. pipe' = NoPipe /\ Mapped'
      BY <1>5 DEF Flush, ServerOnly, Mapped
    <2> QED
      BY <1>1, <2>1, VacantAttends
  <1>6. CASE Unmap \/ GameRestarts
    <2>1. pipe' = NoPipe /\ server'.at = "none"
      BY <1>6 DEF Unmap, GameRestarts, NoServer
    <2> QED
      BY <1>1, <2>1, VacantAttends
  <1> QED
    BY <1>2, <1>3, <1>4, <1>5, <1>6

LEMMA ServingAttends ==
  ASSUME PipeInv, Attended,
         ReadFrame \/ ReadEof \/ RestoreAll \/ Panics \/ Written \/ WrittenBehind
  PROVE  Attended'
  <1>0. /\ PipeTypeOK /\ UNCHANGED <<image, peer, torn>> /\ Mapped
        /\ server \in ServerType /\ pipe \in PipeType
        /\ server.at \in {"serve", "handle", "write", "restore"}
    BY PipeTypes
    DEF PipeInv, ReadFrame, ReadEof, RestoreAll, Panics, Written, WrittenBehind, ServerOnly
  <1>1. /\ server'.at \in {"handle", "serve", "restore", "flush"}
        /\ server'.at \in {"handle", "serve"} => pipe' = pipe /\ server.at \in {"serve", "write"}
    BY <1>0 DEF ReadFrame, ReadEof, RestoreAll, Panics, Written, WrittenBehind, ServerType
  <1>2. pipe'.host = pipe.host /\ pipe'.open = pipe.open
    <2>1. CASE Panics
      BY <1>0, <2>1, TakenOff DEF Panics, PipeInv, Gated
    <2>2. CASE ReadFrame \/ ReadEof \/ RestoreAll \/ Written \/ WrittenBehind
      BY <2>2 DEF ReadFrame, ReadEof, RestoreAll, Written, WrittenBehind
    <2> QED
      BY <2>1, <2>2
  <1> QED
    BY <1>0, <1>1, <1>2 DEF Attended, InStep, NoFrame, Mapped

LEMMA AnsweringAttends ==
  ASSUME PipeInv, Attended, Handshake \/ Answering
  PROVE  Attended'
  <1>0. /\ PipeTypeOK /\ UNCHANGED <<image, peer, torn>> /\ Mapped
        /\ server \in ServerType /\ pipe \in PipeType /\ pipe.toDll # << >>
        /\ server.at \in {"serve", "handle"} /\ engine \in Engines
    BY PipeTypes DEF PipeInv, Handshake, Answering, ServerOnly, Gated
  <1>1. server'.at \in {"serve", "write", "restore"}
    <2>1. CASE Handshake
      <3>1. PICK good : server' = [server EXCEPT !.gate = good,
                                                 !.at = IF good THEN "serve" ELSE "restore"]
        BY <2>1 DEF Handshake
      <3> QED
        BY <1>0, <3>1 DEF ServerType
    <2>2. CASE Answering
      <3>1. \/ server' = [server EXCEPT !.at = "restore"]
            \/ server' = [server EXCEPT !.at = "write"]
            \/ server' = [server EXCEPT !.at = "serve"]
        BY <2>2 DEF Answering
      <3> QED
        BY <1>0, <3>1 DEF ServerType
    <2> QED
      BY <2>1, <2>2
  <1>2. \/ ~pipe.open /\ pipe' = [pipe EXCEPT !.toDll = Tail(@)]
        \/ \E k \in Kinds, fits \in BOOLEAN : Answered(k, fits)
    <2>1. CASE Handshake
      <3>1. "Welcome" \in Kinds /\ "Error" \in Kinds /\ TRUE \in BOOLEAN
        BY DEF Kinds
      <3> DEFINE good == Head(pipe.toDll).kind = "Hello" /\ image.same
                 kind == IF good THEN "Welcome" ELSE "Error"
      <3>2. kind \in {"Welcome", "Error"} /\ Answered(kind, TRUE)
        BY <2>1 DEF Handshake
      <3> HIDE DEF kind
      <3> QED
        BY <3>1, <3>2
    <2>2. CASE Answering
      <3>1. PICK k \in RepliesTo(engine, Head(pipe.toDll).kind), fits \in {TRUE, FALSE} :
              IF pipe.open THEN Answered(k, fits) ELSE pipe' = [pipe EXCEPT !.toDll = Tail(@)]
        BY <2>2 DEF Answering
      <3>2. k \in Kinds /\ fits \in BOOLEAN
        BY <1>0, ReplyIsTaken
      <3> QED
        BY <3>1, <3>2
    <2> QED
      BY <2>1, <2>2
  <1>3. CASE ~pipe.open /\ pipe' = [pipe EXCEPT !.toDll = Tail(@)]
    <2>1. pipe'.host = pipe.host /\ ~pipe'.open
      BY <1>0, <1>3, TakenOff
    <2> QED
      BY <1>0, <1>1, <1>3, <2>1 DEF Attended, InStep, Mapped
  <1>4. CASE \E k \in Kinds, fits \in BOOLEAN : Answered(k, fits)
    <2>1. PICK k \in Kinds, fits \in BOOLEAN : Answered(k, fits)
      BY <1>4
    <2>2. /\ pipe'.host = pipe.host /\ pipe'.open = pipe.open
          /\ pipe.toHost = << >> => Len(pipe'.toHost) = 1
      BY <1>0, <2>1, AnsweredPipe
    <2>3. ASSUME NEW h \in Hosts, InStep(h)', peer'[h].at = "wait"
          PROVE  ~(NoFrame')
      <3>1. InStep(h)
        BY <1>0, <2>2, <2>3 DEF InStep
      <3>2. RequestOf(h)
        BY <1>0, <3>1 DEF PipeInv, Owns, Connected, InStep, NoFrame, AnswerTo
      <3>3. pipe'.toHost # << >>
        BY <2>2, <3>2 DEF RequestOf
      <3> QED
        BY <3>3 DEF NoFrame
    <2> QED
      BY <1>0, <1>1, <2>2, <2>3 DEF Attended, Mapped
  <1> QED
    BY <1>2, <1>3, <1>4

LEMMA EjectAttends ==
  ASSUME PipeInv, Attended, NEW h \in Hosts, Eject(h)
  PROVE  Attended'
  <1>0. /\ image.at = "loaded" /\ UNCHANGED <<peer, torn>>
        /\ image \in ImageType /\ server \in ServerType
    BY PipeTypes DEF PipeInv, Eject
  <1>1. Mapped'
    BY <1>0 DEF Eject, ImageType, Mapped
  <1>2. CASE image.refs > 1
    <2>1. server' = server /\ pipe' = pipe
      BY <1>2 DEF Eject
    <2> QED
      BY <1>0, <1>1, <2>1 DEF Attended, InStep, NoFrame
  <1>3. CASE ~(image.refs > 1)
    <2>1. /\ server' = [server EXCEPT !.at =
                 CASE @ = "listen" -> "ended"
                   [] @ = "serve" /\ pipe.toDll = << >> -> "restore"
                   [] @ = "write" -> "restore"
                   [] @ = "flush" -> "create"
                   [] OTHER -> @]
          /\ pipe' = IF server.at \in {"listen", "flush"} THEN NoPipe ELSE pipe
      BY <1>3 DEF Eject
    <2>2. CASE server.at \in {"listen", "flush"}
      <3>1. pipe'.host = NoHost /\ ~pipe'.up
        BY <2>1, <2>2 DEF NoPipe
      <3> QED
        BY <1>1, <3>1, VacantAttends
    <2>3. CASE server.at = "write" \/ (server.at = "serve" /\ pipe.toDll = << >>)
      <3>1. server'.at = "restore" /\ pipe' = pipe
        BY <1>0, <2>1, <2>3 DEF ServerType
      <3> QED
        BY <1>0, <1>1, <3>1 DEF Attended, InStep
    <2>4. CASE server.at \notin {"listen", "write", "flush"} /\ ~(server.at = "serve" /\ pipe.toDll = << >>)
      <3>1. server'.at = server.at /\ pipe' = pipe
        BY <1>0, <2>1, <2>4 DEF ServerType
      <3> QED
        BY <1>0, <1>1, <3>1 DEF Attended, InStep, NoFrame
    <2> QED
      BY <2>2, <2>3, <2>4
  <1> QED
    BY <1>2, <1>3

LEMMA AttendedNext == PipeInv /\ Attended /\ [PipeNext]_pipeVars => Attended'
  <1> SUFFICES ASSUME PipeInv, Attended, [PipeNext]_pipeVars
               PROVE  Attended'
    OBVIOUS
  <1>1. ASSUME NEW h \in Hosts, CheckLoaded(h) \/ OpenFails(h) \/ ReceivedBroken(h)
        PROVE  Attended'
    BY <1>1, AsideAttends
  <1>t. ASSUME NEW h \in Hosts, ReceivedTorn(h)
        PROVE  Attended'
    BY <1>t, TornAttends
  <1>2. ASSUME NEW h \in Hosts, LoadLibrary(h)
        PROVE  Attended'
    BY <1>2, LoadLibraryAttends
  <1>3. ASSUME NEW h \in Hosts, Received(h) \/ Leave(h)
        PROVE  Attended'
    BY <1>3, LeavingAttends
  <1>4. ASSUME NEW h \in Hosts, OpenPipe(h) \/ Call(h)
        PROVE  Attended'
    BY <1>4, AskingAttends
  <1>5. ASSUME Start \/ Create \/ Listen \/ Accept \/ Flush \/ Unmap \/ GameRestarts
        PROVE  Attended'
    BY <1>5, IdleWorkerAttends
  <1>6. ASSUME ReadFrame \/ ReadEof \/ RestoreAll \/ Panics \/ Written \/ WrittenBehind
        PROVE  Attended'
    BY <1>6, ServingAttends
  <1>7. ASSUME Handshake \/ Answer \/ AnswerBehind
        PROVE  Attended'
    BY <1>7, AnsweringAttends DEF Answer, AnswerBehind
  <1>8. ASSUME NEW h \in Hosts, Eject(h)
        PROVE  Attended'
    BY <1>8, EjectAttends
  <1>9. CASE UNCHANGED pipeVars
    <2>1. UNCHANGED <<image, server, pipe, peer, torn>>
      BY <1>9 DEF pipeVars
    <2> QED
      BY <2>1 DEF Attended, InStep, NoFrame, Mapped
  <1> QED
    BY <1>1, <1>t, <1>2, <1>3, <1>4, <1>5, <1>6, <1>7, <1>8, <1>9 DEF PipeNext, WorkerStep

\* send_frame, WriteFile and FlushFileBuffers block, and none has a timeout: a host that has
\* left no body unread and waits for an answer and the worker are still never both blocked,
\* so that the host's wait ends as the worker, or the loader behind it, goes on (that they
\* do is HostAnswered; that it fails of a host out of step shows SendFrameReturns).
THEOREM NeverBothCorrect == PipeSpec => []NeverBothWait
  <1>1. PipeInv /\ Attended => NeverBothWait
    <2> SUFFICES ASSUME PipeInv, Attended, NEW h \in Hosts, peer[h].at = "wait",
                        h \notin torn, ~HostGoesOn(h)
                 PROVE  WorkerGoesOn
      BY DEF NeverBothWait
    <2>1. pipe.host = h /\ pipe.open /\ InStep(h) /\ pipe.toHost = << >> /\ pipe.host # NoHost
      BY PipeAssumption DEF HostGoesOn, Attended, InStep, NoHost
    <2>2. Mapped /\ server.at \notin {"none", "ended", "load", "create"}
      BY <2>1 DEF Attended
    <2>3. server.at = "serve" => pipe.toDll # << >>
      BY <2>1 DEF Attended, NoFrame
    <2>4. server.at \in Inside
      BY <2>2, PipeTypes DEF PipeInv, ServerType
    <2> QED
      BY <2>1, <2>2, <2>3, <2>4 DEF WorkerGoesOn, Inside
  <1>2. PipeInit => PipeInv /\ Attended
    BY PipeInitInv, AttendedFirst
  <1>3. PipeInv /\ Attended /\ [PipeNext]_pipeVars => PipeInv' /\ Attended'
    BY PipeNextInv, AttendedNext
  <1> QED
    BY <1>1, <1>2, <1>3, PTL DEF PipeSpec

-----------------------------------------------------------------------------
(* The freeze, or the call, of an object found by reflection.               *)

\* What the game means is live, other objects may be; what was never allocated is blank.
World ==
    /\ root <= used /\ pawn <= used
    /\ root = Null => pawn = Null
    /\ root # Null => root # pawn
    /\ \A o \in Objects : o \in {root, pawn} => heap[o].live
    /\ \A o \in Objects : o > used => heap[o] = Blank

ReflInv ==
    /\ ReflTypeOK
    /\ World
    /\ shape = "direct" => bound.snap[1] \in FieldValues
    /\ bound.obj # Null => cache # Null
    /\ loop.on => shape # "call"
    /\ loop.on \/ loop.at # "rest" => bound.obj # Null
    /\ \A o \in old : o <= used /\ ~heap[o].live
    /\ loop.at \in {"walk", "write"} => loop.obj \in Objects \ old
    /\ cache <= used /\ bound.obj <= used
    /\ loop.at \in {"walk", "write"} => loop.obj <= used

Record == [live : BOOLEAN, slot : Pointers, value : FieldValues, mirror : FieldValues]

LEMMA BlankIs == Blank \in Record /\ Blank.live = FALSE /\ Blank.slot = Null
  BY DEF Blank, Record, Pointers, FieldValues, Null, Stock

LEMMA ReflInitial == ReflInit => ReflInv
  <1> SUFFICES ASSUME ReflInit PROVE ReflInv
    OBVIOUS
  <1>1. ReflTypeOK
    BY ReflectionAssumption, BlankIs
    DEF ReflInit, ReflTypeOK, Record, Unbound, Objects, Pointers, FieldValues, Null, Stock
  <1>2. World
    BY BlankIs DEF ReflInit, World, Null, Objects
  <1> QED
    BY <1>1, <1>2 DEF ReflInit, ReflInv, Unbound, FieldValues, Null, Stock

\* A step of the game or of the loop that writes fields of allocated objects only.
LEMMA WorldFrame ==
  ASSUME ReflInv, UNCHANGED <<shape, used, root, pawn, old>>, heap' \in [Objects -> Record],
         \A o \in Objects : (heap'[o].live <=> heap[o].live) /\ (o > used => heap'[o] = heap[o])
  PROVE  World' /\ \A o \in old' : o <= used' /\ ~heap'[o].live
  <1>1. /\ ReflTypeOK /\ World
        /\ \A o \in old : o <= used /\ ~heap[o].live
    BY DEF ReflInv
  <1>2. root \in Objects \cup {Null} /\ pawn \in Objects \cup {Null} /\ old \subseteq Objects
    BY <1>1 DEF ReflTypeOK
  <1>3. World'
    BY <1>1 DEF World
  <1> QED
    BY <1>1, <1>2, <1>3

\* The type facts that the steps below use.
LEMMA ReflTypes ==
  ASSUME ReflTypeOK
  PROVE  /\ heap \in [Objects -> Record] /\ used \in 0 .. MaxObjects
         /\ root \in Objects \cup {Null} /\ pawn \in Objects \cup {Null}
         /\ cache \in Objects \cup {Null} /\ bound.obj \in Objects \cup {Null}
         /\ loop.obj \in Objects \cup {Null} /\ old \subseteq Objects
         /\ loop.on \in BOOLEAN /\ bound.taken \in BOOLEAN
  BY DEF ReflTypeOK, Record

LEMMA AtIs ==
  ASSUME ReflTypeOK, NEW step, NEW o, At(step, o)
  PROVE  loop'.on = loop.on /\ loop'.at = step /\ loop'.obj = o
         /\ loop' \in [on : {loop.on}, at : {step}, obj : {o}]
  BY DEF ReflTypeOK, At

LEMMA BeginsIs ==
  ASSUME ReflTypeOK, NEW step, Begins(step)
  PROVE  loop'.on = loop.on /\ loop'.at = step /\ loop'.obj = Null
         /\ loop' \in [on : {loop.on}, at : {step}, obj : {Null}]
  BY DEF ReflTypeOK, Begins

\* What was freed before a tick is remembered until it ends.
LEMMA OldIs ==
  ASSUME NEW step, NEW o, At(step, o)
  PROVE  old' \subseteq old
  BY DEF At

\* A heap after a write to one object's field.
Written_R(after, before, o) ==
    /\ after \in [Objects -> Record]
    /\ \A x \in Objects : /\ after[x].live <=> before[x].live
                          /\ x # o => after[x] = before[x]

LEMMA FieldWritten ==
  ASSUME NEW h \in [Objects -> Record], NEW o \in Objects, NEW v \in FieldValues, NEW p \in Pointers
  PROVE  /\ Written_R([h EXCEPT ![o].value = v], h, o)
         /\ Written_R([h EXCEPT ![o].mirror = v], h, o)
         /\ Written_R([h EXCEPT ![o].slot = p], h, o)
  <1> DEFINE r == h[o]
  <1>1. r \in Record
    OBVIOUS
  <1>2. [r EXCEPT !.value = v] \in [live : {r.live}, slot : {r.slot}, value : {v}, mirror : {r.mirror}]
    BY <1>1 DEF Record
  <1>3. [r EXCEPT !.mirror = v] \in [live : {r.live}, slot : {r.slot}, value : {r.value}, mirror : {v}]
    BY <1>1 DEF Record
  <1>4. [r EXCEPT !.slot = p] \in [live : {r.live}, slot : {p}, value : {r.value}, mirror : {r.mirror}]
    BY <1>1 DEF Record
  <1>5. ASSUME NEW s \in Record, s.live = r.live
        PROVE  Written_R([h EXCEPT ![o] = s], h, o)
    BY <1>5 DEF Written_R
  <1>6. /\ [r EXCEPT !.value = v] \in Record /\ [r EXCEPT !.value = v].live = r.live
        /\ [r EXCEPT !.mirror = v] \in Record /\ [r EXCEPT !.mirror = v].live = r.live
        /\ [r EXCEPT !.slot = p] \in Record /\ [r EXCEPT !.slot = p].live = r.live
    BY <1>1, <1>2, <1>3, <1>4 DEF Record
  <1> QED
    BY <1>5, <1>6

LEMMA GameKeeps ==
  ASSUME ReflInv, EnterLevel \/ Possess \/ Reseat \/ GameSets \/ \E o \in Objects : Frees(o)
  PROVE  ReflInv'
  <1> DEFINE new == used + 1
  <1>1. /\ ReflTypeOK /\ World
        /\ \A o \in old : o <= used /\ ~heap[o].live
    BY DEF ReflInv
  <1>2. /\ heap \in [Objects -> Record] /\ used \in 0 .. MaxObjects
        /\ root \in Objects \cup {Null} /\ pawn \in Objects \cup {Null} /\ old \subseteq Objects
    BY <1>1, ReflTypes
  \* What is left to show of a step that leaves the loop and its cache alone.
  <1>3. SUFFICES /\ heap' \in [Objects -> Record] /\ used' \in 0 .. MaxObjects /\ used <= used'
                 /\ root' \in Objects \cup {Null} /\ pawn' \in Objects \cup {Null}
                 /\ World'
                 /\ \A o \in old : ~heap'[o].live
                 /\ UNCHANGED <<shape, cache, bound, loop, old>>
    <2>1. ASSUME used' \in 0 .. MaxObjects, used <= used', UNCHANGED <<cache, bound, loop, old>>
          PROVE  /\ cache' <= used' /\ bound'.obj <= used'
                 /\ loop'.at \in {"walk", "write"} => loop'.obj <= used'
                 /\ \A o \in old' : o <= used'
      <3>1. /\ cache \in Objects \cup {Null} /\ bound.obj \in Objects \cup {Null}
            /\ loop.obj \in Objects \cup {Null} /\ cache <= used /\ bound.obj <= used
            /\ loop.at \in {"walk", "write"} => loop.obj <= used
        BY <1>1, ReflTypes DEF ReflInv
      <3> QED
        BY <1>1, <1>2, <2>1, <3>1, ReflectionAssumption DEF Objects, Null
    <2> QED
      BY <1>1, <2>1 DEF ReflInv, ReflTypeOK, Record
  \* An object is allocated.
  <1>a. ASSUME used < MaxObjects, heap' = [heap EXCEPT ![new].live = TRUE]
        PROVE  /\ new \in Objects /\ new \in 0 .. MaxObjects /\ used <= new /\ new \notin old
               /\ new \notin {root, pawn, Null}
               /\ heap' \in [Objects -> Record] /\ heap'[new].live = TRUE
               /\ \A o \in Objects \ {new} : heap'[o] = heap[o]
               /\ \A o \in old : ~heap'[o].live
    <2>1. /\ new \in Objects /\ new \in 0 .. MaxObjects /\ used <= new /\ heap[new] = Blank
          /\ new \notin old /\ new \notin {root, pawn, Null}
      BY <1>1, <1>2, <1>a, ReflectionAssumption DEF Objects, World, Null
    <2>2. heap'[new] = [Blank EXCEPT !.live = TRUE]
      BY <1>2, <1>a, <2>1
    <2>3. heap'[new] \in Record /\ heap'[new].live = TRUE
      BY <2>2 DEF Blank, Record, Pointers, FieldValues, Null, Stock
    <2>4. \A o \in Objects \ {new} : heap'[o] = heap[o]
      BY <1>2, <1>a
    <2>5. heap' \in [Objects -> Record]
      BY <1>2, <1>a, <2>3
    <2> QED
      BY <1>1, <1>2, <2>1, <2>3, <2>4, <2>5
  <1>4. CASE EnterLevel
    <2>1. /\ root = Null /\ used < MaxObjects /\ used' = new /\ root' = new /\ pawn' = pawn
          /\ heap' = [heap EXCEPT ![new].live = TRUE]
          /\ UNCHANGED <<shape, cache, bound, loop, old>>
      BY <1>4 DEF EnterLevel, GameOnly_R
    <2>2. World'
      BY <1>1, <1>2, <1>a, <2>1 DEF World, Objects, Null
    <2> QED
      BY <1>2, <1>a, <2>1, <2>2
  <1>5. CASE Possess
    <2>1. /\ root # Null /\ used < MaxObjects /\ used' = new /\ pawn' = new /\ root' = root
          /\ heap' = [heap EXCEPT ![new].live = TRUE]
          /\ UNCHANGED <<shape, cache, bound, loop, old>>
      BY <1>5 DEF Possess, GameOnly_R
    <2>2. World'
      BY <1>1, <1>2, <1>a, <2>1 DEF World, Objects, Null
    <2> QED
      BY <1>2, <1>a, <2>1, <2>2
  <1>r. CASE Reseat
    <2>1. /\ root # Null /\ heap' = [heap EXCEPT ![root].slot = pawn]
          /\ UNCHANGED <<used, root, pawn, shape, cache, bound, loop, old>>
      BY <1>r DEF Reseat, GameOnly_R
    <2>2. root \in Objects /\ root <= used /\ pawn \in Pointers /\ Stock \in FieldValues
      BY <1>1, <1>2, <2>1 DEF World, Pointers, FieldValues
    <2>3. Written_R(heap', heap, root)
      BY <1>2, <2>1, <2>2, FieldWritten
    <2>4. heap' \in [Objects -> Record]
          /\ \A o \in Objects : (heap'[o].live <=> heap[o].live) /\ (o > used => heap'[o] = heap[o])
      BY <1>2, <2>2, <2>3 DEF Written_R, Objects
    <2>5. World' /\ \A o \in old' : o <= used' /\ ~heap'[o].live
      BY <2>1, <2>4, WorldFrame
    <2> QED
      BY <1>2, <2>1, <2>4, <2>5
  <1>6. CASE \E o \in Objects : Frees(o)
    <2>0. PICK o \in Objects : Frees(o)
      BY <1>6
    <2>1. /\ heap[o].live /\ heap' = [heap EXCEPT ![o] = [Blank EXCEPT !.slot = heap[o].slot]]
          /\ used' = used
          /\ root' = (IF o = root THEN Null ELSE root)
          /\ pawn' = (IF o \in {root, pawn} THEN Null ELSE pawn)
          /\ UNCHANGED <<shape, cache, bound, loop, old>>
      BY <2>0 DEF Frees, GameOnly_R
    <2>2. heap'[o] \in Record /\ ~heap'[o].live
      <3>1. /\ heap[o] \in Record /\ Blank \in Record /\ ~Blank.live
            /\ heap'[o] = [Blank EXCEPT !.slot = heap[o].slot]
        BY <1>2, <2>1, BlankIs
      <3> QED
        BY <3>1 DEF Record
    <2>3. heap' \in [Objects -> Record] /\ \A x \in Objects \ {o} : heap'[x] = heap[x]
      BY <1>2, <2>1, <2>2
    <2>4. o <= used
      BY <1>1, <1>2, <2>1, BlankIs, ReflectionAssumption DEF World, Objects
    <2>5. World'
      BY <1>1, <1>2, <2>1, <2>2, <2>3, <2>4 DEF World, Objects, Null
    <2>6. \A x \in old : ~heap'[x].live
      BY <1>1, <1>2, <2>2, <2>3
    <2>7. used <= used
      BY <1>2
    <2> QED
      BY <1>2, <2>1, <2>3, <2>5, <2>6, <2>7
  <1>7. CASE GameSets
    <2>1. /\ Holder # Null /\ UNCHANGED <<used, root, pawn, shape, cache, bound, loop, old>>
          /\ heap' = [heap EXCEPT ![Holder].value = Stock, ![Holder].mirror = Stock]
      BY <1>7 DEF GameSets, GameOnly_R
    <2>2. Holder \in Objects /\ Holder <= used
      BY <1>1, <1>2, <2>1 DEF Holder, World, Objects, Null
    <2>3. /\ heap' \in [Objects -> Record]
          /\ heap'[Holder].live = heap[Holder].live
          /\ \A o \in Objects \ {Holder} : heap'[o] = heap[o]
      <3>1. heap[Holder] \in Record
        BY <1>2, <2>2
      <3>2. heap'[Holder] = [[heap[Holder] EXCEPT !.value = Stock] EXCEPT !.mirror = Stock]
        BY <1>2, <2>1, <2>2
      <3>3. heap'[Holder] \in [live : {heap[Holder].live}, slot : {heap[Holder].slot},
                              value : {Stock}, mirror : {Stock}]
        BY <3>1, <3>2 DEF Record
      <3>4. heap'[Holder] \in Record
        BY <3>1, <3>3 DEF Record, FieldValues
      <3>5. \A o \in Objects \ {Holder} : heap'[o] = heap[o]
        BY <1>2, <2>1
      <3> QED
        BY <1>2, <2>1, <2>2, <3>3, <3>4, <3>5
    <2>4. World' /\ \A o \in old' : o <= used' /\ ~heap'[o].live
      BY <1>2, <2>1, <2>2, <2>3, WorldFrame DEF Objects
    <2> QED
      BY <1>2, <2>1, <2>3, <2>4
  <1> QED
    BY <1>4, <1>5, <1>r, <1>6, <1>7

LEMMA AttachKeeps ==
  ASSUME ReflInv, Resolve \/ Snapshot PROVE ReflInv'
  <1>1. ReflTypeOK /\ World /\ (shape = "direct" => bound.snap[1] \in FieldValues)
    BY DEF ReflInv
  <1>2. /\ heap \in [Objects -> Record] /\ used \in 0 .. MaxObjects /\ root \in Objects \cup {Null}
        /\ bound \in [obj : Objects \cup {Null}, taken : BOOLEAN, snap : Pointers \X FieldValues]
    BY <1>1 DEF ReflTypeOK, Record
  <1>3. SUFFICES /\ UNCHANGED <<shape, heap, used, root, pawn, loop, old>>
                 /\ cache' \in Objects \cup {Null} /\ cache' <= used
                 /\ bound' \in [obj : Objects \cup {Null}, taken : BOOLEAN, snap : Pointers \X FieldValues]
                 /\ bound'.obj # Null /\ bound'.obj <= used /\ cache' # Null
                 /\ shape = "direct" => bound'.snap[1] \in FieldValues
    BY <1>1 DEF ReflInv, ReflTypeOK, World
  <1>4. CASE Resolve
    <2>1. /\ root # Null /\ cache' = root /\ bound' = [bound EXCEPT !.obj = root]
          /\ UNCHANGED <<shape, heap, used, root, pawn, loop, old>>
      BY <1>4 DEF Resolve, worldVars
    <2> QED
      BY <1>1, <1>2, <2>1 DEF World
  <1>5. CASE Snapshot
    <2> DEFINE o == heap[bound.obj]
               taken == IF shape = "direct" THEN <<o.value, o.mirror>> ELSE <<o.slot, Stock>>
    <2>1. /\ bound.obj # Null /\ bound' = [bound EXCEPT !.taken = TRUE, !.snap = taken]
          /\ UNCHANGED <<shape, heap, used, root, pawn, cache, loop, old>>
      BY <1>5 DEF Snapshot, worldVars
    <2>2. o \in Record
      BY <1>2, <2>1
    <2>3. taken \in Pointers \X FieldValues /\ (shape = "direct" => taken[1] \in FieldValues)
      <3>1. FieldValues \subseteq Pointers /\ Stock \in FieldValues
        BY ReflectionAssumption DEF FieldValues, Pointers, Objects, Null, Stock, Frozen
      <3> HIDE DEF o
      <3> QED
        BY <2>2, <3>1 DEF Record
    <2> HIDE DEF taken
    <2>4. bound' \in [obj : {bound.obj}, taken : {TRUE}, snap : {taken}]
      BY <1>2, <2>1
    <2>5. cache \in Objects \cup {Null} /\ cache # Null /\ cache <= used /\ bound.obj <= used
      BY <1>1, <2>1, ReflTypes DEF ReflInv
    <2> QED
      BY <1>2, <2>1, <2>3, <2>4, <2>5
  <1> QED
    BY <1>4, <1>5
LEMMA TickKeeps ==
  ASSUME ReflInv, Tick_R \/ TickMoves \/ Fire("check") \/ Fire("waypoint") PROVE ReflInv'
  <1>1. /\ ReflTypeOK /\ World
        /\ \A o \in old : o <= used /\ ~heap[o].live
    BY DEF ReflInv
  <1>2. /\ heap \in [Objects -> Record] /\ used \in 0 .. MaxObjects
        /\ root \in Objects \cup {Null} /\ pawn \in Objects \cup {Null}
        /\ loop.obj \in Objects \cup {Null} /\ old \subseteq Objects
        /\ cache \in Objects \cup {Null} /\ cache <= used
    BY <1>1, ReflTypes DEF ReflInv
  \* An object that is live was not freed before, and has been allocated.
  <1>3. \A o \in Objects : heap[o].live => o \notin old /\ o <= used
    BY <1>1, <1>2, BlankIs, ReflectionAssumption DEF World, Objects
  \* A tick or a call begins.
  <1>4. ASSUME NEW step \in {"check", "waypoint"}, loop.on \/ bound.obj # Null, Begins(step),
               UNCHANGED <<shape, heap, used, root, pawn, cache, bound>>
        PROVE  ReflInv'
    <2>1. /\ loop'.on = loop.on /\ loop'.at = step /\ loop'.obj = Null
          /\ loop' \in [on : {loop.on}, at : {step}, obj : {Null}]
      BY <1>1, <1>4, BeginsIs
    <2>2. ReflTypeOK'
      BY <1>1, <1>4, <2>1 DEF ReflTypeOK, Freed, Begins
    <2>3. \A o \in old' : o <= used' /\ ~heap'[o].live
      BY <1>4 DEF Freed, Begins
    <2> QED
      BY <1>1, <1>4, <2>1, <2>2, <2>3 DEF ReflInv, World
  <1>5. CASE Tick_R
    <2>1. /\ loop.on /\ Begins("check")
          /\ UNCHANGED <<shape, heap, used, root, pawn, cache, bound>>
      BY <1>5 DEF Tick_R, worldVars
    <2> QED
      BY <1>4, <2>1
  <1>6. ASSUME NEW step \in {"check", "waypoint"}, Fire(step) PROVE ReflInv'
    <2>1. /\ bound.obj # Null /\ Begins(step)
          /\ UNCHANGED <<shape, heap, used, root, pawn, cache, bound>>
      BY <1>6 DEF Fire, worldVars
    <2> QED
      BY <1>4, <2>1
  \* A step of one in flight that writes nothing.
  <1>7. ASSUME loop.at # "rest", NEW step, NEW o, At(step, o),
               step \in {"rest", "waypoint", "check", "find", "walk", "write", "call"},
               o \in Objects \cup {Null},
               step \in {"walk", "write"} => o \in Objects \ old,
               step \in {"walk", "write"} => o <= used,
               cache' \in {cache, root} \ {Null},
               UNCHANGED <<shape, heap, used, root, pawn, bound>>
        PROVE  ReflInv'
    <2>1. /\ loop'.on = loop.on /\ loop'.at = step /\ loop'.obj = o
          /\ loop' \in [on : {loop.on}, at : {step}, obj : {o}]
      BY <1>1, <1>7, AtIs
    <2>o. old' \subseteq old
      BY <1>7, OldIs
    <2>2. cache' \in Objects \cup {Null} /\ cache' # Null /\ cache' <= used
      BY <1>1, <1>2, <1>7 DEF World
    <2>3. ReflTypeOK'
      BY <1>1, <1>2, <1>7, <2>1, <2>2, <2>o DEF ReflTypeOK
    <2> QED
      BY <1>1, <1>7, <2>1, <2>2, <2>3, <2>o DEF ReflInv, World
  <1>8. loop.at # "rest" => cache # Null
    BY DEF ReflInv
  <1>9. CASE Check
    <2>1. /\ loop.at = "check" /\ UNCHANGED <<shape, heap, used, root, pawn, cache, bound>>
          /\ \/ heap[cache].live /\ At("walk", cache)
             \/ At("find", Null)
      BY <1>9 DEF Check, worldVars
    <2>2. cache # Null /\ cache \in Objects
      BY <1>2, <1>8, <2>1
    <2>3. CASE heap[cache].live /\ At("walk", cache)
      BY <1>3, <1>7, <2>1, <2>2, <2>3
    <2>4. CASE At("find", Null)
      BY <1>7, <2>1, <2>2, <2>4
    <2> QED
      BY <2>1, <2>3, <2>4
  <1>10. CASE Find
    <2>1. /\ loop.at = "find" /\ UNCHANGED <<shape, heap, used, root, pawn, bound>>
          /\ \/ root # Null /\ cache' = root /\ At("walk", root)
             \/ At("rest", Null) /\ cache' = cache
      BY <1>10 DEF Find, worldVars
    <2>2. CASE root # Null /\ cache' = root /\ At("walk", root)
      <3>1. root \in Objects /\ heap[root].live
        BY <1>1, <1>2, <2>2 DEF World
      <3> QED
        BY <1>3, <1>7, <2>1, <2>2, <3>1
    <2>3. CASE At("rest", Null) /\ cache' = cache
      BY <1>7, <1>8, <2>1, <2>3
    <2> QED
      BY <2>1, <2>2, <2>3
  <1>11. CASE Walk
    <2> DEFINE next == heap[loop.obj].slot
    <2>1. /\ loop.at = "walk" /\ UNCHANGED <<shape, heap, used, root, pawn, cache, bound>>
          /\ \/ shape = "direct" /\ At("write", loop.obj)
             \/ shape = "deref" /\ next \in Objects /\ heap[next].live /\ At("write", next)
             \/ shape = "call" /\ next \in Objects /\ At("call", next)
             \/ At("rest", Null)
      BY <1>11 DEF Walk, worldVars
    <2>2. loop.obj \in Objects \ old /\ loop.obj <= used /\ cache # Null
      BY <1>8, <2>1 DEF ReflInv
    <2>3. CASE shape = "direct" /\ At("write", loop.obj)
      BY <1>7, <2>1, <2>2, <2>3
    <2>4. CASE shape = "deref" /\ next \in Objects /\ heap[next].live /\ At("write", next)
      <3>1. next \in Objects \ old /\ next <= used
        BY <1>3, <2>4
      <3> HIDE DEF next
      <3> QED
        BY <1>7, <2>1, <2>2, <2>4, <3>1
    <2>5. CASE shape = "call" /\ next \in Objects /\ At("call", next)
      <3> HIDE DEF next
      <3> QED
        BY <1>7, <2>1, <2>2, <2>5
    <2>6. CASE At("rest", Null)
      BY <1>7, <2>1, <2>2, <2>6
    <2> HIDE DEF next
    <2> QED
      BY <2>1, <2>3, <2>4, <2>5, <2>6
  <1>12. CASE WriteValue
    <2>1. /\ loop.at = "write" /\ At("rest", Null)
          /\ heap' = [heap EXCEPT ![loop.obj].value = Frozen,
                                 ![cache].mirror = IF shape = "direct" THEN Frozen ELSE @]
          /\ UNCHANGED <<shape, used, root, pawn, cache, bound>>
      BY <1>12 DEF WriteValue
    <2>o. old' \subseteq old
      BY <2>1, OldIs
    <2>2. loop.obj \in Objects /\ loop.obj <= used /\ cache \in Objects /\ cache <= used
      BY <1>2, <1>8, <2>1 DEF ReflInv
    <2> DEFINE h == [heap EXCEPT ![loop.obj].value = Frozen]
    <2>3. Written_R(h, heap, loop.obj)
      <3>1. Frozen \in FieldValues /\ Null \in Pointers
        BY DEF FieldValues, Pointers
      <3> QED
        BY <1>2, <2>2, <3>1, FieldWritten
    <2>4. PICK v \in FieldValues : heap' = [h EXCEPT ![cache].mirror = v]
      <3>1. h[cache].mirror \in FieldValues /\ Frozen \in FieldValues
        BY <2>2, <2>3 DEF Written_R, Record, FieldValues
      <3> QED
        BY <2>1, <3>1
    <2> HIDE DEF h
    <2>5. Written_R(heap', h, cache)
      <3>1. h \in [Objects -> Record] /\ Null \in Pointers
        BY <2>3 DEF Written_R, Pointers
      <3> QED
        BY <2>2, <2>4, <3>1, FieldWritten
    <2>6. /\ heap' \in [Objects -> Record]
          /\ \A x \in Objects : /\ heap'[x].live <=> heap[x].live
                                /\ x > used => heap'[x] = heap[x]
      BY <1>2, <2>2, <2>3, <2>5 DEF Written_R, Objects
    <2>7. /\ World'
          /\ \A o \in old' : o <= used' /\ ~heap'[o].live
      <3>1. World' /\ \A o \in old : o <= used /\ ~heap'[o].live
        BY <1>1, <1>2, <2>1, <2>6 DEF World, Objects
      <3> QED
        BY <2>1, <2>o, <3>1
    <2>8. /\ loop'.on = loop.on /\ loop'.at = "rest"
          /\ loop' \in [on : {loop.on}, at : {"rest"}, obj : {Null}]
      BY <1>1, <2>1, AtIs
    <2>9. ReflTypeOK'
      BY <1>1, <1>2, <2>1, <2>6, <2>8, <2>o DEF ReflTypeOK, Record
    <2> QED
      BY <2>1, <2>7, <2>8, <2>9 DEF ReflInv
  <1>13. CASE ReadWaypoint
    <2>1. PICK step \in {"check", "rest"} : At(step, Null)
      BY <1>13 DEF ReadWaypoint
    <2>2. loop.at = "waypoint" /\ UNCHANGED <<shape, heap, used, root, pawn, cache, bound>>
      BY <1>13 DEF ReadWaypoint, worldVars
    <2> QED
      BY <1>7, <1>8, <2>1, <2>2
  <1>14. CASE CallReceiver
    <2>1. /\ loop.at = "call" /\ At("rest", Null)
          /\ UNCHANGED <<shape, heap, used, root, pawn, cache, bound>>
      BY <1>14 DEF CallReceiver, worldVars
    <2> QED
      BY <1>7, <1>8, <2>1
  <1> QED
    BY <1>5, <1>6, <1>9, <1>10, <1>11, <1>12, <1>13, <1>14 DEF TickMoves

LEMMA SwitchKeeps ==
  ASSUME ReflInv, FreezeOn \/ FreezeOff PROVE ReflInv'
  <1>1. /\ ReflTypeOK /\ World
        /\ \A o \in old : o <= used /\ ~heap[o].live
    BY DEF ReflInv
  <1>2. /\ heap \in [Objects -> Record] /\ used \in 0 .. MaxObjects
        /\ cache \in Objects \cup {Null} /\ cache <= used
        /\ bound \in [obj : Objects \cup {Null}, taken : BOOLEAN, snap : Pointers \X FieldValues]
        /\ bound.obj <= used
    BY <1>1 DEF ReflInv, ReflTypeOK, Record
  <1>3. CASE FreezeOn
    <2>1. /\ shape # "call" /\ bound.obj # Null /\ loop' = [loop EXCEPT !.on = TRUE]
          /\ UNCHANGED <<shape, heap, used, root, pawn, cache, bound, old>>
      BY <1>3 DEF FreezeOn, worldVars
    <2>2. /\ loop' \in [on : {TRUE}, at : {loop.at}, obj : {loop.obj}]
          /\ loop'.at = loop.at /\ loop'.obj = loop.obj
      BY <1>1, <2>1 DEF ReflTypeOK
    <2>3. ReflTypeOK'
      BY <1>1, <2>1, <2>2 DEF ReflTypeOK
    <2> QED
      BY <1>1, <2>1, <2>2, <2>3 DEF ReflInv, World
  <1>4. CASE FreezeOff
    <2>1. /\ loop.on /\ loop' = [loop EXCEPT !.on = FALSE]
          /\ UNCHANGED <<shape, used, root, pawn, cache, bound, old>>
      BY <1>4 DEF FreezeOff
    <2>2. /\ loop' \in [on : {FALSE}, at : {loop.at}, obj : {loop.obj}]
          /\ loop'.on = FALSE /\ loop'.at = loop.at /\ loop'.obj = loop.obj
      BY <1>1, <2>1 DEF ReflTypeOK
    <2>3. /\ shape \in {"direct", "deref"} /\ bound.obj \in Objects /\ cache \in Objects
      BY <1>1, <1>2, <2>1 DEF ReflInv, ReflTypeOK
    <2>4. /\ heap' \in [Objects -> Record]
          /\ \A x \in Objects : /\ heap'[x].live <=> heap[x].live
                                /\ x > used => heap'[x] = heap[x]
      <3>1. CASE ~bound.taken
        <4>1. heap' = heap
          BY <1>4, <3>1 DEF FreezeOff
        <4> QED
          BY <1>2, <4>1
      <3>2. CASE bound.taken /\ shape = "direct"
        <4> DEFINE h == [heap EXCEPT ![bound.obj].value = bound.snap[1]]
        <4>1. heap' = [h EXCEPT ![cache].mirror = bound.snap[2]]
          BY <1>4, <3>2 DEF FreezeOff
        <4>2. bound.snap[1] \in FieldValues /\ bound.snap[2] \in FieldValues /\ Null \in Pointers
          BY <1>2, <3>2 DEF ReflInv, Pointers
        <4>3. Written_R(h, heap, bound.obj)
          BY <1>2, <2>3, <4>2, FieldWritten
        <4> HIDE DEF h
        <4>4. h \in [Objects -> Record]
          BY <4>3 DEF Written_R
        <4>5. Written_R(heap', h, cache)
          BY <2>3, <4>1, <4>2, <4>4, FieldWritten
        <4> QED
          BY <1>2, <2>3, <4>3, <4>5 DEF Written_R, Objects
      <3>3. CASE bound.taken /\ shape = "deref"
        <4>1. PICK p \in Overwritten(heap[bound.obj].slot) : heap' = [heap EXCEPT ![bound.obj].slot = p]
          BY <1>4, <3>3 DEF FreezeOff
        <4>2. p \in Pointers /\ Stock \in FieldValues
          BY <1>2, <2>3 DEF Overwritten, Record, Pointers, FieldValues
        <4>3. Written_R(heap', heap, bound.obj)
          BY <1>2, <2>3, <4>1, <4>2, FieldWritten
        <4> QED
          BY <1>2, <2>3, <4>3 DEF Written_R, Objects
      <3> QED
        BY <2>3, <3>1, <3>2, <3>3
    <2>5. /\ World'
          /\ \A o \in old' : o <= used' /\ ~heap'[o].live
      BY <2>1, <2>3, <2>4, WorldFrame
    <2>6. ReflTypeOK'
      BY <1>1, <2>1, <2>2, <2>4 DEF ReflTypeOK, Record
    <2> QED
      BY <2>1, <2>2, <2>5, <2>6 DEF ReflInv
  <1> QED
    BY <1>3, <1>4

LEMMA ReflStep == ReflInv /\ [ReflNext]_reflVars => ReflInv'
  <1>1. ASSUME ReflInv, UNCHANGED reflVars PROVE ReflInv'
    BY <1>1 DEF ReflInv, reflVars, worldVars, ReflTypeOK, World
  <1> QED
    BY <1>1, GameKeeps, AttachKeeps, TickKeeps, SwitchKeeps DEF ReflNext

\* The objects, the cache and the loop keep their types; a direct restore writes a value
\* of the property and never a pointer.
THEOREM ReflTypeCorrect == ReflSpec => []ReflTypeOK
  <1>1. ReflInv => ReflTypeOK
    BY DEF ReflInv
  <1> QED
    BY <1>1, ReflInitial, ReflStep, PTL DEF ReflSpec

\* A tick or a call goes on through no object, and a tick writes into none, that the game
\* had freed before it began: over any number of objects, freed in any order and with any
\* pointers left behind, through the address of the attach, the cache or a stale pointer,
\* also after a restore has put an old one back (ensure_reflection_fresh,
\* resolve_deref_addr).  Of the receiver of a call it says nothing.
THEOREM FreedCorrect == ReflSpec => []NotIntoFreed
  <1>1. ReflInv => NotIntoFreed
    BY DEF ReflInv, NotIntoFreed
  <1> QED
    BY <1>1, ReflInitial, ReflStep, PTL DEF ReflSpec

\* Until the snapshot has been taken nothing is frozen; so what it holds is the game's.
SnapIsStock ==
    /\ shape = "direct"
    /\ ~bound.taken => loop.at = "rest" /\ \A o \in Objects : heap[o].value = Stock
    /\ bound.taken => bound.snap[1] = Stock

LEMMA SnapStaysStock ==
  ASSUME ReflInv, SnapIsStock, loop.on => bound.taken, (loop.on => bound.taken)',
         [ReflNext]_reflVars
  PROVE  SnapIsStock'
  <1>1. /\ ReflTypeOK /\ World /\ shape = "direct"
        /\ bound \in [obj : Objects \cup {Null}, taken : BOOLEAN, snap : Pointers \X FieldValues]
        /\ heap \in [Objects -> Record] /\ used \in 0 .. MaxObjects
    BY ReflTypes DEF ReflInv, ReflTypeOK, SnapIsStock
  \* Most steps leave the feature's address and its snapshot alone.
  <1>2. ASSUME UNCHANGED <<shape, bound>>,
               ~bound.taken => /\ loop'.at = "rest"
                               /\ \A o \in Objects : heap'[o].value = heap[o].value
        PROVE  SnapIsStock'
    BY <1>2 DEF SnapIsStock
  <1>3. ASSUME bound.taken, UNCHANGED <<shape, bound>>
        PROVE  SnapIsStock'
    BY <1>2, <1>3
  <1>4. CASE EnterLevel
    <2>1. /\ used < MaxObjects /\ heap' = [heap EXCEPT ![used + 1].live = TRUE]
          /\ UNCHANGED <<shape, bound, loop>>
      BY <1>4 DEF EnterLevel, GameOnly_R
    <2>2. used + 1 \in Objects
      BY <1>1, <2>1, ReflectionAssumption DEF Objects
    <2>3. \A o \in Objects : heap'[o].value = heap[o].value
      BY <1>1, <2>1, <2>2 DEF Record
    <2> QED
      BY <1>2, <2>1, <2>3 DEF SnapIsStock
  <1>5. CASE \E o \in Objects : Frees(o)
    <2>0. PICK o \in Objects : Frees(o)
      BY <1>5
    <2>1. /\ heap' = [heap EXCEPT ![o] = [Blank EXCEPT !.slot = heap[o].slot]]
          /\ UNCHANGED <<shape, bound, loop>>
      BY <2>0 DEF Frees, GameOnly_R
    <2>2. /\ heap'[o].value = Stock
          /\ \A x \in Objects \ {o} : heap'[x].value = heap[x].value
      BY <1>1, <2>1 DEF Blank
    <2> QED
      BY <1>2, <2>1, <2>2 DEF SnapIsStock
  <1>r. CASE Reseat
    <2>1. /\ heap' = [heap EXCEPT ![root].slot = pawn]
          /\ UNCHANGED <<shape, bound, loop>>
      BY <1>r DEF Reseat, GameOnly_R
    <2>2. \A x \in Objects : heap'[x].value = heap[x].value
      BY <1>1, <2>1 DEF Record
    <2> QED
      BY <1>2, <2>1, <2>2 DEF SnapIsStock
  <1>6. CASE GameSets
    <2>1. Holder \in Objects /\ heap[Holder].value = Frozen /\ UNCHANGED <<shape, bound>>
      BY <1>1, <1>6, ReflTypes DEF GameSets, GameOnly_R, Holder
    <2>2. bound.taken
      BY <2>1 DEF SnapIsStock, Stock, Frozen
    <2> QED
      BY <1>3, <2>1, <2>2
  <1>7. CASE Possess \/ Fire("check") \/ Fire("waypoint")
    BY <1>1, <1>7 DEF Possess, Fire
  <1>8. CASE Resolve
    <2>1. bound' = [bound EXCEPT !.obj = root] /\ UNCHANGED <<shape, heap, loop>>
      BY <1>8 DEF Resolve, worldVars
    <2>2. bound'.taken = bound.taken /\ bound'.snap = bound.snap
      BY <1>1, <2>1
    <2> QED
      BY <2>1, <2>2 DEF SnapIsStock
  <1>9. CASE Snapshot
    <2> DEFINE o == heap[bound.obj]
    <2>1. /\ bound.obj # Null /\ ~bound.taken
          /\ bound' = [bound EXCEPT !.taken = TRUE, !.snap = <<o.value, o.mirror>>]
          /\ shape' = shape
      BY <1>1, <1>9 DEF Snapshot, worldVars
    <2>2. bound.obj \in Objects /\ o.value = Stock
      BY <1>1, <2>1 DEF SnapIsStock
    <2> HIDE DEF o
    <2>3. bound'.taken = TRUE /\ bound'.snap = <<o.value, o.mirror>>
      BY <1>1, <2>1
    <2> QED
      BY <1>1, <2>1, <2>2, <2>3 DEF SnapIsStock
  <1>10. CASE Tick_R \/ FreezeOff
    BY <1>3, <1>10 DEF Tick_R, FreezeOff, worldVars
  <1>11. CASE TickMoves
    <2>1. loop.at # "rest" /\ UNCHANGED <<shape, bound>>
      BY <1>11 DEF TickMoves, Check, Find, Walk, WriteValue, ReadWaypoint, CallReceiver, worldVars
    <2> QED
      BY <1>3, <2>1 DEF SnapIsStock
  <1>12. CASE FreezeOn
    <2>1. loop' = [loop EXCEPT !.on = TRUE] /\ UNCHANGED <<shape, bound>>
      BY <1>12 DEF FreezeOn, worldVars
    <2>2. loop'.on
      BY <1>1, <2>1 DEF ReflTypeOK
    <2> QED
      BY <1>3, <2>1, <2>2
  <1>13. CASE UNCHANGED reflVars
    BY <1>13 DEF reflVars, worldVars, SnapIsStock
  <1> QED
    BY <1>4, <1>5, <1>r, <1>6, <1>7, <1>8, <1>9, <1>10, <1>11, <1>12, <1>13 DEF ReflNext

\* Where switching off does restore, as its comment has it (commands.rs:1343): for a
\* property of the root object itself, whose snapshot was taken before the first freeze.
\* Over any number of level transitions and ticks, also with one still in flight; the run
\* `ReflectRestore` refutes the same of a value behind a pointer.
THEOREM DirectRestores ==
  ReflSpec /\ shape = "direct" /\ [](loop.on => bound.taken) => OffRestores
  <1> DEFINE On == loop.on => bound.taken
             Restored == loop.on /\ ~loop'.on /\ bound.taken /\ root = bound.obj /\ Settled
                            => heap'[Holder].value = Stock
             Inv == ReflInv /\ SnapIsStock
  <1>1. ReflInit /\ shape = "direct" => Inv
    <2> SUFFICES ASSUME ReflInit, shape = "direct"
                 PROVE  SnapIsStock
      BY ReflInitial
    <2>1. \A o \in Objects : heap[o].value = Stock
      BY DEF ReflInit, Blank
    <2> QED
      BY <2>1 DEF ReflInit, SnapIsStock, Unbound
  <1>2. Inv /\ On /\ On' /\ [ReflNext]_reflVars => Inv'
    BY ReflStep, SnapStaysStock
  <1>3. Inv /\ [ReflNext]_reflVars => [Restored]_reflVars
    <2> SUFFICES ASSUME Inv, [ReflNext]_reflVars, loop.on, ~loop'.on, bound.taken,
                        root = bound.obj, Settled
                 PROVE  heap'[Holder].value = Stock
      OBVIOUS
    <2>1. /\ ReflTypeOK /\ shape = "direct" /\ bound.snap[1] = Stock /\ heap \in [Objects -> Record]
          /\ bound \in [obj : Objects \cup {Null}, taken : BOOLEAN, snap : Pointers \X FieldValues]
          /\ cache \in Objects \cup {Null} /\ root \in Objects \cup {Null}
      BY ReflTypes DEF ReflInv, ReflTypeOK, SnapIsStock
    <2>2. FreezeOff
      <3>1. \A step, o : At(step, o) => loop'.on
        BY <2>1 DEF At, ReflTypeOK
      <3>2. \A step : Begins(step) => loop'.on
        BY <2>1 DEF Begins, ReflTypeOK
      <3> QED
        BY <2>1, <3>1, <3>2
           DEF ReflNext, EnterLevel, Possess, Reseat, Frees, GameSets, GameOnly_R, Resolve, Snapshot,
               Tick_R, TickMoves, Check, Find, Walk, WriteValue, ReadWaypoint, CallReceiver,
               FreezeOn, Fire, reflVars
    <2>3. Holder = root /\ root \in Objects /\ root = bound.obj
      BY <2>1 DEF Settled, Holder
    <2> DEFINE h == [heap EXCEPT ![bound.obj].value = bound.snap[1]]
    <2>4. heap' = [h EXCEPT ![cache].mirror = bound.snap[2]]
      BY <2>1, <2>2 DEF FreezeOff
    <2>5. cache \in Objects
      BY <2>1, <2>3 DEF ReflInv, Objects, Null
    <2>6. h \in [Objects -> Record] /\ h[root].value = Stock
      BY <2>1, <2>3 DEF Record, FieldValues
    <2> HIDE DEF h
    <2>7. heap'[root].value = h[root].value
      BY <2>3, <2>4, <2>5, <2>6 DEF Record
    <2> QED
      BY <2>3, <2>6, <2>7
  <1>4. Inv /\ []On /\ [][ReflNext]_reflVars => [][Restored]_reflVars
    <2> HIDE DEF Inv, On, Restored
    <2> QED
      BY <1>2, <1>3, PTL
  <1>5. OffRestores <=> [][Restored]_reflVars
    BY DEF OffRestores
  <1> QED
    BY <1>1, <1>4, <1>5, PTL DEF ReflSpec

-----------------------------------------------------------------------------
(* The parts side by side.  A step of one leaves the variables of the      *)
(* others alone, so that each behaves as in its own module.                *)

LEMMA ThreadsInitial == ThreadsInit => LuaInit /\ ReflInit /\ PipeInit /\ ConsoleInit
  BY DEF ThreadsInit

LEMMA ThreadsMove ==
  ASSUME [ThreadsNext]_threadsVars
  PROVE  [LuaNext]_luaVars /\ [ReflNext]_reflVars /\ [PipeNext]_pipeVars /\ [ConsoleNext]_consoleVars
  <1>1. CASE LuaSteps
    BY <1>1 DEF LuaSteps
  <1>2. CASE ReflectionSteps
    BY <1>2 DEF ReflectionSteps
  <1>3. CASE PipeSteps
    BY <1>3 DEF PipeSteps
  <1>4. CASE ConsoleSteps
    BY <1>4 DEF ConsoleSteps
  <1>5. CASE UNCHANGED threadsVars
    BY <1>5 DEF threadsVars
  <1> QED
    BY <1>1, <1>2, <1>3, <1>4, <1>5 DEF ThreadsNext

\* In the model of the run `Threads` each part behaves as in its own module, where its
\* threads are those of the code: what is proved of the module holds in the run.
THEOREM ThreadsCompose == ThreadsSpec => LuaSpec /\ ReflSpec /\ PipeSpec /\ ConsoleSpec
  BY ThreadsInitial, ThreadsMove, PTL DEF ThreadsSpec, LuaSpec, ReflSpec, PipeSpec, ConsoleSpec

LEMMA PartInThreads == ThreadsSpec => [](part \in Threads)
  <1>1. ThreadsInit => part \in Threads
    BY DEF ThreadsInit
  <1>2. part \in Threads /\ [ThreadsNext]_threadsVars => (part \in Threads)'
    BY DEF ThreadsNext, threadsVars, LuaSteps, ReflectionSteps, PipeSteps, ConsoleSteps
  <1> QED
    BY <1>1, <1>2, PTL DEF ThreadsSpec

\* Every variable of the scripts' runtime and console, of the pipe and its ends, and of the
\* freeze keeps its type, whatever the number of scripts, hosts and objects.
THEOREM ThreadsTypeCorrect == ThreadsSpec => []ThreadsTypeOK
  <1>1. ThreadsSpec => [](part \in Threads /\ LuaTypeOK /\ ReflTypeOK /\ PipeTypeOK /\ ConsoleTypeOK)
    BY ThreadsCompose, PartInThreads, LuaTypeCorrect, ReflTypeCorrect, PipeTypeCorrect,
       ConsoleTypeCorrect, PTL
  <1>2. part \in Threads /\ LuaTypeOK /\ ReflTypeOK /\ PipeTypeOK /\ ConsoleTypeOK => ThreadsTypeOK
    BY DEF ThreadsTypeOK
  <1> QED
    BY <1>1, <1>2, PTL

\* The four invariants of the run `Threads`, for any number of scripts, hosts and objects:
\* after stop() no code of an older script runs (LuaRuntime), a tick writes into no object
\* that was freed before it began (ReflectionFreeze), a host reads the answer to its own request
\* (PipeSession), and a gap in the console is told of (LuaConsole).
THEOREM ThreadsCorrect ==
  ThreadsSpec => [](NothingLeftOver /\ NotIntoFreed /\ AnswersOwn /\ LossShown)
  BY ThreadsCompose, NothingLeftCorrect, FreedCorrect, OwnCorrect, LossCorrect, PTL
=============================================================================
