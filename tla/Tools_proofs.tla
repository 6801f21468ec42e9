---------------------------- MODULE Tools_proofs ----------------------------
(***************************************************************************)
(* The safety of seven of the parts that share no state, each for any      *)
(* value of its constants: the watchpoint tool, the locator of the         *)
(* engine's tables, the session of the discover tool, the search for       *)
(* objects, the grant of a game's progress, the layout of an object's      *)
(* properties, and the scanners of memory.                                 *)
(***************************************************************************)
EXTENDS WriterWatch, UnrealLocate, DiscoverSession, ObjectSearch, ProgressGrants,
        PropertyLayout, MemoryScan, SequencesExt, SequenceTheorems, FiniteSetTheorems,
        WellFoundedInduction, TLAPS

-----------------------------------------------------------------------------
(* WriterWatch.  At every step of the watcher the armed threads are among  *)
(* those it still answers for, and that is nobody once it has cleared.     *)

Answerable ==
    CASE watch.at \in {"arm", "wait"} -> watch.known
      [] watch.at = "clear" -> watch.todo
      [] OTHER -> {}

WatchInv == WatchTypeOK /\ armed \subseteq Answerable

LEMMA WatchInitInv == WatchInit => WatchInv
  <1> SUFFICES ASSUME WatchInit PROVE WatchInv
    OBVIOUS
  <1>1. watch \in [at : {"idle"}, todo : SUBSET GameThreads, known : SUBSET GameThreads]
    BY DEF WatchInit
  <1>2. hit \in [is : BOOLEAN, of : GameThreads \cup {Nobody}]
    BY DEF WatchInit
  <1>3. answer \in [is : {"none"}, of : GameThreads \cup {Nobody}]
    BY DEF WatchInit
  <1> QED
    BY <1>1, <1>2, <1>3, WatchAssumption DEF WatchInit, WatchInv, WatchTypeOK, Answerable

\* The steps of the game: none of them arms a thread.
LEMMA GameKeepsWatch ==
  ASSUME WatchInv, NEW t \in GameThreads,
         \/ ThreadStarts(t) \/ ThreadEnds(t) \/ Writes(t)
         \/ Handled(t) \/ Stores(t) \/ Disarms(t)
  PROVE  WatchInv'
  <1> USE DEF WatchInv, WatchTypeOK
  <1>1. thread' \in [GameThreads ->
            {"unborn", "run", "trapped", "stores", "disarms", "event", "gone", "crashed"}]
    BY DEF ThreadStarts, ThreadEnds, Writes, Handled, Stores, Disarms, Set
  <1>2. hit' \in [is : BOOLEAN, of : GameThreads \cup {Nobody}]
    <2>1. hit' \in {hit, [hit EXCEPT !.is = TRUE], [hit EXCEPT !.of = t]}
      BY DEF ThreadStarts, ThreadEnds, Writes, Handled, Stores, Disarms
    <2>2. [hit EXCEPT !.is = TRUE] \in [is : BOOLEAN, of : GameThreads \cup {Nobody}]
      OBVIOUS
    <2>3. [hit EXCEPT !.of = t] \in [is : BOOLEAN, of : GameThreads \cup {Nobody}]
      OBVIOUS
    <2> QED
      BY <2>1, <2>2, <2>3
  <1>3. armed' \subseteq armed /\ UNCHANGED <<tool, watch, answer>>
    BY DEF ThreadStarts, ThreadEnds, Writes, Handled, Stores, Disarms, GameRuns
  <1> QED
    BY <1>1, <1>2, <1>3 DEF Answerable

\* The steps of the watcher.
LEMMA WatcherKeepsWatch ==
  ASSUME WatchInv, Watcher
  PROVE  WatchInv'
  <1> DEFINE Watches == [at : {"idle", "arm", "wait", "clear", "detach", "done"},
                         todo : SUBSET GameThreads, known : SUBSET GameThreads]
             Answers == [is : {"none", "error", "found"}, of : GameThreads \cup {Nobody}]
  <1>0. watch \in Watches /\ answer \in Answers /\ armed \subseteq Answerable
    BY DEF WatchInv, WatchTypeOK
  <1> USE DEF WatchTypeOK
  <1>1. CASE Begin
    <2>1. watch' \in Watches /\ watch'.at = "arm"
      BY <1>1 DEF Begin, Alive
    <2>2. hit' \in [is : BOOLEAN, of : GameThreads \cup {Nobody}]
      <3>1. FALSE \in BOOLEAN
        OBVIOUS
      <3> QED
        BY <1>1, <3>1 DEF Begin, WatchInv
    <2>3. armed' = {}
      BY <1>0, <1>1 DEF Begin, Answerable
    <2> QED
      BY <1>1, <2>1, <2>2, <2>3 DEF Begin, WatchInv
  <1>2. ASSUME NEW t \in GameThreads, Arm(t) PROVE WatchInv'
    <2>1. PICK ok \in BOOLEAN :
              /\ armed' = IF ok THEN armed \cup {t} ELSE armed
              /\ watch' = [watch EXCEPT !.todo = @ \ {t}, !.known = IF ok THEN @ \cup {t} ELSE @]
      BY <1>2 DEF Arm
    <2>2. watch' \in [at : {watch.at}, todo : SUBSET GameThreads,
                      known : {IF ok THEN watch.known \cup {t} ELSE watch.known}]
      BY <1>0, <2>1
    <2>3. watch' \in Watches /\ watch'.at = "arm" /\ armed' \subseteq watch'.known
      BY <1>0, <1>2, <2>1, <2>2 DEF Arm, Answerable
    <2> QED
      BY <1>0, <1>2, <2>1, <2>3 DEF Arm, Answerable, WatchInv
  <1>3. CASE Armed
    <2>1. CASE watch.known = {}
      <3>1. watch' \in Watches /\ answer' \in Answers
        BY <1>0, <1>3, <2>1 DEF Armed
      <3>2. armed' = {}
        BY <1>0, <1>3, <2>1 DEF Armed, Answerable
      <3> QED
        BY <1>3, <3>1, <3>2 DEF Armed, WatchInv
    <2>2. CASE watch.known # {}
      BY <1>0, <1>3, <2>2 DEF Armed, Answerable, WatchInv
    <2> QED
      BY <2>1, <2>2
  <1>4. CASE SeesHit \/ Deadline
    <2>1. watch.at = "wait" /\ watch' = [watch EXCEPT !.at = "clear", !.todo = watch.known]
          /\ answer' \in Answers
      BY <1>4 DEF SeesHit, Deadline, Finished
    <2>2. watch' \in [at : {"clear"}, todo : {watch.known}, known : SUBSET GameThreads]
      BY <1>0, <2>1
    <2> QED
      BY <1>0, <1>4, <2>1, <2>2 DEF SeesHit, Deadline, Answerable, WatchInv
  <1>5. CASE Cleared_W
    BY <1>0, <1>5 DEF Cleared_W, Answerable, WatchInv
  <1>6. CASE Detach
    <2>1. thread' \in [GameThreads ->
              {"unborn", "run", "trapped", "stores", "disarms", "event", "gone", "crashed"}]
      BY <1>6 DEF Detach, WatchInv
    <2>2. answer' \in Answers
      <3>1. hit.of \in GameThreads \cup {Nobody}
        BY DEF WatchInv
      <3> QED
        BY <1>0, <1>6, <3>1 DEF Detach
    <2> QED
      BY <1>0, <1>6, <2>1, <2>2 DEF Detach, Answerable, WatchInv
  <1>7. ASSUME NEW t \in GameThreads, NewThread(t) PROVE WatchInv'
    <2>1. armed' \subseteq armed \cup {t} /\ watch' = [watch EXCEPT !.known = @ \cup {t}]
      BY <1>7 DEF NewThread
    <2>2. watch' \in [at : {"wait"}, todo : SUBSET GameThreads, known : {watch.known \cup {t}}]
      BY <1>0, <1>7, <2>1 DEF NewThread
    <2> QED
      BY <1>0, <1>7, <2>1, <2>2 DEF NewThread, Set, Answerable, WatchInv
  <1>8. ASSUME NEW t \in GameThreads, Captures(t) PROVE WatchInv'
    <2>1. CASE Finished("found", t)
      <3>1. watch' \in [at : {"clear"}, todo : {watch.known}, known : SUBSET GameThreads]
            /\ answer' \in Answers
        BY <1>0, <2>1 DEF Finished
      <3> QED
        BY <1>0, <1>8, <3>1 DEF Captures, Set, Answerable, WatchInv
    <2>2. CASE UNCHANGED <<watch, answer>>
      BY <1>0, <1>8, <2>2 DEF Captures, Set, Answerable, WatchInv
    <2> QED
      BY <1>8, <2>1, <2>2 DEF Captures
  <1>9. ASSUME NEW t \in GameThreads, Clear(t) PROVE WatchInv'
    <2>1. watch' \in [at : {"clear"}, todo : {watch.todo \ {t}}, known : SUBSET GameThreads]
      BY <1>0, <1>9 DEF Clear
    <2> QED
      BY <1>0, <1>9, <2>1 DEF Clear, Answerable, WatchInv
  <1> QED
    BY <1>1, <1>2, <1>3, <1>4, <1>5, <1>6, <1>7, <1>8, <1>9 DEF Watcher

LEMMA WatchNextInv == WatchInv /\ [WatchNext]_watchVars => WatchInv'
  <1> SUFFICES ASSUME WatchInv, [WatchNext]_watchVars PROVE WatchInv'
    OBVIOUS
  <1>1. CASE UNCHANGED watchVars
    BY <1>1 DEF watchVars, WatchInv, WatchTypeOK, Answerable
  <1> QED
    BY <1>1, GameKeepsWatch, WatcherKeepsWatch DEF WatchNext

\* However a watch ends, and whatever threads start, end, trap or refuse meanwhile,
\* no living thread is left with the debug register set.
THEOREM CleanWatch == WatchSpec => []WatchLeavesClean
  <1>1. WatchInv => WatchLeavesClean
    BY DEF WatchInv, Answerable, WatchLeavesClean
  <1> QED
    BY <1>1, WatchInitInv, WatchNextInv, PTL DEF WatchSpec

\* The watcher, its report and the threads of the game keep their types.
THEOREM WatchTypeCorrect == WatchSpec => []WatchTypeOK
  <1>1. WatchInv => WatchTypeOK
    BY DEF WatchInv
  <1> QED
    BY <1>1, WatchInitInv, WatchNextInv, PTL DEF WatchSpec

-----------------------------------------------------------------------------
(* UnrealLocate.  From the pool on, what is found is real as long as the   *)
(* launch that was opened goes on.                                         *)

Real_L == locator.found.array = process.place /\ locator.found.pool = process.place

\* A launch that is over does not come back: its number is behind.
LocateInv ==
    /\ LocateTypeOK
    /\ locator.launch <= process.launch
    /\ locator.at \in {"layout", "classes", "outers", "fields", "save", "done"}
           /\ locator.launch = process.launch => Real_L

Steps_L == {"idle", "cache", "array", "pool", "layout", "classes", "outers",
            "fields", "save", "done"}

LEMMA LocateInitInv == LocateInit => LocateInv
  <1> SUFFICES ASSUME LocateInit PROVE LocateInv
    OBVIOUS
  <1> USE LocateAssumption
  <1>1. (CHOOSE h \in Hashes : TRUE) \in Hashes /\ (CHOOSE l \in Locations : TRUE) \in Locations
    OBVIOUS
  <1>2. process \in [launch : {0}, hash : Hashes, place : Locations,
                     stage : {"down"}, lookalikes : {FALSE}]
    BY <1>1 DEF LocateInit
  <1>3. NoFindings \in Findings
    BY DEF NoFindings, Findings, Elsewhere
  <1>4. locator \in [at : {"idle"}, launch : {0}, hash : Hashes, found : Findings]
    BY <1>2, <1>3 DEF LocateInit
  <1>5. ueCache \in [{} -> Findings]
    BY DEF LocateInit
  <1>0. 0 \in 0 .. MaxLaunches
    OBVIOUS
  <1>6. process \in [launch : 0 .. MaxLaunches, hash : Hashes, place : Locations,
                     stage : Stages, lookalikes : BOOLEAN]
    <2>1. process.lookalikes \in BOOLEAN
      <3>1. process.lookalikes = FALSE
        BY <1>2
      <3> QED
        BY <3>1
    <2> QED
      BY <1>0, <1>2, <2>1 DEF Stages
  <1>7. locator.at = "idle" /\ locator.launch = 0 /\ process.launch = 0
    BY <1>2, <1>4
  <1>8. LocateTypeOK
    BY <1>0, <1>4, <1>5, <1>6 DEF LocateTypeOK
  <1> QED
    BY <1>7, <1>8 DEF LocateInv

\* A step of the locator: where it goes and what it has found then.
LEMMA StepType ==
  ASSUME LocateTypeOK, NEW step \in Steps_L, NEW found \in Findings, ToStep(step, found)
  PROVE  /\ locator' \in [at : {step}, launch : {locator.launch}, hash : {locator.hash},
                          found : {found}]
         /\ locator' \in [at : Steps_L, launch : 0 .. MaxLaunches, hash : Hashes,
                          found : Findings]
         /\ process' = process
  BY DEF LocateTypeOK, ToStep, Steps_L

\* What it may keep of what it has found.
LEMMA FoundTypes ==
  ASSUME LocateTypeOK
  PROVE  /\ NoFindings \in Findings /\ locator.found \in Findings
         /\ \A a \in Locations \cup {Elsewhere} : [NoFindings EXCEPT !.array = a] \in Findings
         /\ \A p \in Locations \cup {Elsewhere} : [locator.found EXCEPT !.pool = p] \in Findings
         /\ [locator.found EXCEPT !.layout = TRUE] \in Findings
         /\ \A ok \in BOOLEAN : [locator.found EXCEPT !.fields = ok] \in Findings
  BY DEF LocateTypeOK, Findings, NoFindings, Elsewhere

\* A step before the pool promises nothing; later ones keep both addresses.
LEMMA StepKeeps ==
  ASSUME LocateInv, NEW step \in Steps_L, NEW found \in Findings, ToStep(step, found),
         UNCHANGED ueCache,
         \/ step \in {"idle", "cache", "array", "pool"}
         \/ /\ locator.at \in {"layout", "classes", "outers", "fields", "save"}
            /\ found.array = locator.found.array /\ found.pool = locator.found.pool
         \/ found.array = process.place /\ found.pool = process.place
  PROVE  LocateInv'
  <1>1. /\ locator'.at = step /\ locator'.launch = locator.launch /\ locator'.found = found
        /\ locator' \in [at : Steps_L, launch : 0 .. MaxLaunches, hash : Hashes,
                         found : Findings]
        /\ process' = process
    BY StepType DEF LocateInv
  <1>2. LocateTypeOK'
    BY <1>1 DEF LocateInv, LocateTypeOK, Steps_L
  <1> QED
    BY <1>1, <1>2 DEF LocateInv, Real_L

LEMMA LocateNextInv == LocateInv /\ [LocateNext]_locateVars => LocateInv'
  <1> SUFFICES ASSUME LocateInv, [LocateNext]_locateVars PROVE LocateInv'
    OBVIOUS
  <1> USE LocateAssumption DEF Steps_L
  <1>0. /\ LocateTypeOK /\ locator.found \in Findings /\ NoFindings \in Findings
        /\ process.place \in Locations
    BY FoundTypes DEF LocateInv, LocateTypeOK
  <1>1. CASE Launches
    <2>1. PICK h \in Hashes, l \in Locations, b \in BOOLEAN :
              process' = [launch |-> process.launch + 1, hash |-> h, place |-> l,
                          stage |-> "boot", lookalikes |-> b]
      BY <1>1 DEF Launches
    <2>2. process.launch \in Nat /\ process.launch + 1 \in 0 .. MaxLaunches
      BY <1>0, <1>1 DEF LocateTypeOK, Launches
    <2>3. LocateTypeOK'
      BY <1>0, <1>1, <2>1, <2>2 DEF Launches, LocateTypeOK, Stages
    <2>4. locator' = locator /\ process'.launch = process.launch + 1
      BY <1>1, <2>1 DEF Launches
    <2>5. locator.launch \in Nat
      BY <1>0 DEF LocateTypeOK
    <2> QED
      BY <2>2, <2>3, <2>4, <2>5 DEF LocateInv
  <1>2. CASE LoadsMore \/ Quits
    <2>1. /\ process' \in [launch : {process.launch}, hash : {process.hash},
                           place : {process.place}, stage : Stages,
                           lookalikes : {process.lookalikes}]
          /\ UNCHANGED <<ueCache, locator>>
      BY <1>0, <1>2 DEF LoadsMore, Quits, LocateTypeOK, Stages
    <2>2. LocateTypeOK'
      BY <1>0, <2>1 DEF LocateTypeOK
    <2> QED
      BY <2>1, <2>2 DEF LocateInv, Real_L
  <1>3. CASE Attaches
    <2>1. /\ locator' \in [at : {"cache"}, launch : {process.launch}, hash : {process.hash},
                           found : {NoFindings}]
          /\ UNCHANGED <<process, ueCache>>
      BY <1>3 DEF Attaches
    <2>2. process.launch \in Nat
      BY <1>0 DEF LocateTypeOK
    <2>3. LocateTypeOK'
      BY <1>0, <2>1 DEF LocateTypeOK
    <2> QED
      BY <2>1, <2>2, <2>3 DEF LocateInv
  <1>4. CASE CacheChecked
    <2>1. CASE locator.hash \in DOMAIN ueCache /\ CacheValid(ueCache[locator.hash])
      <3>1. ueCache[locator.hash] \in Findings
        BY <1>0, <2>1 DEF LocateTypeOK
      <3>2. /\ ueCache[locator.hash].array = process.place
            /\ ueCache[locator.hash].pool = process.place
        BY <2>1 DEF CacheValid, PoolValid, ObjectsNamed, Decoded
      <3> QED
        BY <1>4, <2>1, <3>1, <3>2, StepKeeps DEF CacheChecked
    <2>2. CASE ~(locator.hash \in DOMAIN ueCache /\ CacheValid(ueCache[locator.hash]))
      BY <1>0, <1>4, <2>2, StepKeeps DEF CacheChecked
    <2> QED
      BY <2>1, <2>2
  <1>5. CASE ArrayByPattern \/ ArrayByFingerprint \/ ArrayByString
    <2>1. PICK a \in Locations \cup {Elsewhere} :
              ToStep("pool", [NoFindings EXCEPT !.array = a])
      BY <1>0, <1>5 DEF ArrayByPattern, ArrayByFingerprint, ArrayByString
    <2>2. [NoFindings EXCEPT !.array = a] \in Findings
      BY <1>0, FoundTypes
    <2> QED
      BY <1>5, <2>1, <2>2, StepKeeps DEF ArrayByPattern, ArrayByFingerprint, ArrayByString
  <1>6. CASE ArrayNotFound \/ PoolNotFound \/ SamplesUnreadable \/ Reported
    BY <1>0, <1>6, StepKeeps DEF ArrayNotFound, PoolNotFound, SamplesUnreadable, Reported, Bails
  <1>7. CASE PoolByPattern \/ PoolByStructure
    <2>1. PICK p \in Locations \cup {Elsewhere} : PoolTaken(p)
      BY <1>0, <1>7 DEF PoolByPattern, PoolByStructure
    <2> DEFINE new == [locator.found EXCEPT !.pool = p]
    <2>2. new \in Findings
      BY <1>0, FoundTypes
    <2>3. locator.found.array = process.place /\ p = process.place
      BY <2>1 DEF PoolTaken, PoolValid, ObjectsNamed, Decoded
    <2>4. new.array = process.place /\ new.pool = process.place
      BY <1>0, <2>3 DEF Findings
    <2>5. ToStep("layout", new) /\ UNCHANGED ueCache
      BY <2>1 DEF PoolTaken
    <2> HIDE DEF new
    <2> QED
      BY <2>2, <2>4, <2>5, StepKeeps
  <1>8. CASE NamesProbed \/ ClassesProbed
    <2>1. PICK step \in {"classes", "outers", "fields"} : ToStep(step, locator.found)
      BY <1>8 DEF NamesProbed, ClassesProbed
    <2>2. locator.at \in {"layout", "classes"} /\ UNCHANGED ueCache
      BY <1>8 DEF NamesProbed, ClassesProbed
    <2> QED
      BY <1>0, <2>1, <2>2, StepKeeps
  <1>9. CASE OutersProbed
    <2> DEFINE new == [locator.found EXCEPT !.layout = TRUE]
    <2>1. new \in Findings
      BY <1>0, FoundTypes
    <2>2. new.array = locator.found.array /\ new.pool = locator.found.pool
      BY <1>0 DEF Findings
    <2>3. ToStep("fields", new) /\ UNCHANGED ueCache /\ locator.at = "outers"
      BY <1>9 DEF OutersProbed
    <2> HIDE DEF new
    <2> QED
      BY <2>1, <2>2, <2>3, StepKeeps
  <1>10. CASE FieldsProbed
    <2>1. PICK ok \in BOOLEAN : ToStep("save", [locator.found EXCEPT !.fields = ok])
      BY <1>10 DEF FieldsProbed
    <2> DEFINE new == [locator.found EXCEPT !.fields = ok]
    <2>2. new \in Findings
      BY <1>0, FoundTypes
    <2>3. new.array = locator.found.array /\ new.pool = locator.found.pool
      BY <1>0 DEF Findings
    <2>4. ToStep("save", new) /\ UNCHANGED ueCache /\ locator.at = "fields"
      BY <1>10, <2>1 DEF FieldsProbed
    <2> HIDE DEF new
    <2> QED
      BY <2>2, <2>3, <2>4, StepKeeps
  <1>11. CASE CacheSaved
    <2>1. /\ locator'.at = "done" /\ locator'.launch = locator.launch
          /\ locator'.found = locator.found
          /\ locator' \in [at : Steps_L, launch : 0 .. MaxLaunches, hash : Hashes,
                           found : Findings]
          /\ process' = process
      BY <1>0, <1>11, StepType DEF CacheSaved
    <2>2. PICK saved \in SUBSET Hashes : ueCache \in [saved -> Findings]
      BY <1>0 DEF LocateTypeOK
    <2>3. locator.hash \in Hashes
      BY <1>0 DEF LocateTypeOK
    <2>4. ueCache' \in [saved \cup {locator.hash} -> Findings]
      BY <1>0, <1>11, <2>2, <2>3 DEF CacheSaved
    <2>5. saved \cup {locator.hash} \in SUBSET Hashes
      BY <2>3
    <2>6. LocateTypeOK'
      BY <1>0, <2>1, <2>4, <2>5 DEF LocateTypeOK
    <2> QED
      BY <1>11, <2>1, <2>6 DEF LocateInv, Real_L, CacheSaved
  <1>12. CASE UNCHANGED locateVars
    BY <1>12 DEF locateVars, LocateInv, LocateTypeOK, Real_L
  <1> QED
    BY <1>1, <1>2, <1>3, <1>4, <1>5, <1>6, <1>7, <1>8, <1>9, <1>10, <1>11, <1>12
       DEF LocateNext

\* Whatever a build's patterns lead to, and from whatever launch the file of the
\* build is, what ue5-locate reports are the tables of the launch it has opened.
THEOREM RealTables == LocateSpec => []ReportsReal
  <1>1. LocateInv => ReportsReal
    BY DEF LocateInv, Real_L, ReportsReal
  <1> QED
    BY <1>1, LocateInitInv, LocateNextInv, PTL DEF LocateSpec

\* The launches, the file and the locator keep their types.
THEOREM LocateTypeCorrect == LocateSpec => []LocateTypeOK
  <1>1. LocateInv => LocateTypeOK
    BY DEF LocateInv
  <1> QED
    BY <1>1, LocateInitInv, LocateNextInv, PTL DEF LocateSpec

-----------------------------------------------------------------------------
(* DiscoverSession.  The wanted value is mapped and real, and was so when  *)
(* the user last looked.                                                   *)

DiscInv ==
    /\ DiscTypeOK
    /\ Wanted \in DOMAIN mem /\ mem[Wanted] \in 0 .. Largest
    /\ seen \in 0 .. Largest
    /\ TargetKept

PlaceOrNone == Places \cup {NoPlace}

Sessions ==
    [at : {"absent", "saved", "unreadable"}, last : Contents,
     picked : PlaceOrNone, captured : PlaceOrNone, pattern : PlaceOrNone]

LEMMA ContentsType ==
  /\ \A f \in Contents : DOMAIN f \subseteq Places /\ \A a \in DOMAIN f : f[a] \in NaN .. Largest
  /\ \A D \in SUBSET Places : [D -> NaN .. Largest] \subseteq Contents
  BY DEF Contents

LEMMA DoubleType ==
  ASSUME NEW v \in NaN .. Largest
  PROVE  Double(v) \in NaN .. Largest /\ (kind # "wide" => Double(v) = v)
  <1>1. v \in Int /\ Largest \in Nat /\ Exact \in Nat
    BY DiscoverAssumption DEF NaN
  <1>2. v % 2 \in 0 .. 1
    BY <1>1
  <1>3. CASE kind = "wide" /\ v > Exact
    <2>1. Double(v) = v - (v % 2)
      BY <1>3 DEF Double
    <2>2. v >= 1
      BY <1>1, <1>3
    <2> QED
      BY <1>1, <1>2, <1>3, <2>1, <2>2 DEF NaN
  <1>4. CASE ~(kind = "wide" /\ v > Exact)
    BY <1>4 DEF Double
  <1> QED
    BY <1>3, <1>4

\* Saving a session changes its state only.
LEMMA SavedType ==
  ASSUME NEW session \in Sessions, Saved(session)
  PROVE  /\ file' \in Sessions
         /\ file'.last = session.last /\ file'.picked = session.picked
  BY DEF Sessions, Saved

\* What is true of the wanted value, as the game shows it, the tool finds true
\* of its own last value of it.
LEMMA TruthMatches ==
  ASSUME NEW pred \in Predicates, Truthful(pred), kind # "wide",
         mem[Wanted] \in 0 .. Largest, seen \in 0 .. Largest
  PROVE  Matches(pred, mem[Wanted], seen)
  <1> DEFINE now == mem[Wanted]
  <1>1. /\ now \in Int /\ seen \in Int /\ Real(now) /\ Real(seen)
        /\ now \in NaN .. Largest /\ seen \in NaN .. Largest
    BY DiscoverAssumption DEF Real, NaN
  <1>2. Double(now) = now /\ Double(seen) = seen
    BY <1>1, DoubleType
  <1>3. CASE pred.op = "increased"
    <2>1. now - seen > 0
      BY <1>3 DEF Truthful
    <2>2. Above(Double(now), Double(seen))
      BY <1>1, <1>2, <2>1 DEF Above
    <2> QED
      BY <1>3, <2>2 DEF Matches
  <1>6. CASE pred.op = "decreased"
    <2>1. now - seen < 0
      BY <1>6 DEF Truthful
    <2>2. Above(Double(seen), Double(now))
      BY <1>1, <1>2, <2>1 DEF Above
    <2> QED
      BY <1>6, <2>2 DEF Matches
  <1>4. CASE pred.op \in {"increased_by", "decreased_by"}
    <2>1. pred.arg \in 0 .. Largest
      BY <1>4 DEF Predicates
    <2>2. pred.arg \in NaN .. Largest /\ Real(pred.arg) /\ pred.arg \in Int
      BY <2>1, DiscoverAssumption DEF NaN, Real
    <2>3. Double(pred.arg) = pred.arg
      BY <2>2, DoubleType
    <2>4. CASE pred.op = "increased_by"
      <3>1. now - seen = pred.arg
        BY <2>4 DEF Truthful
      <3>2. Same(Double(now) - Double(seen), Double(pred.arg))
        BY <1>2, <2>2, <2>3, <3>1 DEF Same
      <3> QED
        BY <2>4, <3>2 DEF Matches
    <2>5. CASE pred.op = "decreased_by"
      <3>1. -(now - seen) = pred.arg
        BY <2>5 DEF Truthful
      <3>2. seen - now = pred.arg
        BY <1>1, <3>1
      <3>3. Same(Double(seen) - Double(now), Double(pred.arg))
        BY <1>2, <2>2, <2>3, <3>2 DEF Same
      <3> QED
        BY <2>5, <3>3 DEF Matches
    <2> QED
      BY <1>4, <2>4, <2>5
  <1>5. CASE pred.op \notin {"increased", "decreased", "increased_by", "decreased_by"}
    BY <1>5 DEF Truthful
  <1> QED
    BY <1>3, <1>4, <1>5, <1>6

LEMMA DiscInitInv == DiscInit => DiscInv
  <1> SUFFICES ASSUME DiscInit PROVE DiscInv
    OBVIOUS
  <1>1. mem \in [Places -> NaN .. Largest] /\ mem[Wanted] # NaN
    BY DEF DiscInit, Values
  <1>2. mem \in Contents
    BY <1>1, ContentsType
  <1>3. mem[Wanted] \in 0 .. Largest /\ 0 \in 0 .. Largest /\ 0 \in NaN .. Largest
    BY <1>1, DiscoverAssumption DEF NaN
  <1>4. << >> \in Contents
    <2>1. << >> \in [{} -> NaN .. Largest]
      OBVIOUS
    <2> QED
      BY <2>1, ContentsType
  <1>5. NoFile \in Sessions /\ NoFile.at = "absent"
    BY <1>4 DEF NoFile, Sessions, PlaceOrNone
  <1> QED
    BY <1>1, <1>2, <1>3, <1>5, DiscoverAssumption
       DEF DiscInit, DiscInv, DiscTypeOK, TargetKept, Sessions, PlaceOrNone

LEMMA DiscNextInv == DiscInv /\ [DiscNext]_discVars => DiscInv'
  <1> SUFFICES ASSUME DiscInv, [DiscNext]_discVars PROVE DiscInv'
    OBVIOUS
  <1> USE DiscoverAssumption
  <1>0. /\ mem \in Contents /\ file \in Sessions /\ Wanted \in DOMAIN mem
        /\ mem[Wanted] \in 0 .. Largest /\ seen \in 0 .. Largest
        /\ DOMAIN mem \subseteq Places /\ \A a \in DOMAIN mem : mem[a] \in NaN .. Largest
        /\ 0 .. Largest \subseteq NaN .. Largest
    BY ContentsType DEF DiscInv, DiscTypeOK, Sessions, PlaceOrNone, NaN
  \* The values read of some places, as the session keeps them.
  <1>1. ASSUME NEW D \in SUBSET DOMAIN mem
        PROVE  [a \in D |-> Double(mem[a])] \in Contents
    <2>1. [a \in D |-> Double(mem[a])] \in [D -> NaN .. Largest]
      BY <1>0, DoubleType
    <2>2. D \in SUBSET Places
      BY <1>0
    <2> QED
      BY <2>1, <2>2, ContentsType
  <1>2. kind # "wide" => Double(mem[Wanted]) = mem[Wanted]
    BY <1>0, DoubleType
  \* A command that saves a session keeps the invariant if its candidates do.
  <1>3. ASSUME file' \in Sessions, UNCHANGED <<kind, mem, emitted>>, seen' \in 0 .. Largest,
               file'.picked = NoPlace /\ kind # "wide" /\ file'.at = "saved" =>
                   Wanted \in DOMAIN file'.last /\ file'.last[Wanted] = seen'
        PROVE  DiscInv'
    BY <1>0, <1>3 DEF DiscInv, DiscTypeOK, TargetKept, Sessions, PlaceOrNone
  <1>4. NoFile \in Sessions
    <2>1. << >> \in [{} -> NaN .. Largest]
      OBVIOUS
    <2>2. << >> \in Contents
      BY <2>1, ContentsType
    <2> QED
      BY <2>2 DEF NoFile, Sessions, PlaceOrNone
  <1>5. ASSUME NEW first \in {"equal", "unknown_initial"}, Scan(first) PROVE DiscInv'
    <2> DEFINE found == {a \in DOMAIN mem : first = "unknown_initial" \/ Same(mem[a], mem[Wanted])}
               last == [a \in found |-> Double(mem[a])]
               session == [NoFile EXCEPT !.last = last]
    <2>1. last \in Contents
      BY <1>1
    <2>2. session \in Sessions /\ session.last = last
      BY <1>4, <2>1 DEF Sessions, NoFile
    <2>3. Saved(session) /\ seen' = mem[Wanted] /\ UNCHANGED <<kind, mem, emitted>>
      BY <1>5 DEF Scan
    <2>4. Wanted \in found
      BY <1>0 DEF Same, Real, NaN
    <2>5. Wanted \in DOMAIN last /\ last[Wanted] = Double(mem[Wanted])
      BY <2>4
    <2> HIDE DEF last, session
    <2> QED
      BY <1>0, <1>2, <1>3, <2>2, <2>3, <2>5, SavedType
  <1>6. ASSUME NEW pred \in Predicates, Narrow(pred) PROVE DiscInv'
    <2> DEFINE kept == {a \in DOMAIN file.last \cap DOMAIN mem : Matches(pred, mem[a], file.last[a])}
               last == [a \in kept |-> Double(mem[a])]
               session == [file EXCEPT !.last = last]
    <2>1. last \in Contents
      BY <1>1
    <2>2. session \in Sessions /\ session.last = last /\ session.picked = file.picked
      BY <1>0, <2>1 DEF Sessions
    <2>3. Saved(session) /\ seen' = mem[Wanted] /\ UNCHANGED <<kind, mem, emitted>>
      BY <1>6 DEF Narrow
    <2>4. file.picked = NoPlace /\ kind # "wide" => Wanted \in kept
      <3> SUFFICES ASSUME file.picked = NoPlace, kind # "wide" PROVE Wanted \in kept
        OBVIOUS
      <3>1. Wanted \in DOMAIN file.last /\ file.last[Wanted] = seen
        BY <1>6 DEF Narrow, DiscInv, TargetKept
      <3>2. Matches(pred, mem[Wanted], seen)
        BY <1>0, <1>6, TruthMatches DEF Narrow
      <3> QED
        BY <1>0, <3>1, <3>2
    <2>5. Wanted \in kept => Wanted \in DOMAIN last /\ last[Wanted] = Double(mem[Wanted])
      OBVIOUS
    <2> HIDE DEF last, session, kept
    <2> QED
      BY <1>0, <1>2, <1>3, <2>2, <2>3, <2>4, <2>5, SavedType
  <1>7. ASSUME NEW a \in Places, Pick(a) PROVE DiscInv'
    <2> DEFINE session == [file EXCEPT !.last = [b \in {a} |-> file.last[b]], !.picked = a]
    <2>1. file.last \in Contents /\ a \in DOMAIN file.last
      BY <1>0, <1>7 DEF Pick, Sessions
    <2>2. file.last[a] \in NaN .. Largest
      BY <2>1, ContentsType
    <2>3. [b \in {a} |-> file.last[b]] \in [{a} -> NaN .. Largest]
      BY <2>2
    <2>4. [b \in {a} |-> file.last[b]] \in Contents
      BY <2>3, ContentsType
    <2>5. session \in Sessions /\ session.picked = a
      BY <1>0, <2>4 DEF Sessions, PlaceOrNone
    <2>6. Saved(session) /\ UNCHANGED <<kind, mem, seen, emitted>>
      BY <1>7 DEF Pick
    <2> HIDE DEF session
    <2> QED
      BY <1>0, <1>3, <2>5, <2>6, SavedType
  <1>8. ASSUME NEW a \in WatchedPlaces, Capture(a) PROVE DiscInv'
    <2> DEFINE session == [file EXCEPT !.captured = a]
    <2>1. a \in Places
      <3>1. file.last \in Contents /\ file.picked \in PlaceOrNone
        BY <1>0 DEF Sessions
      <3>2. DOMAIN file.last \subseteq Places
        BY <3>1, ContentsType
      <3> QED
        BY <3>1, <3>2 DEF WatchedPlaces, PlaceOrNone
    <2>2. session \in Sessions /\ session.last = file.last /\ session.picked = file.picked
      BY <1>0, <2>1 DEF Sessions, PlaceOrNone
    <2>3. Saved(session) /\ UNCHANGED <<kind, mem, seen, emitted>> /\ file.at = "saved"
      BY <1>8 DEF Capture
    <2> HIDE DEF session
    <2> QED
      BY <1>0, <1>3, <2>2, <2>3, SavedType DEF DiscInv, TargetKept
  <1>9. CASE ExtractAob
    <2> DEFINE session == [file EXCEPT !.pattern = file.captured]
    <2>1. session \in Sessions /\ session.last = file.last /\ session.picked = file.picked
      BY <1>0 DEF Sessions
    <2>2. Saved(session) /\ UNCHANGED <<kind, mem, seen, emitted>> /\ file.at = "saved"
      BY <1>9 DEF ExtractAob
    <2> HIDE DEF session
    <2> QED
      BY <1>0, <1>3, <2>1, <2>2, SavedType DEF DiscInv, TargetKept
  <1>10. CASE Emit
    <2>1. emitted' \in [pattern : PlaceOrNone, bytes : PlaceOrNone]
      BY <1>0, <1>10 DEF Emit, Sessions
    <2> QED
      BY <1>10, <2>1 DEF Emit, DiscInv, DiscTypeOK, TargetKept, PlaceOrNone
  <1>11. CASE RemoveSession
    <2>1. NoFile.at = "absent"
      BY DEF NoFile
    <2> QED
      BY <1>0, <1>3, <1>4, <1>11, <2>1 DEF RemoveSession
  <1>12. ASSUME NEW a \in Places, GameChanges(a) PROVE DiscInv'
    <2>1. PICK v \in Values : (a = Wanted => v # NaN) /\ mem' = [mem EXCEPT ![a] = v]
      BY <1>12 DEF GameChanges
    <2>2. mem' \in [DOMAIN mem -> NaN .. Largest] /\ DOMAIN mem' = DOMAIN mem
      BY <1>0, <2>1 DEF Values, Contents
    <2>3. mem' \in Contents
      BY <1>0, <2>2, ContentsType
    <2>4. mem'[Wanted] \in 0 .. Largest
      BY <1>0, <2>1, <2>2 DEF Values, NaN
    <2> QED
      BY <1>0, <1>12, <2>2, <2>3, <2>4 DEF GameChanges, DiscInv, DiscTypeOK, TargetKept
  <1>13. ASSUME NEW a \in Places, Unmaps(a) PROVE DiscInv'
    <2>1. a # Wanted /\ mem' = [b \in DOMAIN mem \ {a} |-> mem[b]]
      BY <1>13 DEF Unmaps
    <2>2. mem' \in [DOMAIN mem \ {a} -> NaN .. Largest] /\ DOMAIN mem' = DOMAIN mem \ {a}
      BY <1>0, <2>1
    <2>3. mem' \in Contents
      BY <1>0, <2>2, ContentsType
    <2>4. Wanted \in DOMAIN mem' /\ mem'[Wanted] = mem[Wanted]
      BY <1>0, <2>1
    <2> QED
      BY <1>0, <1>13, <2>3, <2>4 DEF Unmaps, DiscInv, DiscTypeOK, TargetKept
  <1>14. CASE UNCHANGED discVars
    BY <1>14 DEF discVars, DiscInv, DiscTypeOK, TargetKept
  <1> QED
    BY <1>5, <1>6, <1>7, <1>8, <1>9, <1>10, <1>11, <1>12, <1>13, <1>14 DEF DiscNext

\* As long as the user picks nothing and tells the truth, the place looked for
\* stays among the candidates, with the value it had at the last look.
THEOREM TargetCorrect == DiscSpec => []TargetKept
  <1>1. DiscInv => TargetKept
    BY DEF DiscInv
  <1> QED
    BY <1>1, DiscInitInv, DiscNextInv, PTL DEF DiscSpec

\* The candidates of the discover session and what it has on disk keep their types.
THEOREM DiscTypeCorrect == DiscSpec => []DiscTypeOK
  <1>1. DiscInv => DiscTypeOK
    BY DEF DiscInv
  <1> QED
    BY <1>1, DiscInitInv, DiscNextInv, PTL DEF DiscSpec

-----------------------------------------------------------------------------
(* ObjectSearch.  An object that stayed is in the results, or lies in a    *)
(* slot of the header's reach that the search has not passed.              *)

Steps_S == {"idle", "header", "slot", "class", "predicate", "answer"}

Requests_S ==
    [kind : Searches \cup {"none"}, at : Steps_S,
     num : 0 .. Slots, chunks : 0 .. Slots, index : Nat,
     object : Objects_S \cup {NoObject}, found : Seq(Objects_S), truncated : BOOLEAN]

Ahead(o) ==
    \E i \in 0 .. Slots - 1 :
        /\ array.slot[i] = o
        /\ i < search.num /\ i < search.chunks * ChunkSize
        /\ i >= search.index
        /\ search.at \in {"class", "predicate"} /\ i = search.index => search.object = o

\* An object of the game has a slot that the array's header covers.
InArray ==
    \A o \in Objects_S :
        object[o].live => \E i \in 0 .. Slots - 1 :
            array.slot[i] = o /\ i < array.num /\ i < array.chunks * ChunkSize

Underway ==
    search.at \in {"slot", "class", "predicate"} =>
        \A o \in stayed : IsMatch(o) /\ (o \in Range(search.found) \/ Ahead(o))

AtObject ==
    /\ search.at = "header" => search.index = 0
    /\ search.at \in {"class", "predicate"} => search.object \in Objects_S

SearchInv ==
    /\ SearchTypeOK
    /\ InArray
    /\ AtObject
    /\ Underway
    /\ StayedIsFound

\* Beyond the header's chunks there is no slot of the header's reach.
LEMMA DivBound ==
  ASSUME NEW x \in Nat, NEW k \in Nat, x \div ChunkSize >= k
  PROVE  x >= k * ChunkSize
  <1>1. ChunkSize \in Nat /\ ChunkSize > 0
    BY SearchAssumption
  <1> DEFINE q == x \div ChunkSize
  <1>2. q \in Nat /\ x = ChunkSize * q + (x % ChunkSize) /\ x % ChunkSize \in Nat
    BY <1>1
  <1>3. q >= k
    OBVIOUS
  <1> HIDE DEF q
  <1>4. q * ChunkSize >= k * ChunkSize
    BY <1>1, <1>2, <1>3
  <1> QED
    BY <1>1, <1>2, <1>4

\* As many chunks as hold the slots are no more than the slots.
LEMMA ChunksFit ==
  ASSUME NEW k \in Nat, k * ChunkSize < Slots
  PROVE  k + 1 \in 0 .. Slots
  <1>1. ChunkSize \in Nat /\ ChunkSize >= 1 /\ Slots \in Nat
    BY SearchAssumption
  <1>2. k * ChunkSize >= k
    BY <1>1
  <1>3. k * ChunkSize \in Nat
    BY <1>1
  <1> QED
    BY <1>1, <1>2, <1>3

LEMMA RangeAppend ==
  ASSUME NEW S, NEW s \in Seq(S), NEW e \in S
  PROVE  /\ Append(s, e) \in Seq(S)
         /\ Range(s) \subseteq Range(Append(s, e)) /\ e \in Range(Append(s, e))
  <1>1. /\ Append(s, e) \in Seq(S) /\ Len(Append(s, e)) = Len(s) + 1
        /\ \A i \in 1 .. Len(s) : Append(s, e)[i] = s[i]
        /\ Append(s, e)[Len(s) + 1] = e
    BY AppendProperties
  <1>2. DOMAIN s = 1 .. Len(s) /\ DOMAIN Append(s, e) = 1 .. Len(s) + 1 /\ Len(s) \in Nat
    BY <1>1
  <1> QED
    BY <1>1, <1>2 DEF Range

LEMMA SearchInitInv == SearchInit => SearchInv
  <1> SUFFICES ASSUME SearchInit PROVE SearchInv
    OBVIOUS
  <1> USE SearchAssumption
  <1>0. Slots \in Nat /\ MaxResults \in Nat /\ 0 \in 0 .. Slots
    OBVIOUS
  <1>1. array \in [slot : [0 .. Slots - 1 -> Objects_S \cup {NoObject}],
                   num : 0 .. Slots, chunks : 0 .. Slots]
    BY <1>0 DEF SearchInit
  <1>2. object \in [Objects_S -> [live : {FALSE}, class : {FALSE}, name : {FALSE}]]
    BY DEF SearchInit
  <1>3. object \in [Objects_S -> [live : BOOLEAN, class : BOOLEAN, name : BOOLEAN]]
    <2>1. {FALSE} \subseteq BOOLEAN
      OBVIOUS
    <2> QED
      BY <1>2, <2>1
  <1>4. search \in Requests_S /\ search.at = "idle" /\ Len(search.found) = 0
    <2>1. FALSE \in BOOLEAN
      OBVIOUS
    <2>2. << >> \in Seq(Objects_S) /\ Len(<< >>) = 0
      BY EmptySeq
    <2> QED
      BY <1>0, <2>1, <2>2 DEF SearchInit, Idle, Requests_S, Steps_S
  <1>5. SearchTypeOK
    BY <1>0, <1>1, <1>3, <1>4 DEF SearchInit, SearchTypeOK, Requests_S, Steps_S
  <1>6. InArray
    BY DEF SearchInit, InArray
  <1> QED
    BY <1>4, <1>5, <1>6 DEF SearchInv, AtObject, Underway, StayedIsFound

\* The game's steps move no object that stays.
LEMMA GameKeepsSearch ==
  ASSUME SearchInv, ChunkAllocated \/ \E o \in Objects_S : Allocated(o) \/ ObjectFreed(o)
  PROVE  SearchInv'
  <1> USE SearchAssumption
  <1>0. /\ SearchTypeOK /\ Slots \in Nat /\ ChunkSize \in Nat /\ ChunkSize > 0
        /\ array.num \in 0 .. Slots /\ array.chunks \in 0 .. Slots
        /\ array.slot \in [0 .. Slots - 1 -> Objects_S \cup {NoObject}]
        /\ NoObject \notin Objects_S
    BY DEF SearchInv, SearchTypeOK, NoObject
  <1>1. CASE ChunkAllocated
    <2>1. array.chunks + 1 \in 0 .. Slots
      BY <1>0, <1>1, ChunksFit DEF ChunkAllocated
    <2>2. /\ array' \in [slot : {array.slot}, num : {array.num}, chunks : {array.chunks + 1}]
          /\ UNCHANGED <<object, search, stayed>>
      BY <1>0, <1>1 DEF ChunkAllocated, SearchTypeOK
    <2>3. SearchTypeOK'
      BY <1>0, <2>1, <2>2 DEF SearchTypeOK
    <2>4. array.chunks * ChunkSize <= (array.chunks + 1) * ChunkSize
      BY <1>0
    <2>5. array.chunks * ChunkSize \in Nat /\ (array.chunks + 1) * ChunkSize \in Nat
      BY <1>0, <2>1
    <2>6. InArray'
      <3> SUFFICES ASSUME NEW p \in Objects_S, object[p].live
                   PROVE  \E j \in 0 .. Slots - 1 :
                              /\ array.slot[j] = p /\ j < array.num
                              /\ j < (array.chunks + 1) * ChunkSize
        BY <2>2 DEF InArray
      <3>1. PICK j \in 0 .. Slots - 1 :
                array.slot[j] = p /\ j < array.num /\ j < array.chunks * ChunkSize
        BY DEF SearchInv, InArray
      <3>2. j < (array.chunks + 1) * ChunkSize
        BY <1>0, <2>4, <2>5, <3>1
      <3> QED
        BY <3>1, <3>2
    <2> QED
      BY <2>2, <2>3, <2>6
         DEF SearchInv, AtObject, Underway, IsMatch, Ahead, StayedIsFound
  <1>2. ASSUME NEW o \in Objects_S, Allocated(o) PROVE SearchInv'
    <2>1. PICK i \in 0 .. Slots - 1, class \in BOOLEAN, name \in BOOLEAN :
              /\ i <= array.num /\ i < array.chunks * ChunkSize
              /\ array.slot[i] = NoObject
              /\ array' = [array EXCEPT !.slot[i] = o, !.num = IF i = @ THEN @ + 1 ELSE @]
              /\ object' = [object EXCEPT ![o] = [live |-> TRUE, class |-> class, name |-> name]]
      BY <1>2 DEF Allocated
    <2> DEFINE slot == [array.slot EXCEPT ![i] = o]
               num == IF i = array.num THEN array.num + 1 ELSE array.num
    <2>2. /\ slot \in [0 .. Slots - 1 -> Objects_S \cup {NoObject}]
          /\ num \in 0 .. Slots /\ array.num <= num /\ i < num
          /\ slot[i] = o
      BY <1>0, <2>1
    <2>a. \A j \in 0 .. Slots - 1 : j # i => slot[j] = array.slot[j]
      BY <1>0
    <2>3. array' \in [slot : {slot}, num : {num}, chunks : {array.chunks}]
      BY <1>0, <2>1 DEF SearchTypeOK
    <2>4. /\ object' \in [Objects_S -> [live : BOOLEAN, class : BOOLEAN, name : BOOLEAN]]
          /\ \A p \in Objects_S : p # o => object'[p] = object[p]
      <3>1. TRUE \in BOOLEAN
        OBVIOUS
      <3> QED
        BY <1>0, <2>1, <3>1 DEF SearchTypeOK
    <2>5. UNCHANGED <<search, stayed>>
      BY <1>2 DEF Allocated
    <2> HIDE DEF slot, num
    <2>6. SearchTypeOK'
      BY <1>0, <2>2, <2>3, <2>4, <2>5 DEF SearchTypeOK
    <2>7. InArray'
      <3> SUFFICES ASSUME NEW p \in Objects_S, object'[p].live
                   PROVE  \E j \in 0 .. Slots - 1 :
                              slot[j] = p /\ j < num /\ j < array.chunks * ChunkSize
        BY <2>3 DEF InArray
      <3>1. CASE p = o
        BY <2>1, <2>2, <3>1
      <3>2. CASE p # o
        <4>1. PICK j \in 0 .. Slots - 1 :
                  array.slot[j] = p /\ j < array.num /\ j < array.chunks * ChunkSize
          BY <2>4, <3>2 DEF SearchInv, InArray
        <4>2. j # i
          BY <1>0, <2>1, <4>1
        <4>3. slot[j] = p
          BY <2>a, <4>1, <4>2
        <4>4. j < num
          BY <1>0, <2>2, <4>1
        <4> QED
          BY <4>1, <4>3, <4>4
      <3> QED
        BY <3>1, <3>2
    <2>8. Underway'
      <3> SUFFICES ASSUME search.at \in {"slot", "class", "predicate"}, NEW p \in stayed
                   PROVE  /\ object'[p].live /\ object'[p].class /\ object'[p].name
                          /\ p \in Range(search.found) \/ Ahead(p)'
        BY <2>5 DEF Underway, IsMatch
      <3>1. p \in Objects_S /\ IsMatch(p) /\ (p \in Range(search.found) \/ Ahead(p))
        BY <1>0 DEF SearchInv, Underway, SearchTypeOK
      <3>2. p # o
        BY <1>2, <3>1 DEF IsMatch, Allocated
      <3>3. ASSUME Ahead(p) PROVE Ahead(p)'
        <4>1. PICK j \in 0 .. Slots - 1 :
                  /\ array.slot[j] = p
                  /\ j < search.num /\ j < search.chunks * ChunkSize
                  /\ j >= search.index
                  /\ search.at \in {"class", "predicate"} /\ j = search.index => search.object = p
          BY <3>3 DEF Ahead
        <4>2. j # i
          BY <1>0, <2>1, <3>1, <4>1
        <4>3. array'.slot[j] = p
          BY <2>3, <2>a, <4>1, <4>2
        <4> QED
          BY <2>5, <4>1, <4>3 DEF Ahead
      <3> QED
        BY <2>4, <3>1, <3>2, <3>3 DEF IsMatch
    <2> QED
      BY <2>5, <2>6, <2>7, <2>8 DEF SearchInv, AtObject, StayedIsFound
  <1>3. ASSUME NEW o \in Objects_S, ObjectFreed(o) PROVE SearchInv'
    <2> DEFINE slot == [i \in DOMAIN array.slot |->
                            IF array.slot[i] = o THEN NoObject ELSE array.slot[i]]
    <2>1. /\ slot \in [0 .. Slots - 1 -> Objects_S \cup {NoObject}]
          /\ \A j \in 0 .. Slots - 1 : array.slot[j] # o => slot[j] = array.slot[j]
      BY <1>0
    <2>2. array' \in [slot : {slot}, num : {array.num}, chunks : {array.chunks}]
      BY <1>0, <1>3 DEF ObjectFreed, SearchTypeOK
    <2>3. /\ object' \in [Objects_S -> [live : BOOLEAN, class : BOOLEAN, name : BOOLEAN]]
          /\ ~object'[o].live
          /\ \A p \in Objects_S : p # o => object'[p] = object[p]
      <3> DEFINE rest == [object[o] EXCEPT !.live = FALSE]
      <3>1. object \in [Objects_S -> [live : BOOLEAN, class : BOOLEAN, name : BOOLEAN]]
        BY <1>0 DEF SearchTypeOK
      <3>2. FALSE \in BOOLEAN
        OBVIOUS
      <3>3. rest \in [live : {FALSE}, class : BOOLEAN, name : BOOLEAN]
        BY <3>1
      <3>4. rest \in [live : BOOLEAN, class : BOOLEAN, name : BOOLEAN] /\ ~rest.live
        BY <3>2, <3>3
      <3>5. object' = [object EXCEPT ![o] = rest]
        BY <1>3, <3>1 DEF ObjectFreed
      <3> HIDE DEF rest
      <3> QED
        BY <3>1, <3>4, <3>5
    <2>4. stayed' = stayed \ {o} /\ search' = search
      BY <1>3 DEF ObjectFreed
    <2> HIDE DEF slot
    <2>5. SearchTypeOK'
      BY <1>0, <2>1, <2>2, <2>3, <2>4 DEF SearchTypeOK
    <2>6. InArray'
      <3> SUFFICES ASSUME NEW p \in Objects_S, object'[p].live
                   PROVE  \E j \in 0 .. Slots - 1 :
                              slot[j] = p /\ j < array.num /\ j < array.chunks * ChunkSize
        BY <2>2 DEF InArray
      <3>1. p # o /\ object[p].live
        BY <2>3
      <3>2. PICK j \in 0 .. Slots - 1 :
                array.slot[j] = p /\ j < array.num /\ j < array.chunks * ChunkSize
        BY <3>1 DEF SearchInv, InArray
      <3> QED
        BY <2>1, <3>1, <3>2
    <2>7. Underway'
      <3> SUFFICES ASSUME search.at \in {"slot", "class", "predicate"}, NEW p \in stayed \ {o}
                   PROVE  /\ object'[p].live /\ object'[p].class /\ object'[p].name
                          /\ p \in Range(search.found) \/ Ahead(p)'
        BY <2>4 DEF Underway, IsMatch
      <3>1. p \in Objects_S /\ IsMatch(p) /\ (p \in Range(search.found) \/ Ahead(p))
        BY <1>0 DEF SearchInv, Underway, SearchTypeOK
      <3>2. ASSUME Ahead(p) PROVE Ahead(p)'
        <4>1. PICK j \in 0 .. Slots - 1 :
                  /\ array.slot[j] = p
                  /\ j < search.num /\ j < search.chunks * ChunkSize
                  /\ j >= search.index
                  /\ search.at \in {"class", "predicate"} /\ j = search.index => search.object = p
          BY <3>2 DEF Ahead
        <4>2. array'.slot[j] = p
          BY <2>1, <2>2, <4>1
        <4> QED
          BY <2>4, <4>1, <4>2 DEF Ahead
      <3>3. object'[p] = object[p]
        BY <2>3, <3>1
      <3>4. p \in Range(search.found) \/ Ahead(p)'
        BY <3>1, <3>2
      <3>a. object[p].live /\ object[p].class /\ object[p].name
        BY <3>1 DEF IsMatch
      <3>5. object'[p].live /\ object'[p].class /\ object'[p].name
        BY ONLY <3>3, <3>a
      <3> QED
        BY <3>4, <3>5
    <2>8. StayedIsFound'
      BY <2>4 DEF SearchInv, StayedIsFound
    <2> QED
      BY <2>4, <2>5, <2>6, <2>7, <2>8 DEF SearchInv, AtObject
  <1> QED
    BY <1>1, <1>2, <1>3

\* A search that goes on leaves its request's kind and header alone; it passes
\* a slot only if what lies there has not stayed, or is in the results now.
LEMMA NextKeeps ==
  ASSUME SearchInv, search.at \in {"slot", "class", "predicate"},
         NEW found \in Seq(Objects_S), Len(found) <= MaxResults,
         Range(search.found) \subseteq Range(found),
         search' = NextSlot([search EXCEPT !.found = found]),
         \A o \in stayed : array.slot[search.index] = o =>
             (search.object # o /\ search.at # "slot") \/ o \in Range(found),
         UNCHANGED <<array, object, stayed>>
  PROVE  SearchInv'
  <1>0. search \in Requests_S
    BY DEF SearchInv, SearchTypeOK, Requests_S, Steps_S
  <1>1. search' \in [kind : {search.kind}, at : {"slot"}, num : {search.num},
                     chunks : {search.chunks}, index : {search.index + 1},
                     object : {NoObject}, found : {found}, truncated : {search.truncated}]
    BY <1>0 DEF NextSlot, Requests_S
  <1>2. search' \in Requests_S
    BY <1>0, <1>1 DEF Requests_S, Steps_S
  <1>3. SearchTypeOK'
    BY <1>1, <1>2 DEF SearchInv, SearchTypeOK, Requests_S, Steps_S
  <1>4. ASSUME NEW o \in stayed PROVE IsMatch(o)' /\ (o \in Range(found) \/ Ahead(o)')
    <2>1. IsMatch(o) /\ (o \in Range(search.found) \/ Ahead(o))
      BY DEF SearchInv, Underway
    <2>2. CASE o \in Range(search.found)
      BY <2>1, <2>2 DEF IsMatch
    <2>3. CASE Ahead(o) /\ o \notin Range(found)
      <3>1. PICK i \in 0 .. Slots - 1 :
                /\ array.slot[i] = o
                /\ i < search.num /\ i < search.chunks * ChunkSize
                /\ i >= search.index
                /\ search.at \in {"class", "predicate"} /\ i = search.index => search.object = o
        BY <2>3 DEF Ahead
      <3>2. i # search.index
        BY <2>3, <3>1
      <3>3. i >= search.index + 1
        BY <1>0, <3>1, <3>2, SearchAssumption DEF Requests_S
      <3>4. Ahead(o)'
        BY <1>1, <3>1, <3>3 DEF Ahead
      <3> QED
        BY <2>1, <3>4 DEF IsMatch
    <2> QED
      BY <2>1, <2>2, <2>3 DEF IsMatch
  <1>5. Underway'
    BY <1>1, <1>4 DEF Underway
  <1> QED
    BY <1>1, <1>3, <1>5 DEF SearchInv, InArray, AtObject, StayedIsFound

LEMMA SearchKeepsSearch ==
  ASSUME SearchInv,
         \/ \E k \in Searches : Asked(k)
         \/ HeaderRead \/ SlotRead \/ Unreadable \/ ClassRead \/ PredicateRead \/ Answered_S
  PROVE  SearchInv'
  <1> USE SearchAssumption
  <1>0. /\ SearchTypeOK /\ search \in Requests_S
        /\ Slots \in Nat /\ ChunkSize \in Nat /\ ChunkSize > 0 /\ MaxResults \in Nat
        /\ MaxResults >= 1
        /\ array.num \in 0 .. Slots /\ array.chunks \in 0 .. Slots
        /\ array.slot \in [0 .. Slots - 1 -> Objects_S \cup {NoObject}]
        /\ NoObject \notin Objects_S /\ stayed \subseteq Objects_S
    BY DEF SearchInv, SearchTypeOK, NoObject, Requests_S, Steps_S
  <1>a. << >> \in Seq(Objects_S) /\ Len(<< >>) = 0
    BY EmptySeq
  <1>b. Idle \in Requests_S
    <2>1. FALSE \in BOOLEAN
      OBVIOUS
    <2> QED
      BY <1>0, <1>a, <2>1 DEF Idle, Requests_S, Steps_S
  <1>1. ASSUME NEW k \in Searches, Asked(k) PROVE SearchInv'
    <2>1. search' = [Idle EXCEPT !.kind = k, !.at = "header"]
          /\ UNCHANGED <<array, object, stayed>>
      BY <1>1 DEF Asked
    <2>2. /\ search' \in Requests_S
          /\ search'.at = "header" /\ search'.index = 0 /\ search'.found = << >>
      BY <1>b, <2>1 DEF Requests_S, Steps_S, Idle
    <2>3. SearchTypeOK'
      BY <1>0, <1>a, <2>1, <2>2 DEF SearchTypeOK, Requests_S, Steps_S
    <2> QED
      BY <2>1, <2>2, <2>3 DEF SearchInv, InArray, AtObject, Underway, StayedIsFound
  <1>2. CASE HeaderRead
    <2> DEFINE step == IF array.num = 0 \/ array.chunks = 0 THEN "answer" ELSE "slot"
    <2>1. /\ search' \in [kind : {search.kind}, at : {step}, num : {array.num},
                          chunks : {array.chunks}, index : {search.index},
                          object : {search.object}, found : {search.found},
                          truncated : {search.truncated}]
          /\ UNCHANGED <<array, object>>
          /\ stayed' = {o \in Objects_S : IsMatch(o)}
      BY <1>0, <1>2 DEF HeaderRead, Requests_S
    <2>2. SearchTypeOK'
      BY <1>0, <2>1 DEF SearchTypeOK, Requests_S, Steps_S
    <2>3. search.index = 0
      BY <1>2 DEF HeaderRead, SearchInv, AtObject
    <2>4. ASSUME NEW o \in stayed' PROVE step = "slot" /\ IsMatch(o)' /\ Ahead(o)'
      <3>1. o \in Objects_S /\ IsMatch(o) /\ object[o].live
        BY <2>1 DEF IsMatch
      <3>2. PICK i \in 0 .. Slots - 1 :
                array.slot[i] = o /\ i < array.num /\ i < array.chunks * ChunkSize
        BY <3>1 DEF SearchInv, InArray
      <3>3. array.num # 0
        BY <1>0, <3>2
      <3>4. array.chunks # 0
        <4> SUFFICES ASSUME array.chunks = 0 PROVE FALSE
          OBVIOUS
        <4>1. array.chunks * ChunkSize = 0
          BY <1>0
        <4> QED
          BY <3>2, <4>1
      <3>5. step = "slot"
        BY <3>3, <3>4
      <3>6. IsMatch(o)'
        BY <2>1, <3>1 DEF IsMatch
      <3>7. Ahead(o)'
        <4> HIDE DEF step
        <4>1. /\ array'.slot[i] = o /\ i < search'.num /\ i < search'.chunks * ChunkSize
              /\ i >= search'.index /\ search'.at = "slot"
          BY <1>0, <2>1, <2>3, <3>2, <3>5
        <4> QED
          BY <4>1 DEF Ahead
      <3> QED
        BY <3>5, <3>6, <3>7
    <2>5. search'.at = step /\ step \in {"answer", "slot"}
      BY <2>1
    <2> HIDE DEF step
    <2>6. Underway'
      BY <2>4 DEF Underway
    <2>7. step = "answer" => stayed' = {}
      BY <2>4
    <2>8. StayedIsFound'
      BY <2>5, <2>7 DEF StayedIsFound
    <2>9. AtObject' /\ InArray'
      BY <2>1, <2>5 DEF AtObject, SearchInv, InArray
    <2> QED
      BY <2>2, <2>6, <2>8, <2>9 DEF SearchInv
  \* A step that ends the search, when what is left to show is its answer.
  <1>3. ASSUME NEW found \in Seq(Objects_S), Len(found) <= MaxResults,
               NEW truncated \in BOOLEAN,
               search' \in [kind : {search.kind}, at : {"answer"}, num : {search.num},
                            chunks : {search.chunks}, index : {search.index},
                            object : {search.object}, found : {found},
                            truncated : {truncated}],
               IF search.kind = "find_uobject" THEN stayed # {} => found # << >>
               ELSE truncated \/ stayed \subseteq Range(found),
               UNCHANGED <<array, object, stayed>>
        PROVE  SearchInv'
    <2>1. SearchTypeOK'
      BY <1>0, <1>3 DEF SearchTypeOK, Requests_S, Steps_S
    <2>2. StayedIsFound'
      BY <1>3 DEF StayedIsFound
    <2>3. AtObject' /\ Underway' /\ InArray'
      BY <1>3 DEF AtObject, Underway, SearchInv, InArray
    <2> QED
      BY <2>1, <2>2, <2>3 DEF SearchInv
  \* What a step that does not collect leaves the results at.
  <1>c. /\ search.found \in Seq(Objects_S) /\ Len(search.found) <= MaxResults
        /\ [search EXCEPT !.found = search.found] = search
    BY <1>0 DEF SearchTypeOK, Requests_S
  <1>4. CASE SlotRead
    <2>1. CASE PastTheEnd(search)
      <3>1. search' = [search EXCEPT !.at = "answer"] /\ UNCHANGED <<array, object, stayed>>
        BY <1>4, <2>1 DEF SlotRead
      <3>2. ASSUME NEW o \in stayed PROVE o \in Range(search.found)
        <4>1. o \in Range(search.found) \/ Ahead(o)
          BY <1>4 DEF SlotRead, SearchInv, Underway
        <4>2. ASSUME Ahead(o) PROVE FALSE
          <5>1. PICK i \in 0 .. Slots - 1 :
                    /\ i < search.num /\ i < search.chunks * ChunkSize
                    /\ i >= search.index
            BY <4>2 DEF Ahead
          <5>2. search.index \in Nat /\ search.num \in Nat /\ search.chunks \in Nat
            BY <1>0 DEF Requests_S
          <5>3. CASE search.index >= search.num
            BY <1>0, <5>1, <5>2, <5>3
          <5>4. CASE search.index \div ChunkSize >= search.chunks
            <6>1. search.index >= search.chunks * ChunkSize
              BY <5>2, <5>4, DivBound
            <6>2. search.chunks * ChunkSize \in Nat
              BY <1>0, <5>2
            <6> QED
              BY <1>0, <5>1, <5>2, <6>1, <6>2
          <5> QED
            BY <2>1, <5>3, <5>4 DEF PastTheEnd
        <4> QED
          BY <4>1, <4>2
      <3>3. stayed # {} => search.found # << >>
        <4> SUFFICES ASSUME NEW o \in stayed PROVE search.found # << >>
          OBVIOUS
        <4>1. o \in Range(search.found)
          BY <3>2
        <4>2. PICK i \in DOMAIN search.found : o = search.found[i]
          BY <4>1 DEF Range
        <4> QED
          BY <4>2
      <3>4. search' \in [kind : {search.kind}, at : {"answer"}, num : {search.num},
                         chunks : {search.chunks}, index : {search.index},
                         object : {search.object}, found : {search.found},
                         truncated : {search.truncated}]
            /\ search.truncated \in BOOLEAN
        BY <1>0, <3>1 DEF Requests_S
      <3> QED
        BY <1>3, <1>c, <3>1, <3>2, <3>3, <3>4
    <2>2. CASE ~PastTheEnd(search) /\ array.slot[search.index] = NoObject
      <3>1. search' = NextSlot(search) /\ UNCHANGED <<array, object, stayed>>
        BY <1>4, <2>2 DEF SlotRead
      <3>2. NoObject \notin stayed
        BY <1>0
      <3> QED
        BY <1>4, <1>c, <2>2, <3>1, <3>2, NextKeeps DEF SlotRead
    <2>3. CASE ~PastTheEnd(search) /\ array.slot[search.index] # NoObject
      <3>1. search' = [search EXCEPT !.object = array.slot[search.index], !.at = "class"]
            /\ UNCHANGED <<array, object, stayed>> /\ search.at = "slot"
        BY <1>4, <2>3 DEF SlotRead
      <3>2. search.index \in 0 .. Slots - 1
        BY <1>0, <2>3 DEF PastTheEnd, Requests_S
      <3>3. array.slot[search.index] \in Objects_S
        BY <1>0, <2>3, <3>2
      <3>4. search' \in [kind : {search.kind}, at : {"class"}, num : {search.num},
                         chunks : {search.chunks}, index : {search.index},
                         object : {array.slot[search.index]}, found : {search.found},
                         truncated : {search.truncated}]
        BY <1>0, <3>1 DEF Requests_S
      <3>5. SearchTypeOK'
        BY <1>0, <1>c, <3>1, <3>3, <3>4 DEF SearchTypeOK, Requests_S, Steps_S
      <3>6. ASSUME NEW o \in stayed, Ahead(o) PROVE Ahead(o)'
        BY <3>1, <3>4, <3>6 DEF Ahead
      <3>7. Underway'
        BY <3>1, <3>4, <3>6 DEF SearchInv, Underway, IsMatch
      <3> QED
        BY <3>1, <3>3, <3>4, <3>5, <3>7 DEF SearchInv, InArray, AtObject, StayedIsFound
    <2> QED
      BY <2>1, <2>2, <2>3
  <1>d. search.at \in {"class", "predicate"} => search.object \in Objects_S
    BY DEF SearchInv, AtObject
  <1>e. ASSUME search.at \in {"class", "predicate"}, search' = NextSlot(search),
               search.object \in stayed => search.object \in Range(search.found),
               UNCHANGED <<array, object, stayed>>
        PROVE  SearchInv'
    <2>1. ASSUME NEW o \in stayed, array.slot[search.index] = o
          PROVE  (search.object # o /\ search.at # "slot") \/ o \in Range(search.found)
      BY <1>e
    <2> QED
      BY <1>c, <1>e, <2>1, NextKeeps
  <1>5. CASE Unreadable
    <2>1. search.object \notin stayed \/ search.object \in Range(search.found)
      BY <1>5 DEF Unreadable, SearchInv, Underway, IsMatch
    <2> QED
      BY <1>5, <1>e, <2>1 DEF Unreadable
  <1>6. CASE ClassRead
    <2>1. CASE object[search.object].class
      <3>1. search' = [search EXCEPT !.at = "predicate"] /\ UNCHANGED <<array, object, stayed>>
            /\ search.at = "class"
        BY <1>6, <2>1 DEF ClassRead
      <3>2. search' \in [kind : {search.kind}, at : {"predicate"}, num : {search.num},
                         chunks : {search.chunks}, index : {search.index},
                         object : {search.object}, found : {search.found},
                         truncated : {search.truncated}]
        BY <1>0, <3>1 DEF Requests_S
      <3>3. SearchTypeOK'
        BY <1>0, <1>c, <3>1, <3>2 DEF SearchTypeOK, Requests_S, Steps_S
      <3>4. ASSUME NEW o \in stayed, Ahead(o) PROVE Ahead(o)'
        BY <3>1, <3>2, <3>4 DEF Ahead
      <3>5. Underway'
        BY <3>1, <3>2, <3>4 DEF SearchInv, Underway, IsMatch
      <3> QED
        BY <1>d, <3>1, <3>2, <3>3, <3>5 DEF SearchInv, InArray, AtObject, StayedIsFound
    <2>2. CASE ~object[search.object].class
      <3>1. search.object \notin stayed
        BY <1>6, <2>2 DEF ClassRead, SearchInv, Underway, IsMatch
      <3> QED
        BY <1>6, <1>e, <2>2, <3>1 DEF ClassRead
    <2> QED
      BY <2>1, <2>2
  <1>7. CASE PredicateRead
    <2>1. CASE ~object[search.object].name
      <3>1. search.object \notin stayed
        BY <1>7, <2>1 DEF PredicateRead, SearchInv, Underway, IsMatch
      <3> QED
        BY <1>7, <1>e, <2>1, <3>1 DEF PredicateRead
    <2>2. CASE object[search.object].name
      <3>1. search' = Collected(search) /\ UNCHANGED <<array, object, stayed>>
            /\ search.at = "predicate" /\ search.object \in Objects_S
        BY <1>7, <1>d, <2>2 DEF PredicateRead
      <3>2. CASE search.kind = "find_uobject"
        <4>1. <<search.object>> \in Seq(Objects_S) /\ Len(<<search.object>>) = 1
              /\ <<search.object>> # << >>
          BY <3>1
        <4>2. search' \in [kind : {search.kind}, at : {"answer"}, num : {search.num},
                           chunks : {search.chunks}, index : {search.index},
                           object : {search.object}, found : {<<search.object>>},
                           truncated : {search.truncated}]
              /\ search.truncated \in BOOLEAN
          BY <1>0, <3>1, <3>2 DEF Collected, Requests_S
        <4> QED
          BY <1>0, <1>3, <3>1, <3>2, <4>1, <4>2
      <3>3. CASE search.kind # "find_uobject" /\ Len(search.found) >= MaxResults
        <4>1. search' \in [kind : {search.kind}, at : {"answer"}, num : {search.num},
                           chunks : {search.chunks}, index : {search.index},
                           object : {search.object}, found : {search.found},
                           truncated : {TRUE}]
          BY <1>0, <3>1, <3>3 DEF Collected, Requests_S
        <4>2. TRUE \in BOOLEAN
          OBVIOUS
        <4> QED
          BY <1>3, <1>c, <3>1, <3>3, <4>1, <4>2
      <3>4. CASE search.kind # "find_uobject" /\ ~(Len(search.found) >= MaxResults)
        <4> DEFINE found == Append(search.found, search.object)
        <4>1. found \in Seq(Objects_S) /\ Len(found) = Len(search.found) + 1
          BY <1>c, <3>1, AppendProperties
        <4>2. Range(search.found) \subseteq Range(found) /\ search.object \in Range(found)
          BY <1>c, <3>1, RangeAppend
        <4>3. search' = NextSlot([search EXCEPT !.found = found])
          BY <3>1, <3>4 DEF Collected
        <4> HIDE DEF found
        <4>4. Len(found) <= MaxResults
          BY <1>0, <1>c, <3>4, <4>1, LenProperties
        <4>5. ASSUME NEW o \in stayed, array.slot[search.index] = o
              PROVE  (search.object # o /\ search.at # "slot") \/ o \in Range(found)
          BY <3>1, <4>2
        <4> QED
          BY <3>1, <4>1, <4>2, <4>3, <4>4, <4>5, NextKeeps
      <3> QED
        BY <3>2, <3>3, <3>4
    <2> QED
      BY <2>1, <2>2
  <1>8. CASE Answered_S
    <2>1. search' = Idle /\ stayed' = {} /\ UNCHANGED <<array, object>>
      BY <1>8 DEF Answered_S
    <2>2. Idle.at = "idle" /\ Idle.found = << >>
      BY DEF Idle
    <2>3. SearchTypeOK'
      BY <1>0, <1>a, <1>b, <2>1, <2>2 DEF SearchTypeOK, Requests_S, Steps_S
    <2> QED
      BY <2>1, <2>2, <2>3 DEF SearchInv, InArray, AtObject, Underway, StayedIsFound
  <1> QED
    BY <1>1, <1>2, <1>4, <1>5, <1>6, <1>7, <1>8

LEMMA SearchNextInv == SearchInv /\ [SearchNext]_searchVars => SearchInv'
  <1> SUFFICES ASSUME SearchInv, [SearchNext]_searchVars PROVE SearchInv'
    OBVIOUS
  <1>1. CASE UNCHANGED searchVars
    BY <1>1 DEF searchVars, SearchInv, SearchTypeOK, InArray, AtObject, Underway, IsMatch,
                Ahead, StayedIsFound
  <1> QED
    BY <1>1, GameKeepsSearch, SearchKeepsSearch DEF SearchNext

\* Over an array that the game fills and empties under the walk, an object that
\* was there when the header was read and stays is not missed.
THEOREM StayedCorrect == SearchSpec => []StayedIsFound
  <1>1. SearchInv => StayedIsFound
    BY DEF SearchInv
  <1> QED
    BY <1>1, SearchInitInv, SearchNextInv, PTL DEF SearchSpec

\* The object array and the walk over it keep their types, the results their limit.
THEOREM SearchTypeCorrect == SearchSpec => []SearchTypeOK
  <1>1. SearchInv => SearchTypeOK
    BY DEF SearchInv
  <1> QED
    BY <1>1, SearchInitInv, SearchNextInv, PTL DEF SearchSpec

-----------------------------------------------------------------------------
(* ProgressGrants.  What an entry is owed is with the command until the    *)
(* game has answered: it is listed, or its tag is read, or it is answered. *)

Owed == lasted \ (untagged \cup (IF source = "objects" THEN Excluded ELSE {}))

Whole == connected /\ ~grant.cut

StillPending == grant.at # "idle" => outcome = "none"

Covered ==
    /\ grant.at = "read" /\ Whole => Owed \subseteq Range(grant.listed) \cup Range(grant.tags)
    /\ grant.at = "find" /\ Whole => Owed \subseteq Range(grant.tags)
    /\ grant.at = "call" /\ Whole => Owed \subseteq Range(grant.tags) \cup answered

GrantInv ==
    /\ GrantTypeOK
    /\ StillPending
    /\ Covered
    /\ GrantComplete

GrantSteps == {"idle", "list", "read", "find", "call"}

GrantType ==
    [at : GrantSteps, listed : Seq(Entries), tags : Seq(Entries \cup {Zero}), cut : BOOLEAN]

LEMMA RangeEmpty == Range(<< >>) = {}
  BY DEF Range

LEMMA RangeTail ==
  ASSUME NEW S, NEW s \in Seq(S), s # << >>
  PROVE  /\ Head(s) \in S /\ Tail(s) \in Seq(S)
         /\ Range(s) \subseteq {Head(s)} \cup Range(Tail(s))
  <1> DEFINE t == Tail(s)
  <1>1. /\ t \in Seq(S) /\ Len(t) = Len(s) - 1 /\ Head(s) \in S
        /\ \A i \in 1 .. Len(t) : t[i] = s[i + 1]
    BY HeadTailProperties
  <1>2. Len(s) \in Nat /\ Len(s) # 0 /\ DOMAIN s = 1 .. Len(s) /\ Head(s) = s[1]
    BY EmptySeq, LenProperties
  <1> HIDE DEF t
  <1>3. DOMAIN t = 1 .. Len(s) - 1
    BY <1>1, LenProperties
  <1>4. ASSUME NEW i \in DOMAIN s, i # 1
        PROVE  s[i] \in Range(t)
    <2>1. i - 1 \in DOMAIN t /\ t[i - 1] = s[i]
      BY <1>1, <1>2, <1>3, <1>4
    <2> QED
      BY <2>1 DEF Range
  <1>5. Range(s) \subseteq {Head(s)} \cup Range(t)
    BY <1>2, <1>4 DEF Range
  <1> QED
    BY <1>1, <1>5 DEF t

\* A listing of a set of numbers in their order has them all.
LEMMA Enumerates ==
  ASSUME NEW s \in InOrder, loaded \subseteq Entries
  PROVE  s \in Seq(loaded) /\ Range(s) = loaded
  <1>1. MaxEntries \in Nat
    BY GrantAssumption
  <1>2. IsFiniteSet(Entries)
    BY <1>1, FS_Interval DEF Entries
  <1>3. IsFiniteSet(loaded)
    BY <1>2, FS_Subset
  <1> DEFINE n == Cardinality(loaded)
             D == 1 .. n
  <1>4. n \in Nat
    BY <1>3, FS_CardinalityType
  <1>5. s \in [D -> loaded] /\ \A i, j \in D : i < j => s[i] < s[j]
    BY DEF InOrder
  <1>6. IsFiniteSet(D) /\ Cardinality(D) = n
    BY <1>4, FS_Interval
  <1>7. loaded \subseteq Nat
    BY <1>1 DEF Entries
  <1>8. ASSUME NEW i \in D, NEW j \in D, s[i] = s[j]
        PROVE  i = j
    <2>1. i \in Int /\ j \in Int
      BY <1>4
    <2> HIDE DEF D
    <2>2. s[i] \in Nat /\ s[j] \in Nat
      BY <1>5, <1>7
    <2>3. (i < j => s[i] < s[j]) /\ (j < i => s[j] < s[i])
      BY <1>5
    <2> QED
      BY <1>8, <2>1, <2>2, <2>3
  <1>9. s \in Injection(D, loaded)
    <2>1. DOMAIN s = D
      BY <1>5
    <2>2. IsInjective(s)
      BY <1>8, <2>1 DEF IsInjective
    <2> QED
      BY <1>5, <2>2 DEF Injection
  <1>10. s \in Surjection(D, loaded)
    BY <1>3, <1>6, <1>9, FS_Injection
  <1>11. Range(s) = loaded
    BY <1>5, <1>10 DEF Range, Surjection
  <1>12. s \in Seq(loaded)
    BY <1>4, <1>5
  <1> QED
    BY <1>11, <1>12

LEMMA GrantTypes ==
  GrantTypeOK <=>
    /\ source \in {"objects", "asset"}
    /\ loaded \subseteq Entries /\ untagged \subseteq Entries
    /\ world \in BOOLEAN /\ connected \in BOOLEAN
    /\ grant \in GrantType
    /\ clicks \in 0 .. MaxGrants
    /\ outcome \in {"none", "ok", "error"}
    /\ lasted \subseteq loaded /\ answered \subseteq Entries
  BY DEF GrantTypeOK, GrantType, GrantSteps

LEMMA NoGrantIs ==
  ASSUME NEW at \in GrantSteps, NEW cut \in BOOLEAN
  PROVE  /\ [NoGrant EXCEPT !.cut = cut] \in [at : {"idle"}, listed : {<< >>}, tags : {<< >>}, cut : {cut}]
         /\ [NoGrant EXCEPT !.at = at] \in [at : {at}, listed : {<< >>}, tags : {<< >>}, cut : {FALSE}]
         /\ [at : {"idle"}, listed : {<< >>}, tags : {<< >>}, cut : {cut}] \subseteq GrantType
         /\ [at : {at}, listed : {<< >>}, tags : {<< >>}, cut : {FALSE}] \subseteq GrantType
  <1>1. << >> \in Seq(Entries) /\ << >> \in Seq(Entries \cup {Zero})
    BY EmptySeq
  <1> QED
    BY <1>1 DEF NoGrant, GrantType, GrantSteps

LEMMA GrantInitInv == GrantInit => GrantInv
  <1> SUFFICES ASSUME GrantInit PROVE GrantInv
    OBVIOUS
  <1>1. grant \in GrantType /\ grant.at = "idle"
    <2>1. << >> \in Seq(Entries) /\ << >> \in Seq(Entries \cup {Zero})
      BY EmptySeq
    <2> QED
      BY <2>1 DEF GrantInit, NoGrant, GrantType, GrantSteps
  <1>2. untagged \subseteq Entries
    BY DEF GrantInit
  <1>3. 0 \in 0 .. MaxGrants
    BY GrantAssumption
  <1>4. GrantTypeOK
    BY <1>1, <1>2, <1>3, GrantTypes DEF GrantInit
  <1> QED
    BY <1>1, <1>4 DEF GrantInit, GrantInv, StillPending, Covered, GrantComplete

\* What the game does to the entries, to its world and to the pipe.
LEMMA GameKeepsGrant ==
  ASSUME GrantInv,
         \/ \E s \in Together : Loads(s) \/ Frees(s)
         \/ WorldChanges \/ GamePipeBreaks
  PROVE  GrantInv'
  <1>1. /\ GrantTypeOK /\ UNCHANGED <<source, untagged, grant, clicks, outcome, answered>>
        /\ lasted' \subseteq lasted /\ (connected' => connected)
    BY DEF GrantInv, Loads, Frees, WorldChanges, GamePipeBreaks, GrantIdles
  <1>2. \A s \in Together : s \subseteq Entries
    BY DEF Together
  <1>3. loaded' \subseteq Entries /\ lasted' \subseteq loaded'
    BY <1>1, <1>2, GrantTypes DEF Loads, Frees, WorldChanges, GamePipeBreaks
  <1>4. world' \in BOOLEAN
    BY <1>1, GrantTypes DEF Loads, Frees, WorldChanges, GamePipeBreaks
  <1>5. connected' \in BOOLEAN
    BY <1>1, GrantTypes DEF Loads, Frees, WorldChanges, GamePipeBreaks
  <1>6. GrantTypeOK'
    BY <1>1, <1>3, <1>4, <1>5 DEF GrantTypeOK
  <1>7. Owed' \subseteq Owed
    BY <1>1 DEF Owed
  <1>8. StillPending' /\ Covered'
    BY <1>1, <1>7 DEF GrantInv, StillPending, Covered, Whole
  <1>9. GrantComplete'
    BY <1>1, <1>7 DEF GrantInv, GrantComplete, Owed
  <1> QED
    BY <1>6, <1>8, <1>9 DEF GrantInv

\* The end of the command: with everything answered, if it says so.
LEMMA ReturnsKeeps ==
  ASSUME GrantInv, NEW o \in {"ok", "error"}, Returns(o), GameIdles, UNCHANGED <<lasted, answered>>,
         o = "ok" /\ Whole => Owed \subseteq answered
  PROVE  GrantInv'
  <1>1. GrantTypeOK /\ grant.cut \in BOOLEAN
    BY GrantTypes DEF GrantInv, GrantType
  <1>2. grant' \in GrantType /\ grant'.at = "idle" /\ grant'.cut = grant.cut /\ outcome' = o
    BY <1>1, NoGrantIs DEF Returns, GrantSteps
  <1>3. GrantTypeOK'
    BY <1>1, <1>2, GrantTypes DEF GrantTypeOK, GrantType, GrantSteps, GameIdles
  <1>4. StillPending' /\ Covered'
    BY <1>2 DEF StillPending, Covered
  <1>5. GrantComplete'
    BY <1>2 DEF GrantComplete, Whole, Owed, GameIdles
  <1> QED
    BY <1>3, <1>4, <1>5 DEF GrantInv

\* A step of the command that is not its end.
LEMMA GoesOnKeeps ==
  ASSUME GrantInv, grant' \in GrantType, grant'.at # "idle", grant.at # "idle",
         answered' \subseteq Entries, GameIdles, UNCHANGED <<lasted, outcome>>, Covered'
  PROVE  GrantInv'
  <1>1. GrantTypeOK /\ outcome = "none"
    BY DEF GrantInv, StillPending
  <1>2. GrantTypeOK'
    BY <1>1, GrantTypes DEF GrantTypeOK, GrantType, GrantSteps, GameIdles
  <1> QED
    BY <1>1, <1>2 DEF GrantInv, StillPending, GrantComplete

LEMMA ClickKeeps ==
  ASSUME GrantInv, GrantClicked
  PROVE  GrantInv'
  <1>1. GrantTypeOK
    BY DEF GrantInv
  <1>2. grant' \in GrantType /\ grant'.at = "list"
    BY NoGrantIs DEF GrantClicked, GrantSteps
  <1>3. clicks' \in 0 .. MaxGrants
    BY <1>1, GrantTypes, GrantAssumption DEF GrantClicked
  <1>4. /\ outcome' = "none" /\ lasted' = loaded /\ answered' = {}
        /\ UNCHANGED <<source, loaded, untagged, world, connected>>
    BY DEF GrantClicked
  <1>5. GrantTypeOK'
    BY <1>1, <1>2, <1>3, <1>4 DEF GrantTypeOK, GrantType, GrantSteps
  <1> QED
    BY <1>2, <1>4, <1>5 DEF GrantInv, StillPending, Covered, GrantComplete

LEMMA ListKeeps ==
  ASSUME GrantInv, ListEntries
  PROVE  GrantInv'
  <1>1. /\ GrantTypeOK /\ grant.at = "list" /\ GameIdles /\ UNCHANGED <<lasted, answered>>
        /\ grant \in GrantType /\ connected \in BOOLEAN
        /\ loaded \subseteq Entries /\ lasted \subseteq loaded /\ answered \subseteq Entries
        /\ MaxInstances \in Nat
    BY GrantTypes, GrantAssumption DEF GrantInv, ListEntries
  <1> DEFINE fails == ~connected \/ (source = "asset" /\ loaded = {})
             none == connected /\ source = "objects" /\ loaded = {}
  <1>2. CASE fails
    <2>1. Returns("error")
      BY <1>2 DEF ListEntries
    <2> QED
      BY <1>1, <2>1, ReturnsKeeps
  <1>3. CASE ~fails /\ none
    <2>1. Returns("ok")
      BY <1>3 DEF ListEntries
    <2>2. Owed \subseteq answered
      BY <1>1, <1>3 DEF Owed
    <2> QED
      BY <1>1, <2>1, <2>2, ReturnsKeeps
  <1>4. CASE ~fails /\ ~none
    <2>1. PICK s \in InOrder :
            grant' = [grant EXCEPT
                         !.at = "read",
                         !.listed = IF source = "objects" THEN Cut(s) ELSE s,
                         !.cut = source = "objects" /\ Len(s) > MaxInstances]
      BY <1>4 DEF ListEntries
    <2>2. UNCHANGED outcome
      BY <1>4 DEF ListEntries
    <2>3. s \in Seq(loaded) /\ Range(s) = loaded
      BY <1>1, Enumerates
    <2> DEFINE list == IF source = "objects" THEN Cut(s) ELSE s
               cut == source = "objects" /\ Len(s) > MaxInstances
    <2>4. s \in Seq(Entries) /\ Len(s) \in Nat
      BY <1>1, <2>3
    <2>5. list \in Seq(Entries)
      <3>1. CASE Len(s) > MaxInstances
        <4>1. 1 .. MaxInstances \subseteq 1 .. Len(s)
          BY <1>1, <2>4, <3>1
        <4>2. SubSeq(s, 1, MaxInstances) \in Seq(Entries)
          BY <1>1, <2>4, <4>1, SubSeqProperties
        <4> QED
          BY <2>4, <4>2 DEF Cut
      <3>2. CASE ~(Len(s) > MaxInstances)
        BY <2>4, <3>2 DEF Cut
      <3> QED
        BY <3>1, <3>2
    <2>6. cut \in BOOLEAN /\ (~cut => list = s)
      BY DEF Cut
    <2>7. grant' = [grant EXCEPT !.at = "read", !.listed = list, !.cut = cut]
      BY <2>1
    <2> HIDE DEF list, cut
    <2>8. /\ grant' \in GrantType /\ grant'.at = "read" /\ grant'.cut = cut
          /\ grant'.listed = list
      BY <1>1, <2>5, <2>6, <2>7 DEF GrantType, GrantSteps
    <2>9. Covered'
      <3>1. Owed' \subseteq loaded
        BY <1>1 DEF Owed, GameIdles
      <3> QED
        BY <2>3, <2>6, <2>8, <3>1 DEF Covered, Whole
    <2> QED
      BY <1>1, <2>2, <2>8, <2>9, GoesOnKeeps
  <1> QED
    BY <1>2, <1>3, <1>4

LEMMA TagKeeps ==
  ASSUME GrantInv, ReadTag
  PROVE  GrantInv'
  <1> DEFINE e == Head(grant.listed)
             rest == [grant EXCEPT !.listed = Tail(@)]
  <1>1. /\ GrantTypeOK /\ grant.at = "read" /\ GameIdles /\ UNCHANGED <<lasted, answered>>
        /\ grant \in GrantType /\ connected \in BOOLEAN /\ grant.listed # << >>
        /\ lasted \subseteq loaded /\ answered \subseteq Entries
    BY GrantTypes DEF GrantInv, ReadTag
  <1>2. grant.listed \in Seq(Entries) /\ grant.tags \in Seq(Entries \cup {Zero})
    BY <1>1 DEF GrantType
  <1> DEFINE less == Tail(grant.listed)
  <1>3. e \in Entries /\ less \in Seq(Entries) /\ Range(grant.listed) \subseteq {e} \cup Range(less)
    BY <1>1, <1>2, RangeTail
  <1>4. rest = [grant EXCEPT !.listed = less]
    BY <1>1 DEF GrantType
  <1> HIDE DEF less, e
  <1>5. /\ rest \in GrantType /\ rest.at = "read" /\ rest.cut = grant.cut
        /\ rest.listed = less /\ rest.tags = grant.tags
    BY <1>1, <1>3, <1>4 DEF GrantType, GrantSteps
  <1> HIDE DEF rest
  <1>6. Whole => Owed \subseteq Range(grant.listed) \cup Range(grant.tags)
    BY <1>1 DEF GrantInv, Covered
  <1>7. ASSUME grant' = rest, UNCHANGED outcome,
               Whole => e \notin Owed
        PROVE  GrantInv'
    <2>1. Covered'
      BY <1>1, <1>3, <1>5, <1>6, <1>7 DEF Covered, Whole, Owed, GameIdles
    <2> QED
      BY <1>1, <1>5, <1>7, <2>1, GoesOnKeeps
  <1>8. CASE source = "objects" /\ e \in Excluded /\ grant' = rest /\ UNCHANGED outcome
    BY <1>7, <1>8 DEF Owed
  <1>9. CASE grant' = [rest EXCEPT !.tags = Append(@, Named(e))] /\ UNCHANGED outcome
    <2> DEFINE more == Append(grant.tags, Named(e))
    <2>1. Named(e) \in Entries \cup {Zero}
      BY <1>3 DEF Named
    <2>2. /\ more \in Seq(Entries \cup {Zero})
          /\ Range(grant.tags) \cup {Named(e)} \subseteq Range(more)
      BY <1>2, <2>1, RangeAppend
    <2>3. grant' = [rest EXCEPT !.tags = more]
      BY <1>5, <1>9 DEF GrantType
    <2> HIDE DEF more
    <2>4. /\ grant' \in GrantType /\ grant'.at = "read" /\ grant'.cut = grant.cut
          /\ grant'.listed = less /\ grant'.tags = more
      BY <1>5, <2>2, <2>3 DEF GrantType, GrantSteps
    <2>5. e \in Owed => Named(e) = e
      BY DEF Owed, Named
    <2>6. Covered'
      BY <1>1, <1>3, <1>6, <2>2, <2>4, <2>5 DEF Covered, Whole, Owed, GameIdles
    <2> QED
      BY <1>1, <1>9, <2>4, <2>6, GoesOnKeeps
  <1>10. CASE (~connected \/ e \notin loaded) /\ grant' = rest /\ UNCHANGED outcome
    BY <1>1, <1>7, <1>10 DEF Owed, Whole
  <1>11. CASE Returns("error")
    BY <1>1, <1>11, ReturnsKeeps
  <1> QED
    BY <1>8, <1>9, <1>10, <1>11 DEF ReadTag, rest, e

LEMMA FindKeeps ==
  ASSUME GrantInv, TagsRead \/ FindReceivers
  PROVE  GrantInv'
  <1>1. /\ GrantTypeOK /\ GameIdles /\ UNCHANGED <<lasted, answered>>
        /\ grant \in GrantType /\ answered \subseteq Entries
    BY GrantTypes DEF GrantInv, TagsRead, FindReceivers
  <1>2. CASE Returns("error")
    BY <1>1, <1>2, ReturnsKeeps
  <1>3. CASE TagsRead /\ Returns("ok") /\ grant.tags = << >>
    <2>1. Whole => Owed \subseteq {}
      BY <1>3, RangeEmpty DEF GrantInv, Covered, TagsRead
    <2> QED
      BY <1>1, <1>3, <2>1, ReturnsKeeps
  <1>4. CASE TagsRead /\ grant' = [grant EXCEPT !.at = "find"] /\ UNCHANGED outcome
    <2>1. /\ grant' \in GrantType /\ grant'.at = "find" /\ grant'.cut = grant.cut
          /\ grant'.tags = grant.tags
      BY <1>1, <1>4 DEF GrantType, GrantSteps
    <2>2. Whole => Owed \subseteq Range(grant.tags)
      BY <1>4, RangeEmpty DEF GrantInv, Covered, TagsRead
    <2>3. Covered'
      BY <1>1, <2>1, <2>2 DEF Covered, Whole, Owed, GameIdles
    <2>4. grant.at # "idle"
      BY <1>4 DEF TagsRead
    <2> QED
      BY <1>1, <1>4, <2>1, <2>3, <2>4, GoesOnKeeps
  <1>5. CASE FindReceivers /\ grant' = [grant EXCEPT !.at = "call"] /\ UNCHANGED outcome
    <2>1. /\ grant' \in GrantType /\ grant'.at = "call" /\ grant'.cut = grant.cut
          /\ grant'.tags = grant.tags
      BY <1>1, <1>5 DEF GrantType, GrantSteps
    <2>2. Whole => Owed \subseteq Range(grant.tags)
      BY <1>5 DEF GrantInv, Covered, FindReceivers
    <2>3. Covered'
      BY <1>1, <2>1, <2>2 DEF Covered, Whole, Owed, GameIdles
    <2>4. grant.at # "idle"
      BY <1>5 DEF FindReceivers
    <2> QED
      BY <1>1, <1>5, <2>1, <2>3, <2>4, GoesOnKeeps
  <1> QED
    BY <1>2, <1>3, <1>4, <1>5 DEF TagsRead, FindReceivers

LEMMA CallKeepsGrant ==
  ASSUME GrantInv, CallGame
  PROVE  GrantInv'
  <1> DEFINE e == Head(grant.tags)
             less == Tail(grant.tags)
  <1>1. /\ GrantTypeOK /\ grant.at = "call" /\ GameIdles /\ UNCHANGED lasted
        /\ grant \in GrantType /\ answered \subseteq Entries
    BY GrantTypes DEF GrantInv, CallGame
  <1>2. grant.tags \in Seq(Entries \cup {Zero})
    BY <1>1 DEF GrantType
  <1>3. Whole => Owed \subseteq Range(grant.tags) \cup answered
    BY <1>1 DEF GrantInv, Covered
  <1>4. CASE grant.tags = << >> /\ Returns("ok") /\ UNCHANGED answered
    BY <1>1, <1>3, <1>4, RangeEmpty, ReturnsKeeps
  <1>5. CASE Returns("error") /\ UNCHANGED answered
    BY <1>1, <1>5, ReturnsKeeps
  <1>6. CASE /\ grant.tags # << >> /\ grant' = [grant EXCEPT !.tags = Tail(@)]
             /\ UNCHANGED outcome
             /\ \/ e = Zero /\ UNCHANGED answered
                \/ e # Zero /\ answered' = answered \cup {e}
    <2>1. /\ e \in Entries \cup {Zero} /\ less \in Seq(Entries \cup {Zero})
          /\ Range(grant.tags) \subseteq {e} \cup Range(less)
      BY <1>2, <1>6, RangeTail
    <2>2. grant' = [grant EXCEPT !.tags = less]
      BY <1>1, <1>6 DEF GrantType
    <2> HIDE DEF less, e
    <2>3. /\ grant' \in GrantType /\ grant'.at = "call" /\ grant'.cut = grant.cut
          /\ grant'.tags = less
      BY <1>1, <2>1, <2>2 DEF GrantType, GrantSteps
    <2>4. Zero \notin Owed
      <3>1. Owed \subseteq Entries
        BY <1>1, GrantTypes DEF Owed
      <3> QED
        BY <3>1, GrantAssumption DEF Entries, Zero
    <2>5. answered' \subseteq Entries
      BY <1>1, <1>6, <2>1
    <2>6. Range(grant.tags) \cup answered \subseteq Range(less) \cup answered' \cup {Zero}
      BY <1>6, <2>1
    <2>7. Covered'
      BY <1>1, <1>3, <2>3, <2>4, <2>6 DEF Covered, Whole, Owed, GameIdles
    <2> QED
      BY <1>1, <1>6, <2>3, <2>5, <2>7, GoesOnKeeps
  <1> HIDE DEF less
  <1> QED
    BY <1>4, <1>5, <1>6 DEF CallGame

LEMMA GrantNextInv == GrantInv /\ [GrantNext]_grantVars => GrantInv'
  <1> SUFFICES ASSUME GrantInv, [GrantNext]_grantVars PROVE GrantInv'
    OBVIOUS
  <1>1. CASE UNCHANGED grantVars
    BY <1>1
    DEF grantVars, GrantInv, GrantTypeOK, StillPending, Covered, Whole, Owed, GrantComplete
  <1> QED
    BY <1>1, GameKeepsGrant, ClickKeeps, ListKeeps, TagKeeps, FindKeeps, CallKeepsGrant
    DEF GrantNext

\* A grant that reports success has had an answer for every entry that was loaded all
\* along and has a tag, over any entries that are loaded and freed between its
\* requests, and any failures, for any number of entries (write_set_progress_tags).
THEOREM GrantedCorrect == GrantSpec => []GrantComplete
  <1>1. GrantInv => GrantComplete
    BY DEF GrantInv
  <1> QED
    BY <1>1, GrantInitInv, GrantNextInv, PTL DEF GrantSpec

\* The entries, the pipe and the command that grants them keep their types.
THEOREM GrantTypeCorrect == GrantSpec => []GrantTypeOK
  <1>1. GrantInv => GrantTypeOK
    BY DEF GrantInv
  <1> QED
    BY <1>1, GrantInitInv, GrantNextInv, PTL DEF GrantSpec

-----------------------------------------------------------------------------
(* PropertyLayout.  What a list holds is declared along the supers of its  *)
(* class: the walk never leaves them, and a member keeps the class it was  *)
(* seen in.                                                                *)

Declared(a, d) == IF a = "property" THEN Fields[d] ELSE Functions[d]

Declares(a, c, list) ==
    \A i \in DOMAIN list :
        /\ list[i][1] \in Chain(c)
        /\ list[i][2] \in Names => list[i][2] \in Range(Declared(a, list[i][1]))

Listed == \A c \in DOMAIN cached : Declares(about, c, cached[c])

Walking ==
    \A w \in Workers : walker[w].class # NoClass =>
        /\ walker[w].name \in Names
        /\ walker[w].cur \in Chain(walker[w].class) \cup {NoClass}
        /\ Declares(about, walker[w].class, walker[w].list)

LayoutInv ==
    /\ LayoutTypeOK
    /\ Listed
    /\ Walking
    /\ ServedFits

Walk ==
    [class : Classes \cup {NoClass}, name : Names \cup {""}, cur : Classes \cup {NoClass},
     hops : 0 .. MaxHops, list : Seq(Member)]

\* A class is in its own chain, and so is the super of a class that is.
LEMMA ChainGoesOn ==
  ASSUME NEW c \in Classes
  PROVE  /\ Chain(c) \subseteq Classes /\ c \in Chain(c)
         /\ \A d \in Chain(c) : Super[d] \in Chain(c) \cup {NoClass}
  <1>1. Super \in [Classes -> Classes \cup {NoClass}]
    BY LayoutAssumption
  <1>2. Chain(c) \subseteq Classes /\ c \in Chain(c)
    BY DEF Chain
  <1>3. ASSUME NEW d \in Chain(c), Super[d] # NoClass
        PROVE  Super[d] \in Chain(c)
    <2>1. d \in Classes /\ Super[d] \in Classes
      BY <1>1, <1>2, <1>3
    <2>2. ASSUME NEW s \in SUBSET Classes, c \in s, \A e \in s : Super[e] \in s \cup {NoClass}
          PROVE  Super[d] \in s
      <3>1. d \in s
        BY <1>3, <2>2 DEF Chain
      <3> QED
        BY <1>3, <2>2, <3>1
    <2> QED
      BY <2>1, <2>2 DEF Chain
  <1> QED
    BY <1>2, <1>3

LEMMA LayoutInitInv == LayoutInit => LayoutInv
  <1> SUFFICES ASSUME LayoutInit PROVE LayoutInv
    OBVIOUS
  <1>1. Resting \in Walk /\ Resting.class = NoClass
    <2>1. << >> \in Seq(Member)
      BY EmptySeq
    <2>2. 0 \in 0 .. MaxHops
      BY LayoutAssumption
    <2> QED
      BY <2>1, <2>2 DEF Resting, Walk
  <1>2. walker \in [Workers -> Walk] /\ \A w \in Workers : walker[w].class = NoClass
    BY <1>1 DEF LayoutInit
  <1>3. DOMAIN cached = {} /\ DOMAIN known = {}
    BY DEF LayoutInit
  <1>4. about \in Kinds /\ linked \subseteq Classes /\ called = NoCall
    BY LayoutAssumption DEF LayoutInit
  <1>5. LayoutTypeOK
    BY <1>2, <1>3, <1>4 DEF LayoutTypeOK, Walk
  <1>6. Listed /\ Walking
    BY <1>2, <1>3 DEF Listed, Walking
  <1>7. ServedFits
    BY <1>3, <1>4 DEF ServedFits
  <1> QED
    BY <1>5, <1>6, <1>7 DEF LayoutInv

\* What is taken from a list of the class fits.
LEMMA NamedFits ==
  ASSUME NEW c \in Classes, NEW n \in Names, NEW list \in Seq(Member), Declares(about, c, list),
         NEW f \in FirstNamed(list, n)
  PROVE  f \in Member /\ f[2] = n /\ f[1] \in Chain(c) /\ n \in Range(Declared(about, f[1]))
  <1>1. PICK i \in DOMAIN list : f = list[i] /\ list[i][2] = n
    BY DEF FirstNamed
  <1>2. list[i] \in Member
    BY ElementOfSeq
  <1> QED
    BY <1>1, <1>2 DEF Declares

\* The session keeps an answer that fits under its own key.
LEMMA AnswerFits ==
  ASSUME LayoutTypeOK, ServedFits, NEW w \in Workers, NEW c \in Classes, NEW n \in Names,
         NEW list \in Seq(Member), Declares(about, c, list), about = "property",
         AnswerFrom(w, c, n, list), called' = NoCall
  PROVE  /\ \A k \in DOMAIN known' : known'[k] \in Member
         /\ ServedFits'
  <1> DEFINE key == <<c, n>>
             meant == FirstNamed(list, n)
             f == CHOOSE m \in meant : TRUE
  <1>1. CASE UNCHANGED known
    BY <1>1 DEF LayoutTypeOK, ServedFits, KnownKey
  <1>2. CASE /\ meant # {}
             /\ known' = [k \in DOMAIN known \cup {key} |-> IF k = key THEN f ELSE known[k]]
    <2>1. f \in meant
      BY <1>2
    <2>2. f \in Member /\ f[2] = n /\ f[1] \in Chain(c) /\ n \in Range(Fields[f[1]])
      BY <2>1, NamedFits DEF Declared
    <2> HIDE DEF f, meant
    <2>3. \A k \in DOMAIN known' : known'[k] = f \/ (k \in DOMAIN known /\ known'[k] = known[k])
      BY <1>2
    <2>4. \A k \in DOMAIN known' : known'[k] \in Member
      BY <2>2, <2>3 DEF LayoutTypeOK
    <2>5. ASSUME NEW d \in Classes, NEW m \in Names, KnownKey(d, m) \in DOMAIN known'
          PROVE  LET g == known'[KnownKey(d, m)]
                 IN  g[1] \in Chain(d) /\ g[2] = m /\ m \in Range(Fields[g[1]])
      <3>1. CASE KnownKey(d, m) = key
        <4>1. d = c /\ m = n
          BY <3>1 DEF KnownKey
        <4>2. known'[KnownKey(d, m)] = f
          BY <1>2, <3>1
        <4> QED
          BY <2>2, <4>1, <4>2
      <3>2. CASE KnownKey(d, m) # key
        <4>1. KnownKey(d, m) \in DOMAIN known /\ known'[KnownKey(d, m)] = known[KnownKey(d, m)]
          BY <1>2, <2>5, <3>2
        <4> QED
          BY <4>1 DEF ServedFits
      <3> QED
        BY <3>1, <3>2
    <2> QED
      BY <2>4, <2>5 DEF ServedFits, KnownKey
  <1> QED
    BY <1>1, <1>2 DEF AnswerFrom, KnownKey

\* The function that is called fits, and so does the buffer it is given.
LEMMA CallFits ==
  ASSUME LayoutTypeOK, ServedFits, NEW c \in Classes, NEW n \in Names,
         NEW list \in Seq(Member), Declares(about, c, list), about = "function",
         CallFrom(c, n, list), UNCHANGED known
  PROVE  /\ called' = NoCall \/ (called'.class \in Classes /\ called'.fn \in Member)
         /\ ServedFits'
  <1> DEFINE meant == FirstNamed(list, n)
             f == CHOOSE m \in meant : TRUE
  <1>1. PICK sent \in 0 .. Parms[n] + 1 :
          called' = IF meant = {} \/ (sent > Parms[n] /\ Parms[n] > 0) THEN NoCall
                    ELSE [class |-> c, fn |-> f, sent |-> sent, buffer |-> Larger(Parms[n], sent)]
    BY DEF CallFrom
  <1>2. Parms[n] \in Nat
    BY LayoutAssumption
  <1>3. CASE called' = NoCall
    BY <1>3 DEF ServedFits, KnownKey
  <1>4. CASE /\ meant # {}
             /\ called' = [class |-> c, fn |-> f, sent |-> sent, buffer |-> Larger(Parms[n], sent)]
    <2>1. f \in meant
      BY <1>4
    <2>2. f \in Member /\ f[2] = n /\ f[1] \in Chain(c) /\ n \in Range(Functions[f[1]])
      BY <2>1, NamedFits DEF Declared
    <2>3. Larger(Parms[n], sent) >= sent /\ Larger(Parms[n], sent) >= Parms[n]
      BY <1>2 DEF Larger
    <2> HIDE DEF f, meant
    <2>4. /\ called'.class = c /\ called'.fn = f /\ called'.sent = sent
          /\ called'.buffer = Larger(Parms[n], sent)
      BY <1>4
    <2> QED
      BY <2>2, <2>3, <2>4 DEF ServedFits, KnownKey
  <1> QED
    BY <1>1, <1>3, <1>4

\* Either way, what is served fits.
LEMMA ServesFit ==
  ASSUME LayoutTypeOK, ServedFits, NEW w \in Workers, NEW c \in Classes, NEW n \in Names,
         NEW list \in Seq(Member), Declares(about, c, list), Served(w, c, n, list)
  PROVE  /\ \A k \in DOMAIN known' : known'[k] \in Member
         /\ called' = NoCall \/ (called'.class \in Classes /\ called'.fn \in Member)
         /\ ServedFits'
  <1>1. CASE about = "property"
    BY <1>1, AnswerFits DEF Served
  <1>2. CASE about # "property"
    <2>1. about = "function" /\ CallFrom(c, n, list) /\ UNCHANGED known
      BY <1>2 DEF Served, LayoutTypeOK, Kinds
    <2> QED
      BY <2>1, CallFits DEF LayoutTypeOK
  <1> QED
    BY <1>1, <1>2

LEMMA AskedKeeps ==
  ASSUME LayoutInv, NEW w \in Workers, NEW c \in Classes, NEW n \in Names, Asked_L(w, c, n)
  PROVE  LayoutInv'
  <1>1. LayoutTypeOK /\ ServedFits /\ walker \in [Workers -> Walk]
    BY DEF LayoutInv, LayoutTypeOK, Walk
  <1>2. UNCHANGED <<about, linked, cached>>
    BY DEF Asked_L
  <1>3. CASE c \in DOMAIN cached
    <2>1. Served(w, c, n, cached[c]) /\ UNCHANGED walker
      BY <1>3 DEF Asked_L
    <2>2. cached[c] \in Seq(Member) /\ Declares(about, c, cached[c])
      BY <1>1, <1>3 DEF LayoutInv, LayoutTypeOK, Listed
    <2>3. /\ \A k \in DOMAIN known' : known'[k] \in Member
          /\ called' = NoCall \/ (called'.class \in Classes /\ called'.fn \in Member)
          /\ ServedFits'
      BY <1>1, <2>1, <2>2, ServesFit
    <2>4. LayoutTypeOK'
      BY <1>1, <1>2, <2>1, <2>3 DEF LayoutTypeOK
    <2> QED
      BY <1>2, <2>1, <2>3, <2>4 DEF LayoutInv, Listed, Walking
  <1>4. CASE c \notin DOMAIN cached
    <2> DEFINE new == [class |-> c, name |-> n, cur |-> c, hops |-> 0, list |-> << >>]
    <2>1. walker' = [walker EXCEPT ![w] = new] /\ called' = NoCall /\ UNCHANGED known
      BY <1>4 DEF Asked_L
    <2>2. << >> \in Seq(Member) /\ 0 \in 0 .. MaxHops /\ DOMAIN << >> = {}
      BY EmptySeq, LayoutAssumption
    <2>3. /\ new \in Walk /\ new.class = c /\ new.name = n /\ new.cur = c /\ new.list = << >>
      BY <2>2 DEF Walk
    <2> HIDE DEF new
    <2>4. /\ walker' \in [Workers -> Walk] /\ walker'[w] = new
          /\ \A v \in Workers : v # w => walker'[v] = walker[v]
      BY <1>1, <2>1, <2>3
    <2>5. LayoutTypeOK'
      BY <1>1, <1>2, <2>1, <2>4 DEF LayoutTypeOK, Walk
    <2>6. Declares(about, c, << >>)
      BY <2>2 DEF Declares
    <2>7. Walking'
      BY <1>2, <2>3, <2>4, <2>6, ChainGoesOn DEF LayoutInv, Walking
    <2> QED
      BY <1>2, <2>1, <2>5, <2>7 DEF LayoutInv, Listed, ServedFits, KnownKey
  <1> QED
    BY <1>3, <1>4

\* One class of the walk: its members bear its name.
LEMMA SeenDeclares ==
  ASSUME NEW c \in Classes, NEW d \in Chain(c), NEW s \in Seen(d)
  PROVE  s \in Seq(Member) /\ Declares(about, c, s)
  <1> DEFINE members == Declared(about, d)
  <1>1. d \in Classes
    BY ChainGoesOn
  <1>2. Fields[d] \in Seq(Names) /\ Functions[d] \in Seq(Names)
    BY <1>1, LayoutAssumption
  <1>3. members \in Seq(Names)
    BY <1>2 DEF Declared
  <1>4. CASE s = << >>
    BY <1>4, EmptySeq DEF Declares
  <1>5. CASE s # << >>
    <2> HIDE DEF members
    <2>1. PICK lost \in SUBSET DOMAIN members :
            s = [i \in DOMAIN members |-> <<d, IF i \in lost THEN Unknown ELSE members[i]>>]
      BY <1>5 DEF Seen, Declared, members
    <2>2. DOMAIN members = 1 .. Len(members) /\ Len(members) \in Nat
      BY <1>3
    <2>3. \A i \in DOMAIN members : members[i] \in Names
      BY <1>3, ElementOfSeq
    <2>4. ASSUME NEW i \in DOMAIN members
          PROVE  /\ s[i] \in Member /\ s[i][1] = d
                 /\ s[i][2] = Unknown \/ s[i][2] = members[i]
      <3>1. s[i] = <<d, IF i \in lost THEN Unknown ELSE members[i]>>
        BY <2>1
      <3> QED
        BY <1>1, <2>3, <3>1 DEF Member
    <2>5. DOMAIN s = 1 .. Len(members)
      BY <2>1, <2>2
    <2>6. s \in Seq(Member)
      <3>1. s \in [1 .. Len(members) -> Member]
        BY <2>1, <2>2, <2>4
      <3> QED
        BY <2>2, <3>1
    <2>7. Unknown \notin Names
      BY LayoutAssumption
    <2>8. ASSUME NEW i \in DOMAIN s
          PROVE  /\ s[i][1] \in Chain(c)
                 /\ s[i][2] \in Names => s[i][2] \in Range(Declared(about, s[i][1]))
      <3>1. s[i][1] = d /\ (s[i][2] = Unknown \/ s[i][2] = members[i]) /\ i \in DOMAIN members
        BY <2>2, <2>4, <2>5, <2>8
      <3>2. members[i] \in Range(Declared(about, d))
        BY <3>1 DEF members, Range
      <3> QED
        BY <2>7, <3>1, <3>2
    <2> QED
      BY <2>6, <2>8 DEF Declares
  <1> QED
    BY <1>4, <1>5

LEMMA ConcatDeclares ==
  ASSUME NEW a, NEW c, NEW s \in Seq(Member), NEW t \in Seq(Member),
         Declares(a, c, s), Declares(a, c, t)
  PROVE  s \o t \in Seq(Member) /\ Declares(a, c, s \o t)
  <1> DEFINE u == s \o t
  <1>1. /\ u \in Seq(Member) /\ Len(u) = Len(s) + Len(t)
        /\ \A i \in 1 .. Len(u) : u[i] = IF i <= Len(s) THEN s[i] ELSE t[i - Len(s)]
    BY ConcatProperties
  <1>2. /\ Len(s) \in Nat /\ Len(t) \in Nat
        /\ DOMAIN s = 1 .. Len(s) /\ DOMAIN t = 1 .. Len(t)
    BY LenProperties
  <1> HIDE DEF u
  <1>3. DOMAIN u = 1 .. Len(s) + Len(t)
    BY <1>1, LenProperties
  <1>4. ASSUME NEW i \in DOMAIN u
        PROVE  (\E j \in DOMAIN s : u[i] = s[j]) \/ (\E j \in DOMAIN t : u[i] = t[j])
    <2>1. CASE i <= Len(s)
      BY <1>1, <1>2, <1>3, <2>1
    <2>2. CASE ~(i <= Len(s))
      <3>1. i - Len(s) \in DOMAIN t /\ u[i] = t[i - Len(s)]
        BY <1>1, <1>2, <1>3, <2>2
      <3> QED
        BY <3>1
    <2> QED
      BY <2>1, <2>2
  <1>5. Declares(a, c, u)
    BY <1>4 DEF Declares
  <1> QED
    BY <1>1, <1>5 DEF u

LEMMA WalkKeeps ==
  ASSUME LayoutInv, NEW w \in Workers, WalkClass(w)
  PROVE  LayoutInv'
  <1> DEFINE r == walker[w]
  <1>1. /\ LayoutTypeOK /\ walker \in [Workers -> Walk] /\ r \in Walk
        /\ UNCHANGED <<about, linked, cached, known>> /\ called' = NoCall
    BY DEF LayoutInv, LayoutTypeOK, Walk, WalkClass
  <1>2. r.class # NoClass /\ r.cur # NoClass /\ r.hops # MaxHops
    BY DEF WalkClass, Walked
  <1>3. /\ r.class \in Classes /\ r.cur \in Classes /\ r.hops \in 0 .. MaxHops
        /\ r.list \in Seq(Member) /\ MaxHops \in Nat
    BY <1>1, <1>2, LayoutAssumption DEF Walk
  <1>4. /\ r.name \in Names /\ r.cur \in Chain(r.class) /\ Declares(about, r.class, r.list)
    BY <1>2 DEF LayoutInv, Walking
  <1>5. PICK members \in Seen(r.cur) :
          walker' = [walker EXCEPT ![w] =
                        [r EXCEPT !.list = @ \o members, !.cur = Super[r.cur], !.hops = @ + 1]]
    BY DEF WalkClass
  <1> DEFINE longer == r.list \o members
             new == [r EXCEPT !.list = longer, !.cur = Super[r.cur], !.hops = r.hops + 1]
  <1>6. longer \in Seq(Member) /\ Declares(about, r.class, longer)
    BY <1>3, <1>4, SeenDeclares, ConcatDeclares
  <1>7. Super[r.cur] \in Chain(r.class) \cup {NoClass} /\ Super[r.cur] \in Classes \cup {NoClass}
    BY <1>3, <1>4, ChainGoesOn
  <1>8. r.hops + 1 \in 0 .. MaxHops
    BY <1>2, <1>3
  <1>9. walker' = [walker EXCEPT ![w] = new]
    BY <1>1, <1>5 DEF Walk
  <1> HIDE DEF longer
  <1>10. /\ new \in Walk /\ new.class = r.class /\ new.name = r.name
         /\ new.cur = Super[r.cur] /\ new.list = longer
    BY <1>1, <1>6, <1>7, <1>8 DEF Walk
  <1> HIDE DEF new
  <1>11. /\ walker' \in [Workers -> Walk] /\ walker'[w] = new
         /\ \A v \in Workers : v # w => walker'[v] = walker[v]
    BY <1>1, <1>9, <1>10
  <1>12. LayoutTypeOK'
    BY <1>1, <1>11 DEF LayoutTypeOK, Walk
  <1>13. Walking'
    <2> SUFFICES ASSUME NEW v \in Workers, walker'[v].class # NoClass
                 PROVE  /\ walker'[v].name \in Names
                        /\ walker'[v].cur \in Chain(walker'[v].class) \cup {NoClass}
                        /\ Declares(about, walker'[v].class, walker'[v].list)
      BY <1>1 DEF Walking
    <2>1. CASE v = w
      BY <1>4, <1>6, <1>7, <1>10, <1>11, <2>1
    <2>2. CASE v # w
      BY <1>11, <2>2 DEF LayoutInv, Walking
    <2> QED
      BY <2>1, <2>2
  <1> QED
    BY <1>1, <1>12, <1>13 DEF LayoutInv, Listed, ServedFits, KnownKey

LEMMA InsertKeeps ==
  ASSUME LayoutInv, NEW w \in Workers, Insert(w)
  PROVE  LayoutInv'
  <1> DEFINE r == walker[w]
             list == IF r.class \in DOMAIN cached THEN cached[r.class] ELSE r.list
  <1>1. /\ LayoutTypeOK /\ ServedFits /\ walker \in [Workers -> Walk] /\ r \in Walk
        /\ UNCHANGED <<about, linked>>
    BY DEF LayoutInv, LayoutTypeOK, Walk, Insert
  <1>2. /\ r.class # NoClass
        /\ cached' = [c \in DOMAIN cached \cup {r.class} |-> IF c = r.class THEN list ELSE cached[c]]
        /\ Served(w, r.class, r.name, list)
        /\ walker' = [walker EXCEPT ![w] = Resting]
    BY DEF Insert
  <1>3. r.class \in Classes /\ r.list \in Seq(Member)
    BY <1>1, <1>2 DEF Walk
  <1>4. r.name \in Names /\ Declares(about, r.class, r.list)
    BY <1>2 DEF LayoutInv, Walking
  <1>5. list \in Seq(Member) /\ Declares(about, r.class, list)
    BY <1>1, <1>3, <1>4 DEF LayoutInv, LayoutTypeOK, Listed
  <1> HIDE DEF list
  <1>6. /\ \A k \in DOMAIN known' : known'[k] \in Member
        /\ called' = NoCall \/ (called'.class \in Classes /\ called'.fn \in Member)
        /\ ServedFits'
    BY <1>1, <1>2, <1>3, <1>4, <1>5, ServesFit
  <1>7. \A c \in DOMAIN cached' :
          (c = r.class /\ cached'[c] = list) \/ (c \in DOMAIN cached /\ cached'[c] = cached[c])
    BY <1>2
  <1>8. Listed'
    BY <1>1, <1>5, <1>7 DEF LayoutInv, Listed
  <1>9. Resting \in Walk /\ Resting.class = NoClass
    <2>1. << >> \in Seq(Member)
      BY EmptySeq
    <2>2. 0 \in 0 .. MaxHops
      BY LayoutAssumption
    <2> QED
      BY <2>1, <2>2 DEF Resting, Walk
  <1>10. /\ walker' \in [Workers -> Walk] /\ walker'[w] = Resting
         /\ \A v \in Workers : v # w => walker'[v] = walker[v]
    BY <1>1, <1>2, <1>9
  <1>11. \A c \in DOMAIN cached' : c \in Classes /\ cached'[c] \in Seq(Member)
    BY <1>1, <1>3, <1>5, <1>7 DEF LayoutTypeOK
  <1>12. LayoutTypeOK'
    BY <1>1, <1>6, <1>10, <1>11 DEF LayoutTypeOK, Walk
  <1>13. Walking'
    BY <1>1, <1>9, <1>10 DEF LayoutInv, Walking
  <1> QED
    BY <1>6, <1>8, <1>12, <1>13 DEF LayoutInv

LEMMA LayoutNextInv == LayoutInv /\ [LayoutNext]_layoutVars => LayoutInv'
  <1> SUFFICES ASSUME LayoutInv, [LayoutNext]_layoutVars PROVE LayoutInv'
    OBVIOUS
  <1>1. CASE UNCHANGED layoutVars
    BY <1>1
    DEF layoutVars, LayoutInv, LayoutTypeOK, Listed, Walking, ServedFits, KnownKey
  <1>2. ASSUME NEW c \in Classes, Linked(c)
        PROVE  LayoutInv'
    BY <1>2
    DEF Linked, LayoutInv, LayoutTypeOK, Listed, Walking, ServedFits, KnownKey
  <1>3. ASSUME NEW w \in Workers, NEW c \in Classes, NEW n \in Names,
               ResolveProperty(w, c, n) \/ CallUFunction(w, c, n)
        PROVE  LayoutInv'
    BY <1>3, AskedKeeps DEF ResolveProperty, CallUFunction
  <1>4. ASSUME NEW w \in Workers, WalkClass(w)
        PROVE  LayoutInv'
    BY <1>4, WalkKeeps
  <1>5. ASSUME NEW w \in Workers, Insert(w)
        PROVE  LayoutInv'
    BY <1>5, InsertKeeps
  <1> QED
    BY <1>1, <1>2, <1>3, <1>4, <1>5 DEF LayoutNext

\* What the session answers from its cache is the class's own property of that name,
\* and so is the function that is called, whose buffer is large enough: however early
\* the class was walked, whichever of the two workers' lists came first, and for any
\* classes, names and depth of the walk (walk_properties_cached, call_ufunction).
THEOREM FitCorrect == LayoutSpec => []ServedFits
  <1>1. LayoutInv => ServedFits
    BY DEF LayoutInv
  <1> QED
    BY <1>1, LayoutInitInv, LayoutNextInv, PTL DEF LayoutSpec

\* The caches of the session and the walks of the DLL keep their types, and a walk its
\* limit of hops.
THEOREM LayoutTypeCorrect == LayoutSpec => []LayoutTypeOK
  <1>1. LayoutInv => LayoutTypeOK
    BY DEF LayoutInv
  <1> QED
    BY <1>1, LayoutInitInv, LayoutNextInv, PTL DEF LayoutSpec

-----------------------------------------------------------------------------
(* MemoryScan.  Arithmetic first: quotient and remainder.                  *)

LEMMA Division ==
  ASSUME NEW a \in Nat, NEW m \in Nat \ {0}
  PROVE  /\ a = m * (a \div m) + (a % m)
         /\ a % m \in Nat /\ a % m < m /\ a \div m \in Nat
  OBVIOUS

LEMMA Quotient ==
  ASSUME NEW m \in Nat \ {0}, NEW q \in Nat, NEW r \in Nat, r < m
  PROVE  /\ (m * q + r) % m = r /\ (m * q + r) \div m = q
         /\ (m * q) % m = 0
  OBVIOUS

LEMMA QuotientGap ==
  ASSUME NEW m \in Nat \ {0}, NEW q \in Nat, NEW p \in Nat, m * q < m * p
  PROVE  m * q + m <= m * p
  <1>1. q < p
    OBVIOUS
  <1>2. PICK d \in Nat : p = q + 1 + d
    BY <1>1
  <1>3. m * p = m * q + m + m * d /\ m * d \in Nat
    BY <1>2
  <1> QED
    BY <1>3

LEMMA MultipleIs ==
  ASSUME NEW m \in Nat \ {0}, NEW a \in Nat, a % m = 0
  PROVE  \E q \in Nat : a = m * q
  BY Division

\* What is added to a multiple keeps its remainder, and what is taken.
LEMMA MultipleShifts ==
  ASSUME NEW m \in Nat \ {0}, NEW a \in Nat, NEW b \in Nat, a % m = 0
  PROVE  (a + b) % m = b % m
  <1>1. PICK q \in Nat : a = m * q
    BY MultipleIs
  <1>2. b = m * (b \div m) + (b % m) /\ b % m \in Nat /\ b % m < m /\ b \div m \in Nat
    BY Division
  <1> DEFINE p == b \div m   r == b % m
  <1>3. a + b = m * (q + p) + r
    <2>1. m * (q + p) = m * q + m * p
      BY <1>2
    <2>2. m * p \in Nat /\ m * q \in Nat
      BY <1>2
    <2> QED
      BY <1>1, <1>2, <2>1, <2>2
  <1>4. (m * (q + p) + r) % m = r
    <2>1. q + p \in Nat /\ r \in Nat /\ r < m
      BY <1>2
    <2> HIDE DEF p, r
    <2> QED
      BY <2>1, Quotient
  <1> QED
    BY <1>3, <1>4

\* Between two multiples there is room for one more step at least.
LEMMA MultipleGap ==
  ASSUME NEW m \in Nat \ {0}, NEW a \in Nat, NEW b \in Nat, a % m = 0, b % m = 0, a < b
  PROVE  a + m <= b
  <1>1. PICK q \in Nat : a = m * q
    BY MultipleIs
  <1>2. PICK p \in Nat : b = m * p
    BY MultipleIs
  <1> QED
    BY <1>1, <1>2, QuotientGap

LEMMA MultipleTrans ==
  ASSUME NEW m \in Nat \ {0}, NEW b \in Nat \ {0}, NEW a \in Nat, b % m = 0, a % b = 0
  PROVE  a % m = 0
  <1>1. PICK q \in Nat : b = m * q
    BY MultipleIs
  <1>2. PICK p \in Nat : a = b * p
    BY MultipleIs
  <1>3. a = m * (q * p) /\ q * p \in Nat
    BY <1>1, <1>2
  <1> QED
    BY <1>3, Quotient

\* Addresses that are no further apart than their page goes are in one page.
LEMMA SamePage ==
  ASSUME NEW m \in Nat \ {0}, NEW a \in Nat, NEW d \in Nat, (a % m) + d < m
  PROVE  (a + d) \div m = a \div m
  <1>1. /\ a = m * (a \div m) + (a % m)
        /\ a % m \in Nat /\ a % m < m /\ a \div m \in Nat
    BY Division
  <1> DEFINE q == a \div m   r == a % m
  <1>2. a + d = m * q + (r + d) /\ r + d \in Nat /\ r + d < m
    <2>1. m * q \in Nat
      BY <1>1
    <2> QED
      BY <1>1, <2>1
  <1>3. (m * q + (r + d)) \div m = q
    BY <1>1, <1>2, Quotient
  <1> QED
    BY <1>2, <1>3

LEMMA DivGrows ==
  ASSUME NEW m \in Nat \ {0}, NEW a \in Nat, NEW b \in Nat, a <= b
  PROVE  a \div m <= b \div m
  <1>1. /\ a = m * (a \div m) + (a % m) /\ a % m \in Nat /\ a \div m \in Nat
        /\ b = m * (b \div m) + (b % m) /\ b % m < m /\ b % m \in Nat /\ b \div m \in Nat
    BY Division
  <1> DEFINE q == a \div m   p == b \div m
  <1>2. CASE p < q
    <2>1. PICK d \in Nat : q = p + 1 + d
      BY <1>1, <1>2
    <2>2. m * q = m * p + m + m * d /\ m * d \in Nat /\ m * p \in Nat
      BY <1>1, <2>1
    <2> HIDE DEF p, q
    <2> QED
      BY <1>1, <2>2 DEF p, q
  <1> QED
    BY <1>1, <1>2

\* The first step from a on that is a multiple, and the steps after it.
LEMMA FirstMultiple ==
  ASSUME NEW m \in Nat \ {0}, NEW a \in Nat, NEW i \in Nat,
         NEW first, first = (m - (a % m)) % m
  PROVE  /\ first \in Nat
         /\ (a + i) % m = 0 <=> i >= first /\ (i - first) % m = 0
  <1>1. a = m * (a \div m) + (a % m) /\ a % m \in Nat /\ a % m < m /\ a \div m \in Nat
    BY Division
  <1> DEFINE q == a \div m   r == a % m
  <1>2. first \in Nat /\ first < m /\ (r = 0 => first = 0) /\ (r # 0 => first = m - r)
    <2>1. CASE r = 0
      <3>1. m - r = m * 1 + 0
        BY <1>1, <2>1
      <3>2. (m * 1 + 0) % m = 0
        BY Quotient
      <3> QED
        BY <2>1, <3>1, <3>2
    <2>2. CASE r # 0
      <3>1. m - r \in Nat /\ m - r < m /\ m - r = m * 0 + (m - r)
        BY <1>1, <2>2
      <3>2. (m * 0 + (m - r)) % m = m - r
        BY <3>1, Quotient
      <3> QED
        BY <2>2, <3>1, <3>2
    <2> QED
      BY <2>1, <2>2
  <1>3. (a + first) % m = 0
    <2>1. CASE r = 0
      BY <1>1, <1>2, <2>1
    <2>2. CASE r # 0
      <3>1. a + first = m * (q + 1)
        <4>1. m * (q + 1) = m * q + m /\ m * q \in Nat
          BY <1>1
        <4> QED
          BY <1>1, <1>2, <2>2, <4>1
      <3> QED
        BY <1>1, <3>1, Quotient
    <2> QED
      BY <2>1, <2>2
  <1>4. ASSUME (a + i) % m = 0 PROVE i >= first
    <2>1. CASE i < first
      <3>1. a + i < a + first /\ a + i \in Nat /\ a + first \in Nat
        BY <1>2, <2>1
      <3> HIDE DEF q, r
      <3>2. (a + i) + m <= a + first
        BY <1>3, <1>4, <3>1, MultipleGap
      <3> QED
        BY <1>2, <3>2
    <2> QED
      BY <1>2, <2>1
  <1>5. i >= first => (a + i) % m = (i - first) % m
    <2>1. ASSUME i >= first PROVE (a + i) % m = (i - first) % m
      <3>1. i - first \in Nat /\ a + i = (a + first) + (i - first) /\ a + first \in Nat
        BY <1>2, <2>1
      <3> DEFINE b == i - first   c == a + first
      <3>2. b \in Nat /\ c \in Nat /\ c % m = 0
        BY <1>3, <3>1
      <3> HIDE DEF b, c, q, r
      <3>3. (c + b) % m = b % m
        BY <3>2, MultipleShifts
      <3> QED
        BY <3>1, <3>3 DEF b, c
    <2> QED
      BY <2>1
  <1> QED
    BY <1>2, <1>4, <1>5

\* The scans that find every word they look for, but for a few of one of them.
Aligned == request.by = "pointers" \/ (request.by = "glacier" /\ Page % request.align = 0)
Exhausts == Aligned /\ (request.by = "pointers" => region.readable = PagesOf(Size))

\* What a scanner has found is the word, wherever it has passed by, unless a hole
\* stopped it.  The windows of one stay aligned, those of the other do not.
Passed ==
    /\ scan.at <= Size /\ Size <= Longest
    /\ ~scan.done \/ request.by # "glacier" => scan.bound = {}
    /\ request.by \in {"glacier", "pointers"} => scan.hits \subseteq Holding
    /\ Aligned => scan.hits \subseteq Words
    /\ request.by = "glacier" => scan.done \/ scan.at % Window = 0
    /\ Exhausts =>
           \A a \in Words : a < scan.at \/ scan.done =>
               a \in scan.hits \/ (request.by = "glacier" /\ Across(a))
    /\ request.by = "aob" => Literals(request.pattern) # {} /\ (~scan.done => scan.hits = {})

ScanInv == ScanTypeOK /\ Passed /\ ScanComplete

LEMMA ScanConstants ==
  /\ Word \in Nat \ {0} /\ Page \in Nat \ {0} /\ Window \in Nat \ {0} /\ Longest \in Nat \ {0}
  /\ Page % Word = 0 /\ Window % Page = 0 /\ Window % Word = 0 /\ Window > Word
  /\ Aligns \subseteq Nat \ {0} /\ Word \in Aligns
  /\ \A m \in Aligns : m + Word <= Window + 1
  <1>1. /\ Word \in Nat \ {0} /\ Page \in Nat \ {0} /\ Window \in Nat \ {0}
        /\ Longest \in Nat \ {0}
        /\ Page % Word = 0 /\ Window % Page = 0 /\ Window > Word
        /\ Aligns \subseteq Nat \ {0} /\ Word \in Aligns
        /\ \A m \in Aligns : m + Word <= Window + 1
    BY ScanAssumption
  <1>2. Window % Word = 0
    BY <1>1, MultipleTrans
  <1> QED
    BY <1>1, <1>2

LEMMA SizeIsNat == ASSUME ScanTypeOK PROVE Size \in Nat
  <1>1. region.bytes \in Seq(Bytes)
    BY DEF ScanTypeOK
  <1> QED
    BY <1>1, LenProperties DEF Size

LEMMA AlignIsNat == ASSUME ScanTypeOK PROVE request.align \in Nat \ {0} /\ request.align \in Aligns
  BY ScanConstants DEF ScanTypeOK

LEMMA NothingBound ==
  /\ Cardinality({}) = 0
  /\ IsFiniteSet({})
  BY FS_EmptySet

LEMMA LeastIs ==
  ASSUME NEW a \in Nat, NEW b \in Nat
  PROVE  /\ Least(a, b) \in Nat /\ Least(a, b) <= a /\ Least(a, b) <= b
         /\ Least(a, b) = a \/ Least(a, b) = b
  BY DEF Least

\* One window is done.
LEMMA WindowDone ==
  ASSUME ScanTypeOK, Passed, ~scan.done, NEW on, on \in Nat,
         NEW more \in SUBSET (0 .. Longest), Goes(on, more), UNCHANGED <<region, request>>
  PROVE  /\ ScanTypeOK'
         /\ scan'.at = Least(on, Size) /\ scan'.hits = scan.hits \cup more
         /\ scan'.done = (on >= Size) /\ scan'.bound = {}
  <1>1. /\ scan \in [at : 0 .. Longest, hits : SUBSET (0 .. Longest), done : BOOLEAN,
                     bound : SUBSET (0 .. Longest)]
        /\ scan.bound = {} /\ Size <= Longest /\ Size \in Nat /\ Longest \in Nat
    BY SizeIsNat, ScanConstants DEF ScanTypeOK, Passed
  <1> DEFINE at == Least(on, Size)
             new == [scan EXCEPT !.at = at, !.hits = scan.hits \cup more, !.done = on >= Size]
  <1>2. scan' = new
    BY DEF Goes
  <1>0. at \in Nat /\ at <= Size
    BY <1>1, LeastIs
  <1> HIDE DEF at
  <1>3. /\ new.at = at /\ new.hits = scan.hits \cup more
        /\ new.done = (on >= Size) /\ new.bound = scan.bound
    BY <1>1
  <1>4. at \in 0 .. Longest
    BY <1>0, <1>1
  <1>5. (on >= Size) \in BOOLEAN
    OBVIOUS
  <1>6. scan.hits \cup more \in SUBSET (0 .. Longest)
    BY <1>1
  <1>7. new \in [at : 0 .. Longest, hits : SUBSET (0 .. Longest), done : BOOLEAN,
                 bound : SUBSET (0 .. Longest)]
    BY <1>1, <1>4, <1>5, <1>6
  <1> HIDE DEF new
  <1>8. Cardinality(new.bound) <= 1
    BY <1>1, <1>3, NothingBound
  <1>9. ScanTypeOK'
    BY <1>2, <1>7, <1>8 DEF ScanTypeOK
  <1> QED
    BY <1>1, <1>2, <1>3, <1>9 DEF at

LEMMA ScanStops ==
  ASSUME ScanTypeOK, Passed, ~scan.done, Stops, UNCHANGED <<region, request>>
  PROVE  /\ ScanTypeOK'
         /\ scan'.at = scan.at /\ scan'.hits = scan.hits /\ scan'.done /\ scan'.bound = {}
  <1>1. /\ scan \in [at : 0 .. Longest, hits : SUBSET (0 .. Longest), done : BOOLEAN,
                     bound : SUBSET (0 .. Longest)]
        /\ scan.bound = {}
    BY DEF ScanTypeOK, Passed
  <1>2. scan' = [scan EXCEPT !.done = TRUE]
    BY DEF Stops
  <1>3. scan' \in [at : 0 .. Longest, hits : SUBSET (0 .. Longest), done : BOOLEAN,
                   bound : SUBSET (0 .. Longest)]
    BY <1>1, <1>2
  <1>4. /\ scan'.at = scan.at /\ scan'.hits = scan.hits
        /\ scan'.done = TRUE /\ scan'.bound = scan.bound
    BY <1>1, <1>2
  <1>5. Cardinality(scan'.bound) <= 1
    BY <1>1, <1>4, NothingBound
  <1>6. ScanTypeOK'
    BY <1>3, <1>5 DEF ScanTypeOK
  <1> QED
    BY <1>1, <1>4, <1>6

\* What is looked for and where does not change as the scan goes on.
LEMMA SameWords ==
  ASSUME UNCHANGED <<region, request>>
  PROVE  /\ Words' = Words /\ Holding' = Holding /\ Size' = Size
         /\ Aligned' = Aligned /\ Exhausts' = Exhausts
         /\ \A a : Passes(a)' = Passes(a) /\ Across(a)' = Across(a)
         /\ \A p, a : MatchesAt(p, a)' = MatchesAt(p, a)
  <1>1. /\ Size' = Size /\ \A a : ByteAt(a)' = ByteAt(a)
        /\ \A a, n : ReadableAll(a, n)' = ReadableAll(a, n)
    BY DEF Size, ByteAt, ReadableAll
  <1>2. \A a : HoldsNeedle(a)' = HoldsNeedle(a)
    BY <1>1 DEF HoldsNeedle
  <1>3. Holding' = Holding
    BY <1>1, <1>2 DEF Holding
  <1>4. Words' = Words
    BY <1>3 DEF Words
  <1>5. Aligned' = Aligned
    BY DEF Aligned
  <1>6. Exhausts' = Exhausts
    BY <1>1, <1>5 DEF Exhausts, PagesOf
  <1>7. \A a : Across(a)' = Across(a)
    BY <1>1 DEF Across
  <1>8. \A a : Passes(a)' = Passes(a)
    BY <1>1 DEF Passes
  <1>9. \A p, a : MatchesAt(p, a)' = MatchesAt(p, a)
    BY <1>1 DEF MatchesAt
  <1> QED
    BY <1>1, <1>3, <1>4, <1>5, <1>6, <1>7, <1>8, <1>9

\* A word at a multiple of its width lies in one page, and in one window.
LEMMA InOne ==
  ASSUME NEW m \in Nat \ {0}, m % Word = 0, NEW a \in Nat, a % Word = 0
  PROVE  a \div m = (a + Word - 1) \div m
  <1> DEFINE q == a \div m   r == a % m   w == m * q
  <1>1. a = w + r /\ r \in Nat /\ r < m /\ q \in Nat /\ w \in Nat
    BY Division
  <1>2. w % Word = 0
    <2>1. w % m = 0
      BY <1>1, Quotient
    <2> HIDE DEF w
    <2> QED
      BY <1>1, <2>1, MultipleTrans, ScanConstants
  <1> HIDE DEF q, w, r
  <1>3. r % Word = 0
    <2>1. (w + r) % Word = r % Word
      BY <1>1, <1>2, MultipleShifts, ScanConstants
    <2>2. (w + r) % Word = 0
      BY <1>1
    <2> QED
      BY <2>1, <2>2
  <1>4. r + Word <= m
    BY <1>1, <1>3, MultipleGap, ScanConstants
  <1> DEFINE d == Word - 1
  <1>5. d \in Nat /\ (a % m) + d < m /\ a + Word - 1 = a + d
    BY <1>1, <1>4, ScanConstants DEF r
  <1> HIDE DEF d
  <1>6. (a + d) \div m = a \div m
    BY <1>5, SamePage
  <1> QED
    BY <1>5, <1>6

LEMMA NeverAcross ==
  ASSUME NEW a \in Nat, a % Word = 0
  PROVE  ~Across(a)
  <1>1. a \div Window = (a + Word - 1) \div Window /\ a \div Page = (a + Word - 1) \div Page
    BY InOne, ScanConstants
  <1> QED
    BY <1>1 DEF Across

\* What has been passed by when a scan ends is all of it.
Unbound == scan.bound = {} /\ request.by # "aob"

LEMMA PassedAll ==
  ScanTypeOK /\ Passed /\ Unbound => ScanComplete
  <1> SUFFICES ASSUME ScanTypeOK, Passed, scan.bound = {}, request.by # "aob", scan.done
               PROVE  ScanComplete
    BY DEF ScanComplete, Unbound
  <1>1. request.by = "glacier" /\ Page % request.align = 0 =>
            scan.hits \subseteq Words /\ \A a \in Words \ scan.hits : Across(a)
    BY DEF Passed, Aligned, Exhausts
  <1>2. request.by = "glacier" /\ request.align = Word => Words = scan.hits
    <2> SUFFICES ASSUME request.by = "glacier", request.align = Word PROVE Words = scan.hits
      OBVIOUS
    <2>1. scan.hits \subseteq Words /\ \A a \in Words \ scan.hits : Across(a)
      BY <1>1, ScanConstants
    <2>2. \A a \in Words : a \in Nat /\ a % Word = 0
      BY SizeIsNat, ScanConstants DEF Words, Holding
    <2> QED
      BY <2>1, <2>2, NeverAcross
  <1>3. request.by = "pointers" => scan.hits \subseteq Words
    BY DEF Passed, Aligned
  <1>4. request.by = "pointers" /\ region.readable = PagesOf(Size) => Words \subseteq scan.hits
    BY DEF Passed, Aligned, Exhausts
  <1>5. request.by \in {"glacier", "pointers"} => scan.hits \subseteq Holding
    BY DEF Passed
  <1> QED
    BY <1>1, <1>2, <1>3, <1>4, <1>5 DEF ScanComplete

LEMMA PassedAllNext == ScanTypeOK' /\ Passed' /\ Unbound' => ScanComplete'
  BY PassedAll, PTL

LEMMA Window_n ==
  ASSUME ScanTypeOK, Passed, NEW n, n = Least(Size - scan.at, Window)
  PROVE  /\ n \in Nat /\ scan.at \in Nat /\ Size \in Nat /\ scan.at + n <= Size
         /\ n <= Window
         /\ n = Window \/ scan.at + n = Size
         /\ n < Window => scan.at + n = Size
  <1>1. /\ scan.at \in Nat /\ Size \in Nat /\ scan.at <= Size /\ Window \in Nat
        /\ Longest \in Nat
    BY SizeIsNat, ScanConstants DEF ScanTypeOK, Passed
  <1>2. CASE Size - scan.at < Window
    BY <1>1, <1>2 DEF Least
  <1>3. CASE ~(Size - scan.at < Window)
    BY <1>1, <1>3 DEF Least
  <1> QED
    BY <1>2, <1>3

LEMMA StepsAre ==
  ASSUME NEW start \in Nat, NEW step, NEW n \in Nat, NEW i
  PROVE  i \in Steps(start, step, n) <=>
             i \in Nat /\ i >= start /\ i < n /\ i + Word <= n /\ (i - start) % step = 0
  BY ScanConstants DEF Steps

LEMMA Ue5Passes ==
  ASSUME ScanInv, Ue5Window
  PROVE  ScanInv'
  <1> DEFINE n == Least(Size - scan.at, Window)
             on == IF scan.at + n < Size THEN n - (Word - 1) ELSE n
             found == {i \in Steps(0, request.align, n) :
                       /\ HoldsNeedle(scan.at + i)
                       /\ request.align = Word \/ (scan.at + i) % request.align = 0}
             more == {scan.at + i : i \in found}
  <1>1. /\ ScanTypeOK /\ Passed /\ request.by = "ue5" /\ ~scan.done
        /\ UNCHANGED <<region, request>>
        /\ IF ReadableAll(scan.at, n) THEN Goes(scan.at + on, more) ELSE Stops
    BY DEF ScanInv, Ue5Window, Scanning
  <1>2. /\ n \in Nat /\ scan.at \in Nat /\ Size \in Nat /\ scan.at + n <= Size
        /\ n < Window => scan.at + n = Size
    BY <1>1, Window_n
  <1>3. scan.at + on \in Nat
    <2>1. CASE scan.at + n < Size
      <3>1. ~ (n < Window)
        BY <1>2, <2>1
      <3> HIDE DEF n
      <3> QED
        BY <1>2, <2>1, <3>1, ScanConstants
    <2>2. CASE ~ (scan.at + n < Size)
      BY <1>2, <2>2
    <2> QED
      BY <2>1, <2>2
  <1>4. more \in SUBSET (0 .. Longest)
    <2>1. ASSUME NEW i \in found PROVE scan.at + i \in 0 .. Longest
      <3> HIDE DEF n
      <3>1. i \in Steps(0, request.align, n)
        OBVIOUS
      <3>2. i \in Nat /\ i < n
        BY <3>1, <1>2, StepsAre
      <3>3. Size <= Longest /\ Longest \in Nat
        BY <1>1, ScanConstants DEF Passed
      <3> QED
        BY <1>2, <3>2, <3>3
    <2> QED
      BY <2>1
  <1> HIDE DEF n, on, found, more
  <1>5. /\ ScanTypeOK'
        /\ scan'.at \in Nat /\ scan'.at <= Size /\ scan'.bound = {}
    <2>1. CASE ReadableAll(scan.at, n)
      <3>1. Goes(scan.at + on, more)
        BY <1>1, <2>1
      <3> DEFINE next == scan.at + on
      <3>2. next \in Nat /\ Goes(next, more)
        BY <1>3, <3>1
      <3> HIDE DEF next
      <3>3. ScanTypeOK' /\ scan'.at = Least(next, Size) /\ scan'.bound = {}
        BY <1>1, <1>4, <3>2, WindowDone
      <3>4. Least(next, Size) \in Nat /\ Least(next, Size) <= Size
        BY <1>2, <3>2, LeastIs
      <3> QED
        BY <3>3, <3>4
    <2>2. CASE ~ ReadableAll(scan.at, n)
      <3>1. scan.at <= Size
        BY <1>1 DEF Passed
      <3> QED
        BY <1>1, <1>2, <2>2, <3>1, ScanStops
    <2> QED
      BY <2>1, <2>2
  <1>6. request'.by = "ue5" /\ Size' = Size /\ Size <= Longest /\ ~Aligned'
    BY <1>1, SameWords DEF Passed, Aligned
  <1>7. Passed'
    BY <1>5, <1>6 DEF Passed, Exhausts
  <1>8. ScanComplete'
    BY <1>5, <1>6, <1>7, PassedAllNext DEF Unbound
  <1> QED
    BY <1>5, <1>7, <1>8 DEF ScanInv

\* What is left to see after a window, when that window was seen through.
LEMMA SeenThrough ==
  ASSUME ScanInv, ~scan.done, UNCHANGED <<region, request>>,
         request.by \in {"glacier", "pointers"},
         NEW on \in Nat, NEW more \in SUBSET (0 .. Longest), Goes(on, more),
         more \subseteq Holding, Aligned => more \subseteq Words,
         request.by = "glacier" => on >= Size \/ on % Window = 0,
         Exhausts => \A a \in Words : scan.at <= a /\ a < on =>
                         a \in more \/ (request.by = "glacier" /\ Across(a))
  PROVE  ScanInv'
  <1>1. /\ ScanTypeOK /\ Passed
    BY DEF ScanInv
  <1>2. /\ ScanTypeOK'
        /\ scan'.at = Least(on, Size) /\ scan'.hits = scan.hits \cup more
        /\ scan'.done = (on >= Size) /\ scan'.bound = {}
    BY <1>1, WindowDone
  <1>3. /\ request' = request /\ region' = region /\ Size' = Size /\ Words' = Words
        /\ Holding' = Holding /\ Aligned' = Aligned /\ Exhausts' = Exhausts
        /\ \A a : Across(a)' = Across(a)
        /\ Size \in Nat /\ Size <= Longest /\ scan.at \in Nat
    BY <1>1, SameWords, SizeIsNat, Window_n DEF Passed
  <1>a. scan'.at \in Nat /\ scan'.at <= Size /\ scan'.at <= on
    BY <1>2, <1>3, LeastIs
  <1>4. \A a \in Words : a \in Nat /\ a < Size
    BY <1>3, ScanConstants DEF Words, Holding
  <1>5. scan'.hits \subseteq Holding /\ (Aligned => scan'.hits \subseteq Words)
    BY <1>1, <1>2 DEF Passed
  <1>6. ASSUME Exhausts, NEW a \in Words, a < scan'.at \/ scan'.done
        PROVE  a \in scan'.hits \/ (request.by = "glacier" /\ Across(a))
    <2>1. a \in Nat /\ a < on
      <3>1. a \in Nat /\ a < Size
        BY <1>4, <1>6
      <3>2. CASE a < scan'.at
        BY <1>a, <3>1, <3>2
      <3>3. CASE scan'.done
        <4>1. on >= Size
          BY <1>2, <3>3
        <4> QED
          BY <1>3, <3>1, <4>1
      <3> QED
        BY <1>6, <3>2, <3>3
    <2>2. CASE a < scan.at
      <3>1. a \in scan.hits \/ (request.by = "glacier" /\ Across(a))
        BY <1>1, <1>6, <2>2 DEF Passed
      <3> QED
        BY <1>2, <3>1
    <2>3. CASE ~ (a < scan.at)
      <3>1. a \in more \/ (request.by = "glacier" /\ Across(a))
        BY <1>3, <1>6, <2>1, <2>3
      <3> QED
        BY <1>2, <3>1
    <2> QED
      BY <2>2, <2>3
  <1>7. request.by = "glacier" => scan'.done \/ scan'.at % Window = 0
    <2>1. ASSUME ~(on >= Size) PROVE Least(on, Size) = on
      BY <1>3, <2>1 DEF Least
    <2> QED
      BY <1>2, <2>1
  <1>9. Passed'
    BY <1>2, <1>a, <1>3, <1>5, <1>6, <1>7 DEF Passed
  <1>10. ScanComplete'
    BY <1>2, <1>3, <1>9, PassedAllNext DEF Unbound
  <1> QED
    BY <1>2, <1>9, <1>10 DEF ScanInv

\* The bytes from..from+len-1 are read, if they lie in one that is.
LEMMA ReadWithin ==
  ASSUME NEW from \in Nat, NEW len \in Nat, NEW i \in Nat, NEW k \in Nat, i + k <= len,
         ReadableAll(from, len)
  PROVE  ReadableAll(from + i, k)
  <1>1. ASSUME NEW a \in (from + i) .. (from + i) + k - 1 PROVE a \in from .. from + len - 1
    BY <1>1
  <1> QED
    BY <1>1 DEF ReadableAll

LEMMA SpanHitsAre ==
  ASSUME NEW from \in Nat, NEW to \in Nat, NEW a
  PROVE  a \in SpanHits(from, to) <=>
             /\ a \in Nat /\ from <= a /\ a + Word <= to
             /\ (a - from) % request.align = 0 /\ HoldsNeedle(a)
  BY ScanConstants DEF SpanHits

\* Counted from a multiple of the alignment, steps of it are its multiples.
LEMMA StepsAligned ==
  ASSUME ScanTypeOK, NEW from \in Nat, NEW a \in Nat, from <= a, from % request.align = 0
  PROVE  (a - from) % request.align = 0 <=> a % request.align = 0
  <1> DEFINE m == request.align   b == a - from
  <1>1. m \in Nat \ {0} /\ b \in Nat /\ from + b = a
    BY AlignIsNat
  <1>2. from % m = 0
    OBVIOUS
  <1> HIDE DEF m, b
  <1>3. (from + b) % m = b % m
    BY <1>1, <1>2, MultipleShifts
  <1> QED
    BY <1>1, <1>3 DEF m, b

\* What a span that starts and ends within what can be read yields.
LEMMA SpanSound ==
  ASSUME ScanTypeOK, NEW from \in Nat, NEW to \in Nat, to <= Size,
         \A b \in from .. to - 1 : b \div Page \in region.readable,
         from % Page = 0
  PROVE  /\ SpanHits(from, to) \subseteq Holding
         /\ Page % request.align = 0 => SpanHits(from, to) \subseteq Words
  <1> SUFFICES ASSUME NEW a \in SpanHits(from, to)
               PROVE  a \in Holding /\ (Page % request.align = 0 => a \in Words)
    OBVIOUS
  <1>1. /\ a \in Nat /\ from <= a /\ a + Word <= to
        /\ (a - from) % request.align = 0 /\ HoldsNeedle(a)
    BY SpanHitsAre
  <1>2. Size \in Nat /\ Word \in Nat \ {0} /\ Page \in Nat \ {0}
    BY SizeIsNat, ScanConstants
  <1>3. ReadableAll(a, Word)
    <2>1. ASSUME NEW b \in a .. a + Word - 1 PROVE b \in from .. to - 1
      BY <1>1, <1>2
    <2> QED
      BY <2>1 DEF ReadableAll
  <1>4. a \in Holding
    BY <1>1, <1>2, <1>3 DEF Holding
  <1>5. ASSUME Page % request.align = 0 PROVE a % request.align = 0
    <2>1. from % request.align = 0
      BY <1>2, <1>5, AlignIsNat, MultipleTrans
    <2> QED
      BY <1>1, <2>1, StepsAligned
  <1> QED
    BY <1>4, <1>5 DEF Words

\* The pages a window that cannot be read is read again by.
WindowPages(to) == {p \in region.readable : scan.at <= p * Page /\ p * Page < to}
PageHits(p, to) == SpanHits(p * Page, Least(p * Page + Page, to))
WindowHits(to) ==
    IF ReadableAll(scan.at, to - scan.at) THEN SpanHits(scan.at, to)
    ELSE UNION {PageHits(p, to) : p \in WindowPages(to)}

\* One page of it.
LEMMA PageIs ==
  ASSUME ScanTypeOK, NEW to \in Nat, to <= Size, NEW p \in WindowPages(to)
  PROVE  /\ p \in Nat /\ p * Page \in Nat /\ (p * Page) % Page = 0
         /\ Least(p * Page + Page, to) \in Nat /\ Least(p * Page + Page, to) <= to
         /\ \A b \in p * Page .. Least(p * Page + Page, to) - 1 : b \div Page \in region.readable
  <1>1. Page \in Nat \ {0} /\ Longest \in Nat \ {0}
    BY ScanConstants
  <1>2. p \in region.readable /\ p \in Nat
    <2>1. region.readable \subseteq PagesOf(Longest)
      BY DEF ScanTypeOK
    <2> QED
      BY <2>1 DEF WindowPages, PagesOf
  <1> DEFINE w == p * Page   last == Least(w + Page, to)
  <1>3. w = Page * p /\ w \in Nat /\ w % Page = 0
    <2>1. w = Page * p /\ w \in Nat
      BY <1>1, <1>2
    <2>2. (Page * p) % Page = 0
      BY <1>1, <1>2, Quotient
    <2> HIDE DEF w
    <2> QED
      BY <2>1, <2>2
  <1> HIDE DEF w
  <1>4. last \in Nat /\ last <= to /\ last <= w + Page
    <2>1. w + Page \in Nat
      BY <1>1, <1>3
    <2> QED
      BY <2>1, LeastIs
  <1> HIDE DEF last
  <1>5. ASSUME NEW b \in w .. last - 1 PROVE b \div Page \in region.readable
    <2> DEFINE r == b - w
    <2>1. r \in Nat /\ r < Page /\ b = Page * p + r
      BY <1>1, <1>3, <1>4
    <2> HIDE DEF r
    <2>2. (Page * p + r) \div Page = p
      BY <1>1, <1>2, <2>1, Quotient
    <2> QED
      BY <1>2, <2>1, <2>2
  <1> QED
    BY <1>2, <1>3, <1>4, <1>5 DEF w, last

\* A window of the scanner that reads page by page around a hole yields the word
\* only, and every word in it that lies in what was read at a time.
LEMMA GlacierFinds ==
  ASSUME ScanInv, request.by = "glacier", ~scan.done,
         NEW to \in Nat, scan.at <= to, to = Least(scan.at + Window, Size)
  PROVE  /\ WindowHits(to) \subseteq Holding
         /\ Page % request.align = 0 => WindowHits(to) \subseteq Words
         /\ Page % request.align = 0 =>
              \A a \in Words : scan.at <= a /\ a < to => a \in WindowHits(to) \/ Across(a)
  <1> DEFINE at == scan.at
  <1>1. /\ ScanTypeOK /\ Passed /\ at % Window = 0
    BY DEF ScanInv, Passed
  <1>w. /\ Word \in Nat \ {0} /\ Page \in Nat \ {0} /\ Window \in Nat \ {0}
        /\ Longest \in Nat /\ Window % Page = 0
    BY ScanConstants
  <1>2. at \in Nat /\ Size \in Nat /\ to <= Size /\ to <= at + Window
        /\ (to = at + Window \/ to = Size)
    <2>1. at \in Nat /\ Size \in Nat
      BY <1>1, <1>w, SizeIsNat DEF ScanTypeOK
    <2>2. at + Window \in Nat
      BY <1>w, <2>1
    <2> HIDE DEF at
    <2>3. to = Least(at + Window, Size)
      BY DEF at
    <2> QED
      BY <2>1, <2>2, <2>3, LeastIs
  <1> HIDE DEF at
  <1>3. at % Page = 0
    BY <1>1, <1>2, <1>w, MultipleTrans
  <1>4. CASE ReadableAll(at, to - at)
    <2>0. WindowHits(to) = SpanHits(at, to)
      BY <1>4 DEF WindowHits, at
    <2>1. \A b \in at .. to - 1 : b \div Page \in region.readable
      BY <1>2, <1>4 DEF ReadableAll
    <2>2. /\ WindowHits(to) \subseteq Holding
          /\ Page % request.align = 0 => WindowHits(to) \subseteq Words
      BY <1>1, <1>2, <1>3, <2>0, <2>1, SpanSound
    <2>3. ASSUME Page % request.align = 0, NEW a \in Words, at <= a, a < to, ~Across(a)
          PROVE  a \in WindowHits(to)
      <3>1. a \in Nat /\ a + Word <= Size /\ a % request.align = 0 /\ HoldsNeedle(a)
        BY <1>2, <1>w, <2>3 DEF Words, Holding
      <3>2. a + Word <= to
        <4>1. CASE to = Size
          BY <3>1, <4>1
        <4>2. CASE to = at + Window
          <5>1. a \div Window = (a + Word - 1) \div Window
            BY <2>3 DEF Across
          <5> DEFINE q == a \div Window   l == a + Word - 1
          <5>2. /\ a = Window * q + (a % Window) /\ a % Window \in Nat /\ a % Window < Window
                /\ q \in Nat
            BY <1>w, <3>1, Division
          <5>3. l \in Nat /\ l = Window * (l \div Window) + (l % Window)
                /\ l % Window \in Nat /\ l % Window < Window
            BY <1>w, <3>1, Division
          <5>4. PICK k \in Nat : at = Window * k
            BY <1>1, <1>2, <1>w, MultipleIs
          <5> DEFINE w == Window * q
          <5>5. w \in Nat
            BY <1>w, <5>2
          <5>6. w <= at
            <6>1. CASE at < w
              <7>1. at + Window <= w
                BY <1>w, <5>2, <5>4, <6>1, QuotientGap
              <7> HIDE DEF w, q
              <7> QED
                BY <1>2, <1>w, <2>3, <3>1, <4>2, <5>2, <5>5, <7>1 DEF w
            <6> HIDE DEF w
            <6> QED
              BY <1>2, <5>5, <6>1
          <5>7. l < w + Window
            <6>1. l \div Window = q
              BY <5>1
            <6>2. l = w + (l % Window)
              BY <5>3, <6>1
            <6> HIDE DEF w, l
            <6> QED
              BY <1>w, <5>3, <5>5, <6>2
          <5> HIDE DEF w
          <5> QED
            BY <1>2, <1>w, <3>1, <4>2, <5>5, <5>6, <5>7
        <4> QED
          BY <1>2, <4>1, <4>2
      <3>3. (a - at) % request.align = 0
        <4>1. at % request.align = 0
          BY <1>1, <1>2, <1>3, <1>w, <2>3, AlignIsNat, MultipleTrans
        <4> QED
          BY <1>1, <1>2, <2>3, <3>1, <4>1, StepsAligned
      <3> QED
        BY <1>2, <2>0, <2>3, <3>1, <3>2, <3>3, SpanHitsAre
    <2> QED
      BY <2>2, <2>3 DEF at
  <1>5. CASE ~ReadableAll(at, to - at)
    <2>0. WindowHits(to) = UNION {PageHits(p, to) : p \in WindowPages(to)}
      BY <1>5 DEF WindowHits, at
    <2>1. ASSUME NEW p \in WindowPages(to)
          PROVE  /\ PageHits(p, to) \subseteq Holding
                 /\ Page % request.align = 0 => PageHits(p, to) \subseteq Words
      <3> DEFINE from == p * Page   last == Least(p * Page + Page, to)
      <3>1. /\ from \in Nat /\ from % Page = 0 /\ last \in Nat /\ last <= Size
            /\ \A b \in from .. last - 1 : b \div Page \in region.readable
        <4>1. /\ from \in Nat /\ from % Page = 0 /\ last \in Nat /\ last <= to
              /\ \A b \in from .. last - 1 : b \div Page \in region.readable
          BY <1>1, <1>2, PageIs
        <4> HIDE DEF from, last
        <4> QED
          BY <1>2, <4>1
      <3>2. PageHits(p, to) = SpanHits(from, last)
        BY DEF PageHits
      <3> HIDE DEF from, last
      <3> QED
        BY <1>1, <3>1, <3>2, SpanSound
    <2>3. ASSUME Page % request.align = 0, NEW a \in Words, at <= a, a < to, ~Across(a)
          PROVE  a \in WindowHits(to)
      <3>1. /\ a \in Nat /\ a + Word <= Size /\ a % request.align = 0 /\ HoldsNeedle(a)
            /\ ReadableAll(a, Word)
        BY <1>2, <1>w, <2>3 DEF Words, Holding
      <3> DEFINE p == a \div Page   w == p * Page   last == Least(w + Page, to)
                 l == a + Word - 1
      <3>2. /\ p \in Nat /\ w = Page * p /\ w \in Nat /\ a = w + (a % Page)
            /\ a % Page \in Nat /\ a % Page < Page
        <4>1. a = Page * p + (a % Page) /\ a % Page \in Nat /\ a % Page < Page /\ p \in Nat
          BY <1>w, <3>1, Division
        <4> HIDE DEF p
        <4> QED
          BY <1>w, <4>1
      <3>3. p \in region.readable
        <4>1. a \in a .. a + Word - 1
          BY <1>w, <3>1
        <4> QED
          BY <3>1, <4>1 DEF ReadableAll
      <3>4. at <= w
        <4>1. PICK k \in Nat : at = Page * k
          BY <1>2, <1>3, <1>w, MultipleIs
        <4>2. CASE w < at
          <5>1. Page * p + Page <= Page * k
            <6> HIDE DEF p
            <6> QED
              BY <1>w, <3>2, <4>1, <4>2, QuotientGap
          <5> HIDE DEF p, w
          <5> QED
            BY <1>2, <1>w, <2>3, <3>1, <3>2, <4>1, <5>1
        <4> HIDE DEF w
        <4> QED
          BY <1>2, <3>2, <4>2
      <3>5. p \in WindowPages(to)
        <4>1. w < to
          <5> HIDE DEF w, p
          <5> QED
            BY <2>3, <3>1, <3>2
        <4> QED
          BY <3>3, <3>4, <4>1 DEF WindowPages, at
      <3>6. a \div Page = l \div Page
        <4>1. a \div Window = l \div Window
          BY <2>3 DEF Across
        <4> DEFINE q == a \div Window   v == q * Window
        <4>2. v = at
          <5>1. PICK k \in Nat : at = Window * k
            BY <1>1, <1>2, <1>w, MultipleIs
          <5> DEFINE d == a - at
          <5>2. d \in Nat /\ d < Window /\ a = Window * k + d
            BY <1>2, <1>w, <2>3, <3>1, <5>1
          <5> HIDE DEF d
          <5>3. q = k
            BY <1>w, <5>1, <5>2, Quotient
          <5> HIDE DEF q
          <5> QED
            BY <1>w, <5>1, <5>3
        <4>3. Least(v + Window, Size) - v = to - at
          BY <4>2 DEF at
        <4>4. ~ReadableAll(v, Least(v + Window, Size) - v)
          BY <1>5, <4>2, <4>3
        <4> QED
          BY <2>3, <4>4 DEF Across
      <3>7. l < w + Page
        <4>1. /\ l \in Nat /\ l = Page * (l \div Page) + (l % Page) /\ l % Page \in Nat
              /\ l % Page < Page
          BY <1>w, <3>1, Division
        <4> DEFINE e == l % Page
        <4>2. l = w + e /\ e \in Nat /\ e < Page
          BY <3>2, <3>6, <4>1
        <4> HIDE DEF e, l, p, w
        <4> QED
          BY <1>w, <3>2, <4>2
      <3>8. a + Word <= to
        <4>1. CASE to = Size
          BY <3>1, <4>1
        <4>2. CASE to = at + Window
          <5>1. (at + Window) % Page = 0
            BY <1>2, <1>3, <1>w, MultipleShifts
          <5> DEFINE e == at + Window
          <5>a. e \in Nat /\ e % Page = 0
            <6>1. Window % Page = 0
              BY <1>w
            <6> QED
              BY <1>2, <1>w, <5>1, <6>1
          <5> HIDE DEF e
          <5>b. PICK k \in Nat : e = Page * k
            BY <1>w, <5>a, MultipleIs
          <5>2. at + Window = Page * k
            BY <5>b DEF e
          <5>3. Page * p + Page <= Page * k
            <6>1. Page * p < Page * k
              <7> HIDE DEF p, w
              <7> QED
                BY <1>2, <1>w, <2>3, <3>1, <3>2, <4>2, <5>2
            <6> HIDE DEF p
            <6> QED
              BY <1>w, <3>2, <5>2, <6>1, QuotientGap
          <5> HIDE DEF p, w
          <5> QED
            BY <1>2, <1>w, <3>1, <3>2, <3>7, <4>2, <5>2, <5>3
        <4> QED
          BY <1>2, <4>1, <4>2
      <3>9. last \in Nat /\ a + Word <= last
        <4>1. last = w + Page \/ last = to
          BY <1>w, <3>2, LeastIs
        <4> HIDE DEF w, p, last
        <4> QED
          BY <1>w, <3>1, <3>2, <3>7, <3>8, <4>1
      <3>10. (a - w) % request.align = 0
        <4>1. w % Page = 0
          <5>1. (Page * p) % Page = 0
            <6> HIDE DEF p
            <6> QED
              BY <1>w, <3>2, Quotient
          <5> HIDE DEF w
          <5> QED
            BY <3>2, <5>1
        <4> HIDE DEF w, p
        <4>2. w % request.align = 0
          BY <1>1, <1>w, <2>3, <3>2, <4>1, AlignIsNat, MultipleTrans
        <4>3. w <= a
          BY <3>2
        <4> QED
          BY <1>1, <3>1, <3>2, <4>2, <4>3, StepsAligned
      <3>11. a \in SpanHits(w, last)
        <4> HIDE DEF w, p, last
        <4>1. w <= a
          BY <3>2
        <4> QED
          BY <3>1, <3>2, <3>9, <3>10, <4>1, SpanHitsAre
      <3>12. a \in PageHits(p, to)
        BY <3>11 DEF PageHits
      <3> QED
        BY <2>0, <3>5, <3>12
    <2> QED
      BY <2>0, <2>1, <2>3 DEF at
  <1> QED
    BY <1>4, <1>5

LEMMA GlacierPasses ==
  ASSUME ScanInv, GlacierWindow
  PROVE  ScanInv'
  <1> DEFINE to == Least(scan.at + Window, Size)
  <1>1. /\ ScanTypeOK /\ Passed /\ request.by = "glacier" /\ ~scan.done
        /\ UNCHANGED <<region, request>>
        /\ Goes(to, WindowHits(to))
    BY DEF ScanInv, GlacierWindow, Scanning, WindowHits, WindowPages, PageHits
  <1>2. /\ scan.at \in Nat /\ Size \in Nat /\ scan.at <= Size /\ Size <= Longest
        /\ Window \in Nat \ {0} /\ Longest \in Nat /\ Word \in Nat \ {0}
        /\ scan.at % Window = 0
    BY <1>1, SizeIsNat, ScanConstants DEF ScanTypeOK, Passed
  <1>3. to \in Nat /\ scan.at <= to /\ (to = Size \/ to = scan.at + Window)
    <2>1. scan.at + Window \in Nat
      BY <1>2
    <2>2. to \in Nat /\ (to = Size \/ to = scan.at + Window)
      BY <1>2, <2>1, LeastIs
    <2> HIDE DEF to
    <2> QED
      BY <1>2, <2>2
  <1>4. to = Least(scan.at + Window, Size)
    OBVIOUS
  <1> HIDE DEF to
  <1>5. /\ WindowHits(to) \subseteq Holding
        /\ Aligned => WindowHits(to) \subseteq Words
        /\ Exhausts =>
             \A a \in Words : scan.at <= a /\ a < to =>
                 a \in WindowHits(to) \/ (request.by = "glacier" /\ Across(a))
    BY <1>1, <1>3, <1>4, GlacierFinds DEF Aligned, Exhausts
  <1>6. WindowHits(to) \in SUBSET (0 .. Longest)
    <2>1. Holding \subseteq 0 .. Longest
      BY <1>2 DEF Holding
    <2> QED
      BY <1>5, <2>1
  <1>7. to >= Size \/ to % Window = 0
    <2>1. CASE to = Size
      BY <1>2, <2>1
    <2>2. CASE to = scan.at + Window
      <3>1. Window % Window = 0
        <4>1. Window = Window * 1
          BY <1>2
        <4>2. (Window * 1) % Window = 0
          BY <1>2, Quotient
        <4> QED
          BY <4>1, <4>2
      <3>2. (scan.at + Window) % Window = Window % Window
        <4> DEFINE at == scan.at
        <4>1. at \in Nat /\ at % Window = 0
          BY <1>2
        <4> HIDE DEF at
        <4>2. (at + Window) % Window = Window % Window
          BY <1>2, <4>1, MultipleShifts
        <4> QED
          BY <4>2 DEF at
      <3> QED
        BY <2>2, <3>1, <3>2
    <2> QED
      BY <1>3, <2>1, <2>2
  <1> QED
    BY <1>1, <1>3, <1>5, <1>6, <1>7, SeenThrough

LEMMA PointerFinds ==
  ASSUME ScanInv, request.by = "pointers", ~scan.done,
         NEW n, n = Least(Size - scan.at, Window), ReadableAll(scan.at, n),
         NEW first, first = (request.align - (scan.at % request.align)) % request.align,
         NEW found, found = {i \in Steps(first, request.align, n) : HoldsNeedle(scan.at + i)}
  PROVE  /\ {scan.at + i : i \in found} \subseteq Words
         /\ \A a \in Words : scan.at <= a /\ a + Word <= scan.at + n =>
                a \in {scan.at + i : i \in found}
  <1> DEFINE at == scan.at   step == request.align
  <1>1. ScanTypeOK /\ Passed /\ step \in Nat \ {0}
    BY AlignIsNat DEF ScanInv
  <1>2. n \in Nat /\ at \in Nat /\ Size \in Nat /\ at + n <= Size
    BY <1>1, Window_n
  <1> HIDE DEF at, step
  <1>3. /\ first \in Nat
        /\ \A i \in Nat : (at + i) % step = 0 <=> i >= first /\ (i - first) % step = 0
    <2>1. first = (step - (at % step)) % step
      BY DEF at, step
    <2>2. (step - (at % step)) % step \in Nat
      BY <1>1, <1>2, FirstMultiple
    <2> QED
      BY <1>1, <1>2, <2>1, <2>2, FirstMultiple
  <1>4. ASSUME NEW i \in found PROVE at + i \in Words
    <2>1. i \in Steps(first, step, n) /\ HoldsNeedle(at + i)
      BY <1>4 DEF at, step
    <2>2. i \in Nat /\ i >= first /\ i + Word <= n /\ (i - first) % step = 0
      BY <1>2, <1>3, <2>1, StepsAre
    <2>3. at + i \in 0 .. Size - Word
      BY <1>2, <2>2, ScanConstants
    <2>4. (at + i) % step = 0
      BY <1>3, <2>2
    <2>5. ReadableAll(at + i, Word)
      BY <1>2, <2>2, ReadWithin, ScanConstants DEF at
    <2> QED
      BY <2>1, <2>3, <2>4, <2>5 DEF Words, Holding, step
  <1>5. ASSUME NEW a \in Words, at <= a, a + Word <= at + n
        PROVE  a \in {at + i : i \in found}
    <2> DEFINE i == a - at
    <2>1. a \in Nat /\ a % step = 0 /\ HoldsNeedle(a)
      BY <1>5 DEF Words, Holding, step
    <2>2. i \in Nat /\ i < n /\ i + Word <= n /\ at + i = a
      BY <1>2, <1>5, <2>1, ScanConstants
    <2> HIDE DEF i
    <2>3. i >= first /\ (i - first) % step = 0
      BY <1>3, <2>1, <2>2
    <2>4. i \in Steps(first, step, n)
      BY <1>2, <1>3, <2>2, <2>3, StepsAre
    <2>5. i \in found
      BY <2>1, <2>2, <2>4 DEF at, step
    <2> QED
      BY <2>2, <2>5
  <1> QED
    BY <1>4, <1>5 DEF at

\* Where every page can be read, every window can.
LEMMA AllReadable ==
  ASSUME ScanTypeOK, Passed, NEW n, n = Least(Size - scan.at, Window),
         region.readable = PagesOf(Size)
  PROVE  ReadableAll(scan.at, n)
  <1>1. n \in Nat /\ scan.at \in Nat /\ Size \in Nat /\ scan.at + n <= Size
    BY Window_n
  <1>2. ASSUME NEW a \in scan.at .. scan.at + n - 1
        PROVE  a \div Page \in region.readable
    <2>1. a \in Nat /\ Size - 1 \in Nat /\ a <= Size - 1
      BY <1>1
    <2>2. a \div Page <= (Size - 1) \div Page
      BY <2>1, DivGrows, ScanConstants
    <2>3. a \div Page \in Nat /\ (Size - 1) \div Page \in Nat
      BY <2>1, Division, ScanConstants
    <2> QED
      BY <2>2, <2>3 DEF PagesOf
  <1> QED
    BY <1>2 DEF ReadableAll

LEMMA PointersPass ==
  ASSUME ScanInv, PointerChunk
  PROVE  ScanInv'
  <1> DEFINE n == Least(Size - scan.at, Window)
             first == (request.align - (scan.at % request.align)) % request.align
             found == {i \in Steps(first, request.align, n) : HoldsNeedle(scan.at + i)}
             more == {scan.at + i : i \in found}
             on == scan.at + Most(n - (Word - 1), request.align)
  <1>1. /\ ScanTypeOK /\ Passed /\ request.by = "pointers" /\ ~scan.done
        /\ UNCHANGED <<region, request>>
        /\ IF n < Word \/ ~ReadableAll(scan.at, n) THEN Stops ELSE Goes(on, more)
    BY DEF ScanInv, PointerChunk, Scanning
  <1>2. /\ n \in Nat /\ scan.at \in Nat /\ Size \in Nat /\ scan.at + n <= Size
        /\ n <= Window /\ n < Window => scan.at + n = Size
    BY <1>1, Window_n
  <1>3. \A a \in Words : a \in Nat /\ a + Word <= Size
    BY <1>2, ScanConstants DEF Words, Holding
  <1>4. Size <= Longest /\ Longest \in Nat
    BY <1>1, ScanConstants DEF Passed
  <1>5. CASE n < Word \/ ~ReadableAll(scan.at, n)
    <2>1. /\ ScanTypeOK'
          /\ scan'.at = scan.at /\ scan'.hits = scan.hits /\ scan'.done /\ scan'.bound = {}
      BY <1>1, <1>5, ScanStops
    <2>2. /\ request' = request /\ region' = region /\ Size' = Size /\ Words' = Words
          /\ Holding' = Holding /\ Aligned' = Aligned /\ Exhausts' = Exhausts
      BY <1>1, SameWords
    <2>3. ASSUME Exhausts, NEW a \in Words
          PROVE  a \in scan.hits
      <3>0. region.readable = PagesOf(Size)
        BY <1>1, <2>3 DEF Exhausts
      <3>1. n < Word
        BY <1>1, <1>5, <3>0, AllReadable
      <3>2. scan.at + n = Size
        <4> HIDE DEF n
        <4> QED
          BY <1>2, <3>1, ScanConstants
      <3>3. a < scan.at
        <4> HIDE DEF n
        <4> QED
          BY <1>2, <1>3, <2>3, <3>1, <3>2, ScanConstants
      <3> QED
        BY <1>1, <2>3, <3>3 DEF Passed
    <2>5. Passed'
      BY <1>1, <2>1, <2>2, <2>3 DEF Passed
    <2>6. ScanComplete'
      BY <1>1, <2>1, <2>2, <2>5, PassedAllNext DEF Unbound
    <2> QED
      BY <2>1, <2>5, <2>6 DEF ScanInv
  <1>6. CASE ~ (n < Word) /\ ReadableAll(scan.at, n)
    <2>1. Goes(on, more)
      BY <1>1, <1>6
    <2>2. /\ more \subseteq Words
          /\ \A a \in Words : scan.at <= a /\ a + Word <= scan.at + n => a \in more
      <3>1. n = Least(Size - scan.at, Window)
        OBVIOUS
      <3>2. first = (request.align - (scan.at % request.align)) % request.align
        OBVIOUS
      <3>3. found = {i \in Steps(first, request.align, n) : HoldsNeedle(scan.at + i)}
        OBVIOUS
      <3>4. ScanInv /\ request.by = "pointers" /\ ~scan.done /\ ReadableAll(scan.at, n)
        BY <1>1, <1>6
      <3> HIDE DEF n, first, found
      <3> QED
        BY <3>1, <3>2, <3>3, <3>4, PointerFinds
    <2>3. /\ request.align \in Nat \ {0} /\ request.align + Word <= Window + 1
          /\ Word \in Nat \ {0} /\ Window \in Nat \ {0}
      BY <1>1, AlignIsNat, ScanConstants
    <2>4. on \in Nat /\ (on + Word <= scan.at + n + 1 \/ scan.at + n = Size)
      <3> DEFINE step == request.align
      <3>1. step \in Nat \ {0} /\ step + Word <= Window + 1 /\ n >= Word
        BY <1>2, <1>6, <2>3
      <3>2. CASE n - (Word - 1) > step
        <4>1. on = scan.at + (n - (Word - 1))
          BY <3>2 DEF Most
        <4> HIDE DEF n, step, on
        <4> QED
          BY <1>2, <2>3, <3>1, <4>1
      <3>3. CASE ~ (n - (Word - 1) > step)
        <4>1. on = scan.at + step
          BY <3>3 DEF Most
        <4> HIDE DEF n, step, on
        <4> QED
          BY <1>2, <2>3, <3>1, <3>3, <4>1
      <3> QED
        BY <3>2, <3>3
    <2> HIDE DEF n, first, found, more, on
    <2>5. ASSUME NEW a \in Words, scan.at <= a, a < on
          PROVE  a + Word <= scan.at + n
      <3>1. a \in Nat /\ a + Word <= Size
        BY <1>3, <2>5
      <3> QED
        BY <1>2, <2>3, <2>4, <2>5, <3>1
    <2>6. more \in SUBSET (0 .. Longest)
      BY <1>2, <1>3, <1>4, <2>2, ScanConstants
    <2>7. more \subseteq Holding
      BY <2>2 DEF Words
    <2> QED
      BY <1>1, <2>1, <2>2, <2>4, <2>5, <2>6, <2>7, SeenThrough
  <1> QED
    BY <1>5, <1>6

\* Every set of numbers that is not empty has a least one.
LEMMA LeastOne ==
  ASSUME NEW T \in SUBSET Nat, T # {}
  PROVE  \E i \in T : \A j \in T : i <= j
  <1> DEFINE Smaller == {ss \in Nat \X Nat : ss[1] < ss[2]}
  <1>1. OpToRel(<, Nat) = Smaller
    BY DEF OpToRel
  <1>2. IsWellFoundedOn(Smaller, Nat)
    BY <1>1, NatLessThanWellFounded, Zenon
  <1>3. PICK i \in T : \A y \in T : ~ (<<y, i>> \in Smaller)
    <2> HIDE DEF Smaller
    <2> QED
      BY <1>2, WFMin, Zenon
  <1>4. ASSUME NEW j \in T PROVE i <= j
    <2>1. i \in Nat /\ j \in Nat
      OBVIOUS
    <2>2. j < i => <<j, i>> \in Smaller
      BY <2>1
    <2>3. ~ (j < i)
      BY <1>3, <2>2
    <2> QED
      BY <2>1, <2>3
  <1> QED
    BY <1>4

\* The literal the scan looks at first is one of the pattern's.
LEMMA AnchorIsLiteral ==
  ASSUME NEW pattern \in Patterns, Literals(pattern) # {}
  PROVE  Anchor(pattern) \in Literals(pattern)
  <1>1. PICK n \in 0 .. Word : pattern \in [0 .. n -> Bytes \cup {Wild}]
    BY DEF Patterns
  <1>2. Literals(pattern) \in SUBSET Nat
    BY <1>1 DEF Literals
  <1>3. \E i \in Literals(pattern) : \A j \in Literals(pattern) : i <= j
    BY <1>2, LeastOne
  <1> QED
    BY <1>3 DEF Anchor

LEMMA TextPasses ==
  ASSUME ScanInv, TextFirst
  PROVE  ScanInv'
  <1> DEFINE pattern == request.pattern
             text == PatternHits(pattern, Least(Window, Size), Size)
             image == PatternHits(pattern, 0, Size)
             more == IF text # {} THEN text ELSE image
             Fits(a) == a + Cardinality(DOMAIN pattern) <= Size
  <1>1. /\ ScanTypeOK /\ Passed /\ request.by = "aob" /\ ~scan.done
        /\ UNCHANGED <<region, request>> /\ Goes(Size, more)
    BY DEF ScanInv, TextFirst, Scanning
  <1>2. /\ Size \in Nat /\ Size <= Longest /\ Longest \in Nat /\ Window \in Nat
        /\ pattern \in Patterns /\ Literals(pattern) # {} /\ scan.hits = {}
    BY <1>1, SizeIsNat, ScanConstants DEF Passed, ScanTypeOK
  <1>3. Anchor(pattern) \in Literals(pattern)
    BY <1>2, AnchorIsLiteral
  <1>4. Least(Window, Size) \in Nat
    BY <1>2 DEF Least
  <1> HIDE DEF pattern
  <1>5. image = {a \in 0 .. Size - 1 : Fits(a) /\ MatchesAt(pattern, a)}
    BY <1>3 DEF PatternHits, MatchesAt
  <1>6. text \subseteq image
    BY <1>2, <1>4 DEF PatternHits
  <1>7. /\ more \in SUBSET (0 .. Longest)
        /\ more = {} <=> \A a \in 0 .. Size - 1 : Fits(a) => ~MatchesAt(pattern, a)
    <2>1. image \subseteq 0 .. Size - 1
      BY <1>5
    <2>2. more \subseteq image /\ (more = {} <=> image = {})
      BY <1>6
    <2>3. image = {} <=> \A a \in 0 .. Size - 1 : Fits(a) => ~MatchesAt(pattern, a)
      BY <1>5
    <2> HIDE DEF more, image, text, Fits
    <2> QED
      BY <1>2, <2>1, <2>2, <2>3
  <1> HIDE DEF more, text, image
  <1>8. /\ ScanTypeOK'
        /\ scan'.at = Size /\ scan'.hits = more
        /\ scan'.done = (Size >= Size) /\ scan'.bound = {}
    BY <1>1, <1>2, <1>7, WindowDone, LeastIs
  <1>9. /\ request' = request /\ Size' = Size
        /\ \A p, a : MatchesAt(p, a)' = MatchesAt(p, a)
    BY <1>1, SameWords
  <1>10. scan'.done
    <2>1. Size >= Size
      BY <1>2
    <2> QED
      BY <1>8, <2>1
  <1>11. Passed'
    BY <1>1, <1>2, <1>8, <1>9, <1>10 DEF Passed, Exhausts, Aligned, pattern
  <1>12. ScanComplete'
    <2>1. scan'.hits = {} <=> \A a \in 0 .. Size - 1 : Fits(a) => ~MatchesAt(pattern, a)
      BY <1>7, <1>8
    <2> QED
      BY <1>1, <1>8, <1>9, <2>1 DEF ScanComplete, pattern
  <1> QED
    BY <1>8, <1>11, <1>12 DEF ScanInv

LEMMA BindsKeeps ==
  ASSUME ScanInv, Binds
  PROVE  ScanInv'
  <1> DEFINE survivors == {a \in scan.hits : Passes(a)}
  <1>1. /\ ScanTypeOK /\ Passed /\ ScanComplete /\ request.by = "glacier" /\ scan.done
        /\ Cardinality(survivors) = 1 /\ scan' = [scan EXCEPT !.bound = survivors]
        /\ UNCHANGED <<region, request>>
    BY DEF ScanInv, Binds
  <1>2. scan \in [at : 0 .. Longest, hits : SUBSET (0 .. Longest), done : BOOLEAN,
                  bound : SUBSET (0 .. Longest)]
    BY <1>1 DEF ScanTypeOK
  <1>3. survivors \in SUBSET (0 .. Longest)
    BY <1>2
  <1>5. request.align = Word => survivors = {a \in Words : Passes(a)}
    BY <1>1 DEF ScanComplete
  <1> HIDE DEF survivors
  <1>6. /\ scan' \in [at : 0 .. Longest, hits : SUBSET (0 .. Longest), done : BOOLEAN,
                      bound : SUBSET (0 .. Longest)]
        /\ scan'.at = scan.at /\ scan'.hits = scan.hits /\ scan'.done = scan.done
        /\ scan'.bound = survivors
    BY <1>1, <1>2, <1>3
  <1>7. ScanTypeOK'
    BY <1>1, <1>6 DEF ScanTypeOK
  <1>8. \A b \in survivors : survivors = {b}
    <2>1. IsFiniteSet(survivors)
      <3>1. IsFiniteSet(0 .. Longest)
        BY FS_Interval, ScanConstants
      <3> QED
        BY <1>3, <3>1, FS_Subset
    <2>2. PICK x : survivors = {x}
      BY <1>1, <2>1, FS_Singleton
    <2> QED
      BY <2>2
  <1>9. /\ request' = request /\ region' = region /\ Size' = Size /\ Words' = Words
        /\ Holding' = Holding /\ Aligned' = Aligned /\ Exhausts' = Exhausts
        /\ \A a : Passes(a)' = Passes(a) /\ Across(a)' = Across(a)
    BY <1>1, SameWords
  <1>11. Passed'
    BY <1>1, <1>6, <1>9 DEF Passed
  <1>12. request.align = Word => {a \in Words : Passes(a)}' = survivors
    BY <1>5, <1>9
  <1>13. ScanComplete'
    BY <1>1, <1>6, <1>8, <1>9, <1>12 DEF ScanComplete
  <1> QED
    BY <1>7, <1>11, <1>13 DEF ScanInv

LEMMA NoScanIs ==
  /\ NoScan \in [at : 0 .. Longest, hits : SUBSET (0 .. Longest), done : BOOLEAN,
                 bound : SUBSET (0 .. Longest)]
  /\ NoScan.at = 0 /\ NoScan.hits = {} /\ NoScan.bound = {}
  BY ScanConstants DEF NoScan

LEMMA ScanInitInv == ScanInit => ScanInv
  <1> SUFFICES ASSUME ScanInit PROVE ScanInv
    OBVIOUS
  <1>1. /\ region = [bytes |-> << >>, readable |-> {}]
        /\ request = [by |-> "none", align |-> Word, pattern |-> [i \in {0} |-> Wild]]
        /\ scan = NoScan
    BY DEF ScanInit
  <1>2. [i \in {0} |-> Wild] \in Patterns
    <2>1. [i \in {0} |-> Wild] \in [0 .. 0 -> Bytes \cup {Wild}] /\ 0 \in 0 .. Word
      BY ScanConstants
    <2> QED
      BY <2>1 DEF Patterns
  <1>3. /\ region \in [bytes : Seq(Bytes), readable : SUBSET PagesOf(Longest)]
        /\ region.bytes = << >>
    BY <1>1, EmptySeq
  <1>4. request \in [by : Scanners \cup {"none"}, align : Aligns, pattern : Patterns]
    <2> HIDE DEF Patterns
    <2> QED
      BY <1>1, <1>2, ScanConstants
  <1>5. ScanTypeOK
    BY <1>1, <1>3, <1>4, NoScanIs, NothingBound DEF ScanTypeOK
  <1>6. Size = 0
    BY <1>3, EmptySeq DEF Size
  <1>7. Passed
    BY <1>1, <1>6, NoScanIs, ScanConstants DEF Passed, Exhausts, Aligned
  <1>8. ScanComplete
    BY <1>1, NoScanIs DEF ScanComplete
  <1> QED
    BY <1>5, <1>7, <1>8 DEF ScanInv

LEMMA AsksKeeps ==
  ASSUME ScanInv, Asks
  PROVE  ScanInv'
  <1>1. PICK by \in Scanners, align \in Aligns, pattern \in Patterns :
          /\ IF by = "aob" THEN Literals(pattern) # {} /\ align = Word
             ELSE pattern = request.pattern
          /\ request' = [by |-> by, align |-> align, pattern |-> pattern]
          /\ \E n \in {Longest - 1, Longest}, away \in SUBSET PagesOf(Longest) :
               region' \in [bytes : [1 .. n -> Bytes], readable : {PagesOf(n) \ away}]
    BY DEF Asks
  <1>2. /\ request' \in [by : Scanners \cup {"none"}, align : Aligns, pattern : Patterns]
        /\ request'.by = by /\ request'.align = align /\ request'.pattern = pattern
    BY <1>1
  <1>3. PICK n \in {Longest - 1, Longest}, away \in SUBSET PagesOf(Longest) :
          region' \in [bytes : [1 .. n -> Bytes], readable : {PagesOf(n) \ away}]
    BY <1>1
  <1>4. n \in Nat /\ n <= Longest /\ Longest \in Nat /\ Page \in Nat \ {0}
    BY <1>3, ScanConstants
  <1>5. region'.bytes \in Seq(Bytes) /\ Len(region'.bytes) = n
    <2>1. region'.bytes \in [1 .. n -> Bytes]
      BY <1>3
    <2> QED
      BY <1>4, <2>1, SeqDef, LenProperties
  <1>6. PagesOf(n) \subseteq PagesOf(Longest)
    <2>1. CASE n = 0
      <3>1. PagesOf(0) = {}
        <4> DEFINE last == (0 - 1) \div Page
        <4>1. last \in Int /\ last < 0
          BY <1>4
        <4>2. PagesOf(0) = 0 .. last
          BY DEF PagesOf
        <4> HIDE DEF last
        <4> QED
          BY <4>1, <4>2
      <3> QED
        BY <2>1, <3>1
    <2>2. CASE n # 0
      <3>1. n - 1 \in Nat /\ Longest - 1 \in Nat /\ n - 1 <= Longest - 1
        BY <1>4, <2>2
      <3>2. (n - 1) \div Page <= (Longest - 1) \div Page
        BY <1>4, <3>1, DivGrows
      <3>3. (n - 1) \div Page \in Nat /\ (Longest - 1) \div Page \in Nat
        BY <1>4, <3>1, Division
      <3> QED
        BY <3>2, <3>3 DEF PagesOf
    <2> QED
      BY <2>1, <2>2
  <1>7. region' \in [bytes : Seq(Bytes), readable : SUBSET PagesOf(Longest)]
    BY <1>3, <1>5, <1>6
  <1>8. scan' = [NoScan EXCEPT !.done = FALSE]
    BY DEF Asks
  <1>9. /\ scan' \in [at : 0 .. Longest, hits : SUBSET (0 .. Longest), done : BOOLEAN,
                      bound : SUBSET (0 .. Longest)]
        /\ scan'.at = 0 /\ scan'.hits = {} /\ scan'.bound = {} /\ scan'.done = FALSE
    BY <1>8, NoScanIs
  <1>10. ScanTypeOK'
    BY <1>2, <1>7, <1>9, NothingBound DEF ScanTypeOK
  <1>11. Size' = n
    BY <1>5 DEF Size
  <1>12. \A a \in Words' : ~ (a < 0)
    BY <1>4, <1>11, ScanConstants DEF Words, Holding
  <1>13. 0 % Window = 0
    BY ScanConstants
  <1>14. Passed'
    <2>1. scan'.at <= Size' /\ Size' <= Longest'
      BY <1>4, <1>9, <1>11
    <2>2. \A a \in Words' : ~ (a < scan'.at \/ scan'.done)
      BY <1>9, <1>12
    <2>3. request'.by = "glacier" => scan'.at % Window' = 0
      BY <1>1, <1>2, <1>9, <1>13
    <2>4. request'.by = "aob" => Literals(request'.pattern) # {}
      BY <1>1, <1>2
    <2> QED
      BY <1>9, <2>1, <2>2, <2>3, <2>4 DEF Passed
  <1>15. ScanComplete'
    BY <1>9 DEF ScanComplete
  <1> QED
    BY <1>10, <1>14, <1>15 DEF ScanInv

LEMMA ScanNextInv == ScanInv /\ [ScanNext]_scanVars => ScanInv'
  <1> SUFFICES ASSUME ScanInv, [ScanNext]_scanVars PROVE ScanInv'
    OBVIOUS
  <1>1. CASE UNCHANGED scanVars
    <2>1. UNCHANGED <<region, request, scan>>
      BY <1>1 DEF scanVars
    <2>2. /\ Words' = Words /\ Holding' = Holding /\ Size' = Size
          /\ Aligned' = Aligned /\ Exhausts' = Exhausts
          /\ \A a : Passes(a)' = Passes(a) /\ Across(a)' = Across(a)
          /\ \A p, a : MatchesAt(p, a)' = MatchesAt(p, a)
      BY <2>1, SameWords
    <2>3. Passed'
      BY <2>1, <2>2 DEF ScanInv, Passed
    <2>4. ScanComplete'
      BY <2>1, <2>2 DEF ScanInv, ScanComplete, PagesOf
    <2> QED
      BY <2>1, <2>3, <2>4 DEF ScanInv, ScanTypeOK
  <1> QED
    BY <1>1, AsksKeeps, Ue5Passes, GlacierPasses, PointersPass, TextPasses, BindsKeeps
    DEF ScanNext

\* MemoryScan.ScanComplete, for any widths of word, page and window that divide one
\* another, any alignments small against a window, any region and any pattern: Glacier's
\* scan (scan.rs) has found the word only and, at an alignment that divides the page,
\* every one but those Across; the pointer scan every one unless a hole stopped it
\* (pointer_scan.rs); a pattern that is there was found (Pattern::scan_all).
THEOREM CompleteCorrect == ScanSpec => []ScanComplete
  <1>1. ScanInv => ScanComplete
    BY DEF ScanInv
  <1> QED
    BY <1>1, ScanInitInv, ScanNextInv, PTL DEF ScanSpec

\* A scan stays within the region, finds places of it only, and binds at most one.
THEOREM ScanTypeCorrect == ScanSpec => []ScanTypeOK
  <1>1. ScanInv => ScanTypeOK
    BY DEF ScanInv
  <1> QED
    BY <1>1, ScanInitInv, ScanNextInv, PTL DEF ScanSpec
=============================================================================
