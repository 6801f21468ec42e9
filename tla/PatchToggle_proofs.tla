------------------------ MODULE PatchToggle_proofs ------------------------
(***************************************************************************)
(* The safety of the code-patch feature, for any number of features,       *)
(* sites, builds and concurrent toggles.  No property is inductive by      *)
(* itself: that a site can be put back rests on what is in the registry,   *)
(* which rests on what the app located at attach, which rests on what a    *)
(* patched site can look like.  IInv says all of it at once.               *)
(***************************************************************************)
EXTENDS PatchToggle, TLAPS

\* A site holds what the game was started with or, if that is the original of
\* a feature, that feature's patch.
KnownText ==
    \A a \in Addrs :
        \/ text[a] = build.text[a]
        \/ \E p \in Patches : build.text[a] = Orig[p] /\ text[a] = Repl[p]

\* A record holds the bytes to put back, of a site that a located feature has
\* changed.
RecordsRight ==
    \A a \in Addrs :
        /\ draining[a] # None => draining[a] = build.text[a]
        /\ registry[a] # None =>
            /\ registry[a] = build.text[a]
            /\ text[a] # build.text[a]
            /\ \E p \in Patches : found[p] = a /\ Orig[p] = registry[a]

\* A located site is one the game was started with the original bytes at, and
\* if it has been changed since, the change is on record.
FoundRight ==
    \A p \in Patches :
        found[p] # None =>
            /\ build.text[found[p]] = Orig[p]
            /\ text[found[p]] # Orig[p] => registry[found[p]] = Orig[p]

Phases ==
    /\ conn # "serving" => registry = Empty /\ found = Unresolved
    /\ conn # "closing" => draining = Empty

IInv ==
    /\ TypeOK
    /\ KnownText
    /\ ChangesRecorded
    /\ RecordsRight
    /\ FoundRight
    /\ Phases
-----------------------------------------------------------------------------
\* The initial states, and those of a restarted game, satisfy the invariant:
\* nothing is patched, recorded or located.
LEMMA InitInv == Init => IInv
  <1> SUFFICES ASSUME Init PROVE IInv
    OBVIOUS
  <1> USE CodeAssumption, PatchAssumption DEF Init, PatchInit, Empty, Unresolved
  <1>1. TypeOK
    BY DEF TypeOK, PatchTypeOK
  <1>2. KnownText /\ ChangesRecorded
    BY DEF KnownText, ChangesRecorded
  <1>3. RecordsRight /\ FoundRight /\ Phases
    BY DEF RecordsRight, FoundRight, Phases
  <1> QED
    BY <1>1, <1>2, <1>3 DEF IInv

\* What the address cache or the AOB scan returns is a site that holds the
\* feature's original bytes now, and that held them when the game started: a
\* patched site looks like no feature's original.
LEMMA LocateSound ==
  ASSUME IInv, NEW p \in Patches,
         NEW a \in {Locate(p), AobScan(p)}, a # None
  PROVE  a \in Addrs /\ text[a] = Orig[p] /\ build.text[a] = Orig[p]
  <1> USE CodeAssumption, PatchAssumption DEF IInv, TypeOK, PatchTypeOK
  <1>1. a \in Addrs /\ text[a] = Orig[p]
    BY DEF Locate, AobScan, QuickCheck
  <1> QED
    BY <1>1 DEF KnownText

LEMMA LocateType ==
  ASSUME IInv, NEW p \in Patches
  PROVE  Locate(p) \in Addrs \cup {None} /\ AobScan(p) \in Addrs \cup {None}
  BY CodeAssumption, PatchAssumption
     DEF IInv, TypeOK, PatchTypeOK, Locate, AobScan

\* Whatever a toggle decides on is a direction.
LEMMA DirectionType ==
  ASSUME NEW t \in Toggles, NEW p \in Patches, HotkeyRead(t, p) \/ Click(t, p)
  PROVE  \E on \in BOOLEAN : Decide(t, p, on)
  <1>1. (~ReadApplied(p, found[p])) \in BOOLEAN /\ (~shown[p]) \in BOOLEAN
    OBVIOUS
  <1> QED
    BY <1>1 DEF HotkeyRead, Click

\* Every step keeps the types.
LEMMA TypeNext == IInv /\ [Next]_vars => TypeOK'
  <1> SUFFICES ASSUME IInv, [Next]_vars PROVE TypeOK'
    OBVIOUS
  <1> USE CodeAssumption, PatchAssumption
      DEF TypeOK, PatchTypeOK, Empty, Unresolved, hostVars, patchVars
  <1>0. TypeOK
    BY DEF IInv
  <1>1. CASE Attach
    <2>1. PICK reached \in SUBSET Patches :
            LET got == [p \in Patches |-> IF p \in reached THEN Locate(p) ELSE None]
            IN  /\ found' = got
                /\ cached' = [p \in Patches |-> IF got[p] # None THEN got[p] ELSE cached[p]]
                /\ shown' = [p \in Patches |->
                                IF InitialSweep /\ got[p] # None
                                    THEN ReadApplied(p, got[p]) ELSE shown[p]]
      BY <1>1 DEF Attach
    <2>2. found' \in [Patches -> Addrs \cup {None}]
      BY <2>1, LocateType
    <2>3. cached' \in [Patches -> Addrs \cup {None}]
      BY <1>0, <2>1, LocateType
    <2>4. shown' \in [Patches -> BOOLEAN]
      <3> DEFINE got == [p \in Patches |-> IF p \in reached THEN Locate(p) ELSE None]
                 draw(p) == IF InitialSweep /\ got[p] # None
                                THEN ReadApplied(p, got[p]) ELSE shown[p]
      <3>1. shown' = [p \in Patches |-> draw(p)]
        BY <2>1
      <3>2. ASSUME NEW p \in Patches PROVE draw(p) \in BOOLEAN
        <4>1. ReadApplied(p, got[p]) \in BOOLEAN
          BY DEF ReadApplied
        <4>2. shown[p] \in BOOLEAN
          BY <1>0
        <4> QED
          BY <4>1, <4>2
      <3> HIDE DEF draw
      <3> QED
        BY <3>1, <3>2
    <2> QED
      BY <1>0, <1>1, <2>2, <2>3, <2>4 DEF Attach, Open
  <1>2. CASE Detach
    BY <1>0, <1>2 DEF Detach, Drop
  <1>3. CASE AppExit
    BY <1>0, <1>3 DEF AppExit, Drop
  <1>4. CASE GameRestart
    BY <1>0, <1>4 DEF GameRestart, Restart
  <1>5. CASE Restoring
    BY <1>0, <1>5 DEF Restoring, Closed, RestoreOne, Write
  <1>6. ASSUME NEW p \in Patches, RetryResolve(p) PROVE TypeOK'
    BY <1>0, <1>6, LocateType DEF RetryResolve
  <1>7. ASSUME NEW t \in Toggles, NEW p \in Patches, HotkeyRead(t, p) \/ Click(t, p)
        PROVE  TypeOK'
    <2>1. ASSUME NEW on \in BOOLEAN, Decide(t, p, on) PROVE TypeOK'
      BY <1>0, <2>1 DEF Decide, Wants
    <2> QED
      BY <1>7, <2>1, DirectionType
  <1>8. ASSUME NEW t \in Toggles, Send(t) PROVE TypeOK'
    <2> DEFINE p == want[t].patch
               a == found[p]
    <2>1. want[t] \in Wants /\ p \in Patches /\ Orig[p] \in Code /\ Repl[p] \in Code
      BY <1>0, <1>8 DEF Send, Wants
    <2>2. Replied(t) \/ Failed(t)
      BY <1>8 DEF Send
    <2>3. want' \in [Toggles -> Wants \cup {None}]
      <3>1. CASE Replied(t)
        BY <1>0, <2>1, <3>1 DEF Replied, Wants
      <3>2. CASE Failed(t)
        BY <1>0, <3>2 DEF Failed
      <3> QED
        BY <2>2, <3>1, <3>2
    <2>4. PatchTypeOK'
      <3>1. CASE UNCHANGED patchVars
        BY <1>0, <3>1
      <3>2. CASE a # None /\ PatchOk(a, Orig[p], Repl[p])
        BY <1>0, <2>1, <3>2 DEF PatchOk, Write, Recorded
      <3>3. CASE a # None /\ RestoreOk(a, Orig[p])
        BY <1>0, <2>1, <3>3 DEF RestoreOk, Write, Forgotten
      <3> QED
        BY <1>8, <3>1, <3>2, <3>3 DEF Send, PatchErr, RestoreErr
    <2> QED
      BY <1>0, <1>8, <2>3, <2>4 DEF Send
  <1>9. ASSUME NEW t \in Toggles, Reply(t) PROVE TypeOK'
    BY <1>0, <1>9 DEF Reply, Wants
  <1>10. CASE UNCHANGED vars
    BY <1>0, <1>10 DEF vars
  <1> QED
    BY <1>1, <1>2, <1>3, <1>4, <1>5, <1>6, <1>7, <1>8, <1>9, <1>10 DEF Next

\* Locating a site makes no promise that its content does not keep.
LEMMA AttachInv == IInv /\ Attach => IInv'
  <1> SUFFICES ASSUME IInv, Attach PROVE IInv'
    OBVIOUS
  <1> USE CodeAssumption, PatchAssumption
  <1>1. TypeOK /\ TypeOK'
    BY TypeNext DEF IInv, Next
  <1>2. UNCHANGED <<build, text, registry, draining>> /\ conn = "idle" /\ conn' = "serving"
    BY DEF Attach, Open
  <1>3. registry = Empty /\ draining = Empty
    BY <1>2 DEF IInv, Phases
  <1>4. \A p \in Patches : found'[p] \in {None, Locate(p)}
    BY DEF Attach
  <1>5. KnownText' /\ ChangesRecorded'
    BY <1>2 DEF IInv, KnownText, ChangesRecorded
  <1>6. RecordsRight'
    BY <1>2, <1>3 DEF RecordsRight, Empty
  <1>7. FoundRight'
    BY <1>2, <1>4, LocateSound DEF FoundRight
  <1>8. Phases'
    BY <1>2, <1>3 DEF Phases
  <1> QED
    BY <1>1, <1>5, <1>6, <1>7, <1>8 DEF IInv

\* Losing the client moves every record to the list of what is to be restored.
LEMMA DropInv == IInv /\ (Detach \/ AppExit) => IInv'
  <1> SUFFICES ASSUME IInv, Detach \/ AppExit PROVE IInv'
    OBVIOUS
  <1> USE CodeAssumption, PatchAssumption
  <1>1. TypeOK /\ TypeOK'
    BY TypeNext DEF IInv, Next
  <1>2. /\ UNCHANGED <<build, text>> /\ found' = Unresolved
        /\ draining' = registry /\ registry' = Empty
        /\ conn = "serving" /\ conn' = "closing"
    BY DEF Detach, AppExit, Drop
  <1>3. draining = Empty
    BY <1>2 DEF IInv, Phases
  <1>4. KnownText'
    BY <1>2 DEF IInv, KnownText
  <1>5. ChangesRecorded'
    BY <1>1, <1>2, <1>3 DEF IInv, ChangesRecorded, Empty, TypeOK, PatchTypeOK
  <1>6. RecordsRight'
    BY <1>2 DEF IInv, RecordsRight, Empty
  <1>7. FoundRight' /\ Phases'
    BY <1>2 DEF FoundRight, Phases, Unresolved
  <1> QED
    BY <1>1, <1>4, <1>5, <1>6, <1>7 DEF IInv

\* Restoring one site takes its record away, and puts back what the record is
\* of; where that fails the site is one of the fragile.
LEMMA RestoringInv == IInv /\ Restoring => IInv'
  <1> SUFFICES ASSUME IInv, Restoring PROVE IInv'
    OBVIOUS
  <1> USE CodeAssumption, PatchAssumption
  <1>1. TypeOK /\ TypeOK'
    BY TypeNext DEF IInv, Next
  <1>2. registry = Empty /\ found = Unresolved
    BY DEF IInv, Phases, Restoring, Closed, RestoreOne
  <1>3. CASE Closed
    <2>1. UNCHANGED <<build, text, registry, draining, found>> /\ draining = Empty
      BY <1>3 DEF Restoring, Closed, hostVars
    <2> QED
      BY <1>1, <1>2, <1>3, <2>1
         DEF IInv, KnownText, ChangesRecorded, RecordsRight, FoundRight, Phases
  <1>4. ASSUME NEW a \in Addrs, RestoreOne(a) PROVE IInv'
    <2>1. /\ conn = "closing" /\ UNCHANGED <<build, registry, conn, found>>
          /\ draining[a] = build.text[a]
          /\ draining' = [draining EXCEPT ![a] = None]
          /\ \/ text' = [text EXCEPT ![a] = build.text[a]]
             \/ a \in Fragile /\ text' = text
      BY <1>4 DEF Restoring, RestoreOne, Write, hostVars, IInv, RecordsRight
    <2>2. KnownText'
      BY <1>1, <2>1 DEF IInv, KnownText, TypeOK, PatchTypeOK
    <2>3. ChangesRecorded'
      BY <1>1, <2>1 DEF IInv, ChangesRecorded, TypeOK, PatchTypeOK
    <2>4. RecordsRight' /\ FoundRight'
      BY <1>1, <1>2, <2>1
         DEF IInv, RecordsRight, FoundRight, Empty, Unresolved, TypeOK, PatchTypeOK
    <2>5. Phases'
      BY <1>2, <2>1 DEF Phases
    <2> QED
      BY <1>1, <2>2, <2>3, <2>4, <2>5 DEF IInv
  <1> QED
    BY <1>3, <1>4 DEF Restoring

\* A request of the app: it names the address and the original bytes of one
\* located feature, and two features are never located at one address.
LEMMA SendInv ==
  ASSUME IInv, NEW t \in Toggles, Send(t)
  PROVE  IInv'
  <1> USE CodeAssumption, PatchAssumption
  <1>1. TypeOK /\ TypeOK'
    BY TypeNext DEF IInv, Next
  <1>2. CASE UNCHANGED patchVars
    BY <1>1, <1>2
       DEF Send, patchVars, IInv, KnownText, ChangesRecorded, RecordsRight, FoundRight,
           Phases
  <1>3. CASE ~UNCHANGED patchVars
    <2> DEFINE p == want[t].patch
               a == found[p]
    <2>1. /\ p \in Patches /\ a \in Addrs /\ conn = "serving"
          /\ UNCHANGED <<build, draining, conn, found>>
          /\ \/ /\ text[a] = Orig[p]
                /\ text' = [text EXCEPT ![a] = Repl[p]]
                /\ registry' = [registry EXCEPT ![a] = Orig[p]]
             \/ /\ text' = [text EXCEPT ![a] = Orig[p]]
                /\ registry' = [registry EXCEPT ![a] = None]
      BY <1>1, <1>3
         DEF Send, PatchOk, PatchErr, RestoreOk, RestoreErr, Verified, Write, Recorded,
             Forgotten, TypeOK, PatchTypeOK, Wants
    <2>2. build.text[a] = Orig[p]
      BY <2>1 DEF IInv, FoundRight
    <2>3. KnownText'
      BY <1>1, <2>1, <2>2 DEF IInv, KnownText, TypeOK, PatchTypeOK
    <2>4. ChangesRecorded'
      BY <1>1, <2>1, <2>2 DEF IInv, ChangesRecorded, TypeOK, PatchTypeOK
    <2>5. RecordsRight'
      <3> SUFFICES ASSUME NEW x \in Addrs
                   PROVE  /\ draining'[x] # None => draining'[x] = build'.text[x]
                          /\ registry'[x] # None =>
                               /\ registry'[x] = build'.text[x]
                               /\ text'[x] # build'.text[x]
                               /\ \E q \in Patches : found'[q] = x /\ Orig[q] = registry'[x]
        BY DEF RecordsRight
      <3>1. CASE x = a
        BY <1>1, <2>1, <2>2, <3>1 DEF IInv, RecordsRight, TypeOK, PatchTypeOK
      <3>2. CASE x # a
        BY <1>1, <2>1, <3>2 DEF IInv, RecordsRight, TypeOK, PatchTypeOK
      <3> QED
        BY <3>1, <3>2
    <2>6. FoundRight'
      <3> SUFFICES ASSUME NEW q \in Patches, found[q] # None
                   PROVE  /\ build.text[found[q]] = Orig[q]
                          /\ text'[found[q]] # Orig[q] => registry'[found[q]] = Orig[q]
        BY <2>1 DEF FoundRight
      <3>1. found[q] \in Addrs
        BY <1>1 DEF TypeOK
      <3>2. found[q] = a => q = p
        BY <2>1, <2>2 DEF IInv, FoundRight
      <3> QED
        BY <1>1, <2>1, <3>1, <3>2 DEF IInv, FoundRight, TypeOK, PatchTypeOK
    <2>7. Phases'
      BY <2>1 DEF IInv, Phases
    <2> QED
      BY <1>1, <2>3, <2>4, <2>5, <2>6, <2>7 DEF IInv
  <1> QED
    BY <1>2, <1>3

\* A step that moves neither the game, nor the registry, nor what is located.
LEMMA QuietInv == IInv /\ [Next]_vars /\ UNCHANGED <<patchVars, found>> => IInv'
  BY TypeNext
     DEF IInv, patchVars, KnownText, ChangesRecorded, RecordsRight, FoundRight, Phases

LEMMA NextInv == IInv /\ [Next]_vars => IInv'
  <1> SUFFICES ASSUME IInv, [Next]_vars PROVE IInv'
    OBVIOUS
  <1>1. CASE Attach
    BY <1>1, AttachInv
  <1>2. CASE Detach \/ AppExit
    BY <1>2, DropInv
  <1>3. CASE GameRestart
    <2>1. TypeOK'
      BY TypeNext
    <2>2. /\ text' = build'.text /\ registry' = Empty /\ draining' = Empty
          /\ conn' = "idle" /\ found' = Unresolved
      BY <1>3 DEF GameRestart, Restart
    <2> QED
      BY <2>1, <2>2
         DEF IInv, KnownText, ChangesRecorded, RecordsRight, FoundRight, Phases, Empty,
             Unresolved
  <1>4. CASE Restoring
    BY <1>4, RestoringInv
  <1>5. ASSUME NEW p \in Patches, RetryResolve(p) PROVE IInv'
    <2>1. /\ TypeOK /\ TypeOK' /\ UNCHANGED <<build, text, registry, draining, conn>>
          /\ conn = "serving" /\ found[p] = None /\ AobScan(p) # None
          /\ found' = [found EXCEPT ![p] = AobScan(p)]
      BY <1>5, TypeNext DEF IInv, RetryResolve, patchVars
    <2>2. KnownText' /\ ChangesRecorded' /\ Phases'
      BY <2>1 DEF IInv, KnownText, ChangesRecorded, Phases
    <2>3. RecordsRight'
      BY <2>1, CodeAssumption DEF IInv, RecordsRight, TypeOK
    <2>4. FoundRight'
      BY <2>1, LocateSound DEF IInv, FoundRight, TypeOK
    <2> QED
      BY <2>1, <2>2, <2>3, <2>4 DEF IInv
  <1>6. ASSUME NEW t \in Toggles, Send(t) PROVE IInv'
    BY <1>6, SendInv
  <1>7. ASSUME NEW t \in Toggles, NEW p \in Patches, HotkeyRead(t, p) \/ Click(t, p)
        PROVE  IInv'
    BY <1>7, QuietInv DEF HotkeyRead, Click, Decide
  <1>8. ASSUME NEW t \in Toggles, Reply(t) PROVE IInv'
    BY <1>8, QuietInv DEF Reply
  <1>9. CASE UNCHANGED vars
    BY <1>9, QuietInv DEF vars, hostVars
  <1> QED
    BY <1>1, <1>2, <1>3, <1>4, <1>5, <1>6, <1>7, <1>8, <1>9 DEF Next

THEOREM Invariance == Spec => []IInv
  BY InitInv, NextInv, PTL DEF Spec
-----------------------------------------------------------------------------
\* Type correctness of the composed system.
THEOREM TypeCorrect == Spec => []TypeOK
  <1>1. IInv => TypeOK
    BY DEF IInv
  <1> QED
    BY <1>1, Invariance, PTL

\* No site of the game is changed without the bytes to put back being on record.
THEOREM Recorded_Changes == Spec => []ChangesRecorded
  <1>1. IInv => ChangesRecorded
    BY DEF IInv
  <1> QED
    BY <1>1, Invariance, PTL

\* With no client connected, every site that can be written holds what the game
\* was started with: nothing is on record, so nothing can differ.
THEOREM Restored == Spec => []DetachRestores
  <1>1. IInv => DetachRestores
    <2> SUFFICES ASSUME IInv, conn = "idle", NEW a \in Addrs \ Fragile,
                        text[a] # build.text[a]
                 PROVE  FALSE
      BY DEF DetachRestores
    <2>1. build.text[a] \in Code
      BY CodeAssumption DEF IInv, TypeOK, PatchTypeOK
    <2>2. registry[a] = None /\ draining[a] = None
      BY DEF IInv, Phases, Empty
    <2> QED
      BY <2>1, <2>2, CodeAssumption DEF IInv, ChangesRecorded
  <1> QED
    BY <1>1, Invariance, PTL

\* The host's first-byte read and the DLL's registry agree.
THEOREM Agreement == Spec => []ReadAgrees
  <1>1. IInv => ReadAgrees
    <2> SUFFICES ASSUME IInv, NEW p \in Patches, conn = "serving", found[p] # None
                 PROVE  ReadApplied(p, found[p]) <=> registry[found[p]] # None
      BY DEF ReadAgrees
    <2> DEFINE a == found[p]
    <2>1. a \in Addrs /\ build.text[a] = Orig[p]
      BY DEF IInv, TypeOK, FoundRight
    <2>2. text[a] \in {Orig[p], Repl[p]}
      BY <2>1, PatchAssumption DEF IInv, KnownText
    <2>3. text[a] # Orig[p] <=> registry[a] # None
      BY <2>1, CodeAssumption, PatchAssumption DEF IInv, FoundRight, RecordsRight
    <2> QED
      BY <2>2, <2>3, PatchAssumption DEF ReadApplied
  <1> QED
    BY <1>1, Invariance, PTL

\* A patch that is on can be switched off.
THEOREM Reachability == Spec => []OffReachable
  <1>1. IInv => OffReachable
    BY DEF IInv, RecordsRight, OffReachable
  <1> QED
    BY <1>1, Invariance, PTL

\* Only original bytes are overwritten.  No case analysis of the steps is
\* needed: both before and after a step a site holds its original or the one
\* patch that belongs there.
THEOREM KnownCode == Spec => OnlyKnownCode
  <1>1. IInv /\ IInv' => KnownChange
    <2> SUFFICES ASSUME IInv, IInv', build' = build, NEW a \in Addrs, text'[a] # text[a]
                 PROVE  \E p \in Patches : /\ build.text[a] = Orig[p]
                                           /\ {text[a], text'[a]} = {Orig[p], Repl[p]}
      BY DEF KnownChange
    <2>1. \/ text[a] = build.text[a]
          \/ \E p \in Patches : build.text[a] = Orig[p] /\ text[a] = Repl[p]
      BY DEF IInv, KnownText
    <2>2. \/ text'[a] = build.text[a]
          \/ \E p \in Patches : build.text[a] = Orig[p] /\ text'[a] = Repl[p]
      BY DEF IInv, KnownText
    <2> QED
      BY <2>1, <2>2, PatchAssumption
  <1>2. IInv /\ IInv' /\ [Next]_vars => [KnownChange]_vars
    BY <1>1
  <1> QED
    BY <1>2, Invariance, PTL DEF Spec, OnlyKnownCode
=============================================================================
