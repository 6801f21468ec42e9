-------------------------- MODULE Features_proofs --------------------------
(***************************************************************************)
(* Proofs about the features and their hotkeys: the freeze of all the      *)
(* objects of a class, what validate() lets through, the cards, and the    *)
(* store of the hotkeys.  They share no state; each is proved of its own   *)
(* specification, for any objects, features and chords.                    *)
(***************************************************************************)
EXTENDS MatchingFreeze, FeatureSpec, FeatureCards, KeybindStore, FiniteSetTheorems,
        TLAPS

-----------------------------------------------------------------------------
(* freeze_for_matching.                                                     *)

\* What is remembered of an object is its own value, or nothing.
OwnValues(map) == \A g \in Goons : map[g] \in {g, None_M}

\* As long as no tick and no restore have overlapped, a tick in flight means a freeze
\* that no restore follows yet, and each stamp has its original in one of the maps.
Remembered ==
    /\ OwnValues(originals) /\ OwnValues(undo)
    /\ switch # "off" => ~Undoing
    /\ tick.at # "rest" => switch # "off"
    /\ switch = "off" => originals = NoOriginals
    /\ \A g \in Goons : field[g] = Stamp => originals[g] = g \/ undo[g] = g
    /\ \A g \in tick.goon : originals[g] = g \/ g \in died

MatchInv ==
    /\ MatchTypeOK
    /\ \A g \in Goons : {field[g], originals[g], undo[g]} \subseteq {g, Stamp, None_M}
    /\ \A g \in died : field[g] = None_M
    /\ \A g \in tick.todo : field[g] # None_M \/ g \in died
    /\ tick.at = "write" \/ tick.goon = {}
    /\ ~raced => Remembered

LEMMA NoOriginalsIs ==
  /\ NoOriginals \in [Goons -> Goons \cup {Stamp, None_M}]
  /\ \A g \in Goons : NoOriginals[g] = None_M
  /\ OwnValues(NoOriginals)
  BY DEF NoOriginals, OwnValues

LEMMA GoonsDiffer == Stamp # None_M /\ \A g \in Goons : g # Stamp /\ g # None_M
  BY MatchingAssumption DEF Stamp, None_M

LEMMA MatchInitial == MatchInit => MatchInv
  <1> SUFFICES ASSUME MatchInit PROVE MatchInv
    OBVIOUS
  <1>1. Cardinality({}) <= 1
    BY FS_EmptySet
  <1>2. MatchTypeOK
    BY <1>1, NoOriginalsIs DEF MatchInit, MatchTypeOK
  <1>3. Remembered
    BY NoOriginalsIs, GoonsDiffer DEF MatchInit, Remembered, Undoing, Stamp, None_M
  <1> QED
    BY <1>2, <1>3, NoOriginalsIs DEF MatchInit, MatchInv

LEMMA MatchStep == MatchInv /\ [MatchNext]_matchVars => MatchInv'
  <1> SUFFICES ASSUME MatchInv, [MatchNext]_matchVars PROVE MatchInv'
    OBVIOUS
  <1>0. /\ MatchTypeOK
        /\ \A g \in Goons : /\ field[g] \in {g, Stamp, None_M}
                            /\ originals[g] \in {g, Stamp, None_M} /\ undo[g] \in {g, Stamp, None_M}
    BY DEF MatchInv
  <1>1. ASSUME NEW g \in Goons \ (Present \cup died), field' = [field EXCEPT ![g] = g],
               died' = died, GameMatchOnly
        PROVE  MatchInv'
    <2>1. /\ field' \in [Goons -> Goons \cup {Stamp, None_M}] /\ field'[g] = g
          /\ \A h \in Goons \ {g} : field'[h] = field[h]
      BY <1>0, <1>1 DEF MatchTypeOK
    <2>2. MatchTypeOK'
      BY <1>0, <1>1, <2>1 DEF MatchTypeOK, GameMatchOnly
    <2>3. Remembered => Remembered'
      BY <1>1, <2>1, GoonsDiffer DEF Remembered, GameMatchOnly, OwnValues, Undoing
    <2>4. \A h \in died' : field'[h] = None_M
      BY <1>0, <1>1, <2>1 DEF MatchInv, MatchTypeOK
    <2>5. \A h \in tick'.todo : field'[h] # None_M \/ h \in died'
      BY <1>0, <1>1, <2>1, GoonsDiffer DEF MatchInv, MatchTypeOK, GameMatchOnly
    <2> QED
      BY <1>0, <1>1, <2>1, <2>2, <2>3, <2>4, <2>5 DEF MatchInv, GameMatchOnly
  <1>2. ASSUME NEW g \in Present, field' = [field EXCEPT ![g] = None_M], died' = died \cup {g},
               GameMatchOnly
        PROVE  MatchInv'
    <2>1. /\ g \in Goons
          /\ field' \in [Goons -> Goons \cup {Stamp, None_M}] /\ field'[g] = None_M
          /\ \A h \in Goons \ {g} : field'[h] = field[h]
      BY <1>0, <1>2 DEF MatchTypeOK, Present
    <2>2. MatchTypeOK'
      BY <1>0, <1>2, <2>1 DEF MatchTypeOK, GameMatchOnly
    <2>3. Remembered => Remembered'
      BY <1>2, <2>1 DEF Remembered, GameMatchOnly, OwnValues, Undoing, Stamp, None_M
    <2>4. \A h \in died' : field'[h] = None_M
      BY <1>0, <1>2, <2>1 DEF MatchInv, MatchTypeOK
    <2>5. \A h \in tick'.todo : field'[h] # None_M \/ h \in died'
      BY <1>0, <1>2, <2>1 DEF MatchInv, MatchTypeOK, GameMatchOnly
    <2> QED
      BY <1>0, <1>2, <2>1, <2>2, <2>3, <2>4, <2>5 DEF MatchInv, GameMatchOnly
  <1>3. CASE TickFinds
    <2>1. /\ switch = "on" /\ tick' = [at |-> "next", todo |-> Present, goon |-> {}]
          /\ UNCHANGED <<field, died, originals, switch, undo, raced>>
      BY <1>3 DEF TickFinds
    <2>2. MatchTypeOK'
      <3>1. Cardinality({}) <= 1
        BY FS_EmptySet
      <3> QED
        BY <1>0, <2>1, <3>1 DEF MatchTypeOK, Present
    <2>3. Remembered => Remembered'
      BY <2>1 DEF Remembered, OwnValues, Undoing
    <2> QED
      BY <1>0, <2>1, <2>2, <2>3 DEF MatchInv, Present
  <1>4. ASSUME NEW g \in tick.todo, tick.at = "next", Captured(g),
               tick' = [at |-> "write", todo |-> tick.todo \ {g}, goon |-> {g}],
               UNCHANGED <<field, died, switch, undo, raced>>
        PROVE  MatchInv'
    <2>1. /\ g \in Goons
          /\ originals'[g] = (IF originals[g] = None_M THEN field[g] ELSE originals[g])
          /\ \A h \in Goons \ {g} : originals'[h] = originals[h]
          /\ originals' \in [Goons -> Goons \cup {Stamp, None_M}]
      BY <1>0, <1>4 DEF Captured, MatchTypeOK
    <2>2. MatchTypeOK'
      <3>1. Cardinality({g}) <= 1
        <4>1. Cardinality({g}) = 1
          BY FS_Singleton
        <4> QED
          BY <4>1
      <3> QED
        BY <1>0, <1>4, <2>1, <3>1 DEF MatchTypeOK
    <2>3. ASSUME Remembered PROVE Remembered'
      <3>1. switch # "off" /\ undo = NoOriginals /\ OwnValues(originals)
        BY <1>4, <2>3 DEF Remembered, Undoing
      <3>2. field[g] = Stamp => originals[g] = g
        BY <2>1, <2>3, <3>1, NoOriginalsIs, GoonsDiffer DEF Remembered
      <3>3. originals'[g] \in {g, None_M} /\ (originals'[g] = g \/ g \in died)
        BY <1>0, <1>4, <2>1, <3>1, <3>2, GoonsDiffer DEF OwnValues, MatchInv
      <3>4. OwnValues(originals')
        BY <2>1, <3>1, <3>3 DEF OwnValues
      <3>5. \A h \in Goons : field[h] = Stamp => originals'[h] = h \/ undo[h] = h
        BY <2>1, <2>3, <3>2, GoonsDiffer DEF Remembered
      <3> QED
        BY <1>4, <2>3, <3>1, <3>3, <3>4, <3>5 DEF Remembered, Undoing
    <2>4. \A h \in Goons : originals'[h] \in {h, Stamp, None_M}
      BY <1>0, <2>1
    <2>5. /\ \A h \in died' : field'[h] = None_M
          /\ \A h \in tick'.todo : field'[h] # None_M \/ h \in died'
      BY <1>4 DEF MatchInv
    <2> QED
      BY <1>0, <1>4, <2>2, <2>3, <2>4, <2>5 DEF MatchInv
  <1>5. CASE TickWrites
    <2>1. /\ tick.at = "write" /\ tick' \in [at : {"next"}, todo : {tick.todo}, goon : {{}}]
          /\ field' = [g \in Goons |-> IF g \in tick.goon \cap Present THEN Stamp ELSE field[g]]
          /\ UNCHANGED <<died, originals, switch, undo, raced>>
      BY <1>0, <1>5 DEF TickWrites, MatchTypeOK
    <2>2. MatchTypeOK'
      <3>1. Cardinality({}) <= 1
        BY FS_EmptySet
      <3> QED
        BY <1>0, <2>1, <3>1 DEF MatchTypeOK
    <2>3. ASSUME NEW g \in Goons
          PROVE  /\ field'[g] \in {g, Stamp, None_M} /\ (field'[g] = None_M <=> field[g] = None_M)
                 /\ field'[g] = Stamp => field[g] = Stamp \/ (g \in tick.goon /\ field[g] # None_M)
      BY <1>0, <2>1 DEF Present, Stamp, None_M
    <2>4. ASSUME Remembered PROVE Remembered'
      <3>1. ASSUME NEW g \in Goons, field'[g] = Stamp PROVE originals[g] = g \/ undo[g] = g
        BY <2>3, <2>4, <3>1 DEF Remembered, MatchInv
      <3> QED
        BY <2>1, <2>4, <3>1 DEF Remembered, Undoing
    <2> QED
      BY <1>0, <2>1, <2>2, <2>3, <2>4 DEF MatchInv, MatchTypeOK
  <1>6. CASE TickEnds
    <2>1. /\ tick.at = "next" /\ tick' \in [at : {"rest"}, todo : {tick.todo}, goon : {tick.goon}]
          /\ UNCHANGED <<field, died, originals, switch, undo, raced>>
      BY <1>0, <1>6 DEF TickEnds, MatchTypeOK
    <2>2. MatchTypeOK' /\ (Remembered => Remembered')
      BY <1>0, <2>1 DEF MatchTypeOK, Remembered, Undoing
    <2> QED
      BY <1>0, <2>1, <2>2 DEF MatchInv
  <1>7. CASE MatchOn
    <2>1. /\ switch' = "on" /\ (raced' <=> raced \/ Undoing) /\ raced' \in BOOLEAN
          /\ UNCHANGED <<field, died, originals, tick, undo>>
      BY <1>7 DEF MatchOn
    <2>2. MatchTypeOK' /\ (~Undoing /\ Remembered => Remembered')
      BY <1>0, <2>1 DEF MatchTypeOK, Remembered, Undoing
    <2> QED
      BY <1>0, <2>1, <2>2 DEF MatchInv
  <1>8. CASE MatchOff
    <2>1. /\ undo = NoOriginals /\ undo' = originals /\ originals' = NoOriginals /\ switch' = "off"
          /\ (raced' <=> raced \/ tick.at # "rest") /\ raced' \in BOOLEAN
          /\ UNCHANGED <<field, died, tick>>
      BY <1>8 DEF MatchOff, Undoing
    <2>2. MatchTypeOK'
      BY <1>0, <2>1, NoOriginalsIs DEF MatchTypeOK
    <2>3. ASSUME tick.at = "rest", Remembered PROVE Remembered'
      <3>1. tick.goon = {}
        BY <2>3 DEF MatchInv
      <3> QED
        BY <2>1, <2>3, <3>1, NoOriginalsIs, GoonsDiffer DEF Remembered
    <2> QED
      BY <1>0, <2>1, <2>2, <2>3 DEF MatchInv
  <1>9. CASE MatchDetach
    <2>1. /\ switch = "on" /\ switch' = "left"
          /\ UNCHANGED <<field, died, originals, tick, undo, raced>>
      BY <1>9 DEF MatchDetach
    <2>2. MatchTypeOK' /\ (Remembered => Remembered')
      BY <1>0, <2>1 DEF MatchTypeOK, Remembered, Undoing
    <2> QED
      BY <1>0, <2>1, <2>2 DEF MatchInv
  <1>10. ASSUME NEW g \in Goons, undo[g] # None_M, undo' = [undo EXCEPT ![g] = None_M],
                field' = [field EXCEPT ![g] = IF g \in Present THEN undo[g] ELSE field[g]],
                UNCHANGED <<died, originals, switch, tick, raced>>
         PROVE  MatchInv'
    <2>1. /\ undo' \in [Goons -> Goons \cup {Stamp, None_M}] /\ undo'[g] = None_M
          /\ field'[g] = IF field[g] # None_M THEN undo[g] ELSE None_M
          /\ field' \in [Goons -> Goons \cup {Stamp, None_M}]
          /\ \A h \in Goons \ {g} : undo'[h] = undo[h] /\ field'[h] = field[h]
      BY <1>0, <1>10 DEF MatchTypeOK, Present
    <2>2. MatchTypeOK'
      BY <1>0, <1>10, <2>1 DEF MatchTypeOK
    <2>3. field'[g] \in {g, Stamp, None_M} /\ (field'[g] = None_M <=> field[g] = None_M)
      BY <1>0, <1>10, <2>1, GoonsDiffer
    <2>4. ASSUME Remembered PROVE Remembered'
      <3>1. switch = "off" /\ undo[g] = g
        BY <1>10, <2>4, NoOriginalsIs DEF Remembered, Undoing, OwnValues
      <3>2. OwnValues(undo') /\ field'[g] \in {g, None_M}
        BY <2>1, <2>4, <3>1 DEF Remembered, OwnValues
      <3>3. \A h \in Goons : field'[h] = Stamp => originals[h] = h \/ undo'[h] = h
        BY <2>1, <2>4, <3>2, GoonsDiffer DEF Remembered
      <3> QED
        BY <1>10, <2>4, <3>1, <3>2, <3>3 DEF Remembered
    <2> QED
      BY <1>0, <1>10, <2>1, <2>2, <2>3, <2>4 DEF MatchInv, MatchTypeOK
  <1>11. CASE UNCHANGED matchVars
    BY <1>11 DEF matchVars, MatchInv, MatchTypeOK, Remembered, OwnValues, Undoing
  <1> QED
    BY <1>1, <1>2, <1>3, <1>4, <1>5, <1>6, <1>7, <1>8, <1>9, <1>10, <1>11
    DEF MatchNext, GoonSpawns, GoonDies, TickCaptures, UndoOne

\* The stamps, the originals and the tick keep their types (freeze_originals is a map
\* from an address to the bytes that were there).
THEOREM MatchTypeCorrect == MatchSpec => []MatchTypeOK
  <1>1. MatchInv => MatchTypeOK
    BY DEF MatchInv
  <1> QED
    BY <1>1, MatchInitial, MatchStep, PTL DEF MatchSpec

\* Off and at rest, every live object has its own value: the originals are complete and
\* never a stamp of our own, over any objects that spawn and die, any ticks, and any
\* detaches and re-attaches, as long as no tick and no restore have overlapped
\* (write_freeze_for_matching, restore).
THEOREM OffCorrect == MatchSpec => []OffUnstamps
  <1>1. MatchInv => OffUnstamps
    <2> SUFFICES ASSUME MatchInv, switch = "off", ~raced, undo = NoOriginals, NEW g \in Present
                 PROVE  field[g] = g
      BY DEF OffUnstamps, Undoing
    <2>1. g \in Goons /\ field[g] \in {g, Stamp} /\ originals = NoOriginals
      BY DEF MatchInv, Remembered, Present
    <2> QED
      BY <2>1, NoOriginalsIs, GoonsDiffer DEF MatchInv, Remembered
  <1> QED
    BY <1>1, MatchInitial, MatchStep, PTL DEF MatchSpec

-----------------------------------------------------------------------------
(* Signatures.                                                              *)

\* A feature exists only of a signature that validate() has let through.
SpecInv ==
    /\ SpecTypeOK
    /\ stage = "feature" => Valid
    /\ stage # "feature" => did = Nothing
    /\ OperationsServed

LEMMA OneOfSome == ASSUME NEW some, OneOf(some) PROVE spec.has \cap some # {}
  BY FS_EmptySet DEF OneOf

\* What an operation of a validated feature may do.
LEMMA OperateServes ==
  ASSUME SpecTypeOK, Valid, Operate
  PROVE  /\ did' \in [op : {"resolve", "read", "write", "quick_check", "snapshot", "restore",
                           "status_text"},
                      requests : SUBSET {"find", "property", "call", "scan_heap", "scan_module",
                                         "read", "write", "patch"},
                      panicked : {FALSE}]
         /\ did'.requests \cap {"find", "property", "call"} # {} => RequiredEngine = "ue5"
  <1> DEFINE w == spec.write
             Served(requests) ==
                 /\ requests \subseteq {"find", "property", "call", "scan_heap", "scan_module",
                                        "read", "write", "patch"}
                 /\ requests \cap {"find", "property", "call"} # {} => RequiredEngine = "ue5"
  <1>1. SUFFICES \E op \in {"resolve", "read", "write", "quick_check", "snapshot", "restore",
                            "status_text"} :
                   \E requests : Served(requests) /\ Does(op, requests, FALSE)
    BY DEF Does
  <1>2. w \in Strategies
    BY DEF SpecTypeOK
  <1>3. w \notin Discovering \cup {"engine_action"} => spec.has \cap Locators # {}
    BY OneOfSome DEF Valid
  <1>4. w = "freeze_for_matching" => OneOf({"constant", "bytes"})
    BY DEF Valid, MatchingValid
  <1>5. w \in {"call_instance_ufunction", "teleport_to_waypoint"} => Has("reflection")
    BY DEF Valid, CallValid, Has
  <1>6. CASE Resolved
    <2>1. CASE w = "engine_action"
      <3>1. Does("resolve", {}, FALSE)
        BY <1>6, <2>1 DEF Resolved, Discovering
      <3> QED
        BY <3>1
    <2>2. CASE w \in Discovering
      <3>1. Does("resolve", {"find"}, FALSE)
        BY <1>6, <2>2 DEF Resolved, Discovering
      <3> QED
        BY <2>2, <3>1 DEF RequiredEngine
    <2>3. CASE w \notin Discovering \cup {"engine_action"}
      <3> DEFINE base == CASE Has("reflection") -> Reflected
                           [] ~Has("reflection") /\ Has("heap_scan") -> {"scan_heap", "read"}
                           [] OTHER -> {"scan_module", "read"}
      <3>1. Does("resolve", base, spec.has \cap Locators = {})
        BY <1>6, <2>3 DEF Resolved
      <3>2. Does("resolve", base, FALSE)
        BY <1>3, <2>3, <3>1 DEF Does
      <3>3. Served(base)
        BY DEF Reflected, RequiredEngine
      <3> QED
        BY <3>2, <3>3
    <2> QED
      BY <2>1, <2>2, <2>3
  <1>7. CASE ReadValue
    <2> DEFINE reads == IF w = "code_patch" THEN {"read"}
                        ELSE IF w \in Plain
                               THEN IF Has("reflection") THEN Reflected ELSE {"read"}
                               ELSE {}
    <2>1. Does("read", reads, FALSE)
      BY <1>7 DEF ReadValue, Plain
    <2>2. Served(reads)
      BY DEF Reflected, RequiredEngine
    <2> QED
      BY <2>1, <2>2
  <1>8. CASE Written
    <2>1. CASE w = "engine_action"
      <3>1. Does("write", {}, FALSE)
        BY <1>8, <2>1 DEF Written
      <3> QED
        BY <3>1
    <2>2. CASE w = "code_patch"
      <3>1. Does("write", {"patch"}, FALSE)
        BY <1>8, <2>2 DEF Written
      <3> QED
        BY <3>1
    <2>3. CASE w = "freeze_for_matching"
      <3>1. Does("write", Reflected \cup {"write"}, ~OneOf({"constant", "bytes"}))
        BY <1>8, <2>3 DEF Written
      <3>2. Does("write", Reflected \cup {"write"}, FALSE)
        BY <1>4, <2>3, <3>1 DEF Does
      <3>3. Served(Reflected \cup {"write"})
        BY <2>3 DEF Reflected, RequiredEngine, Discovering
      <3> QED
        BY <3>2, <3>3
    <2>4. CASE w \in {"set_progress_tags", "play_anim_montage_for_matching", "call_instance_ufunction",
                      "teleport_to_waypoint"}
      <3>1. Does("write", Reflected \cup {"call"}, FALSE)
        <4>1. CASE w = "call_instance_ufunction"
          <5>1. Does("write", Reflected \cup {"call"}, ~Has("reflection"))
            BY <1>8, <4>1 DEF Written
          <5> QED
            BY <1>5, <4>1, <5>1 DEF Does
        <4>2. CASE w # "call_instance_ufunction"
          BY <1>8, <2>4, <4>2 DEF Written
        <4> QED
          BY <4>1, <4>2
      <3>2. Served(Reflected \cup {"call"})
        BY <2>4 DEF Reflected, RequiredEngine, Discovering
      <3> QED
        BY <3>1, <3>2
    <2>5. CASE w \in Plain
      <3> DEFINE writes == (IF Has("reflection") THEN Reflected ELSE {}) \cup {"write"}
      <3>1. Does("write", writes, FALSE)
        BY <1>8, <2>5 DEF Written, Plain
      <3>2. Served(writes)
        BY DEF Reflected, RequiredEngine
      <3> QED
        BY <3>1, <3>2
    <2> QED
      BY <1>2, <2>1, <2>2, <2>3, <2>4, <2>5 DEF Strategies, Discovering
  <1>9. CASE QuickChecked
    <2>1. Does("quick_check", {"read"}, FALSE) \/ Does("quick_check", {}, FALSE)
      BY <1>9 DEF QuickChecked
    <2> QED
      BY <2>1
  <1>10. CASE Snapshotted
    <2>1. Does("snapshot", {"read"}, FALSE) \/ Does("snapshot", {}, FALSE)
      BY <1>10 DEF Snapshotted
    <2> QED
      BY <2>1
  <1>11. CASE Restored
    <2>1. Does("restore", {"write"}, FALSE) \/ Does("restore", {}, FALSE)
      BY <1>11 DEF Restored
    <2> QED
      BY <2>1
  <1>12. CASE StatusTexted
    <2>1. CASE w = "teleport_to_waypoint"
      <3>1. Does("status_text", Reflected, FALSE)
        BY <1>12, <2>1 DEF StatusTexted
      <3> QED
        BY <2>1, <3>1 DEF RequiredEngine, Reflected
    <2>2. CASE w # "teleport_to_waypoint"
      BY <1>12, <2>2 DEF StatusTexted
    <2> QED
      BY <2>1, <2>2
  <1> QED
    BY <1>6, <1>7, <1>8, <1>9, <1>10, <1>11, <1>12 DEF Operate

LEMMA SpecInitial == SpecInit => SpecInv
  BY DEF SpecInit, SpecInv, SpecTypeOK, OperationsServed, Nothing, Strategies, Plain, Optional

LEMMA SpecStep == SpecInv /\ [SpecNext]_specVars => SpecInv'
  <1> SUFFICES ASSUME SpecInv, [SpecNext]_specVars PROVE SpecInv'
    OBVIOUS
  <1>1. CASE Parse
    <2>1. PICK v \in Strategies : \E x \in SUBSET Optional(v) : spec' = [write |-> v, has |-> x]
      BY <1>1 DEF Parse
    <2>2. stage = "none" /\ stage' = "parsed" /\ did' = did
      BY <1>1 DEF Parse
    <2>3. PICK h \in SUBSET Optional(v) : spec' = [write |-> v, has |-> h]
      BY <2>1
    <2>4. h \in SUBSET UNION {Optional(x) : x \in Strategies}
      OBVIOUS
    <2>5. SpecTypeOK'
      BY <2>2, <2>3, <2>4 DEF SpecInv, SpecTypeOK
    <2> QED
      BY <2>2, <2>5 DEF SpecInv, OperationsServed, Nothing
  <1>2. CASE Validate
    <2>1. /\ stage = "parsed" /\ stage' \in {"feature", "refused"} /\ (stage' = "feature" => Valid)
          /\ UNCHANGED <<spec, did>>
      BY <1>2 DEF Validate
    <2>2. Valid' <=> Valid
      BY <2>1 DEF Valid, Has, OneOf, MatchingValid, MontageValid, CallValid
    <2> QED
      BY <2>1, <2>2 DEF SpecInv, SpecTypeOK, OperationsServed, RequiredEngine, Has
  <1>3. CASE Operate
    <2>1. stage = "feature" /\ Valid /\ SpecTypeOK /\ UNCHANGED <<spec, stage>>
      BY <1>3 DEF Operate, SpecInv
    <2>2. /\ did' \in [op : {"resolve", "read", "write", "quick_check", "snapshot", "restore",
                            "status_text"},
                       requests : SUBSET {"find", "property", "call", "scan_heap", "scan_module",
                                          "read", "write", "patch"},
                       panicked : {FALSE}]
          /\ did'.requests \cap {"find", "property", "call"} # {} => RequiredEngine = "ue5"
      BY <1>3, <2>1, OperateServes
    <2>3. Valid' /\ RequiredEngine' = RequiredEngine
      BY <2>1 DEF Valid, Has, OneOf, MatchingValid, MontageValid, CallValid, RequiredEngine
    <2>4. SpecTypeOK'
      BY <2>1, <2>2 DEF SpecTypeOK
    <2> QED
      BY <2>1, <2>2, <2>3, <2>4 DEF SpecInv, OperationsServed
  <1>4. CASE UNCHANGED specVars
    <2>1. Valid' <=> Valid
      BY <1>4 DEF specVars, Valid, Has, OneOf, MatchingValid, MontageValid, CallValid
    <2> QED
      BY <1>4, <2>1 DEF specVars, SpecInv, SpecTypeOK, OperationsServed, RequiredEngine, Has
  <1> QED
    BY <1>1, <1>2, <1>3, <1>4 DEF SpecNext

\* A parsed signature has what a file of its strategy can have, and an operation makes
\* only requests that the session knows.
THEOREM SpecTypeCorrect == SpecSpec => []SpecTypeOK
  <1>1. SpecInv => SpecTypeOK
    BY DEF SpecInv
  <1> QED
    BY <1>1, SpecInitial, SpecStep, PTL DEF SpecSpec

\* No signature that validate() lets through takes an operation to an expect() or an
\* unreachable!(), and one whose operations need the engine's reflection says so in
\* required_engine: for every strategy and everything a file may have or lack.
THEOREM ServedCorrect == SpecSpec => []OperationsServed
  <1>1. SpecInv => OperationsServed
    BY DEF SpecInv
  <1> QED
    BY <1>1, SpecInitial, SpecStep, PTL DEF SpecSpec

-----------------------------------------------------------------------------
(* FeatureCards.  An entry takes only what a resolution can come to, a     *)
(* badge only what a probe can say, whoever writes them.                   *)

LEMMA ResolutionComesTo ==
  ASSUME CardsAssumption, NEW f \in Cards
  PROVE  StatusOf(Resolution(f)) \in Statuses /\ HealthOf(f) \in {"active", "waiting"}
  BY DEF StatusOf, Statuses, HealthOf

LEMMA PromotionKeeps ==
  ASSUME CardsTypeOK, NEW f \in Cards
  PROVE  Promoted(f) \in [Cards -> Statuses \cup {"none"}]
  <1>1. StatusOf(Resolution(f)) \in Statuses
    BY ResolutionComesTo, CardsAssumption
  <1> QED
    BY <1>1 DEF Promoted, CardsTypeOK

LEMMA CardsInitType == CardsInit => CardsTypeOK
  BY CardsAssumption
  DEF CardsInit, CardsTypeOK, Statuses, Healths, NoManual, NoRetry

\* attach and detach.
LEMMA AttachKeepsCards ==
  ASSUME CardsTypeOK, Activate \/ Deactivate \/ AttachMoves
  PROVE  CardsTypeOK'
  <1> USE DEF CardsTypeOK, BadgesOnly, TasksOnly
  <1>1. CASE Activate
    <2>1. round' \in 0 .. MaxRounds
      BY <1>1, CardsAssumption DEF Activate
    <2> QED
      BY <1>1, <2>1 DEF Activate
  <1>2. CASE Deactivate
    BY <1>2 DEF Deactivate, Statuses, Healths
  <1>3. ASSUME NEW f \in Cards, ResolveOne(f) PROVE CardsTypeOK'
    <2>1. StatusOf(Resolution(f)) \in Statuses /\ "resolved" \in Statuses
      BY ResolutionComesTo, CardsAssumption DEF Statuses
    <2>2. entry' \in [Cards -> Statuses \cup {"none"}]
      BY <1>3, <2>1 DEF ResolveOne
    <2> QED
      BY <1>3, <2>2 DEF ResolveOne
  <1>4. ASSUME NEW f \in Cards, FinalizeOne(f) PROVE CardsTypeOK'
    BY <1>4, PromotionKeeps DEF FinalizeOne
  <1>5. ASSUME NEW f \in Cards, ReadOne(f) PROVE CardsTypeOK'
    <2>1. HealthOf(f) \in Healths
      BY ResolutionComesTo, CardsAssumption DEF Healths
    <2>2. badge' \in [Cards -> Healths] /\ healthy' \in [Cards -> Healths]
      BY <1>5, <2>1 DEF ReadOne
    <2> QED
      BY <1>5, <2>2 DEF ReadOne
  <1>6. CASE Finalizing
    BY <1>6 DEF Finalizing, Pending
  <1>7. CASE Publish
    BY <1>7 DEF Publish
  <1>8. CASE Attached
    <2>1. [NoRetry EXCEPT !.at = "asleep"] \in
              [at : {"off", "asleep", "busy"}, ids : SUBSET Cards, empty : 0 .. 1]
      BY DEF NoRetry
    <2>2. retrying' \in [Rounds ->
              [at : {"off", "asleep", "busy"}, ids : SUBSET Cards, empty : 0 .. 1]]
      BY <1>8, <2>1 DEF Attached
    <2> QED
      BY <1>8, <2>2 DEF Attached, Healths
  <1> QED
    BY <1>1, <1>2, <1>3, <1>4, <1>5, <1>6, <1>7, <1>8 DEF AttachMoves

\* The retry tasks.
LEMMA RetryKeepsCards ==
  ASSUME CardsTypeOK, NEW r \in Rounds, RetryMoves(r)
  PROVE  CardsTypeOK'
  <1> DEFINE Retry == [at : {"off", "asleep", "busy"}, ids : SUBSET Cards, empty : 0 .. 1]
  <1> USE DEF CardsTypeOK, BadgesOnly
  <1>0. retrying \in [Rounds -> Retry] /\ retrying[r] \in Retry
    OBVIOUS
  <1>1. CASE RetryWakes(r)
    <2> DEFINE next == IF ~Published \/ (Pending = {} /\ retrying[r].empty = 1) THEN NoRetry
                       ELSE IF Pending = {} THEN [retrying[r] EXCEPT !.empty = 1]
                       ELSE [at |-> "busy", ids |-> Pending, empty |-> 0]
    <2>1. NoRetry \in Retry
      BY DEF NoRetry
    <2>2. [retrying[r] EXCEPT !.empty = 1] \in Retry
      BY <1>0
    <2>3. [at |-> "busy", ids |-> Pending, empty |-> 0] \in Retry
      BY DEF Pending
    <2>4. next \in Retry
      <3> HIDE DEF Retry
      <3> QED
        BY <2>1, <2>2, <2>3
    <2>5. retrying' = [retrying EXCEPT ![r] = next]
      BY <1>0, <1>1 DEF RetryWakes
    <2> HIDE DEF next, Retry
    <2>6. retrying' \in [Rounds -> Retry]
      BY <1>0, <2>4, <2>5
    <2> QED
      BY <1>1, <2>6 DEF RetryWakes, Retry
  <1>2. ASSUME NEW f \in Cards, RetryOne(r, f) PROVE CardsTypeOK'
    <2>1. entry' \in [Cards -> Statuses \cup {"none"}]
      BY <1>2, PromotionKeeps DEF RetryOne
    <2>2. retrying' \in [Rounds -> Retry]
      BY <1>0, <1>2 DEF RetryOne
    <2> QED
      BY <1>2, <2>1, <2>2 DEF RetryOne
  <1>3. CASE RetryRests(r)
    <2>1. retrying' \in [Rounds -> Retry]
      BY <1>0, <1>3 DEF RetryRests
    <2> QED
      BY <1>3, <2>1 DEF RetryRests
  <1> QED
    BY <1>1, <1>2, <1>3 DEF RetryMoves

LEMMA CardsNextType == CardsTypeOK /\ [CardsNext]_cardVars => CardsTypeOK'
  <1> SUFFICES ASSUME CardsTypeOK, [CardsNext]_cardVars PROVE CardsTypeOK'
    OBVIOUS
  <1> USE DEF CardsTypeOK, BadgesOnly, TasksOnly
  <1>1. ASSUME NEW to \in {"menu", "foot", "vehicle"}, PlayerMoves(to) PROVE CardsTypeOK'
    BY <1>1 DEF PlayerMoves
  <1>2. ASSUME NEW f \in Cards, ProbeTick(f) PROVE CardsTypeOK'
    <2>1. HealthOf(f) \in Healths
      BY ResolutionComesTo, CardsAssumption DEF Healths
    <2>2. badge' \in [Cards -> Healths] /\ healthy' \in [Cards -> Healths]
      BY <1>2, <2>1 DEF ProbeTick
    <2> QED
      BY <1>2, <2>2 DEF ProbeTick
  <1>3. ASSUME NEW f \in Cards, RetryClicked(f) PROVE CardsTypeOK'
    <2>1. StatusOf(Resolution(f)) \in Statuses
      BY ResolutionComesTo, CardsAssumption
    <2>2. manual' \in [card : Cards, status : Statuses]
      BY <1>3, <2>1 DEF RetryClicked
    <2> QED
      BY <1>3, <2>2 DEF RetryClicked
  <1>4. CASE RetryAnswered
    <2>1. manual \in [card : Cards, status : Statuses]
      BY <1>4 DEF RetryAnswered
    <2>2. entry' \in [Cards -> Statuses \cup {"none"}]
      BY <1>4, <2>1 DEF RetryAnswered
    <2>3. kept' \subseteq Cards
      BY <1>4, <2>1 DEF RetryAnswered
    <2> QED
      BY <1>4, <2>2, <2>3 DEF RetryAnswered
  <1>5. CASE UNCHANGED cardVars
    BY <1>5 DEF cardVars
  <1> HIDE DEF CardsTypeOK, BadgesOnly, TasksOnly
  <1> QED
    BY <1>1, <1>2, <1>3, <1>4, <1>5, AttachKeepsCards, RetryKeepsCards DEF CardsNext

\* Whichever of the sweep, the probes, the retry tasks and the user's own retry come in
\* between: a feature is resolved, pending or failed, a badge says active or waiting.
THEOREM CardsTypeCorrect == CardsSpec => []CardsTypeOK
  BY CardsInitType, CardsNextType, PTL DEF CardsSpec

-----------------------------------------------------------------------------
(* KeybindStore.  The store's two indices are inverse functions after every *)
(* operation, which makes its file injective, and that is what the start   *)
(* of the app needs to build by_chord from it.  The chords of the          *)
(* operating system are compared with the index that the command in        *)
(* progress will leave.                                                    *)


\* The functions from a subset of S to T, by their domain and their values.
LEMMA PartialIs ==
  ASSUME NEW S, NEW T, NEW fn
  PROVE  fn \in Partial(S, T) <=> DOMAIN fn \subseteq S /\ fn \in [DOMAIN fn -> T]
  <1>1. ASSUME fn \in Partial(S, T) PROVE DOMAIN fn \subseteq S /\ fn \in [DOMAIN fn -> T]
    <2>1. PICK D \in SUBSET S : fn \in [D -> T]
      BY <1>1 DEF Partial
    <2> QED
      BY <2>1
  <1>2. ASSUME DOMAIN fn \subseteq S, fn \in [DOMAIN fn -> T] PROVE fn \in Partial(S, T)
    BY <1>2 DEF Partial
  <1> QED
    BY <1>1, <1>2

\* HashMap::remove, of a set of keys.
LEMMA WithoutType ==
  ASSUME NEW S, NEW T, NEW fn \in Partial(S, T), NEW xs
  PROVE  Without(fn, xs) \in Partial(S, T)
  <1>1. Without(fn, xs) = [z \in DOMAIN fn \ xs |-> fn[z]]
    BY DEF Without, Restrict
  <1>2. DOMAIN fn \subseteq S /\ fn \in [DOMAIN fn -> T]
    BY PartialIs
  <1> QED
    BY <1>1, <1>2, PartialIs

LEMMA WithoutIs ==
  ASSUME NEW fn, NEW xs
  PROVE  /\ DOMAIN Without(fn, xs) = DOMAIN fn \ xs
         /\ \A z \in DOMAIN fn \ xs : Without(fn, xs)[z] = fn[z]
  BY DEF Without, Restrict

\* HashMap::insert.
LEMMA WithType ==
  ASSUME NEW S, NEW T, NEW fn \in Partial(S, T), NEW x \in S, NEW y \in T
  PROVE  With(fn, x, y) \in Partial(S, T)
  <1>1. DOMAIN fn \subseteq S /\ fn \in [DOMAIN fn -> T]
    BY PartialIs
  <1>2. DOMAIN With(fn, x, y) = DOMAIN fn \cup {x}
    BY DEF With
  <1>3. With(fn, x, y) \in [DOMAIN fn \cup {x} -> T]
    BY <1>1 DEF With
  <1> QED
    BY <1>1, <1>2, <1>3, PartialIs

LEMMA EmptyIs == ASSUME NEW S, NEW T PROVE <<>> \in Partial(S, T) /\ DOMAIN <<>> = {}
  <1>1. DOMAIN <<>> = {}
    OBVIOUS
  <1>2. <<>> \in [{} -> T]
    OBVIOUS
  <1> QED
    BY <1>1, <1>2, PartialIs

-----------------------------------------------------------------------------
(* The store.                                                               *)

KeyStores == [bindings : Partial(Features, Chords), byChord : Partial(Chords, Features)]

\* Each of the two indices is the other one read backwards.
IndicesAgree(s) ==
    /\ \A f \in DOMAIN s.bindings :
          s.bindings[f] \in DOMAIN s.byChord /\ s.byChord[s.bindings[f]] = f
    /\ \A c \in DOMAIN s.byChord :
          s.byChord[c] \in DOMAIN s.bindings /\ s.bindings[s.byChord[c]] = c

\* What the file must be for by_chord to be built from it: no chord twice.
NoChordTwice(bindings) ==
    \A f, g \in DOMAIN bindings : bindings[f] = bindings[g] => f = g

LEMMA AgreeNoneTwice ==
  ASSUME NEW s \in KeyStores, IndicesAgree(s) PROVE NoChordTwice(s.bindings)
  BY DEF IndicesAgree, NoChordTwice

\* The previous chord of the feature, if the command gives it another one.
Previous(s, f, c) ==
    IF f \in DOMAIN s.bindings /\ s.bindings[f] # c THEN {s.bindings[f]} ELSE {}

LEMMA StoreSetAgrees ==
  ASSUME NEW s \in KeyStores, IndicesAgree(s), NEW f \in Features, NEW c \in Chords
  PROVE  /\ StoreSet(s, f, c) \in KeyStores
         /\ IndicesAgree(StoreSet(s, f, c))
         /\ DOMAIN StoreSet(s, f, c).byChord
              = (DOMAIN s.byChord \ Previous(s, f, c)) \cup {c}
  <1> DEFINE holder == IF c \in DOMAIN s.byChord THEN {s.byChord[c]} ELSE {}
             freed == Without(s.bindings, holder)
             previous == IF f \in DOMAIN freed THEN {freed[f]} ELSE {}
             rest == Without(s.byChord, previous)
             b == With(freed, f, c)
             r == With(rest, c, f)
  <1>1. StoreSet(s, f, c) = [bindings |-> b, byChord |-> r]
    BY DEF StoreSet
  <1>2. s.bindings \in Partial(Features, Chords) /\ s.byChord \in Partial(Chords, Features)
    BY DEF KeyStores
  <1>3. /\ freed \in Partial(Features, Chords)
        /\ DOMAIN freed = DOMAIN s.bindings \ holder
        /\ \A g \in DOMAIN s.bindings \ holder : freed[g] = s.bindings[g]
    <2> HIDE DEF holder
    <2> QED
      BY <1>2, WithoutType, WithoutIs
  <1>4. /\ rest \in Partial(Chords, Features)
        /\ DOMAIN rest = DOMAIN s.byChord \ previous
        /\ \A d \in DOMAIN s.byChord \ previous : rest[d] = s.byChord[d]
    <2> HIDE DEF previous
    <2> QED
      BY <1>2, WithoutType, WithoutIs
  <1> HIDE DEF freed, rest
  <1>5. /\ b \in Partial(Features, Chords)
        /\ DOMAIN b = DOMAIN freed \cup {f}
        /\ b[f] = c
        /\ \A g \in DOMAIN freed \ {f} : b[g] = freed[g]
    <2>1. freed \in Partial(Features, Chords)
      BY <1>3
    <2>2. b \in Partial(Features, Chords)
      BY <2>1, WithType
    <2> QED
      BY <2>2 DEF With
  <1>6. /\ r \in Partial(Chords, Features)
        /\ DOMAIN r = DOMAIN rest \cup {c}
        /\ r[c] = f
        /\ \A d \in DOMAIN rest \ {c} : r[d] = rest[d]
    <2>1. rest \in Partial(Chords, Features)
      BY <1>4
    <2>2. r \in Partial(Chords, Features)
      BY <2>1, WithType
    <2> QED
      BY <2>2 DEF With
  <1> HIDE DEF b, r
  <1>7. previous = Previous(s, f, c)
    BY <1>3 DEF IndicesAgree, Previous
  <1>8. ASSUME NEW g \in DOMAIN b PROVE b[g] \in DOMAIN r /\ r[b[g]] = g
    <2>1. CASE g = f
      BY <1>5, <1>6, <2>1
    <2>2. CASE g # f
      <3>1. g \in DOMAIN s.bindings /\ g \notin holder /\ b[g] = s.bindings[g]
        BY <1>3, <1>5, <2>2
      <3>2. b[g] \in DOMAIN s.byChord /\ s.byChord[b[g]] = g
        BY <3>1 DEF IndicesAgree
      <3>3. b[g] # c /\ b[g] \notin previous
        BY <2>2, <3>1, <3>2, <1>7 DEF Previous, IndicesAgree
      <3> QED
        BY <1>4, <1>6, <3>2, <3>3
    <2> QED
      BY <2>1, <2>2
  <1>9. ASSUME NEW d \in DOMAIN r PROVE r[d] \in DOMAIN b /\ b[r[d]] = d
    <2>1. CASE d = c
      BY <1>5, <1>6, <2>1
    <2>2. CASE d # c
      <3>1. d \in DOMAIN s.byChord /\ d \notin previous /\ r[d] = s.byChord[d]
        BY <1>4, <1>6, <2>2
      <3>2. r[d] \in DOMAIN s.bindings /\ s.bindings[r[d]] = d
        BY <3>1 DEF IndicesAgree
      <3>3. r[d] # f
        BY <2>2, <3>1, <3>2, <1>7 DEF Previous
      <3>4. r[d] \notin holder
        BY <2>2, <3>2 DEF IndicesAgree
      <3> QED
        BY <1>3, <1>5, <3>2, <3>3, <3>4
    <2> QED
      BY <2>1, <2>2
  <1> QED
    BY <1>1, <1>4, <1>5, <1>6, <1>7, <1>8, <1>9 DEF KeyStores, IndicesAgree

LEMMA StoreClearAgrees ==
  ASSUME NEW s \in KeyStores, IndicesAgree(s), NEW f \in DOMAIN s.bindings
  PROVE  /\ StoreClear(s, f) \in KeyStores
         /\ IndicesAgree(StoreClear(s, f))
         /\ DOMAIN StoreClear(s, f).byChord = DOMAIN s.byChord \ {s.bindings[f]}
  <1> DEFINE gone == {f}
             freed == {s.bindings[f]}
             b == Without(s.bindings, gone)
             r == Without(s.byChord, freed)
  <1>1. StoreClear(s, f) = [bindings |-> b, byChord |-> r]
    BY DEF StoreClear
  <1>2. s.bindings \in Partial(Features, Chords) /\ s.byChord \in Partial(Chords, Features)
    BY DEF KeyStores
  <1>3. /\ b \in Partial(Features, Chords)
        /\ DOMAIN b = DOMAIN s.bindings \ {f}
        /\ \A g \in DOMAIN s.bindings \ {f} : b[g] = s.bindings[g]
    <2> HIDE DEF gone
    <2>1. /\ b \in Partial(Features, Chords)
          /\ DOMAIN b = DOMAIN s.bindings \ gone
          /\ \A g \in DOMAIN s.bindings \ gone : b[g] = s.bindings[g]
      BY <1>2, WithoutType, WithoutIs
    <2> HIDE DEF b
    <2> QED
      BY <2>1 DEF gone
  <1>4. /\ r \in Partial(Chords, Features)
        /\ DOMAIN r = DOMAIN s.byChord \ {s.bindings[f]}
        /\ \A c \in DOMAIN s.byChord \ {s.bindings[f]} : r[c] = s.byChord[c]
    <2> HIDE DEF freed
    <2>1. /\ r \in Partial(Chords, Features)
          /\ DOMAIN r = DOMAIN s.byChord \ freed
          /\ \A c \in DOMAIN s.byChord \ freed : r[c] = s.byChord[c]
      BY <1>2, WithoutType, WithoutIs
    <2> HIDE DEF r
    <2> QED
      BY <2>1 DEF freed
  <1> HIDE DEF b, r
  <1>5. ASSUME NEW g \in DOMAIN b PROVE b[g] \in DOMAIN r /\ r[b[g]] = g
    BY <1>3, <1>4 DEF IndicesAgree
  <1>6. ASSUME NEW c \in DOMAIN r PROVE r[c] \in DOMAIN b /\ b[r[c]] = c
    BY <1>3, <1>4 DEF IndicesAgree
  <1> QED
    BY <1>1, <1>3, <1>4, <1>5, <1>6 DEF KeyStores, IndicesAgree

\* rebuild_by_chord
LEMMA ReversedAgrees ==
  ASSUME NEW file \in Partial(Features, Chords), NoChordTwice(file)
  PROVE  /\ [bindings |-> file, byChord |-> Reversed(file)] \in KeyStores
         /\ IndicesAgree([bindings |-> file, byChord |-> Reversed(file)])
         /\ DOMAIN Reversed(file) = Range(file) /\ Range(file) \subseteq Chords
  <1> DEFINE r == Reversed(file)
  <1>1. DOMAIN file \subseteq Features /\ file \in [DOMAIN file -> Chords]
    BY PartialIs
  <1>2. DOMAIN r = Range(file) /\ Range(file) \subseteq Chords
    BY <1>1 DEF Reversed, Range
  <1>3. ASSUME NEW c \in Range(file) PROVE r[c] \in DOMAIN file /\ file[r[c]] = c
    <2>1. \E f \in DOMAIN file : file[f] = c
      BY DEF Range
    <2>2. r[c] = CHOOSE f \in DOMAIN file : file[f] = c
      BY DEF Reversed
    <2> QED
      BY <2>1, <2>2
  <1>4. r \in [Range(file) -> Features]
    BY <1>1, <1>3 DEF Reversed
  <1>5. r \in Partial(Chords, Features)
    BY <1>2, <1>4, PartialIs
  <1>6. ASSUME NEW f \in DOMAIN file PROVE file[f] \in DOMAIN r /\ r[file[f]] = f
    <2>1. file[f] \in Range(file)
      BY DEF Range
    <2> QED
      BY <1>2, <1>3, <2>1 DEF NoChordTwice
  <1>7. DOMAIN Reversed(file) = Range(file) /\ Range(file) \subseteq Chords
    BY <1>2
  <1> HIDE DEF r
  <1>8. [bindings |-> file, byChord |-> r] \in KeyStores /\ IndicesAgree([bindings |-> file, byChord |-> r])
    BY <1>2, <1>3, <1>5, <1>6 DEF KeyStores, IndicesAgree
  <1> QED
    BY <1>7, <1>8 DEF r

-----------------------------------------------------------------------------
(* The invariant.                                                           *)

\* The chords of by_chord once the command between its halves has ended.
Coming ==
    IF command.op = "set"
      THEN DOMAIN StoreSet(keybinds, command.feature, command.chord).byChord
      ELSE DOMAIN keybinds.byChord

KeysInv ==
    /\ KeysTypeOK
    /\ IndicesAgree(keybinds)
    /\ NoChordTwice(keysFile)
    /\ command = Down => keybinds = NoKeys
    /\ IF command.op = "unregister"
         THEN /\ os.own \subseteq Coming \cup {command.chord}
              /\ command.chord \notin Coming
         ELSE os.own \subseteq Coming
    /\ Coming \subseteq os.own \cup refused

LEMMA KeysInitial == KeysInit => KeysInv
  <1> SUFFICES ASSUME KeysInit PROVE KeysInv
    OBVIOUS
  <1>1. KeysTypeOK
    BY EmptyIs DEF KeysInit, KeysTypeOK, NoKeys, Down, Started
  <1>2. IndicesAgree(keybinds) /\ NoChordTwice(keysFile)
    BY EmptyIs DEF KeysInit, NoKeys, IndicesAgree, NoChordTwice
  <1>3. Coming = {} /\ command.op = "down"
    BY EmptyIs DEF KeysInit, NoKeys, Coming, Down
  <1> QED
    BY <1>1, <1>2, <1>3 DEF KeysInv, KeysInit

LEMMA CommandIs ==
  ASSUME KeysTypeOK
  PROVE  /\ command.op \in {"none", "down", "set", "unregister"}
         /\ command.op = "set" => command.feature \in Features /\ command.chord \in Chords
         /\ command.op = "unregister" => command.chord \in Chords
         /\ command.op = "none" <=> command = Started
         /\ command.op = "down" <=> command = Down
  BY DEF KeysTypeOK, Started, Down

\* The file after a save is injective when both stores were.
LEMMA SavedOK ==
  ASSUME NEW s \in KeyStores, IndicesAgree(s), KeysTypeOK, NoChordTwice(keysFile), Saved_K(s)
  PROVE  keysFile' \in Partial(Features, Chords) /\ NoChordTwice(keysFile')
  BY AgreeNoneTwice DEF Saved_K, KeysTypeOK, KeyStores

\* Registering chords of the store loses none of them: each is registered or refused.
LEMMA RegistersIs ==
  ASSUME KeysTypeOK, NEW cs \in SUBSET Chords, Registers(cs)
  PROVE  /\ os' \in [own : SUBSET Chords, others : SUBSET Chords] /\ refused' \subseteq Chords
         /\ os.own \subseteq os'.own /\ os'.own \subseteq os.own \cup cs
         /\ cs \subseteq os'.own \cup refused'
         /\ refused \subseteq os'.own \cup refused'
  BY DEF Registers, KeysTypeOK

LEMMA KeysStep == KeysInv /\ [KeysNext]_keyVars => KeysInv'
  <1> SUFFICES ASSUME KeysInv, [KeysNext]_keyVars PROVE KeysInv'
    OBVIOUS
  <1>0. /\ KeysTypeOK /\ keybinds \in KeyStores /\ IndicesAgree(keybinds) /\ NoChordTwice(keysFile)
        /\ DOMAIN keybinds.byChord \subseteq Chords
        /\ \A f \in DOMAIN keybinds.bindings :
              f \in Features /\ keybinds.bindings[f] \in Chords /\ keybinds.bindings[f] \in DOMAIN keybinds.byChord
    <2>1. KeysTypeOK /\ keybinds \in KeyStores /\ IndicesAgree(keybinds) /\ NoChordTwice(keysFile)
      BY DEF KeysInv, KeysTypeOK, KeyStores
    <2>2. keybinds.bindings \in Partial(Features, Chords) /\ keybinds.byChord \in Partial(Chords, Features)
      BY <2>1 DEF KeyStores
    <2>3. DOMAIN keybinds.byChord \subseteq Chords /\ DOMAIN keybinds.bindings \subseteq Features
      BY <2>2, PartialIs
    <2> QED
      BY <2>1, <2>3 DEF IndicesAgree
  <1>1. CASE OtherProgram
    <2>1. /\ os' \in [own : SUBSET Chords, others : SUBSET Chords] /\ os'.own = os.own
          /\ UNCHANGED <<keybinds, keysFile, command, refused>>
      BY <1>0, <1>1 DEF OtherProgram, KeysTypeOK
    <2>2. KeysTypeOK' /\ Coming' = Coming
      BY <1>0, <2>1 DEF KeysTypeOK, Coming
    <2> QED
      BY <2>1, <2>2 DEF KeysInv
  <1>2. CASE AppStarts
    <2>1. /\ command = Down /\ command' = Started /\ keysFile' = keysFile
          /\ keybinds' = [bindings |-> keysFile, byChord |-> Reversed(keysFile)]
          /\ Registers(Range(keysFile))
      BY <1>2 DEF AppStarts
    <2>2. /\ keybinds' \in KeyStores /\ IndicesAgree(keybinds')
          /\ DOMAIN keybinds'.byChord = Range(keysFile) /\ Range(keysFile) \subseteq Chords
      <3>1. keysFile \in Partial(Features, Chords) /\ NoChordTwice(keysFile)
        BY <1>0 DEF KeysTypeOK
      <3> QED
        BY <2>1, <3>1, ReversedAgrees
    <2>3. os.own = {}
      BY <2>1, EmptyIs DEF KeysInv, Coming, Down, NoKeys
    <2>4. /\ os' \in [own : SUBSET Chords, others : SUBSET Chords] /\ refused' \subseteq Chords
          /\ os'.own \subseteq Range(keysFile) /\ Range(keysFile) \subseteq os'.own \cup refused'
      BY <1>0, <2>1, <2>2, <2>3, RegistersIs
    <2>5. Coming' = Range(keysFile) /\ command'.op = "none"
      BY <2>1, <2>2 DEF Coming, Started
    <2>6. KeysTypeOK'
      BY <1>0, <2>1, <2>2, <2>4 DEF KeysTypeOK, KeyStores
    <2> QED
      BY <1>0, <2>1, <2>2, <2>4, <2>5, <2>6 DEF KeysInv, Down, Started
  <1>3. CASE AppEnds
    <2>1. /\ command' = Down /\ keybinds' = NoKeys /\ refused' = {} /\ keysFile' = keysFile
          /\ os' = [os EXCEPT !.own = {}]
      BY <1>3 DEF AppEnds
    <2>2. /\ os' \in [own : SUBSET Chords, others : SUBSET Chords] /\ os'.own = {}
      BY <1>0, <2>1 DEF KeysTypeOK
    <2>3. Coming' = {} /\ command'.op = "down" /\ IndicesAgree(keybinds')
      BY <2>1, EmptyIs DEF Coming, NoKeys, Down, IndicesAgree
    <2>4. keybinds' \in [bindings : Partial(Features, Chords), byChord : Partial(Chords, Features)]
      BY <2>1, EmptyIs DEF NoKeys
    <2>5. KeysTypeOK'
      BY <1>0, <2>1, <2>2, <2>4 DEF KeysTypeOK
    <2> QED
      BY <1>0, <2>1, <2>2, <2>3, <2>5 DEF KeysInv
  <1>4. ASSUME NEW f \in Features, NEW c \in Chords, SetAccepted(f, c) PROVE KeysInv'
    <2>1. /\ command = Started /\ UNCHANGED <<keybinds, keysFile>>
          /\ ~(f \in DOMAIN keybinds.bindings /\ keybinds.bindings[f] = c)
          /\ os' = [os EXCEPT !.own = (os.own \ Displaced(f, c)) \cup {c}]
          /\ refused' = refused \ {c}
          /\ command' = [op |-> "set", feature |-> f, chord |-> c]
      BY <1>4 DEF SetAccepted, Bound
    <2>2. os' \in [own : SUBSET Chords, others : SUBSET Chords]
          /\ os'.own = (os.own \ Displaced(f, c)) \cup {c}
      BY <1>0, <2>1 DEF KeysTypeOK
    <2>3. Coming = DOMAIN keybinds.byChord /\ os.own \subseteq Coming /\ Coming \subseteq os.own \cup refused
      BY <2>1 DEF KeysInv, Coming, Started
    <2>4. Coming' = (DOMAIN keybinds.byChord \ Previous(keybinds, f, c)) \cup {c}
      BY <1>0, <2>1, StoreSetAgrees DEF Coming
    <2>5. Displaced(f, c) \ {c} = Previous(keybinds, f, c) \ {c}
      BY <2>1 DEF Displaced, Previous, Bound, Conflict, Owned
    <2>6. os'.own \subseteq Coming' /\ Coming' \subseteq os'.own \cup refused'
      BY <2>1, <2>2, <2>3, <2>4, <2>5
    <2>7. KeysTypeOK'
      BY <1>0, <2>1, <2>2 DEF KeysTypeOK
    <2> QED
      BY <1>0, <2>1, <2>6, <2>7 DEF KeysInv, Down
  <1>5. ASSUME NEW f \in Features, NEW c \in Chords, SetRefused(f, c) PROVE KeysInv'
    <2>1. command = Started /\ UNCHANGED <<keybinds, keysFile, command>> /\ Registers(Displaced(f, c))
      BY <1>5 DEF SetRefused
    <2>2. Displaced(f, c) \subseteq DOMAIN keybinds.byChord
      BY <1>0 DEF Displaced, Bound, Conflict, Owned
    <2>3. /\ os' \in [own : SUBSET Chords, others : SUBSET Chords] /\ refused' \subseteq Chords
          /\ os.own \subseteq os'.own /\ os'.own \subseteq os.own \cup Displaced(f, c)
          /\ refused \subseteq os'.own \cup refused'
      BY <1>0, <2>1, <2>2, RegistersIs
    <2>4. Coming = DOMAIN keybinds.byChord /\ os.own \subseteq Coming /\ Coming \subseteq os.own \cup refused
      BY <2>1 DEF KeysInv, Coming, Started
    <2>5. Coming' = Coming
      BY <2>1 DEF Coming
    <2>6. KeysTypeOK'
      BY <1>0, <2>1, <2>3 DEF KeysTypeOK
    <2> QED
      BY <1>0, <2>1, <2>2, <2>3, <2>4, <2>5, <2>6 DEF KeysInv, Started
  <1>6. ASSUME NEW f \in Features, NEW c \in Chords, SetAgain(f, c) PROVE KeysInv'
    <2>1. /\ command = Started /\ UNCHANGED <<keybinds, keysFile, os, refused>>
          /\ f \in DOMAIN keybinds.bindings /\ keybinds.bindings[f] = c
          /\ command' = [op |-> "set", feature |-> f, chord |-> c]
      BY <1>6 DEF SetAgain, Bound
    <2>2. Coming = DOMAIN keybinds.byChord /\ os.own \subseteq Coming /\ Coming \subseteq os.own \cup refused
      BY <2>1 DEF KeysInv, Coming, Started
    <2>3. Coming' = Coming
      <3>1. Coming' = (DOMAIN keybinds.byChord \ Previous(keybinds, f, c)) \cup {c}
        BY <1>0, <2>1, StoreSetAgrees DEF Coming
      <3> QED
        BY <1>0, <2>1, <2>2, <3>1 DEF Previous
    <2>4. KeysTypeOK'
      BY <1>0, <2>1 DEF KeysTypeOK
    <2> QED
      BY <1>0, <2>1, <2>2, <2>3, <2>4 DEF KeysInv, Down
  <1>7. CASE SetStores
    <2> DEFINE s == StoreSet(keybinds, command.feature, command.chord)
    <2>1. /\ command.op = "set" /\ keybinds' = s /\ Saved_K(s) /\ command' = Started
          /\ UNCHANGED <<os, refused>>
      BY <1>7 DEF SetStores
    <2>2. s \in KeyStores /\ IndicesAgree(s)
      BY <1>0, <2>1, CommandIs, StoreSetAgrees
    <2>3. Coming = DOMAIN s.byChord /\ os.own \subseteq Coming /\ Coming \subseteq os.own \cup refused
      BY <2>1 DEF KeysInv, Coming
    <2>4. keysFile' \in Partial(Features, Chords) /\ NoChordTwice(keysFile')
      <3> HIDE DEF s
      <3> QED
        BY <1>0, <2>1, <2>2, SavedOK
    <2>5. Coming' = Coming
      BY <2>1, <2>3 DEF Coming, Started
    <2>6. KeysTypeOK'
      BY <1>0, <2>1, <2>2, <2>4 DEF KeysTypeOK, KeyStores
    <2> QED
      BY <2>1, <2>2, <2>3, <2>4, <2>5, <2>6 DEF KeysInv, Started, Down
  <1>8. ASSUME NEW f \in Features, ClearStores(f) PROVE KeysInv'
    <2> DEFINE s == StoreClear(keybinds, f)
    <2>1. /\ command = Started /\ f \in DOMAIN keybinds.bindings /\ keybinds' = s /\ Saved_K(s)
          /\ command' = [op |-> "unregister", chord |-> keybinds.bindings[f]]
          /\ UNCHANGED <<os, refused>>
      BY <1>8 DEF ClearStores, Bound
    <2>2. /\ s \in KeyStores /\ IndicesAgree(s)
          /\ DOMAIN s.byChord = DOMAIN keybinds.byChord \ {keybinds.bindings[f]}
      BY <1>0, <2>1, StoreClearAgrees
    <2>3. Coming = DOMAIN keybinds.byChord /\ os.own \subseteq Coming /\ Coming \subseteq os.own \cup refused
      BY <2>1 DEF KeysInv, Coming, Started
    <2> HIDE DEF s
    <2>4. keysFile' \in Partial(Features, Chords) /\ NoChordTwice(keysFile')
      BY <1>0, <2>1, <2>2, SavedOK
    <2>5. Coming' = Coming \ {keybinds.bindings[f]}
      BY <2>1, <2>2, <2>3 DEF Coming
    <2>6. KeysTypeOK'
      BY <1>0, <2>1, <2>2, <2>4 DEF KeysTypeOK, KeyStores
    <2> QED
      BY <2>1, <2>2, <2>3, <2>4, <2>5, <2>6 DEF KeysInv, Down
  <1>9. ASSUME NEW f \in Features, ClearNothing(f) PROVE KeysInv'
    <2>1. Saved_K(keybinds) /\ UNCHANGED <<keybinds, os, command, refused>>
      BY <1>9 DEF ClearNothing
    <2>2. keysFile' \in Partial(Features, Chords) /\ NoChordTwice(keysFile')
      BY <1>0, <2>1, SavedOK
    <2>3. KeysTypeOK' /\ Coming' = Coming
      BY <1>0, <2>1, <2>2 DEF KeysTypeOK, Coming
    <2> QED
      BY <2>1, <2>2, <2>3 DEF KeysInv
  <1>10. CASE ClearUnregisters
    <2>1. /\ command.op = "unregister" /\ os' = [os EXCEPT !.own = os.own \ {command.chord}]
          /\ command' = Started /\ UNCHANGED <<keybinds, keysFile, refused>>
      BY <1>10 DEF ClearUnregisters
    <2>2. /\ os' \in [own : SUBSET Chords, others : SUBSET Chords]
          /\ os'.own = os.own \ {command.chord}
      BY <1>0, <2>1 DEF KeysTypeOK
    <2>3. Coming' = Coming
      BY <2>1 DEF Coming, Started
    <2>4. /\ os.own \subseteq Coming \cup {command.chord} /\ command.chord \notin Coming
          /\ Coming \subseteq os.own \cup refused
      BY <2>1 DEF KeysInv
    <2>5. KeysTypeOK'
      BY <1>0, <2>1, <2>2 DEF KeysTypeOK
    <2> QED
      BY <1>0, <2>1, <2>2, <2>3, <2>4, <2>5 DEF KeysInv, Started, Down
  <1>11. CASE UNCHANGED keyVars
    <2>1. KeysTypeOK' /\ Coming' = Coming
      BY <1>0, <1>11 DEF keyVars, KeysTypeOK, Coming
    <2> QED
      BY <1>11, <2>1 DEF keyVars, KeysInv
  <1> QED
    BY <1>1, <1>2, <1>3, <1>4, <1>5, <1>6, <1>7, <1>8, <1>9, <1>10, <1>11 DEF KeysNext

-----------------------------------------------------------------------------
\* The store, the file and the registrations keep their types: in particular both
\* indices stay maps between the features and the chords (keybinds.rs).
THEOREM KeysTypeCorrect == KeysSpec => []KeysTypeOK
  <1>1. KeysInv => KeysTypeOK
    BY DEF KeysInv
  <1> QED
    BY <1>1, KeysInitial, KeysStep, PTL DEF KeysSpec

\* Between the commands, dispatch() finds for a chord exactly the feature that shows
\* it, and the system delivers the bound chords and no others, unless it has refused
\* them: after any sequence of rebindings, thefts, refusals, failed saves and restarts
\* (keybinds.rs, set_keybind and clear_keybind), for any features and chords.
THEOREM PressCorrect == KeysSpec => []PressReachesOwner
  <1>1. KeysInv => PressReachesOwner
    <2> SUFFICES ASSUME KeysInv, command = Started PROVE PressReachesOwner
      BY DEF PressReachesOwner
    <2>1. IndicesAgree(keybinds) /\ Coming = DOMAIN keybinds.byChord
      BY DEF KeysInv, Coming, Started
    <2>2. os.own \subseteq Coming /\ Coming \subseteq os.own \cup refused
      BY DEF KeysInv, Started
    <2> QED
      BY <2>1, <2>2 DEF PressReachesOwner, IndicesAgree, Bound, Owned
  <1> QED
    BY <1>1, KeysInitial, KeysStep, PTL DEF KeysSpec

\* The file never binds one chord to two features, whatever was saved and lost: the
\* by_chord that the next start builds from it is a function (load, rebuild_by_chord).
THEOREM FileCorrect == KeysSpec => []NoChordTwice(keysFile)
  <1>1. KeysInv => NoChordTwice(keysFile)
    BY DEF KeysInv
  <1> QED
    BY <1>1, KeysInitial, KeysStep, PTL DEF KeysSpec
=============================================================================
