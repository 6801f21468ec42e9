----------------------------- MODULE FeatureSpec -----------------------------
(***************************************************************************)
(* A signature file becomes a feature: what validate() lets through, and   *)
(* what each operation of a feature then does with it.                     *)
(*                                                                         *)
(*   src/crates/runtime/src/signature.rs    SignatureSpec                  *)
(*   src/crates/runtime/src/feature.rs      DeclarativeFeature             *)
(*                                                                         *)
(* A signature is its write strategy and the set of what else the file     *)
(* has: sections, fields that are given, and "bad_hex" if its bytes are    *)
(* not hex.  An operation is the set of the requests it may make of the    *)
(* session, and whether it can reach an expect() or an unreachable!().     *)
(***************************************************************************)
EXTENDS FiniteSets

Locators == {"locator", "heap_scan", "reflection"}

\* What a file of each strategy may have or lack.  Fields that serde requires are there.
Optional(write) ==
    Locators \cup
    CASE write = "freeze_for_matching" ->
            {"class_path", "substrings", "offsets", "property", "constant", "bytes", "bad_hex"}
      [] write = "play_anim_montage_for_matching" ->
            {"class_path", "substrings", "montages", "distance"}
      [] OTHER -> {"value", "deref", "pointer_chain", "bad_hex"}

\* The strategies that look for their objects themselves.
Discovering ==
    {"freeze_for_matching", "play_anim_montage_for_matching", "set_progress_tags"}

Plain == {"one_shot", "freeze"}

Strategies ==
    Plain \cup Discovering
    \cup {"code_patch", "engine_action", "call_instance_ufunction", "teleport_to_waypoint"}

VARIABLES
    spec,    \* the signature: its strategy, and what the file has
    stage,   \* "none", "parsed", "refused" or "feature"
    did      \* the last operation: its name, its requests, whether it panicked

specVars == <<spec, stage, did>>

Nothing == [op |-> "none", requests |-> {}, panicked |-> FALSE]

SpecInit ==
    /\ spec = [write |-> "one_shot", has |-> {}] /\ stage = "none" /\ did = Nothing

Has(what) == what \in spec.has
OneOf(some) == Cardinality(spec.has \cap some) = 1

-----------------------------------------------------------------------------
(* SignatureSpec.                                                           *)

\* A deliberate error: both a constant and bytes, or neither, are let through.
MatchingValid_NoPayload == OneOf({"offsets", "property"}) /\ OneOf({"class_path", "substrings"})

MatchingValid ==
    /\ OneOf({"offsets", "property"}) /\ OneOf({"class_path", "substrings"})
    /\ OneOf({"constant", "bytes"}) /\ (Has("bytes") => ~Has("bad_hex"))

MontageValid == OneOf({"class_path", "substrings"}) /\ {"montages", "distance"} \subseteq spec.has

CallValid == {"reflection", "deref"} \subseteq spec.has /\ ~Has("bad_hex")

\* validate()
Valid ==
    /\ spec.write \in Plain => Has("value")
    /\ IF spec.write \in Discovering \cup {"engine_action"}
         THEN spec.has \cap Locators = {}
         ELSE OneOf(Locators)
    /\ spec.write = "freeze_for_matching" => MatchingValid
    /\ spec.write = "play_anim_montage_for_matching" => MontageValid
    /\ spec.write = "code_patch" => Has("locator")
    /\ spec.write = "call_instance_ufunction" => CallValid
    /\ spec.write = "teleport_to_waypoint" => Has("reflection")

RequiredEngine ==
    IF \/ Has("reflection")
       \/ spec.write \in Discovering \cup {"call_instance_ufunction", "teleport_to_waypoint"}
    THEN "ue5" ELSE "any"

-----------------------------------------------------------------------------
(* DeclarativeFeature.                                                      *)

Does(op, requests, panics) ==
    did' = [op |-> op, requests |-> requests, panicked |-> panics]

Reflected == {"find", "property", "read"}

\* resolve()
Resolved ==
    LET base == CASE Has("reflection") -> Reflected
                  [] ~Has("reflection") /\ Has("heap_scan") -> {"scan_heap", "read"}
                  [] OTHER -> {"scan_module", "read"}
    IN  CASE spec.write = "engine_action" -> Does("resolve", {}, FALSE)
          [] spec.write \in Discovering -> Does("resolve", {"find"}, FALSE)
          [] OTHER -> Does("resolve", base, spec.has \cap Locators = {})

\* read(): the strategies without a value of their own answer "off" and ask nothing.
ReadValue ==
    CASE spec.write = "code_patch" -> Does("read", {"read"}, FALSE)
      [] spec.write \in Plain -> Does("read", IF Has("reflection") THEN Reflected ELSE {"read"}, FALSE)
      [] OTHER -> Does("read", {}, FALSE)

\* write(), and the strategy's own function behind it.
Written ==
    CASE spec.write = "engine_action" -> Does("write", {}, FALSE)
      [] spec.write = "code_patch" -> Does("write", {"patch"}, FALSE)
      [] spec.write = "freeze_for_matching" ->
            Does("write", Reflected \cup {"write"}, ~OneOf({"constant", "bytes"}))
      [] spec.write \in {"set_progress_tags", "play_anim_montage_for_matching"} ->
            Does("write", Reflected \cup {"call"}, FALSE)
      [] spec.write = "call_instance_ufunction" ->
            Does("write", Reflected \cup {"call"}, ~Has("reflection"))
      [] spec.write = "teleport_to_waypoint" -> Does("write", Reflected \cup {"call"}, FALSE)
      [] OTHER -> Does("write", (IF Has("reflection") THEN Reflected ELSE {}) \cup {"write"}, FALSE)

\* quick_check()
QuickChecked ==
    Does("quick_check",
         IF ~Has("reflection") /\ (Has("heap_scan") \/ spec.write = "code_patch")
         THEN {"read"} ELSE {}, FALSE)

\* snapshot() at attach, restore() when a freeze is switched off.
Snapshotted == Does("snapshot", IF spec.write = "engine_action" THEN {} ELSE {"read"}, FALSE)
Restored ==
    Does("restore",
         IF spec.write = "play_anim_montage_for_matching" THEN {} ELSE {"write"}, FALSE)

\* status_text(): the engine is asked for the waypoint's place, and for no count.
StatusTexted ==
    Does("status_text", IF spec.write = "teleport_to_waypoint" THEN Reflected ELSE {}, FALSE)

-----------------------------------------------------------------------------
Parse ==
    /\ stage = "none"
    /\ \E w \in Strategies : \E h \in SUBSET Optional(w) : spec' = [write |-> w, has |-> h]
    /\ stage' = "parsed" /\ UNCHANGED did

Validate ==
    /\ stage = "parsed"
    /\ stage' = IF Valid THEN "feature" ELSE "refused"
    /\ UNCHANGED <<spec, did>>

Operate ==
    /\ stage = "feature" /\ did = Nothing
    /\ \/ Resolved \/ ReadValue \/ Written \/ QuickChecked
       \/ Snapshotted \/ Restored \/ StatusTexted
    /\ UNCHANGED <<spec, stage>>

SpecNext == Parse \/ Validate \/ Operate
SpecSpec == SpecInit /\ [][SpecNext]_specVars

-----------------------------------------------------------------------------
(* Properties.                                                              *)

SpecTypeOK ==
    /\ spec \in [write : Strategies, has : SUBSET UNION {Optional(w) : w \in Strategies}]
    /\ spec.has \subseteq Optional(spec.write)
    /\ stage \in {"none", "parsed", "refused", "feature"}
    /\ did \in [op : {"none", "resolve", "read", "write", "quick_check", "snapshot", "restore",
                     "status_text"},
               requests : SUBSET {"find", "property", "call", "scan_heap", "scan_module",
                                  "read", "write", "patch"},
               panicked : BOOLEAN]

\* No signature that validate() lets through takes an operation to an expect() or
\* an unreachable!(), and none makes one ask the session for what only the UE5
\* backend answers unless required_engine says so, by which verify_registry keeps
\* it from the games of the other engine.
OperationsServed ==
    /\ ~did.panicked
    /\ did.requests \cap {"find", "property", "call"} # {} => RequiredEngine = "ue5"
=============================================================================
