---------------------------- MODULE PatchToggle ----------------------------
(***************************************************************************)
(* The host side of a code-patch feature, composed with the DLL's patcher: *)
(* how the site is located at attach (address cache, else AOB scan), how   *)
(* the hotkey and the switch of the feature card decide what to send, and  *)
(* what the switch shows.                                                  *)
(*                                                                         *)
(*   crates/app/src-tauri/src/{attach,commands,keybinds}.rs                *)
(*   crates/runtime/src/feature.rs  (the CodePatch write strategy)         *)
(*   crates/app/src/{hooks/use-features.ts,store/app-store.ts}             *)
(*                                                                         *)
(* A toggle decides on a direction, sends it later (spawn_blocking, or an  *)
(* IPC from the UI) and reports back later still.  Between these steps the *)
(* app may have detached, and another game process may have been attached. *)
(***************************************************************************)
EXTENDS CodePatch

CONSTANTS
    Patches,       \* the code-patch features
    Orig,          \* original_bytes of each
    Repl,          \* patched_bytes of each
    FirstIsRepl,   \* the contents whose first byte is that of patched_bytes
    Toggles,       \* the toggles that can be in flight at the same time
    InitialSweep   \* attach reads every feature once (UE5) or not (Glacier)

ASSUME PatchAssumption ==
    /\ Orig \in [Patches -> Code]
    /\ Repl \in [Patches -> Code]
    /\ \A p, q \in Patches : Repl[p] # Orig[q]
    /\ \A p, q \in Patches : Orig[p] = Orig[q] => p = q
    /\ \A p \in Patches : Repl[p] \in FirstIsRepl[p] /\ Orig[p] \notin FirstIsRepl[p]
    /\ \A b \in Builds : b.site \in [Patches -> Addrs \cup {None}]
    /\ InitialSweep \in BOOLEAN

VARIABLES
    cached,  \* profile.feature_address_cache: patch -> address, on disk
    found,   \* attached.resolutions: patch -> address, while attached
    shown,   \* featureValues of the UI store: is the switch drawn as on?
    want     \* each toggle: None, or the patch, the direction and the step

hostVars == <<cached, found, shown, want>>
vars == <<patchVars, hostVars>>

Wants == [patch : Patches, on : BOOLEAN, step : {"send", "reply"}]

TypeOK ==
    /\ PatchTypeOK
    /\ cached \in [Patches -> Addrs \cup {None}]
    /\ found \in [Patches -> Addrs \cup {None}]
    /\ shown \in [Patches -> BOOLEAN]
    /\ want \in [Toggles -> Wants \cup {None}]

Unresolved == [p \in Patches |-> None]

Init ==
    /\ PatchInit
    /\ cached = Unresolved
    /\ found = Unresolved
    /\ shown = [p \in Patches |-> FALSE]
    /\ want = [t \in Toggles |-> None]
-----------------------------------------------------------------------------
\* A deliberate error: the cache is trusted as it is.
QuickCheck_Trusts(p, a) == TRUE

\* A cached address is trusted only while it still holds original_bytes.
QuickCheck(p, a) == text[a] = Orig[p]

\* The AOB pattern covers the original bytes: a patched site does not match.
AobScan(p) ==
    LET a == build.site[p]
    IN  IF a # None /\ text[a] = Orig[p] THEN a ELSE None

Locate(p) ==
    IF cached[p] # None /\ QuickCheck(p, cached[p]) THEN cached[p] ELSE AobScan(p)

\* Feature::read: "applied" is decided by the first byte alone.
ReadApplied(p, a) == text[a] \in FirstIsRepl[p]

\* attach: resolve_all locates each feature (one whose reads fail stays
\* unresolved), the addresses go to the profile, and on UE5 only a sweep reads
\* every located feature into the UI store.
Attach ==
    /\ Open
    /\ \E reached \in SUBSET Patches :
        LET got == [p \in Patches |-> IF p \in reached THEN Locate(p) ELSE None]
        IN  /\ found' = got
            /\ cached' = [p \in Patches |-> IF got[p] # None THEN got[p] ELSE cached[p]]
            /\ shown' = [p \in Patches |->
                            IF InitialSweep /\ got[p] # None
                                THEN ReadApplied(p, got[p]) ELSE shown[p]]
    /\ UNCHANGED want

\* A deliberate error: a located feature is scanned for again.
RetryResolve_Always(p) ==
    /\ conn = "serving"
    /\ found' = [found EXCEPT ![p] = AobScan(p)]
    /\ UNCHANGED <<patchVars, cached, shown, want>>

\* retry_resolve, offered on the card of an unresolved feature only.  A failed
\* scan (or one cut short) leaves it unresolved.
RetryResolve(p) ==
    /\ conn = "serving"
    /\ found[p] = None
    /\ AobScan(p) # None
    /\ found' = [found EXCEPT ![p] = AobScan(p)]
    /\ cached' = [cached EXCEPT ![p] = AobScan(p)]
    /\ UNCHANGED <<patchVars, shown, want>>

\* do_detach, by the user or by the exit watch: the session goes, the pipe with
\* it, and the DLL starts to restore.  The values in the UI store stay
\* (clearGameRuntimeState forgets the freeze badges only).
Detach ==
    /\ Drop
    /\ found' = Unresolved
    /\ UNCHANGED <<cached, shown, want>>

\* The app dies, and is started again with an empty UI store.
AppExit ==
    /\ Drop
    /\ found' = Unresolved
    /\ shown' = [p \in Patches |-> FALSE]
    /\ want' = [t \in Toggles |-> None]
    /\ UNCHANGED cached

GameRestart ==
    /\ Restart
    /\ found' = Unresolved
    /\ UNCHANGED <<cached, shown, want>>
-----------------------------------------------------------------------------
Decide(t, p, on) ==
    /\ want[t] = None
    /\ want' = [want EXCEPT ![t] = [patch |-> p, on |-> on, step |-> "send"]]
    /\ UNCHANGED <<patchVars, cached, found, shown>>

\* toggle_code_patch, the hotkey: read the game, want the opposite.
HotkeyRead(t, p) ==
    /\ conn = "serving"
    /\ found[p] # None
    /\ Decide(t, p, ~ReadApplied(p, found[p]))

\* The switch of the card: want the opposite of what is drawn.
Click(t, p) ==
    /\ conn = "serving"
    /\ found[p] # None
    /\ Decide(t, p, ~shown[p])

\* A deliberate error: nobody handles the reply.
Replied_Unhandled(t) == want' = [want EXCEPT ![t].step = "done"]

\* What follows a send: the reply is still to be handled, or the toggle is over.
Replied(t) == want' = [want EXCEPT ![t].step = "reply"]
Failed(t) == want' = [want EXCEPT ![t] = None]

\* set_code_patch on whatever session is attached by now.
Send(t) ==
    /\ want[t] # None
    /\ want[t].step = "send"
    /\ LET p == want[t].patch
           a == found[p]
       IN  \/ /\ conn # "serving" \/ a = None
              /\ Failed(t)
              /\ UNCHANGED patchVars
           \/ /\ a # None
              /\ IF want[t].on
                    THEN \/ PatchOk(a, Orig[p], Repl[p]) /\ Replied(t)
                         \/ PatchErr(a, Orig[p]) /\ Failed(t)
                    ELSE \/ RestoreOk(a, Orig[p]) /\ Replied(t)
                         \/ RestoreErr(a) /\ Failed(t)
    /\ UNCHANGED <<cached, found, shown>>

\* The feature_changed event, or the UI's own mirror of its direction.
Reply(t) ==
    /\ want[t] # None
    /\ want[t].step = "reply"
    /\ shown' = [shown EXCEPT ![want[t].patch] = want[t].on]
    /\ want' = [want EXCEPT ![t] = None]
    /\ UNCHANGED <<patchVars, cached, found>>

Restoring ==
    /\ Closed \/ \E a \in Addrs : RestoreOne(a)
    /\ UNCHANGED hostVars

Next ==
    \/ Attach
    \/ Detach
    \/ AppExit
    \/ GameRestart
    \/ Restoring
    \/ \E p \in Patches : RetryResolve(p)
    \/ \E t \in Toggles :
        \/ \E p \in Patches : HotkeyRead(t, p) \/ Click(t, p)
        \/ Send(t)
        \/ Reply(t)

\* The worker thread runs restore_all to its end, and a request in flight is
\* answered and its answer handled.
Fairness ==
    /\ WF_vars(Restoring)
    /\ \A t \in Toggles : WF_vars(Send(t) \/ Reply(t))

Spec == Init /\ [][Next]_vars /\ Fairness
-----------------------------------------------------------------------------
\* After a detach (or a crash of the app) the game's code is as it was found,
\* except where a write can fail: what restore_all is for.
DetachRestores ==
    conn = "idle" => \A a \in Addrs \ Fragile : text[a] = build.text[a]

\* No site is changed without the DLL knowing what to put back: each differing
\* site is in the registry, or still in the list restore_all works on, with
\* the bytes it held when the game started.
ChangesRecorded ==
    \A a \in Addrs \ Fragile :
        text[a] # build.text[a] => build.text[a] \in {registry[a], draining[a]}

\* While the app is attached, the first-byte read of a located feature says
\* "applied" exactly when the DLL has the patch on record: the two independent
\* answers to the question, one by the host and one by the DLL, agree.
ReadAgrees ==
    \A p \in Patches :
        conn = "serving" /\ found[p] # None =>
            (ReadApplied(p, found[p]) <=> registry[found[p]] # None)

\* A patch that is on can be switched off: the app still knows the address of
\* every site on record, as that of the feature that patched it.
OffReachable ==
    \A a \in Addrs :
        conn = "serving" /\ registry[a] # None =>
            \E p \in Patches : found[p] = a /\ Orig[p] = registry[a]

\* Nothing but what a feature expects is overwritten, by a restore neither: a write
\* turns a feature's original bytes into its patch or back, at a site where
\* the game was started with that feature's original bytes.
KnownChange ==
    build' = build =>
        \A a \in Addrs :
            text'[a] # text[a] =>
                \E p \in Patches :
                    /\ build.text[a] = Orig[p]
                    /\ {text[a], text'[a]} = {Orig[p], Repl[p]}

OnlyKnownCode == [][KnownChange]_vars

\* Once the client is gone the next one can connect, to a game whose every site
\* is put back, however the restores are ordered and whichever of them fail.
RestoredInTheEnd ==
    conn = "closing" ~>
        conn = "idle" /\ \A a \in Addrs \ Fragile : text[a] = build.text[a]
=============================================================================
