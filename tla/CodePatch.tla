----------------------------- MODULE CodePatch -----------------------------
(***************************************************************************)
(* The in-DLL code patcher: the bytes of the game's `.text` that a feature *)
(* may overwrite, and the registry that lets the DLL put them back when    *)
(* its only pipe client goes away.                                         *)
(*                                                                         *)
(*   crates/glacier-007-dll/src/code_patch.rs  (static PATCHES)            *)
(*   crates/batman-lod-dll/src/ops/{code_patch,state}.rs  (ConnState)      *)
(*                                                                         *)
(* The worker thread serves one client and one request at a time, so a     *)
(* request is one step.  A site is an address with the few bytes that a    *)
(* patch replaces there; its content is a value of Code.  The sites of the *)
(* shipped features do not overlap, so one write changes one site.         *)
(***************************************************************************)
CONSTANTS
    Addrs,   \* the patch sites
    Code,    \* what a site can hold
    None,    \* no value: neither an address nor code
    Builds,  \* the builds of the game: [text : what each site holds when the
             \* process starts, site : where each feature's AOB points]
    Fragile  \* the sites where VirtualProtect or the write itself can fail

ASSUME CodeAssumption ==
    /\ None \notin Code
    /\ None \notin Addrs
    /\ Builds # {}
    /\ \A b \in Builds : b.text \in [Addrs -> Code]

VARIABLES
    build,     \* the build of the running game process
    text,      \* its code: site -> content
    registry,  \* PATCHES / ConnState.applied_patches: site -> original bytes
    draining,  \* the registry as drained by restore_all, what is still to do
    conn       \* the pipe: "idle", "serving" one client, "closing" after it

patchVars == <<build, text, registry, draining, conn>>

Empty == [a \in Addrs |-> None]

PatchTypeOK ==
    /\ build \in Builds
    /\ text \in [Addrs -> Code]
    /\ registry \in [Addrs -> Code \cup {None}]
    /\ draining \in [Addrs -> Code \cup {None}]
    /\ conn \in {"idle", "serving", "closing"}

PatchInit ==
    /\ build \in Builds
    /\ text = build.text
    /\ registry = Empty
    /\ draining = Empty
    /\ conn = "idle"
-----------------------------------------------------------------------------
\* The check that a patch is never forced over instructions nobody knows.
Verified(a, original) == text[a] = original

\* write_bytes_at: all of the bytes or, where the page cannot be written, none.
Write(a, bytes) == text' = [text EXCEPT ![a] = bytes]

\* A deliberate error: what is recorded is read back after the write.
Recorded_AfterWrite(a, original) == [registry EXCEPT ![a] = text'[a]]
Recorded(a, original) == [registry EXCEPT ![a] = original]

Forgotten(a) == [registry EXCEPT ![a] = None]

\* Request::CodePatch that answers WriteOk: verify, write, then record.
PatchOk(a, original, replacement) ==
    /\ conn = "serving"
    /\ Verified(a, original)
    /\ Write(a, replacement)
    /\ registry' = Recorded(a, original)
    /\ UNCHANGED <<build, draining, conn>>

\* Request::CodePatch that answers Error: bytes that are not `original`, or a
\* failed write.  Nothing has changed.
PatchErr(a, original) ==
    /\ conn = "serving"
    /\ ~Verified(a, original) \/ a \in Fragile
    /\ UNCHANGED patchVars

\* Request::RestorePatch that answers WriteOk: no verification, the bytes are
\* written whatever is there, and the record (if any) is dropped.
RestoreOk(a, original) ==
    /\ conn = "serving"
    /\ Write(a, original)
    /\ registry' = Forgotten(a)
    /\ UNCHANGED <<build, draining, conn>>

\* A deliberate error: the record is dropped although the write failed.
RestoreErr_Forgets(a) ==
    /\ conn = "serving"
    /\ a \in Fragile
    /\ registry' = Forgotten(a)
    /\ UNCHANGED <<build, text, draining, conn>>

\* Request::RestorePatch that answers Error: the write failed, the record stays.
RestoreErr(a) ==
    /\ conn = "serving"
    /\ a \in Fragile
    /\ UNCHANGED patchVars
-----------------------------------------------------------------------------
\* A client opens the pipe: serve_client begins.
Open ==
    /\ conn = "idle"
    /\ conn' = "serving"
    /\ UNCHANGED <<build, text, registry, draining>>

\* serve_client returns, on Bye, on a closed or broken pipe and on a panic
\* alike, and restore_all takes every record out of the registry.
Drop ==
    /\ conn = "serving"
    /\ conn' = "closing"
    /\ draining' = registry
    /\ registry' = Empty
    /\ UNCHANGED <<build, text>>

\* A deliberate error: the first write that fails ends the loop.
RestoreOne_StopsAtError(a) ==
    /\ conn = "closing"
    /\ draining[a] # None
    /\ \/ Write(a, draining[a]) /\ draining' = [draining EXCEPT ![a] = None]
       \/ a \in Fragile /\ draining' = Empty /\ UNCHANGED text
    /\ UNCHANGED <<build, registry, conn>>

\* A deliberate error: a record stays in the list until its write succeeds.
RestoreOne_Retries(a) ==
    /\ conn = "closing"
    /\ draining[a] # None
    /\ a \notin Fragile
    /\ Write(a, draining[a])
    /\ draining' = [draining EXCEPT ![a] = None]
    /\ UNCHANGED <<build, registry, conn>>

\* One turn of restore_all's loop, in the order of a HashMap: any.  A write
\* that fails is ignored, and its record is gone with the others.
RestoreOne(a) ==
    /\ conn = "closing"
    /\ draining[a] # None
    /\ draining' = [draining EXCEPT ![a] = None]
    /\ \/ Write(a, draining[a])
       \/ a \in Fragile /\ UNCHANGED text
    /\ UNCHANGED <<build, registry, conn>>

\* The loop is over: the pipe is closed and the next instance awaits a client.
Closed ==
    /\ conn = "closing"
    /\ draining = Empty
    /\ conn' = "idle"
    /\ UNCHANGED <<build, text, registry, draining>>

\* The game exits, at any moment, and is started again, updated perhaps.
Restart ==
    /\ build' \in Builds
    /\ text' = build'.text
    /\ registry' = Empty
    /\ draining' = Empty
    /\ conn' = "idle"
=============================================================================
