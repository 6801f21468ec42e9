---------------------------- MODULE UnrealLocate ----------------------------
(***************************************************************************)
(* ue5-locate of the reverse-engineering tool (discover/src/ue5/locate.rs): *)
(* from outside the game it finds GUObjectArray and FNamePool, probes the  *)
(* layout of the objects and keeps all of it in a file named by the time   *)
(* stamp and the image size of the executable.  The next attach to the     *)
(* same build takes the file's word after a cheap check.                   *)
(*                                                                         *)
(* A launch puts the two tables at one of the places the loader may use.   *)
(* Memory is told apart as far as the checks do: a lookalike of the array  *)
(* has a header with plausible counts, a lookalike of the pool has chunks  *)
(* that read as names, and neither gives the game's objects their names.   *)
(* What a build's code leads the patterns to is chosen at every attach.    *)
(***************************************************************************)
EXTENDS Naturals

CONSTANTS
    Hashes,      \* get_pe_hash of the builds there are
    Locations,   \* the places the loader may use
    MaxLaunches  \* bound: how often the game is started

ASSUME LocateAssumption ==
    MaxLaunches \in Nat \ {0} /\ Hashes # {} /\ Locations # {} /\ "elsewhere" \notin Locations

Elsewhere == "elsewhere"                  \* some other global of the module
Stages == {"down", "boot", "few", "core", "loaded"}

VARIABLES
    process,  \* the game: launches, build, place, how far it is, lookalikes at other places
    ueCache,  \* the files: for each build what an attach has found
    locator   \* the tool: its step, the launch and the build it has opened, what it has found

locateVars == <<process, ueCache, locator>>

NoFindings == [array |-> Elsewhere, pool |-> Elsewhere, layout |-> FALSE, fields |-> FALSE]

Findings ==
    [array : Locations \cup {Elsewhere}, pool : Locations \cup {Elsewhere},
     layout : BOOLEAN, fields : BOOLEAN]

LocateTypeOK ==
    /\ process \in [launch : 0 .. MaxLaunches, hash : Hashes, place : Locations,
                    stage : Stages, lookalikes : BOOLEAN]
    /\ \E saved \in SUBSET Hashes : ueCache \in [saved -> Findings]
    /\ locator \in [at : {"idle", "cache", "array", "pool", "layout", "classes", "outers",
                         "fields", "save", "done"},
                   launch : 0 .. MaxLaunches, hash : Hashes, found : Findings]

LocateInit ==
    /\ process = [launch |-> 0, hash |-> CHOOSE h \in Hashes : TRUE,
                  place |-> CHOOSE l \in Locations : TRUE, stage |-> "down",
                  lookalikes |-> FALSE]
    /\ ueCache = <<>>
    /\ locator = [at |-> "idle", launch |-> 0, hash |-> process.hash, found |-> NoFindings]

-----------------------------------------------------------------------------
(* The game.                                                                *)

Launches ==
    /\ process.stage = "down" /\ process.launch < MaxLaunches
    /\ \E h \in Hashes, l \in Locations, b \in BOOLEAN :
        process' = [launch |-> process.launch + 1, hash |-> h, place |-> l,
                    stage |-> "boot", lookalikes |-> b]
    /\ UNCHANGED <<ueCache, locator>>

\* First an empty array, then a few objects, the engine's own, those of a level.
LoadsMore ==
    /\ process.stage \in {"boot", "few", "core"}
    /\ process' = [process EXCEPT !.stage = [boot |-> "few", few |-> "core", core |-> "loaded"][@]]
    /\ UNCHANGED <<ueCache, locator>>

Quits ==
    /\ process.stage # "down"
    /\ process' = [process EXCEPT !.stage = "down"]
    /\ UNCHANGED <<ueCache, locator>>

-----------------------------------------------------------------------------
(* What the tool reads.                                                     *)

Readable == locator.launch = process.launch /\ process.stage # "down"
Lookalike(a) == a # process.place /\ (a = Elsewhere \/ process.lookalikes)

\* NumElements > 0, MaxElements no less, between 1 and 999 chunks.
HeaderPlausible(a) ==
    Readable /\ (Lookalike(a) \/ (a = process.place /\ process.stage # "boot"))

\* The fingerprint: a thousand elements or more, the chunk count fits them, and
\* Objects[0][0] has its vtable in the module.
Fingerprint(a) == Readable /\ a = process.place /\ process.stage \in {"core", "loaded"}

\* Stages A and B: a dense array of chunk pointers, eight entries that read as names.
ChunksOfNames(p) == Readable /\ (Lookalike(p) \/ p = process.place)

\* An index is the name it stands for in the pool's own chunks only.
Decoded(p) == Readable /\ p = process.place

\* Stage C: of the first fifty objects seventy percent have names, and 35 at least.
ObjectsNamed(a, p) == Decoded(p) /\ a = process.place /\ process.stage \in {"core", "loaded"}

PoolValid(a, p) == ChunksOfNames(p) /\ ObjectsNamed(a, p)

-----------------------------------------------------------------------------
(* UeEngine::attach.                                                        *)

ToStep(step, found) ==
    /\ locator' = [locator EXCEPT !.at = step, !.found = found]
    /\ UNCHANGED process

Bails == ToStep("idle", NoFindings) /\ UNCHANGED ueCache

Attaches ==
    /\ locator.at = "idle" /\ process.stage # "down"
    /\ locator' = [at |-> "cache", launch |-> process.launch, hash |-> process.hash,
                   found |-> NoFindings]
    /\ UNCHANGED <<process, ueCache>>

\* The file of this build is believed if its array still has a plausible header
\* and its pool passes all three stages.
CacheValid_HeaderOnly(c) == HeaderPlausible(c.array)
CacheValid(c) == HeaderPlausible(c.array) /\ PoolValid(c.array, c.pool)

CacheChecked ==
    /\ locator.at = "cache"
    /\ IF locator.hash \in DOMAIN ueCache /\ CacheValid(ueCache[locator.hash])
       THEN ToStep("done", ueCache[locator.hash])
       ELSE ToStep("array", NoFindings)
    /\ UNCHANGED ueCache

\* The first pattern that leads to a plausible header wins.
ArrayByPattern ==
    /\ locator.at = "array"
    /\ \E a \in {process.place, Elsewhere} :
        HeaderPlausible(a) /\ ToStep("pool", [NoFindings EXCEPT !.array = a])
    /\ UNCHANGED ueCache

\* No pattern does: the whole image is searched for the fingerprint.
ArrayByFingerprint ==
    /\ locator.at = "array" /\ Fingerprint(process.place)
    /\ ToStep("pool", [NoFindings EXCEPT !.array = process.place])
    /\ UNCHANGED ueCache

\* No fingerprint either: what the code near the reference to a log string
\* accesses, with a plausible header and a first chunk.
ArrayByString ==
    /\ locator.at = "array" /\ ~Fingerprint(process.place)
    /\ \E a \in {process.place, Elsewhere} :
        HeaderPlausible(a) /\ ToStep("pool", [NoFindings EXCEPT !.array = a])
    /\ UNCHANGED ueCache

ArrayNotFound ==
    /\ locator.at = "array" /\ ~Fingerprint(process.place)
    /\ Bails

PoolTaken(p) ==
    /\ PoolValid(locator.found.array, p)
    /\ ToStep("layout", [locator.found EXCEPT !.pool = p])
    /\ UNCHANGED ueCache

\* What the patterns lead to (FName::ToString and its like), itself and as a
\* pointer: the first that is valid.
PoolByPattern ==
    /\ locator.at = "pool"
    /\ \E p \in {process.place, Elsewhere} : PoolTaken(p)

\* Otherwise every global that the code refers to, and the places a little before.
PoolByStructure ==
    /\ locator.at = "pool"
    /\ \E p \in Locations \cup {Elsewhere} : PoolTaken(p)

PoolNotFound ==
    /\ locator.at = "pool"
    /\ Bails

\* No live object to sample.
SamplesUnreadable ==
    /\ locator.at = "layout" /\ ~Readable
    /\ Bails

\* Most of 200 sampled objects give an identifier at one offset.
Agree(ok) == ok => ObjectsNamed(locator.found.array, locator.found.pool)

\* Without an offset of the names, the placeholders of the layout go on.
NamesProbed ==
    /\ locator.at = "layout" /\ Readable
    /\ \E ok \in BOOLEAN :
        Agree(ok) /\ ToStep(IF ok THEN "classes" ELSE "fields", locator.found)
    /\ UNCHANGED ueCache

\* Likewise without an offset of the classes, which few and named ones share.
ClassesProbed ==
    /\ locator.at = "classes"
    /\ \E ok \in BOOLEAN :
        Agree(ok) /\ ToStep(IF ok THEN "outers" ELSE "fields", locator.found)
    /\ UNCHANGED ueCache

\* The outer chains, which have a default.
OutersProbed ==
    /\ locator.at = "outers"
    /\ ToStep("fields", [locator.found EXCEPT !.layout = TRUE])
    /\ UNCHANGED ueCache

\* The offsets of a field, tried on the first of a known class that has fields;
\* without a level there is none.  An error counts as no.
FieldsProbed ==
    /\ locator.at = "fields"
    /\ \E ok \in BOOLEAN :
        /\ ok => Readable /\ process.stage = "loaded"
        /\ ToStep("save", [locator.found EXCEPT !.fields = ok])
    /\ UNCHANGED ueCache

\* The file of the build is written whatever the probes have said.
CacheSaved ==
    /\ locator.at = "save"
    /\ ueCache' = [h \in DOMAIN ueCache \cup {locator.hash} |->
                      IF h = locator.hash THEN locator.found ELSE ueCache[h]]
    /\ ToStep("done", locator.found)

Reported ==
    /\ locator.at = "done"
    /\ Bails

LocateNext ==
    \/ Launches
    \/ LoadsMore
    \/ Quits
    \/ Attaches
    \/ CacheChecked
    \/ ArrayByPattern
    \/ ArrayByFingerprint
    \/ ArrayByString
    \/ ArrayNotFound
    \/ PoolByPattern
    \/ PoolByStructure
    \/ PoolNotFound
    \/ SamplesUnreadable
    \/ NamesProbed
    \/ ClassesProbed
    \/ OutersProbed
    \/ FieldsProbed
    \/ CacheSaved
    \/ Reported

LocateSpec == LocateInit /\ [][LocateNext]_locateVars

-----------------------------------------------------------------------------
\* What ue5-locate reports are the tables of the launch it is attached to, from
\* the file as from a search, though the file may be from a launch elsewhere and
\* the first pattern may lead to another global.
ReportsReal ==
    locator.at = "done" /\ locator.launch = process.launch =>
        locator.found.array = process.place /\ locator.found.pool = process.place
=============================================================================
