--------------------------- MODULE MatchingFreeze ---------------------------
(***************************************************************************)
(* freeze_for_matching: every tick stamps one constant into all live       *)
(* objects of a class, and remembers what was there before.                *)
(*                                                                         *)
(*   src/crates/runtime/src/feature.rs        write_freeze_for_matching,   *)
(*                                            freeze_originals, restore    *)
(*   src/crates/app/src-tauri/src/freeze.rs, commands.rs                   *)
(*                                                                         *)
(* The feature is a static of the host: its originals outlive a detach.    *)
(* An object's address is not given to another one, one field of each      *)
(* object is stamped, and the game's value of it is the object itself.     *)
(***************************************************************************)
EXTENDS Naturals, FiniteSets

CONSTANT Goons     \* bound: the objects of the class that ever spawn

Stamp == "stamp"
None_M == "none"

ASSUME MatchingAssumption == IsFiniteSet(Goons) /\ {Stamp, None_M} \cap Goons = {}

VARIABLES
    field,      \* the field of each live object, None_M before it spawns or after
    died,       \* the objects that have gone
    originals,  \* freeze_originals
    switch,     \* "off", "on", or "left": aborted by a detach, not restored
    tick,       \* the tick: its step, the matches it has still to visit, the one it is at
    undo,       \* restore(): the originals it has still to write back
    raced       \* history: a tick or a restore was in flight when the other began

matchVars == <<field, died, originals, switch, tick, undo, raced>>

NoOriginals == [g \in Goons |-> None_M]

MatchTypeOK ==
    /\ field \in [Goons -> Goons \cup {Stamp, None_M}]
    /\ died \subseteq Goons
    /\ originals \in [Goons -> Goons \cup {Stamp, None_M}]
    /\ undo \in [Goons -> Goons \cup {Stamp, None_M}]
    /\ switch \in {"off", "on", "left"}
    /\ tick \in [at : {"rest", "next", "write"}, todo : SUBSET Goons, goon : SUBSET Goons]
    /\ Cardinality(tick.goon) <= 1
    /\ raced \in BOOLEAN

MatchInit ==
    /\ field = NoOriginals /\ died = {} /\ originals = NoOriginals /\ undo = NoOriginals
    /\ switch = "off" /\ tick = [at |-> "rest", todo |-> {}, goon |-> {}]
    /\ raced = FALSE

Present == {g \in Goons : field[g] # None_M}

-----------------------------------------------------------------------------
(* The game.                                                                *)

GameMatchOnly == UNCHANGED <<originals, switch, tick, undo, raced>>

GoonSpawns ==
    /\ \E g \in Goons \ (Present \cup died) : field' = [field EXCEPT ![g] = g]
    /\ UNCHANGED died /\ GameMatchOnly

GoonDies ==
    /\ \E g \in Present : field' = [field EXCEPT ![g] = None_M] /\ died' = died \cup {g}
    /\ GameMatchOnly

-----------------------------------------------------------------------------
(* A tick: find_all_uobjects, then for each match a read and a write.       *)

TickFinds ==
    /\ switch = "on" /\ tick.at = "rest"
    /\ tick' = [at |-> "next", todo |-> Present, goon |-> {}]
    /\ UNCHANGED <<field, died, originals, switch, undo, raced>>

\* A deliberate error: what is there at each tick is taken for the original.
CapturedAlways(g) ==
    originals' = [originals EXCEPT ![g] = IF field[g] # None_M THEN field[g] ELSE @]

\* The bytes are captured the first time an address is touched, if they can be read.
Captured(g) ==
    originals' = [originals EXCEPT ![g] = IF @ = None_M THEN field[g] ELSE @]

TickCaptures ==
    /\ tick.at = "next"
    /\ \E g \in tick.todo :
         /\ Captured(g)
         /\ tick' = [at |-> "write", todo |-> tick.todo \ {g}, goon |-> {g}]
    /\ UNCHANGED <<field, died, switch, undo, raced>>

\* A write into an object that has gone fails, and the next match is visited.
TickWrites ==
    /\ tick.at = "write"
    /\ field' = [g \in Goons |-> IF g \in tick.goon \cap Present THEN Stamp ELSE field[g]]
    /\ tick' = [tick EXCEPT !.at = "next", !.goon = {}]
    /\ UNCHANGED <<died, originals, switch, undo, raced>>

TickEnds ==
    /\ tick.at = "next" /\ tick.todo = {}
    /\ tick' = [tick EXCEPT !.at = "rest"]
    /\ UNCHANGED <<field, died, originals, switch, undo, raced>>

-----------------------------------------------------------------------------
(* set_freeze, and the detach that only aborts the loop.                    *)

Undoing == undo # NoOriginals

MatchOn ==
    /\ switch # "on" /\ tick.at = "rest"
    /\ switch' = "on" /\ raced' = (raced \/ Undoing)
    /\ UNCHANGED <<field, died, originals, tick, undo>>

\* abort() ends the loop at its next await: a tick in flight goes on to its end.
\* The map is taken whole, then written back address by address.
MatchOff ==
    /\ ~Undoing
    /\ switch' = "off" /\ undo' = originals /\ originals' = NoOriginals
    /\ raced' = (raced \/ tick.at # "rest")
    /\ UNCHANGED <<field, died, tick>>

MatchDetach ==
    /\ switch = "on"
    /\ switch' = "left"
    /\ UNCHANGED <<field, died, originals, tick, undo, raced>>

UndoOne ==
    /\ \E g \in Goons :
         /\ undo[g] # None_M
         /\ undo' = [undo EXCEPT ![g] = None_M]
         /\ field' = [field EXCEPT ![g] = IF g \in Present THEN undo[g] ELSE @]
    /\ UNCHANGED <<died, originals, switch, tick, raced>>

-----------------------------------------------------------------------------
MatchNext ==
    \/ GoonSpawns \/ GoonDies
    \/ TickFinds \/ TickCaptures \/ TickWrites \/ TickEnds
    \/ MatchOn \/ MatchOff \/ MatchDetach \/ UndoOne

MatchSpec == MatchInit /\ [][MatchNext]_matchVars

-----------------------------------------------------------------------------
(* Properties.                                                              *)

\* As long as no tick was cut off in flight, the originals are complete and never
\* a stamp of our own: at rest and off, every live object has its own value,
\* whatever ticks, spawns, deaths, detaches and re-attaches came before.
OffUnstamps ==
    switch = "off" /\ ~raced /\ ~Undoing => \A g \in Present : field[g] = g
=============================================================================
