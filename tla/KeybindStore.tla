---------------------------- MODULE KeybindStore ----------------------------
(***************************************************************************)
(* The global hotkeys: the store with its two indices and its file         *)
(* (keybinds.rs), the chords registered with the operating system, and the *)
(* commands set_keybind and clear_keybind (commands.rs) that change both.  *)
(*                                                                         *)
(* The commands are synchronous, so the main thread runs one at a time;    *)
(* between its two halves a hotkey may fire on another thread, other       *)
(* programs may take a chord, and the app may end.  A feature stands for   *)
(* its game and its id; a chord is canonical.  The file is one that save   *)
(* has written.                                                            *)
(***************************************************************************)
EXTENDS Functions

CONSTANTS Features, Chords

NoChord == "no chord"

ASSUME KeybindAssumption == NoChord \notin Chords

VARIABLES
    keybinds,   \* the store: bindings and by_chord
    keysFile,   \* keybinds.json
    os,         \* the chords this app has registered, and those of other programs
    command,    \* the command between its halves, or "started", or "down"
    refused     \* history: the chords the system has refused since they were last free

keyVars == <<keybinds, keysFile, os, command, refused>>

\* Functions from a subset of S to T.
Partial(S, T) == UNION {[D -> T] : D \in SUBSET S}

Started == [op |-> "none"]
Down == [op |-> "down"]

KeysTypeOK ==
    /\ keybinds \in [bindings : Partial(Features, Chords), byChord : Partial(Chords, Features)]
    /\ keysFile \in Partial(Features, Chords)
    /\ os \in [own : SUBSET Chords, others : SUBSET Chords]
    /\ command \in {Started, Down} \cup [op : {"set"}, feature : Features, chord : Chords]
                     \cup [op : {"unregister"}, chord : Chords]
    /\ refused \subseteq Chords

NoKeys == [bindings |-> <<>>, byChord |-> <<>>]

KeysInit ==
    /\ keybinds = NoKeys /\ keysFile = <<>>
    /\ os = [own |-> {}, others |-> {}]
    /\ command = Down /\ refused = {}

Bound(f) == f \in DOMAIN keybinds.bindings
Owned(c) == c \in DOMAIN keybinds.byChord
Without(fn, xs) == Restrict(fn, DOMAIN fn \ xs)
With(fn, x, y) == [z \in DOMAIN fn \cup {x} |-> IF z = x THEN y ELSE fn[z]]

-----------------------------------------------------------------------------
(* KeybindStore.                                                            *)

\* rebuild_by_chord
Reversed(bindings) ==
    [c \in Range(bindings) |-> CHOOSE f \in DOMAIN bindings : bindings[f] = c]

\* A deliberate error: the chord that the feature had before stays in by_chord.
StoreSet_KeepsPrevious(s, f, c) ==
    LET holder == IF c \in DOMAIN s.byChord THEN {s.byChord[c]} ELSE {}
    IN  [bindings |-> With(Without(s.bindings, holder), f, c),
         byChord |-> With(s.byChord, c, f)]

\* set: whoever holds the chord loses it, the feature's previous chord goes.
StoreSet(s, f, c) ==
    LET holder == IF c \in DOMAIN s.byChord THEN {s.byChord[c]} ELSE {}
        freed == Without(s.bindings, holder)
        previous == IF f \in DOMAIN freed THEN {freed[f]} ELSE {}
    IN  [bindings |-> With(freed, f, c),
         byChord |-> With(Without(s.byChord, previous), c, f)]

StoreClear(s, f) ==
    [bindings |-> Without(s.bindings, {f}), byChord |-> Without(s.byChord, {s.bindings[f]})]

\* The file is written beside and renamed; a failure is logged, the store stays.
Saved_K(s) == keysFile' \in {s.bindings, keysFile}

-----------------------------------------------------------------------------
(* The chords of the operating system.                                      *)

Registers(cs) ==
    /\ os' = [os EXCEPT !.own = @ \cup (cs \ os.others)]
    /\ refused' = (refused \cup (cs \cap os.others)) \ (cs \ os.others)

OtherProgram ==
    /\ \/ \E c \in Chords \ (os.own \cup os.others) : os' = [os EXCEPT !.others = @ \cup {c}]
       \/ \E c \in os.others : os' = [os EXCEPT !.others = @ \ {c}]
    /\ UNCHANGED <<keybinds, keysFile, command, refused>>

\* main(): the store of the file, all its chords, one by one.
AppStarts ==
    /\ command = Down
    /\ command' = Started
    /\ keybinds' = [bindings |-> keysFile, byChord |-> Reversed(keysFile)]
    /\ Registers(Range(keysFile))
    /\ UNCHANGED keysFile

\* Whether it quits or crashes, in the middle of a command or not: the
\* registrations go with the process.
AppEnds ==
    /\ command # Down
    /\ command' = Down /\ keybinds' = NoKeys /\ refused' = {}
    /\ os' = [os EXCEPT !.own = {}]
    /\ UNCHANGED keysFile

-----------------------------------------------------------------------------
(* The commands.                                                            *)

\* The dialog asks again with override_conflict; without it nothing happens.
Conflict(f, c) == Owned(c) /\ keybinds.byChord[c] # f

\* What set_keybind takes from the system first: the previous chord of the
\* feature, and the chord itself if another feature has it.
Displaced(f, c) ==
    (IF Bound(f) THEN {keybinds.bindings[f]} ELSE {}) \cup (IF Conflict(f, c) THEN {c} ELSE {})

\* The system accepts the chord; the store comes next.
SetAccepted(f, c) ==
    /\ command = Started /\ ~(Bound(f) /\ keybinds.bindings[f] = c)
    /\ c \notin os.others
    /\ os' = [os EXCEPT !.own = (@ \ Displaced(f, c)) \cup {c}]
    /\ refused' = refused \ {c}
    /\ command' = [op |-> "set", feature |-> f, chord |-> c]
    /\ UNCHANGED <<keybinds, keysFile>>

\* It does not: what was taken is registered again, and nothing else changes.
SetRefused(f, c) ==
    /\ command = Started /\ ~(Bound(f) /\ keybinds.bindings[f] = c)
    /\ c \in os.others
    /\ Registers(Displaced(f, c))
    /\ UNCHANGED <<keybinds, keysFile, command>>

\* The chord that the feature has: the system is not asked.
SetAgain(f, c) ==
    /\ command = Started /\ Bound(f) /\ keybinds.bindings[f] = c
    /\ command' = [op |-> "set", feature |-> f, chord |-> c]
    /\ UNCHANGED <<keybinds, keysFile, os, refused>>

SetStores ==
    /\ command.op = "set"
    /\ LET s == StoreSet(keybinds, command.feature, command.chord)
       IN  keybinds' = s /\ Saved_K(s)
    /\ command' = Started
    /\ UNCHANGED <<os, refused>>

ClearStores(f) ==
    /\ command = Started /\ Bound(f)
    /\ LET s == StoreClear(keybinds, f)
       IN  keybinds' = s /\ Saved_K(s)
    /\ command' = [op |-> "unregister", chord |-> keybinds.bindings[f]]
    /\ UNCHANGED <<os, refused>>

\* A feature without a chord: the store is saved all the same.
ClearNothing(f) ==
    /\ command = Started /\ ~Bound(f)
    /\ Saved_K(keybinds)
    /\ UNCHANGED <<keybinds, os, command, refused>>

ClearUnregisters ==
    /\ command.op = "unregister"
    /\ os' = [os EXCEPT !.own = @ \ {command.chord}]
    /\ command' = Started
    /\ UNCHANGED <<keybinds, keysFile, refused>>

KeysNext ==
    \/ OtherProgram
    \/ AppStarts
    \/ AppEnds
    \/ \E f \in Features, c \in Chords : SetAccepted(f, c) \/ SetRefused(f, c) \/ SetAgain(f, c)
    \/ SetStores
    \/ \E f \in Features : ClearStores(f) \/ ClearNothing(f)
    \/ ClearUnregisters

KeysSpec == KeysInit /\ [][KeysNext]_keyVars

-----------------------------------------------------------------------------
\* Between the commands the three records of a hotkey agree, after any rebinding,
\* stealing, refusal, failed save and restart: dispatch() finds for a chord exactly
\* the feature that shows it, the system delivers no chord without a feature, and it
\* delivers each bound chord unless another program has had it.
PressReachesOwner ==
    command = Started =>
        /\ \A c \in DOMAIN keybinds.byChord :
              Bound(keybinds.byChord[c]) /\ keybinds.bindings[keybinds.byChord[c]] = c
        /\ \A f \in DOMAIN keybinds.bindings : Owned(keybinds.bindings[f])
        /\ os.own \subseteq DOMAIN keybinds.byChord
        /\ DOMAIN keybinds.byChord \subseteq os.own \cup refused
=============================================================================
