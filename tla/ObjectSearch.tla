---------------------------- MODULE ObjectSearch ----------------------------
(***************************************************************************)
(* The search for live objects in the DLL of the Unreal game:              *)
(* ops/reflection.rs (find_uobject, find_all_uobjects, predicate_matches)  *)
(* over the chunks of GUObjectArray, as Ue5Session asks for it.  The       *)
(* search reads the array's header once and then slot by slot, object by   *)
(* object, while the game allocates objects, frees them and uses their     *)
(* memory and their slots again.                                           *)
(*                                                                         *)
(* The memory of a freed object stays as it was until the game uses it     *)
(* again, or cannot be read any more.  A class keeps its address and name. *)
(* The walk of one chunk's slots has the array's own order, so an index    *)
(* stands for chunk_idx * CHUNK_SIZE + within.                             *)
(***************************************************************************)
EXTENDS Naturals, Sequences, SequencesExt

CONSTANTS
    Objects_S,   \* the addresses at which the game allocates objects
    Slots,       \* bound: the slots of the array
    ChunkSize,   \* CHUNK_SIZE
    MaxResults   \* max_results of find_all_uobjects

ASSUME SearchAssumption ==
    /\ {Slots, ChunkSize, MaxResults} \subseteq Nat \ {0}
    /\ "empty" \notin Objects_S

NoObject == "empty"
Searches == {"find_uobject", "find_all_uobjects"}

VARIABLES
    array,   \* GUObjectArray: the object of each slot, NumElements, the chunks allocated
    object,  \* what lies at each address: is it live, of the class, does its name match
    search,  \* the request: its kind and step, the header read, index, object, results
    stayed   \* history: the matches in the array since the header was read

searchVars == <<array, object, search, stayed>>

Idle == [kind |-> "none", at |-> "idle", num |-> 0, chunks |-> 0, index |-> 0,
         object |-> NoObject, found |-> <<>>, truncated |-> FALSE]

SearchTypeOK ==
    /\ array \in [slot : [0 .. Slots - 1 -> Objects_S \cup {NoObject}],
                  num : 0 .. Slots, chunks : 0 .. Slots]
    /\ object \in [Objects_S -> [live : BOOLEAN, class : BOOLEAN, name : BOOLEAN]]
    /\ search \in [kind : Searches \cup {"none"},
                  at : {"idle", "header", "slot", "class", "predicate", "answer"},
                  num : 0 .. Slots, chunks : 0 .. Slots, index : Nat,
                  object : Objects_S \cup {NoObject}, found : Seq(Objects_S),
                  truncated : BOOLEAN]
    /\ Len(search.found) <= MaxResults
    /\ stayed \subseteq Objects_S

SearchInit ==
    /\ array = [slot |-> [i \in 0 .. Slots - 1 |-> NoObject], num |-> 0, chunks |-> 0]
    /\ object = [o \in Objects_S |-> [live |-> FALSE, class |-> FALSE, name |-> FALSE]]
    /\ search = Idle
    /\ stayed = {}

IsMatch(o) == object[o].live /\ object[o].class /\ object[o].name

-----------------------------------------------------------------------------
(* The game.                                                                *)

\* A new chunk for the slots to come.
ChunkAllocated ==
    /\ array.num = array.chunks * ChunkSize /\ array.num < Slots
    /\ array' = [array EXCEPT !.chunks = @ + 1]
    /\ UNCHANGED <<object, search, stayed>>

\* An object gets the memory and a free slot: one given back, or the next.
Allocated(o) ==
    /\ ~object[o].live
    /\ \E i \in 0 .. Slots - 1, class, name \in BOOLEAN :
        /\ name => class                 \* the names of other classes' objects do not matter
        /\ i <= array.num /\ i < array.chunks * ChunkSize
        /\ array.slot[i] = NoObject
        /\ array' = [array EXCEPT !.slot[i] = o, !.num = IF i = @ THEN @ + 1 ELSE @]
        /\ object' = [object EXCEPT ![o] = [live |-> TRUE, class |-> class, name |-> name]]
    /\ UNCHANGED <<search, stayed>>

ObjectFreed(o) ==
    /\ object[o].live
    /\ array' = [array EXCEPT !.slot = [i \in DOMAIN @ |-> IF @[i] = o THEN NoObject ELSE @[i]]]
    /\ object' = [object EXCEPT ![o].live = FALSE]
    /\ stayed' = stayed \ {o}
    /\ UNCHANGED search

-----------------------------------------------------------------------------
(* The search.                                                              *)

Asked(kind) ==
    /\ search.at = "idle"
    /\ search' = [Idle EXCEPT !.kind = kind, !.at = "header"]
    /\ UNCHANGED <<array, object, stayed>>

\* The 32 bytes of the header; an array without elements ends the search.
HeaderRead ==
    /\ search.at = "header"
    /\ search' = [search EXCEPT !.num = array.num, !.chunks = array.chunks,
                                !.at = IF array.num = 0 \/ array.chunks = 0
                                       THEN "answer" ELSE "slot"]
    /\ stayed' = {o \in Objects_S : IsMatch(o)}
    /\ UNCHANGED <<array, object>>

NextSlot(s) == [s EXCEPT !.index = @ + 1, !.object = NoObject, !.at = "slot"]

\* The loops end after the last chunk of the header or at its NumElements.
PastTheEnd(s) == s.index >= s.num \/ s.index \div ChunkSize >= s.chunks

\* A deliberate error: the search ends at the first empty slot.
SlotRead_StopsAtHole ==
    /\ search.at = "slot"
    /\ search' =
        IF PastTheEnd(search) \/ array.slot[search.index] = NoObject
        THEN [search EXCEPT !.at = "answer"]
        ELSE [search EXCEPT !.object = array.slot[search.index], !.at = "class"]
    /\ UNCHANGED <<array, object, stayed>>

SlotRead ==
    /\ search.at = "slot"
    /\ search' =
        IF PastTheEnd(search) THEN [search EXCEPT !.at = "answer"]
        ELSE IF array.slot[search.index] = NoObject THEN NextSlot(search)
        ELSE [search EXCEPT !.object = array.slot[search.index], !.at = "class"]
    /\ UNCHANGED <<array, object, stayed>>

\* The memory of an object that has been freed in between may be unmapped.
Unreadable ==
    /\ search.at \in {"class", "predicate"} /\ ~object[search.object].live
    /\ search' = NextSlot(search)
    /\ UNCHANGED <<array, object, stayed>>

\* The class pointer and the class's name: the cheap filter before the full name.
ClassRead ==
    /\ search.at = "class"
    /\ search' = IF object[search.object].class THEN [search EXCEPT !.at = "predicate"]
                 ELSE NextSlot(search)
    /\ UNCHANGED <<array, object, stayed>>

\* A match: the one result, or one more unless the results are full.
Collected(s) ==
    IF s.kind = "find_uobject" THEN [s EXCEPT !.found = <<s.object>>, !.at = "answer"]
    ELSE IF Len(s.found) >= MaxResults THEN [s EXCEPT !.truncated = TRUE, !.at = "answer"]
    ELSE NextSlot([s EXCEPT !.found = Append(@, s.object)])

PredicateRead ==
    /\ search.at = "predicate"
    /\ search' = IF object[search.object].name THEN Collected(search) ELSE NextSlot(search)
    /\ UNCHANGED <<array, object, stayed>>

Answered_S ==
    /\ search.at = "answer"
    /\ search' = Idle /\ stayed' = {}
    /\ UNCHANGED <<array, object>>

SearchNext ==
    \/ ChunkAllocated
    \/ \E o \in Objects_S : Allocated(o) \/ ObjectFreed(o)
    \/ \E kind \in Searches : Asked(kind)
    \/ HeaderRead
    \/ SlotRead
    \/ Unreadable
    \/ ClassRead
    \/ PredicateRead
    \/ Answered_S

SearchSpec == SearchInit /\ [][SearchNext]_searchVars

-----------------------------------------------------------------------------
\* An object that is in the array when the header is read and stays there is
\* not missed, whatever is allocated and freed around it: find_uobject has a
\* result, and find_all_uobjects has it or says that it has cut the list.
StayedIsFound ==
    search.at = "answer" =>
        IF search.kind = "find_uobject" THEN stayed # {} => search.found # <<>>
        ELSE search.truncated \/ stayed \subseteq Range(search.found)
=============================================================================
