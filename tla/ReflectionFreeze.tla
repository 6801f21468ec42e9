-------------------------- MODULE ReflectionFreeze --------------------------
(***************************************************************************)
(* A feature whose address is found by reflection, over objects that the   *)
(* game frees and allocates anew: a freeze, or a call of an object's       *)
(* function.                                                               *)
(*                                                                         *)
(*   src/crates/runtime/src/feature.rs        cache, chain, read, write,   *)
(*                                            snapshot, restore            *)
(*   src/crates/app/src-tauri/src/freeze.rs   the loop                     *)
(*   src/crates/app/src-tauri/src/commands.rs set_freeze, promotion        *)
(*                                                                         *)
(* Three shapes of signature: "direct", the value is a property of the     *)
(* root object (MassTrafficSettings.TurnSpeedScale) and may be mirrored to *)
(* other properties of it; "deref", the property is a pointer slot and the *)
(* value lies behind it (PlayerState.PawnPrivate -> Health); "call", a     *)
(* function of the object in the slot is called when the user asks for it  *)
(* (call_instance_ufunction, teleport_to_waypoint).  A chain of several    *)
(* hops is one hop here.  Every request to the game is a step of its own,  *)
(* so the game moves between any two of them.                              *)
(***************************************************************************)
EXTENDS Naturals

CONSTANT MaxObjects  \* bound: the objects the game ever allocates

ASSUME ReflectionAssumption == MaxObjects \in Nat \ {0}

Objects == 1 .. MaxObjects
Null == 0
Junk == MaxObjects + 1             \* a pointer to no object
Pointers == Objects \cup {Null, Junk}
Stock == 0
Frozen == 1
FieldValues == {Stock, Frozen}

VARIABLES
    shape,    \* of the signature: "direct", "deref" or "call"
    heap,      \* each object: is it live, its pointer slot, its value and the mirror
    used,     \* the objects allocated so far
    root,     \* the live object that find_uobject finds, or Null
    pawn,     \* the object the game means by root's slot, or Null
    cache,    \* ReflectionCache.obj_addr, or Null
    bound,    \* Attached: the object whose address is the feature's; what is snapshot there
    loop,     \* the freeze loop: running, the step of its tick (or of a call), the object it is at
    old       \* history: the objects freed before the tick began, while it lasts

worldVars == <<shape, heap, used, root, pawn>>
reflVars == <<worldVars, cache, bound, loop, old>>

ReflTypeOK ==
    /\ shape \in {"direct", "deref", "call"}
    /\ heap \in [Objects -> [live : BOOLEAN, slot : Pointers, value : FieldValues, mirror : FieldValues]]
    /\ used \in 0 .. MaxObjects
    /\ {root, pawn, cache} \subseteq Objects \cup {Null}
    /\ bound \in [obj : Objects \cup {Null}, taken : BOOLEAN, snap : Pointers \X FieldValues]
    /\ loop \in [on : BOOLEAN, obj : Objects \cup {Null},
                at : {"rest", "waypoint", "check", "find", "walk", "write", "call"}]
    /\ old \subseteq Objects

Blank == [live |-> FALSE, slot |-> Null, value |-> Stock, mirror |-> Stock]
Unbound == [obj |-> Null, taken |-> FALSE, snap |-> <<Null, Stock>>]

ReflInit ==
    /\ shape \in {"direct", "deref", "call"}
    /\ heap = [o \in Objects |-> Blank]
    /\ used = 0 /\ root = Null /\ pawn = Null /\ cache = Null /\ bound = Unbound
    /\ loop = [on |-> FALSE, at |-> "rest", obj |-> Null] /\ old = {}

-----------------------------------------------------------------------------
(* The game.                                                                *)

GameOnly_R == UNCHANGED <<shape, cache, bound, loop, old>>

\* A level is entered: a root, without a pawn.
EnterLevel ==
    /\ root = Null /\ used < MaxObjects
    /\ used' = used + 1 /\ root' = used + 1
    /\ heap' = [heap EXCEPT ![used + 1].live = TRUE]
    /\ UNCHANGED pawn /\ GameOnly_R

\* A character is possessed, or another one.  Root's slot is seated on it later, and
\* the last pawn is freed whenever the game sees fit.
Possess ==
    /\ shape # "direct" /\ root # Null /\ used < MaxObjects
    /\ used' = used + 1 /\ pawn' = used + 1
    /\ heap' = [heap EXCEPT ![used + 1].live = TRUE]
    /\ UNCHANGED root /\ GameOnly_R

Reseat ==
    /\ root # Null /\ heap[root].slot # pawn
    /\ heap' = [heap EXCEPT ![root].slot = pawn]
    /\ UNCHANGED <<used, root, pawn>> /\ GameOnly_R

\* Any object may be freed at any time, with pointers to it left behind.  Its memory
\* is reused: its vtable is out of the module, and the value is no more the property's.
\* Without a root there is no pawn.
Frees(o) ==
    /\ heap[o].live
    /\ heap' = [heap EXCEPT ![o] = [Blank EXCEPT !.slot = heap[o].slot]]
    /\ root' = IF o = root THEN Null ELSE root
    /\ pawn' = IF o \in {root, pawn} THEN Null ELSE pawn
    /\ UNCHANGED used /\ GameOnly_R

Holder == IF shape = "direct" THEN root ELSE pawn

\* The game's own logic sets the value.
GameSets ==
    /\ Holder # Null /\ heap[Holder].value = Frozen
    /\ heap' = [heap EXCEPT ![Holder].value = Stock, ![Holder].mirror = Stock]
    /\ UNCHANGED <<used, root, pawn>> /\ GameOnly_R

-----------------------------------------------------------------------------
(* Attach, retry and promotion: resolve, then snapshot at the address.      *)

Resolve ==
    /\ bound.obj = Null /\ root # Null
    /\ cache' = root /\ bound' = [bound EXCEPT !.obj = root]
    /\ UNCHANGED <<worldVars, loop, old>>

\* DeclarativeFeature::snapshot reads at the address that resolve returned: the
\* pointer slot, if there is a chain.  It may fail.
Snapshot ==
    /\ bound.obj # Null /\ ~bound.taken /\ ~loop.on
    /\ LET o == heap[bound.obj]
       IN  bound' = [bound EXCEPT !.taken = TRUE,
                        !.snap = IF shape = "direct" THEN <<o.value, o.mirror>>
                                                     ELSE <<o.slot, Stock>>]
    /\ UNCHANGED <<worldVars, cache, loop, old>>

-----------------------------------------------------------------------------
(* One tick of the loop: DeclarativeFeature::write.                         *)

At(step, o) ==
    /\ loop' = [loop EXCEPT !.at = step, !.obj = o]
    /\ old' = IF step = "rest" THEN {} ELSE old

Freed == {o \in Objects : o <= used /\ ~heap[o].live}

Begins(step) == loop' = [loop EXCEPT !.at = step, !.obj = Null] /\ old' = Freed

Tick_R ==
    /\ loop.on /\ loop.at = "rest"
    /\ Begins("check")
    /\ UNCHANGED <<worldVars, cache, bound>>

\* A deliberate error: the cached object is taken for live.
CheckTrusts ==
    /\ loop.at = "check"
    /\ At("walk", cache)
    /\ UNCHANGED <<worldVars, cache, bound>>

\* ensure_reflection_fresh: the vtable and the class of the cached object.
Check ==
    /\ loop.at = "check"
    /\ IF heap[cache].live THEN At("walk", cache) ELSE At("find", Null)
    /\ UNCHANGED <<worldVars, cache, bound>>

\* A deliberate error: an object that has gone fails the tick, and all later ones.
FindGivesUp ==
    /\ loop.at = "find"
    /\ At("rest", Null) /\ UNCHANGED <<worldVars, cache, bound>>

\* resolve_via_reflection: the cache is replaced; no live object, no tick.
Find ==
    /\ loop.at = "find"
    /\ IF root # Null
         THEN cache' = root /\ At("walk", root)
         ELSE At("rest", Null) /\ UNCHANGED cache
    /\ UNCHANGED <<worldVars, bound>>

\* resolve_deref_addr: a null pointer or a pointer to no live object ends the tick.
\* The receiver of a call is not looked at any further.
Walk ==
    /\ loop.at = "walk"
    /\ LET next == heap[loop.obj].slot
       IN  CASE shape = "direct" -> At("write", loop.obj)
             [] shape = "deref" /\ next \in Objects /\ heap[next].live -> At("write", next)
             [] shape = "call" /\ next \in Objects -> At("call", next)
             [] OTHER -> At("rest", Null)
    /\ UNCHANGED <<worldVars, cache, bound>>

\* The value, and with no chain its mirrors on the cached object.
WriteValue ==
    /\ loop.at = "write"
    /\ heap' = [heap EXCEPT ![loop.obj].value = Frozen,
                          ![cache].mirror = IF shape = "direct" THEN Frozen ELSE @]
    /\ At("rest", Null)
    /\ UNCHANGED <<shape, used, root, pawn, cache, bound>>

-----------------------------------------------------------------------------
(* One call: the same steps, then the receiver's class and the request.     *)

Fire(step) ==
    /\ shape = "call" /\ bound.obj # Null /\ loop.at = "rest"
    /\ Begins(step)
    /\ UNCHANGED <<worldVars, cache, bound>>

\* write_teleport_to_waypoint reads the waypoint first; without one there is no call.
ReadWaypoint ==
    /\ loop.at = "waypoint"
    /\ \E step \in {"check", "rest"} : At(step, Null)
    /\ UNCHANGED <<worldVars, cache, bound>>

\* The call is answered, or the DLL reports that it did not run.
CallReceiver ==
    /\ loop.at = "call"
    /\ At("rest", Null)
    /\ UNCHANGED <<worldVars, cache, bound>>

-----------------------------------------------------------------------------
(* set_freeze.                                                              *)

FreezeOn ==
    /\ shape # "call" /\ bound.obj # Null /\ ~loop.on /\ loop.at = "rest"
    /\ loop' = [loop EXCEPT !.on = TRUE]
    /\ UNCHANGED <<worldVars, cache, bound, old>>

\* What a restore leaves in a pointer slot that has moved on: the bytes of the
\* snapshot, all eight of them or, for a narrower value, the low ones only.
Overwritten(slot) == IF slot = bound.snap[1] THEN {slot} ELSE {bound.snap[1], Junk}

\* The loop is aborted, at once or with its last tick still to finish, and
\* DeclarativeFeature::restore writes at the address of the attach, through no
\* chain.  Without a snapshot nothing is written.
FreezeOff ==
    /\ loop.on
    /\ loop' = [loop EXCEPT !.on = FALSE]
    /\ CASE ~bound.taken -> UNCHANGED heap
         [] bound.taken /\ shape = "direct" ->
              heap' = [heap EXCEPT ![bound.obj].value = bound.snap[1], ![cache].mirror = bound.snap[2]]
         [] bound.taken /\ shape = "deref" ->
              \E p \in Overwritten(heap[bound.obj].slot) : heap' = [heap EXCEPT ![bound.obj].slot = p]
    /\ UNCHANGED <<shape, used, root, pawn, cache, bound, old>>

-----------------------------------------------------------------------------
TickMoves == Check \/ Find \/ Walk \/ WriteValue \/ ReadWaypoint \/ CallReceiver

ReflNext ==
    \/ EnterLevel \/ Possess \/ Reseat \/ GameSets
    \/ \E o \in Objects : Frees(o)
    \/ Resolve \/ Snapshot \/ Tick_R \/ TickMoves \/ FreezeOn \/ FreezeOff
    \/ Fire("check") \/ Fire("waypoint")

\* The interval timer of the loop fires again and again, and a tick goes on.
ReflFairness == WF_reflVars(Tick_R) /\ WF_reflVars(TickMoves)

ReflSpec == ReflInit /\ [][ReflNext]_reflVars /\ ReflFairness

-----------------------------------------------------------------------------
(* Properties.                                                              *)

\* A tick or a call goes on through no object, and a tick writes into none, that the
\* game had freed before it began: not through the attach-time address, the cache or a
\* stale pointer, also not after a restore has put an old one back.  It says nothing of
\* the receiver of a call: that is checked for null only (feature.rs:1004-1016).
NotIntoFreed == loop.at \in {"walk", "write"} => loop.obj \notin old

\* A freeze that stays on finds the new objects after every level transition: once
\* the world has settled, with its pointer in place, the value is frozen again and
\* again, whatever the game sets it to.
Settled == Holder # Null /\ (shape # "direct" => heap[root].slot = pawn)

FreezeFollows == <>[](loop.on /\ Settled) => []<>(Holder # Null /\ heap[Holder].value = Frozen)

\* Switching a freeze off writes the bytes from before it back (commands.rs:1343),
\* at least while the object of the attach is still there.
OffRestores ==
    [][loop.on /\ ~loop'.on /\ bound.taken /\ root = bound.obj /\ Settled
          => heap'[Holder].value = Stock]_reflVars
=============================================================================
