---------------------------- MODULE FeatureCards ----------------------------
(***************************************************************************)
(* What becomes of a feature whose object the game has not loaded yet, and *)
(* what its card shows, on a UE5 game.                                     *)
(*                                                                         *)
(*   src/crates/app/src-tauri/src/attach.rs    resolve_all                 *)
(*   src/crates/app/src-tauri/src/commands.rs  attach (finalize, read      *)
(*              sweep), spawn_pending_retry_task, retry_resolve            *)
(*   src/crates/app/src-tauri/src/freeze.rs    probe_once, the probe loop  *)
(*   src/crates/app/src/App.tsx                the badges at "attached"    *)
(*                                                                         *)
(* The requests of the session succeed: a lost pipe is PipeSession's, the  *)
(* life of the tasks and who holds the session AttachLifecycle's.  One     *)
(* process of one game, attached to again and again.                       *)
(***************************************************************************)
EXTENDS Naturals, FiniteSets

CONSTANTS
    Cards,      \* the features
    Shape,      \* how each finds its object (Shapes)
    MaxRounds   \* bound: the attaches

Shapes == {"pawn",     \* a property behind the player's pawn (OneShot, reflection)
           "tags",     \* set_progress_tags: an asset of the level, no reflection
           "matching", \* freeze_for_matching: an NPC of the level
           "absent"}   \* a property that this build of the game lacks

ASSUME CardsAssumption == Shape \in [Cards -> Shapes] /\ MaxRounds \in Nat \ {0}

Rounds == 1 .. MaxRounds

VARIABLES
    place,     \* where the player is: "menu", "foot" or "vehicle"
    round,     \* the attaches so far
    phase,     \* of attach: "idle", "resolving", "finalizing", "sweep", "attached"
    left,      \* the features its phase has yet to visit
    entry,     \* Attached.resolutions: the status of each feature
    kept,      \* feature_address_cache: the features whose address it has to trust
    healthy,   \* last_healthy of each probe loop, "none" without a loop
    badge,     \* freezeRuntimeByFeature in the window's store
    retrying,  \* the retry task of each round
    manual     \* the retry_resolve of the user that is in flight

cardVars == <<place, round, phase, left, entry, kept, healthy, badge, retrying, manual>>

Statuses == {"resolved", "pending", "failed"}
Healths == {"none", "active", "waiting"}
NoManual == [card |-> "none", status |-> "none"]
NoRetry == [at |-> "off", ids |-> {}, empty |-> 0]

CardsTypeOK ==
    /\ place \in {"menu", "foot", "vehicle"}
    /\ round \in 0 .. MaxRounds
    /\ phase \in {"idle", "resolving", "finalizing", "sweep", "attached"}
    /\ left \subseteq Cards /\ kept \subseteq Cards
    /\ entry \in [Cards -> Statuses \cup {"none"}]
    /\ healthy \in [Cards -> Healths] /\ badge \in [Cards -> Healths]
    /\ retrying \in [Rounds -> [at : {"off", "asleep", "busy"}, ids : SUBSET Cards, empty : 0 .. 1]]
    /\ manual \in {NoManual} \cup [card : Cards, status : Statuses]

CardsInit ==
    /\ place = "menu" /\ round = 0 /\ phase = "idle" /\ left = {}
    /\ entry = [f \in Cards |-> "none"] /\ kept = {}
    /\ healthy = [f \in Cards |-> "none"] /\ badge = [f \in Cards |-> "none"]
    /\ retrying = [r \in Rounds |-> NoRetry] /\ manual = NoManual

-----------------------------------------------------------------------------
(* Resolving.                                                               *)

\* DeclarativeFeature::resolve: an address, or the text of an error.
Resolution(f) ==
    CASE place # "menu" /\ Shape[f] # "absent" -> "address"
      [] place # "menu" /\ Shape[f] = "absent" -> "property not found"
      [] place = "menu" /\ Shape[f] = "tags" -> "is the player in a level?"
      [] place = "menu" /\ Shape[f] = "matching" -> "no live instances"
      [] OTHER -> "no live UObject"

\* A deliberate error: the question of the tag features is not on the list.
Transient_Fewer(text) == text = "no live UObject"

\* is_transient_resolve_error.
Transient(text) == text \in {"no live UObject", "is the player in a level?"}

StatusOf(text) ==
    CASE text = "address" -> "resolved"
      [] Transient(text) -> "pending"
      [] OTHER -> "failed"

\* quick_check: what comes from reflection or a walk is looked up again, an
\* address of another kind is trusted (the game's image is where it was).
Trusted(f) == Shape[f] = "tags"

Pending == {f \in Cards : entry[f] = "pending"}

\* apply_promotion: a feature that is still pending is left alone.
Promoted(f) ==
    IF StatusOf(Resolution(f)) = "pending" THEN entry
    ELSE [entry EXCEPT ![f] = StatusOf(Resolution(f))]

\* state.attached, which a round's Attached is stored in before the sweep.
Published == phase \in {"sweep", "attached"}

\* The order in which a phase visits the features says nothing here.
Visited(f) == f = CHOOSE g \in left : TRUE

TasksOnly == UNCHANGED <<retrying, manual>>
BadgesOnly == UNCHANGED <<healthy, badge>>

PlayerMoves(to) ==
    /\ place # to /\ place' = to
    /\ UNCHANGED <<round, phase, left, entry, kept>> /\ BadgesOnly /\ TasksOnly

-----------------------------------------------------------------------------
(* attach and detach.                                                       *)

\* The pipe must be free: nothing holds the session of the last round.
Activate ==
    /\ phase = "idle" /\ round < MaxRounds
    /\ manual = NoManual /\ \A r \in Rounds : retrying[r].at # "busy"
    /\ round' = round + 1 /\ phase' = "resolving" /\ left' = Cards
    /\ UNCHANGED <<place, entry, kept>> /\ BadgesOnly /\ TasksOnly

\* One turn of the loop of resolve_all.
ResolveOne(f) ==
    /\ phase = "resolving" /\ left # {} /\ Visited(f)
    /\ entry' = [entry EXCEPT
                    ![f] = IF f \in kept THEN "resolved" ELSE StatusOf(Resolution(f))]
    /\ left' = left \ {f}
    /\ UNCHANGED <<place, round, phase, kept>> /\ BadgesOnly /\ TasksOnly

Finalizing ==
    /\ phase = "resolving" /\ left = {}
    /\ phase' = "finalizing" /\ left' = Pending
    /\ UNCHANGED <<place, round, entry, kept>> /\ BadgesOnly /\ TasksOnly

\* The inline pass over what is pending.
FinalizeOne(f) ==
    /\ phase = "finalizing" /\ left # {} /\ Visited(f)
    /\ entry' = Promoted(f) /\ left' = left \ {f}
    /\ UNCHANGED <<place, round, phase, kept>> /\ BadgesOnly /\ TasksOnly

\* The addresses go to the profile, the round's state to state.attached.
Publish ==
    /\ phase = "finalizing" /\ left = {}
    /\ phase' = "sweep" /\ left' = {f \in Cards : entry[f] = "resolved"}
    /\ kept' = kept \cup {f \in Cards : entry[f] = "resolved" /\ Trusted(f)}
    /\ UNCHANGED <<place, round, entry>> /\ BadgesOnly /\ TasksOnly

\* read() goes through the pawn for the features that have one.
Reachable(f) == Shape[f] # "pawn" \/ place = "foot"
HealthOf(f) == IF Reachable(f) THEN "active" ELSE "waiting"

\* OneShot and supports_probe: no loop for tags and matching features.
Probed(f) == Shape[f] = "pawn"

\* One turn of the initial sweep: probe_once, whose result its loop starts with.
ReadOne(f) ==
    /\ phase = "sweep" /\ left # {} /\ Visited(f)
    /\ badge' = [badge EXCEPT ![f] = HealthOf(f)]
    /\ healthy' = IF Probed(f) THEN [healthy EXCEPT ![f] = HealthOf(f)] ELSE healthy
    /\ left' = left \ {f}
    /\ UNCHANGED <<place, round, phase, entry, kept>> /\ TasksOnly

\* "attached": the window forgets its badges, and the retry task is spawned.
Attached ==
    /\ phase = "sweep" /\ left = {}
    /\ phase' = "attached" /\ badge' = [f \in Cards |-> "none"]
    /\ retrying' = [retrying EXCEPT ![round] = [NoRetry EXCEPT !.at = "asleep"]]
    /\ UNCHANGED <<place, round, left, entry, kept, healthy, manual>>

\* do_detach: the probe loops are aborted, the retry tasks are not.
Deactivate ==
    /\ phase = "attached"
    /\ phase' = "idle" /\ entry' = [f \in Cards |-> "none"]
    /\ healthy' = [f \in Cards |-> "none"]
    /\ UNCHANGED <<place, round, left, kept, badge>> /\ TasksOnly

-----------------------------------------------------------------------------
(* The tasks.                                                               *)

\* A turn of a probe loop that has something to tell.
ProbeTick(f) ==
    /\ healthy[f] # "none" /\ healthy[f] # HealthOf(f)
    /\ healthy' = [healthy EXCEPT ![f] = HealthOf(f)]
    /\ badge' = [badge EXCEPT ![f] = HealthOf(f)]
    /\ UNCHANGED <<place, round, phase, left, entry, kept>> /\ TasksOnly

\* After its sleep: the pending features, or the end, when nothing is attached
\* or two cycles in a row found none, which outlast a retry of the user's.
RetryWakes(r) ==
    /\ retrying[r].at = "asleep"
    /\ Published /\ Pending = {} /\ retrying[r].empty = 1 => manual = NoManual
    /\ retrying' = [retrying EXCEPT ![r] =
            IF ~Published \/ (Pending = {} /\ @.empty = 1) THEN NoRetry
            ELSE IF Pending = {} THEN [@ EXCEPT !.empty = 1]
            ELSE [at |-> "busy", ids |-> Pending, empty |-> 0]]
    /\ UNCHANGED <<place, round, phase, left, entry, kept, manual>> /\ BadgesOnly

\* One of them, applied to what is attached by then.
RetryOne(r, f) ==
    /\ retrying[r].at = "busy" /\ f \in retrying[r].ids
    /\ entry' = IF Published THEN Promoted(f) ELSE entry
    /\ retrying' = [retrying EXCEPT ![r].ids = @ \ {f}]
    /\ UNCHANGED <<place, round, phase, left, kept, manual>> /\ BadgesOnly

RetryRests(r) ==
    /\ retrying[r].at = "busy" /\ retrying[r].ids = {}
    /\ retrying' = [retrying EXCEPT ![r].at = "asleep"]
    /\ UNCHANGED <<place, round, phase, left, entry, kept, manual>> /\ BadgesOnly

\* retry_resolve, offered on a card that is not resolved: it searches now ...
RetryClicked(f) ==
    /\ phase = "attached" /\ manual = NoManual /\ entry[f] # "resolved"
    /\ manual' = [card |-> f, status |-> StatusOf(Resolution(f))]
    /\ UNCHANGED <<place, round, phase, left, entry, kept, retrying>> /\ BadgesOnly

\* ... and stores what it found later, whatever is there by then.
RetryAnswered ==
    /\ manual # NoManual
    /\ manual' = NoManual
    /\ entry' = IF Published THEN [entry EXCEPT ![manual.card] = manual.status] ELSE entry
    /\ kept' = kept \cup {f \in {manual.card} : manual.status = "resolved" /\ Trusted(f)}
    /\ UNCHANGED <<place, round, phase, left, retrying>> /\ BadgesOnly

-----------------------------------------------------------------------------
AttachMoves ==
    \/ \E f \in Cards : ResolveOne(f) \/ FinalizeOne(f) \/ ReadOne(f)
    \/ Finalizing \/ Publish \/ Attached

RetryMoves(r) ==
    \/ RetryWakes(r)
    \/ \E f \in Cards : RetryOne(r, f)
    \/ RetryRests(r)

CardsNext ==
    \/ \E to \in {"menu", "foot", "vehicle"} : PlayerMoves(to)
    \/ Activate \/ Deactivate
    \/ AttachMoves
    \/ \E f \in Cards : ProbeTick(f) \/ RetryClicked(f)
    \/ \E r \in Rounds : RetryMoves(r)
    \/ RetryAnswered

\* A command goes on to its end, a loop comes round again.
CardsFairness ==
    /\ WF_cardVars(AttachMoves) /\ WF_cardVars(RetryAnswered)
    /\ \A f \in Cards : WF_cardVars(ProbeTick(f))
    /\ \A r \in Rounds : WF_cardVars(RetryMoves(r))

CardsSpec == CardsInit /\ [][CardsNext]_cardVars /\ CardsFairness

-----------------------------------------------------------------------------
Unsettled == \E f \in Cards : Shape[f] \in {"pawn", "tags"} /\ entry[f] # "resolved"
Stale == \E f \in Cards : Reachable(f) /\ badge[f] = "waiting"

\* "a periodic retry promotes them to Resolved once the player enters a level"
\* (commands.rs), whichever of finalize, retry tasks and the user's own retry
\* come in between; and a card that says "waiting" stops saying so once the
\* player can be read again.
CardsSettle ==
    /\ (phase = "attached" /\ Unsettled) ~> (~Unsettled \/ place = "menu" \/ phase # "attached")
    /\ (phase = "attached" /\ Stale) ~> (~Stale \/ phase # "attached")
=============================================================================
