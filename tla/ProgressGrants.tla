--------------------------- MODULE ProgressGrants ---------------------------
(***************************************************************************)
(* The button that unlocks everything of a kind (set_progress_tags): the   *)
(* host lists the entries, reads the tag of each, finds the two objects    *)
(* the call needs and calls the game once for each tag.                    *)
(*                                                                         *)
(*   src/crates/runtime/src/feature.rs    extract_progress_tags,           *)
(*                                        write_set_progress_tags          *)
(*   src/crates/app/src-tauri/src/commands.rs              write_feature   *)
(*                                                                         *)
(* The entries are objects of a class, each with a tag of its own, or      *)
(* those of one loaded asset.  The game loads and frees them between any   *)
(* two requests.  A tag stands for its entry; one that is zero names       *)
(* nothing.                                                                *)
(***************************************************************************)
EXTENDS Naturals, Sequences, FiniteSets

CONSTANTS
    MaxEntries,     \* bound: the entries, in the order a search finds them
    Excluded,       \* the default object and those with an excluded name
    MaxInstances,   \* MAX_INSTANCES (4096)
    MaxGrants       \* bound: the clicks

Entries == 1 .. MaxEntries
Zero == 0

ASSUME GrantAssumption ==
    /\ {MaxEntries, MaxInstances, MaxGrants} \subseteq Nat \ {0}
    /\ Excluded \subseteq Entries

VARIABLES
    source,     \* where the tags are: in "objects" of their own, or in one "asset"
    loaded,     \* the entries that are loaded
    untagged,   \* the entries whose tag is zero
    world,      \* the game has a world, so both objects of the call are found
    connected,       \* the pipe works
    grant,      \* the command: its step, the entries to read, the tags, the calls so far
    clicks,
    outcome,    \* what the last command returned
    lasted,     \* history: the entries loaded ever since the click
    answered    \* history: the entries the game has answered a call for since the click

grantVars == <<source, loaded, untagged, world, connected, grant, clicks, outcome, lasted, answered>>

NoGrant == [at |-> "idle", listed |-> <<>>, tags |-> <<>>, cut |-> FALSE]

GrantTypeOK ==
    /\ source \in {"objects", "asset"}
    /\ loaded \subseteq Entries /\ untagged \subseteq Entries
    /\ world \in BOOLEAN /\ connected \in BOOLEAN
    /\ grant \in [at : {"idle", "list", "read", "find", "call"}, listed : Seq(Entries),
                  tags : Seq(Entries \cup {Zero}), cut : BOOLEAN]
    /\ clicks \in 0 .. MaxGrants
    /\ outcome \in {"none", "ok", "error"}
    /\ lasted \subseteq loaded /\ answered \subseteq Entries

GrantInit ==
    /\ source \in {"objects", "asset"}
    /\ loaded = {} /\ untagged \in {s \in SUBSET Entries : Cardinality(s) <= 1}
    /\ world = FALSE /\ connected = TRUE
    /\ grant = NoGrant /\ clicks = 0 /\ outcome = "none"
    /\ lasted = {} /\ answered = {}

-----------------------------------------------------------------------------
(* The game.                                                                *)

GrantIdles == UNCHANGED <<grant, clicks, outcome, answered>>

\* An asset comes and goes with all its entries.
Together == IF source = "asset" THEN {Entries} ELSE {{e} : e \in Entries}

Loads(s) ==
    /\ loaded \cap s = {} /\ loaded' = loaded \cup s
    /\ UNCHANGED <<source, untagged, world, connected, lasted>> /\ GrantIdles

Frees(s) ==
    /\ s \subseteq loaded /\ loaded' = loaded \ s /\ lasted' = lasted \ s
    /\ UNCHANGED <<source, untagged, world, connected>> /\ GrantIdles

WorldChanges ==
    /\ world' = ~world
    /\ UNCHANGED <<source, loaded, untagged, connected, lasted>> /\ GrantIdles

GamePipeBreaks ==
    /\ connected /\ connected' = FALSE
    /\ UNCHANGED <<source, loaded, untagged, world, lasted>> /\ GrantIdles

-----------------------------------------------------------------------------
(* The command.                                                             *)

GameIdles == UNCHANGED <<source, loaded, untagged, world, connected, clicks>>

Returns(o) == grant' = [NoGrant EXCEPT !.cut = grant.cut] /\ outcome' = o

\* A feature whose entries could not be found at the attach has no address, and
\* the command ends before it writes.
GrantClicked ==
    /\ grant.at = "idle" /\ clicks < MaxGrants
    /\ grant' = [NoGrant EXCEPT !.at = "list"]
    /\ clicks' = clicks + 1 /\ outcome' = "none"
    /\ lasted' = loaded /\ answered' = {}
    /\ UNCHANGED <<source, loaded, untagged, world, connected>>

\* The entries that are loaded, in the order a search finds them.
InOrder ==
    {s \in [1 .. Cardinality(loaded) -> loaded] : \A i, j \in DOMAIN s : i < j => s[i] < s[j]}

Cut(s) == IF Len(s) > MaxInstances THEN SubSeq(s, 1, MaxInstances) ELSE s

\* find_all_uobjects, whose word that there are more is dropped; or the asset and
\* the array's header.  No object is nothing to grant, no asset an error.
ListEntries ==
    /\ grant.at = "list"
    /\ CASE ~connected \/ (source = "asset" /\ loaded = {}) -> Returns("error")
         [] connected /\ source = "objects" /\ loaded = {} -> Returns("ok")
         [] OTHER ->
                /\ \E s \in InOrder :
                      grant' = [grant EXCEPT
                         !.at = "read",
                         !.listed = IF source = "objects" THEN Cut(s) ELSE s,
                         !.cut = source = "objects" /\ Len(s) > MaxInstances]
                /\ UNCHANGED outcome
    /\ UNCHANGED <<lasted, answered>> /\ GameIdles

Named(e) == IF e \in untagged THEN Zero ELSE e

\* One entry's tag.  That of an object that cannot be read is left out, whatever
\* the reason; the asset's must all be read.  A freed entry may still be readable.
ReadTag ==
    LET e == Head(grant.listed)
        rest == [grant EXCEPT !.listed = Tail(@)] IN
    /\ grant.at = "read" /\ grant.listed # <<>>
    /\ \/ /\ source = "objects" /\ e \in Excluded
          /\ grant' = rest /\ UNCHANGED outcome
       \/ /\ connected /\ ~(source = "objects" /\ e \in Excluded)
          /\ grant' = [rest EXCEPT !.tags = Append(@, Named(e))] /\ UNCHANGED outcome
       \/ /\ ~connected \/ e \notin loaded
          /\ ~(source = "objects" /\ e \in Excluded)
          /\ IF source = "objects" THEN grant' = rest /\ UNCHANGED outcome
             ELSE Returns("error")
    /\ UNCHANGED <<lasted, answered>> /\ GameIdles

\* No tag at all counts as nothing to grant.
TagsRead ==
    /\ grant.at = "read" /\ grant.listed = <<>>
    /\ IF grant.tags = <<>> THEN Returns("ok")
       ELSE grant' = [grant EXCEPT !.at = "find"] /\ UNCHANGED outcome
    /\ UNCHANGED <<lasted, answered>> /\ GameIdles

\* The world context and the statics.
FindReceivers ==
    /\ grant.at = "find"
    /\ IF connected /\ world THEN grant' = [grant EXCEPT !.at = "call"] /\ UNCHANGED outcome
       ELSE Returns("error")
    /\ UNCHANGED <<lasted, answered>> /\ GameIdles

\* A deliberate error: the first zero tag ends the calls.
CallGame_StopsAtZero ==
    /\ grant.at = "call"
    /\ IF grant.tags = <<>> \/ Head(grant.tags) = Zero
       THEN Returns("ok") /\ UNCHANGED answered
       ELSE \/ /\ connected /\ grant' = [grant EXCEPT !.tags = Tail(@)]
               /\ answered' = answered \cup {Head(grant.tags)} /\ UNCHANGED outcome
            \/ Returns("error") /\ UNCHANGED answered
    /\ UNCHANGED lasted /\ GameIdles

\* SetGameProgressValue for the next tag.  A call that fails ends the grant, and
\* what was granted stays.
CallGame ==
    /\ grant.at = "call"
    /\ \/ grant.tags = <<>> /\ Returns("ok") /\ UNCHANGED answered
       \/ /\ grant.tags # <<>> /\ Head(grant.tags) = Zero
          /\ grant' = [grant EXCEPT !.tags = Tail(@)] /\ UNCHANGED <<outcome, answered>>
       \/ /\ grant.tags # <<>> /\ Head(grant.tags) # Zero
          /\ \/ /\ connected /\ grant' = [grant EXCEPT !.tags = Tail(@)]
                /\ answered' = answered \cup {Head(grant.tags)} /\ UNCHANGED outcome
             \/ Returns("error") /\ UNCHANGED answered
    /\ UNCHANGED lasted /\ GameIdles

GrantNext ==
    \/ \E s \in Together : Loads(s) \/ Frees(s)
    \/ WorldChanges \/ GamePipeBreaks
    \/ GrantClicked \/ ListEntries \/ ReadTag \/ TagsRead \/ FindReceivers \/ CallGame

GrantSpec == GrantInit /\ [][GrantNext]_grantVars

-----------------------------------------------------------------------------
\* A grant that reports success has had an answer for every entry that was loaded
\* throughout and has a tag, whatever else was loaded or freed meanwhile, which
\* tags were zero, and how often it failed half-way before, unless there are more
\* objects than it lists or the pipe broke: with no tag readable it reports
\* success too.
GrantComplete ==
    (outcome = "ok" /\ connected /\ ~grant.cut) =>
        lasted \ (untagged \cup (IF source = "objects" THEN Excluded ELSE {})) \subseteq answered
=============================================================================
