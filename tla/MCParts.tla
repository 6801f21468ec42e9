------------------------------ MODULE MCParts ------------------------------
(***************************************************************************)
(* The parts of the program that share no state with one another, each on  *)
(* a small instance, side by side in one model: the initial state chooses  *)
(* which of them runs, and the variables of the others keep one value of   *)
(* no importance.  The states are those of the parts, added up.            *)
(***************************************************************************)
EXTENDS MatchingFreeze, FeatureSpec, WriterWatch, DiscoverSession, MemoryScan,
        ObjectSearch, PropertyLayout, UnrealLocate, KeybindStore, ProgressGrants,
        FeatureCards

CONSTANTS jump, skills, gone

VARIABLE part

Parts == {"matching", "spec", "watch", "discover", "scan", "search", "layout", "locate",
          "keys", "grants", "cards"}

partsVars == <<part, matchVars, specVars, watchVars, discVars, scanVars, searchVars,
               layoutVars, locateVars, keyVars, grantVars, cardVars>>

\* A class, one derived from it, and an unrelated one with a property of the
\* same name.
MCSuper == "base" :> "none" @@ "hero" :> "base" @@ "foe" :> "none"
MCFields == "base" :> <<"ammo">> @@ "hero" :> <<>> @@ "foe" :> <<"ammo">>

\* The derived class has its own function in place of the base's.
MCFunctions == "base" :> <<"ammo">> @@ "hero" :> <<"ammo">> @@ "foe" :> <<>>
MCParms == "ammo" :> 1

\* A movement mod, a grant of skills, and a feature of another build.
MCShape == jump :> "pawn" @@ skills :> "tags" @@ gone :> "absent"

\* The others' variables start at one of their initial states.
PartsInit ==
    /\ part \in Parts
    /\ MatchInit
    /\ SpecInit
    /\ WatchInit /\ (part # "watch" => tool = "dll")
    /\ DiscInit /\ (part # "discover" => kind = "narrow" /\ mem = [a \in Places |-> 0])
    /\ ScanInit
    /\ SearchInit
    /\ LayoutInit /\ (part # "layout" => about = "property")
    /\ LocateInit
    /\ KeysInit
    /\ GrantInit /\ (part # "grants" => source = "asset" /\ untagged = {})
    /\ CardsInit

MatchingSteps ==
    /\ part = "matching" /\ MatchNext
    /\ UNCHANGED <<part, specVars, watchVars, discVars, scanVars, searchVars,
                   layoutVars, locateVars, keyVars, grantVars, cardVars>>

SpecSteps ==
    /\ part = "spec" /\ SpecNext
    /\ UNCHANGED <<part, matchVars, watchVars, discVars, scanVars, searchVars,
                   layoutVars, locateVars, keyVars, grantVars, cardVars>>

WatchSteps ==
    /\ part = "watch" /\ WatchNext
    /\ UNCHANGED <<part, matchVars, specVars, discVars, scanVars, searchVars,
                   layoutVars, locateVars, keyVars, grantVars, cardVars>>

DiscoverSteps ==
    /\ part = "discover" /\ DiscNext
    /\ UNCHANGED <<part, matchVars, specVars, watchVars, scanVars, searchVars,
                   layoutVars, locateVars, keyVars, grantVars, cardVars>>

ScanSteps ==
    /\ part = "scan" /\ ScanNext
    /\ UNCHANGED <<part, matchVars, specVars, watchVars, discVars, searchVars,
                   layoutVars, locateVars, keyVars, grantVars, cardVars>>

SearchSteps ==
    /\ part = "search" /\ SearchNext
    /\ UNCHANGED <<part, matchVars, specVars, watchVars, discVars, scanVars, layoutVars,
                   locateVars, keyVars, grantVars, cardVars>>

LayoutSteps ==
    /\ part = "layout" /\ LayoutNext
    /\ UNCHANGED <<part, matchVars, specVars, watchVars, discVars, scanVars, searchVars,
                   locateVars, keyVars, grantVars, cardVars>>

LocateSteps ==
    /\ part = "locate" /\ LocateNext
    /\ UNCHANGED <<part, matchVars, specVars, watchVars, discVars, scanVars, searchVars,
                   layoutVars, keyVars, grantVars, cardVars>>

KeysSteps ==
    /\ part = "keys" /\ KeysNext
    /\ UNCHANGED <<part, matchVars, specVars, watchVars, discVars, scanVars, searchVars,
                   layoutVars, locateVars, grantVars, cardVars>>

GrantsSteps ==
    /\ part = "grants" /\ GrantNext
    /\ UNCHANGED <<part, matchVars, specVars, watchVars, discVars, scanVars, searchVars,
                   layoutVars, locateVars, keyVars, cardVars>>

CardsSteps ==
    /\ part = "cards" /\ CardsNext
    /\ UNCHANGED <<part, matchVars, specVars, watchVars, discVars, scanVars, searchVars,
                   layoutVars, locateVars, keyVars, grantVars>>

PartsNext ==
    \/ MatchingSteps
    \/ SpecSteps
    \/ WatchSteps
    \/ DiscoverSteps
    \/ ScanSteps
    \/ SearchSteps
    \/ LayoutSteps
    \/ LocateSteps
    \/ KeysSteps
    \/ GrantsSteps
    \/ CardsSteps

\* Only the cards have something that must go on.
PartsSpec == PartsInit /\ [][PartsNext]_partsVars /\ CardsFairness

\* Every variable of every part keeps its type: the states the code's structs
\* and locals can be in.
PartsTypeOK ==
    /\ part \in Parts
    /\ MatchTypeOK
    /\ SpecTypeOK
    /\ WatchTypeOK
    /\ DiscTypeOK
    /\ ScanTypeOK
    /\ SearchTypeOK
    /\ LayoutTypeOK
    /\ LocateTypeOK
    /\ KeysTypeOK
    /\ GrantTypeOK
    /\ CardsTypeOK
=============================================================================
