---------------------------- MODULE Parts_proofs ----------------------------
(***************************************************************************)
(* The model that has the parts without shared state side by side.  A step *)
(* of one leaves the variables of the others alone, so that each behaves   *)
(* as in its own module, and what is proved there holds here.              *)
(***************************************************************************)
EXTENDS MCParts, Features_proofs, Tools_proofs

LEMMA PartsInitial ==
  ASSUME PartsInit
  PROVE  /\ part \in Parts
         /\ MatchInit
         /\ SpecInit
         /\ WatchInit
         /\ DiscInit
         /\ ScanInit
         /\ SearchInit
         /\ LayoutInit
         /\ LocateInit
         /\ KeysInit
         /\ GrantInit
         /\ CardsInit
  BY DEF PartsInit

LEMMA PartsMove ==
  ASSUME [PartsNext]_partsVars
  PROVE  /\ [MatchNext]_matchVars
         /\ [SpecNext]_specVars
         /\ [WatchNext]_watchVars
         /\ [DiscNext]_discVars
         /\ [ScanNext]_scanVars
         /\ [SearchNext]_searchVars
         /\ [LayoutNext]_layoutVars
         /\ [LocateNext]_locateVars
         /\ [KeysNext]_keyVars
         /\ [GrantNext]_grantVars
         /\ [CardsNext]_cardVars
  <1>1. CASE MatchingSteps
    BY <1>1 DEF MatchingSteps
  <1>2. CASE SpecSteps
    BY <1>2 DEF SpecSteps
  <1>3. CASE WatchSteps
    BY <1>3 DEF WatchSteps
  <1>4. CASE DiscoverSteps
    BY <1>4 DEF DiscoverSteps
  <1>5. CASE ScanSteps
    BY <1>5 DEF ScanSteps
  <1>6. CASE SearchSteps
    BY <1>6 DEF SearchSteps
  <1>7. CASE LayoutSteps
    BY <1>7 DEF LayoutSteps
  <1>8. CASE LocateSteps
    BY <1>8 DEF LocateSteps
  <1>9. CASE KeysSteps
    BY <1>9 DEF KeysSteps
  <1>10. CASE GrantsSteps
    BY <1>10 DEF GrantsSteps
  <1>11. CASE CardsSteps
    BY <1>11 DEF CardsSteps
  <1>12. CASE UNCHANGED partsVars
    BY <1>12 DEF partsVars
  <1> QED
    BY <1>1, <1>2, <1>3, <1>4, <1>5, <1>6, <1>7, <1>8, <1>9, <1>10, <1>11, <1>12 DEF PartsNext

\* In the model of the run `Parts` each part behaves as in its own module: what is proved
\* of the module holds in the run.
THEOREM PartsCompose ==
  PartsSpec =>
    /\ MatchSpec
    /\ SpecSpec
    /\ WatchSpec
    /\ DiscSpec
    /\ ScanSpec
    /\ SearchSpec
    /\ LayoutSpec
    /\ LocateSpec
    /\ KeysSpec
    /\ GrantSpec
    /\ CardsSpec
  BY PartsInitial, PartsMove, PTL
  DEF PartsSpec, MatchSpec, SpecSpec, WatchSpec, DiscSpec, ScanSpec, SearchSpec, LayoutSpec,
      LocateSpec, KeysSpec, GrantSpec, CardsSpec

LEMMA PartStays == PartsSpec => [](part \in Parts)
  <1>1. PartsInit => part \in Parts
    BY PartsInitial
  <1>2. part \in Parts /\ [PartsNext]_partsVars => (part \in Parts)'
    BY DEF PartsNext, partsVars, MatchingSteps, SpecSteps, WatchSteps, DiscoverSteps, ScanSteps, SearchSteps,
       LayoutSteps, LocateSteps, KeysSteps, GrantsSteps, CardsSteps
  <1> QED
    BY <1>1, <1>2, PTL DEF PartsSpec

\* Every variable of every part keeps its type, for any objects, features, chords, tables
\* and sizes: the states the code's structs and locals can be in.
THEOREM PartsTypeCorrect == PartsSpec => []PartsTypeOK
  <1> DEFINE Typed ==
        /\ part \in Parts
        /\ MatchTypeOK
        /\ SpecTypeOK
        /\ WatchTypeOK
        /\ DiscTypeOK
        /\ ScanTypeOK
        /\ SearchTypeOK
        /\ LayoutTypeOK
        /\ LocateTypeOK
        /\ KeysTypeOK
        /\ GrantTypeOK
        /\ CardsTypeOK
  <1>1. PartsSpec => []Typed
    BY PartsCompose, PartStays, MatchTypeCorrect, SpecTypeCorrect, WatchTypeCorrect, DiscTypeCorrect,
       ScanTypeCorrect, SearchTypeCorrect, LayoutTypeCorrect, LocateTypeCorrect,
       KeysTypeCorrect, GrantTypeCorrect, CardsTypeCorrect, PTL
  <1>2. Typed => PartsTypeOK
    BY DEF PartsTypeOK
  <1> QED
    BY <1>1, <1>2, PTL

\* The ten invariants of the run `Parts`, for every value of the constants of the parts:
\* each says of its component what its module says.
THEOREM PartsCorrect ==
  PartsSpec =>
    [](/\ OffUnstamps
       /\ OperationsServed
       /\ WatchLeavesClean
       /\ TargetKept
       /\ ScanComplete
       /\ StayedIsFound
       /\ ServedFits
       /\ ReportsReal
       /\ PressReachesOwner
       /\ GrantComplete)
  BY PartsCompose, OffCorrect, ServedCorrect, CleanWatch, TargetCorrect, CompleteCorrect,
     StayedCorrect, FitCorrect, RealTables, PressCorrect, GrantedCorrect, PTL
=============================================================================
