--------------------------- MODULE MCPatchToggle ---------------------------
(***************************************************************************)
(* Two features with a site each, and two builds of the game.  In the      *)
(* second the update has moved p1's site to where p2's was: the cached     *)
(* address of p1 now holds instructions that begin as p1's patch does, the *)
(* cached address of p2 holds the original bytes of p1, and p2 has no site *)
(* left.                                                                   *)
(***************************************************************************)
EXTENDS PatchToggle, TLC

CONSTANTS p1, p2, a1, a2, o1, o2, r1, r2, nop

MCOrig == p1 :> o1 @@ p2 :> o2
MCRepl == p1 :> r1 @@ p2 :> r2
MCFirstIsRepl == p1 :> {r1, nop} @@ p2 :> {r2}
MCBuilds ==
    { [text |-> a1 :> o1 @@ a2 :> o2, site |-> p1 :> a1 @@ p2 :> a2],
      [text |-> a1 :> nop @@ a2 :> o1, site |-> p1 :> a2 @@ p2 :> None] }
=============================================================================
