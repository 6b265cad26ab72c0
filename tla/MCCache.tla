------------------------------ MODULE MCCache ------------------------------
(* The UI thread with two controls and the cache loader with one ask for     *)
(* two resources, one of which fills the budget alone.                       *)
EXTENDS Cache

CONSTANTS ui, loader, c1, c2, c3, small, large

MCOwner == (c1 :> ui) @@ (c2 :> ui) @@ (c3 :> loader)
MCSize  == (small :> 1) @@ (large :> 2)
=============================================================================
