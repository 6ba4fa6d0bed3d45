--------------------------- MODULE MCRouteProjection --------------------------
(* An instance of RouteProjection for TLC.                                 *)
EXTENDS RouteProjection, TLC

CONSTANTS a1, a2

(* a1 is issued for the first reservation; a2 is never issued.             *)
RouteVersionDef == (a1 :> 1) @@ (a2 :> MaxRoute + 1)
StraysDef == {Offer(2, Ringing(a2, 1)), Offer(2, Terminal)}
==============================================================================
