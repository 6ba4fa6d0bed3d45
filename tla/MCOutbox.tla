------------------------------- MODULE MCOutbox -------------------------------
(* An instance of DeliveryOutbox for TLC.                                  *)
EXTENDS DeliveryOutbox, TLC

CONSTANTS a1, a2

(* a1 is issued for the first reservation, a2 for the one after its end.   *)
RouteVersionDef == (a1 :> 1) @@ (a2 :> 3)
==============================================================================
