------------------------------ MODULE CallRouter ------------------------------
(***************************************************************************)
(* The call router, an external service: the route history of one          *)
(* interaction as RelayPoint's delivery code depends on it                 *)
(* (delivery.RouterPort, routeprojection.RouterPort and RouteFact).  It    *)
(* reserves a target, rings it once the delivery is acknowledged against   *)
(* the reservation's route version and fencing token, and ends the route.  *)
(* It retains its facts from a floor on.                                   *)
(***************************************************************************)
EXTENDS Integers, Sequences

CONSTANTS Authorizations,  \* delivery authorizations issued by corex
          RouteVersion,    \* authorization -> the route version it was issued at
          MaxRoute,        \* bound: facts after which no route is ended or begun
          Nothing          \* no row, no authorization, no answer

ASSUME RouteAssumption ==
    /\ RouteVersion \in [Authorizations -> Nat \ {0}]
    /\ MaxRoute \in Nat \ {0}
    /\ Nothing \notin Authorizations

VARIABLES route, floor

routeVars == <<route, floor>>

Fact(kind, a, receipt) == [kind |-> kind, auth |-> a, receipt |-> receipt]
Reserved == Fact("reserved", Nothing, Nothing)
Terminal == Fact("terminal", Nothing, Nothing)
Ringing(a, receipt) == Fact("ringing", a, receipt)

RouteInit == route = <<Reserved>> /\ floor = 1

Latest == route[Len(route)]

(* A reservation expires or a call ends, and a new target may be reserved. *)
EndRoute ==
    /\ Len(route) < MaxRoute
    /\ route' = Append(route, IF Latest = Terminal THEN Reserved ELSE Terminal)
    /\ UNCHANGED floor

TrimRoute ==
    /\ floor < Len(route)
    /\ floor' = floor + 1
    /\ UNCHANGED route

(* AcknowledgeDelivery is idempotent on the receipt, which is its request  *)
(* id, and rings only the reservation the authorization was issued for.    *)
Rang(a, receipt) == \E v \in DOMAIN route : route[v] = Ringing(a, receipt)
Acknowledgeable(a) == Len(route) = RouteVersion[a] /\ Latest = Reserved

Disposition(a, receipt) ==
    IF Rang(a, receipt) THEN "ALREADY_APPLIED"
    ELSE IF Acknowledgeable(a) THEN "APPLIED" ELSE "TERMINAL_EXPIRED"

AcknowledgeDelivery(a, receipt) ==
    /\ route' = IF Disposition(a, receipt) = "APPLIED"
                THEN Append(route, Ringing(a, receipt)) ELSE route
    /\ UNCHANGED floor
==============================================================================
