---------------------------- MODULE DeliveryOutbox ----------------------------
(***************************************************************************)
(* Delivery acceptance (delivery.Service, deliverygrpc.Server, the Append  *)
(* of deliverypg.Store) and the acknowledgement outbox that tells the call *)
(* router about it (delivery.AckWorker; Claim, Complete and Retry of       *)
(* deliverypg.Store).  A table transaction is one step.  Only well-formed  *)
(* requests of the corex principal are modelled: every refusal before      *)
(* Append leaves all state as it was.                                      *)
(***************************************************************************)
EXTENDS CallRouter

CONSTANTS Ackers,       \* acknowledgement workers
          Bodies,       \* contents an authorization may be sent with
          MaxRequests,  \* bound: AcceptDelivery calls, also the receipt ids made
          MaxFaults     \* bound: lost replies, failed calls, stops, early expiries

ASSUME OutboxAssumption ==
    /\ MaxRequests \in Nat /\ MaxFaults \in Nat
    /\ Nothing \notin [body : Bodies, receipt : 1..MaxRequests]
    /\ Nothing \notin [status : {"pending", "claimed", "completed"},
                      claimant : Ackers \cup {Nothing},
                      result : {"APPLIED", "ALREADY_APPLIED", "TERMINAL_EXPIRED", Nothing}]

(* The facts of a route, and of anyone who claims to know it.              *)
RouteFacts == [kind : {"reserved", "ringing", "terminal"},
               auth : Authorizations \cup {Nothing}, receipt : 1..MaxRequests \cup {Nothing}]

VARIABLES
    requests,   \* AcceptDelivery calls so far
    accepted,   \* delivery_authorizations and interaction_delivery_log
    outbox,     \* delivery_ack_outbox, one row for each accepted authorization
    answers,    \* the receipts callers were given: <<authorization, body, receipt>>
    acker,      \* worker -> where ProcessOne is
    faults

outboxVars == <<requests, accepted, outbox, answers, acker, faults>>

Idle == [at |-> "idle"]
Fault == faults < MaxFaults /\ faults' = faults + 1

OutboxInit ==
    /\ requests = 0
    /\ accepted = [a \in Authorizations |-> Nothing]
    /\ outbox = [a \in Authorizations |-> Nothing]
    /\ answers = {}
    /\ acker = [k \in Ackers |-> Idle]
    /\ faults = 0

(* The reply reaches the caller or is lost after the commit; the caller    *)
(* then sends the authorization again.                                     *)
Reply(answer) ==
    \/ answers' = answers \cup {answer} /\ UNCHANGED faults
    \/ Fault /\ UNCHANGED answers

(* Fault: a repeated authorization is answered with the receipt id the     *)
(* call has made, not with the one on record.                              *)
AcceptWithNewReceipt(a, body) ==
    LET receipt == requests + 1
        row == accepted[a]
    IN  /\ RouteVersion[a] <= Len(route)
        /\ requests < MaxRequests
        /\ requests' = receipt
        /\ \/ /\ row = Nothing
              /\ accepted' = [accepted EXCEPT ![a] = [body |-> body, receipt |-> receipt]]
              /\ outbox' = [outbox EXCEPT ![a] =
                               [status |-> "pending", claimant |-> Nothing, result |-> Nothing]]
              /\ Reply(<<a, body, receipt>>)
           \/ /\ row # Nothing /\ row.body = body
              /\ Reply(<<a, body, receipt>>)
              /\ UNCHANGED <<accepted, outbox>>
        /\ UNCHANGED <<acker, routeVars>>

(* Service.AcceptDelivery and Store.Append.  The receipt id is made before *)
(* the transaction, so every call brings a new one.                        *)
AcceptDelivery(a, body) ==
    LET receipt == requests + 1
        row == accepted[a]
    IN  /\ RouteVersion[a] <= Len(route)
        /\ requests < MaxRequests
        /\ requests' = receipt
        /\ \/ /\ row = Nothing
              /\ accepted' = [accepted EXCEPT ![a] = [body |-> body, receipt |-> receipt]]
              /\ outbox' = [outbox EXCEPT ![a] =
                               [status |-> "pending", claimant |-> Nothing, result |-> Nothing]]
              /\ Reply(<<a, body, receipt>>)
           \/ /\ row # Nothing /\ row.body = body
              /\ Reply(<<a, body, row.receipt>>)
              /\ UNCHANGED <<accepted, outbox>>
           \/ /\ row # Nothing /\ row.body # body   \* ErrIdempotencyConflict
              /\ UNCHANGED <<accepted, outbox, answers, faults>>
        /\ UNCHANGED <<acker, routeVars>>

------------------------------------------------------------------------------
(* The worker that made a claim is its token: it makes a new token only    *)
(* when it has finished with the last one.  A claim runs out whether or    *)
(* not its worker still works on it; the second case counts as a fault.    *)
Working(k, a) == acker[k] # Idle /\ acker[k].auth = a

Claimable(a) ==
    /\ outbox[a] # Nothing
    /\ \/ outbox[a].status = "pending" /\ UNCHANGED faults
       \/ /\ outbox[a].status = "claimed"
          /\ IF Working(outbox[a].claimant, a) THEN Fault ELSE UNCHANGED faults

Claim(k, a) ==
    /\ acker[k] = Idle
    /\ Claimable(a)
    /\ outbox' = [outbox EXCEPT ![a].status = "claimed", ![a].claimant = k]
    /\ acker' = [acker EXCEPT ![k] = [at |-> "call", auth |-> a]]
    /\ UNCHANGED <<requests, accepted, answers, routeVars>>

(* Fault: a call that fails is taken for an authorization that is over.    *)
CallFailsAsExpired(k) ==
    LET a == acker[k].auth
        receipt == accepted[a].receipt
        answered(result) == acker' = [acker EXCEPT ![k] =
                               [at |-> "answered", auth |-> a, result |-> result]]
    IN  /\ acker[k].at = "call"
        /\ \/ /\ AcknowledgeDelivery(a, receipt)
              /\ answered(Disposition(a, receipt))
              /\ UNCHANGED faults
           \/ /\ AcknowledgeDelivery(a, receipt) \/ UNCHANGED routeVars
              /\ answered("TERMINAL_EXPIRED")
              /\ Fault
        /\ UNCHANGED <<requests, accepted, outbox, answers>>

(* RouterPort.AcknowledgeDelivery: answered, or failed with or without     *)
(* having reached the router.  An unknown disposition is such a failure.   *)
CallRouterAck(k) ==
    LET a == acker[k].auth
        receipt == accepted[a].receipt
    IN  /\ acker[k].at = "call"
        /\ \/ /\ AcknowledgeDelivery(a, receipt)
              /\ acker' = [acker EXCEPT ![k] =
                     [at |-> "answered", auth |-> a, result |-> Disposition(a, receipt)]]
              /\ UNCHANGED faults
           \/ /\ AcknowledgeDelivery(a, receipt) \/ UNCHANGED routeVars
              /\ acker' = [acker EXCEPT ![k].at = "failed"]
              /\ Fault
        /\ UNCHANGED <<requests, accepted, outbox, answers>>

(* Fault: any worker may settle the row.                                   *)
Unfenced(k) == TRUE

Fenced(k) ==
    LET row == outbox[acker[k].auth] IN row.status = "claimed" /\ row.claimant = k

(* Store.Complete and Store.Retry write only under the worker's own claim. *)
Complete(k) ==
    /\ acker[k].at = "answered"
    /\ outbox' = IF Fenced(k)
                 THEN [outbox EXCEPT ![acker[k].auth] =
                          [status |-> "completed", claimant |-> Nothing, result |-> acker[k].result]]
                 ELSE outbox
    /\ acker' = [acker EXCEPT ![k] = Idle]
    /\ UNCHANGED <<requests, accepted, answers, faults, routeVars>>

Retry(k) ==
    /\ acker[k].at = "failed"
    /\ outbox' = IF Fenced(k)
                 THEN [outbox EXCEPT ![acker[k].auth].status = "pending",
                                     ![acker[k].auth].claimant = Nothing]
                 ELSE outbox
    /\ acker' = [acker EXCEPT ![k] = Idle]
    /\ UNCHANGED <<requests, accepted, answers, faults, routeVars>>

(* A worker stops, or its transaction fails, between two steps.            *)
StopAcker(k) ==
    /\ acker[k] # Idle
    /\ Fault
    /\ acker' = [acker EXCEPT ![k] = Idle]
    /\ UNCHANGED <<requests, accepted, outbox, answers, routeVars>>

ProcessOne(k) ==
    \/ \E a \in Authorizations : Claim(k, a)
    \/ CallRouterAck(k) \/ Complete(k) \/ Retry(k)

OutboxNext ==
    \/ \E a \in Authorizations, body \in Bodies : AcceptDelivery(a, body)
    \/ \E k \in Ackers : ProcessOne(k) \/ StopAcker(k)
    \/ (EndRoute \/ TrimRoute) /\ UNCHANGED outboxVars

allVars == <<routeVars, outboxVars>>

DeliveryInit == RouteInit /\ OutboxInit

OutboxSpec == DeliveryInit /\ [][OutboxNext]_allVars

------------------------------------------------------------------------------
(* Properties.                                                             *)

(* Every caller of an accepted authorization is given the same receipt,    *)
(* however often it calls and whichever reply was lost, and that receipt   *)
(* alone is what the call router rings with.                               *)
OneReceipt ==
    /\ \A x, y \in answers : x[1] = y[1] => x = y
    /\ \A x \in answers : accepted[x[1]] = [body |-> x[2], receipt |-> x[3]]
    /\ \A v \in DOMAIN route : route[v].kind = "ringing" =>
           /\ accepted[route[v].auth] # Nothing
           /\ accepted[route[v].auth].receipt = route[v].receipt

(* A completed row tells what happened: the target rang exactly when the   *)
(* recorded result is not that the authorization had expired, although     *)
(* workers stop, calls fail after they took effect and claims run out      *)
(* under their owners.                                                     *)
CompletedTruly ==
    \A a \in Authorizations :
        outbox[a] # Nothing /\ outbox[a].status = "completed" =>
            (Rang(a, accepted[a].receipt) <=> outbox[a].result # "TERMINAL_EXPIRED")

(* An acceptance is never changed, and a completed row is never opened or  *)
(* completed again by a worker that comes late.                            *)
AcceptedIsPermanent ==
    [][\A a \in Authorizations :
           /\ accepted[a] # Nothing => accepted'[a] = accepted[a]
           /\ outbox[a] # Nothing /\ outbox[a].status = "completed" => outbox'[a] = outbox[a]]_allVars
==============================================================================
