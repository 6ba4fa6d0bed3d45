---------------------------- MODULE RouteProjection ----------------------------
(***************************************************************************)
(* The route projection of one interaction: routeprojection.Projector over *)
(* the projection tables of deliverypg (projection.go), composed with      *)
(* delivery acceptance and the call router.  A fact makes a delivery       *)
(* visible only for an authorization that was accepted here.               *)
(*                                                                         *)
(* The code does not say who feeds Apply, so a fact may be applied at any  *)
(* time, in any order and any number of times, by several appliers at      *)
(* once.  A table transaction is one step; the authorization binding is    *)
(* read with the step before it, which is equivalent because an accepted   *)
(* authorization never changes.                                            *)
(***************************************************************************)
EXTENDS DeliveryOutbox, FiniteSets

CONSTANTS Appliers,   \* concurrent calls of Apply
          Tokens,     \* reconcile tokens; one more than there are appliers
          Strays      \* facts that are not the router's: [version, fact]

Versions == 1..(MaxRoute + 1)   \* the last reservation may still ring
Offers == [version : Versions, fact : RouteFacts]

ASSUME ProjectionAssumption ==
    /\ IsFiniteSet(Tokens) /\ IsFiniteSet(Appliers)
    /\ Cardinality(Tokens) > Cardinality(Appliers)
    /\ Strays \subseteq Offers
    /\ Nothing \notin RouteFacts
    /\ Nothing \notin [token : Tokens, observed : 0..(MaxRoute + 1), held : Offers]

VARIABLES
    proj,      \* route_projection_heads
    factLedger,\* route_fact_version_ledger and route_fact_event_ledger
    intent,    \* the pending row of projection_reconcile_intents
    audits,    \* route_projection_dlq and projection_invariant_alert_outbox
    applier    \* applier -> where Apply is

projVars == <<proj, factLedger, intent, audits, applier>>
tables == <<proj, factLedger, intent, audits>>
vars == <<allVars, projVars>>

Offer(v, fact) == [version |-> v, fact |-> fact]
Genuine(o) == o.version <= Len(route) /\ route[o.version] = o.fact

NoProjection == [version |-> 0, visible |-> FALSE, auth |-> Nothing, receipt |-> Nothing,
                 generation |-> 0, lease |-> FALSE]

ProjectionInit ==
    /\ proj = NoProjection
    /\ factLedger = [v \in Versions |-> Nothing]
    /\ intent = Nothing
    /\ audits = {}
    /\ applier = [p \in Appliers |-> Idle]

Init == DeliveryInit /\ ProjectionInit

------------------------------------------------------------------------------
(* Fault: a terminal fact leaves the lease.                                *)
FoldFactKeepsLease(state, v, fact) ==
    IF fact.kind = "ringing"
    THEN [version |-> v, visible |-> TRUE, auth |-> fact.auth, receipt |-> fact.receipt,
          generation |-> v, lease |-> TRUE]
    ELSE [state EXCEPT !.version = v, !.visible = FALSE]

(* FoldBatch for one fact: ringing shows the delivery, anything else hides *)
(* it, and a terminal fact also clears the lease.                          *)
FoldFact(state, v, fact) ==
    IF fact.kind = "ringing"
    THEN [version |-> v, visible |-> TRUE, auth |-> fact.auth, receipt |-> fact.receipt,
          generation |-> v, lease |-> TRUE]
    ELSE [state EXCEPT !.version = v, !.visible = FALSE,
                       !.lease = @ /\ fact.kind # "terminal"]

FoldBatch(state, from, to, facts) ==
    LET after[v \in (from - 1)..to] ==
            IF v < from THEN state ELSE FoldFact(after[v - 1], v, facts[v])
    IN  after[to]

(* validateAuthorizationBindings                                           *)
Bound(fact) ==
    fact.kind = "ringing" =>
        /\ fact.auth \in Authorizations
        /\ accepted[fact.auth] # Nothing
        /\ accepted[fact.auth].receipt = fact.receipt

BoundAll(from, to) == \A v \in from..to : Bound(route[v])

------------------------------------------------------------------------------
Stay == UNCHANGED allVars
Move(p, step) == applier' = [applier EXCEPT ![p] = step]
Goto(p, at) == Move(p, [applier[p] EXCEPT !.at = at])
Done(p) == Move(p, Idle)
Audit(o, reason) == audits' = audits \cup {<<o, reason>>}
Held(p) == applier[p].offer

Apply(p, o) ==
    /\ applier[p] = Idle
    /\ Move(p, [at |-> "load", offer |-> o])
    /\ UNCHANGED tables /\ Stay

(* Fault: the next fact is installed without its authorization.            *)
LoadUnbound(p) ==
    LET o == Held(p)
        row == factLedger[o.version]
        seen(at) == Move(p, [at |-> at, offer |-> o, seen |-> proj])
    IN  /\ applier[p].at = "load"
        /\ \/ o.version <= proj.version /\ row = o.fact /\ Done(p)
           \/ o.version <= proj.version /\ row \notin {Nothing, o.fact} /\ seen("poison")
           \/ o.version <= proj.version /\ row = Nothing /\ seen("begin")
           \/ o.version > proj.version + 1 /\ seen("begin")
           \/ o.version = proj.version + 1 /\ seen("install")
        /\ UNCHANGED tables /\ Stay

(* Projector.Apply up to its first write.                                  *)
Load(p) ==
    LET o == Held(p)
        row == factLedger[o.version]
        seen(at) == Move(p, [at |-> at, offer |-> o, seen |-> proj])
    IN  /\ applier[p].at = "load"
        /\ \/ o.version <= proj.version /\ row = o.fact /\ Done(p)
           \/ o.version <= proj.version /\ row \notin {Nothing, o.fact} /\ seen("poison")
           \/ o.version <= proj.version /\ row = Nothing /\ seen("begin")
           \/ o.version > proj.version + 1 /\ seen("begin")
           \/ o.version = proj.version + 1 /\ Bound(o.fact) /\ seen("install")
           \/ o.version = proj.version + 1 /\ ~Bound(o.fact) /\ Done(p)
        /\ UNCHANGED tables /\ Stay

RecordPoison(p) ==
    /\ applier[p].at = "poison"
    /\ Audit(Held(p), "DIVERGENT_HISTORY")
    /\ Done(p)
    /\ UNCHANGED <<proj, factLedger, intent>> /\ Stay

(* Fault: the head is written whatever it has become since it was read.    *)
HeadUnchecked(p) == TRUE

HeadUnmoved(p) == proj.version = applier[p].seen.version

(* Fault: of a replayed range only the last fact enters the ledger.        *)
InstallLastFact(p, from, to, facts) ==
    /\ proj' = FoldBatch(applier[p].seen, from, to, facts)
    /\ factLedger' = [factLedger EXCEPT ![to] = facts[to]]

(* installBatchTx: the folded state was computed from what Load returned.  *)
InstallFacts(p, from, to, facts) ==
    /\ proj' = FoldBatch(applier[p].seen, from, to, facts)
    /\ factLedger' = [v \in Versions |-> IF v \in from..to THEN facts[v] ELSE factLedger[v]]

InstallBatch(p) ==
    LET o == Held(p)
    IN  /\ applier[p].at = "install"
        /\ IF HeadUnmoved(p)
           THEN InstallFacts(p, o.version, o.version, [v \in {o.version} |-> o.fact])
           ELSE UNCHANGED <<proj, factLedger>>
        /\ Done(p)
        /\ UNCHANGED <<intent, audits>> /\ Stay

------------------------------------------------------------------------------
(* Projector.reconcile                                                     *)
Observed(p) == applier[p].seen.version
Historical(p) == Held(p).version <= Observed(p)
From(p) == IF Historical(p) THEN Held(p).version ELSE Observed(p) + 1

(* A token no pending intent and no applier still knows.                   *)
FreshToken ==
    CHOOSE t \in Tokens :
        /\ intent # Nothing => intent.token # t
        /\ \A p \in Appliers : "token" \in DOMAIN applier[p] => applier[p].token # t

(* Fault: the intent records the version of the held fact as the observed. *)
BeginAtHeld(p) ==
    /\ applier[p].at = "begin"
    /\ IF ~HeadUnmoved(p) \/ intent # Nothing THEN Done(p) /\ UNCHANGED intent
       ELSE /\ intent' = [token |-> FreshToken, observed |-> Held(p).version, held |-> Held(p)]
            /\ Move(p, [at |-> "replay", offer |-> Held(p), seen |-> applier[p].seen,
                        token |-> FreshToken])
    /\ UNCHANGED <<proj, factLedger, audits>> /\ Stay

(* Store.BeginReconcile.  A pending intent is taken over only by the same  *)
(* held fact at the same observed version; otherwise CompareAndSetLost.    *)
Begin(p) ==
    LET mine(i) == i.observed = Observed(p) /\ i.held = Held(p)
        go(t) == Move(p, [at |-> "replay", offer |-> Held(p), seen |-> applier[p].seen, token |-> t])
    IN  /\ applier[p].at = "begin"
        /\ \/ /\ ~HeadUnmoved(p) \/ (intent # Nothing /\ ~mine(intent))
              /\ Done(p) /\ UNCHANGED intent
           \/ /\ HeadUnmoved(p) /\ intent # Nothing /\ mine(intent)
              /\ go(intent.token) /\ UNCHANGED intent
           \/ /\ HeadUnmoved(p) /\ intent = Nothing
              /\ intent' = [token |-> FreshToken, observed |-> Observed(p), held |-> Held(p)]
              /\ go(FreshToken)
        /\ UNCHANGED <<proj, factLedger, audits>> /\ Stay

(* ReplayRouteFacts and the checks on its answer.  An error of the router, *)
(* a ringing fact without its authorization and a held fact that is not    *)
(* the router's leave the intent pending.                                  *)
Replay(p) ==
    LET o == Held(p)
    IN  /\ applier[p].at = "replay"
        /\ \/ From(p) < floor /\ Goto(p, "snapshot")
           \/ /\ From(p) >= floor /\ Genuine(o) /\ BoundAll(From(p), o.version)
              /\ Goto(p, IF Historical(p) THEN "historical" ELSE "replayed")
           \/ From(p) >= floor /\ ~Genuine(o) /\ Historical(p) /\ Goto(p, "poison")
           \/ Done(p)   \* the call fails, or its answer is refused
        /\ UNCHANGED tables /\ Stay

(* GetRouteSnapshot, validateSnapshot and the binding of a visible one.    *)
Snapshot(p) ==
    LET state == FoldBatch(NoProjection, 1, Len(route), route)
    IN  /\ applier[p].at = "snapshot"
        /\ \/ /\ state.version >= Observed(p)
              /\ state.visible => Bound(Ringing(state.auth, state.receipt))
              /\ Move(p, [at |-> "snapped", offer |-> Held(p), seen |-> applier[p].seen,
                          token |-> applier[p].token, snap |-> state])
           \/ Done(p)   \* the call fails, or its answer is refused
        /\ UNCHANGED tables /\ Stay

(* pendingIntentMatches, on a head that has not moved                      *)
IntentHeld(p) ==
    /\ HeadUnmoved(p)
    /\ intent # Nothing /\ intent.token = applier[p].token /\ intent.observed = Observed(p)

(* The three installs of a reconciliation change nothing when another      *)
(* applier has moved the head or closed the intent.                        *)
Overtaken(p) ==
    /\ applier[p].at \in {"replayed", "historical", "snapped"}
    /\ ~IntentHeld(p)
    /\ Done(p)
    /\ UNCHANGED tables /\ Stay

InstallReconcileBatch(p) ==
    /\ applier[p].at = "replayed" /\ IntentHeld(p)
    /\ InstallFacts(p, From(p), Held(p).version, route)
    /\ intent' = Nothing
    /\ Done(p)
    /\ UNCHANGED audits /\ Stay

(* Both of the following insert a ledger row with a plain INSERT: a row    *)
(* that is already there fails the transaction and the intent stays.       *)
InstallHistoricalIdentity(p) ==
    LET v == Held(p).version
    IN  /\ applier[p].at = "historical" /\ IntentHeld(p)
        /\ IF factLedger[v] = Nothing
           THEN /\ factLedger' = [factLedger EXCEPT ![v] = route[v]]
                /\ intent' = Nothing
           ELSE UNCHANGED <<factLedger, intent>>
        /\ Done(p)
        /\ UNCHANGED <<proj, audits>> /\ Stay

InstallSnapshotAndAudit(p) ==
    LET snap == applier[p].snap
    IN  /\ applier[p].at = "snapped" /\ IntentHeld(p)
        /\ IF factLedger[snap.version] = Nothing
           THEN /\ proj' = snap
                /\ factLedger' = [factLedger EXCEPT ![snap.version] = route[snap.version]]
                /\ Audit(Held(p), "UNKNOWN_STALE_HISTORY")
                /\ intent' = Nothing
           ELSE UNCHANGED tables
        /\ Done(p) /\ Stay

Project(p) ==
    \/ Load(p) \/ RecordPoison(p) \/ InstallBatch(p) \/ Begin(p) \/ Replay(p) \/ Snapshot(p)
    \/ Overtaken(p) \/ InstallReconcileBatch(p) \/ InstallHistoricalIdentity(p)
    \/ InstallSnapshotAndAudit(p)

(* The router's facts as they stand, and the strays.                       *)
Offered == {Offer(v, route[v]) : v \in DOMAIN route} \cup Strays

Next ==
    \/ OutboxNext /\ UNCHANGED projVars
    \/ \E p \in Appliers : (\E o \in Offered : Apply(p, o)) \/ Project(p)

Spec == Init /\ [][Next]_vars

------------------------------------------------------------------------------
(* Properties.                                                             *)

(* The shape of the state; an intent was made at a version the projection  *)
(* has reached.                                                            *)
TypeOK ==
    /\ route \in Seq(RouteFacts)
    /\ floor \in 1..Len(route)
    /\ requests \in 0..MaxRequests /\ faults \in 0..MaxFaults
    /\ proj.version \in {0} \cup Versions
    /\ intent # Nothing => intent.token \in Tokens /\ intent.observed \in 0..proj.version
    /\ \A p \in Appliers : applier[p] # Idle => applier[p].offer.version \in Versions

(* A delivery is visible only with a lease of the version it is visible    *)
(* at, for an authorization accepted here with that very receipt, whoever  *)
(* the fact came from and by whichever way it was installed.               *)
VisibleIsAuthorized ==
    proj.visible => proj.lease /\ proj.generation = proj.version
                    /\ Bound(Ringing(proj.auth, proj.receipt))

(* A fact that is not the router's was installed as the next one: Apply    *)
(* does not ask the router about an exact next version.                    *)
Misled == \E v \in Versions : factLedger[v] # Nothing /\ ~Genuine(Offer(v, factLedger[v]))

(* Otherwise the projection is what the router's history says at its       *)
(* version: visible exactly while the latest fact is ringing, under a      *)
(* lease until the first terminal fact after a ringing one.                *)
ProjectionIsRoute ==
    LET n == proj.version
        kind(v) == route[v].kind
    IN  ~Misled /\ n > 0 =>
            /\ n <= Len(route)
            /\ proj.visible <=> kind(n) = "ringing"
            /\ proj.visible => Ringing(proj.auth, proj.receipt) = route[n]
            /\ proj.lease <=> \E v \in 1..n : /\ kind(v) = "ringing"
                                             /\ \A u \in v..n : kind(u) # "terminal"

(* A version the projection has passed is in the ledger, unless a snapshot *)
(* skipped it, and then the audit says so.                                 *)
NoSilentGap ==
    \A v \in 1..proj.version :
        factLedger[v] = Nothing => \E audit \in audits : audit[2] = "UNKNOWN_STALE_HISTORY"

(* The projection never goes back and the identity of a version is never   *)
(* replaced, although appliers work on what they read before.              *)
FactLedgerIsPermanent ==
    [][/\ proj'.version >= proj.version
       /\ \A v \in Versions : factLedger[v] # Nothing => factLedger'[v] = factLedger[v]]_vars
==============================================================================
