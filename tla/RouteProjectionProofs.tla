----------------------- MODULE RouteProjectionProofs ------------------------
(***************************************************************************)
(* Proofs about RouteProjection, for every set of appliers, authorizations *)
(* and stray facts, composed with any number of acknowledgement workers.   *)
(***************************************************************************)
EXTENDS RouteProjection, DeliveryOutboxProofs, InductionTheorems, FiniteSetTheorems

-----------------------------------------------------------------------------
(* What FoldBatch computes. *)

AllVersions == 0..(MaxRoute + 1)
Projections == [version : AllVersions, visible : BOOLEAN, auth : Authorizations \cup {Nothing},
                receipt : Receipts \cup {Nothing}, generation : AllVersions, lease : BOOLEAN]

LEMMA VersionFacts ==
  /\ MaxRoute + 1 \in Nat /\ AllVersions \subseteq Nat /\ Versions \subseteq AllVersions
  /\ 0 \in AllVersions /\ 0 \notin Versions
BY RouteAssumption DEF AllVersions, Versions

LEMMA ProjectionFields ==
  ASSUME NEW x \in Projections
  PROVE  x.version \in AllVersions /\ x.version \in Nat /\ x.version <= MaxRoute + 1
BY RouteAssumption DEF Projections, AllVersions

LEMMA OfferFields ==
  ASSUME NEW o \in Offers
  PROVE  o.version \in Versions /\ o.version \in Nat /\ o.version >= 1 /\ o.fact \in RouteFacts
BY RouteAssumption DEF Offers, Versions

LEMMA NoProjectionType == NoProjection \in Projections
BY RouteAssumption DEF NoProjection, Projections, AllVersions

LEMMA FoldFactType ==
  ASSUME NEW s \in Projections, NEW v \in Versions, NEW fact \in RouteFacts
  PROVE  /\ FoldFact(s, v, fact) \in Projections
         /\ FoldFact(s, v, fact).version = v
         /\ FoldFact(s, v, fact).visible <=> fact.kind = "ringing"
<1> v \in AllVersions
  BY VersionFacts
<1>1. CASE fact.kind = "ringing"
  BY <1>1 DEF FoldFact, Projections, RouteFacts, Receipts
<1>2. CASE fact.kind # "ringing"
  BY <1>2 DEF FoldFact, Projections
<1> QED BY <1>1, <1>2

FactsOn(facts, from, to) == \A v \in from..to : facts[v] \in RouteFacts

\* f[k] is the fold of the facts from..k, for every k up to to.
FoldedBy(f, s, from, to, facts) ==
    /\ f \in [(from - 1)..to -> Projections]
    /\ f[from - 1] = s
    /\ \A v \in from..to : f[v] = FoldFact(f[v - 1], v, facts[v])
    /\ \A k \in (from - 1)..to : FoldBatch(s, from, k, facts) = f[k]

\* The batches that start at one version are the values of one recursion.
LEMMA FoldBatchRecursion ==
  ASSUME NEW s \in Projections, NEW from \in Versions, NEW to \in AllVersions, from - 1 <= to,
         NEW facts, FactsOn(facts, from, to)
  PROVE  \E f : FoldedBy(f, s, from, to, facts)
<1> PICK m : m = from - 1
  OBVIOUS
<1> PICK step : step = [x \in Projections \X ((m + 1)..to) |-> FoldFact(x[1], x[2], facts[x[2]])]
  OBVIOUS
<1>1. /\ m \in Int /\ to \in Int /\ m <= to /\ m + 1 = from
      /\ \A v \in (m + 1)..to : v \in Versions
  BY RouteAssumption DEF Versions, AllVersions
<1>2. StepsOn(step, Projections, m, to)
  BY <1>1, FoldFactType DEF StepsOn, FactsOn
<1>3. PICK f : Solution(f, Projections, s, step, m, to)
  BY <1>1, <1>2, RecursionExists
<1>4. f \in [m..to -> Projections] /\ f[m] = s
  BY <1>3 DEF Solution
<1>5. ASSUME NEW v \in from..to
      PROVE  v - 1 \in m..to /\ f[v] = FoldFact(f[v - 1], v, facts[v])
  <2>1. v \in (m + 1)..to /\ v - 1 \in m..to /\ f[v - 1] \in Projections
    BY <1>1, <1>4
  <2>2. f[v] = step[<<f[v - 1], v>>]
    BY <1>3, <2>1 DEF Solution
  <2> QED BY <2>1, <2>2
<1>6. ASSUME NEW k \in m..to
      PROVE  FoldBatch(s, from, k, facts) = f[k]
  <2> DEFINE Solves(g) == g = [v \in (from - 1)..k |->
                                  IF v < from THEN s ELSE FoldFact(g[v - 1], v, facts[v])]
             after == CHOOSE g : Solves(g)
  <2>1. FoldBatch(s, from, k, facts) = after[k]
    BY DEF FoldBatch
  <2>2. Solves([v \in (from - 1)..k |-> f[v]])
    BY <1>1, <1>4, <1>5
  <2>3. Solves(after)
    BY <2>2
  <2> HIDE DEF after
  <2>4. after[m] = s /\ \A v \in (m + 1)..k : after[v] = FoldFact(after[v - 1], v, facts[v])
    BY <1>1, <2>3
  <2>5. \A v \in (m + 1)..k : after[v - 1] = f[v - 1] => after[v] = f[v]
    BY <1>1, <1>5, <2>4
  <2> DEFINE S == {v \in m..k : after[v] = f[v]}
  <2>6. k \in Int /\ m \in S /\ \A v \in (m + 1)..k : v - 1 \in S => v \in S
    BY <1>1, <1>4, <2>4, <2>5
  <2> HIDE DEF S
  <2>7. \A v \in m..k : v \in S
    BY <1>1, <2>6, RangeInduction
  <2> QED BY <1>1, <2>1, <2>7 DEF S
<1> QED BY <1>1, <1>4, <1>5, <1>6 DEF FoldedBy

\* One more fact is one more step of the fold.
LEMMA FoldBatchUnfold ==
  ASSUME NEW s \in Projections, NEW from \in Versions, NEW to \in Versions, from <= to,
         NEW facts, FactsOn(facts, from, to)
  PROVE  /\ FoldBatch(s, from, from - 1, facts) = s
         /\ FoldBatch(s, from, to - 1, facts) \in Projections
         /\ FoldBatch(s, from, to, facts) \in Projections
         /\ FoldBatch(s, from, to, facts) = FoldFact(FoldBatch(s, from, to - 1, facts), to, facts[to])
<1>1. /\ to \in AllVersions /\ from - 1 <= to
      /\ from - 1 \in (from - 1)..to /\ to \in (from - 1)..to /\ to - 1 \in (from - 1)..to
      /\ to \in from..to
  BY DEF Versions, AllVersions
<1>2. PICK f : FoldedBy(f, s, from, to, facts)
  BY <1>1, FoldBatchRecursion
<1> QED BY <1>1, <1>2 DEF FoldedBy

FoldsUp(f, m, n, facts) == \A v \in (m + 1)..n : f[v] = FoldFact(f[v - 1], v, facts[v])

\* Two solutions of the same fold agree.
LEMMA FoldedByUnique ==
  ASSUME NEW f, NEW g, NEW m \in Int, NEW n \in Int, m <= n, NEW facts, f[m] = g[m],
         FoldsUp(f, m, n, facts), FoldsUp(g, m, n, facts)
  PROVE  f[n] = g[n]
<1> DEFINE S == {v \in m..n : f[v] = g[v]}
<1>1. m \in S /\ \A v \in (m + 1)..n : v - 1 \in S => v \in S
  BY DEF FoldsUp
<1> HIDE DEF S
<1>2. \A v \in m..n : v \in S
  BY <1>1, RangeInduction
<1>3. n \in S
  BY <1>2
<1> QED BY <1>3 DEF S

\* The fold depends on the facts of its range only.
LEMMA FoldBatchAgree ==
  ASSUME NEW s \in Projections, NEW from \in Versions, NEW to \in AllVersions, from - 1 <= to,
         NEW facts, FactsOn(facts, from, to),
         NEW others, \A v \in from..to : others[v] = facts[v]
  PROVE  FoldBatch(s, from, to, others) = FoldBatch(s, from, to, facts)
<1>1. PICK f : FoldedBy(f, s, from, to, facts)
  BY FoldBatchRecursion
<1>2. FactsOn(others, from, to)
  BY DEF FactsOn
<1>3. PICK g : FoldedBy(g, s, from, to, others)
  BY <1>2, FoldBatchRecursion
<1> PICK m : m = from - 1
  OBVIOUS
<1>4. m \in Int /\ to \in Int /\ m + 1 = from /\ m <= to
  BY DEF Versions, AllVersions
<1>5. /\ f[m] = g[m]
      /\ FoldsUp(f, m, to, facts) /\ FoldsUp(g, m, to, facts)
  BY <1>1, <1>3, <1>4 DEF FoldedBy, FoldsUp
<1>6. f[to] = g[to]
  BY <1>4, <1>5, FoldedByUnique
<1>7. to \in (from - 1)..to
  BY <1>4
<1> QED BY <1>1, <1>3, <1>6, <1>7 DEF FoldedBy

\* A fold continued where it stopped is the fold of the whole range.
LEMMA FoldBatchJoin ==
  ASSUME NEW s \in Projections, NEW mid \in AllVersions, NEW to \in Versions, mid < to,
         NEW facts, FactsOn(facts, 1, to)
  PROVE  FoldBatch(FoldBatch(s, 1, mid, facts), mid + 1, to, facts) = FoldBatch(s, 1, to, facts)
<1> PICK from : from = mid + 1
  OBVIOUS
<1>1. /\ 1 \in Versions /\ to \in AllVersions /\ 1 - 1 <= to /\ 1 - 1 = 0
      /\ mid \in Int /\ to \in Int /\ mid \in 0..to /\ to \in 0..to /\ to \in mid..to /\ mid <= to
      /\ from \in Versions /\ from - 1 <= to /\ from - 1 = mid
      /\ \A v \in from..to : v \in 1..to
  BY RouteAssumption DEF Versions, AllVersions
<1>2. PICK f : FoldedBy(f, s, 1, to, facts)
  BY <1>1, FoldBatchRecursion
<1>3. f[mid] \in Projections /\ FoldBatch(s, 1, mid, facts) = f[mid]
  BY <1>1, <1>2 DEF FoldedBy
<1>4. FactsOn(facts, from, to)
  BY <1>1 DEF FactsOn
<1>5. PICK g : FoldedBy(g, f[mid], from, to, facts)
  BY <1>1, <1>3, <1>4, FoldBatchRecursion
<1>6. /\ f[mid] = g[mid]
      /\ FoldsUp(f, mid, to, facts) /\ FoldsUp(g, mid, to, facts)
  BY <1>1, <1>2, <1>5 DEF FoldedBy, FoldsUp
<1>7. f[to] = g[to]
  BY <1>1, <1>6, FoldedByUnique
<1>8. FoldBatch(f[mid], from, to, facts) = g[to] /\ FoldBatch(s, 1, to, facts) = f[to]
  BY <1>1, <1>2, <1>5 DEF FoldedBy
<1> QED BY <1>3, <1>7, <1>8

-----------------------------------------------------------------------------
(* The inductive invariant. *)

Intents == [token : Tokens, observed : AllVersions, held : Offers]
ApplierStep ==
    {Idle}
    \cup [at : {"load"}, offer : Offers]
    \cup [at : {"poison", "begin", "install"}, offer : Offers, seen : Projections]
    \cup [at : {"replay", "snapshot", "historical", "replayed", "poison"},
          offer : Offers, seen : Projections, token : Tokens]
    \cup [at : {"snapped"}, offer : Offers, seen : Projections, token : Tokens, snap : Projections]

ProjectionType ==
    /\ proj \in Projections
    /\ factLedger \in [Versions -> RouteFacts \cup {Nothing}]
    /\ intent \in Intents \cup {Nothing}
    /\ applier \in [Appliers -> ApplierStep]

\* Only the acknowledgement of the last reservation passes MaxRoute.
RouteBounded == Len(route) <= MaxRoute \/ (Len(route) = MaxRoute + 1 /\ Latest # Reserved)

\* The ledger ends at the head, and has the head.
LedgerEndsAtHead ==
    /\ \A v \in Versions : v > proj.version => factLedger[v] = Nothing
    /\ proj.version > 0 => factLedger[proj.version] # Nothing
    /\ intent # Nothing => intent.observed <= proj.version

\* A version without an identity was passed by a snapshot of the route.
GapsAreOld ==
    \A v \in 1..proj.version : factLedger[v] = Nothing => v <= Len(route)

\* What an applier has read is an old projection, or the present one when the
\* version is the same; what it has checked still holds.
StepOK(step) ==
    step.at \notin {"idle", "load"} =>
        /\ step.seen.version <= proj.version
        /\ step.seen.version = proj.version => step.seen = proj
        /\ step.at = "install" => step.offer.version = step.seen.version + 1 /\ Bound(step.offer.fact)
        /\ step.at = "replayed" => step.offer.version > step.seen.version /\ Genuine(step.offer)
        /\ step.at = "historical" => step.offer.version <= step.seen.version /\ Genuine(step.offer)
        /\ step.at = "snapped" => /\ step.snap.version \in 1..Len(route)
                                  /\ step.snap.version >= step.seen.version
                                  /\ step.snap = FoldBatch(NoProjection, 1, step.snap.version, route)

StepsOK == \A p \in Appliers : StepOK(applier[p])

\* A fact on record contradicts the router's, and always will.
Contradicted ==
    \E v \in Versions : v <= Len(route) /\ factLedger[v] \notin {Nothing, route[v]}

\* The history the projection was folded from: the ledger, and the route where
\* a snapshot left the ledger empty.
Recorded == [v \in 1..proj.version |-> IF factLedger[v] = Nothing THEN route[v] ELSE factLedger[v]]

FoldOfRecorded ==
    ~Contradicted => proj = FoldBatch(NoProjection, 1, proj.version, Recorded)

ProjectionInv ==
    /\ ProjectionType /\ RouteBounded /\ LedgerEndsAtHead /\ GapsAreOld /\ StepsOK
    /\ VisibleIsAuthorized /\ NoSilentGap /\ FoldOfRecorded

-----------------------------------------------------------------------------
(* The shapes an applier's state can have. *)

LEMMA StepShape ==
  ASSUME NEW s \in ApplierStep, s # Idle
  PROVE  /\ s.offer \in Offers
         /\ s.at \in {"load", "poison", "begin", "install", "replay", "snapshot", "historical",
                      "replayed", "snapped"}
         /\ s.at # "load" => s.seen \in Projections
         /\ s.at \in {"replay", "snapshot", "historical", "replayed"} =>
                /\ s.token \in Tokens
                /\ s = [at |-> s.at, offer |-> s.offer, seen |-> s.seen, token |-> s.token]
         /\ s.at = "snapped" => s.token \in Tokens /\ s.snap \in Projections
BY DEF ApplierStep, Idle

LEMMA StepMade ==
  ASSUME NEW o \in Offers
  PROVE  /\ [at |-> "load", offer |-> o] \in ApplierStep
         /\ \A at \in {"poison", "begin", "install"}, x \in Projections :
                [at |-> at, offer |-> o, seen |-> x] \in ApplierStep
         /\ \A at \in {"replay", "snapshot", "historical", "replayed", "poison"},
               x \in Projections, t \in Tokens :
                [at |-> at, offer |-> o, seen |-> x, token |-> t] \in ApplierStep
         /\ \A x, y \in Projections, t \in Tokens :
                [at |-> "snapped", offer |-> o, seen |-> x, token |-> t, snap |-> y] \in ApplierStep
         /\ Idle \in ApplierStep
BY DEF ApplierStep

LEMMA IdleOK == StepOK(Idle)
BY DEF StepOK, Idle

-----------------------------------------------------------------------------
(* Steps that leave the projection and the ledger alone. *)

\* What is checked of the ledger and the projection does not depend on the
\* intent, the audits and the appliers, except that no audit is lost.
LEMMA MoveInv ==
  ASSUME ProjectionInv, UNCHANGED allVars, UNCHANGED <<proj, factLedger>>,
         audits \subseteq audits',
         intent' \in Intents \cup {Nothing},
         intent' # Nothing => intent'.observed <= proj.version,
         NEW p \in Appliers, NEW step \in ApplierStep, StepOK(step),
         applier' = [applier EXCEPT ![p] = step]
  PROVE  ProjectionInv'
<1>1. UNCHANGED <<route, floor, accepted>>
  BY DEF allVars, routeVars, outboxVars
<1>2. ProjectionType'
  BY DEF ProjectionInv, ProjectionType
<1>3. RouteBounded' /\ LedgerEndsAtHead' /\ GapsAreOld'
  BY <1>1 DEF ProjectionInv, RouteBounded, Latest, LedgerEndsAtHead, GapsAreOld
<1>4. StepsOK'
  <2>1. \A x : StepOK(x) => StepOK(x)'
    BY <1>1 DEF StepOK, Bound, Genuine
  <2>2. \A q \in Appliers : applier'[q] = step \/ applier'[q] = applier[q]
    BY DEF ProjectionInv, ProjectionType
  <2> QED BY <2>1, <2>2 DEF ProjectionInv, StepsOK
<1>5. VisibleIsAuthorized' /\ NoSilentGap'
  BY <1>1 DEF ProjectionInv, VisibleIsAuthorized, Bound, NoSilentGap
<1>6. FoldOfRecorded'
  BY <1>1 DEF ProjectionInv, FoldOfRecorded, Contradicted, Recorded
<1> QED BY <1>2, <1>3, <1>4, <1>5, <1>6 DEF ProjectionInv

\* What the route and the acceptances say is not taken back.
LEMMA ChecksStay ==
  ASSUME OutboxInv, RouteStep, Permanent
  PROVE  /\ \A fact : Bound(fact) => Bound(fact)'
         /\ \A o \in Offers : Genuine(o) => Genuine(o)'
<1>1. \A fact : Bound(fact) => Bound(fact)'
  BY DEF Bound, Permanent
<1>2. ASSUME NEW o \in Offers, Genuine(o)
      PROVE  Genuine(o)'
  <2>1. o.version \in 1..Len(route)
    BY <1>2, RouteGrows DEF Offers, Versions, Genuine, OutboxInv
  <2> QED BY <1>2, <2>1, RouteGrows DEF Genuine, OutboxInv
<1> QED BY <1>1, <1>2

LEMMA RouteFactsOn ==
  ASSUME RouteType, RouteBounded
  PROVE  \A n \in 0..Len(route) : n \in AllVersions /\ FactsOn(route, 1, n)
BY RouteAssumption DEF RouteType, RouteBounded, AllVersions, FactsOn

\* The outbox, its callers and the call router work on under the projection.
LEMMA EnvironmentInv ==
  ASSUME OutboxInv, ProjectionInv, OutboxNext, UNCHANGED projVars
  PROVE  ProjectionInv'
<1>1. UNCHANGED <<proj, factLedger, intent, audits, applier>>
  BY DEF projVars
<1>2. RouteStep /\ Permanent
  BY OutboxRouteStep, PermanentStep
<1>3. ProjectionType'
  BY <1>1 DEF ProjectionInv, ProjectionType
<1>4. RouteBounded'
  <2>1. CASE UNCHANGED route
    BY <2>1 DEF ProjectionInv, RouteBounded, Latest
  <2>2. ASSUME NEW f \in RouteFacts, route' = Append(route, f),
               IF f.kind = "ringing" THEN f.auth \in Authorizations /\ Acknowledgeable(f.auth)
                                     ELSE Len(route) < MaxRoute
        PROVE  RouteBounded'
    <3>1. Len(route') = Len(route) + 1 /\ route'[Len(route')] = f /\ Len(route) \in Nat
      BY <2>2 DEF OutboxInv, RouteType
    <3>2. Len(route) <= MaxRoute
      BY <2>2, <3>1, RouteAssumption DEF ProjectionInv, RouteBounded, Acknowledgeable
    <3>3. Len(route) = MaxRoute => f # Reserved
      BY <2>2, <3>1, FactsType
    <3> QED BY <3>1, <3>2, <3>3, RouteAssumption DEF RouteBounded, Latest
  <2> QED BY <1>2, <2>1, <2>2 DEF RouteStep
<1>5. LedgerEndsAtHead' /\ NoSilentGap'
  BY <1>1 DEF ProjectionInv, LedgerEndsAtHead, NoSilentGap
<1>6. GapsAreOld'
  <2>1. proj.version \in Nat /\ Len(route) \in Nat /\ Len(route') \in Nat /\ Len(route') >= Len(route)
    BY <1>2, RouteGrows, VersionFacts DEF OutboxInv, ProjectionInv, ProjectionType, Projections
  <2> QED BY <1>1, <2>1 DEF ProjectionInv, GapsAreOld
<1>7. VisibleIsAuthorized'
  BY <1>1, <1>2, ChecksStay DEF ProjectionInv, VisibleIsAuthorized, Ringing, Fact
<1>8. StepsOK'
  <2> SUFFICES ASSUME NEW q \in Appliers, applier[q].at \notin {"idle", "load"}
               PROVE  StepOK(applier[q])'
    BY <1>1 DEF StepsOK, StepOK
  <2> PICK step : step = applier[q]
    OBVIOUS
  <2>1. step \in ApplierStep /\ step # Idle /\ StepOK(step)
    BY DEF ProjectionInv, ProjectionType, StepsOK, Idle
  <2>2. step.offer \in Offers /\ (step.at = "snapped" => step.snap \in Projections)
    BY <2>1, StepShape
  <2>3. step.at = "snapped" => /\ step.snap.version \in 1..Len(route')
                               /\ step.snap = FoldBatch(NoProjection, 1, step.snap.version, route')
    <3> SUFFICES ASSUME step.at = "snapped"
                 PROVE  /\ step.snap.version \in 1..Len(route')
                        /\ step.snap = FoldBatch(NoProjection, 1, step.snap.version, route')
      OBVIOUS
    <3> PICK n : n = step.snap.version
      OBVIOUS
    <3>1. n \in 1..Len(route) /\ step.snap = FoldBatch(NoProjection, 1, n, route)
      BY <2>1 DEF StepOK
    <3>2. Len(route) \in Nat /\ Len(route') \in Nat /\ Len(route') >= Len(route)
      BY <1>2, RouteGrows DEF OutboxInv
    <3>3. n \in AllVersions /\ FactsOn(route, 1, n) /\ 1 \in Versions /\ 1 - 1 <= n
      BY <3>1, <3>2, RouteFactsOn, RouteAssumption DEF OutboxInv, ProjectionInv, Versions
    <3>4. \A v \in 1..n : route'[v] = route[v]
      BY <1>2, <3>1, <3>2, RouteGrows DEF OutboxInv
    <3>5. FoldBatch(NoProjection, 1, n, route') = FoldBatch(NoProjection, 1, n, route)
      BY <3>3, <3>4, NoProjectionType, FoldBatchAgree
    <3> QED BY <3>1, <3>2, <3>5
  <2>4. StepOK(step)'
    BY <1>1, <1>2, <2>1, <2>2, <2>3, ChecksStay DEF StepOK
  <2> QED BY <1>1, <2>4
<1>9. FoldOfRecorded'
  <2> SUFFICES ASSUME ~Contradicted'
               PROVE  proj = FoldBatch(NoProjection, 1, proj.version, Recorded')
    BY <1>1 DEF FoldOfRecorded
  <2>1. Len(route) \in Nat /\ Len(route') \in Nat /\ Len(route') >= Len(route)
    BY <1>2, RouteGrows DEF OutboxInv
  <2>2. \A v \in 1..Len(route) : route'[v] = route[v]
    BY <1>2, RouteGrows DEF OutboxInv
  <2>3. ~Contradicted
    BY <1>1, <2>1, <2>2 DEF Contradicted, Versions
  <2>4. Recorded' = Recorded
    BY <1>1, <2>1, <2>2 DEF Recorded, ProjectionInv, GapsAreOld
  <2> QED BY <2>3, <2>4 DEF ProjectionInv, FoldOfRecorded
<1> QED BY <1>3, <1>4, <1>5, <1>6, <1>7, <1>8, <1>9 DEF ProjectionInv

\* There are more tokens than appliers that may still know one.
LEMMA FreshTokenType ==
  ASSUME intent = Nothing
  PROVE  FreshToken \in Tokens
<1> DEFINE Free(t) ==
             /\ intent # Nothing => intent.token # t
             /\ \A p \in Appliers : "token" \in DOMAIN applier[p] => applier[p].token # t
<1>1. \E t \in Tokens : Free(t)
  <2> SUFFICES ASSUME \A t \in Tokens : ~Free(t)
               PROVE  FALSE
    OBVIOUS
  <2>1. \A t \in Tokens : \E q \in Appliers : applier[q].token = t
    OBVIOUS
  <2> DEFINE holder == [t \in Tokens |-> CHOOSE q \in Appliers : applier[q].token = t]
  <2>2. holder \in [Tokens -> Appliers] /\ \A t \in Tokens : applier[holder[t]].token = t
    BY <2>1
  <2> HIDE DEF holder
  <2>3. Cardinality(Appliers) < Cardinality(Tokens)
    BY ProjectionAssumption, FS_CardinalityType
  <2>4. \E x, y \in Tokens : x # y /\ holder[x] = holder[y]
    BY <2>2, <2>3, ProjectionAssumption, FS_PigeonHole
  <2> QED BY <2>2, <2>4
<1> HIDE DEF Free
<1>2. FreshToken = CHOOSE t \in Tokens : Free(t)
  BY DEF FreshToken, Free
<1> QED BY <1>1, <1>2

LEMMA ApplyInv ==
  ASSUME OutboxInv, ProjectionInv, NEW p \in Appliers, NEW o \in Offered, Apply(p, o)
  PROVE  ProjectionInv'
<1>1. o \in Offers
  BY RouteFactsOn, ProjectionAssumption, RouteAssumption
     DEF Offered, Offers, Offer, OutboxInv, ProjectionInv, RouteType, RouteBounded, Versions
<1> PICK step : step = [at |-> "load", offer |-> o]
  OBVIOUS
<1>2. step \in ApplierStep /\ StepOK(step)
  BY <1>1, StepMade DEF StepOK
<1>3. /\ applier' = [applier EXCEPT ![p] = step] /\ UNCHANGED allVars
      /\ UNCHANGED <<proj, factLedger, intent, audits>>
  BY DEF Apply, Move, Stay, tables
<1> QED BY <1>2, <1>3, MoveInv DEF ProjectionInv, ProjectionType, LedgerEndsAtHead

\* An applier that has finished.
LEMMA DoneInv ==
  ASSUME ProjectionInv, NEW p \in Appliers, Done(p), Stay,
         UNCHANGED <<proj, factLedger, intent>>, audits \subseteq audits'
  PROVE  ProjectionInv'
<1>1. Idle \in ApplierStep /\ applier' = [applier EXCEPT ![p] = Idle] /\ UNCHANGED allVars
  BY DEF ApplierStep, Done, Move, Stay
<1> QED BY <1>1, IdleOK, MoveInv DEF ProjectionInv, ProjectionType, LedgerEndsAtHead

LEMMA LoadInv ==
  ASSUME OutboxInv, ProjectionInv, NEW p \in Appliers, Load(p)
  PROVE  ProjectionInv'
<1> DEFINE o == Held(p)
<1>1. o \in Offers /\ proj \in Projections
  BY StepShape DEF Load, Held, ProjectionInv, ProjectionType, Idle
<1>2. UNCHANGED <<proj, factLedger, intent, audits>> /\ UNCHANGED allVars
  BY DEF Load, tables, Stay
<1>3. CASE Done(p)
  BY <1>2, <1>3, DoneInv DEF Stay
<1>4. ASSUME NEW at \in {"poison", "begin", "install"},
             applier' = [applier EXCEPT ![p] = [at |-> at, offer |-> o, seen |-> proj]],
             at = "install" => o.version = proj.version + 1 /\ Bound(o.fact)
      PROVE  ProjectionInv'
  <2> PICK step : step = [at |-> at, offer |-> o, seen |-> proj]
    OBVIOUS
  <2>1. step \in ApplierStep
    BY <1>1, StepMade
  <2>2. proj.version <= proj.version
    BY <1>1, ProjectionFields
  <2>3. StepOK(step)
    BY <1>4, <2>2 DEF StepOK
  <2> QED BY <1>2, <1>4, <2>1, <2>3, MoveInv DEF ProjectionInv, ProjectionType, LedgerEndsAtHead
<1> QED BY <1>3, <1>4 DEF Load, Move

LEMMA RecordPoisonInv ==
  ASSUME OutboxInv, ProjectionInv, NEW p \in Appliers, RecordPoison(p)
  PROVE  ProjectionInv'
BY DoneInv DEF RecordPoison, Audit

\* A step that keeps what the applier has read and goes on.
LEMMA GoOnInv ==
  ASSUME ProjectionInv, NEW p \in Appliers, applier[p] # Idle, applier[p].at # "load",
         NEW at, NEW t \in Tokens, Stay, UNCHANGED <<proj, factLedger, audits>>,
         intent' \in Intents \cup {Nothing}, intent' # Nothing => intent'.observed <= proj.version,
         at \in {"replay", "snapshot", "historical", "replayed", "poison"},
         applier' = [applier EXCEPT ![p] =
             [at |-> at, offer |-> Held(p), seen |-> applier[p].seen, token |-> t]],
         at = "replayed" => Held(p).version > Observed(p) /\ Genuine(Held(p)),
         at = "historical" => Held(p).version <= Observed(p) /\ Genuine(Held(p))
  PROVE  ProjectionInv'
<1>1. Held(p) \in Offers /\ applier[p].seen \in Projections /\ StepOK(applier[p]) /\ applier[p].at # "idle"
  BY StepShape DEF Held, ProjectionInv, ProjectionType, StepsOK
<1> PICK step : step = [at |-> at, offer |-> Held(p), seen |-> applier[p].seen, token |-> t]
  OBVIOUS
<1>2. step \in ApplierStep
  BY <1>1, StepMade
<1>3. StepOK(step)
  BY <1>1 DEF StepOK, Observed, Held
<1>4. UNCHANGED allVars /\ UNCHANGED <<proj, factLedger>> /\ audits \subseteq audits'
  BY DEF Stay
<1> QED BY <1>2, <1>3, <1>4, MoveInv

LEMMA BeginInv ==
  ASSUME OutboxInv, ProjectionInv, NEW p \in Appliers, Begin(p)
  PROVE  ProjectionInv'
<1>1. /\ applier[p] # Idle /\ applier[p].at = "begin" /\ applier[p] \in ApplierStep
      /\ UNCHANGED <<proj, factLedger, audits>> /\ Stay
  BY DEF Begin, ProjectionInv, ProjectionType, Idle
<1>2. Held(p) \in Offers /\ applier[p].seen \in Projections
  BY <1>1, StepShape DEF Held
<1>3. CASE Done(p) /\ UNCHANGED intent
  BY <1>1, <1>3, DoneInv
<1>4. ASSUME NEW t \in Tokens,
             applier' = [applier EXCEPT ![p] =
                 [at |-> "replay", offer |-> Held(p), seen |-> applier[p].seen, token |-> t]],
             intent' \in Intents \cup {Nothing}, intent' # Nothing => intent'.observed <= proj.version
      PROVE  ProjectionInv'
  BY <1>1, <1>4, GoOnInv
<1>5. CASE intent # Nothing /\ UNCHANGED intent /\
           Move(p, [at |-> "replay", offer |-> Held(p), seen |-> applier[p].seen, token |-> intent.token])
  <2>1. intent \in Intents /\ intent.token \in Tokens /\ intent.observed <= proj.version
    BY <1>5 DEF ProjectionInv, ProjectionType, LedgerEndsAtHead, Intents
  <2> QED BY <1>4, <1>5, <2>1 DEF Move
<1>6. CASE /\ HeadUnmoved(p) /\ intent = Nothing
           /\ intent' = [token |-> FreshToken, observed |-> Observed(p), held |-> Held(p)]
           /\ Move(p, [at |-> "replay", offer |-> Held(p), seen |-> applier[p].seen, token |-> FreshToken])
  <2>1. FreshToken \in Tokens
    BY <1>6, FreshTokenType
  <2>2. Observed(p) \in AllVersions /\ Observed(p) <= proj.version
    BY <1>2, <1>6, ProjectionFields DEF Observed, HeadUnmoved
  <2>3. intent' \in Intents /\ intent'.observed = Observed(p)
    BY <1>2, <1>6, <2>1, <2>2 DEF Intents
  <2> QED BY <1>4, <1>6, <2>1, <2>2, <2>3 DEF Move
<1> QED BY <1>3, <1>5, <1>6 DEF Begin

LEMMA ReplayInv ==
  ASSUME OutboxInv, ProjectionInv, NEW p \in Appliers, Replay(p)
  PROVE  ProjectionInv'
<1>1. /\ applier[p] # Idle /\ applier[p].at = "replay" /\ applier[p] \in ApplierStep
      /\ UNCHANGED <<proj, factLedger, intent, audits>> /\ Stay
  BY DEF Replay, ProjectionInv, ProjectionType, Idle, tables
<1>2. /\ Held(p) \in Offers /\ applier[p].seen \in Projections /\ applier[p].token \in Tokens
      /\ applier[p] = [at |-> "replay", offer |-> Held(p), seen |-> applier[p].seen,
                       token |-> applier[p].token]
  BY <1>1, StepShape DEF Held
<1>3. /\ intent' \in Intents \cup {Nothing}
      /\ intent' # Nothing => intent'.observed <= proj.version
  BY <1>1 DEF ProjectionInv, ProjectionType, LedgerEndsAtHead
<1>4. CASE Done(p)
  BY <1>1, <1>4, DoneInv
<1>5. ASSUME NEW at \in {"snapshot", "historical", "replayed", "poison"}, Goto(p, at),
             at = "replayed" => ~Historical(p) /\ Genuine(Held(p)),
             at = "historical" => Historical(p) /\ Genuine(Held(p))
      PROVE  ProjectionInv'
  <2>1. applier' = [applier EXCEPT ![p] =
             [at |-> at, offer |-> Held(p), seen |-> applier[p].seen, token |-> applier[p].token]]
    <3> PICK o, x, t : applier[p] = [at |-> "replay", offer |-> o, seen |-> x, token |-> t]
      BY <1>2
    <3>1. [applier[p] EXCEPT !.at = at] = [at |-> at, offer |-> o, seen |-> x, token |-> t]
      OBVIOUS
    <3> QED BY <1>5, <3>1 DEF Goto, Move, Held
  <2>2. Held(p).version \in Nat /\ Observed(p) \in Nat
    BY <1>2, ProjectionFields, OfferFields DEF Observed
  <2>3. /\ at = "replayed" => Held(p).version > Observed(p) /\ Genuine(Held(p))
        /\ at = "historical" => Held(p).version <= Observed(p) /\ Genuine(Held(p))
    BY <1>5, <2>2 DEF Historical
  <2> QED BY <1>1, <1>2, <1>3, <2>1, <2>3, GoOnInv
<1> QED BY <1>4, <1>5 DEF Replay

LEMMA SnapshotInv ==
  ASSUME OutboxInv, ProjectionInv, NEW p \in Appliers, Snapshot(p)
  PROVE  ProjectionInv'
<1>1. /\ applier[p] # Idle /\ applier[p].at = "snapshot" /\ applier[p] \in ApplierStep
      /\ UNCHANGED <<proj, factLedger, intent, audits>> /\ Stay
  BY DEF Snapshot, ProjectionInv, ProjectionType, Idle, tables
<1>2. /\ Held(p) \in Offers /\ applier[p].seen \in Projections /\ applier[p].token \in Tokens
      /\ StepOK(applier[p])
  BY <1>1, StepShape DEF Held, ProjectionInv, StepsOK
<1>3. CASE Done(p)
  BY <1>1, <1>3, DoneInv
<1> PICK n : n = Len(route)
  OBVIOUS
<1> PICK state : state = FoldBatch(NoProjection, 1, n, route)
  OBVIOUS
<1>4. /\ n \in Versions /\ 1 \in Versions /\ 1 <= n /\ FactsOn(route, 1, n) /\ route[n] \in RouteFacts
      /\ n \in 1..Len(route)
  BY RouteFactsOn, RouteAssumption DEF OutboxInv, ProjectionInv, RouteType, RouteBounded, Versions
<1>5. state \in Projections /\ state.version = n
  BY <1>4, NoProjectionType, FoldBatchUnfold, FoldFactType
<1>6. CASE /\ state.version >= Observed(p)
           /\ Move(p, [at |-> "snapped", offer |-> Held(p), seen |-> applier[p].seen,
                       token |-> applier[p].token, snap |-> state])
  <2> PICK step : step = [at |-> "snapped", offer |-> Held(p), seen |-> applier[p].seen,
                          token |-> applier[p].token, snap |-> state]
    OBVIOUS
  <2>1. step \in ApplierStep
    BY <1>2, <1>5, StepMade
  <2>2. StepOK(step)
    BY <1>1, <1>2, <1>4, <1>5, <1>6 DEF StepOK, Observed
  <2>3. applier' = [applier EXCEPT ![p] = step] /\ UNCHANGED allVars
    BY <1>1, <1>6 DEF Move, Stay
  <2> QED BY <1>1, <2>1, <2>2, <2>3, MoveInv DEF ProjectionInv, ProjectionType, LedgerEndsAtHead
<1> QED BY <1>3, <1>6 DEF Snapshot

LEMMA OvertakenInv ==
  ASSUME OutboxInv, ProjectionInv, NEW p \in Appliers, Overtaken(p)
  PROVE  ProjectionInv'
BY DoneInv DEF Overtaken, tables

-----------------------------------------------------------------------------
(* Installs. *)

\* What an install may do to what is on record.
Forward ==
    /\ proj'.version >= proj.version
    /\ \A v \in Versions : factLedger[v] # Nothing => factLedger'[v] = factLedger[v]

LEMMA StandingForward ==
  ASSUME ProjectionInv, UNCHANGED <<proj, factLedger>>
  PROVE  Forward
BY ProjectionFields DEF ProjectionInv, ProjectionType, Forward

\* A ringing fact of the route is one of an authorization accepted here.
LEMMA RouteIsBound ==
  ASSUME OutboxInv
  PROVE  \A v \in 1..Len(route) : Bound(route[v])
BY DEF OutboxInv, RouteType, ReceiptOnRecord, Bound

\* What the last fact of a fold says of the delivery.
LEMMA FoldedVisible ==
  ASSUME NEW x \in Projections, NEW v \in Versions, NEW fact \in RouteFacts, Bound(fact),
         NEW y, y = FoldFact(x, v, fact), y.visible
  PROVE  y.lease /\ y.generation = y.version /\ Bound(Ringing(y.auth, y.receipt))
<1>1. fact.kind = "ringing"
  BY FoldFactType
<1>2. y = [version |-> v, visible |-> TRUE, auth |-> fact.auth, receipt |-> fact.receipt,
           generation |-> v, lease |-> TRUE]
  BY <1>1 DEF FoldFact
<1> QED BY <1>1, <1>2 DEF Bound, Ringing, Fact

\* The projection moves forward: everybody else is now behind it.
LEMMA ForwardSteps ==
  ASSUME ProjectionInv, Stay, NEW p \in Appliers, Done(p), proj' \in Projections,
         proj'.version > proj.version
  PROVE  StepsOK' /\ applier' \in [Appliers -> ApplierStep]
<1>1. UNCHANGED <<route, accepted>> /\ applier' = [applier EXCEPT ![p] = Idle]
  BY DEF Stay, allVars, routeVars, outboxVars, Done, Move
<1>2. applier' \in [Appliers -> ApplierStep]
  BY <1>1, IdleOK DEF ProjectionInv, ProjectionType, ApplierStep
<1>3. StepOK(Idle)'
  BY DEF StepOK, Idle
<1>4. ASSUME NEW q \in Appliers, q # p
      PROVE  StepOK(applier[q])'
  <2> PICK step : step = applier[q]
    OBVIOUS
  <2>1. step \in ApplierStep /\ StepOK(step) /\ applier'[q] = step
    BY <1>1, <1>4 DEF ProjectionInv, ProjectionType, StepsOK
  <2>2. CASE step.at \in {"idle", "load"}
    BY <2>1, <2>2 DEF StepOK
  <2>3. CASE step.at \notin {"idle", "load"}
    <3>1. step.seen \in Projections /\ step.seen.version <= proj.version
      BY <2>1, <2>3, StepShape DEF StepOK, Idle
    <3>2. step.seen.version <= proj'.version /\ step.seen.version # proj'.version
      BY <3>1, ProjectionFields DEF ProjectionInv, ProjectionType
    <3>3. StepOK(step)'
      BY <1>1, <2>1, <3>2 DEF StepOK, Bound, Genuine
    <3> QED BY <2>1, <3>3
  <2> QED BY <2>2, <2>3
<1>5. applier'[p] = Idle
  BY <1>1 DEF ProjectionInv, ProjectionType
<1> QED BY <1>2, <1>3, <1>4, <1>5 DEF StepsOK

LEMMA RecordedFacts ==
  ASSUME OutboxInv, ProjectionInv
  PROVE  FactsOn(Recorded, 1, proj.version)
<1> SUFFICES ASSUME NEW v \in 1..proj.version
             PROVE  Recorded[v] \in RouteFacts
  BY DEF FactsOn
<1>1. v \in Versions
  BY ProjectionFields, RouteAssumption DEF ProjectionInv, ProjectionType, Versions
<1>2. CASE factLedger[v] = Nothing
  <2>1. v \in 1..Len(route)
    BY <1>1, <1>2 DEF ProjectionInv, GapsAreOld, OutboxInv, RouteType, Versions
  <2> QED BY <1>2, <2>1 DEF Recorded, OutboxInv, RouteType
<1>3. CASE factLedger[v] # Nothing
  BY <1>1, <1>3 DEF Recorded, ProjectionInv, ProjectionType
<1> QED BY <1>2, <1>3

\* The next facts, folded on the projection as it is.
LEMMA InstallFactsInv ==
  ASSUME OutboxInv, ProjectionInv, Stay, NEW p \in Appliers, Done(p),
         NEW from \in Versions, NEW to \in Versions, from <= to, from = proj.version + 1,
         NEW facts, FactsOn(facts, from, to), Bound(facts[to]),
         applier[p].seen = proj, InstallFacts(p, from, to, facts),
         intent' \in {intent, Nothing}, UNCHANGED audits
  PROVE  ProjectionInv' /\ Forward
<1>1. UNCHANGED <<route, accepted>>
  BY DEF Stay, allVars, routeVars, outboxVars
<1>2. /\ proj \in Projections /\ proj.version \in Nat /\ proj.version \in AllVersions
      /\ from \in Nat /\ to \in Nat /\ to \in from..to /\ from - 1 = proj.version
      /\ to \in AllVersions /\ from - 1 <= to /\ proj.version < to /\ to - 1 \in Int
  BY ProjectionFields, RouteAssumption DEF ProjectionInv, ProjectionType, Versions, AllVersions
<1>3. /\ proj' = FoldBatch(proj, from, to, facts)
      /\ FoldBatch(proj, from, to - 1, facts) \in Projections
      /\ proj' = FoldFact(FoldBatch(proj, from, to - 1, facts), to, facts[to])
  BY <1>2, FoldBatchUnfold DEF InstallFacts
<1>4. proj' \in Projections /\ proj'.version = to /\ facts[to] \in RouteFacts
  BY <1>2, <1>3, FoldFactType DEF FactsOn
<1>5. /\ factLedger' = [v \in Versions |-> IF v \in from..to THEN facts[v] ELSE factLedger[v]]
      /\ \A v \in Versions : v \in from..to => factLedger'[v] = facts[v] /\ factLedger'[v] # Nothing
      /\ \A v \in Versions : v \notin from..to => factLedger'[v] = factLedger[v]
  BY ProjectionAssumption DEF InstallFacts, FactsOn
<1>6. StepsOK' /\ applier' \in [Appliers -> ApplierStep]
  BY <1>2, <1>4, ForwardSteps
<1>7. ProjectionType'
  <2>1. factLedger' \in [Versions -> RouteFacts \cup {Nothing}]
    BY <1>5 DEF FactsOn, ProjectionInv, ProjectionType
  <2> QED BY <1>4, <1>6, <2>1 DEF ProjectionInv, ProjectionType
<1>8. RouteBounded' /\ LedgerEndsAtHead'
  <2>1. RouteBounded'
    BY <1>1 DEF ProjectionInv, RouteBounded, Latest
  <2>2. \A v \in Versions : v > to => factLedger'[v] = Nothing
    BY <1>2, <1>5, RouteAssumption DEF ProjectionInv, LedgerEndsAtHead, Versions
  <2>3. factLedger'[to] # Nothing
    BY <1>2, <1>5
  <2>4. intent' # Nothing => intent'.observed <= to
    BY <1>2 DEF ProjectionInv, ProjectionType, LedgerEndsAtHead, Intents, AllVersions
  <2> QED BY <1>4, <2>1, <2>2, <2>3, <2>4 DEF LedgerEndsAtHead
<1>9. \A v \in 1..to : v \in Versions /\ (v \in 1..proj.version \/ v \in from..to)
                       /\ (v \in 1..proj.version => v \notin from..to)
  BY <1>2, RouteAssumption DEF Versions
<1>10. GapsAreOld' /\ NoSilentGap'
  BY <1>1, <1>4, <1>5, <1>9 DEF ProjectionInv, GapsAreOld, NoSilentGap
<1>11. VisibleIsAuthorized'
  <2> SUFFICES ASSUME proj'.visible
               PROVE  /\ proj'.lease /\ proj'.generation = proj'.version
                      /\ Bound(Ringing(proj.auth, proj.receipt))'
    BY DEF VisibleIsAuthorized
  <2>1. /\ proj'.lease /\ proj'.generation = proj'.version
        /\ Bound(Ringing(proj'.auth, proj'.receipt))
    BY <1>3, <1>4, FoldedVisible
  <2> QED BY <1>1, <2>1 DEF Bound
<1>12. FoldOfRecorded'
  <2> SUFFICES ASSUME ~Contradicted'
               PROVE  proj' = FoldBatch(NoProjection, 1, to, Recorded')
    BY <1>4 DEF FoldOfRecorded
  <2>1. ~Contradicted
    <3> SUFFICES ASSUME NEW v \in Versions, v <= Len(route), factLedger[v] \notin {Nothing, route[v]}
                 PROVE  FALSE
      BY DEF Contradicted
    <3>1. v <= proj.version
      BY <1>2, RouteAssumption DEF ProjectionInv, LedgerEndsAtHead, Versions
    <3>2. v \notin from..to
      BY <1>2, <3>1, RouteAssumption DEF Versions
    <3> QED BY <1>1, <1>5, <3>2 DEF Contradicted
  <2>2. proj = FoldBatch(NoProjection, 1, proj.version, Recorded)
    BY <2>1 DEF ProjectionInv, FoldOfRecorded
  <2> PICK recs : recs = Recorded'
    OBVIOUS
  <2>3. /\ \A v \in 1..proj.version : recs[v] = Recorded[v]
        /\ \A v \in from..to : recs[v] = facts[v]
    BY <1>1, <1>2, <1>4, <1>5, <1>9 DEF Recorded
  <2>4. FactsOn(recs, 1, to) /\ FactsOn(Recorded, 1, proj.version)
    BY <1>9, <2>3, RecordedFacts DEF FactsOn
  <2>5. 1 \in Versions /\ 1 - 1 <= proj.version
    BY <1>2, RouteAssumption DEF Versions
  <2>6. FoldBatch(NoProjection, 1, proj.version, recs) = proj
    BY <1>2, <2>2, <2>3, <2>4, <2>5, NoProjectionType, FoldBatchAgree
  <2>7. FoldBatch(proj, from, to, recs) = proj'
    BY <1>2, <1>3, <2>3, FoldBatchAgree
  <2>8. FoldBatch(FoldBatch(NoProjection, 1, proj.version, recs), proj.version + 1, to, recs)
          = FoldBatch(NoProjection, 1, to, recs)
    BY <1>2, <2>4, NoProjectionType, FoldBatchJoin
  <2> QED BY <1>2, <2>6, <2>7, <2>8
<1>13. Forward
  <2>1. \A v \in Versions : factLedger[v] # Nothing => v \notin from..to
    BY <1>2, RouteAssumption DEF ProjectionInv, LedgerEndsAtHead, Versions
  <2> QED BY <1>2, <1>4, <1>5, <2>1 DEF Forward
<1> QED BY <1>6, <1>7, <1>8, <1>10, <1>11, <1>12, <1>13 DEF ProjectionInv

LEMMA InstallBatchInv ==
  ASSUME OutboxInv, ProjectionInv, NEW p \in Appliers, InstallBatch(p)
  PROVE  ProjectionInv' /\ Forward
<1>1. /\ applier[p].at = "install" /\ applier[p] # Idle /\ applier[p] \in ApplierStep
      /\ StepOK(applier[p]) /\ Done(p) /\ Stay /\ UNCHANGED <<intent, audits>>
  BY DEF InstallBatch, ProjectionInv, ProjectionType, StepsOK, Idle
<1>2. CASE ~HeadUnmoved(p)
  BY <1>1, <1>2, DoneInv, StandingForward DEF InstallBatch
<1>3. CASE HeadUnmoved(p)
  <2> PICK o : o = Held(p)
    OBVIOUS
  <2> PICK v : v = o.version
    OBVIOUS
  <2> PICK facts : facts = [u \in {v} |-> o.fact]
    OBVIOUS
  <2>1. o \in Offers /\ applier[p].seen = proj /\ v = proj.version + 1 /\ Bound(o.fact)
    BY <1>1, <1>3, StepShape DEF StepOK, HeadUnmoved, Held
  <2>2. v \in Versions /\ v \in Nat /\ o.fact \in RouteFacts
    BY <2>1, OfferFields
  <2>3. FactsOn(facts, v, v) /\ Bound(facts[v])
    BY <2>1, <2>2, OfferFields DEF FactsOn
  <2>4. InstallFacts(p, v, v, facts)
    BY <1>3 DEF InstallBatch
  <2>5. v <= v
    BY <2>2
  <2> QED BY <1>1, <2>1, <2>2, <2>3, <2>4, <2>5, InstallFactsInv
<1> QED BY <1>2, <1>3

LEMMA InstallReconcileInv ==
  ASSUME OutboxInv, ProjectionInv, NEW p \in Appliers, InstallReconcileBatch(p)
  PROVE  ProjectionInv' /\ Forward
<1>1. /\ applier[p].at = "replayed" /\ applier[p] # Idle /\ applier[p] \in ApplierStep
      /\ StepOK(applier[p]) /\ Done(p) /\ Stay /\ UNCHANGED audits /\ intent' = Nothing
      /\ HeadUnmoved(p)
  BY DEF InstallReconcileBatch, IntentHeld, ProjectionInv, ProjectionType, StepsOK, Idle
<1> PICK to : to = Held(p).version
  OBVIOUS
<1> PICK from : from = proj.version + 1
  OBVIOUS
<1>2. Held(p) \in Offers /\ applier[p].seen = proj /\ to > proj.version /\ Genuine(Held(p))
  BY <1>1, StepShape DEF StepOK, HeadUnmoved, Held
<1>3. to \in Versions /\ to \in Nat /\ proj.version \in Nat /\ from \in Nat /\ to \in 1..Len(route)
  BY <1>2, OfferFields, ProjectionFields DEF Genuine, OutboxInv, RouteType, ProjectionInv, ProjectionType
<1>4. from \in Versions /\ from <= to
  BY <1>2, <1>3, RouteAssumption DEF Versions
<1>5. From(p) = from
  BY <1>2, <1>3 DEF From, Historical, Observed
<1>6. FactsOn(route, from, to)
  BY <1>3, <1>4 DEF FactsOn, OutboxInv, RouteType
<1>7. Bound(route[to])
  BY <1>3, RouteIsBound
<1>8. InstallFacts(p, from, to, route)
  BY <1>5 DEF InstallReconcileBatch
<1> QED BY <1>1, <1>2, <1>4, <1>3, <1>6, <1>7, <1>8, InstallFactsInv

LEMMA InstallHistoricalInv ==
  ASSUME OutboxInv, ProjectionInv, NEW p \in Appliers, InstallHistoricalIdentity(p)
  PROVE  ProjectionInv' /\ Forward
<1>1. /\ applier[p].at = "historical" /\ applier[p] # Idle /\ applier[p] \in ApplierStep
      /\ StepOK(applier[p]) /\ Done(p) /\ Stay /\ UNCHANGED <<proj, audits>>
  BY DEF InstallHistoricalIdentity, ProjectionInv, ProjectionType, StepsOK, Idle
<1> PICK v : v = Held(p).version
  OBVIOUS
<1>2. CASE factLedger[v] # Nothing
  BY <1>1, <1>2, DoneInv, StandingForward DEF InstallHistoricalIdentity
<1>3. CASE factLedger[v] = Nothing
  <2>1. factLedger' = [factLedger EXCEPT ![v] = route[v]] /\ intent' = Nothing
    BY <1>3 DEF InstallHistoricalIdentity
  <2>2. Held(p) \in Offers /\ Genuine(Held(p)) /\ v <= applier[p].seen.version
        /\ applier[p].seen.version <= proj.version /\ applier[p].seen \in Projections
    BY <1>1, StepShape DEF StepOK, Held
  <2>3. v \in Versions /\ v \in 1..Len(route) /\ v \in 1..proj.version /\ route[v] \in RouteFacts
    BY <2>2, OfferFields, ProjectionFields
       DEF Genuine, OutboxInv, RouteType, ProjectionInv, ProjectionType
  <2>4. /\ UNCHANGED <<route, accepted>> /\ applier' = [applier EXCEPT ![p] = Idle]
        /\ Idle \in ApplierStep
    BY <1>1 DEF Stay, allVars, routeVars, outboxVars, Done, Move, ApplierStep
  <2>5. \A u \in Versions : factLedger'[u] = IF u = v THEN route[v] ELSE factLedger[u]
    BY <2>1, <2>3 DEF ProjectionInv, ProjectionType
  <2>6. ProjectionType'
    BY <1>1, <2>1, <2>3, <2>4 DEF ProjectionInv, ProjectionType
  <2>7. RouteBounded' /\ LedgerEndsAtHead'
    <3>1. RouteBounded'
      BY <2>4 DEF ProjectionInv, RouteBounded, Latest
    <3>2. proj.version \in Nat /\ (proj.version > 0 => proj.version \in Versions)
      BY ProjectionFields, RouteAssumption DEF ProjectionInv, ProjectionType, Versions
    <3>3. \A u \in Versions : u > proj.version => factLedger'[u] = Nothing
      BY <2>3, <2>5, <3>2 DEF ProjectionInv, LedgerEndsAtHead, Versions
    <3>4. proj.version > 0 => factLedger'[proj.version] # Nothing
      BY <2>3, <2>5, <3>2, ProjectionAssumption DEF ProjectionInv, LedgerEndsAtHead
    <3> QED BY <1>1, <2>1, <3>1, <3>3, <3>4 DEF LedgerEndsAtHead
  <2>8. \A u \in 1..proj.version : u \in Versions
    BY ProjectionFields, RouteAssumption DEF ProjectionInv, ProjectionType, Versions
  <2>9. GapsAreOld' /\ NoSilentGap'
    BY <1>1, <2>3, <2>4, <2>5, <2>8, ProjectionAssumption DEF ProjectionInv, GapsAreOld, NoSilentGap
  <2>10. VisibleIsAuthorized'
    BY <1>1, <2>4 DEF ProjectionInv, VisibleIsAuthorized, Bound
  <2>11. StepsOK'
    <3>1. \A x : StepOK(x) => StepOK(x)'
      BY <1>1, <2>4 DEF StepOK, Bound, Genuine
    <3>2. \A q \in Appliers : applier'[q] = Idle \/ applier'[q] = applier[q]
      BY <2>4 DEF ProjectionInv, ProjectionType
    <3> QED BY <3>1, <3>2, IdleOK DEF ProjectionInv, StepsOK
  <2>12. FoldOfRecorded'
    <3>1. Recorded' = Recorded
      BY <1>1, <1>3, <2>3, <2>4, <2>5, <2>8, ProjectionAssumption DEF Recorded
    <3>2. Contradicted => Contradicted'
      BY <1>3, <2>4, <2>5 DEF Contradicted
    <3> QED BY <1>1, <3>1, <3>2 DEF ProjectionInv, FoldOfRecorded
  <2>13. Forward
    BY <1>1, <1>3, <2>5, ProjectionFields DEF Forward, ProjectionInv, ProjectionType
  <2> QED BY <2>6, <2>7, <2>9, <2>10, <2>11, <2>12, <2>13 DEF ProjectionInv
<1> QED BY <1>2, <1>3

LEMMA InstallSnapshotInv ==
  ASSUME OutboxInv, ProjectionInv, NEW p \in Appliers, InstallSnapshotAndAudit(p)
  PROVE  ProjectionInv' /\ Forward
<1>1. /\ applier[p].at = "snapped" /\ applier[p] # Idle /\ applier[p] \in ApplierStep
      /\ StepOK(applier[p]) /\ Done(p) /\ Stay /\ HeadUnmoved(p)
  BY DEF InstallSnapshotAndAudit, IntentHeld, ProjectionInv, ProjectionType, StepsOK, Idle
<1> PICK snap : snap = applier[p].snap
  OBVIOUS
<1> PICK n : n = snap.version
  OBVIOUS
<1>2. CASE factLedger[n] # Nothing
  BY <1>1, <1>2, DoneInv, StandingForward DEF InstallSnapshotAndAudit, tables
<1>3. CASE factLedger[n] = Nothing
  <2>1. /\ proj' = snap /\ factLedger' = [factLedger EXCEPT ![n] = route[n]] /\ intent' = Nothing
        /\ audits' = audits \cup {<<Held(p), "UNKNOWN_STALE_HISTORY">>}
    BY <1>3 DEF InstallSnapshotAndAudit, Audit
  <2>2. /\ snap \in Projections /\ n \in 1..Len(route) /\ applier[p].seen = proj /\ n >= proj.version
        /\ snap = FoldBatch(NoProjection, 1, n, route)
    BY <1>1, StepShape DEF StepOK, HeadUnmoved
  <2>3. /\ n \in Versions /\ 1 \in Versions /\ 1 <= n /\ n \in Nat /\ FactsOn(route, 1, n)
        /\ n \in AllVersions /\ 1 - 1 <= n
        /\ route[n] \in RouteFacts /\ \A v \in 1..n : v \in Versions /\ v \in 1..Len(route)
    BY <2>2, RouteFactsOn, RouteAssumption
       DEF OutboxInv, ProjectionInv, RouteType, RouteBounded, Versions
  <2>4. proj.version \in Nat /\ n > proj.version
    BY <1>3, <2>2, <2>3, ProjectionFields DEF ProjectionInv, ProjectionType, LedgerEndsAtHead
  <2>5. UNCHANGED <<route, accepted>>
    BY <1>1 DEF Stay, allVars, routeVars, outboxVars
  <2>6. StepsOK' /\ applier' \in [Appliers -> ApplierStep]
    BY <1>1, <2>1, <2>2, <2>4, ForwardSteps
  <2>7. \A u \in Versions : factLedger'[u] = IF u = n THEN route[n] ELSE factLedger[u]
    BY <2>1, <2>3 DEF ProjectionInv, ProjectionType
  <2>8. ProjectionType'
    BY <2>1, <2>2, <2>3, <2>6 DEF ProjectionInv, ProjectionType
  <2>9. RouteBounded' /\ LedgerEndsAtHead'
    <3>1. RouteBounded'
      BY <2>5 DEF ProjectionInv, RouteBounded, Latest
    <3>2. \A u \in Versions : u > n => factLedger'[u] = Nothing
      BY <2>3, <2>4, <2>7 DEF ProjectionInv, LedgerEndsAtHead, Versions
    <3>3. factLedger'[n] # Nothing
      BY <2>3, <2>7, ProjectionAssumption
    <3> QED BY <2>1, <3>1, <3>2, <3>3 DEF LedgerEndsAtHead
  <2>10. GapsAreOld' /\ NoSilentGap'
    <3>1. proj'.version = n /\ Len(route) \in Nat /\ route' = route
      BY <2>1, <2>5 DEF OutboxInv, RouteType
    <3>2. GapsAreOld'
      BY <2>3, <3>1 DEF GapsAreOld
    <3>3. PICK audit \in audits' : audit = <<Held(p), "UNKNOWN_STALE_HISTORY">>
      BY <2>1
    <3>4. audit[2] = "UNKNOWN_STALE_HISTORY"
      BY <3>3
    <3> QED BY <3>2, <3>4 DEF NoSilentGap
  <2>11. VisibleIsAuthorized'
    <3> SUFFICES ASSUME snap.visible
                 PROVE  snap.lease /\ snap.generation = snap.version
                        /\ Bound(Ringing(proj.auth, proj.receipt))'
      BY <2>1 DEF VisibleIsAuthorized
    <3>1. PICK x \in Projections : snap = FoldFact(x, n, route[n])
      BY <2>2, <2>3, NoProjectionType, FoldBatchUnfold
    <3>2. snap.lease /\ snap.generation = snap.version /\ Bound(Ringing(snap.auth, snap.receipt))
      BY <2>2, <2>3, <3>1, RouteIsBound, FoldedVisible
    <3> QED BY <2>1, <2>5, <3>2 DEF Bound
  <2>12. FoldOfRecorded'
    <3> SUFFICES ASSUME ~Contradicted'
                 PROVE  snap = FoldBatch(NoProjection, 1, n, Recorded')
      BY <2>1 DEF FoldOfRecorded
    <3> PICK recs : recs = Recorded'
      OBVIOUS
    <3>1. \A v \in 1..n : recs[v] = route[v]
      BY <2>1, <2>3, <2>5 DEF Recorded, Contradicted
    <3>2. FoldBatch(NoProjection, 1, n, recs) = FoldBatch(NoProjection, 1, n, route)
      BY <2>3, <3>1, NoProjectionType, FoldBatchAgree
    <3> QED BY <2>2, <3>2
  <2>13. Forward
    BY <1>3, <2>1, <2>2, <2>7 DEF Forward
  <2> QED BY <2>6, <2>8, <2>9, <2>10, <2>11, <2>12, <2>13 DEF ProjectionInv
<1> QED BY <1>2, <1>3

-----------------------------------------------------------------------------
(* The theorems. *)

LEMMA ProjectionInitial == Init => OutboxInv /\ ProjectionInv
<1> SUFFICES ASSUME Init PROVE OutboxInv /\ ProjectionInv
  OBVIOUS
<1>1. OutboxInv
  BY OutboxInitial DEF Init
<1>2. /\ proj = NoProjection /\ factLedger = [v \in Versions |-> Nothing] /\ intent = Nothing
      /\ audits = {} /\ applier = [p \in Appliers |-> Idle] /\ route = <<Reserved>>
      /\ NoProjection.version = 0 /\ NoProjection.visible = FALSE
  BY DEF Init, ProjectionInit, DeliveryInit, RouteInit, NoProjection
<1>3. ProjectionType
  BY <1>2, NoProjectionType DEF ProjectionType, ApplierStep
<1>4. RouteBounded
  BY <1>2, RouteAssumption DEF RouteBounded
<1>5. LedgerEndsAtHead /\ GapsAreOld /\ NoSilentGap /\ VisibleIsAuthorized
  BY <1>2 DEF LedgerEndsAtHead, GapsAreOld, NoSilentGap, VisibleIsAuthorized
<1>6. StepsOK
  BY <1>2, IdleOK DEF StepsOK
<1>7. FoldOfRecorded
  <2> PICK recs : recs = Recorded
    OBVIOUS
  <2>1. 1 \in Versions /\ 0 \in AllVersions /\ 1 - 1 <= 0 /\ 1 - 1 = 0 /\ 0 \in 0..0
    BY RouteAssumption DEF Versions, AllVersions
  <2>2. FactsOn(recs, 1, 0)
    BY DEF FactsOn
  <2>3. PICK f : FoldedBy(f, NoProjection, 1, 0, recs)
    BY <2>1, <2>2, NoProjectionType, FoldBatchRecursion
  <2>4. FoldBatch(NoProjection, 1, 0, recs) = NoProjection
    BY <2>1, <2>3 DEF FoldedBy
  <2> QED BY <1>2, <2>4 DEF FoldOfRecorded
<1> QED BY <1>1, <1>3, <1>4, <1>5, <1>6, <1>7 DEF ProjectionInv

LEMMA ProjectionStep == OutboxInv /\ ProjectionInv /\ [Next]_vars => OutboxInv' /\ ProjectionInv'
<1> SUFFICES ASSUME OutboxInv, ProjectionInv, [Next]_vars
             PROVE  OutboxInv' /\ ProjectionInv'
  OBVIOUS
<1>1. CASE OutboxNext /\ UNCHANGED projVars
  BY <1>1, OutboxStep, EnvironmentInv
<1>2. ASSUME NEW p \in Appliers, (\E o \in Offered : Apply(p, o)) \/ Project(p)
      PROVE  OutboxInv' /\ ProjectionInv'
  <2>1. UNCHANGED allVars
    BY <1>2 DEF Apply, Project, Load, RecordPoison, InstallBatch, Begin, Replay, Snapshot, Overtaken,
       InstallReconcileBatch, InstallHistoricalIdentity, InstallSnapshotAndAudit, Stay
  <2>2. ProjectionInv'
    BY <1>2, ApplyInv, LoadInv, RecordPoisonInv, InstallBatchInv, BeginInv, ReplayInv, SnapshotInv,
       OvertakenInv, InstallReconcileInv, InstallHistoricalInv, InstallSnapshotInv DEF Project
  <2> QED BY <2>1, <2>2, OutboxStep
<1>3. CASE UNCHANGED vars
  <2>1. UNCHANGED allVars /\ UNCHANGED <<proj, factLedger, intent, audits, applier>>
        /\ UNCHANGED <<route, accepted>>
    BY <1>3 DEF vars, allVars, projVars, routeVars, outboxVars
  <2>2. ProjectionType' /\ RouteBounded' /\ LedgerEndsAtHead' /\ GapsAreOld'
    BY <2>1 DEF ProjectionInv, ProjectionType, RouteBounded, Latest, LedgerEndsAtHead, GapsAreOld
  <2>3. StepsOK'
    BY <2>1 DEF ProjectionInv, StepsOK, StepOK, Bound, Genuine
  <2>4. VisibleIsAuthorized' /\ NoSilentGap' /\ FoldOfRecorded'
    BY <2>1 DEF ProjectionInv, VisibleIsAuthorized, Bound, NoSilentGap, FoldOfRecorded, Contradicted, Recorded
  <2> QED BY <2>1, <2>2, <2>3, <2>4, OutboxStep DEF ProjectionInv
<1> QED BY <1>1, <1>2, <1>3 DEF Next

\* The projection is the fold of the ledger, completed by the route where a
\* snapshot skipped it; an applier that still finds the head it read has read
\* the projection as it is.
THEOREM ProjectionInvariance == Spec => [](OutboxInv /\ ProjectionInv)
BY ProjectionInitial, ProjectionStep, PTL DEF Spec

\* The variables keep their shape; in particular a reconcile token is always
\* to be had, and an intent was made at a version the projection has reached.
THEOREM ProjectionTypeCorrect == Spec => []TypeOK
<1>1. OutboxInv /\ ProjectionInv => TypeOK
  <2> SUFFICES ASSUME OutboxInv, ProjectionInv PROVE TypeOK
    OBVIOUS
  <2>1. proj.version \in {0} \cup Versions
    BY ProjectionFields, RouteAssumption DEF ProjectionInv, ProjectionType, Versions
  <2>2. intent # Nothing => intent.token \in Tokens /\ intent.observed \in 0..proj.version
    <3> SUFFICES ASSUME intent # Nothing
                 PROVE  intent.token \in Tokens /\ intent.observed \in 0..proj.version
      OBVIOUS
    <3>1. intent \in Intents /\ intent.observed <= proj.version
      BY DEF ProjectionInv, ProjectionType, LedgerEndsAtHead
    <3>2. intent.token \in Tokens /\ intent.observed \in Nat
      BY <3>1, RouteAssumption DEF Intents, AllVersions
    <3> QED BY <3>1, <3>2, ProjectionFields DEF ProjectionInv, ProjectionType
  <2>3. \A p \in Appliers : applier[p] # Idle => applier[p].offer.version \in Versions
    BY StepShape, OfferFields DEF ProjectionInv, ProjectionType
  <2> QED BY <2>1, <2>2, <2>3 DEF TypeOK, OutboxInv, RouteType, OutboxType
<1> QED BY <1>1, ProjectionInvariance, PTL

\* A delivery is shown only under the lease of the version it is shown at and
\* for an authorization accepted here with that receipt, by whichever of the
\* four installs and whoever the fact came from (validateAuthorizationBindings).
THEOREM OnlyAuthorizedIsVisible == Spec => []VisibleIsAuthorized
<1>1. ProjectionInv => VisibleIsAuthorized
  BY DEF ProjectionInv
<1> QED BY <1>1, ProjectionInvariance, PTL

\* A version the projection has passed is in the ledger, or a snapshot
\* skipped it and left an audit (InstallSnapshotAndAudit).
THEOREM GapsAreAudited == Spec => []NoSilentGap
<1>1. ProjectionInv => NoSilentGap
  BY DEF ProjectionInv
<1> QED BY <1>1, ProjectionInvariance, PTL

\* The projection never goes back and the identity of a version is never
\* replaced, although appliers write what they read before: the version
\* compare of the head stands for all of it (installBatchTx, pendingIntentMatches).
THEOREM LedgerIsAppendOnly == Spec => FactLedgerIsPermanent
<1>1. OutboxInv /\ ProjectionInv /\ [Next]_vars => [Forward]_vars
  <2> SUFFICES ASSUME OutboxInv, ProjectionInv, Next PROVE Forward
    OBVIOUS
  <2>1. UNCHANGED <<proj, factLedger>> \/ \E p \in Appliers :
            \/ InstallBatch(p) \/ InstallReconcileBatch(p)
            \/ InstallHistoricalIdentity(p) \/ InstallSnapshotAndAudit(p)
    BY DEF Next, Project, projVars, Apply, Load, RecordPoison, Begin, Replay, Snapshot, Overtaken, tables
  <2> QED BY <2>1, StandingForward, InstallBatchInv, InstallReconcileInv, InstallHistoricalInv,
             InstallSnapshotInv
<1> QED BY <1>1, ProjectionInvariance, PTL DEF Spec, FactLedgerIsPermanent, Forward

-----------------------------------------------------------------------------
(* What the projection says of the route. *)

\* A ringing fact of 1..n that no terminal fact has followed.
LeasedBy(facts, n) ==
    \E v \in 1..n : facts[v].kind = "ringing" /\ \A u \in v..n : facts[u].kind # "terminal"

\* The lease of a fold from nothing.
LEMMA FoldedLease ==
  ASSUME NEW n \in Versions, NEW facts, FactsOn(facts, 1, n)
  PROVE  FoldBatch(NoProjection, 1, n, facts).lease <=> LeasedBy(facts, n)
<1>1. 1 \in Versions /\ n \in AllVersions /\ 1 - 1 <= n /\ 1 - 1 = 0 /\ 0 \in Int /\ n \in Int /\ 0 + 1 = 1
      /\ n \in 0..n /\ 1..n \subseteq Versions
  BY RouteAssumption DEF Versions, AllVersions
<1>2. PICK f : FoldedBy(f, NoProjection, 1, n, facts)
  BY <1>1, NoProjectionType, FoldBatchRecursion
<1>3. f \in [0..n -> Projections] /\ f[0] = NoProjection
      /\ \A v \in 1..n : f[v] = FoldFact(f[v - 1], v, facts[v])
  BY <1>1, <1>2 DEF FoldedBy
<1> DEFINE S == {k \in 0..n : f[k].lease <=> LeasedBy(facts, k)}
<1>4. 0 \in S
  BY <1>1, <1>3 DEF NoProjection, LeasedBy
<1>5. ASSUME NEW k \in 1..n, k - 1 \in S
      PROVE  k \in S
  <2>1. k \in 0..n /\ k - 1 \in 0..n /\ f[k - 1] \in Projections /\ k \in Nat
    BY <1>1, <1>3
  <2>2. f[k - 1].lease <=> LeasedBy(facts, k - 1)
    BY <1>5
  <2>3. /\ \A v \in 1..k : v = k \/ v \in 1..(k - 1)
        /\ \A v \in 1..(k - 1) : v \in 1..k
        /\ \A v \in 1..(k - 1) : \A u \in v..k : u = k \/ u \in v..(k - 1)
        /\ \A v \in 1..(k - 1) : \A u \in v..(k - 1) : u \in v..k
        /\ \A v \in 1..(k - 1) : k \in v..k
        /\ \A u \in k..k : u = k
        /\ k \in k..k /\ k \in 1..k
    BY <2>1
  <2>4. CASE facts[k].kind = "ringing"
    <3>1. f[k].lease
      <4>1. f[k] = FoldFact(f[k - 1], k, facts[k])
        BY <1>3
      <4>2. FoldFact(f[k - 1], k, facts[k]).lease
        BY <2>4 DEF FoldFact
      <4> QED BY <4>1, <4>2
    <3>2. LeasedBy(facts, k)
      BY <2>3, <2>4 DEF LeasedBy
    <3> QED BY <2>1, <3>1, <3>2
  <2>5. CASE facts[k].kind # "ringing"
    <3>1. f[k].lease <=> f[k - 1].lease /\ facts[k].kind # "terminal"
      BY <1>3, <2>1, <2>5 DEF FoldFact, Projections
    <3>2. LeasedBy(facts, k) <=> LeasedBy(facts, k - 1) /\ facts[k].kind # "terminal"
      BY <2>3, <2>5 DEF LeasedBy
    <3> QED BY <2>1, <2>2, <3>1, <3>2
  <2> QED BY <2>4, <2>5
<1> HIDE DEF S
<1>6. \A k \in 0..n : k \in S
  BY <1>1, <1>4, <1>5, RangeInduction
<1>7. f[n].lease <=> LeasedBy(facts, n)
  BY <1>1, <1>6 DEF S
<1> QED BY <1>1, <1>2, <1>7 DEF FoldedBy

\* Unless a stray fact was installed as the next one, the projection is the
\* router's history up to its version: what is visible, for whom, and under
\* which lease (FoldBatch, installBatchTx and the three reconcile installs).
THEOREM ProjectionMatchesRoute == Spec => []ProjectionIsRoute
<1>1. OutboxInv /\ ProjectionInv => ProjectionIsRoute
  <2> SUFFICES ASSUME OutboxInv, ProjectionInv, ~Misled, proj.version > 0
               PROVE  /\ proj.version <= Len(route)
                      /\ proj.visible <=> route[proj.version].kind = "ringing"
                      /\ proj.visible => Ringing(proj.auth, proj.receipt) = route[proj.version]
                      /\ proj.lease <=> LeasedBy(route, proj.version)
    BY DEF ProjectionIsRoute, LeasedBy
  <2> PICK n : n = proj.version
    OBVIOUS
  <2>1. n \in Versions /\ n \in Nat /\ 1 \in Versions /\ 1 <= n /\ n \in AllVersions /\ 1 - 1 <= n
        /\ \A v \in 1..n : v \in Versions
    BY ProjectionFields, RouteAssumption DEF ProjectionInv, ProjectionType, Versions
  <2>2. \A v \in Versions : factLedger[v] # Nothing => v <= Len(route) /\ route[v] = factLedger[v]
    BY DEF Misled, Genuine, Offer
  <2>3. n <= Len(route) /\ n \in 1..Len(route) /\ n \in 0..Len(route)
    BY <2>1, <2>2 DEF ProjectionInv, LedgerEndsAtHead, OutboxInv, RouteType
  <2>4. ~Contradicted
    BY <2>2 DEF Contradicted
  <2> PICK recs : recs = Recorded
    OBVIOUS
  <2>5. \A v \in 1..n : recs[v] = route[v]
    BY <2>1, <2>2 DEF Recorded
  <2>6. FactsOn(route, 1, n) /\ route[n] \in RouteFacts
    BY <2>3, RouteFactsOn DEF OutboxInv, ProjectionInv, RouteType
  <2>7. proj = FoldBatch(NoProjection, 1, n, recs)
    BY <2>4 DEF ProjectionInv, FoldOfRecorded
  <2>8. proj = FoldBatch(NoProjection, 1, n, route)
    BY <2>1, <2>5, <2>6, <2>7, NoProjectionType, FoldBatchAgree
  <2>9. proj.lease <=> LeasedBy(route, n)
    BY <2>1, <2>6, <2>8, FoldedLease
  <2>10. PICK x \in Projections : proj = FoldFact(x, n, route[n])
    BY <2>1, <2>6, <2>8, NoProjectionType, FoldBatchUnfold
  <2>11. proj.visible <=> route[n].kind = "ringing"
    BY <2>1, <2>6, <2>10, FoldFactType
  <2>12. proj.visible => Ringing(proj.auth, proj.receipt) = route[n]
    BY <2>6, <2>10, <2>11 DEF FoldFact, Ringing, Fact, RouteFacts
  <2> QED BY <2>3, <2>9, <2>11, <2>12
<1> QED BY <1>1, ProjectionInvariance, PTL
=============================================================================
