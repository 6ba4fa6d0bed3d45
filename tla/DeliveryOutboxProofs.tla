------------------------ MODULE DeliveryOutboxProofs ------------------------
(***************************************************************************)
(* Proofs about DeliveryOutbox, for every set of authorizations, bodies    *)
(* and workers, every route version and every value of the bounds.         *)
(***************************************************************************)
EXTENDS DeliveryOutbox, TLAPS

-----------------------------------------------------------------------------
(* The values the tables, the router's history and the workers hold. *)

Receipts == 1..MaxRequests
Results == {"APPLIED", "ALREADY_APPLIED", "TERMINAL_EXPIRED"}
AcceptedRow == [body : Bodies, receipt : Receipts]
OutboxRow == [status : {"pending", "claimed", "completed"},
              claimant : Ackers \cup {Nothing},
              result : Results \cup {Nothing}]
Step == {Idle}
        \cup [at : {"call", "failed"}, auth : Authorizations]
        \cup [at : {"answered"}, auth : Authorizations, result : Results]

RouteType ==
    /\ route \in Seq(RouteFacts) /\ Len(route) >= 1
    /\ floor \in 1..Len(route)

OutboxType ==
    /\ requests \in 0..MaxRequests
    /\ accepted \in [Authorizations -> AcceptedRow \cup {Nothing}]
    /\ outbox \in [Authorizations -> OutboxRow \cup {Nothing}]
    /\ answers \subseteq Authorizations \X Bodies \X Receipts
    /\ acker \in [Ackers -> Step]
    /\ faults \in 0..MaxFaults

-----------------------------------------------------------------------------
(* The inductive invariant. *)

\* The call router can no longer ring the reservation of an authorization:
\* the route has moved past it.
Dead(a) ==
    /\ Len(route) >= RouteVersion[a]
    /\ Len(route) = RouteVersion[a] => Latest # Reserved

\* What the call router answered for an authorization was and stays true.
Truthful(a, result) ==
    /\ result = "TERMINAL_EXPIRED" => Dead(a) /\ ~Rang(a, accepted[a].receipt)
    /\ result # "TERMINAL_EXPIRED" => Rang(a, accepted[a].receipt)

\* An accepted authorization was issued at a version the route has reached,
\* and the accepted ones are those with an outbox row; a worker has one.
Issued ==
    /\ \A a \in Authorizations : accepted[a] # Nothing => RouteVersion[a] <= Len(route)
    /\ \A a \in Authorizations : outbox[a] # Nothing <=> accepted[a] # Nothing
    /\ \A k \in Ackers : acker[k] # Idle => accepted[acker[k].auth] # Nothing

\* Callers and the call router know the receipt on record.
ReceiptOnRecord ==
    /\ \A x \in answers : accepted[x[1]] = [body |-> x[2], receipt |-> x[3]]
    /\ \A v \in DOMAIN route : route[v].kind = "ringing" =>
           /\ route[v].auth \in Authorizations
           /\ accepted[route[v].auth] # Nothing
           /\ accepted[route[v].auth].receipt = route[v].receipt

\* An answer held by a worker, and one written to a completed row, is true.
AnswersTrue ==
    /\ \A k \in Ackers : acker[k].at = "answered" => Truthful(acker[k].auth, acker[k].result)
    /\ \A a \in Authorizations : outbox[a] # Nothing /\ outbox[a].status = "completed" =>
           Truthful(a, outbox[a].result)

OutboxInv == RouteType /\ OutboxType /\ Issued /\ ReceiptOnRecord /\ AnswersTrue

-----------------------------------------------------------------------------
(* The call router's history. *)

\* A history grows by one fact: a ringing one only for the reservation its
\* authorization was issued for, any other one only below the bound.
RouteStep ==
    \/ UNCHANGED route
    \/ \E f \in RouteFacts :
           /\ route' = Append(route, f)
           /\ IF f.kind = "ringing" THEN f.auth \in Authorizations /\ Acknowledgeable(f.auth)
                                    ELSE Len(route) < MaxRoute

LEMMA FactsType ==
  /\ Reserved \in RouteFacts /\ Terminal \in RouteFacts
  /\ \A a \in Authorizations, r \in Receipts :
         /\ Ringing(a, r) \in RouteFacts
         /\ Ringing(a, r).kind = "ringing" /\ Ringing(a, r).auth = a /\ Ringing(a, r).receipt = r
  /\ Reserved.kind = "reserved" /\ Terminal.kind = "terminal"
BY DEF Reserved, Terminal, Ringing, Fact, RouteFacts, Receipts

\* A fact of the history keeps its place.
LEMMA RouteGrows ==
  ASSUME RouteType, RouteStep
  PROVE  /\ route' \in Seq(RouteFacts)
         /\ Len(route') \in Nat /\ Len(route') >= Len(route) /\ Len(route) \in Nat
         /\ DOMAIN route = 1..Len(route) /\ DOMAIN route' = 1..Len(route')
         /\ \A v \in 1..Len(route) : route'[v] = route[v]
         /\ \A v \in 1..Len(route') : v \notin 1..Len(route) =>
                /\ v = Len(route) + 1
                /\ route'[v] \in RouteFacts
                /\ IF route'[v].kind = "ringing"
                   THEN route'[v].auth \in Authorizations /\ Acknowledgeable(route'[v].auth)
                   ELSE Len(route) < MaxRoute
<1>1. CASE UNCHANGED route
  BY <1>1 DEF RouteType
<1>2. ASSUME NEW f \in RouteFacts, route' = Append(route, f),
             IF f.kind = "ringing" THEN f.auth \in Authorizations /\ Acknowledgeable(f.auth)
                                   ELSE Len(route) < MaxRoute
      PROVE  /\ route' \in Seq(RouteFacts)
             /\ Len(route') = Len(route) + 1 /\ Len(route) \in Nat
             /\ DOMAIN route = 1..Len(route) /\ DOMAIN route' = 1..Len(route')
             /\ \A v \in 1..Len(route) : route'[v] = route[v]
             /\ route'[Len(route) + 1] = f
  BY <1>2 DEF RouteType
<1> QED BY <1>1, <1>2 DEF RouteStep

\* The router's own step for an acknowledgement is such a step.
LEMMA AcknowledgeStep ==
  ASSUME RouteType, NEW a \in Authorizations, NEW r \in Receipts, AcknowledgeDelivery(a, r)
  PROVE  /\ RouteStep /\ UNCHANGED floor
         /\ \A f : route' = Append(route, f) => f = Ringing(a, r)
         /\ UNCHANGED route \/ route' = Append(route, Ringing(a, r))
<1>1. UNCHANGED route \/ (route' = Append(route, Ringing(a, r)) /\ Acknowledgeable(a))
  BY DEF AcknowledgeDelivery, Disposition
<1>2. RouteStep
  BY <1>1, FactsType DEF RouteStep
<1>3. \A f : route' = Append(route, f) => f = Ringing(a, r)
  BY <1>1 DEF RouteType
<1> QED BY <1>1, <1>2, <1>3 DEF AcknowledgeDelivery

\* What the call router answered stays true, whatever it does later.
LEMMA TruthStays ==
  ASSUME OutboxInv, RouteStep, NEW a \in Authorizations, accepted[a] # Nothing,
         accepted'[a] = accepted[a], NEW result, Truthful(a, result)
  PROVE  Truthful(a, result)'
<1>1. Rang(a, accepted[a].receipt) => Rang(a, accepted[a].receipt)'
  BY RouteGrows DEF Rang, OutboxInv
<1>2. Dead(a) => Dead(a)'
  BY RouteGrows, RouteAssumption DEF Dead, OutboxInv, Latest
<1>3. Dead(a) /\ ~Rang(a, accepted[a].receipt) => ~Rang(a, accepted[a].receipt)'
  <2> SUFFICES ASSUME Dead(a), ~Rang(a, accepted[a].receipt),
                      NEW v \in DOMAIN route', route'[v] = Ringing(a, accepted'[a].receipt)
               PROVE  FALSE
    BY DEF Rang
  <2>1. v \in 1..Len(route')
    BY RouteGrows DEF OutboxInv
  <2>2. CASE v \in 1..Len(route)
    BY <2>2, RouteGrows DEF OutboxInv, Rang
  <2>3. CASE v \notin 1..Len(route)
    <3>1. route'[v].kind = "ringing" /\ route'[v].auth = a
      BY DEF Ringing, Fact
    <3>2. Acknowledgeable(a)
      BY <2>1, <2>3, <3>1, RouteGrows DEF OutboxInv
    <3> QED BY <3>2 DEF Acknowledgeable, Dead
  <2> QED BY <2>2, <2>3
<1> QED BY <1>1, <1>2, <1>3 DEF Truthful

-----------------------------------------------------------------------------
(* One lemma for each action. *)

LEMMA Rows ==
  /\ Nothing \notin AcceptedRow /\ Nothing \notin OutboxRow /\ Nothing \notin Authorizations
  /\ \A a \in Authorizations : [at |-> "call", auth |-> a] # Idle
BY OutboxAssumption, RouteAssumption DEF AcceptedRow, OutboxRow, Receipts, Results, Idle

LEMMA AcceptInv ==
  ASSUME OutboxInv, NEW a \in Authorizations, NEW body \in Bodies, AcceptDelivery(a, body)
  PROVE  OutboxInv'
<1> DEFINE receipt == requests + 1
           row == [body |-> body, receipt |-> receipt]
           ack == [status |-> "pending", claimant |-> Nothing, result |-> Nothing]
<1>1. /\ receipt \in Receipts /\ row \in AcceptedRow /\ ack \in OutboxRow
      /\ requests' = receipt /\ UNCHANGED <<route, floor, acker>> /\ RouteVersion[a] <= Len(route)
  BY OutboxAssumption DEF AcceptDelivery, OutboxInv, OutboxType, Receipts, AcceptedRow, OutboxRow, routeVars
<1> RouteStep
  BY <1>1 DEF RouteStep
<1>2. RouteType'
  BY <1>1 DEF OutboxInv, RouteType
<1>3. ASSUME NEW answer \in Authorizations \X Bodies \X Receipts, Reply(answer)
      PROVE  /\ answers' \subseteq answers \cup {answer}
             /\ answers' \subseteq Authorizations \X Bodies \X Receipts
             /\ faults' \in 0..MaxFaults
  BY <1>3, OutboxAssumption DEF Reply, Fault, OutboxInv, OutboxType
<1>4. CASE /\ accepted[a] = Nothing
           /\ accepted' = [accepted EXCEPT ![a] = row]
           /\ outbox' = [outbox EXCEPT ![a] = ack]
           /\ Reply(<<a, body, receipt>>)
  <2>1. /\ <<a, body, receipt>> \in Authorizations \X Bodies \X Receipts
        /\ answers' \subseteq answers \cup {<<a, body, receipt>>}
    BY <1>1, <1>3, <1>4
  <2>2. OutboxType'
    BY <1>1, <1>3, <1>4, <2>1 DEF OutboxInv, OutboxType, Receipts
  <2>3. Issued'
    BY <1>1, <1>4, Rows DEF OutboxInv, OutboxType, Issued, Step
  <2>4. ReceiptOnRecord'
    <3>1. ASSUME NEW x \in answers
          PROVE  x[1] \in Authorizations /\ x[1] # a
      <4>1. x[1] \in Authorizations /\ x[2] \in Bodies /\ x[3] \in Receipts
        BY DEF OutboxInv, OutboxType
      <4>2. [body |-> x[2], receipt |-> x[3]] \in AcceptedRow
        BY <4>1 DEF AcceptedRow
      <4>3. accepted[x[1]] \in AcceptedRow
        BY <4>2 DEF OutboxInv, ReceiptOnRecord
      <4> QED BY <1>4, <4>1, <4>3, Rows
    <3>2. ASSUME NEW x \in answers'
          PROVE  accepted'[x[1]] = [body |-> x[2], receipt |-> x[3]]
      <4>1. CASE x \in answers
        BY <1>4, <3>1, <4>1 DEF OutboxInv, OutboxType, ReceiptOnRecord
      <4>2. CASE x = <<a, body, receipt>>
        BY <1>4, <4>2 DEF OutboxInv, OutboxType
      <4> QED BY <2>1, <4>1, <4>2
    <3>3. \A v \in DOMAIN route : route[v].kind = "ringing" => route[v].auth # a
      BY <1>4 DEF OutboxInv, ReceiptOnRecord
    <3> QED BY <1>1, <1>4, <3>2, <3>3 DEF OutboxInv, OutboxType, ReceiptOnRecord
  <2>5. AnswersTrue'
    <3>1. \A b \in Authorizations : \A result : accepted[b] # Nothing /\ Truthful(b, result) => Truthful(b, result)'
      BY <1>4, TruthStays DEF OutboxInv, OutboxType
    <3>2. \A k \in Ackers : acker[k].at = "answered" =>
             acker[k].auth \in Authorizations /\ accepted[acker[k].auth] # Nothing
      BY DEF OutboxInv, OutboxType, Issued, Step, Idle
    <3>3. \A b \in Authorizations : outbox'[b] # Nothing /\ outbox'[b].status = "completed" =>
             outbox'[b] = outbox[b] /\ accepted[b] # Nothing
      BY <1>4 DEF OutboxInv, OutboxType, Issued
    <3> QED BY <1>1, <3>1, <3>2, <3>3 DEF OutboxInv, AnswersTrue
  <2> QED BY <1>2, <2>2, <2>3, <2>4, <2>5 DEF OutboxInv
<1>5. CASE /\ accepted[a] # Nothing
           /\ \/ accepted[a].body = body /\ Reply(<<a, body, accepted[a].receipt>>)
              \/ UNCHANGED <<answers, faults>>
           /\ UNCHANGED <<accepted, outbox>>
  <2>1. /\ answers' \subseteq answers \cup {<<a, accepted[a].body, accepted[a].receipt>>}
        /\ answers' \subseteq Authorizations \X Bodies \X Receipts
        /\ faults' \in 0..MaxFaults
    <3>1. accepted[a] \in AcceptedRow
      BY <1>5 DEF OutboxInv, OutboxType
    <3>2. <<a, body, accepted[a].receipt>> \in Authorizations \X Bodies \X Receipts
      BY <3>1 DEF AcceptedRow
    <3> QED BY <1>3, <1>5, <3>2 DEF OutboxInv, OutboxType
  <2>2. OutboxType'
    BY <1>1, <1>5, <2>1 DEF OutboxInv, OutboxType, Receipts
  <2>3. Issued'
    BY <1>1, <1>5 DEF OutboxInv, Issued
  <2>4. ReceiptOnRecord'
    <3>1. accepted[a] \in AcceptedRow
      BY <1>5 DEF OutboxInv, OutboxType
    <3>2. accepted[a] = [body |-> accepted[a].body, receipt |-> accepted[a].receipt]
      BY <3>1 DEF AcceptedRow
    <3> QED BY <1>1, <1>5, <2>1, <3>2 DEF OutboxInv, ReceiptOnRecord
  <2>5. AnswersTrue'
    BY <1>1, <1>5 DEF OutboxInv, AnswersTrue, Truthful, Dead, Rang, Latest
  <2> QED BY <1>2, <2>2, <2>3, <2>4, <2>5 DEF OutboxInv
<1> QED BY <1>4, <1>5 DEF AcceptDelivery

\* A worker's step at the tables: rows and workers change, the acceptances
\* and the route do not.
LEMMA WorkerStep ==
  ASSUME OutboxInv, OutboxType', UNCHANGED <<requests, accepted, answers, route, floor>>,
         \A k \in Ackers : acker'[k] # Idle =>
             /\ accepted[acker'[k].auth] # Nothing
             /\ acker'[k].at = "answered" => acker'[k] = acker[k],
         \A a \in Authorizations :
             /\ outbox'[a] # Nothing <=> outbox[a] # Nothing
             /\ outbox'[a].status = "completed" =>
                    \/ outbox'[a].result = outbox[a].result /\ outbox[a].status = "completed"
                    \/ \E k \in Ackers : /\ acker[k].at = "answered" /\ acker[k].auth = a
                                         /\ outbox'[a].result = acker[k].result
  PROVE  OutboxInv'
<1>1. RouteType'
  BY DEF OutboxInv, RouteType
<1>2. Issued'
  BY DEF OutboxInv, Issued
<1>3. ReceiptOnRecord'
  BY DEF OutboxInv, ReceiptOnRecord
<1>4. \A a \in Authorizations : \A result : Truthful(a, result) => Truthful(a, result)'
  BY DEF Truthful, Dead, Rang, Latest
<1>5. \A k \in Ackers : acker'[k].at = "answered" => acker'[k] = acker[k] /\ acker'[k].auth \in Authorizations
  BY DEF OutboxType, Step, Idle
<1>6. AnswersTrue'
  BY <1>4, <1>5 DEF OutboxInv, AnswersTrue
<1> QED BY <1>1, <1>2, <1>3, <1>6 DEF OutboxInv

LEMMA ClaimInv ==
  ASSUME OutboxInv, NEW k \in Ackers, NEW a \in Authorizations, Claim(k, a)
  PROVE  OutboxInv'
<1> DEFINE step == [at |-> "call", auth |-> a]
<1>1. /\ outbox[a] # Nothing /\ outbox[a] \in OutboxRow /\ outbox[a].status # "completed"
      /\ accepted[a] # Nothing
      /\ faults' \in 0..MaxFaults
  BY OutboxAssumption DEF Claim, Claimable, Fault, OutboxInv, OutboxType, Issued
<1>2. /\ step \in Step /\ step.at = "call" /\ step.auth = a
      /\ acker' = [acker EXCEPT ![k] = step]
      /\ UNCHANGED <<requests, accepted, answers, route, floor>>
  BY DEF Claim, Step, routeVars
<1> HIDE DEF step
<1>3. /\ outbox' = [outbox EXCEPT ![a] = [outbox[a] EXCEPT !.status = "claimed", !.claimant = k]]
      /\ [outbox[a] EXCEPT !.status = "claimed", !.claimant = k] \in OutboxRow
      /\ [outbox[a] EXCEPT !.status = "claimed", !.claimant = k].status = "claimed"
  BY <1>1 DEF Claim, OutboxRow, OutboxInv, OutboxType
<1>4. OutboxType'
  BY <1>1, <1>2, <1>3 DEF OutboxInv, OutboxType
<1>5. \A j \in Ackers : acker'[j] # Idle =>
             /\ accepted[acker'[j].auth] # Nothing
             /\ acker'[j].at = "answered" => acker'[j] = acker[j]
  BY <1>1, <1>2 DEF OutboxInv, OutboxType, Issued
<1>6. \A b \in Authorizations :
             /\ outbox'[b] # Nothing <=> outbox[b] # Nothing
             /\ outbox'[b].status = "completed" => outbox'[b] = outbox[b]
  BY <1>1, <1>3, Rows DEF OutboxInv, OutboxType
<1> QED BY <1>2, <1>4, <1>5, <1>6, WorkerStep

LEMMA CompleteInv ==
  ASSUME OutboxInv, NEW k \in Ackers, Complete(k)
  PROVE  OutboxInv'
<1> DEFINE a == acker[k].auth
           row == [status |-> "completed", claimant |-> Nothing, result |-> acker[k].result]
<1>1. acker[k].at = "answered" /\ acker[k].auth \in Authorizations /\ acker[k].result \in Results
  BY DEF Complete, OutboxInv, OutboxType, Step, Idle
<1>2. /\ acker' = [acker EXCEPT ![k] = Idle] /\ Idle \in Step /\ row \in OutboxRow
      /\ UNCHANGED <<requests, accepted, answers, faults, route, floor>>
  BY <1>1 DEF Complete, Step, OutboxRow, routeVars
<1>3. outbox' = outbox \/ (Fenced(k) /\ outbox' = [outbox EXCEPT ![a] = row])
  BY DEF Complete
<1>4. outbox[a] # Nothing /\ accepted[a] # Nothing
  BY <1>1 DEF OutboxInv, Issued, Idle
<1>5. OutboxType'
  BY <1>1, <1>2, <1>3 DEF OutboxInv, OutboxType
<1>6. \A j \in Ackers : acker'[j] # Idle => acker'[j] = acker[j] /\ accepted[acker'[j].auth] # Nothing
  BY <1>2 DEF OutboxInv, OutboxType, Issued
<1>7. \A b \in Authorizations :
             /\ outbox'[b] # Nothing <=> outbox[b] # Nothing
             /\ outbox'[b] = outbox[b] \/ (b = a /\ outbox'[b].result = acker[k].result)
  BY <1>1, <1>2, <1>3, <1>4, Rows DEF OutboxInv, OutboxType
<1> HIDE DEF row
<1> QED BY <1>1, <1>2, <1>5, <1>6, <1>7, WorkerStep

LEMMA RetryInv ==
  ASSUME OutboxInv, NEW k \in Ackers, Retry(k)
  PROVE  OutboxInv'
<1> DEFINE a == acker[k].auth
           row == [outbox[a] EXCEPT !.status = "pending", !.claimant = Nothing]
<1>1. acker[k].at = "failed" /\ acker[k].auth \in Authorizations
  BY DEF Retry, OutboxInv, OutboxType, Step, Idle
<1>2. /\ acker' = [acker EXCEPT ![k] = Idle] /\ Idle \in Step
      /\ UNCHANGED <<requests, accepted, answers, faults, route, floor>>
  BY <1>1 DEF Retry, Step, routeVars
<1>3. outbox[a] # Nothing /\ accepted[a] # Nothing /\ outbox[a] \in OutboxRow
  BY <1>1 DEF OutboxInv, OutboxType, Issued, Idle
<1>4. /\ outbox' = outbox \/ outbox' = [outbox EXCEPT ![a] = row]
      /\ row \in OutboxRow /\ row.status = "pending"
  BY <1>1, <1>3 DEF Retry, OutboxInv, OutboxType, OutboxRow
<1> HIDE DEF row
<1>5. OutboxType'
  BY <1>1, <1>2, <1>4 DEF OutboxInv, OutboxType
<1>6. \A j \in Ackers : acker'[j] # Idle => acker'[j] = acker[j] /\ accepted[acker'[j].auth] # Nothing
  BY <1>2 DEF OutboxInv, OutboxType, Issued
<1>7. \A b \in Authorizations :
             /\ outbox'[b] # Nothing <=> outbox[b] # Nothing
             /\ outbox'[b] = outbox[b] \/ outbox'[b].status = "pending"
  BY <1>1, <1>3, <1>4, Rows DEF OutboxInv, OutboxType
<1> QED BY <1>2, <1>5, <1>6, <1>7, WorkerStep

LEMMA StopInv ==
  ASSUME OutboxInv, NEW k \in Ackers, StopAcker(k)
  PROVE  OutboxInv'
<1>1. /\ acker' = [acker EXCEPT ![k] = Idle] /\ Idle \in Step /\ faults' \in 0..MaxFaults
      /\ UNCHANGED <<requests, accepted, outbox, answers, route, floor>>
  BY OutboxAssumption DEF StopAcker, Fault, OutboxInv, OutboxType, Step, routeVars
<1>2. OutboxType'
  BY <1>1 DEF OutboxInv, OutboxType
<1>3. \A j \in Ackers : acker'[j] # Idle => acker'[j] = acker[j] /\ accepted[acker'[j].auth] # Nothing
  BY <1>1 DEF OutboxInv, OutboxType, Issued
<1> QED BY <1>1, <1>2, <1>3, WorkerStep

\* A step of the call router, on its own or at a worker's call: what a worker
\* learns from it is true.
LEMMA RouterStepInv ==
  ASSUME OutboxInv, RouteStep, OutboxType', floor' \in 1..Len(route'),
         UNCHANGED <<requests, accepted, outbox, answers>>,
         \A v \in 1..Len(route') : v \notin 1..Len(route) /\ route'[v].kind = "ringing" =>
             /\ accepted[route'[v].auth] # Nothing
             /\ accepted[route'[v].auth].receipt = route'[v].receipt,
         \A k \in Ackers : acker'[k] # Idle =>
             /\ accepted[acker'[k].auth] # Nothing
             /\ acker'[k].at = "answered" =>
                    acker'[k] = acker[k] \/ Truthful(acker[k].auth, acker[k].result)'
  PROVE  OutboxInv'
<1>1. RouteType'
  BY RouteGrows DEF OutboxInv, RouteType
<1>2. Issued'
  BY RouteGrows, RouteAssumption DEF OutboxInv, Issued
<1>3. ReceiptOnRecord'
  <2> SUFFICES ASSUME NEW v \in DOMAIN route', route'[v].kind = "ringing"
               PROVE  /\ route'[v].auth \in Authorizations
                      /\ accepted[route'[v].auth] # Nothing
                      /\ accepted[route'[v].auth].receipt = route'[v].receipt
    BY DEF OutboxInv, ReceiptOnRecord
  <2>1. v \in 1..Len(route')
    BY RouteGrows DEF OutboxInv
  <2>2. CASE v \in 1..Len(route)
    BY <2>2, RouteGrows DEF OutboxInv, ReceiptOnRecord
  <2>3. CASE v \notin 1..Len(route)
    BY <2>1, <2>3, RouteGrows DEF OutboxInv
  <2> QED BY <2>2, <2>3
<1>4. \A a \in Authorizations : \A result : accepted[a] # Nothing /\ Truthful(a, result) => Truthful(a, result)'
  BY TruthStays
<1>5. \A k \in Ackers : acker'[k].at = "answered" =>
          acker'[k] # Idle /\ acker'[k].auth \in Authorizations
  BY DEF OutboxType, Step, Idle
<1>6. AnswersTrue'
  BY <1>4, <1>5 DEF OutboxInv, AnswersTrue, Issued
<1> QED BY <1>1, <1>2, <1>3, <1>6 DEF OutboxInv

LEMMA EndInv ==
  ASSUME OutboxInv, EndRoute \/ TrimRoute, UNCHANGED outboxVars
  PROVE  OutboxInv'
<1>1. UNCHANGED <<requests, accepted, outbox, answers, acker, faults>>
  BY DEF outboxVars
<1>2. \/ UNCHANGED route /\ floor < Len(route) /\ floor' = floor + 1
      \/ /\ UNCHANGED floor /\ Len(route) < MaxRoute
         /\ \E f \in {Reserved, Terminal} : route' = Append(route, f)
  BY DEF EndRoute, TrimRoute
<1>3. RouteStep
  BY <1>2, FactsType DEF RouteStep
<1>4. floor' \in 1..Len(route')
  <2>1. Len(route) \in Nat /\ Len(route') \in Nat /\ Len(route') >= Len(route) /\ floor \in 1..Len(route)
    BY <1>3, RouteGrows DEF OutboxInv, RouteType
  <2> QED BY <1>2, <2>1
<1>5. \A v \in 1..Len(route') : v \notin 1..Len(route) => route'[v] \in {Reserved, Terminal}
  BY <1>2 DEF OutboxInv, RouteType
<1>6. OutboxType'
  BY <1>1 DEF OutboxInv, OutboxType
<1> QED BY <1>1, <1>3, <1>4, <1>5, <1>6, FactsType, RouterStepInv DEF OutboxInv, Issued

LEMMA CallInv ==
  ASSUME OutboxInv, NEW k \in Ackers, CallRouterAck(k)
  PROVE  OutboxInv'
<1>1. PICK a \in Authorizations : acker[k] = [at |-> "call", auth |-> a]
  BY DEF CallRouterAck, OutboxInv, OutboxType, Step, Idle
<1> DEFINE receipt == accepted[a].receipt
<1>2. accepted[a] # Nothing /\ receipt \in Receipts
  BY <1>1, Rows DEF OutboxInv, OutboxType, Issued, AcceptedRow
<1>3. UNCHANGED <<requests, accepted, outbox, answers>>
  BY DEF CallRouterAck
<1>4. /\ AcknowledgeDelivery(a, receipt) \/ UNCHANGED <<route, floor>>
      /\ faults' \in 0..MaxFaults
      /\ \/ acker' = [acker EXCEPT ![k] = [at |-> "failed", auth |-> a]]
         \/ /\ AcknowledgeDelivery(a, receipt)
            /\ acker' = [acker EXCEPT ![k] = [at |-> "answered", auth |-> a,
                                              result |-> Disposition(a, receipt)]]
  BY <1>1, OutboxAssumption DEF CallRouterAck, Fault, OutboxInv, OutboxType, routeVars
<1>5. RouteStep /\ UNCHANGED floor /\ (UNCHANGED route \/ route' = Append(route, Ringing(a, receipt)))
  BY <1>1, <1>2, <1>4, AcknowledgeStep DEF OutboxInv, RouteStep
<1>6. floor' \in 1..Len(route')
  <2>1. Len(route) \in Nat /\ Len(route') \in Nat /\ Len(route') >= Len(route) /\ floor \in 1..Len(route)
    BY <1>5, RouteGrows DEF OutboxInv, RouteType
  <2> QED BY <1>5, <2>1
<1>7. \A v \in 1..Len(route') : v \notin 1..Len(route) => route'[v] = Ringing(a, receipt)
  BY <1>5 DEF OutboxInv, RouteType
<1>8. OutboxType'
  <2>1. Disposition(a, receipt) \in Results
    BY DEF Disposition, Results
  <2>2. /\ [at |-> "failed", auth |-> a] \in Step
        /\ [at |-> "answered", auth |-> a, result |-> Disposition(a, receipt)] \in Step
    BY <1>1, <2>1 DEF Step
  <2> QED BY <1>3, <1>4, <2>2 DEF OutboxInv, OutboxType
<1>9. ASSUME NEW result, result = Disposition(a, receipt), AcknowledgeDelivery(a, receipt)
      PROVE  Truthful(a, result)'
  <2>1. CASE Rang(a, receipt)
    <3>1. Truthful(a, result)
      BY <1>9, <2>1 DEF Truthful, Disposition
    <3> QED BY <1>1, <1>2, <1>3, <1>5, <3>1, TruthStays
  <2>2. CASE ~Rang(a, receipt) /\ Acknowledgeable(a)
    <3>1. result = "APPLIED" /\ route' = Append(route, Ringing(a, receipt))
      BY <1>9, <2>2 DEF AcknowledgeDelivery, Disposition
    <3>2. Len(route) + 1 \in DOMAIN route' /\ route'[Len(route) + 1] = Ringing(a, receipt)
      BY <3>1 DEF OutboxInv, RouteType
    <3>3. Rang(a, accepted[a].receipt)'
      BY <1>1, <1>3, <3>2, FactsType, <1>8 DEF Rang
    <3> QED BY <3>1, <3>3 DEF Truthful
  <2>3. CASE ~Rang(a, receipt) /\ ~Acknowledgeable(a)
    <3>1. result = "TERMINAL_EXPIRED"
      BY <1>9, <2>3 DEF Disposition
    <3>2. Dead(a)
      BY <1>1, <1>2, <2>3 DEF Dead, Acknowledgeable, OutboxInv, Issued
    <3>3. Truthful(a, result)
      BY <2>3, <3>1, <3>2 DEF Truthful
    <3> QED BY <1>1, <1>2, <1>3, <1>5, <3>3, TruthStays
  <2> QED BY <2>1, <2>2, <2>3
<1>10. ASSUME NEW j \in Ackers, acker'[j] # Idle
       PROVE  /\ accepted[acker'[j].auth] # Nothing
              /\ acker'[j].at = "answered" =>
                    acker'[j] = acker[j] \/ Truthful(acker[j].auth, acker[j].result)'
  <2>1. CASE j # k
    BY <1>4, <1>10, <2>1 DEF OutboxInv, OutboxType, Issued
  <2>2. CASE j = k
    BY <1>1, <1>2, <1>4, <1>9, <2>2 DEF OutboxInv, OutboxType
  <2> QED BY <2>1, <2>2
<1>11. \A v \in 1..Len(route') : v \notin 1..Len(route) /\ route'[v].kind = "ringing" =>
             /\ accepted[route'[v].auth] # Nothing
             /\ accepted[route'[v].auth].receipt = route'[v].receipt
  BY <1>1, <1>2, <1>7, FactsType
<1> QED BY <1>3, <1>5, <1>6, <1>8, <1>10, <1>11, RouterStepInv

-----------------------------------------------------------------------------
(* The theorems. *)

LEMMA OutboxInitial == DeliveryInit => OutboxInv
<1> SUFFICES ASSUME DeliveryInit PROVE OutboxInv
  OBVIOUS
<1>1. /\ route = <<Reserved>> /\ floor = 1 /\ requests = 0 /\ answers = {} /\ faults = 0
      /\ accepted = [a \in Authorizations |-> Nothing] /\ outbox = [a \in Authorizations |-> Nothing]
      /\ acker = [k \in Ackers |-> Idle]
  BY DEF DeliveryInit, RouteInit, OutboxInit
<1>2. RouteType
  BY <1>1, FactsType DEF RouteType
<1>3. OutboxType
  BY <1>1, OutboxAssumption DEF OutboxType, Step
<1>4. Issued
  BY <1>1 DEF Issued
<1>5. ReceiptOnRecord
  BY <1>1, FactsType DEF ReceiptOnRecord
<1>6. AnswersTrue
  BY <1>1 DEF AnswersTrue, Idle
<1> QED BY <1>2, <1>3, <1>4, <1>5, <1>6 DEF OutboxInv

LEMMA OutboxStep == OutboxInv /\ [OutboxNext]_allVars => OutboxInv'
<1> SUFFICES ASSUME OutboxInv, [OutboxNext]_allVars PROVE OutboxInv'
  OBVIOUS
<1>1. CASE OutboxNext
  BY <1>1, AcceptInv, ClaimInv, CallInv, CompleteInv, RetryInv, StopInv, EndInv
     DEF OutboxNext, ProcessOne
<1>2. CASE UNCHANGED allVars
  BY <1>2 DEF allVars, routeVars, outboxVars, OutboxInv, RouteType, OutboxType, Issued,
              ReceiptOnRecord, AnswersTrue, Truthful, Dead, Rang, Latest
<1> QED BY <1>1, <1>2

LEMMA OutboxRouteStep ==
  ASSUME OutboxInv, OutboxNext
  PROVE  RouteStep
<1>1. ASSUME NEW k \in Ackers, CallRouterAck(k)
      PROVE  RouteStep
  <2>1. /\ acker[k].auth \in Authorizations
        /\ accepted[acker[k].auth] # Nothing /\ accepted[acker[k].auth].receipt \in Receipts
    BY <1>1, Rows DEF CallRouterAck, OutboxInv, OutboxType, Issued, AcceptedRow, Step, Idle
  <2> QED BY <1>1, <2>1, AcknowledgeStep DEF CallRouterAck, OutboxInv, RouteStep, routeVars
<1>2. ASSUME EndRoute \/ TrimRoute
      PROVE  RouteStep
  BY <1>2, FactsType DEF EndRoute, TrimRoute, RouteStep
<1> QED BY <1>1, <1>2 DEF OutboxNext, ProcessOne, AcceptDelivery, Claim, Complete, Retry, StopAcker,
                          routeVars, RouteStep

\* Callers are given, and the call router rings with, the receipt on record;
\* a worker's answer and a completed row are true of the call router.
THEOREM OutboxInvariance == OutboxSpec => []OutboxInv
BY OutboxInitial, OutboxStep, PTL DEF OutboxSpec

\* Every caller of an accepted authorization is given one receipt, and the
\* call router rings with no other, whatever replies are lost and however
\* often callers and workers try again (Store.Append, AckWorker).
THEOREM ReceiptIsOne == OutboxSpec => []OneReceipt
<1>1. OutboxInv => OneReceipt
  <2> SUFFICES ASSUME OutboxInv PROVE OneReceipt
    OBVIOUS
  <2>1. ASSUME NEW x \in answers, NEW y \in answers, x[1] = y[1]
        PROVE  x = y
    <3>1. [body |-> x[2], receipt |-> x[3]] = [body |-> y[2], receipt |-> y[3]]
      BY <2>1 DEF OutboxInv, ReceiptOnRecord
    <3>2. x[2] = y[2] /\ x[3] = y[3]
      BY <3>1
    <3> QED BY <2>1, <3>2 DEF OutboxInv, OutboxType
  <2> QED BY <2>1 DEF OutboxInv, OneReceipt, ReceiptOnRecord
<1> QED BY <1>1, OutboxInvariance, PTL

\* A completed outbox row tells what happened at the call router, although
\* workers stop, calls fail after they took effect and claims run out under
\* their owners (AckWorker.ProcessOne, Store.Complete).
THEOREM CompletionIsTrue == OutboxSpec => []CompletedTruly
<1>1. OutboxInv => CompletedTruly
  BY DEF OutboxInv, AnswersTrue, Truthful, CompletedTruly
<1> QED BY <1>1, OutboxInvariance, PTL

Permanent ==
    \A a \in Authorizations :
        /\ accepted[a] # Nothing => accepted'[a] = accepted[a]
        /\ outbox[a] # Nothing /\ outbox[a].status = "completed" => outbox'[a] = outbox[a]

LEMMA PermanentStep ==
  ASSUME OutboxInv, OutboxNext
  PROVE  Permanent
<1> USE DEF Permanent
<1>1. ASSUME NEW a \in Authorizations, NEW body \in Bodies, AcceptDelivery(a, body)
      PROVE  Permanent
  BY <1>1 DEF AcceptDelivery, OutboxInv, OutboxType, Issued
<1>2. ASSUME NEW k \in Ackers, NEW a \in Authorizations, Claim(k, a)
      PROVE  Permanent
  BY <1>2 DEF Claim, Claimable, OutboxInv, OutboxType
<1>3. ASSUME NEW k \in Ackers, CallRouterAck(k) \/ StopAcker(k)
      PROVE  Permanent
  BY <1>3 DEF CallRouterAck, StopAcker
<1>4. ASSUME NEW k \in Ackers, Complete(k) \/ Retry(k)
      PROVE  Permanent
  <2>1. acker[k].auth \in Authorizations /\ UNCHANGED accepted
    BY <1>4 DEF Complete, Retry, OutboxInv, OutboxType, Step, Idle
  <2>2. CASE Fenced(k)
    <3>1. outbox[acker[k].auth].status # "completed"
      BY <2>2 DEF Fenced
    <3> QED BY <1>4, <2>1, <3>1 DEF Complete, Retry, OutboxInv, OutboxType
  <2>3. CASE ~Fenced(k)
    BY <1>4, <2>1, <2>3 DEF Complete, Retry
  <2> QED BY <2>2, <2>3
<1>5. CASE UNCHANGED outboxVars
  BY <1>5 DEF outboxVars
<1> QED BY <1>1, <1>2, <1>3, <1>4, <1>5 DEF OutboxNext, ProcessOne

\* An acceptance is never changed and a completed row is never opened or
\* completed again by a worker that comes late (the claim fence of
\* Store.Complete and Store.Retry).
THEOREM AcceptanceIsPermanent == OutboxSpec => AcceptedIsPermanent
<1>1. OutboxInv /\ [OutboxNext]_allVars => [Permanent]_allVars
  BY PermanentStep
<1> QED BY <1>1, OutboxInvariance, PTL DEF OutboxSpec, AcceptedIsPermanent, Permanent
=============================================================================
