----------------------------- MODULE ClientProofs ------------------------------
(***************************************************************************)
(* Proofs about ClientSession: the order of what a consumer receives, the  *)
(* end of its stream, the recovery of a gap and the connection of a closed *)
(* client, for every length of the log and every number of losses.         *)
(***************************************************************************)
EXTENDS ClientSession, InductionTheorems, SequenceTheorems

-----------------------------------------------------------------------------
(* The inductive invariant. *)

PassAt == {"open", "replay", "cut", "broken", "wait"}
Passes == [at : PassAt, attempt : 0..(MaxPasses - 1), need : BOOLEAN, next : Nat, head : Nat]
Attempts == [how : {"connect", "reconnect"}, at : {"token", "connect", "backoff"},
             auth : 0..(MaxAuth - 1), tries : 0..(MaxConnects - 1)]

\* Nothing is applied, held or on its way that is not in the log.
LogOK ==
    /\ log \in Nat /\ log <= MaxLog /\ applied \in Nat /\ applied <= log
    /\ pending \subseteq 1..log /\ live \in Seq(1..log)

\* A pause is followed by another pass of the backoff table.
PassOK ==
    /\ pass \in Passes \cup {None}
    /\ pass # None => /\ pass.next >= 1 /\ pass.next <= log + 1
                      /\ pass.at = "wait" => pass.attempt + 1 < MaxPasses

\* The facts up to applied are with the consumer or in the mailbox, in order.
Received ==
    /\ got \in Seq(Nat) /\ queue \in Seq(Nat) /\ applied \in Nat
    /\ Len(got) + Len(queue) = applied
    /\ \A i \in 1..Len(got) : got[i] = i
    /\ \A i \in 1..Len(queue) : queue[i] = Len(got) + i

\* A consumer waits only on an empty open mailbox; one that was told the end has
\* read everything, and nothing more is delivered.
MailboxOK ==
    /\ reader \in {"waiting", "ended"} => queue = <<>>
    /\ reader = "waiting" => done = "open"
    /\ reader = "ended" => done # "open"
    /\ done # "open" => closed \/ state = "failed"

\* A recovery runs exactly while there is a pass, and only a closed handle is
\* left in between.
RecoveryOK ==
    /\ recovering <=> pass # None
    /\ recovering => state \in {"replaying", "degraded"}
    /\ ~recovering /\ ~closed => state \in {"live", "failed"}
    /\ state = "live" => pending = {}
    /\ state \in {"live", "replaying", "degraded", "failed"}

\* A closed client has no connection, and a subscription one that is up.
SessionOK ==
    /\ conn \in {"never", "up", "lost", "down"}
    /\ client \in {"disconnected", "connecting", "connected", "reconnecting", "closed", "failed"}
    /\ est \in Attempts \cup {None}
    /\ ended => conn # "up"
    /\ sub => conn = "up" /\ opened /\ ~closed

ClientInv == LogOK /\ PassOK /\ Received /\ MailboxOK /\ RecoveryOK /\ SessionOK

-----------------------------------------------------------------------------
(* The mailbox. *)

\* A pass is not None, so that a recovery can be told from none.
LEMMA PassIsNotNone == \A p \in Passes : p # None
<1> SUFFICES ASSUME NEW p \in Passes PROVE p # None
  OBVIOUS
<1>1. p \in [at : PassAt, attempt : Nat, need : BOOLEAN, next : Nat, head : Nat]
  BY DeliveryAssumption DEF Passes
<1> QED BY <1>1, DeliveryAssumption DEF PassAt

\* What the loop of drainContiguous reaches: the longest run of held facts.
LEMMA ReachIsMaximal ==
  ASSUME LogOK, NEW held \in SUBSET (1..log)
  PROVE  /\ Reach(held) \in Nat /\ applied <= Reach(held) /\ Reach(held) <= log
         /\ \A f \in (applied + 1)..Reach(held) : f \in held
         /\ Reach(held) + 1 \notin held
<1> DEFINE Stops(n) == /\ \A f \in (applied + 1)..n : f \in held
                       /\ n + 1 \notin held
<1> DEFINE S == {n \in applied..MaxLog : n + 1 \notin held}
<1>1. log \in Nat /\ log <= MaxLog /\ applied \in Nat /\ applied <= log /\ MaxLog \in Nat
  BY DeliveryAssumption DEF LogOK
<1>2. log \in S /\ S \subseteq Nat
  BY <1>1
<1>3. PICK n \in S : \A k \in S : n <= k
  BY <1>2, LeastElement
<1>4. ASSUME NEW f \in (applied + 1)..n PROVE f \in held
  <2>1. f - 1 \in applied..MaxLog /\ ~(n <= f - 1) /\ (f - 1) + 1 = f
    BY <1>1, <1>3
  <2> QED BY <1>3, <2>1
<1>5. n \in applied..MaxLog /\ Stops(n)
  BY <1>3, <1>4
<1> PICK r : r = Reach(held)
  OBVIOUS
<1>6. r \in applied..MaxLog /\ Stops(r)
  BY <1>5 DEF Reach
<1>7. r <= log
  BY <1>1, <1>6
<1> QED BY <1>1, <1>6, <1>7

\* The d facts after a.
Following(items, a, d) ==
  items \in Seq(Nat) /\ Len(items) = d /\ \A k \in 1..d : items[k] = a + k

\* Pushing the facts after the last one keeps the order; a consumer that waits
\* takes the first of them.
LEMMA PushInOrder ==
  ASSUME Received, MailboxOK, NEW d \in Nat, applied' = applied + d, reader # "ended",
         done = "open", UNCHANGED done, NEW items, Following(items, applied, d), Push(items)
  PROVE  /\ Received'
         /\ reader' \in {"waiting", "ended"} => queue' = <<>>
         /\ reader' = "waiting" => done' = "open"
         /\ reader' # "ended"
<1>0. d \in Nat /\ applied \in Nat /\ applied' = applied + d
  BY DEF Received
<1>1. items \in Seq(Nat) /\ Len(items) = d /\ \A k \in 1..d : items[k] = applied + k
  BY DEF Following
<1>p. Push(items) /\ done = "open"
  OBVIOUS
<1>2. CASE reader = "waiting" /\ items # <<>>
  <2>1. /\ got' = Append(got, Head(items)) /\ reader' = "reading" /\ queue' = queue \o Tail(items)
    BY <1>2, <1>p DEF Push
  <2>7. queue = <<>> /\ Len(got) = applied
    BY <1>2 DEF MailboxOK, Received
  <2>2. Head(items) = applied + 1 /\ Head(items) \in Nat /\ d >= 1
    BY <1>0, <1>1, <1>2
  <2>3. /\ got' \in Seq(Nat) /\ Len(got') = applied + 1
        /\ \A i \in 1..Len(got') : got'[i] = i
    BY <1>0, <2>1, <2>2, <2>7 DEF Received
  <2> PICK rest : rest = Tail(items)
    OBVIOUS
  <2>4. rest \in Seq(Nat) /\ Len(rest) = d - 1
    BY <1>1, <1>2, HeadTailProperties
  <2>8. ASSUME NEW i \in 1..(d - 1) PROVE rest[i] = applied + 1 + i
    <3>1. i + 1 \in 1..d
      BY <1>0, <2>2
    <3>2. rest[i] = items[i + 1]
      BY <1>0, <1>1, <1>2, <2>2
    <3> QED BY <1>0, <1>1, <3>1, <3>2
  <2>5. queue' = rest
    BY <2>1, <2>4, <2>7
  <2>6. Received'
    <3>1. Len(got') + Len(queue') = applied'
      <4>1. Len(got') = applied + 1 /\ Len(queue') = d - 1
        BY <2>3, <2>4, <2>5
      <4>2. (applied + 1) + (d - 1) = applied'
        BY <1>0
      <4> QED BY <4>1, <4>2
    <3>2. \A i \in 1..Len(queue') : queue'[i] = Len(got') + i
      BY <1>0, <2>3, <2>4, <2>5, <2>8
    <3> QED BY <2>3, <2>4, <2>5, <3>1, <3>2 DEF Received
  <2> QED BY <2>1, <2>6
<1>3. CASE ~(reader = "waiting" /\ items # <<>>)
  <2> PICK q : q = Len(queue)
    OBVIOUS
  <2>6. /\ q \in Nat /\ queue \in Seq(Nat) /\ Len(got) \in Nat /\ Len(got) + q = applied
        /\ \A i \in 1..q : queue[i] = Len(got) + i
    BY DEF Received
  <2>1. queue' = queue \o items /\ got' = got /\ reader' = reader
    <3>1. CASE items = <<>>
      <4>1. queue \o items = queue
        BY <2>6, <3>1, ConcatEmptySeq
      <4> QED BY <1>p, <3>1, <4>1 DEF Push
    <3>2. CASE items # <<>>
      BY <1>3, <1>p, <3>2 DEF Push
    <3> QED BY <3>1, <3>2
  <2>2. /\ queue' \in Seq(Nat) /\ Len(queue') = q + d
        /\ \A i \in 1..(q + d) : queue'[i] = IF i <= q THEN queue[i] ELSE items[i - q]
    <3>1. /\ queue \o items \in Seq(Nat) /\ Len(queue \o items) = Len(queue) + Len(items)
          /\ \A i \in 1..(Len(queue) + Len(items)) :
               (queue \o items)[i] = IF i <= Len(queue) THEN queue[i] ELSE items[i - Len(queue)]
      BY <1>1, <2>6, ConcatProperties
    <3> QED BY <1>1, <2>1, <3>1
  <2>3. ASSUME NEW i \in 1..(q + d) PROVE queue'[i] = Len(got) + i
    <3>1. CASE i <= q
      <4>1. i \in 1..q
        BY <1>0, <2>6, <3>1
      <4>2. queue'[i] = queue[i]
        BY <2>2, <3>1
      <4> QED BY <2>6, <4>1, <4>2
    <3>2. CASE ~(i <= q)
      <4>1. i - q \in 1..d
        BY <1>0, <2>6, <3>2
      <4>2. queue'[i] = items[i - q]
        BY <1>0, <2>2, <2>6, <3>2
      <4>3. items[i - q] = applied + (i - q)
        BY <1>1, <4>1
      <4>4. applied + (i - q) = Len(got) + i
        BY <1>0, <2>6
      <4> QED BY <4>2, <4>3, <4>4
    <3> QED BY <3>1, <3>2
  <2>4. Received'
    <3> PICK g : g = Len(got)
      OBVIOUS
    <3>3. Len(got') = g /\ g \in Nat /\ g + q = applied
      BY <2>1, <2>6
    <3>5. q \in Nat
      BY <2>6
    <3>4. g + (q + d) = applied'
      BY <1>0, <3>3, <3>5
    <3>1. Len(got') + Len(queue') = applied' /\ applied' \in Nat
      BY <1>0, <2>2, <3>3, <3>4
    <3>2. /\ \A i \in 1..Len(queue') : queue'[i] = Len(got') + i
          /\ \A i \in 1..Len(got') : got'[i] = i
          /\ got' \in Seq(Nat)
      BY <2>1, <2>2, <2>3 DEF Received
    <3> QED BY <2>2, <3>1, <3>2 DEF Received
  <2>5. reader = "waiting" => queue' = <<>>
    <3> SUFFICES ASSUME reader = "waiting" PROVE queue' = <<>>
      OBVIOUS
    <3>1. items = <<>> /\ queue = <<>>
      BY <1>3 DEF MailboxOK
    <3> QED BY <2>1, <3>1
  <2> QED BY <2>1, <2>4, <2>5 DEF MailboxOK
<1> QED BY <1>2, <1>3

\* drainContiguous keeps the order and stays within the log.
LEMMA DrainInOrder ==
  ASSUME LogOK, Received, MailboxOK, done = "open", NEW held \in SUBSET (1..log), Drain(held)
  PROVE  /\ Received'
         /\ reader' \in {"waiting", "ended"} => queue' = <<>>
         /\ reader' = "waiting" => done' = "open"
         /\ reader' # "ended" /\ done' = "open"
         /\ applied' \in Nat /\ applied' <= log /\ pending' \subseteq 1..log
<1> PICK n : n = Reach(held)
  OBVIOUS
<1>1. n \in Nat /\ applied <= n /\ n <= log
  BY ReachIsMaximal
<1>2. /\ applied' = n /\ pending' = {f \in held : f > n}
      /\ Push([k \in 1..(n - applied) |-> applied + k]) /\ UNCHANGED done
  BY DEF Drain
<1>3. reader # "ended"
  BY DEF MailboxOK
<1>4. n - applied \in Nat /\ applied \in Nat /\ applied + (n - applied) = n
  BY <1>1 DEF Received
<1> PICK items : items = [k \in 1..(n - applied) |-> applied + k]
  OBVIOUS
<1>5. Following(items, applied, n - applied)
  BY <1>4 DEF Following
<1>6. /\ Received'
      /\ reader' \in {"waiting", "ended"} => queue' = <<>>
      /\ reader' = "waiting" => done' = "open"
      /\ reader' # "ended"
  BY <1>2, <1>3, <1>4, <1>5, PushInOrder
<1> QED BY <1>1, <1>2, <1>6

\* The end reaches a consumer that waits, on a mailbox it has emptied.
LEMMA EndKeepsMailbox ==
  ASSUME Received, MailboxOK, NEW how \in {"closed", "failed"}, End(how), applied' = applied,
         closed' \/ state' = "failed"
  PROVE  Received' /\ MailboxOK'
<1>1. Received'
  BY DEF End, Received
<1>2. MailboxOK'
  BY DEF End, MailboxOK
<1> QED BY <1>1, <1>2

\* A step that leaves the mailbox alone.
LEMMA MailboxUntouched ==
  ASSUME Received, MailboxOK, UNCHANGED <<applied, queue, done, reader, got>>,
         closed => closed', state = "failed" => state' = "failed"
  PROVE  Received' /\ MailboxOK'
<1>1. Received'
  BY DEF Received
<1>2. MailboxOK'
  BY DEF MailboxOK
<1> QED BY <1>1, <1>2

-----------------------------------------------------------------------------
(* The steps of the connection, which leave the delivery alone. *)

\* A step of the session only.
LEMMA DeliveryUntouched ==
  ASSUME ClientInv, UNCHANGED deliveryVars, live' \in Seq(1..log), SessionOK'
  PROVE  ClientInv'
<1>1. LogOK' /\ PassOK'
  BY DEF ClientInv, LogOK, PassOK, deliveryVars
<1>2. Received' /\ MailboxOK'
  BY MailboxUntouched DEF ClientInv, deliveryVars
<1>3. RecoveryOK'
  BY DEF ClientInv, RecoveryOK, deliveryVars
<1> QED BY <1>1, <1>2, <1>3 DEF ClientInv

\* An attempt that is under way has its counters below the backoff tables.
LEMMA AttemptFacts ==
  ASSUME SessionOK, est # None
  PROVE  /\ est \in Attempts /\ est.auth \in Nat /\ est.tries \in Nat
         /\ est.auth < MaxAuth /\ est.tries < MaxConnects
         /\ est.how \in {"connect", "reconnect"}
         /\ \A a \in {"token", "connect", "backoff"} : [est EXCEPT !.at = a] \in Attempts
<1>1. est \in Attempts
  BY DEF SessionOK
<1>2. est.auth \in 0..(MaxAuth - 1) /\ est.tries \in 0..(MaxConnects - 1)
      /\ est.how \in {"connect", "reconnect"}
  BY <1>1 DEF Attempts
<1>3. \A a \in {"token", "connect", "backoff"} : [est EXCEPT !.at = a] \in Attempts
  BY <1>1 DEF Attempts
<1> QED BY <1>1, <1>2, <1>3, SessionAssumption

\* A fresh attempt starts both counters at zero.
LEMMA AttemptType == \A how \in {"connect", "reconnect"} : Attempt(how) \in Attempts
<1>1. 0 \in 0..(MaxAuth - 1) /\ 0 \in 0..(MaxConnects - 1)
  BY SessionAssumption
<1> QED BY <1>1 DEF Attempt, Attempts

LEMMA ConnectInv == ASSUME ClientInv, Connect PROVE ClientInv'
<1>1. /\ UNCHANGED deliveryVars /\ live' = live /\ est' = Attempt("connect") /\ client' = "connecting"
      /\ UNCHANGED <<conn, ended, opened, sub>> /\ closed' = closed /\ log' = log
  BY DEF Connect, deliveryVars
<1>2. SessionOK'
  BY <1>1, AttemptType DEF ClientInv, SessionOK
<1> QED BY <1>1, <1>2, DeliveryUntouched DEF ClientInv, LogOK

LEMMA FinalStatusInv == ASSUME ClientInv, FinalStatus PROVE ClientInv'
<1>1. /\ UNCHANGED deliveryVars /\ live' = live /\ conn = "lost" /\ conn' = "down"
      /\ client' = "disconnected" /\ UNCHANGED <<est, ended, opened, sub, closed>>
  BY DEF FinalStatus, deliveryVars
<1>2. SessionOK'
  BY <1>1 DEF ClientInv, SessionOK
<1> QED BY <1>1, <1>2, DeliveryUntouched DEF ClientInv, LogOK

LEMMA CloseEndsInv == ASSUME ClientInv, CloseEnds PROVE ClientInv'
<1>1. /\ UNCHANGED deliveryVars /\ live' = live /\ client' = "closed"
      /\ UNCHANGED <<conn, est, ended, opened, sub, closed>>
  BY DEF CloseEnds, deliveryVars
<1>2. SessionOK'
  BY <1>1 DEF ClientInv, SessionOK
<1> QED BY <1>1, <1>2, DeliveryUntouched DEF ClientInv, LogOK

LEMMA LoseLiveInv == ASSUME ClientInv, LoseLive PROVE ClientInv'
<1>1. /\ UNCHANGED deliveryVars /\ live' = Tail(live) /\ live # <<>>
      /\ UNCHANGED <<conn, client, est, ended, opened, sub, closed>>
  BY DEF LoseLive, deliveryVars
<1>2. SessionOK'
  BY <1>1 DEF ClientInv, SessionOK
<1>3. live' \in Seq(1..log)
  BY <1>1, HeadTailProperties DEF ClientInv, LogOK
<1> QED BY <1>1, <1>2, <1>3, DeliveryUntouched

\* The tries for a token and for a connection stay within their tables.
LEMMA TryInv ==
  ASSUME ClientInv, TokenFails \/ Token \/ ConnectFails \/ BackoffOver
  PROVE  ClientInv'
<1>1. /\ UNCHANGED deliveryVars /\ live' = live
      /\ UNCHANGED <<conn, ended, opened, sub, closed>>
      /\ client' \in {client, "failed", "disconnected"} /\ est # None
  BY DEF TokenFails, Token, ConnectFails, BackoffOver, Same, deliveryVars
<1>2. est' \in Attempts \cup {None}
  <2>1. /\ est \in Attempts /\ est.auth \in Nat /\ est.tries \in Nat
        /\ \A a \in {"token", "connect", "backoff"} : [est EXCEPT !.at = a] \in Attempts
    BY <1>1, AttemptFacts DEF ClientInv
  <2>2. CASE TokenFails
    <3>1. CASE est.auth + 1 < MaxAuth
      <4>1. est' = [est EXCEPT !.auth = est.auth + 1]
        BY <2>2, <3>1 DEF TokenFails
      <4>2. est.auth + 1 \in 0..(MaxAuth - 1)
        BY <2>1, <3>1, SessionAssumption
      <4> QED BY <2>1, <4>1, <4>2 DEF Attempts
    <3>2. CASE ~(est.auth + 1 < MaxAuth)
      BY <2>2, <3>2 DEF TokenFails
    <3> QED BY <3>1, <3>2
  <2>3. CASE Token \/ BackoffOver
    BY <2>1, <2>3 DEF Token, BackoffOver
  <2>4. CASE ConnectFails
    <3>1. CASE est.tries + 1 < MaxConnects
      <4>1. est' = [est EXCEPT !.tries = est.tries + 1, !.auth = 0, !.at = "backoff"]
        BY <2>4, <3>1 DEF ConnectFails
      <4>2. est.tries + 1 \in 0..(MaxConnects - 1) /\ 0 \in 0..(MaxAuth - 1)
        BY <2>1, <3>1, SessionAssumption
      <4> QED BY <2>1, <4>1, <4>2 DEF Attempts
    <3>2. CASE ~(est.tries + 1 < MaxConnects)
      BY <2>4, <3>2 DEF ConnectFails
    <3> QED BY <3>1, <3>2
  <2> QED BY <2>2, <2>3, <2>4
<1>3. SessionOK'
  BY <1>1, <1>2 DEF ClientInv, SessionOK
<1> QED BY <1>1, <1>3, DeliveryUntouched DEF ClientInv, LogOK

LEMMA GivesUpInv == ASSUME ClientInv, GivesUp PROVE ClientInv'
<1>1. /\ UNCHANGED deliveryVars /\ live' = live /\ conn' = "down" /\ est' = None /\ ended
      /\ UNCHANGED <<client, ended, opened, sub, closed>>
  BY DEF GivesUp, Same, deliveryVars
<1>2. SessionOK'
  BY <1>1 DEF ClientInv, SessionOK
<1> QED BY <1>1, <1>2, DeliveryUntouched DEF ClientInv, LogOK
-----------------------------------------------------------------------------
(* The steps of the delivery. *)

\* What a step keeps of the delivery itself.
DeliveryOK == LogOK /\ PassOK /\ Received /\ MailboxOK /\ RecoveryOK

LEMMA NextIsInReach ==
  ASSUME NEW a \in Nat, NEW l \in Nat, a <= l
  PROVE  a + 1 \in Nat /\ a + 1 >= 1 /\ a + 1 <= l + 1
OBVIOUS

\* recover starts with its first pass after the last applied fact.
LEMMA RecoverInv ==
  ASSUME NEW initial \in BOOLEAN, Recover(initial), log \in Nat, log' = log,
         applied' \in Nat, applied' <= log
  PROVE  PassOK' /\ pass' # None /\ recovering' /\ state' = "replaying"
<1> PICK n : n = applied' + 1
  OBVIOUS
<1>1. n \in Nat /\ n >= 1 /\ n <= log' + 1
  BY NextIsInReach
<1>2. pass' = [at |-> "open", attempt |-> 0, need |-> initial, next |-> n, head |-> 0]
  BY DEF Recover
<1>3. 0 \in 0..(MaxPasses - 1)
  BY DeliveryAssumption
<1>4. pass' \in Passes
  BY <1>1, <1>2, <1>3 DEF Passes, PassAt
<1>5. pass'.next = n /\ pass'.at = "open"
  BY <1>2
<1>6. pass' # None
  BY <1>4, PassIsNotNone
<1>7. PassOK'
  BY <1>1, <1>4, <1>5 DEF PassOK
<1>8. recovering'
  BY DEF Recover
<1> QED BY <1>6, <1>7, <1>8 DEF Recover

\* offer: a live fact is dropped, applied with what it completes, or held with
\* a recovery under way.
LEMMA OfferInv ==
  ASSUME ClientInv, NEW f \in 1..log, Offer(f), UNCHANGED <<log, closed>>, live' \in Seq(1..log)
  PROVE  DeliveryOK'
<1>1. LogOK /\ PassOK /\ Received /\ MailboxOK /\ RecoveryOK
  BY DEF ClientInv
<1>2. CASE closed \/ state = "failed" \/ f <= applied
  <2>1. UNCHANGED <<applied, pending, state, recovering, pass, mailbox>>
    BY <1>2 DEF Offer
  <2>2. LogOK' /\ PassOK' /\ RecoveryOK'
    BY <1>1, <2>1 DEF LogOK, PassOK, RecoveryOK
  <2>3. Received' /\ MailboxOK'
    BY <1>1, <2>1, MailboxUntouched DEF mailbox
  <2> QED BY <2>2, <2>3 DEF DeliveryOK
<1>3. CASE ~(closed \/ state = "failed" \/ f <= applied)
  <2> PICK held : held = pending \cup {f}
    OBVIOUS
  <2>1. held \in SUBSET (1..log) /\ done = "open"
    BY <1>1, <1>3 DEF LogOK, MailboxOK
  <2>2. Drain(held)
    BY <1>3 DEF Offer
  <2>3. /\ Received' /\ reader' # "ended" /\ done' = "open"
        /\ reader' \in {"waiting", "ended"} => queue' = <<>>
        /\ applied' \in Nat /\ applied' <= log /\ pending' \subseteq 1..log
    BY <1>1, <2>1, <2>2, DrainInOrder
  <2>4. LogOK' /\ MailboxOK'
    BY <1>1, <2>3 DEF LogOK, MailboxOK
  <2>5. CASE pending' # {} /\ ~recovering
    <3>1. Recover(FALSE)
      BY <1>3, <2>5 DEF Offer
    <3>2. PassOK' /\ pass' # None /\ recovering' /\ state' = "replaying"
      BY <1>1, <2>3, <3>1, RecoverInv DEF LogOK
    <3>3. RecoveryOK'
      BY <3>2 DEF RecoveryOK
    <3> QED BY <2>3, <2>4, <3>2, <3>3 DEF DeliveryOK
  <2>6. CASE ~(pending' # {} /\ ~recovering)
    <3>1. UNCHANGED <<state, recovering, pass>>
      BY <1>3, <2>6 DEF Offer
    <3>2. PassOK' /\ RecoveryOK'
      BY <1>1, <2>6, <3>1 DEF PassOK, RecoveryOK
    <3> QED BY <2>3, <2>4, <3>2 DEF DeliveryOK
  <2> QED BY <2>5, <2>6
<1> QED BY <1>2, <1>3

\* prime: a pass is started, or one is running already.
LEMMA PrimeInv ==
  ASSUME ClientInv, Prime, UNCHANGED <<log, pending, closed, mailbox>>, live' \in Seq(1..log)
  PROVE  DeliveryOK'
<1>1. LogOK /\ PassOK /\ Received /\ MailboxOK /\ RecoveryOK
  BY DEF ClientInv
<1>2. UNCHANGED <<applied, log, pending, closed, queue, done, reader, got>>
  BY DEF Prime, mailbox
<1>3. LogOK'
  BY <1>1, <1>2 DEF LogOK
<1>4. CASE ~recovering /\ ~closed /\ state # "failed"
  <2>1. Recover(TRUE)
    BY <1>4 DEF Prime
  <2>2. PassOK' /\ pass' # None /\ recovering' /\ state' = "replaying"
    BY <1>1, <1>2, <2>1, RecoverInv DEF LogOK
  <2>3. RecoveryOK'
    BY <2>2 DEF RecoveryOK
  <2>4. Received' /\ MailboxOK'
    BY <1>1, <1>2, <1>4, MailboxUntouched
  <2> QED BY <1>3, <2>2, <2>3, <2>4 DEF DeliveryOK
<1>5. CASE ~(~recovering /\ ~closed /\ state # "failed")
  <2>1. UNCHANGED <<state, recovering, pass>>
    BY <1>5 DEF Prime
  <2>2. PassOK' /\ RecoveryOK'
    BY <1>1, <1>2, <2>1 DEF PassOK, RecoveryOK
  <2>3. Received' /\ MailboxOK'
    BY <1>1, <1>2, <2>1, MailboxUntouched
  <2> QED BY <1>3, <2>2, <2>3 DEF DeliveryOK
<1> QED BY <1>4, <1>5

LEMMA CommitInv == ASSUME ClientInv, Commit PROVE ClientInv'
<1>1. /\ log < MaxLog /\ log' = log + 1 /\ live' \in {live, Append(live, log + 1)}
      /\ UNCHANGED <<applied, pending, state, recovering, closed, pass, queue, done, reader, got>>
      /\ UNCHANGED <<conn, client, ended, est, opened, sub>>
  BY DEF Commit, delivery, mailbox
<1>2. LogOK /\ PassOK /\ Received /\ MailboxOK /\ RecoveryOK /\ SessionOK /\ MaxLog \in Nat
  BY DeliveryAssumption DEF ClientInv
<1>3. log \in Nat /\ log' \in Nat /\ log' <= MaxLog /\ applied' <= log' /\ applied \in Nat
  BY <1>1, <1>2 DEF LogOK
<1>4. 1..log \subseteq 1..log' /\ log + 1 \in 1..log'
  BY <1>1, <1>3
<1>5. live' \in Seq(1..log')
  <2>3. live \in Seq(1..log)
    BY <1>2 DEF LogOK
  <2>1. live \in Seq(1..log')
    BY <1>4, <2>3, SeqMonotonic
  <2>2. Append(live, log + 1) \in Seq(1..log')
    BY <1>4, <2>1, AppendProperties
  <2> QED BY <1>1, <2>1, <2>2
<1>6. LogOK'
  BY <1>1, <1>2, <1>3, <1>4, <1>5 DEF LogOK
<1>7. PassOK'
  <2> SUFFICES ASSUME pass # None PROVE pass.next <= log' + 1
    BY <1>1, <1>2 DEF PassOK
  <2>1. pass.next \in Nat /\ pass.next <= log + 1
    BY <1>2 DEF PassOK, Passes
  <2> QED BY <1>1, <1>3, <2>1
<1>8. RecoveryOK' /\ SessionOK'
  BY <1>1, <1>2 DEF RecoveryOK, SessionOK
<1>9. Received' /\ MailboxOK'
  BY <1>1, <1>2, MailboxUntouched
<1> QED BY <1>6, <1>7, <1>8, <1>9 DEF ClientInv

LEMMA LiveFactInv == ASSUME ClientInv, LiveFact PROVE ClientInv'
<1> PICK f : f = Head(live)
  OBVIOUS
<1>1. /\ live # <<>> /\ live' = Tail(live) /\ Offer(f)
      /\ UNCHANGED <<log, closed, conn, client, ended, est, opened, sub>>
  BY DEF LiveFact
<1>2. f \in 1..log /\ live' \in Seq(1..log)
  BY <1>1, HeadTailProperties DEF ClientInv, LogOK
<1>3. DeliveryOK'
  BY <1>1, <1>2, OfferInv
<1>4. SessionOK'
  BY <1>1 DEF ClientInv, SessionOK
<1> QED BY <1>3, <1>4 DEF ClientInv, DeliveryOK

LEMMA OpenInv == ASSUME ClientInv, Open PROVE ClientInv'
<1>1. /\ ~closed /\ opened' = TRUE
      /\ UNCHANGED <<log, pending, closed, mailbox>>
      /\ UNCHANGED <<conn, client, ended, est>>
  BY DEF Open
<1>2. <<>> \in Seq(1..log) /\ live \in Seq(1..log)
  BY DEF ClientInv, LogOK
<1>3. CASE conn = "up"
  <2>1. sub' = TRUE /\ live' = <<>> /\ Prime
    BY <1>3 DEF Open, Attach
  <2>2. DeliveryOK'
    BY <1>1, <1>2, <2>1, PrimeInv
  <2>3. SessionOK'
    BY <1>1, <1>3 DEF ClientInv, SessionOK
  <2> QED BY <2>2, <2>3 DEF ClientInv, DeliveryOK
<1>4. CASE conn # "up"
  <2>1. UNCHANGED <<sub, live, applied, state, recovering, pass>>
    BY <1>4 DEF Open
  <2>2. UNCHANGED deliveryVars
    BY <1>1, <2>1 DEF deliveryVars, mailbox
  <2>3. SessionOK'
    BY <1>1, <1>4, <2>1 DEF ClientInv, SessionOK
  <2> QED BY <1>2, <2>1, <2>2, <2>3, DeliveryUntouched
<1> QED BY <1>3, <1>4

LEMMA EstablishedInv == ASSUME ClientInv, Established PROVE ClientInv'
<1>1. est' = None /\ UNCHANGED <<ended, opened>> /\ est # None
  BY DEF Established, Same
<1>2. <<>> \in Seq(1..log) /\ live \in Seq(1..log) /\ SessionOK
  BY DEF ClientInv, LogOK
<1>3. CASE ended
  <2>1. UNCHANGED deliveryVars /\ conn' = "down" /\ UNCHANGED <<client, sub, live>> /\ closed' = closed
    BY <1>3 DEF Established, Same, deliveryVars
  <2>2. SessionOK'
    BY <1>1, <1>2, <1>3, <2>1 DEF SessionOK
  <2> QED BY <1>2, <2>1, <2>2, DeliveryUntouched
<1>4. CASE ~ended
  <2>1. /\ conn' = "up" /\ client' = "connected" /\ UNCHANGED <<log, pending, closed, mailbox>>
    BY <1>4 DEF Established
  <2>2. \/ opened /\ ~closed /\ sub' = TRUE /\ live' = <<>> /\ Prime
        \/ UNCHANGED <<sub, live, applied, state, recovering, pass>>
    BY <1>4 DEF Established, Resubscribe, Attach
  <2>3. SessionOK'
    BY <1>1, <1>2, <1>4, <2>1, <2>2 DEF SessionOK
  <2>4. CASE opened /\ ~closed /\ sub' = TRUE /\ live' = <<>> /\ Prime
    <3>1. DeliveryOK'
      BY <1>2, <2>1, <2>4, PrimeInv
    <3> QED BY <2>3, <3>1 DEF ClientInv, DeliveryOK
  <2>5. CASE UNCHANGED <<sub, live, applied, state, recovering, pass>>
    <3>1. UNCHANGED deliveryVars
      BY <2>1, <2>5 DEF deliveryVars, mailbox
    <3> QED BY <1>2, <2>3, <2>5, <3>1, DeliveryUntouched
  <2> QED BY <2>2, <2>4, <2>5
<1> QED BY <1>3, <1>4
LEMMA CloseHandleInv == ASSUME ClientInv, CloseHandle PROVE ClientInv'
<1>1. /\ sub' = FALSE /\ live' = <<>> /\ closed' = TRUE /\ End("closed")
      /\ UNCHANGED <<log, applied, pending, state, recovering, pass>>
      /\ UNCHANGED <<conn, client, ended, est, opened>>
  BY DEF CloseHandle, CloseDelivery
<1>2. LogOK /\ PassOK /\ Received /\ MailboxOK /\ RecoveryOK /\ SessionOK
  BY DEF ClientInv
<1>3. LogOK' /\ PassOK' /\ RecoveryOK' /\ SessionOK'
  BY <1>1, <1>2 DEF LogOK, PassOK, RecoveryOK, SessionOK
<1>4. Received' /\ MailboxOK'
  BY <1>1, <1>2, EndKeepsMailbox
<1> QED BY <1>3, <1>4 DEF ClientInv

LEMMA CloseInv == ASSUME ClientInv, Close PROVE ClientInv'
<1>1. /\ ended' = TRUE /\ conn' = "down" /\ sub' = FALSE /\ live' = <<>> /\ closed' = TRUE
      /\ UNCHANGED <<log, applied, pending, state, recovering, pass>>
      /\ UNCHANGED <<client, est, opened>>
      /\ UNCHANGED mailbox \/ End("closed")
  BY DEF Close
<1>2. LogOK /\ PassOK /\ Received /\ MailboxOK /\ RecoveryOK /\ SessionOK
  BY DEF ClientInv
<1>3. LogOK' /\ PassOK' /\ RecoveryOK' /\ SessionOK'
  BY <1>1, <1>2 DEF LogOK, PassOK, RecoveryOK, SessionOK
<1>4. Received' /\ MailboxOK'
  BY <1>1, <1>2, EndKeepsMailbox, MailboxUntouched DEF mailbox
<1> QED BY <1>3, <1>4 DEF ClientInv

\* What is known of a pass that runs.
LEMMA PassFacts ==
  ASSUME PassOK, pass # None
  PROVE  /\ pass \in Passes /\ pass.attempt \in Nat /\ pass.attempt < MaxPasses
         /\ pass.next \in Nat /\ pass.head \in Nat
<1>1. pass \in Passes
  BY DEF PassOK
<1> QED BY <1>1, DeliveryAssumption DEF Passes

\* A replay that is cut off by its connection keeps its place.
LEMMA DropInv == ASSUME ClientInv, Drop PROVE ClientInv'
<1>1. /\ conn' = "lost" /\ sub' = FALSE /\ live' = <<>>
      /\ pass' = IF pass # None /\ pass.at \in {"open", "replay"}
                 THEN [pass EXCEPT !.at = IF @ = "open" THEN "broken" ELSE "cut"] ELSE pass
      /\ \/ est' = Attempt("reconnect") /\ client' = "reconnecting"
         \/ UNCHANGED <<est, client>>
      /\ UNCHANGED <<log, applied, pending, state, recovering, closed, queue, done, reader, got>>
      /\ UNCHANGED <<ended, opened>> /\ conn = "up"
  BY DEF Drop, mailbox
<1>2. LogOK /\ PassOK /\ Received /\ MailboxOK /\ RecoveryOK /\ SessionOK
  BY DEF ClientInv
<1>3. PassOK' /\ (pass # None <=> pass' # None)
  <2>1. CASE pass # None /\ pass.at \in {"open", "replay"}
    <3>1. PICK a \in {"broken", "cut"} : pass' = [pass EXCEPT !.at = a]
      BY <1>1, <2>1
    <3>2. pass \in Passes
      BY <1>2, <2>1, PassFacts
    <3>3. pass' \in Passes /\ pass'.next = pass.next /\ pass'.at = a
      BY <3>1, <3>2 DEF Passes, PassAt
    <3>4. pass' # None
      BY <3>3, PassIsNotNone
    <3>5. PassOK'
      BY <1>1, <1>2, <2>1, <3>3 DEF PassOK
    <3> QED BY <2>1, <3>4, <3>5
  <2>2. CASE ~(pass # None /\ pass.at \in {"open", "replay"})
    <3>1. pass' = pass
      BY <1>1, <2>2
    <3> QED BY <1>1, <1>2, <3>1 DEF PassOK
  <2> QED BY <2>1, <2>2
<1>4. LogOK' /\ RecoveryOK'
  BY <1>1, <1>2, <1>3 DEF LogOK, RecoveryOK
<1>5. SessionOK'
  BY <1>1, <1>2, AttemptType DEF SessionOK
<1>6. Received' /\ MailboxOK'
  BY <1>1, <1>2, MailboxUntouched
<1> QED BY <1>3, <1>4, <1>5, <1>6 DEF ClientInv

-----------------------------------------------------------------------------
(* The steps of recover. *)

\* A pass that has ended, by return or by error: live, failed or a pause.
LEMMA PassEndsInv ==
  ASSUME DeliveryOK, pass # None, UNCHANGED <<log, applied, pending, closed, live>>,
         \/ Leave /\ (pending = {} \/ closed)
         \/ Fail
         \/ /\ ~LastPass /\ state' = "degraded" /\ UNCHANGED <<recovering, mailbox>>
            /\ \/ pass' = [pass EXCEPT !.at = "wait"]
               \/ pass' = [pass EXCEPT !.at = "wait", !.need = FALSE]
  PROVE  DeliveryOK'
<1>1. LogOK /\ PassOK /\ Received /\ MailboxOK /\ RecoveryOK
  BY DEF DeliveryOK
<1>2. LogOK'
  BY <1>1 DEF LogOK
<1>3. recovering /\ state \in {"replaying", "degraded"}
      /\ pass \in Passes /\ pass.attempt \in Nat /\ pass.attempt < MaxPasses
  BY <1>1, PassFacts DEF RecoveryOK
<1>4. CASE Leave /\ (pending = {} \/ closed)
  <2>1. ~recovering' /\ pass' = None /\ state' = (IF closed THEN state ELSE "live") /\ UNCHANGED mailbox
    BY <1>4 DEF Leave
  <2>2. PassOK'
    BY <2>1 DEF PassOK
  <2>3. RecoveryOK'
    BY <1>1, <1>3, <1>4, <2>1 DEF RecoveryOK
  <2>4. Received' /\ MailboxOK'
    BY <1>1, <1>3, <2>1, MailboxUntouched DEF mailbox
  <2> QED BY <1>2, <2>2, <2>3, <2>4 DEF DeliveryOK
<1>5. CASE Fail
  <2>1. ~recovering' /\ pass' = None /\ state' = "failed" /\ End("failed")
    BY <1>5 DEF Fail
  <2>2. PassOK' /\ RecoveryOK'
    BY <2>1 DEF PassOK, RecoveryOK
  <2>3. Received' /\ MailboxOK'
    BY <1>1, <2>1, EndKeepsMailbox
  <2> QED BY <1>2, <2>2, <2>3 DEF DeliveryOK
<1>6. CASE /\ ~LastPass /\ state' = "degraded" /\ UNCHANGED <<recovering, mailbox>>
           /\ \/ pass' = [pass EXCEPT !.at = "wait"]
              \/ pass' = [pass EXCEPT !.at = "wait", !.need = FALSE]
  <2>1. /\ pass' \in Passes /\ pass'.next = pass.next /\ pass'.at = "wait"
        /\ pass'.attempt = pass.attempt
    BY <1>3, <1>6 DEF Passes, PassAt
  <2>2. pass.attempt + 1 < MaxPasses
    BY <1>3, <1>6, DeliveryAssumption DEF LastPass
  <2>3. PassOK' /\ pass' # None
    BY <1>1, <2>1, <2>2, PassIsNotNone DEF PassOK
  <2>4. RecoveryOK'
    BY <1>1, <1>3, <1>6, <2>3 DEF RecoveryOK
  <2>5. Received' /\ MailboxOK'
    BY <1>1, <1>3, <1>6, MailboxUntouched DEF mailbox
  <2> QED BY <1>2, <2>3, <2>4, <2>5 DEF DeliveryOK
<1> QED BY <1>4, <1>5, <1>6

LEMMA RecoveryInv == ASSUME ClientInv, Recovery, UNCHANGED sessionVars PROVE ClientInv'
<1>1. LogOK /\ PassOK /\ Received /\ MailboxOK /\ RecoveryOK /\ SessionOK /\ DeliveryOK
  BY DEF ClientInv, DeliveryOK
<1>2. UNCHANGED <<conn, client, ended, est, opened, sub, live, log, closed>>
  BY DEF Recovery, OpenReplay, ReplayedFact, ReplayEnds, ReplayCut, PassThrows, PassReturns, WaitOver,
     sessionVars
<1>3. SessionOK'
  BY <1>1, <1>2 DEF SessionOK
<1>4. pass # None
  BY DEF Recovery, OpenReplay, ReplayedFact, ReplayEnds, ReplayCut, PassThrows, WaitOver
<1>5. /\ pass \in Passes /\ pass.attempt \in Nat /\ pass.attempt < MaxPasses /\ pass.next \in Nat
      /\ log \in Nat /\ applied \in Nat /\ applied <= log /\ recovering
      /\ state \in {"replaying", "degraded"}
  BY <1>1, <1>4, PassFacts DEF LogOK, RecoveryOK
<1>6. CASE OpenReplay
  <2>1. /\ pass' = [pass EXCEPT !.at = "replay", !.head = log]
        /\ UNCHANGED <<applied, pending, state, recovering, queue, done, reader, got>>
    BY <1>6 DEF OpenReplay, mailbox
  <2>2. pass' \in Passes /\ pass'.next = pass.next /\ pass'.at = "replay"
    BY <1>5, <2>1 DEF Passes, PassAt
  <2>3. pass' # None
    BY <2>2, PassIsNotNone
  <2>4. PassOK'
    BY <1>1, <1>2, <1>4, <2>2 DEF PassOK
  <2>5. LogOK' /\ RecoveryOK'
    BY <1>1, <1>2, <1>4, <2>1, <2>3 DEF LogOK, RecoveryOK
  <2>6. Received' /\ MailboxOK'
    BY <1>1, <1>2, <2>1, MailboxUntouched
  <2> QED BY <1>3, <2>4, <2>5, <2>6 DEF ClientInv
<1>7. CASE ReplayedFact
  <2> PICK f : f = pass.next
    OBVIOUS
  <2>1. /\ f <= log /\ ~closed /\ pass' = [pass EXCEPT !.next = f + 1] /\ pass.at = "replay"
        /\ UNCHANGED <<state, recovering>>
        /\ IF f <= applied THEN UNCHANGED <<applied, pending, mailbox>> ELSE Drain(pending \cup {f})
    BY <1>7 DEF ReplayedFact
  <2>2. f \in Nat /\ f >= 1 /\ f + 1 \in Nat /\ f + 1 >= 1 /\ f + 1 <= log' + 1 /\ f \in 1..log
    BY <1>1, <1>2, <1>4, <1>5, <2>1 DEF PassOK
  <2>3. pass' \in Passes /\ pass'.next = f + 1 /\ pass'.at = "replay"
    BY <1>5, <2>1, <2>2 DEF Passes, PassAt
  <2>4. PassOK' /\ pass' # None
    BY <2>2, <2>3, PassIsNotNone DEF PassOK
  <2>5. RecoveryOK'
    BY <1>5, <2>1, <2>4 DEF RecoveryOK
  <2>6. CASE f <= applied
    <3>1. UNCHANGED <<applied, pending, mailbox>>
      BY <2>1, <2>6
    <3>2. LogOK'
      BY <1>1, <1>2, <3>1 DEF LogOK
    <3>3. Received' /\ MailboxOK'
      BY <1>1, <1>2, <2>1, <3>1, MailboxUntouched DEF mailbox
    <3> QED BY <1>3, <2>4, <2>5, <3>2, <3>3 DEF ClientInv
  <2>7. CASE ~(f <= applied)
    <3> PICK held : held = pending \cup {f}
      OBVIOUS
    <3>1. held \in SUBSET (1..log) /\ done = "open" /\ Drain(held)
      BY <1>1, <1>5, <2>1, <2>2, <2>7 DEF LogOK, MailboxOK
    <3>2. /\ Received' /\ reader' # "ended" /\ done' = "open"
          /\ reader' \in {"waiting", "ended"} => queue' = <<>>
          /\ applied' \in Nat /\ applied' <= log /\ pending' \subseteq 1..log
      BY <1>1, <3>1, DrainInOrder
    <3>3. LogOK' /\ MailboxOK'
      BY <1>1, <1>2, <3>2 DEF LogOK, MailboxOK
    <3> QED BY <1>3, <2>4, <2>5, <3>2, <3>3 DEF ClientInv
  <2> QED BY <2>6, <2>7
<1>8. CASE ReplayEnds \/ ReplayCut \/ PassThrows
  <2>1. /\ UNCHANGED <<log, applied, pending, closed, live>>
        /\ \/ Leave /\ (pending = {} \/ closed)
           \/ Fail
           \/ /\ ~LastPass /\ state' = "degraded" /\ UNCHANGED <<recovering, mailbox>>
              /\ \/ pass' = [pass EXCEPT !.at = "wait"]
                 \/ pass' = [pass EXCEPT !.at = "wait", !.need = FALSE]
    BY <1>2, <1>8 DEF ReplayEnds, ReplayCut, PassThrows, PassReturns, Wait
  <2>2. DeliveryOK'
    BY <1>1, <1>4, <2>1, PassEndsInv
  <2> QED BY <1>3, <2>2 DEF ClientInv, DeliveryOK
<1>9. CASE WaitOver
  <2>1. CASE (pass.need \/ pending # {}) /\ ~closed
    <3> PICK n : n = applied + 1
      OBVIOUS
    <3> PICK k : k = pass.attempt + 1
      OBVIOUS
    <3>1. PICK a \in {"open", "broken"} : pass' = [pass EXCEPT !.at = a, !.attempt = k, !.next = n]
      BY <1>9, <2>1 DEF WaitOver
    <3>2. UNCHANGED <<applied, pending, state, recovering, mailbox>>
      BY <1>9, <2>1 DEF WaitOver
    <3>3. k \in 0..(MaxPasses - 1) /\ n \in Nat /\ n >= 1 /\ n <= log' + 1
      BY <1>1, <1>2, <1>4, <1>5, <1>9, DeliveryAssumption DEF PassOK, WaitOver
    <3>4. pass' \in Passes /\ pass'.next = n /\ pass'.at = a
      BY <1>5, <3>1, <3>3 DEF Passes, PassAt
    <3>5. PassOK' /\ pass' # None
      BY <3>3, <3>4, PassIsNotNone DEF PassOK
    <3>6. LogOK' /\ RecoveryOK'
      BY <1>1, <1>2, <1>4, <3>2, <3>5 DEF LogOK, RecoveryOK
    <3>7. Received' /\ MailboxOK'
      BY <1>1, <1>2, <3>2, MailboxUntouched DEF mailbox
    <3> QED BY <1>3, <3>5, <3>6, <3>7 DEF ClientInv
  <2>2. CASE ~((pass.need \/ pending # {}) /\ ~closed)
    <3>1. Leave /\ (pending = {} \/ closed) /\ UNCHANGED <<log, applied, pending, closed, live>>
      BY <1>2, <1>9, <2>2 DEF WaitOver
    <3>2. DeliveryOK'
      BY <1>1, <1>4, <3>1, PassEndsInv
    <3> QED BY <1>3, <3>2 DEF ClientInv, DeliveryOK
  <2> QED BY <2>1, <2>2
<1> QED BY <1>6, <1>7, <1>8, <1>9 DEF Recovery

-----------------------------------------------------------------------------
(* The steps of the consumer. *)

LEMMA ConsumeInv == ASSUME ClientInv, Consume, UNCHANGED sessionVars PROVE ClientInv'
<1>1. LogOK /\ PassOK /\ Received /\ MailboxOK /\ RecoveryOK /\ SessionOK
  BY DEF ClientInv
<1>2. /\ UNCHANGED <<conn, client, ended, est, opened, sub, live>>
      /\ UNCHANGED <<log, applied, pending, state, recovering, closed, pass, done>>
  BY DEF Consume, Read, sessionVars
<1>3. LogOK' /\ PassOK' /\ RecoveryOK' /\ SessionOK'
  BY <1>1, <1>2 DEF LogOK, PassOK, RecoveryOK, SessionOK
<1>4. CASE Read /\ queue # <<>>
  <2>1. got' = Append(got, Head(queue)) /\ queue' = Tail(queue) /\ reader' = "reading"
    BY <1>4 DEF Read
  <2> PICK g : g = Len(got)
    OBVIOUS
  <2> PICK q : q = Len(queue)
    OBVIOUS
  <2>2. /\ g \in Nat /\ q \in Nat /\ g + q = applied /\ applied \in Nat
        /\ got \in Seq(Nat) /\ queue \in Seq(Nat)
        /\ \A i \in 1..g : got[i] = i
        /\ \A i \in 1..q : queue[i] = g + i
    BY <1>1 DEF Received
  <2>3. q >= 1
    BY <1>4, <2>2, EmptySeq
  <2>4. Head(queue) = g + 1
    BY <1>4, <2>2, <2>3
  <2>5. /\ got' \in Seq(Nat) /\ Len(got') = g + 1
        /\ \A i \in 1..(g + 1) : got'[i] = i
    BY <2>1, <2>2, <2>4
  <2>6. queue' \in Seq(Nat) /\ Len(queue') = q - 1
    BY <1>4, <2>1, <2>2, HeadTailProperties
  <2>7. ASSUME NEW i \in 1..(q - 1) PROVE queue'[i] = (g + 1) + i
    <3>1. i + 1 \in 1..q
      BY <2>2
    <3>2. queue'[i] = queue[i + 1]
      BY <1>4, <2>1, <2>2, <2>3
    <3> QED BY <2>2, <3>1, <3>2
  <2>8. Received'
    <3>3. (g + 1) + (q - 1) = applied
      BY <2>2
    <3>1. Len(got') + Len(queue') = applied'
      BY <1>2, <2>5, <2>6, <3>3
    <3>2. \A i \in 1..Len(queue') : queue'[i] = Len(got') + i
      BY <2>5, <2>6, <2>7
    <3> QED BY <1>2, <2>2, <2>5, <2>6, <3>1, <3>2 DEF Received
  <2>9. MailboxOK'
    BY <1>1, <1>2, <2>1 DEF MailboxOK
  <2> QED BY <1>3, <2>8, <2>9 DEF ClientInv
<1>5. CASE ~(Read /\ queue # <<>>)
  <2>1. UNCHANGED <<queue, got>>
    BY <1>5 DEF Consume, Read
  <2>2. \/ queue = <<>> /\ reader' = (IF done = "open" THEN "waiting" ELSE "ended")
        \/ reader' \in {"reading", "none"}
    BY <1>5 DEF Consume, Read, StartReading, StopReading
  <2>3. Received'
    BY <1>1, <1>2, <2>1 DEF Received
  <2>4. MailboxOK'
    BY <1>1, <1>2, <2>1, <2>2 DEF MailboxOK
  <2> QED BY <1>3, <2>3, <2>4 DEF ClientInv
<1> QED BY <1>4, <1>5
-----------------------------------------------------------------------------
(* The theorems. *)

LEMMA ClientInitial == Init => ClientInv
<1> SUFFICES ASSUME Init PROVE ClientInv
  OBVIOUS
<1>1. /\ log = 0 /\ applied = 0 /\ pending = {} /\ state = "live" /\ ~recovering /\ ~closed
      /\ pass = None /\ queue = <<>> /\ done = "open" /\ reader = "none" /\ got = <<>>
      /\ conn = "never" /\ client = "disconnected" /\ ~ended /\ est = None /\ ~sub /\ live = <<>>
  BY DEF Init, DeliveryInit
<1>2. LogOK
  BY <1>1, DeliveryAssumption DEF LogOK
<1>3. Received
  BY <1>1 DEF Received
<1> QED BY <1>1, <1>2, <1>3 DEF ClientInv, PassOK, MailboxOK, RecoveryOK, SessionOK

LEMMA ClientStep == ClientInv /\ [Next]_vars => ClientInv'
<1> SUFFICES ASSUME ClientInv, [Next]_vars PROVE ClientInv'
  OBVIOUS
<1>1. CASE Commit \/ LiveFact \/ LoseLive \/ Open \/ CloseHandle
  BY <1>1, CommitInv, LiveFactInv, LoseLiveInv, OpenInv, CloseHandleInv
<1>2. CASE Connect \/ Drop \/ FinalStatus \/ Close \/ CloseEnds \/ Establish
  BY <1>2, ConnectInv, DropInv, FinalStatusInv, CloseInv, CloseEndsInv, TryInv, GivesUpInv,
     EstablishedInv DEF Establish
<1>3. CASE (Recovery \/ Consume) /\ UNCHANGED sessionVars
  BY <1>3, RecoveryInv, ConsumeInv
<1>4. CASE UNCHANGED vars
  <2>1. /\ UNCHANGED deliveryVars /\ live' \in Seq(1..log)
        /\ UNCHANGED <<conn, client, ended, est, opened, sub, closed>>
    BY <1>4 DEF vars, sessionVars, deliveryVars, ClientInv, LogOK
  <2>2. SessionOK'
    BY <2>1 DEF ClientInv, SessionOK
  <2> QED BY <2>1, <2>2, DeliveryUntouched
<1> QED BY <1>1, <1>2, <1>3, <1>4 DEF Next

\* The inductive invariant: every behaviour of the client, its connection and
\* its consumer keeps it.
THEOREM ClientInvariance == Spec => []ClientInv
BY ClientInitial, ClientStep, PTL DEF Spec

\* Delivery holds nothing that is not in the log, and recover, establish and
\* tokenWithRetry never count past their backoff tables.
THEOREM ClientTypeCorrect == Spec => []TypeOK
<1>1. ClientInv => TypeOK
  <2> SUFFICES ASSUME ClientInv PROVE TypeOK
    OBVIOUS
  <2>1. LogOK /\ PassOK /\ RecoveryOK /\ SessionOK /\ MaxLog \in Nat /\ MaxPasses \in Nat
    BY DeliveryAssumption DEF ClientInv
  <2>2. log \in 0..MaxLog /\ applied \in 0..log /\ pending \subseteq 1..log
    BY <2>1 DEF LogOK
  <2>3. pass # None => pass.attempt \in 0..(MaxPasses - 1) /\ pass.next \in 1..(log + 1)
    BY <2>1 DEF PassOK, Passes, LogOK
  <2>4. est # None => est.tries \in 0..(MaxConnects - 1) /\ est.auth \in 0..(MaxAuth - 1)
    BY <2>1 DEF SessionOK, Attempts
  <2> QED BY <2>1, <2>2, <2>3, <2>4 DEF TypeOK, RecoveryOK, SessionOK
<1> QED BY <1>1, ClientInvariance, PTL

\* The consumer receives the facts 1, 2, 3, ... without gap or repetition:
\* offer, the replay of recover and drainContiguous may overlap in any way, over
\* any number of lost connections and lost live messages.
THEOREM DeliveryInOrder == Spec => []InOrderOnce
<1>1. ClientInv => InOrderOnce
  <2> SUFFICES ASSUME ClientInv PROVE got \o queue = [k \in 1..applied |-> k]
    BY DEF InOrderOnce
  <2> PICK g : g = Len(got)
    OBVIOUS
  <2> PICK q : q = Len(queue)
    OBVIOUS
  <2>1. /\ g \in Nat /\ q \in Nat /\ g + q = applied /\ applied \in Nat
        /\ got \in Seq(Nat) /\ queue \in Seq(Nat)
        /\ \A i \in 1..g : got[i] = i
        /\ \A i \in 1..q : queue[i] = g + i
    BY DEF ClientInv, Received
  <2> PICK s : s = got \o queue
    OBVIOUS
  <2> PICK t : t = [k \in 1..applied |-> k]
    OBVIOUS
  <2>2. /\ s \in Seq(Nat) /\ Len(s) = g + q
        /\ \A i \in 1..(g + q) : s[i] = IF i <= g THEN got[i] ELSE queue[i - g]
    BY <2>1, ConcatProperties
  <2>3. ASSUME NEW i \in 1..(g + q) PROVE s[i] = i
    <3>1. CASE i <= g
      <4>1. i \in 1..g
        BY <2>1, <3>1
      <4> QED BY <2>1, <2>2, <3>1, <4>1
    <3>2. CASE ~(i <= g)
      <4>1. i - g \in 1..q /\ g + (i - g) = i
        BY <2>1, <3>2
      <4>2. s[i] = queue[i - g]
        BY <2>2, <3>2
      <4>3. queue[i - g] = g + (i - g)
        BY <2>1, <4>1
      <4> QED BY <4>1, <4>2, <4>3
    <3> QED BY <3>1, <3>2
  <2>4. t \in Seq(Nat) /\ Len(t) = applied /\ \A i \in 1..applied : t[i] = i
    BY <2>1
  <2>5. Len(s) = Len(t) /\ \A i \in 1..Len(s) : s[i] = t[i]
    BY <2>1, <2>2, <2>3, <2>4
  <2>6. s = t
    BY <2>2, <2>4, <2>5, SeqEqual
  <2> QED BY <2>6
<1> QED BY <1>1, ClientInvariance, PTL

\* A consumer is told the end, by close() or by the failure of recover, only
\* after every fact that was applied: the mailbox is emptied first, and nothing
\* is applied after its end.
THEOREM EndComesLast == Spec => []EndsAfterAll
<1>1. ClientInv => EndsAfterAll
  <2> SUFFICES ASSUME ClientInv, reader = "ended" PROVE Len(got) = applied
    BY DEF EndsAfterAll
  <2>1. queue = <<>> /\ Received
    BY DEF ClientInv, MailboxOK
  <2> QED BY <2>1 DEF Received
<1> QED BY <1>1, ClientInvariance, PTL

\* A delivery that reports "live" has no open gap, and an open gap has a pass of
\* recover: a live fact that is held while a recovery ends starts another one.
THEOREM GapHasRecovery == Spec => []GapIsWorkedOn
<1>1. ClientInv => GapIsWorkedOn
  BY DEF ClientInv, RecoveryOK, GapIsWorkedOn
<1> QED BY <1>1, ClientInvariance, PTL

\* close() during establish() leaves no connection behind, and a subscription is
\* attached to an open handle on a connection that is up only.
THEOREM ClosedClientIsDisconnected == Spec => []NoLateConnection
<1>1. ClientInv => NoLateConnection
  BY DEF ClientInv, SessionOK, NoLateConnection
<1> QED BY <1>1, ClientInvariance, PTL
=============================================================================
