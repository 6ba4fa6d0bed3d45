----------------------------- MODULE ClientSession -----------------------------
(***************************************************************************)
(* RelayPointClient with one InteractionHandle over a Transport: the       *)
(* connection is lost and made again, the live subscription with it, and   *)
(* the handle's Delivery closes what was missed by replay.                 *)
(***************************************************************************)
EXTENDS ClientDelivery

CONSTANTS MaxAuth,     \* authBackoff.length
          MaxConnects, \* connectBackoff.length
          MaxDrops,    \* bound: connections lost
          MaxLost      \* bound: live messages lost on a standing connection

ASSUME SessionAssumption ==
    MaxAuth \in Nat \ {0} /\ MaxConnects \in Nat \ {0} /\ MaxDrops \in Nat /\ MaxLost \in Nat

VARIABLES
    client,      \* ConnectionState
    ended,       \* RelayPointClient.closed
    closing,     \* close() waits for the transport
    est,         \* where establish() is, or None: `busy`
    opened,      \* InteractionHandle.opened
    sub,         \* the live subscription is attached to the connection that is up
    live,        \* facts on their way to it
    drops, lost

sessionVars == <<conn, client, ended, closing, est, opened, sub, live, drops, lost>>
vars == <<deliveryVars, sessionVars>>
delivery == <<applied, pending, state, recovering, closed, pass>>

Init ==
    /\ DeliveryInit
    /\ conn = "never" /\ client = "disconnected"
    /\ ended = FALSE /\ closing = FALSE /\ est = None
    /\ opened = FALSE /\ sub = FALSE /\ live = <<>>
    /\ drops = 0 /\ lost = 0

------------------------------------------------------------------------------
(* The router appends a fact; a live subscription is sent it.              *)
Commit ==
    /\ log < MaxLog
    /\ log' = log + 1
    /\ live' = IF sub THEN Append(live, log + 1) ELSE live
    /\ UNCHANGED <<delivery, mailbox>>
    /\ UNCHANGED <<conn, client, ended, closing, est, opened, sub, drops, lost>>

LiveFact ==
    /\ live # <<>>
    /\ live' = Tail(live)
    /\ Offer(Head(live))
    /\ UNCHANGED <<log, closed>>
    /\ UNCHANGED <<conn, client, ended, closing, est, opened, sub, drops, lost>>

LoseLive ==
    /\ live # <<>> /\ lost < MaxLost
    /\ live' = Tail(live)
    /\ lost' = lost + 1
    /\ UNCHANGED deliveryVars
    /\ UNCHANGED <<conn, client, ended, closing, est, opened, sub, drops>>

------------------------------------------------------------------------------
Attach == sub' = TRUE /\ live' = <<>>

(* InteractionHandle.  A subscription on a connection that is not up fails *)
(* and ends open() before it primes.                                       *)
Open ==
    /\ ~opened /\ ~closed
    /\ opened' = TRUE
    /\ IF conn = "up" THEN Attach /\ Prime
       ELSE UNCHANGED <<sub, live, applied, state, recovering, pass>>
    /\ UNCHANGED <<log, pending, closed, mailbox>>
    /\ UNCHANGED <<conn, client, ended, closing, est, drops, lost>>

Resubscribe ==
    IF opened /\ ~closed
    THEN Attach /\ Prime
    ELSE UNCHANGED <<sub, live, applied, state, recovering, pass>>

CloseHandle ==
    /\ ~closed
    /\ sub' = FALSE /\ live' = <<>>
    /\ CloseDelivery
    /\ UNCHANGED <<log, applied, pending, state, recovering, pass>>
    /\ UNCHANGED <<conn, client, ended, closing, est, opened, drops, lost>>

------------------------------------------------------------------------------
(* RelayPointClient.connect, reconnect and establish.                      *)
Attempt(how) == [how |-> how, at |-> "token", auth |-> 0, tries |-> 0]

Connect ==
    /\ ~ended /\ est = None /\ client # "connected"
    /\ client' = "connecting"
    /\ est' = Attempt("connect")
    /\ UNCHANGED deliveryVars
    /\ UNCHANGED <<conn, ended, closing, opened, sub, live, drops, lost>>

(* The connection is lost: its subscriptions end, a replay over it is cut  *)
(* off or throws, and the status drives a reconnect unless one is running. *)
Drop ==
    /\ conn = "up" /\ drops < MaxDrops
    /\ drops' = drops + 1
    /\ conn' = "lost" /\ sub' = FALSE /\ live' = <<>>
    /\ pass' = IF pass # None /\ pass.at \in {"open", "replay"}
               THEN [pass EXCEPT !.at = IF @ = "open" THEN "broken" ELSE "cut"] ELSE pass
    /\ IF est = None /\ ~ended
       THEN est' = Attempt("reconnect") /\ client' = "reconnecting"
       ELSE UNCHANGED <<est, client>>
    /\ UNCHANGED <<log, applied, pending, state, recovering, closed, mailbox>>
    /\ UNCHANGED <<ended, closing, opened, lost>>

(* The lost connection reports its end too, while it is the current one.   *)
FinalStatus ==
    /\ conn = "lost" /\ ~ended
    /\ conn' = "down"
    /\ client' = "disconnected"
    /\ UNCHANGED deliveryVars
    /\ UNCHANGED <<ended, closing, est, opened, sub, live, drops, lost>>

Same == UNCHANGED deliveryVars /\ UNCHANGED <<ended, closing, opened, sub, live, drops, lost>>

(* tokenWithRetry and transport.connect.  Nothing is looked at between two *)
(* tries for a token, so their pause is no step.                           *)
TokenFails ==
    /\ est # None /\ est.at = "token"
    /\ IF est.auth + 1 < MaxAuth
       THEN est' = [est EXCEPT !.auth = @ + 1] /\ UNCHANGED client
       ELSE est' = None /\ client' = "failed"
    /\ UNCHANGED conn /\ Same

Token ==
    /\ est # None /\ est.at = "token"
    /\ est' = [est EXCEPT !.at = "connect"]
    /\ UNCHANGED <<conn, client>> /\ Same

(* Fault: an attempt that has given up leaves the state it had set.        *)
ConnectFailsSilently ==
    /\ est # None /\ est.at = "connect"
    /\ est' = IF est.tries + 1 < MaxConnects
              THEN [est EXCEPT !.tries = @ + 1, !.auth = 0, !.at = "backoff"] ELSE None
    /\ UNCHANGED <<conn, client>> /\ Same

ConnectFails ==
    /\ est # None /\ est.at = "connect"
    /\ IF est.tries + 1 < MaxConnects
       THEN est' = [est EXCEPT !.tries = @ + 1, !.auth = 0, !.at = "backoff"] /\ UNCHANGED client
       ELSE est' = None /\ client' = "disconnected"
    /\ UNCHANGED conn /\ Same

BackoffOver ==
    /\ est # None /\ est.at = "backoff" /\ ~ended
    /\ est' = [est EXCEPT !.at = "token"]
    /\ UNCHANGED <<conn, client>> /\ Same

(* establish() returns, connected or not; only a reconnect re-attaches the *)
(* open handle.  A client closed meanwhile closes the late connection.  A  *)
(* replay the old connection took with it has ended before a new one is    *)
(* made: its end needs no message from the network.                        *)
GivesUp ==
    /\ est # None /\ est.at = "backoff" /\ ended
    /\ est' = None
    /\ conn' = "down"
    /\ UNCHANGED client /\ Same

(* Fault: the late connection of a closed client is kept open.             *)
EstablishedLeaks ==
    /\ est # None /\ est.at = "connect"
    /\ pass # None => pass.at \notin {"cut", "broken"}
    /\ est' = None
    /\ conn' = "up"
    /\ client' = IF ended THEN client ELSE "connected"
    /\ Same

Established ==
    /\ est # None /\ est.at = "connect"
    /\ pass # None => pass.at \notin {"cut", "broken"}
    /\ est' = None
    /\ IF ended
       THEN conn' = "down" /\ UNCHANGED client /\ Same
       ELSE /\ conn' = "up" /\ client' = "connected"
            /\ IF est.how = "reconnect" THEN Resubscribe
               ELSE UNCHANGED <<sub, live, applied, state, recovering, pass>>
            /\ UNCHANGED <<log, pending, closed, mailbox>>
            /\ UNCHANGED <<ended, closing, opened, drops, lost>>

Close ==
    /\ ~ended
    /\ ended' = TRUE /\ closing' = TRUE
    /\ conn' = "down" /\ sub' = FALSE /\ live' = <<>>
    /\ closed' = TRUE
    /\ IF closed THEN UNCHANGED mailbox ELSE End("closed")
    /\ UNCHANGED <<log, applied, pending, state, recovering, pass>>
    /\ UNCHANGED <<client, est, opened, drops, lost>>

CloseEnds ==
    /\ closing
    /\ closing' = FALSE /\ client' = "closed"
    /\ UNCHANGED deliveryVars
    /\ UNCHANGED <<conn, ended, est, opened, sub, live, drops, lost>>

------------------------------------------------------------------------------
Establish ==
    TokenFails \/ Token \/ ConnectFails \/ BackoffOver \/ GivesUp \/ Established

Consume ==
    \/ Read
    \/ /\ StartReading \/ StopReading
       /\ UNCHANGED <<log, applied, pending, state, recovering, closed, pass, queue, done, got>>

Next ==
    \/ Commit \/ LiveFact \/ LoseLive
    \/ Open \/ CloseHandle
    \/ Connect \/ Drop \/ FinalStatus \/ Close \/ CloseEnds \/ Establish
    \/ (Recovery \/ Consume) /\ UNCHANGED sessionVars

Spec == Init /\ [][Next]_vars

Fairness ==
    /\ WF_vars(LiveFact) /\ WF_vars(Establish) /\ WF_vars(CloseEnds)
    /\ WF_vars(Recovery /\ UNCHANGED sessionVars)

FairSpec == Spec /\ Fairness

------------------------------------------------------------------------------
(* Properties.                                                             *)

(* The shape of the state: the passes of a recovery and the tries of an    *)
(* attempt stay below their backoff tables, and nothing is applied or held *)
(* that is not in the log.                                                 *)
TypeOK ==
    /\ conn \in {"never", "up", "lost", "down"}
    /\ log \in 0..MaxLog /\ applied \in 0..log /\ pending \subseteq 1..log
    /\ state \in {"live", "replaying", "degraded", "failed"}
    /\ pass # None => pass.attempt \in 0..(MaxPasses - 1) /\ pass.next \in 1..(log + 1)
    /\ est # None => est.tries \in 0..(MaxConnects - 1) /\ est.auth \in 0..(MaxAuth - 1)
    /\ client \in {"disconnected", "connecting", "connected", "reconnecting", "closed", "failed"}

(* What the consumer has received and what waits for it are the facts      *)
(* 1, 2, 3, ... without gap or repetition, in whichever overlap live and   *)
(* replayed facts came and however often the connection was lost.          *)
InOrderOnce == got \o queue = [k \in 1..applied |-> k]

(* A consumer sees the end, by close or by failure, only after every fact  *)
(* that was delivered before it.                                           *)
EndsAfterAll == reader = "ended" => Len(got) = applied

(* "live" means that no gap is open, and an open gap has a recovery that   *)
(* works on it.                                                            *)
GapIsWorkedOn ==
    /\ state = "live" => pending = {}
    /\ pending # {} /\ ~closed /\ state # "failed" => recovering
    /\ recovering => pass # None

(* A client closed while it connects leaves no connection open, and a      *)
(* subscription belongs to an open handle on a connection that is up.      *)
NoLateConnection ==
    /\ ended /\ est = None => conn # "up"
    /\ sub => conn = "up" /\ opened /\ ~closed

(* Every gap is filled or ends in failure.                                 *)
GapEnds == pending # {} ~> (pending = {} \/ state = "failed" \/ closed)

(* "connecting" and "reconnecting" are not for ever.                       *)
NeverStranded ==
    client \in {"connecting", "reconnecting"} ~> client \notin {"connecting", "reconnecting"}

(* What a handle misses while it has no live subscription is replayed once *)
(* it has one again, without waiting for a later fact.                     *)
MissedIsReplayed ==
    \A n \in 1..MaxLog :
        [](opened /\ ~sub /\ log >= n =>
             <>(applied >= n \/ state = "failed" \/ closed) \/ <>[]~sub)
==============================================================================
