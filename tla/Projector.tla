----------------------------- MODULE Projector ------------------------------
(***************************************************************************)
(* The read plane's fan-out: projector replicas behind a KV lease, of      *)
(* which the holder consumes the interaction logs fact by fact, folds      *)
(* participation, and publishes each fact to the feed of every agent whose *)
(* membership covers it.                                                   *)
(*                                                                         *)
(* The stream is given: facts are consumed in stream order, whenever they  *)
(* were written.  The durable consumer (one message outstanding, at most   *)
(* MaxDeliver deliveries of each), the lease bucket, the snapshot bucket   *)
(* and the feed stream with its dedup window are JetStream's.              *)
(***************************************************************************)
EXTENDS InteractionFacts, FiniteSets

CONSTANTS
  Replicas,        \* projector processes
  Agents,
  Log,             \* the stream: facts [iid, seq, type, actor]
  NoReplica,
  MaxDeliver,      \* deliveries of a message before the broker gives it up
  SnapshotEvery,   \* acks between two snapshots
  MaxHistory,      \* snapshots the bucket keeps
  DrainsInTime,    \* what a fenced holder has under way ends before its lease
  SlowHydrate,     \* hydration may outlast the lease, which nobody renews yet
  SlowReplay,      \* a fetch of FoldRange may time out before the range ends
  MaxFaults        \* bound on failures

VARIABLES
  floor,           \* the consumer's ack floor
  cur,             \* the first message that is not settled
  count,           \* how often it was delivered
  phase,           \* "out" while a delivery of it is outstanding, else "ready"
  exhausted,       \* history: messages given up after MaxDeliver deliveries
  lease,           \* the holder in the lease bucket
  snaps,           \* the snapshot bucket's history, oldest first
  feeds,           \* per agent and interaction, the feed
  dlq,             \* stream sequences of the dead-lettered facts
  pc,              \* where each replica's data loop is
  fence,           \* "ok", "paused" or "lost"
  cancelled,       \* the data context of the current fact is cancelled
  view,            \* the folded membership intervals
  hydrateTo,       \* the ack floor read on takeover
  fact,            \* stream sequence of the fact in process
  delivered,       \* the delivery count it came with
  todo,            \* recipients not yet published to
  sinceSnap,       \* acks since the last snapshot
  faults

consumerVars == <<floor, cur, count, phase, exhausted>>
storeVars == <<lease, snaps, feeds, dlq>>
fenceVars == <<fence, cancelled>>
workVars == <<view, hydrateTo, fact, delivered, todo, sinceSnap>>
vars == <<consumerVars, storeVars, pc, fenceVars, workVars, faults>>

\* A message that does not parse as an event.
Corrupt == "corrupt"

Positions == 1..Len(Log)
Iids == {Log[n].iid : n \in Positions}

\* Within an interaction the router numbers facts upwards from 1.
ASSUME ConstantsOK ==
  /\ NoReplica \notin Replicas
  /\ Log \in Seq({Log[n] : n \in Positions})
  /\ \A n \in Positions : Log[n].seq \in Nat
  /\ \A n \in Positions : Log[n].type # Corrupt =>
       /\ Log[n].seq # 0
       /\ \A m \in 1..(n-1) :
            Log[m].type # Corrupt /\ Log[m].iid = Log[n].iid => Log[m].seq < Log[n].seq
  /\ \A n \in Positions : Log[n].type \in {Joined, Left} => Log[n].actor \in Agents
  /\ MaxDeliver \in Nat \ {0}
  /\ SnapshotEvery \in Nat \ {0}
  /\ MaxHistory \in Nat \ {0}
  /\ MaxFaults \in Nat

-----------------------------------------------------------------------------
(* ParticipationView: membership intervals, closed ones included. *)

Open == 0

HasOpen(v, i, a) == \E in \in v : in.iid = i /\ in.agent = a /\ in.left = Open

\* ApplyFact: a join opens an interval unless one is open, a leave closes it.
Fold(v, f) ==
  CASE f.type = Joined /\ ~HasOpen(v, f.iid, f.actor) ->
         v \union {[iid |-> f.iid, agent |-> f.actor, join |-> f.seq, left |-> Open]}
    [] f.type = Left ->
         {IF in.iid = f.iid /\ in.agent = f.actor /\ in.left = Open
          THEN [in EXCEPT !.left = f.seq] ELSE in : in \in v}
    [] OTHER -> v

\* Fault: who ever joined is a recipient.
CoveredByEver(v, f) == {in.agent : in \in {x \in v : x.iid = f.iid /\ x.join <= f.seq}}

\* coveredBy: the leave itself is still covered.
CoveredBy(v, f) ==
  {in.agent : in \in {x \in v : /\ x.iid = f.iid
                                /\ x.join <= f.seq
                                /\ x.left = Open \/ f.seq <= x.left}}

\* The facts of (lo, hi], folded onto a view.
FoldRange(v, lo, hi) ==
  LET fold[n \in lo..hi] == IF n = lo THEN v ELSE Fold(fold[n-1], Log[n])
  IN  fold[hi]

\* Load: the newest snapshot that is not ahead of the floor.
Load(maxSeq) ==
  LET usable == {k \in DOMAIN snaps : snaps[k].seq <= maxSeq}
  IN  IF usable = {} THEN [seq |-> 0, view |-> {}]
      ELSE snaps[CHOOSE k \in usable : \A j \in usable : j <= k]

-----------------------------------------------------------------------------
Init ==
  /\ floor = 0
  /\ cur = 1
  /\ count = 0
  /\ phase = "ready"
  /\ exhausted = {}
  /\ lease = NoReplica
  /\ snaps = <<>>
  /\ feeds = [x \in Agents \X Iids |-> <<>>]
  /\ dlq = {}
  /\ pc = [p \in Replicas |-> "standby"]
  /\ fence = [p \in Replicas |-> "ok"]
  /\ cancelled = [p \in Replicas |-> FALSE]
  /\ view = [p \in Replicas |-> {}]
  /\ hydrateTo = [p \in Replicas |-> 0]
  /\ fact = [p \in Replicas |-> 0]
  /\ delivered = [p \in Replicas |-> 0]
  /\ todo = [p \in Replicas |-> {}]
  /\ sinceSnap = [p \in Replicas |-> 0]
  /\ faults = 0

Fault ==
  /\ faults < MaxFaults
  /\ faults' = faults + 1

Goto(p, label) == pc' = [pc EXCEPT ![p] = label]

\* The process ends; the pod starts it again as a standby with a new identity.
Forget(p) ==
  /\ Goto(p, "standby")
  /\ fence' = [fence EXCEPT ![p] = "ok"]
  /\ cancelled' = [cancelled EXCEPT ![p] = FALSE]
  /\ view' = [view EXCEPT ![p] = {}]
  /\ hydrateTo' = [hydrateTo EXCEPT ![p] = 0]
  /\ fact' = [fact EXCEPT ![p] = 0]
  /\ delivered' = [delivered EXCEPT ![p] = 0]
  /\ todo' = [todo EXCEPT ![p] = {}]
  /\ sinceSnap' = [sinceSnap EXCEPT ![p] = 0]

\* Release, deferred by Run.
Release(p) == lease' = IF lease = p THEN NoReplica ELSE lease

Leave(p) == Forget(p) /\ Release(p)

-----------------------------------------------------------------------------
(* The durable consumer. *)

\* An ack of an unsettled message, also a late one.
AckMsg(n) ==
  IF n = cur
  THEN /\ floor' = n
       /\ cur' = n + 1
       /\ count' = 0
       /\ phase' = "ready"
       /\ UNCHANGED exhausted
  ELSE UNCHANGED consumerVars

NakMsg(n) ==
  /\ phase' = IF n = cur THEN "ready" ELSE phase
  /\ UNCHANGED <<floor, cur, count, exhausted>>

\* AckWait passes: because nobody works on the message any more ...
AckWaitExpires ==
  /\ phase = "out"
  /\ \A p \in Replicas : fact[p] # cur
  /\ phase' = "ready"
  /\ UNCHANGED <<floor, cur, count, exhausted, storeVars, pc, fenceVars, workVars, faults>>

\* ... or because the one who does is slow.
AckWaitTooShort ==
  /\ phase = "out"
  /\ \E p \in Replicas : fact[p] = cur
  /\ Fault
  /\ phase' = "ready"
  /\ UNCHANGED <<floor, cur, count, exhausted, storeVars, pc, fenceVars, workVars>>

\* A message that used up its deliveries is passed over when the next pull
\* comes; the floor follows with the next ack.
GiveUp ==
  /\ phase = "ready"
  /\ count = MaxDeliver
  /\ \E p \in Replicas : pc[p] = "fetch"
  /\ cur' = cur + 1
  /\ count' = 0
  /\ exhausted' = exhausted \union {cur}
  /\ UNCHANGED <<floor, phase, storeVars, pc, fenceVars, workVars, faults>>

-----------------------------------------------------------------------------
(* The lease, and the fence that renewals drive. *)

Acquire(p) ==
  /\ pc[p] = "standby"
  /\ lease = NoReplica
  /\ lease' = p
  /\ Goto(p, "floor")
  /\ UNCHANGED <<consumerVars, snaps, feeds, dlq, fenceVars, workVars, faults>>

\* A replica that died does not renew, nor one that still hydrates.  A live one
\* is paused by the first renewal that fails, before the TTL (RenewBudget).
Unrenewed(p) ==
  CASE pc[p] = "standby"             -> TRUE
    [] pc[p] \in {"floor", "hydrate"} -> SlowHydrate
    [] OTHER                         -> fence[p] # "ok" /\ (DrainsInTime => pc[p] = "live")

\* Fault: the bucket was made without a TTL.
LeaseWithoutTTL == FALSE /\ UNCHANGED vars

\* The key's TTL passes without a renewal.
LeaseExpires ==
  \E p \in Replicas :
    /\ lease = p
    /\ Unrenewed(p)
    /\ lease' = NoReplica
    /\ UNCHANGED <<consumerVars, snaps, feeds, dlq, pc, fenceVars, workVars, faults>>

\* renewBudget: how long an attempt to renew may take, how many attempts there
\* are and the pause between two, from the TTL and the renewal interval.
RenewAttempts == 3
RenewBackoff == 300000000

BackoffOf(budget) ==
  IF (RenewAttempts - 1) * RenewBackoff >= budget
  THEN (budget \div RenewAttempts) \div 2
  ELSE RenewBackoff

PerAttempt(budget) == (budget - (RenewAttempts - 1) * BackoffOf(budget)) \div RenewAttempts

RenewBudget(ttl, interval) ==
  LET budget == ((ttl - interval) * 9) \div 10
  IN  IF ttl <= interval THEN [perAttempt |-> 1000000, attempts |-> 1, backoff |-> 0]
      ELSE IF PerAttempt(budget) <= 0 THEN [perAttempt |-> budget, attempts |-> 1, backoff |-> 0]
      ELSE [perAttempt |-> PerAttempt(budget), attempts |-> RenewAttempts, backoff |-> BackoffOf(budget)]

\* What renewWithRetry takes at most: it times out on every attempt.
RenewTime(b) == b.attempts * b.perAttempt + (b.attempts - 1) * b.backoff

Serving(p) == pc[p] \notin {"standby", "floor", "hydrate"}

\* One failed renewal stops the data path.
RenewFails(p) ==
  /\ Serving(p)
  /\ fence[p] = "ok"
  /\ IF lease = p THEN Fault ELSE UNCHANGED faults
  /\ fence' = [fence EXCEPT ![p] = "paused"]
  /\ cancelled' = [cancelled EXCEPT ![p] = TRUE]
  /\ UNCHANGED <<consumerVars, storeVars, pc, workVars>>

\* A retry succeeds, the key being still this replica's, or all have failed.
RenewRetried(p) ==
  /\ Serving(p)
  /\ fence[p] = "paused"
  /\ \/ lease = p /\ fence' = [fence EXCEPT ![p] = "ok"]
     \/ fence' = [fence EXCEPT ![p] = "lost"]
  /\ UNCHANGED <<consumerVars, storeVars, pc, cancelled, workVars, faults>>

\* SIGTERM cancels the parent context.
Shutdown(p) ==
  /\ Serving(p)
  /\ fence[p] = "ok"
  /\ Fault
  /\ fence' = [fence EXCEPT ![p] = "lost"]
  /\ cancelled' = [cancelled EXCEPT ![p] = TRUE]
  /\ UNCHANGED <<consumerVars, storeVars, pc, workVars>>

Crash(p) ==
  /\ pc[p] # "standby"
  /\ Fault
  /\ Forget(p)
  /\ UNCHANGED <<consumerVars, storeVars>>

-----------------------------------------------------------------------------
(* Takeover: Hydrate. *)

ReadFloor(p) ==
  /\ pc[p] = "floor"
  /\ hydrateTo' = [hydrateTo EXCEPT ![p] = floor]
  /\ Goto(p, "hydrate")
  /\ UNCHANGED <<consumerVars, storeVars, fenceVars, view, fact, delivered, todo, sinceSnap, faults>>

\* Fault: only the snapshot, without the facts since.
HydrateFromSnapshotOnly(p) ==
  /\ pc[p] = "hydrate"
  /\ view' = [view EXCEPT ![p] = Load(hydrateTo[p]).view]
  /\ Goto(p, "live")
  /\ UNCHANGED <<consumerVars, storeVars, fenceVars, hydrateTo, fact, delivered, todo, sinceSnap, faults>>

\* The snapshot and the facts from there to the floor.  FoldRange takes a fetch
\* that times out for the end of the range.
Hydrate(p) ==
  LET snap == Load(hydrateTo[p])
  IN  /\ pc[p] = "hydrate"
      /\ \E hi \in (IF SlowReplay THEN snap.seq ELSE hydrateTo[p])..hydrateTo[p] :
           view' = [view EXCEPT ![p] = FoldRange(snap.view, snap.seq, hi)]
      /\ Goto(p, "live")
      /\ UNCHANGED <<consumerVars, storeVars, fenceVars, hydrateTo, fact, delivered, todo, sinceSnap, faults>>

HydrateFails(p) ==
  /\ pc[p] \in {"floor", "hydrate"}
  /\ Fault
  /\ Leave(p)
  /\ UNCHANGED <<consumerVars, snaps, feeds, dlq>>

-----------------------------------------------------------------------------
(* The data loop. *)

\* fence.begin: a fresh data context, or the end of Run.
Begin(p) ==
  /\ pc[p] = "live"
  /\ fence[p] = "ok"
  /\ cancelled' = [cancelled EXCEPT ![p] = FALSE]
  /\ Goto(p, "fetch")
  /\ UNCHANGED <<consumerVars, storeVars, fence, workVars, faults>>

Exit(p) ==
  /\ pc[p] = "live"
  /\ fence[p] = "lost"
  /\ Leave(p)
  /\ UNCHANGED <<consumerVars, snaps, feeds, dlq, faults>>

\* Deliver sees the cancelled context, or the fetch fails.
FetchEnds(p) ==
  /\ pc[p] = "fetch"
  /\ \/ cancelled[p] /\ Goto(p, "live") /\ UNCHANGED <<lease, fenceVars, workVars, faults>>
     \/ ~cancelled[p] /\ Fault /\ Leave(p)
  /\ UNCHANGED <<consumerVars, snaps, feeds, dlq>>

\* Nothing to deliver: the fetch times out and is repeated.
FetchTimesOut(p) ==
  /\ pc[p] = "fetch"
  /\ ~cancelled[p]
  /\ cur > Len(Log)
  /\ UNCHANGED vars

\* Where process goes when no publish of a fact is left.  A cancelled context
\* starts none.
AfterFanout(p, n) == IF Log[n].type = Left /\ ~cancelled[p] THEN "tombstone" ELSE "settle"

\* A fetch returns a fact, cancelled or not, and process starts: it is folded
\* before the recipients are picked.
Deliver(p) ==
  LET f == Log[cur]
      v == Fold(view[p], f)
      recipients == IF cancelled[p] THEN {} ELSE CoveredBy(v, f)
  IN  /\ pc[p] = "fetch"
      /\ phase = "ready"
      /\ count < MaxDeliver
      /\ cur <= Len(Log)
      /\ phase' = "out"
      /\ count' = count + 1
      /\ fact' = [fact EXCEPT ![p] = cur]
      /\ delivered' = [delivered EXCEPT ![p] = count + 1]
      /\ \/ /\ f.type = Corrupt
            /\ Goto(p, "failing")
            /\ UNCHANGED <<view, todo>>
         \/ /\ f.type # Corrupt
            /\ view' = [view EXCEPT ![p] = v]
            /\ todo' = [todo EXCEPT ![p] = recipients]
            /\ Goto(p, IF recipients = {} THEN AfterFanout(p, cur) ELSE "fanout")
      /\ UNCHANGED <<floor, cur, exhausted, storeVars, fenceVars, hydrateTo, sinceSnap, faults>>

\* Fault: no dedup id on the message.
StoreAgain(a, n, kind) ==
  feeds' = [feeds EXCEPT ![<<a, Log[n].iid>>] = Append(@, [seq |-> Log[n].seq, kind |-> kind])]

\* The feed stream keeps one message per dedup id.
Store(a, n, kind) ==
  LET msg == [seq |-> Log[n].seq, kind |-> kind]
      x == <<a, Log[n].iid>>
  IN  feeds' = IF \E k \in DOMAIN feeds[x] : feeds[x][k] = msg THEN feeds
               ELSE [feeds EXCEPT ![x] = Append(@, msg)]

\* One of the concurrent publishes of a fact; one that is under way may still
\* land after the context was cancelled.
Publish(p, a) ==
  /\ pc[p] = "fanout"
  /\ a \in todo[p]
  /\ Store(a, fact[p], "fact")
  /\ todo' = [todo EXCEPT ![p] = @ \ {a}]
  /\ Goto(p, IF todo[p] = {a} THEN AfterFanout(p, fact[p]) ELSE "fanout")
  /\ UNCHANGED <<consumerVars, lease, snaps, dlq, fenceVars, view, hydrateTo, fact, delivered, sinceSnap, faults>>

\* The revoked marker that closes the leaving agent's feed.
Tombstone(p) ==
  /\ pc[p] = "tombstone"
  /\ Store(Log[fact[p]].actor, fact[p], "revoked")
  /\ Goto(p, "settle")
  /\ UNCHANGED <<consumerVars, lease, snaps, dlq, fenceVars, workVars, faults>>

\* The fact is done with, for this delivery.
Done(p, label) ==
  /\ Goto(p, label)
  /\ fact' = [fact EXCEPT ![p] = 0]
  /\ delivered' = [delivered EXCEPT ![p] = 0]
  /\ todo' = [todo EXCEPT ![p] = {}]

Nak(p) ==
  /\ NakMsg(fact[p])
  /\ Done(p, "live")
  /\ UNCHANGED <<view, hydrateTo, sinceSnap>>

\* A publish fails for good, because of the fence or after its retries; what
\* failed may have landed.
PublishFails(p) ==
  /\ \/ pc[p] = "fanout" /\ \E a \in todo[p] : Store(a, fact[p], "fact")
     \/ pc[p] = "tombstone" /\ Store(Log[fact[p]].actor, fact[p], "revoked")
     \/ pc[p] \in {"fanout", "tombstone"} /\ UNCHANGED feeds
  /\ \/ cancelled[p] /\ Nak(p) /\ UNCHANGED faults
     \/ ~cancelled[p] /\ Fault /\ Goto(p, "failing") /\ UNCHANGED <<consumerVars, workVars>>
  /\ UNCHANGED <<lease, snaps, dlq, fenceVars>>

\* The broker takes a dead letter on a valid subject only; that of a corrupt
\* fact has an empty tenant token.
DlqAccepts(n) == Log[n].type # Corrupt

\* dlqOrNak: another delivery, or the dead-letter queue after the last one.
DlqOrNak(p) ==
  /\ pc[p] = "failing"
  /\ \/ /\ delivered[p] < MaxDeliver
        /\ Nak(p)
        /\ UNCHANGED <<dlq, faults>>
     \/ /\ delivered[p] >= MaxDeliver
        /\ DlqAccepts(fact[p])
        /\ dlq' = dlq \union {fact[p]}
        /\ Goto(p, "dlqAck")
        /\ UNCHANGED <<consumerVars, workVars, faults>>
     \/ /\ delivered[p] >= MaxDeliver
        /\ \/ DlqAccepts(fact[p]) /\ Fault
           \/ ~DlqAccepts(fact[p]) /\ UNCHANGED faults
        /\ Nak(p)
        /\ UNCHANGED dlq
  /\ UNCHANGED <<lease, snaps, feeds, fenceVars>>

\* A fenced holder must not ack.
CheckFence(p) ==
  /\ pc[p] = "settle"
  /\ \/ cancelled[p] /\ Nak(p)
     \/ ~cancelled[p] /\ Goto(p, "ack") /\ UNCHANGED <<consumerVars, workVars>>
  /\ UNCHANGED <<storeVars, fenceVars, faults>>

\* AckSync, which no context bounds.
Ack(p) ==
  /\ pc[p] \in {"ack", "dlqAck"}
  /\ AckMsg(fact[p])
  /\ IF pc[p] = "ack" THEN Goto(p, "snapshot") /\ UNCHANGED workVars
                      ELSE Done(p, "live") /\ UNCHANGED <<view, hydrateTo, sinceSnap>>
  /\ UNCHANGED <<storeVars, fenceVars, faults>>

\* ... returns an error, whether the broker got it or not: Run ends, unless the
\* fence explains it.
AckFails(p) ==
  /\ pc[p] \in {"ack", "dlqAck"}
  /\ Fault
  /\ AckMsg(fact[p]) \/ UNCHANGED consumerVars
  /\ IF cancelled[p]
     THEN Done(p, "live") /\ UNCHANGED <<lease, fenceVars, view, hydrateTo, sinceSnap>>
     ELSE Leave(p)
  /\ UNCHANGED <<snaps, feeds, dlq>>

\* Fault: the bucket keeps every snapshot.
PutUnbounded(s) == Append(snaps, s)

\* Keep the last MaxHistory.
Put(s) ==
  IF Len(snaps) < MaxHistory THEN Append(snaps, s) ELSE Append(Tail(snaps), s)

\* Fault: the snapshot is labelled with the next sequence.
SnapshotAhead(p) ==
  /\ pc[p] = "snapshot"
  /\ snaps' = Put([seq |-> fact[p] + 1, view |-> view[p]])
  /\ Done(p, "live")
  /\ UNCHANGED <<consumerVars, lease, feeds, dlq, fenceVars, view, hydrateTo, sinceSnap, faults>>

\* maybeSnapshot: a failed Save, landed or not, is tried again after the next ack.
MaybeSnapshot(p) ==
  /\ pc[p] = "snapshot"
  /\ \/ /\ sinceSnap[p] + 1 < SnapshotEvery
        /\ sinceSnap' = [sinceSnap EXCEPT ![p] = @ + 1]
        /\ UNCHANGED <<snaps, faults>>
     \/ /\ sinceSnap[p] + 1 >= SnapshotEvery
        /\ snaps' = Put([seq |-> fact[p], view |-> view[p]])
        /\ sinceSnap' = [sinceSnap EXCEPT ![p] = 0]
        /\ UNCHANGED faults
     \/ /\ sinceSnap[p] + 1 >= SnapshotEvery
        /\ sinceSnap' = [sinceSnap EXCEPT ![p] = @ + 1]
        /\ snaps' \in {snaps, Put([seq |-> fact[p], view |-> view[p]])}
        /\ IF cancelled[p] THEN UNCHANGED faults ELSE Fault
  /\ Done(p, "live")
  /\ UNCHANGED <<consumerVars, lease, feeds, dlq, fenceVars, view, hydrateTo>>

\* What a replica does of itself, and what befalls it.
Step(p) ==
  \/ ReadFloor(p)
  \/ Hydrate(p)
  \/ Begin(p)
  \/ Exit(p)
  \/ FetchTimesOut(p)
  \/ Deliver(p)
  \/ \E a \in Agents : Publish(p, a)
  \/ Tombstone(p)
  \/ DlqOrNak(p)
  \/ CheckFence(p)
  \/ Ack(p)
  \/ MaybeSnapshot(p)

Trouble(p) ==
  \/ RenewFails(p)
  \/ Shutdown(p)
  \/ Crash(p)
  \/ HydrateFails(p)
  \/ FetchEnds(p)
  \/ PublishFails(p)
  \/ AckFails(p)

Next ==
  \/ \E p \in Replicas : Acquire(p) \/ RenewRetried(p) \/ Step(p) \/ Trouble(p)
  \/ AckWaitExpires
  \/ AckWaitTooShort
  \/ GiveUp
  \/ LeaseExpires

Spec == Init /\ [][Next]_vars

\* The scheduler runs a live replica, the broker's timers run out, and a
\* cancelled fetch is noticed.  Nothing makes a replica fail.
Fairness ==
  /\ \A p \in Replicas :
       /\ WF_vars(Step(p))
       /\ WF_vars(Acquire(p))
       /\ WF_vars(RenewRetried(p))
       /\ WF_vars(cancelled[p] /\ FetchEnds(p))
  /\ WF_vars(AckWaitExpires)
  /\ WF_vars(GiveUp)
  /\ WF_vars(LeaseExpires)

FairSpec == Spec /\ Fairness

-----------------------------------------------------------------------------
(* What the feeds promise, stated on the log alone. *)

SameActor(j, n, a) == Log[j].iid = Log[n].iid /\ Log[j].actor = a

\* The agent takes part at the fact: it joined up to there and did not leave
\* before.
TakesPart(a, n) ==
  \E k \in 1..n : /\ Log[k].type = Joined
                  /\ SameActor(k, n, a)
                  /\ \A j \in (k+1)..(n-1) : Log[j].type = Left => ~SameActor(j, n, a)

Feed(a, i) == {feeds[<<a, i>>][k] : k \in DOMAIN feeds[<<a, i>>]}

Message(n, kind) == [seq |-> Log[n].seq, kind |-> kind]

\* No participation fact was passed over after its last delivery: the folds are
\* not promised anything beyond that.
FoldsAreFed == \A n \in exhausted : Log[n].type \notin {Joined, Left}

-----------------------------------------------------------------------------
(* Properties. *)

Intervals == [iid : Iids, agent : Agents, join : Nat, left : Nat]

Labels == {"standby", "floor", "hydrate", "live", "fetch", "fanout", "tombstone", "failing",
           "settle", "ack", "dlqAck", "snapshot"}

\* The variables keep their shape: one message is outstanding at most, no message
\* is delivered more than max_deliver times, the bucket keeps its history bound,
\* and a replica holds a fact exactly while it processes one.
TypeOK ==
  /\ floor \in 0..Len(Log)
  /\ cur \in (floor + 1)..(Len(Log) + 1)
  /\ count \in 0..MaxDeliver
  /\ phase \in {"ready", "out"}
  /\ exhausted \subseteq Positions
  /\ lease \in Replicas \union {NoReplica}
  /\ Len(snaps) <= MaxHistory
  /\ \A k \in DOMAIN snaps : snaps[k].seq \in Positions /\ snaps[k].view \subseteq Intervals
  /\ \A x \in Agents \X Iids : \A k \in DOMAIN feeds[x] :
       feeds[x][k].seq \in Nat /\ feeds[x][k].kind \in {"fact", "revoked"}
  /\ dlq \subseteq Positions
  /\ pc \in [Replicas -> Labels]
  /\ fence \in [Replicas -> {"ok", "paused", "lost"}]
  /\ cancelled \in [Replicas -> BOOLEAN]
  /\ \A p \in Replicas :
       /\ view[p] \subseteq Intervals
       /\ hydrateTo[p] \in 0..Len(Log)
       /\ fact[p] \in 0..Len(Log)
       /\ (fact[p] # 0) = (pc[p] \in {"fanout", "tombstone", "failing", "settle", "ack", "dlqAck", "snapshot"})
       /\ delivered[p] \in 0..MaxDeliver
       /\ todo[p] \subseteq Agents
       /\ (todo[p] # {}) => pc[p] \in {"fanout", "failing", "dlqAck"}
       /\ sinceSnap[p] \in Nat
  /\ faults \in 0..MaxFaults

\* What is settled has been projected: below the ack floor every fact is in the
\* feed of every agent that takes part at it, a leave with its revoked marker,
\* unless it was dead-lettered or passed over by the broker.  Whoever acked it,
\* and whatever crash, takeover or retry came between (process, Hydrate).
FeedComplete ==
  FoldsAreFed =>
    \A n \in (1..floor) \ (dlq \union exhausted) :
      Log[n].type # Corrupt =>
        /\ \A a \in Agents : TakesPart(a, n) => Message(n, "fact") \in Feed(a, Log[n].iid)
        /\ Log[n].type = Left => Message(n, "revoked") \in Feed(Log[n].actor, Log[n].iid)

\* No agent is shown a fact of an interaction it does not take part in at that
\* point, nor a revoked marker but for its own leave (coveredBy).
OnlyParticipants ==
  FoldsAreFed =>
    \A a \in Agents, i \in Iids : \A m \in Feed(a, i) :
      \E n \in Positions :
        /\ Log[n].iid = i
        /\ m \in {Message(n, "fact"), Message(n, "revoked")}
        /\ m.kind = "fact" => TakesPart(a, n)
        /\ m.kind = "revoked" => Log[n].type = Left /\ Log[n].actor = a

\* A feed is in sequence order and shows each fact once, the revoked marker
\* right behind the leave it is for, although facts are published again after
\* every nak, crash and takeover (the dedup ids, MaxAckPending=1).
Rank(m) == 2 * m.seq + (IF m.kind = "revoked" THEN 1 ELSE 0)

FeedInOrder ==
  FoldsAreFed =>
    \A x \in Agents \X Iids : \A j, k \in DOMAIN feeds[x] :
      j < k => Rank(feeds[x][j]) < Rank(feeds[x][k])

\* A stored snapshot is the fold of an acked prefix, of exactly the facts its
\* label says, whoever stored it and when (maybeSnapshot, restore).
SnapshotIsFold ==
  FoldsAreFed =>
    \A k \in DOMAIN snaps : /\ snaps[k].seq <= floor
                            /\ snaps[k].view = FoldRange({}, 0, snaps[k].seq)

\* The fan-out gets past every fact: no failure, crash, lost lease or corrupt
\* message wedges the consumer for ever.
EverythingSettles == <>[](cur > Len(Log))

\* A fact the broker passes over after its last delivery is at least in the
\* dead-letter queue.
NeverSilentlyDropped == exhausted \subseteq dlq
=============================================================================
