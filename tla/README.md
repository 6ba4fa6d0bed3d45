# Verification of relaypoint

relaypoint is a signaling plane over NATS JetStream: commands of agents,
visitors and backends become facts of an interaction's log, and facts are fanned
out to the feeds of the agents that take part. Beside it two projections in
PostgreSQL follow other services (who shall participate; where a call is routed),
an outbox acknowledges deliveries, and a TypeScript client delivers an
interaction's facts in order. This directory holds TLA+ modules of all these
parts, the TLC configurations that check them, and TLAPS proofs. `PROJECT.json` maps every
definition to the lines it stands for, and lists runs, mutants, findings,
hazards and theorems.

    tlc -workers 2 -config RouterHandOver.cfg MCRouter
    tlapm RouterProofs.tla
    tlapm ProjectorProofs.tla

## 1. Inventory

| Component | State | Operations | Talks to |
|---|---|---|---|
| Router (`internal/signaling/router.go`) | map of `interactionState`: dense `seq`, OCC token `streamSeq`, `status`, dedup `results`, membership `part`, `parents`, `poisoned` | `HandleCommand`, `handleParticipation`, `appendParticipationFact`, `reconcile`, `reconcileDup`, `getState`, `rebuild`, eviction | log store; clients by request/reply in a queue group |
| Log store (`internal/signaling/store.go`) | stream `INTERACTION_LOGS`, one subject per interaction, dedup window | `Append` with message id and expected last subject sequence, `Replay` | JetStream |
| Participation fold (`participation.go`) | membership intervals per agent | `ApplyFact`, `IsParticipantNow` | router, projector |
| Projector (`internal/projector/projector.go`) | lease and fence, folded view, ack count since the last snapshot | `Run`, `Hydrate`, `process`, `fanout`, `tombstone`, `dlqOrNak`, `maybeSnapshot`, lease renewal | durable consumer, feed stream, lease and snapshot buckets |
| Projector adapters (`nats.go`) and process (`cmd/projector`) | the JetStream objects above | `Deliver`, `FoldRange`, `Publish`, `Dlq`, `Acquire`, `Renew`, `Save`, `Load` | JetStream |
| Participation command projector (`internal/participation*`) | versioned fold, ledgers, reconcile intents, dead letters in PostgreSQL | `Apply`, `reconcile`, `snapshot`, consumer `handle` | work queue, authority over NATS, PostgreSQL |
| Route projection (`internal/routeprojection`, `deliverypg/projection.go`) | versioned projection with visibility and lease end | `Apply`, `Visible`, `reconcile` | call router, PostgreSQL |
| Delivery (`internal/delivery`, `deliverypg/store.go`, `deliverygrpc`) | accepted authorizations, acknowledgement outbox with claims | accept, `Claim`, `Complete`, `Retry` | call router, PostgreSQL |
| Auth callout (`internal/authcallout`) | cached key set, fetch time, unknown-kid cooldown | `Verify`, `keySet`, `refetch`, grants | JWKS endpoint, NATS server |
| TypeScript client (`clients/typescript/src`) | connection state, establishing attempt; per handle the applied sequence, pending facts, recovery loop, mailbox | `connect`, `reconnect`, `close`, `open`, `resubscribe`, `offer`, `prime`, `recover`, `send`, agent feed | NATS |
| Health, observability, generated code, schema, deployment | none that feeds back | | |

What is hard here:

* **Several writers, one log.** Router replicas decide on caches that others make
  stale. Only the expected-last-sequence check of the broker (OCC) makes a
  decision stand, and only a re-fold makes a loser's next decision right.
* **An append whose outcome is unknown.** It was lost, committed without an ack,
  or is still on its way.
* **Two dedup mechanisms**, the broker's window and the router's bounded cache,
  neither of which outlives everything, and a broker that may check OCC or dedup
  first.
* **Commands of several facts**: a transfer is a join and a leave, and may stop
  half-way.
* **Takeover of the projector**: a lease, a fence, an ack floor and a snapshot
  that belong to different systems and change at different times.
* **At-least-once consumption** with a delivery bound, dead letters and one
  message outstanding.
* **Versioned folds with holes**: commands and facts arrive early, late, twice or
  not at all; the missing ones are asked for outside any transaction, and what is
  installed afterwards was computed from what was read before.
* **Claims that run out under their owner**, and calls that fail after they took
  effect.
* **Gap recovery racing live delivery** in the client, over a connection that is
  lost, made again or closed at every await.
* In the part not modelled: a key set that is fetched once for all who wait.

What makes each component correct:

* write plane: every fact is legal where it stands, the sequence of a log is
  dense, a command id has one fact, only members write, `accepted` means durable
  with the answered payload, a transfer leaves no gap in coverage and completes;
* projector: below the ack floor every fact is in the feed of everyone who takes
  part at it and of nobody else, once and in order; snapshots are folds of acked
  prefixes; no failure wedges it; nothing disappears without a dead letter;
* projections: the fold is that of a ledger without silent gaps, a version has one
  identity for good, what is taken off the queue is recorded, a pending intent
  still has someone to close it, and a delivery is visible only under an
  authorization accepted here;
* outbox: one receipt per authorization, a completed row tells the truth, and
  every acceptance is settled;
* client: facts come out in sequence, each once, before the end is seen; a gap
  ends filled or failed; no state is left in between; a closed client keeps no connection.

## 2. Modules

| Module | What it is |
|---|---|
| `InteractionFacts` | facts, lifecycle, and what is folded from a log: status, membership, last sequences |
| `InteractionLog` | the abstract promise of the write plane: a log per interaction that grows by legal facts with new ids, and answers only for durable facts |
| `Router` | the write plane, with the broker's side of `Append` and `Replay` |
| `MCRouter` | instances: replicas, commands, initial logs |
| `InductionTheorems` | induction along a range, and that a recursion over a range has a solution |
| `InteractionFactsProofs`, `RouterProofs` | lemmas on the folds; type correctness, legality, durability, the order of a transfer, one fact per id, OCC tokens, numbering, membership, accepted payloads, the refinement of `InteractionLog` |
| `Projector`, `MCProjector` | the fan-out, with the consumer, buckets and feed stream |
| `ProjectorProofs` | the renewal budget; what the fold of a log holds; the promises of feeds and snapshots |
| `ParticipationProjection`, `MCParticipation` | the participation command projector with its work queue, tables and authority |
| `ParticipationProofs` | the fold, the accounting of messages, intents, the ledger |
| `CallRouter` | external: the call router's history as the delivery code depends on it |
| `DeliveryOutbox`, `MCOutbox` | acceptance of deliveries and the acknowledgement outbox; extends `CallRouter` |
| `DeliveryOutboxProofs` | receipts, completion, permanence |
| `RouteProjection`, `MCRouteProjection` | the route projection, composed with the outbox: ringing facts are caused by acknowledgements |
| `RouteProjectionProofs` | authorization, audited gaps, the ledger, agreement with the route |
| `ClientDelivery` | `Delivery` and `Mailbox` of the TypeScript client |
| `ClientSession`, `MCClient` | `RelayPointClient`, one `InteractionHandle` and the transport; extends `ClientDelivery` |
| `ClientProofs` | order and end of delivery, recovery, the connection |

### Router

A *router* is a process with its map `inter`; a *worker* is a goroutine that runs
`HandleCommand`. The deployed router has one, as a NATS subscription runs its
callback serially; the `Router` type allows several, which share state objects.
Objects are in a heap (`objs`) because a worker may still hold one that was
poisoned or evicted while it waited for the mutex. The mutex is modelled as the
set of labels at which it is held (`Holding`).

Steps are cut where another process can act: at every call to the broker and at
every lock. From the checks at the head of the loop to the broker's decision on
`Append` nothing of another worker intervenes on the same object, so checks and
decision are one step; a step that is overtaken by another router's append is
the step that sees `"conflict"`.

| Code | Definitions |
|---|---|
| validation, trusted backends, dev mode | `Admissible`, `IsTrusted`, `IsAuthenticated` |
| sub-facts and ids of privileged commands | `ParticipationFacts`, `Item`, `SubIds` |
| `getState`, `rebuild`, `pruneLocked` | `GetCached`, `GetRebuilt`, `GetFails`, `Rebuild`, `Survivors` |
| head of the loops in `HandleCommand` and `appendParticipationFact` | `RejectPoisoned`, `AnswerStored`, `RejectNonMember`, `RejectIllegal` |
| `Append` and its outcomes | `AppendCommits`, `AppendConflicts`, `AppendDuplicates`, `AppendErrs`, `LateAppend`, `Outcome` |
| OCC loser, failed append, duplicate | `Refold`, `Reconcile`, `ReconcileDup` |
| `handleParticipation`, before and after its facts | `CheckParents`, `FinishParticipation` |
| restart, dedup window | `Crash`, `DedupExpiry` |

Abstractions. A payload hash is the tuple of what is hashed, so hashes are equal
exactly when payloads are. Time is abstract: any idle entry may be pruned, and a
fact leaves the dedup window at any time when `DedupExpires`. A timeout of
`Append` is one of the three outcomes in `AppendFaults`. Metrics and logs are
left out. `Slots` bounds the heap at more objects than can be referenced at once
in the instances, so it restricts nothing.

### Projector

The log is a constant: facts are consumed in stream order, whenever they were
written. The durable consumer is `floor`, `cur`, `count` and `phase`; with one
message outstanding there is nothing more to it. A replica goes through standby,
`ReadFloor`, `Hydrate`, live, `Deliver`, one `Publish` per recipient,
`Tombstone`, `CheckFence`, `Ack`, `MaybeSnapshot`. Renewal runs beside it:
`RenewFails` fences and cancels the data context, `RenewRetried` resumes or loses
the lease, `Exit` joins the loop. A runtime that ends takes its process with it
(`cmd/projector/main.go`), and the next has a new identity.

Abstractions. The feed's limits of age and size and the end of its dedup window
are left out. A nak that fails is the same as one that never comes: the delivery
ends by AckWait. Facts without a tenant are not modelled. A message that does
not parse has no tenant or interaction, so its dead-letter subject has empty
tokens and is never accepted by the broker; `DlqAccepts` says so.

`DrainsInTime` is the timing assumption of the passing run: what a holder has
under way when it is fenced ends before a standby can own the lease. Renewal
comes every 2 s of a 5 s TTL; `RenewalEndsInTime` proves that the attempts end in
time for every setting. Nothing in the code bounds the `AckSync` that may be
under way by then, so `ProjectorTakeover` drops the assumption.

### Participation command projector

One interaction of one tenant. A table transaction is one step, so everything
that reads before and writes after a call to the authority is exposed to the
other consumer. `Fetch` hands out the one outstanding message, to a second
consumer too: that is AckWait running out under the first.

| Code | Definitions |
|---|---|
| `EnsureStream`, `Consumer.Run`, `handle` | `Messages`, `Fetch`, `Settle` (ack and term, which may be lost), `Nak` |
| `Projector.Apply` to its first write, `Store.Load` | `Load`, `Retained` |
| `Install`, `installRecords`, `insertLedgers` | `Install`, `InstallRecords`, `FoldRecords` |
| `reconcile`: `BeginReconcile`, `Replay`, `validateReplay` | `Begin`, `Replay`, `Historical`, `From` |
| `InstallReconcile`, `InstallHistorical`, `completeReconcile` | the same names, `Complete`, `Overtaken` |
| `snapshot`, `validateSnapshot`, `InstallSnapshot` | `Snapshot`, `InstallSnapshot` |
| `failReconcile`, `FailReconcile`, `mapWireError` | `RequestFails`, `FailReconcile` |
| `RecordPoison`, `insertAudit` | `RecordPoison`, `Audit` |

Abstractions. A command is its version and whether it is the authority's own or a
*stray*: same version, another identity. A reconcile token is named by the held
command, which the key of `participation_pending_inputs` makes unique. A
transaction that fails and a process that stops are the same step (`Stop`). An
answer that breaks the authority's contract sets `malformed`; what is only
claimed of a well-behaved authority has the antecedent `Trusted`. Messages that
do not decode or do not fit their subject are terminated before anything is read
and are left out.

### Delivery outbox and route projection

`CallRouter` is the other side of two ports. It rings the reservation an
acknowledgement names by route version, once per receipt, and otherwise answers
that it has expired; it retains facts from a floor on.

| Code | Definitions |
|---|---|
| `Server.AcceptDelivery`, `Service.AcceptDelivery`, `Store.Append` | `AcceptDelivery`, `Reply` |
| `Store.Claim` | `Claimable`, `Claim` |
| `AckWorker.ProcessOne` | `CallRouterAck`, `ProcessOne` |
| `Store.Complete`, `Store.Retry` | `Complete`, `Retry`, `Fenced` |
| `Projector.Apply`, `Store.Load` | `Apply`, `Load`, `RecordPoison` |
| `FoldBatch`, `installBatchTx` | `FoldFact`, `FoldBatch`, `InstallFacts`, `InstallBatch` |
| `reconcile`, `BeginReconcile`, `pendingIntentMatches` | `Begin`, `Replay`, `FreshToken`, `IntentHeld`, `Overtaken` |
| `InstallReconcileBatch`, `InstallHistoricalIdentity`, `InstallSnapshotAndAudit` | the same names |
| `validateAuthorizationBindings`, `Store.Authorization` | `Bound`, `BoundAll` |

Abstractions. The hash of an authorization is its body, so equal hashes are equal
bodies. A claim may run out at any time; when its worker is still at work that
counts as a fault, so that early expiry is bounded. A claim token is the worker
that made it: it makes the next one only when it has finished with the last.
A lease is there or cleared; its end by the clock, which `Visible` compares, is
not modelled. Nothing in `cmd/` feeds `routeprojection.Projector` or runs
`AckWorker`, so facts are applied in any order, any number of times, by several
appliers, and workers keep calling `ProcessOne`.

### TypeScript client

JavaScript runs to the next await, so a step is the code between two awaits;
`pass` says where `recover` is and `est` where `establish` is. A fact is its
sequence number. `Drop` is the connection's end: subscriptions go with it, a
replay that is being opened throws and one under way ends without an error, as
the adapter's iterator does. `FinalStatus` is the second status the adapter
reports for the same loss.

| Code | Definitions |
|---|---|
| `offer`, `prime`, `close`, `drainContiguous` | `Offer`, `Prime`, `CloseDelivery`, `Reach`, `Drain` |
| `recover` | `Recover`, `PassReturns`, `PassThrows`, `WaitOver`, `Leave`, `Fail` |
| `Mailbox` | `Push`, `End`, `Read`, `StartReading`, `StopReading` |
| adapter `replay` | `OpenReplay`, `ReplayedFact`, `ReplayEnds`, `ReplayCut` |
| `InteractionHandle` | `Open`, `Attach`, `Resubscribe`, `CloseHandle` |
| `connect`, `reconnect`, `establish`, `tokenWithRetry`, `close` | `Connect`, `Drop`, `TokenFails`, `Token`, `ConnectFails`, `BackoffOver`, `GivesUp`, `Established`, `Close`, `CloseEnds` |

Assumed: a replay the old connection took with it has ended before the next
connection stands, since its end needs no message from the network; and the
adapter reports a lost connection before it reports its end.

## 3. Runs

Every passing run is exhaustive. Deadlock is checked in the runs of `Router` and
`Projector`: clients may always send again, and the projector's fetch can always
time out. It is not in the others, where a finite history ends (everything
decided, published and settled) or a client is closed for good.

| Run | Question | Bounds, and what they let happen |
|---|---|---|
| `RouterRefinement` | does the write plane implement `InteractionLog`, are accepted facts durable? | two replicas, one interaction from nothing; start, assign, end, and three commands to be refused; one append unacked or late or one failed replay, one restart; two results in a cache; dedup before OCC |
| `RouterHandOver` | do only members write, does a transfer leave no gap, is the sequence dense, is a retry still one fact, is the accepted payload the logged one? | two replicas, a transfer against two payloads under one id of the leaving agent; one restart; any fact may leave the dedup window at any time; losers re-fold once |
| `RouterCallers` | do shared, evicted and poisoned objects keep facts legal, does a token name a fact of its own log? | one router with two goroutines, two interactions in turns on one stream, a map with room for one, one failed replay |
| `RouterLiveness` | is every command answered, does one retry complete a half-applied transfer, do the numbers grow? | two replicas, one interaction from nothing: its start and a transfer, both sent any number of times; two failures among lost appends, lost acks and failed replays; two results in a cache, so that the start is forgotten |
| `Projector` | are feeds complete, private, ordered; are snapshots folds; does everything settle? | two replicas, six facts (two joins, a corrupt fact, a leave, a message, a join again), three failures, two deliveries, a snapshot every second ack, two snapshots kept |
| `Participation` | is the fold that of the ledger, is nothing acked lost, is no intent orphaned, is every message settled? | two consumers, three versions of which the first never reaches the stream, a stray second one; one lost ack, stop or malformed answer; any number of failed calls; a floor that may rise to the head |
| `DeliveryOutbox` | one receipt, true completion, nothing reopened? | two workers, an authorization for each of two reservations, two bodies, three calls, two failures among lost replies, failed calls, stops and early expiries |
| `RouteProjection` | is what is visible authorized, is the projection the route, is no version skipped silently? | two appliers, three facts genuine or stray in any order, a floor that rises meanwhile, one acknowledgement worker that makes the ringing fact |
| `Client` | in order and once, the end last, gaps end, nobody stranded, no connection after close? | three facts, two passes, two tries for a token and a connection, one loss of the connection, one lost live message, `close` and `connect` at any time |
| `RouterLeaveRace` | violated: `MembersOnlyWrite` | see findings |
| `ProjectorTakeover` | violated: `FeedComplete` | see findings |
| `ClientMissed` | violated: `MissedIsReplayed` | see findings; one try of everything |

Two replicas are enough for every race on one log, since a third writer is one
more conflict. `MaxRefold` is 1 or 2 instead of the default 32, so that giving up is reached.
`MaxResults` is 8 where no eviction is wanted and 2 where it is.
`MaxDeliver` 2 is the smallest value with a redelivery; with it, three failures
exhaust a message and still hit a takeover. Three versions are the fewest with a
gap to fill, a fact before and a fact after it; the three attempts of
`FailReconcile` are the code's. Two passes are the fewest with a pause, two tries
the fewest with a retry.

Properties that a finding refutes are checked in a passing run without the
ingredient that breaks them: `MembersOnlyWrite` and `DenseLog` without lost acks
and reassignments (`RouterHandOver`), `FeedComplete` under `DrainsInTime`.
`SettledIsAccounted` and `IntentHasMessage` assume `Trusted`, `ProjectionIsRoute`
that no stray fact was installed (`Misled`), and `Settles` allows the one way in
which the queue blocks (`Blocked`); section 5 says what happens otherwise.
`FeedComplete`, `OnlyParticipants`, `FeedInOrder` and `SnapshotIsFold` have the
antecedent `FoldsAreFed`: no join or leave was given up by the broker, after
which later folds miss it.

Each property of a passing run has a mutant: a definition marked *Fault* that
changes one mapped operator the way a plausible slip would, under which TLC finds
the property violated.

### Fairness

* `Router!FairSpec`: a goroutine that can go on does (weak fairness of `Work`),
  as the Go scheduler, the broker's reply and the request timeouts give. Nobody
  has to send or to repeat a command: `RetryCompletes` speaks of a retry once a
  replica has taken it up, and does not say that one comes or where it lands.
* `Projector!FairSpec`: weak fairness of a replica's own steps, of the broker's
  timers (AckWait, lease TTL) and of the end of a cancelled fetch. No failure is
  fair, and failures are bounded by `MaxFaults`.
* `ParticipationProjection!FairSpec`: weak fairness of each consumer's handling
  and of its fetch, which is `Run`'s loop and the client's request timeout. Calls
  to the authority may fail without bound.
* `DeliveryOutbox` and `RouteProjection` have no fairness and no liveness property:
  nothing in this repository but its tests calls `ProcessOne` or applies route facts
  yet, so as the code stands an acceptance need not be settled.
* `ClientSession!FairSpec`: weak fairness of the event loop's own steps (a message
  that has arrived, `establish`, the end of `close`, `recover`): timers fire and
  promises settle. Neither the application nor the router is fair.

## 4. Proofs

Every theorem is for all values of the constants that satisfy the named
assumptions: any number of processes, commands, versions, agents, facts and
failures. Each inductive invariant was checked by TLC on the instances of section
3 before it was proved, and each proof has one lemma per action.

### Write plane (`RouterProofs`)

| Theorem | States |
|---|---|
| `TypeCorrect` | `Spec => []TypeOK` |
| `LifecycleIsLegal` | `Spec => []LifecycleLegal` |
| `AcceptedCommandsAreDurable` | `Spec => []AcceptedIsDurable` |
| `TokensAreNamed` | `Spec => []TokenNamesFact` |
| `TransferJoinsFirst` | `TransferHasNoGap /\ Spec => []TransferHasNoGap` |
| `NoIdTwice` | `~DedupExpires /\ ExactlyOnce /\ Spec => []ExactlyOnce` |
| `WritePlaneRefinesLog` | `~DedupExpires /\ ExactlyOnce /\ Spec => ImplementsInteractionLog` |
| `NumbersGrow` | `SeqGrows /\ Spec /\ []NoStaleDuplicate => []SeqGrows` |
| `NumbersGrowTokenFirst` | `~DedupFirst /\ SeqGrows /\ Spec => []SeqGrows` |
| `NumbersAreDense` | `DenseLog /\ Spec /\ []NoBlindDuplicate => []DenseLog` |
| `OnlyMembersWrite` | `OneSender /\ MembersOnlyWrite /\ Spec /\ [](NoStaleDuplicate /\ NoLateFind) => []MembersOnlyWrite` |
| `DuplicatesAreKnown` | `Spec /\ [](NoStaleDuplicate /\ NoLateFind /\ CachesHaveRoom) => []NoBlindDuplicate` |
| `AcceptedPayloadsAreCommitted` | `~ReplayFails /\ Spec /\ [](NoBlindDuplicate /\ NoForeignFind /\ CachesHaveRoom) => []AcceptedPayloadIsCommitted` |
| `NoIdTwiceBeyondTheWindow` | `ExactlyOnce /\ Spec /\ [](NoStaleDuplicate /\ NoLateFind /\ CachesHaveRoom /\ NoHiddenCommit) => []ExactlyOnce` |
| `WritePlaneIsExact` | with a broker that compares the token first and answers every append, and caches with room: `DenseLog`, `MembersOnlyWrite` and `AcceptedPayloadIsCommitted` |
| `Invariance`, `AppendsAreOwed` | the inductive invariants `IInv` and `DelayedOwed` |

A router judges on a cached status, so legality alone is not inductive: it needs
to be known that a cached status is *some* true status. The core of `IInv` is
`Faithful`: an object's status is the one its log had at the stream sequence its
OCC token names, and every accepted entry of its cache is in the log. When the
broker commits, token and last sequence of the subject agree, so the status was
that of the whole log and the fact is legal where it lands. For durability `IInv`
adds, per worker, that the facts of the steps it has passed are in the log, and
further that a worker's object belongs to its command's interaction, that late
appends carry facts judged on a prefix in the same way, and that stream positions
grow along each log. `GrownFaithful` carries an object over any append of
anybody; `CommitLog` is the one place where OCC is used; `RebuildOK` and
`RefreshOK` say what a re-fold gives.

The order of a transfer and the refinement need to know where an append came
from: `DelayedOwed` says that an append still on its way is a step of a command
whose earlier steps were in the log when it was sent. For `NoIdTwice` the dedup
window covers the log (`DedupComplete`), so the broker refuses what the routers'
caches have forgotten. For `TokensAreNamed` an object keeps its token, takes the
position of the last fact it folded or appended, or that of the original of a
duplicate.

The theorems from `NumbersGrow` on are about what a router *counts* and *knows*
beyond the status. They rest on one fact: an append gets through only from an
object that is up to date (`Current`: its token is the last position of its log),
or, arriving late, when its expectation still holds (`StillExpected`). So it is
enough to say of the up-to-date objects that they have counted every fact
(`CountsAll`, `CountsExactly`), hold the folded membership (`KnowsMembers`) and
remember every id (`KnowsFacts`); objects that are behind may hold anything, as
the broker refuses them. `ObjectStep` lists the ways in which a step changes an
object, and `CurrentAfter` which of them leave it up to date.

These properties are not true of every setting of the constants, and the
conditions are the code's own weak places, as predicates on the states reached:

| Condition | Excludes | Without it (section 5) |
|---|---|---|
| `NoBlindDuplicate` | a duplicate sub-fact that the object's cache does not know, which is counted all the same (`router.go:668`) | a number is skipped |
| `NoStaleDuplicate` | the same on an object that is behind the log | a number is repeated; facts between are missed under a current token |
| `NoLateFind` | a failed append that is found in the log, taken over without the membership and the results (`router.go:430`) | `RouterLeaveRace` |
| `NoForeignFind` | a failed append that finds *another payload* under its id in the log; one that finds its own is covered | a payload accepted unread |
| `CachesHaveRoom` | a full cache, or a log longer than a cache | a reused id accepted with another payload |
| `NoHiddenCommit` | an up-to-date object whose own rejection hides a committed fact (`router.go:458`) | an id committed twice |
| `OneSender` | a trusted backend that repeats an agent's own command under its id and payload | the log does not tell whose it was |
| `~ReplayFails` | a replay that fails after a duplicate, where the code accepts for the id alone (`router.go:449`) | a payload accepted unread |

`NoStaleDuplicate` follows where the broker compares the token first
(`TokenFirst`), `NoLateFind`, and with it `NoForeignFind`, where every append is
answered (`NothingFails`), `NoBlindDuplicate` from room in the caches (`DuplicatesAreKnown`); together they
are `WritePlaneIsExact`. All of them hold in every state of `RouterHandOver`
(854,464 states), which thus shows on one instance what the theorems show for all.

`InitialLogOK` asks of the facts written before the model starts what the code
would have made of them: stream order, legality, sub-fact ids that name the type
and the agent of the fact. The theorems with `TransferHasNoGap`, `ExactlyOnce`,
`SeqGrows`, `DenseLog` or `MembersOnlyWrite` on the left of `Spec` ask that of the
initial log too.

### Fan-out (`ProjectorProofs`)

| Theorem | States |
|---|---|
| `RenewalEndsInTime` | for every TTL and shorter interval, the renewal attempts with their timeouts and pauses end before the lease that was renewed one interval earlier |
| `ProjectorTypeCorrect` | `Spec => []TypeOK` |
| `SettledIsProjected` | `Timely /\ ~SlowReplay /\ Spec => []FeedComplete` |
| `FeedsArePrivate` | the same for `OnlyParticipants` |
| `FeedsAreInOrder` | the same for `FeedInOrder` |
| `SnapshotsAreFolds` | the same for `SnapshotIsFold` |
| `FanoutInvariance` | the inductive invariant `FanoutInv` of the four |

`Timely` is `DrainsInTime /\ ~SlowHydrate`. Without `Timely` or `~SlowReplay` the
promises fail (section 5), so the hypotheses are what the code leaves to the
deployment. `FanoutInv` has four layers, each resting on the one before:

1. `Shape`: what every variable holds at every label.
2. `Turn`: whoever is not in standby has the lease or waits, fenced, at the head
   of its loop; the fact in process is the first unsettled one; between the floor
   and that one everything was given up. So at most one replica is at work.
3. `Fed`: the holder's view is the fold of everything before the first unsettled
   fact, or includes that one when it was naked before; snapshots are folds of
   acked prefixes. A redelivery folds twice to the same (`FoldAgain`), a
   hydration continues a snapshot's fold (`FoldedFrom`), and a fact that is given
   up changes none (`FoldedQuiet`).
4. `Published`: who of the recipients has the fact in process, and what that
   leaves in the feeds. A marker is stored only when every recipient has the
   leave, so a repeated publish of that leave is always a duplicate to the feed
   stream and never lands behind its marker.

`FoldMirrors` connects the folded intervals with `TakesPart`, which is stated on
the log alone: an open interval starts at a join not followed by a leave, a
closed one reaches from a join to the next leave. `ConstantsOK` asks that the
facts of an interaction are numbered upwards from 1 along the stream, as the
router numbers them: `NumbersGrowTokenFirst` proves it of `Router` where the broker
compares the token first, `NumbersGrow` wherever no stale duplicate is counted.

### Participation command projector (`ParticipationProofs`)

`ParticipationTypeCorrect`, `FoldIsOfLedger` (`FoldMatchesLedger`),
`NothingIsDropped` (`SettledIsAccounted`), `IntentKeepsItsMessage`
(`IntentHasMessage`) and `ParticipationLedgerIsPermanent` (`LedgerIsPermanent`),
from `ParticipationInvariance`. With MaxAckPending 1, every consumer that holds a
message of the queue holds the outstanding one (`QueueOK`); whoever has read an
older head holds a command that is settled already (`Current`); a pending intent
has the outstanding message, at the present head (`TrustedOK`). The last two are
claimed of a trusted authority only, like the properties they serve.

### Delivery (`DeliveryOutboxProofs`, `RouteProjectionProofs`)

`ReceiptIsOne` (`OneReceipt`), `CompletionIsTrue` (`CompletedTruly`) and
`AcceptanceIsPermanent` (`AcceptedIsPermanent`), from `OutboxInvariance`: callers
and the call router know the receipt on record, and an answer in a worker's hands
is true of the call router and stays true, because a reservation the route has
passed is never current again (`Dead`).

`ProjectionTypeCorrect`, `OnlyAuthorizedIsVisible` (`VisibleIsAuthorized`),
`GapsAreAudited` (`NoSilentGap`), `LedgerIsAppendOnly` (`FactLedgerIsPermanent`)
and `ProjectionMatchesRoute` (`ProjectionIsRoute`), from `ProjectionInvariance`,
for the composition with the outbox. An applier that finds the version it read
has read the projection as it is (`StepOK`), so the version compare of the head
stands for all of it; and the projection is the fold of its own ledger, completed
by the route where a snapshot left the ledger empty (`FoldOfRecorded`). An
acknowledgement of the last reservation may add one fact beyond `MaxRoute`, so
versions run to `MaxRoute + 1`.

### TypeScript client (`ClientProofs`)

`ClientTypeCorrect`, `DeliveryInOrder` (`InOrderOnce`), `EndComesLast`
(`EndsAfterAll`), `GapHasRecovery` (`GapIsWorkedOn`) and
`ClosedClientIsDisconnected` (`NoLateConnection`), from `ClientInvariance`: what
the consumer has and what the mailbox holds are together exactly the facts up to
`applied`; a recovery runs exactly while there is a pass; the mailbox is ended
only on a handle that is closed or has failed.

### Assumptions and tools

`Nothing`, `None` and the other absent values are outside the sets they stand
beside; bounds are naturals; a participation version or an offered fact is one of
those named. There is nothing else in the `ASSUME`s but what is said above.

The folds are recursive functions. What they compute for every input is proved
with `InductionTheorems`, which states induction with sets in place of predicates:
a set of naturals has a least element, hence induction along a range, hence a
recursion over a range has a solution.

Only model-checked: the liveness properties (`EveryCommandAnswered`,
`RetryCompletes`, `EverythingSettles`, `Settles`, `GapEnds`, `NeverStranded`), as fairness and ENABLED are beyond the prover. The
conditions of the router theorems that concern reached states (`NoStaleDuplicate`
and the rest) are proved of a token-first broker that answers every append, but
for `CachesHaveRoom` and `NoHiddenCommit`, which depend on how many and which
commands are sent; those two are hypotheses of a theorem and invariants of the
instance.

## 5. Findings

Each is a run that TLC must refute; `PROJECT.json` quotes the line it contradicts.

* **A revoked author writes once more** (`RouterLeaveRace`). A lost ack sends the
  router to the log; it takes over sequence, token and status but not membership,
  so the author's next message passes the gate on the old membership with a
  current token.
* **Takeover before the settle** (`ProjectorTakeover`). A standby reads the floor
  while the old holder's ack is under way and never folds that fact.
* **A reconnect that replays nothing** (`ClientMissed`). A recovery fills its gap,
  its replay then throws with the connection and the loop pauses. The client
  reconnects during the pause; `prime()` is refused because `recovering` is set,
  and after the pause the loop finds no gap and goes live. Facts appended while
  the connection was down are not replayed until a later one shows the gap.

### Other disagreements

Found while modelling and not kept as runs of their own. Those of the router are
seen with the constants of `RouterHandOver.cfg`, `DedupExpires = FALSE` and the
instance named.

Router:

* A duplicate sub-fact counts: `appendParticipationFact` ignores the duplicate
  flag of `Append` (`router.go:668`, `:688`), and the next fact of the interaction
  skips a number, against `openspec/specs/signaling-core/spec.md:25` ("gap-free").
  `RetriedAssign` with `DedupFirst = TRUE`, `AppendFaults = {"ackLost"}` and
  `MaxFaults = 1` refutes `DenseLog`. With a cache of one result every
  further retry skips another number. A client of such a log finds a gap no
  replay fills, and fails for good.
* Counted on an object that is behind the log, a duplicate sub-fact even *repeats*
  a number: the router takes over the original's token, adds one to its own older
  count, and is then up to date by its token only. `RetriedAssign` with
  `DedupFirst = TRUE`, no failure and `OpenWithAlice` as the initial log refutes
  `SeqGrows`.
* Two payloads of one transfer id are both accepted: the recorded sub-facts are
  compared once, before the append re-folds them (`router.go:570`, against the
  comment at `:90`). `TransferRetry` refutes `OnePayloadPerCommandId`.
* A reused id whose first result has left the cache is accepted when the broker
  calls it a duplicate (`router.go:464`, against the comment at `:447`).
  `ReusedId` with `MaxResults = 1` refutes `AcceptedPayloadIsCommitted`.
* A failed append whose id is in the log is accepted without comparing hashes
  (`router.go:430`, against `:376`). `ReusedId` with `AppendFaults = {"lost"}` and
  `MaxFaults = 1` shows it.
* `copyMissingResults` keeps this router's own older rejection over the committed
  result of the log, so a retry of a command that another replica committed is
  answered as rejected (`router.go:84`, `:458`). Once the fact has left the dedup
  window, a retry passes that rejection (only accepted results end the loop) and is
  committed a second time. `RefusedTooEarly` with
  `DedupExpires = TRUE` and `NoFacts` as the initial log refutes `ExactlyOnce`.
* A replica whose cached status predates `interaction.started` refuses every
  retry of a half-applied transfer that lands on it, and does not re-read the
  log by itself (`router.go:656`, against
  `openspec/specs/signaling-core/spec.md:43`). If the queue group keeps
  choosing it, the transfer stays half-applied. `RetryCompletes` excepts such a
  replica (`StaleStatus`), which `RouterLiveness` reaches; without the conjunct
  `~StaleStatus` TLC finds it violated.

Projector:

* Dropped after the last delivery: the dead-letter publish fails on the delivery
  that is also the consumer's last, so the nak of `projector.go:497` ("retry
  later") brings no other. The constants of `Projector.cfg` refute
  `NeverSilentlyDropped`.
* `FoldRange` takes a fetch that times out after 500 ms for the end of the range
  (`projector/nats.go:151`). With `SlowReplay = TRUE` a holder goes live on a
  truncated fold and `FeedComplete` fails.
* Nothing renews the lease during `Hydrate` (`projector/projector.go:149-157`).
  With `SlowHydrate = TRUE` two replicas are live at once and `FeedComplete`
  fails.

Participation command projector:

* A replay that does not validate, and a reply the client refuses, terminate the
  command and leave its intent pending; every later gap of the interaction then
  finds an intent it does not match and is terminated too
  (`participation/projector.go:202-204`, `participationpg/store.go:91`). Without
  `Trusted`, `IntentHasMessage` and `SettledIsAccounted` fail.
* After a command is given up as exhausted while a second consumer holds it, that
  one may still install; a later command that began on the old head then loses
  its compare-and-set and is acked unapplied and unaudited (`consumer.go:140`).
* A late command below the authority's floor needs a snapshot, and a snapshot at
  a version the ledger already has violates its key, so the command is nak'ed for
  ever (`participationpg/store.go:188`). `Settles` names this case `Blocked`.
* A short or stale answer (`ErrUnknownHistory` from the validators) is nak'ed
  without counting an attempt.
* A command of exactly the next version is installed without asking the
  authority, whoever sent it.

Delivery:

* An exact-next `InstallBatch` moves the head and leaves a pending intent as it
  is; every later gap of the interaction then loses its compare-and-set
  (`deliverypg/projection.go:178`).
* A second applier of the same historical fact, and a snapshot at a version the
  ledger has, violate a key, and the intent stays pending.
* A reserved or terminal fact of exactly the next version is installed without
  asking the call router (`Misled`).
* `Retry` makes the row due at once: no backoff and no limit.

TypeScript client:

* A replay whose connection ends returns what it has (`adapters/nats.ts:108`)
  although `transport.ts:31` says that it must throw. `GapEnds` and `InOrderOnce`
  hold all the same.
* `open()` without a connection sets `opened`, throws and never primes; after a
  failed reconnect, `connect()` does not resubscribe the open handles.
* A token or connection failure that comes after `close()` sets `failed` or
  `disconnected` over `closed`.
* The bound on replay passes counts passes that made progress.

## 6. Plan

Done: all modules of section 2, their runs, and the proofs of section 4, which
cover every safety property of the passing runs.

Next, in this order:

1. `VisitorKeys`: cached key set, cooldown, shared fetch; a bound on how long a
   withdrawn key is accepted.
2. The client's `send` composed with `Router`.

## 7. Not modelled

* **Auth callout.** Signatures, token checks and subject grants are pure functions
  of a token. The key cache of `visitor_token.go` is the one stateful part; its
  hazard is listed, and `VisitorKeys` is planned.
* **Client: `send`, signals, metadata, agent feed, codec.** `send` repeats a
  request under the same command id, which the router's retries model from the
  other side. `AgentFeed` forwards messages to a mailbox. The codec is encoding.
* **Participation gRPC client.** A second adapter of a port whose outcomes are
  those of the NATS one.
* Stream creation and reset, configuration, readiness, metrics, traces and logs
  are administration or I/O. Generated code, scripts and deployment carry no
  logic of their own; the schema's uniqueness constraints are part of the models
  of the code that meets them.
