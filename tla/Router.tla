------------------------------- MODULE Router -------------------------------
(***************************************************************************)
(* The write plane: router replicas that validate commands, gate them on   *)
(* membership and lifecycle, and append facts to the shared JetStream      *)
(* stream INTERACTION_LOGS under per-subject optimistic concurrency.       *)
(*                                                                         *)
(* A router keeps, per interaction, one state object rebuilt from the log  *)
(* (map `inter`); workers are the goroutines that run HandleCommand.  The  *)
(* deployed router has one worker (a NATS subscription runs its callback   *)
(* serially); the Router type itself allows several, which share objects   *)
(* under the object's mutex.  Objects live in a small heap, because a      *)
(* worker may still hold one that was evicted or poisoned meanwhile.       *)
(***************************************************************************)
EXTENDS InteractionFacts, FiniteSets

CONSTANTS
  Routers,        \* router processes
  Workers,        \* goroutines running HandleCommand
  RouterOf,       \* [Workers -> Routers]
  Iids,           \* interactions, as tenant/interaction keys
  TenantOf,       \* [Iids -> tenant], the tenant token of the subject
  Commands,       \* the commands clients send, and may send again
  Trusted,        \* subject suffixes listed in RP_TRUSTED_BACKENDS
  DevMode,        \* RP_DEV_NO_AUTH
  InitialLog,     \* [Iids -> Seq(Fact)], facts of earlier incarnations
  Slots,          \* how many interactionState objects a router may have
  NoObj,
  NoCommand,
  MaxInter,       \* maxInter, the bound of the state map
  MaxResults,     \* maxResults, the bound of a dedup cache
  MaxRefold,      \* maxRefold, re-folds before a loser gives up
  DedupFirst,     \* the broker checks the dedup window before the OCC token
  DedupExpires,   \* facts may outlive the dedup window
  AppendFaults,   \* subset of {"lost", "ackLost", "late"}
  ReplayFails,    \* Replay may return an error
  MaxFaults,      \* bound on append and replay failures
  MaxCrashes      \* bound on router restarts

VARIABLES
  log,            \* the stream, per subject
  lastSeq,        \* the stream's last sequence, over all subjects
  dedup,          \* <<interaction, fact id>> pairs inside the dedup window
  delayed,        \* appends a router has given up on but the broker may see
  inter,          \* per router, the object of each cached interaction
  objs,           \* the heap of interactionState objects
  pc,             \* where each worker is
  cmd,            \* the command a worker handles
  root,           \* the object handleParticipation got for the parent command
  ref,            \* the object the current append works on
  step,           \* index of the fact being appended
  attempt,        \* lost OCC races of the current append
  accepted,       \* history: commands answered accepted
  faults,         \* failures so far
  crashes         \* restarts so far

brokerVars == <<log, lastSeq, dedup, delayed>>
workerVars == <<pc, cmd, root, ref, step, attempt, accepted>>
vars == <<log, lastSeq, dedup, delayed, inter, objs, pc, cmd, root, ref, step,
          attempt, accepted, faults, crashes>>

-----------------------------------------------------------------------------
(* Commands, their validation, and the facts they stand for. *)

ParticipationCommands ==
  {"participant.assign", "participant.unassign", "participant.transfer"}

IsParticipationCommand(c) == c.type \in ParticipationCommands

IsTrusted(c) == c.suffix \in Trusted

\* Outside dev mode a subject suffix is an authenticated identity; in dev mode
\* only an operator-listed backend is.
IsAuthenticated(c) == ~DevMode \/ IsTrusted(c)

\* Fault: transfer revokes the old agent first.
LeaveBeforeJoin(c) ==
  CASE c.type = "participant.assign"   -> <<[type |-> Joined, agent |-> c.agent]>>
    [] c.type = "participant.unassign" -> <<[type |-> Left, agent |-> c.agent]>>
    [] c.type = "participant.transfer" -> <<[type |-> Left, agent |-> c.from],
                                            [type |-> Joined, agent |-> c.agent]>>

\* handleParticipation: transfer opens the new leg before it closes the old.
ParticipationFacts(c) ==
  CASE c.type = "participant.assign"   -> <<[type |-> Joined, agent |-> c.agent]>>
    [] c.type = "participant.unassign" -> <<[type |-> Left, agent |-> c.agent]>>
    [] c.type = "participant.transfer" -> <<[type |-> Joined, agent |-> c.agent],
                                            [type |-> Left, agent |-> c.from]>>

ParticipationPayloadOK(c) ==
  /\ c.agent # ""
  /\ c.type = "participant.transfer" => c.from # ""

\* The early returns of HandleCommand and handleParticipation that look at the
\* command alone.  The capability check is not here: every identity the router
\* builds from a subject carries the agent-feed capability or the backend role.
Admissible(c) ==
  /\ c.id # ""
  /\ c.tenant = TenantOf[c.iid]
  /\ IsTrusted(c) \/ (c.actor # "" /\ c.actor = c.suffix)
  /\ IF IsParticipationCommand(c)
     THEN IsTrusted(c) /\ ParticipationPayloadOK(c)
     ELSE ~IsParticipationFact(c.type)

\* `data` stands for the medium, the ref id and the data of an ordinary command,
\* and for the medium of a privileged one, the only one its sub-facts hash.
HashPayload(tenant, actor, type, data) == <<tenant, actor, type, data>>

\* What is appended for a command: the command itself, or its n-th sub-fact.
Item(c, n) ==
  IF IsParticipationCommand(c)
  THEN LET f == ParticipationFacts(c)[n]
       IN  [id    |-> <<c.id, f.type, f.agent>>, type |-> f.type, actor |-> f.agent,
            hash  |-> HashPayload(c.tenant, f.agent, f.type, c.data), cause |-> c.id]
  ELSE [id    |-> <<c.id>>, type |-> c.type, actor |-> c.actor,
        hash  |-> HashPayload(c.tenant, c.actor, c.type, c.data), cause |-> c.id]

Steps(c) == IF IsParticipationCommand(c) THEN Len(ParticipationFacts(c)) ELSE 1

SubIds(c) == {Item(c, n).id : n \in 1..Steps(c)}

\* An agent needs an open membership interval for every write but the first.
GateParticipation(c) ==
  IsAuthenticated(c) /\ ~IsTrusted(c) /\ c.type # Started

-----------------------------------------------------------------------------
(* interactionState: the dedup cache and the fold of a log. *)

Has(results, id) == \E k \in DOMAIN results : results[k].id = id

Get(results, id) == results[CHOOSE k \in DOMAIN results : results[k].id = id]

\* putResult: overwrite in place, or append and evict the oldest.
PutResult(results, e) ==
  IF Has(results, e.id)
  THEN [k \in DOMAIN results |-> IF results[k].id = e.id THEN e ELSE results[k]]
  ELSE IF Len(results) < MaxResults THEN Append(results, e) ELSE Append(Tail(results), e)

PutMissing(results, e) == IF Has(results, e.id) THEN results ELSE PutResult(results, e)

\* copyMissingResults: st's entries win over fresh's.
CopyMissingResults(st, fresh) ==
  LET copy[k \in 0..Len(fresh)] == IF k = 0 THEN st ELSE PutMissing(copy[k-1], fresh[k])
  IN  copy[Len(fresh)]

\* putResult of every fact in turn: the ids of a log being distinct, the latest
\* MaxResults facts are left.
FoldResults(facts) ==
  LET skip == IF Len(facts) > MaxResults THEN Len(facts) - MaxResults ELSE 0
  IN  [k \in 1..(Len(facts) - skip) |->
         [id |-> facts[skip + k].id, hash |-> facts[skip + k].hash, ok |-> TRUE]]

\* parents, as pairs <<parent command id, sub-fact id>>.
FoldParents(facts) ==
  {<<facts[k].cause, facts[k].id>> : k \in {j \in DOMAIN facts : IsParticipationFact(facts[j].type)}}

\* The object also names the interaction it is the state of, its key in the map.
Rebuild(i) ==
  [iid |-> i, seq |-> LastSeq(log[i]), streamSeq |-> LastPos(log[i]),
   status |-> StatusOf(log[i]),
   results |-> FoldResults(log[i]), part |-> FoldParticipation(log[i]),
   parents |-> FoldParents(log[i]), poisoned |-> FALSE]

\* Faults: a re-fold that leaves out the sequence, the status, the membership or
\* the results.
RefreshWithoutSeq(st, fresh) ==
  [fresh EXCEPT !.results = CopyMissingResults(st.results, fresh.results), !.seq = st.seq]

RefreshWithoutStatus(st, fresh) ==
  [fresh EXCEPT !.results = CopyMissingResults(st.results, fresh.results), !.status = st.status]

RefreshWithoutPart(st, fresh) ==
  [fresh EXCEPT !.results = CopyMissingResults(st.results, fresh.results), !.part = st.part]

RefreshWithoutResults(st, fresh) == [fresh EXCEPT !.results = st.results]

\* What an OCC loser and a duplicate take over from a rebuild.
Refresh(st, fresh) ==
  [fresh EXCEPT !.results = CopyMissingResults(st.results, fresh.results)]

\* Addresses of objects: a router's own, so that they do not clash.  A router
\* never needs more slots than it has interactions plus two per worker.
Objs == Routers \X Slots

ASSUME ConstantsOK ==
  /\ RouterOf \in [Workers -> Routers]
  /\ Iids # {}
  /\ \A c \in Commands : c.iid \in Iids
  /\ NoObj \notin Objs
  /\ NoCommand \notin Commands
  /\ MaxResults \in Nat \ {0}
  /\ MaxRefold \in Nat

Free(o) ==
  /\ \A r \in Routers, i \in Iids : inter[r][i] # o
  /\ \A w \in Workers : root[w] # o /\ ref[w] # o

\* Blank contents for an address nothing points to.
NoState ==
  [iid |-> CHOOSE i \in Iids : TRUE, seq |-> 0, streamSeq |-> 0, status |-> "",
   results |-> <<>>, part |-> {}, parents |-> {}, poisoned |-> FALSE]

-----------------------------------------------------------------------------
\* The stream sequences a log may start with, and 0 for an empty stream.
InitialPositions == {0} \union {LastPos(InitialLog[i]) : i \in Iids}

\* Facts of earlier incarnations were written by this code: in stream order,
\* each legal where it stands, a sub-fact id naming the fact's type and agent.
ASSUME InitialLogOK ==
  /\ InitialLog \in [Iids -> Seq(UNION {{InitialLog[i][k] : k \in DOMAIN InitialLog[i]} : i \in Iids})]
  /\ \A i \in Iids : \A k \in DOMAIN InitialLog[i] :
       LET f == InitialLog[i][k]
       IN  /\ f.seq \in Nat
           /\ f.pos \in Nat \ {0}
           /\ \A j \in 1..(k-1) : InitialLog[i][j].pos < f.pos
           /\ LegalTransition(StatusAt(InitialLog[i], 1..(k-1)), f.type)
           /\ \A c \in Commands : IsParticipationCommand(c) =>
                \A n \in 1..Steps(c) : f.id = Item(c, n).id =>
                  f.type = Item(c, n).type /\ f.actor = Item(c, n).actor
  /\ \E p \in InitialPositions : \A q \in InitialPositions : q <= p

Init ==
  /\ log = InitialLog
  /\ lastSeq = CHOOSE p \in InitialPositions : \A q \in InitialPositions : q <= p
  /\ dedup = UNION {{<<i, InitialLog[i][k].id>> : k \in DOMAIN InitialLog[i]} : i \in Iids}
  /\ delayed = {}
  /\ inter = [r \in Routers |-> [i \in Iids |-> NoObj]]
  /\ objs = [o \in Objs |-> NoState]
  /\ pc = [w \in Workers |-> "idle"]
  /\ cmd = [w \in Workers |-> NoCommand]
  /\ root = [w \in Workers |-> NoObj]
  /\ ref = [w \in Workers |-> NoObj]
  /\ step = [w \in Workers |-> 1]
  /\ attempt = [w \in Workers |-> 0]
  /\ accepted = {}
  /\ faults = 0
  /\ crashes = 0

-----------------------------------------------------------------------------
(* Control of a worker. *)

Goto(w, label) ==
  /\ pc' = [pc EXCEPT ![w] = label]
  /\ UNCHANGED <<cmd, root, ref, step, attempt, accepted>>

Reply(w, ok) ==
  /\ pc' = [pc EXCEPT ![w] = "idle"]
  /\ cmd' = [cmd EXCEPT ![w] = NoCommand]
  /\ root' = [root EXCEPT ![w] = NoObj]
  /\ ref' = [ref EXCEPT ![w] = NoObj]
  /\ step' = [step EXCEPT ![w] = 1]
  /\ attempt' = [attempt EXCEPT ![w] = 0]
  /\ accepted' = IF ok THEN accepted \union {cmd[w]} ELSE accepted

\* Fault: the loop runs once too often.
NextFactPastEnd(w) ==
  /\ pc' = [pc EXCEPT ![w] = IF step[w] <= Steps(cmd[w]) THEN "load" ELSE "finish"]
  /\ step' = [step EXCEPT ![w] = IF @ <= Steps(cmd[w]) THEN @ + 1 ELSE @]
  /\ ref' = [ref EXCEPT ![w] = NoObj]
  /\ attempt' = [attempt EXCEPT ![w] = 0]
  /\ UNCHANGED <<cmd, root, accepted>>

\* The loop over sub-facts in handleParticipation.
NextFact(w) ==
  /\ pc' = [pc EXCEPT ![w] = IF step[w] < Steps(cmd[w]) THEN "load" ELSE "finish"]
  /\ step' = [step EXCEPT ![w] = IF @ < Steps(cmd[w]) THEN @ + 1 ELSE @]
  /\ ref' = [ref EXCEPT ![w] = NoObj]
  /\ attempt' = [attempt EXCEPT ![w] = 0]
  /\ UNCHANGED <<cmd, root, accepted>>

\* The end of one append: an accepted sub-fact goes on with its command, any
\* rejection and an ordinary command's result are the reply.
Settle(w, ok) ==
  IF ok /\ IsParticipationCommand(cmd[w]) THEN NextFact(w) ELSE Reply(w, ok)

\* st.mu is held from the poisoned check to the return.
Holding == {"retry", "conflict", "failed", "dup"}

Unlocked(o) == \A w \in Workers : ~(pc[w] \in Holding /\ ref[w] = o)

Evict(w) == inter' = [inter EXCEPT ![RouterOf[w]][cmd[w].iid] = NoObj]

Poison(w) ==
  /\ objs' = [objs EXCEPT ![ref[w]].poisoned = TRUE]
  /\ Evict(w)

\* An error of the broker connection, within the bound.
Fault ==
  /\ faults < MaxFaults
  /\ faults' = faults + 1

ReplayFailure == ReplayFails /\ Fault

-----------------------------------------------------------------------------
(* The broker: Append under dedup and per-subject OCC. *)

Outcome(i, id, expected) ==
  LET isDup == <<i, id>> \in dedup
      isStale == LastPos(log[i]) # expected
  IN  CASE isDup /\ (DedupFirst \/ ~isStale) -> "dup"
        [] isStale /\ ~(isDup /\ DedupFirst) -> "conflict"
        [] OTHER                             -> "commit"

Commit(i, f) ==
  /\ lastSeq' = lastSeq + 1
  /\ log' = [log EXCEPT ![i] = Append(@, f)]
  /\ dedup' = dedup \union {<<i, f.id>>}

\* The stream sequence a duplicate's ack carries: the original's.
OriginalPos(i, id) ==
  log[i][CHOOSE k \in DOMAIN log[i] : log[i][k].id = id].pos

Fact(item, seq, pos) ==
  [seq |-> seq, pos |-> pos, id |-> item.id, type |-> item.type,
   actor |-> item.actor, hash |-> item.hash, cause |-> item.cause]

-----------------------------------------------------------------------------
(* HandleCommand. *)

\* A queue-group delivery.  Clients retry, so a command may come any number of
\* times, to any router.  One that is not admissible is answered at once and
\* changes nothing.
Receive(w, c) ==
  /\ pc[w] = "idle"
  /\ Admissible(c)
  /\ pc' = [pc EXCEPT ![w] = IF IsParticipationCommand(c) THEN "prelude" ELSE "load"]
  /\ cmd' = [cmd EXCEPT ![w] = c]
  /\ UNCHANGED <<brokerVars, inter, objs, root, ref, step, attempt, accepted, faults, crashes>>

\* The entries other than i that survive pruneLocked: none idle past the TTL,
\* and few enough.  Time is abstract, so any of them may be the idle ones.
Survivors(r, i) ==
  {keep \in SUBSET {j \in Iids \ {i} : inter[r][j] # NoObj} : Cardinality(keep) < MaxInter}

Hold(w, o) ==
  /\ UNCHANGED <<cmd, step, attempt, accepted>>
  /\ IF pc[w] = "prelude"
     THEN /\ pc' = [pc EXCEPT ![w] = "check"]
          /\ root' = [root EXCEPT ![w] = o]
          /\ UNCHANGED ref
     ELSE /\ pc' = [pc EXCEPT ![w] = "ready"]
          /\ ref' = [ref EXCEPT ![w] = o]
          /\ UNCHANGED root

GetCached(w) ==
  /\ pc[w] \in {"prelude", "load"}
  /\ inter[RouterOf[w]][cmd[w].iid] # NoObj
  /\ Hold(w, inter[RouterOf[w]][cmd[w].iid])
  /\ UNCHANGED <<brokerVars, inter, objs, faults, crashes>>

\* singleflight: rebuild, insert and prune, or share what another inserted.
GetRebuilt(w) ==
  LET r == RouterOf[w]
      i == cmd[w].iid
      F == {p \in Objs : p[1] = r /\ Free(p)}
      o == CHOOSE p \in F : TRUE
  IN  /\ pc[w] \in {"prelude", "load"}
      /\ inter[r][i] = NoObj
      /\ F # {}
      /\ objs' = [p \in Objs |-> IF p = o THEN Rebuild(i) ELSE IF p \in F THEN NoState ELSE objs[p]]
      /\ \E keep \in Survivors(r, i) :
           inter' = [inter EXCEPT ![r] = [j \in Iids |->
                       IF j = i THEN o ELSE IF j \in keep THEN @[j] ELSE NoObj]]
      /\ Hold(w, o)
      /\ UNCHANGED <<brokerVars, faults, crashes>>

\* Fail closed: a log that cannot be read rejects the command.
GetFails(w) ==
  /\ pc[w] \in {"prelude", "load"}
  /\ inter[RouterOf[w]][cmd[w].iid] = NoObj
  /\ ReplayFailure
  /\ Settle(w, FALSE)
  /\ UNCHANGED <<brokerVars, inter, objs, crashes>>

\* Fault: what is recorded must be exactly what this payload wants.
RecordedEquals(parents, c) ==
  LET recorded == {p[2] : p \in {q \in parents : q[1] = c.id}}
  IN  recorded # {} => recorded = SubIds(c)

\* The divergent-retry check of a privileged command: everything recorded for
\* its id must be wanted by this payload.
RecordedSubsetOf(parents, c) ==
  {p[2] : p \in {q \in parents : q[1] = c.id}} \subseteq SubIds(c)

CheckParents(w) ==
  /\ pc[w] = "check"
  /\ Unlocked(root[w])
  /\ IF RecordedSubsetOf(objs[root[w]].parents, cmd[w]) THEN Goto(w, "load") ELSE Reply(w, FALSE)
  /\ UNCHANGED <<brokerVars, inter, objs, faults, crashes>>

\* A worker about to run the append loop: it holds st.mu after a re-fold, or it
\* takes it now.
AtLoopHead(w) ==
  \/ pc[w] = "retry"
  \/ pc[w] = "ready" /\ Unlocked(ref[w])

RejectPoisoned(w) ==
  /\ pc[w] = "ready"
  /\ Unlocked(ref[w])
  /\ objs[ref[w]].poisoned
  /\ Settle(w, FALSE)
  /\ UNCHANGED <<brokerVars, inter, objs, faults, crashes>>

\* The stored result of this id decides, unless it is a rejection of the same
\* payload, which is tried again.
Decided(st, item) ==
  /\ Has(st.results, item.id)
  /\ LET prev == Get(st.results, item.id)
     IN  prev.hash # item.hash \/ prev.ok

\* Fault: the stored result answers whatever the payload.
StoredAnswerAnyPayload(st, item) == Get(st.results, item.id).ok

StoredAnswer(st, item) ==
  LET prev == Get(st.results, item.id)
  IN  prev.ok /\ prev.hash \in {NoHash, item.hash}

AnswerStored(w) ==
  LET st == objs[ref[w]]
      item == Item(cmd[w], step[w])
  IN  /\ AtLoopHead(w)
      /\ ~st.poisoned
      /\ Decided(st, item)
      /\ Settle(w, StoredAnswer(st, item))
      /\ IF IsParticipationCommand(cmd[w]) /\ StoredAnswer(st, item) /\ st.status = "ended"
         THEN Evict(w) ELSE UNCHANGED inter
      /\ UNCHANGED <<brokerVars, objs, faults, crashes>>

PassesGate(st, c) == GateParticipation(c) => c.suffix \in st.part

RejectNonMember(w) ==
  LET st == objs[ref[w]]
      item == Item(cmd[w], step[w])
  IN  /\ AtLoopHead(w)
      /\ ~st.poisoned
      /\ ~Decided(st, item)
      /\ ~PassesGate(st, cmd[w])
      /\ Settle(w, FALSE)
      /\ UNCHANGED <<brokerVars, inter, objs, faults, crashes>>

\* Only an ordinary command's illegal transition is remembered.
RejectIllegal(w) ==
  LET st == objs[ref[w]]
      item == Item(cmd[w], step[w])
  IN  /\ AtLoopHead(w)
      /\ ~st.poisoned
      /\ ~Decided(st, item)
      /\ PassesGate(st, cmd[w])
      /\ ~LegalTransition(st.status, item.type)
      /\ objs' = IF IsParticipationCommand(cmd[w]) THEN objs
                 ELSE [objs EXCEPT ![ref[w]].results =
                         PutResult(@, [id |-> item.id, hash |-> item.hash, ok |-> FALSE])]
      /\ Settle(w, FALSE)
      /\ UNCHANGED <<brokerVars, inter, faults, crashes>>

-----------------------------------------------------------------------------
(* The append itself, and what follows each of its outcomes. *)

\* The checks before Append have passed.
Ready(w) ==
  LET st == objs[ref[w]]
      item == Item(cmd[w], step[w])
  IN  /\ AtLoopHead(w)
      /\ ~st.poisoned
      /\ ~Decided(st, item)
      /\ PassesGate(st, cmd[w])
      /\ LegalTransition(st.status, item.type)

BrokerSays(w) == Outcome(cmd[w].iid, Item(cmd[w], step[w]).id, objs[ref[w]].streamSeq)

\* Fault: the next token is the previous one plus one, as if the stream had one
\* subject.
CommittedNextToken(st, item, pos) ==
  [st EXCEPT !.seq = @ + 1, !.streamSeq = @ + 1,
             !.status = ApplyTransition(@, item.type),
             !.part = ApplyFact(@, item),
             !.results = PutResult(@, [id |-> item.id, hash |-> item.hash, ok |-> TRUE])]

\* The object after a committed append: the token is the committed stream
\* sequence.  Only a sub-fact is folded into the membership (an ordinary fact
\* does not change it).
Committed(st, item, pos) ==
  [st EXCEPT !.seq = @ + 1, !.streamSeq = pos,
             !.status = ApplyTransition(@, item.type),
             !.part = ApplyFact(@, item),
             !.results = PutResult(@, [id |-> item.id, hash |-> item.hash, ok |-> TRUE])]

Record(w, pos) ==
  LET st == Committed(objs[ref[w]], Item(cmd[w], step[w]), pos)
  IN  /\ objs' = [objs EXCEPT ![ref[w]] = st]
      /\ IF st.status = "ended" THEN Evict(w) ELSE UNCHANGED inter

\* Clean commit, acked.
AppendCommits(w) ==
  /\ Ready(w)
  /\ BrokerSays(w) = "commit"
  /\ Commit(cmd[w].iid, Fact(Item(cmd[w], step[w]), objs[ref[w]].seq + 1, lastSeq + 1))
  /\ Record(w, lastSeq + 1)
  /\ Settle(w, TRUE)
  /\ UNCHANGED <<delayed, faults, crashes>>

AppendConflicts(w) ==
  /\ Ready(w)
  /\ BrokerSays(w) = "conflict"
  /\ Goto(w, "conflict")
  /\ UNCHANGED <<brokerVars, inter, objs, faults, crashes>>

\* A duplicate: HandleCommand reconciles with the log; appendParticipationFact
\* ignores the flag and records it like a commit, at the original's sequence.
AppendDuplicates(w) ==
  /\ Ready(w)
  /\ BrokerSays(w) = "dup"
  /\ IF IsParticipationCommand(cmd[w])
     THEN /\ Record(w, OriginalPos(cmd[w].iid, Item(cmd[w], step[w]).id))
          /\ Settle(w, TRUE)
     ELSE Goto(w, "dup") /\ UNCHANGED <<inter, objs>>
  /\ UNCHANGED <<brokerVars, faults, crashes>>

\* Append returns another error: the request was lost, its ack was lost, or the
\* broker will see it only later.
AppendErrs(w) ==
  LET f == Fact(Item(cmd[w], step[w]), objs[ref[w]].seq + 1, lastSeq + 1)
  IN  /\ Ready(w)
      /\ Fault
      /\ \/ /\ "lost" \in AppendFaults
            /\ UNCHANGED brokerVars
         \/ /\ "ackLost" \in AppendFaults
            /\ BrokerSays(w) = "commit"
            /\ Commit(cmd[w].iid, f)
            /\ UNCHANGED delayed
         \/ /\ "late" \in AppendFaults
            /\ delayed' = delayed \union
                 {[iid |-> cmd[w].iid, expected |-> objs[ref[w]].streamSeq, fact |-> f]}
            /\ UNCHANGED <<log, lastSeq, dedup>>
      /\ IF IsParticipationCommand(cmd[w])
         THEN Poison(w) /\ Settle(w, FALSE)
         ELSE Goto(w, "failed") /\ UNCHANGED <<inter, objs>>
      /\ UNCHANGED crashes

\* A late append reaches the broker, which decides on it as on any other.
LateAppend(d) ==
  /\ delayed' = delayed \ {d}
  /\ IF Outcome(d.iid, d.fact.id, d.expected) = "commit"
     THEN Commit(d.iid, [d.fact EXCEPT !.pos = lastSeq + 1])
     ELSE UNCHANGED <<log, lastSeq, dedup>>
  /\ UNCHANGED <<inter, objs, workerVars, faults, crashes>>

\* Fault: a loser tries again with the token it has, without bound.
RefoldForever(w) ==
  /\ pc[w] = "conflict"
  /\ pc' = [pc EXCEPT ![w] = "retry"]
  /\ UNCHANGED <<brokerVars, inter, objs, cmd, root, ref, step, attempt, accepted, faults, crashes>>

\* OCC loser: re-fold and try again, at most MaxRefold times.
Refold(w) ==
  /\ pc[w] = "conflict"
  /\ \/ /\ attempt[w] < MaxRefold
        /\ objs' = [objs EXCEPT ![ref[w]] = Refresh(@, Rebuild(cmd[w].iid))]
        /\ pc' = [pc EXCEPT ![w] = "retry"]
        /\ attempt' = [attempt EXCEPT ![w] = @ + 1]
        /\ UNCHANGED <<inter, cmd, root, ref, step, accepted, faults>>
     \/ /\ attempt[w] >= MaxRefold
        /\ Poison(w)
        /\ Settle(w, FALSE)
        /\ UNCHANGED faults
     \/ /\ ReplayFailure
        /\ Poison(w)
        /\ Settle(w, FALSE)
  /\ UNCHANGED <<brokerVars, crashes>>

\* Fault: a failed append is accepted without looking into the log.
ReconcileBlindly(w) ==
  /\ pc[w] = "failed"
  /\ Settle(w, TRUE)
  /\ UNCHANGED <<brokerVars, inter, objs, faults, crashes>>

\* Fault: a failed append that is in the log is accepted with the count left as
\* it was.
ReconcileKeepsCount(w) ==
  LET fresh == Rebuild(cmd[w].iid)
  IN  /\ pc[w] = "failed"
      /\ IF Has(fresh.results, Item(cmd[w], step[w]).id)
         THEN /\ objs' = [objs EXCEPT ![ref[w]].streamSeq = fresh.streamSeq,
                                      ![ref[w]].status = fresh.status]
              /\ Settle(w, TRUE)
              /\ UNCHANGED inter
         ELSE Poison(w) /\ Settle(w, FALSE)
      /\ UNCHANGED <<brokerVars, faults, crashes>>

\* Failed append of an ordinary command: accept it if the log turns out to hold
\* it, taking over the sequence, token and status only.
Reconcile(w) ==
  LET fresh == Rebuild(cmd[w].iid)
      id == Item(cmd[w], step[w]).id
  IN  /\ pc[w] = "failed"
      /\ \/ /\ Has(fresh.results, id)
            /\ objs' = [objs EXCEPT ![ref[w]].seq = fresh.seq,
                                    ![ref[w]].streamSeq = fresh.streamSeq,
                                    ![ref[w]].status = fresh.status]
            /\ Settle(w, TRUE)
            /\ UNCHANGED <<inter, faults>>
         \/ /\ ~Has(fresh.results, id)
            /\ Poison(w)
            /\ Settle(w, FALSE)
            /\ UNCHANGED faults
         \/ /\ ReplayFailure
            /\ Poison(w)
            /\ Settle(w, FALSE)
      /\ UNCHANGED <<brokerVars, crashes>>

\* Duplicate of an ordinary command: compare with the result on record, which
\* may be gone from a full cache, or be this router's own earlier rejection.
ReconcileDup(w) ==
  LET item == Item(cmd[w], step[w])
      st == Refresh(objs[ref[w]], Rebuild(cmd[w].iid))
  IN  /\ pc[w] = "dup"
      /\ \/ /\ Has(st.results, item.id)
            /\ objs' = [objs EXCEPT ![ref[w]] = st]
            /\ Settle(w, StoredAnswer(st, item))
            /\ UNCHANGED <<inter, faults>>
         \/ /\ ~Has(st.results, item.id)
            /\ objs' = [objs EXCEPT ![ref[w]] = [st EXCEPT !.results =
                          PutResult(@, [id |-> item.id, hash |-> item.hash, ok |-> TRUE])]]
            /\ Settle(w, TRUE)
            /\ UNCHANGED <<inter, faults>>
         \/ /\ ReplayFailure
            /\ Poison(w)
            /\ Settle(w, TRUE)
      /\ UNCHANGED <<brokerVars, crashes>>

\* All facts of a privileged command are accepted: bind them to its id.
FinishParticipation(w) ==
  /\ pc[w] = "finish"
  /\ Unlocked(root[w])
  /\ objs' = [objs EXCEPT ![root[w]].parents = @ \union {<<cmd[w].id, s>> : s \in SubIds(cmd[w])}]
  /\ Reply(w, TRUE)
  /\ UNCHANGED <<brokerVars, inter, faults, crashes>>

\* A router restarts: its memory and the commands it was handling are gone.
Crash(r) ==
  LET mine == {w \in Workers : RouterOf[w] = r}
  IN  /\ crashes < MaxCrashes
      /\ crashes' = crashes + 1
      /\ inter' = [inter EXCEPT ![r] = [i \in Iids |-> NoObj]]
      /\ pc' = [w \in Workers |-> IF w \in mine THEN "idle" ELSE pc[w]]
      /\ cmd' = [w \in Workers |-> IF w \in mine THEN NoCommand ELSE cmd[w]]
      /\ root' = [w \in Workers |-> IF w \in mine THEN NoObj ELSE root[w]]
      /\ ref' = [w \in Workers |-> IF w \in mine THEN NoObj ELSE ref[w]]
      /\ step' = [w \in Workers |-> IF w \in mine THEN 1 ELSE step[w]]
      /\ attempt' = [w \in Workers |-> IF w \in mine THEN 0 ELSE attempt[w]]
      /\ UNCHANGED <<brokerVars, objs, accepted, faults>>

\* A fact leaves the broker's dedup window.
DedupExpiry ==
  /\ DedupExpires
  /\ \E d \in dedup : dedup' = dedup \ {d}
  /\ UNCHANGED <<log, lastSeq, delayed, inter, objs, workerVars, faults, crashes>>

Work(w) ==
  \/ GetCached(w)
  \/ GetRebuilt(w)
  \/ GetFails(w)
  \/ CheckParents(w)
  \/ RejectPoisoned(w)
  \/ AnswerStored(w)
  \/ RejectNonMember(w)
  \/ RejectIllegal(w)
  \/ AppendCommits(w)
  \/ AppendConflicts(w)
  \/ AppendDuplicates(w)
  \/ AppendErrs(w)
  \/ Refold(w)
  \/ Reconcile(w)
  \/ ReconcileDup(w)
  \/ FinishParticipation(w)

Next ==
  \/ \E w \in Workers, c \in Commands : Receive(w, c)
  \/ \E w \in Workers : Work(w)
  \/ \E d \in delayed : LateAppend(d)
  \/ \E r \in Routers : Crash(r)
  \/ DedupExpiry

Spec == Init /\ [][Next]_vars

-----------------------------------------------------------------------------
(* Properties. *)

Ids(facts) == {facts[k].id : k \in DOMAIN facts}

Labels == {"idle", "prelude", "check", "load", "ready", "retry", "conflict",
           "failed", "dup", "finish"}

\* The shape of every variable, and what a worker holds at each label: a
\* worker past getState has the object it works on, and a sub-fact always
\* comes with the object of its parent command.
TypeOK ==
  /\ \A i \in Iids : \A k \in DOMAIN log[i] :
       /\ log[i][k].pos \in 1..lastSeq
       /\ log[i][k].seq \in Nat
  /\ lastSeq \in Nat
  /\ inter \in [Routers -> [Iids -> Objs \union {NoObj}]]
  /\ \A o \in Objs : /\ objs[o].seq \in Nat
                     /\ objs[o].streamSeq \in 0..lastSeq
                     /\ objs[o].status \in Status
                     /\ objs[o].poisoned \in BOOLEAN
                     /\ Len(objs[o].results) <= MaxResults
  /\ pc \in [Workers -> Labels]
  /\ \A w \in Workers :
       /\ cmd[w] \in IF pc[w] = "idle" THEN {NoCommand} ELSE Commands
       /\ ref[w] \in IF pc[w] \in {"ready"} \union Holding THEN Objs ELSE {NoObj}
       /\ root[w] \in IF /\ pc[w] \notin {"idle", "prelude"}
                         /\ IsParticipationCommand(cmd[w])
                      THEN Objs ELSE {NoObj}
       /\ pc[w] # "idle" => step[w] \in 1..Steps(cmd[w])
       /\ attempt[w] \in 0..MaxRefold
  /\ accepted \subseteq Commands

\* Every fact was legal where it stands: `started` first and once, nothing
\* after `ended`.  legalTransition is decided on a cached status; OCC must make
\* that decision stand at the moment of the append.
LifecycleLegal ==
  \A i \in Iids : \A k \in DOMAIN log[i] :
    LegalTransition(StatusAt(log[i], 1..(k-1)), log[i][k].type)

\* The per-interaction sequence is 1, 2, 3, ... without gap or repetition,
\* although each router counts on its own copy.
DenseLog == \A i \in Iids : \A k \in DOMAIN log[i] : log[i][k].seq = k

\* ... or at least it grows along the log, which is what the fan-out relies on.
SeqGrows == \A i \in Iids : \A j, k \in DOMAIN log[i] : j < k => log[i][j].seq < log[i][k].seq

\* No command id has two facts, however often it is retried, on whichever
\* router, after whichever failure.
ExactlyOnce ==
  \A i \in Iids : \A j, k \in DOMAIN log[i] : log[i][j].id = log[i][k].id => j = k

\* A command is answered accepted only when every fact it stands for is in the
\* log, also when the answer comes from a cache or after a lost ack.
AcceptedIsDurable ==
  \A c \in accepted : SubIds(c) \subseteq Ids(log[c.iid])

\* ... and with the payload the client was answered for: a command id reused
\* with another payload is never accepted.
AcceptedPayloadIsCommitted ==
  \A c \in accepted : \A n \in 1..Steps(c) :
    \E k \in DOMAIN log[c.iid] : /\ log[c.iid][k].id = Item(c, n).id
                                 /\ log[c.iid][k].hash \in {NoHash, Item(c, n).hash}

\* A fact written by an agent stands inside an open membership interval of that
\* agent: a racing participant.left cannot slip in before it.
MembersOnlyWrite ==
  \A c \in Commands : GateParticipation(c) =>
    \A k \in DOMAIN log[c.iid] :
      log[c.iid][k].id = <<c.id>> /\ log[c.iid][k].hash = Item(c, 1).hash
        => c.suffix \in MembersAt(log[c.iid], 1..(k-1))

\* A transfer never revokes the old agent before the new one has joined.  (Its
\* id is its own: another command that reuses it has other obligations.)
TransferHasNoGap ==
  \A c \in Commands :
    c.type = "participant.transfer" /\ (\A d \in Commands : d.id = c.id => d = c) =>
      \A k \in DOMAIN log[c.iid] : log[c.iid][k].id = <<c.id, Left, c.from>> =>
        \E j \in 1..(k-1) : log[c.iid][j].id = <<c.id, Joined, c.agent>>

\* Two payloads under one privileged command id are never both accepted: the
\* divergent one is rejected before any of its sub-facts is emitted.
OnePayloadPerCommandId ==
  \A c, d \in accepted : c.id = d.id /\ c.iid = d.iid => SubIds(c) = SubIds(d)

\* The OCC token of a state object is the stream sequence of a fact of its own
\* interaction, never another interaction's and never one that does not exist:
\* otherwise the object's appends would lose for ever against nobody.
TokenNamesFact ==
  \A o \in Objs : objs[o].streamSeq # 0 =>
    \E k \in DOMAIN log[objs[o].iid] : log[objs[o].iid][k].pos = objs[o].streamSeq

\* The write plane keeps the promise of InteractionLog.
FactsOf(c) == {[type |-> Item(c, n).type, id |-> Item(c, n).id] : n \in 1..Steps(c)}
IidOf(c) == c.iid
Shape(facts) == [k \in DOMAIN facts |-> [type |-> facts[k].type, id |-> facts[k].id]]

Abs == INSTANCE InteractionLog
         WITH facts <- [i \in Iids |-> Shape(log[i])],
              InitialFacts <- [i \in Iids |-> Shape(InitialLog[i])]

ImplementsInteractionLog == Abs!Spec

-----------------------------------------------------------------------------
(* Liveness.  A worker that can go on does; nobody has to send or to retry.    *)

FairSpec == Spec /\ \A w \in Workers : WF_vars(Work(w))

\* Every command a router has taken is answered, or dies with the router.
EveryCommandAnswered ==
  \A w \in Workers : pc[w] # "idle" ~> pc[w] = "idle"

\* The transfers with an id of their own, and one whose join is in the log and
\* whose leave is not.
Transfers ==
  {c \in Commands : c.type = "participant.transfer" /\ \A d \in Commands : d.id = c.id => d = c}

HalfApplied(c) == Item(c, 1).id \in Ids(log[c.iid]) /\ Item(c, 2).id \notin Ids(log[c.iid])

\* The router has cached a status from before the interaction started.  It then
\* refuses without a look at the log (README.md, Other disagreements).
StaleStatus(r, i) ==
  inter[r][i] # NoObj /\ ~LegalTransition(objs[inter[r][i]].status, Joined)

\* One retry completes a half-applied transfer: a router that takes it up brings
\* the missing leave, whichever replica it is and whatever it has cached or
\* forgotten, unless from then on something fails, a goroutine loses more races
\* than it re-folds, or the interaction ends.
RetryCompletes ==
  \A w \in Workers, c \in Transfers, trouble \in (0..MaxFaults) \X (0..MaxCrashes) :
    /\ pc[w] = "prelude" /\ cmd[w] = c /\ HalfApplied(c) /\ ~StaleStatus(RouterOf[w], c.iid)
    /\ <<faults, crashes>> = trouble
    ~> \/ ~HalfApplied(c) \/ StatusOf(log[c.iid]) = "ended" \/ <<faults, crashes>> # trouble
       \/ \E v \in Workers : /\ RouterOf[v] = RouterOf[w]
                             /\ pc[v] = "conflict" /\ attempt[v] = MaxRefold
=============================================================================
