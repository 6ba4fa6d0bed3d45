----------------------- MODULE ParticipationProjection -----------------------
(***************************************************************************)
(* The participation command projector, for one interaction of a tenant:   *)
(* the work queue of commands and its consumers (participationnats), the   *)
(* projection of a command (participation), its tables                     *)
(* (participationpg) and the authority it asks for missing history         *)
(* (participationclientnats).                                              *)
(*                                                                         *)
(* Every projector process runs one consumer on one shared durable with    *)
(* MaxAckPending(1), so the queue hands out one message at a time; a       *)
(* message whose acknowledgement does not arrive within AckWait is handed  *)
(* out again while its first holder may still be working on it.  Each      *)
(* table transaction is one step.  A transaction that fails, and a process *)
(* that stops, write nothing and leave the message to be delivered again   *)
(* (Stop); one that commits but reports an error, or a process that stops  *)
(* after the commit, is a lost acknowledgement (Settle).                   *)
(*                                                                         *)
(* A command is named by its version and by whether it is the authority's  *)
(* own or a stray one with the same version and another identity.          *)
(***************************************************************************)
EXTENDS Integers, FiniteSets

CONSTANTS Workers,      \* consumers on the shared durable
          MaxVersion,   \* bound: versions the authority decides
          History,      \* version -> [who, assigned], the authority's commands
          Strays,       \* version -> [who, assigned], off-history commands
          Sent,         \* the commands that reach the stream at all
          MaxCopies,    \* bound: messages published for one command
          MaxFaults,    \* bound: lost acknowledgements, stops, malformed answers
          Nothing       \* no row, no message

Versions == 1..MaxVersion
Commands == [version : Versions, own : {TRUE}]
            \cup [version : DOMAIN Strays, own : {FALSE}]
Messages == Sent \X (1..MaxCopies)   \* Nats-Msg-Id may repeat past the dedup window
Reasons == {"DIVERGENT_HISTORY", "UNKNOWN_STALE_HISTORY", "RECONCILE_EXHAUSTED"}
MaxAttempts == 3

ASSUME ConstantsAssumption ==
    /\ MaxVersion \in Nat \ {0} /\ MaxCopies \in Nat \ {0}
    /\ MaxFaults \in Nat
    /\ DOMAIN History = Versions /\ DOMAIN Strays \subseteq Versions
    /\ Sent \subseteq Commands
    /\ Nothing \notin Messages
    /\ Nothing \notin [own : BOOLEAN, source : {"command", "snapshot"}]
    /\ Nothing \notin [attempts : Nat, status : {"pending", "installed", "dlq"}]
    /\ Nothing \notin [observed : 0..MaxVersion, held : Commands]

VARIABLES
    head, floor,      \* the authority: versions decided; first one it retains
    published,        \* command -> messages sent so far
    stream, inflight, \* messages not yet acknowledged; the one handed out
    fold,             \* participation_fold_heads and _folded_participants
    ledger,           \* participation_version_ledger and _event_ledger
    pending,          \* participation_pending_inputs
    intent,           \* the pending row of participation_reconcile_intents
    audits,           \* participation_dlq and participation_alert_outbox
    worker,           \* worker -> where it is and what it has read
    faults, malformed

vars == <<head, floor, published, stream, inflight, fold, ledger, pending,
          intent, audits, worker, faults, malformed>>
authority == <<head, floor>>
tables == <<fold, ledger, pending, intent, audits>>
queue == <<published, stream, inflight>>

Idle == [at |-> "idle"]
Command(m) == m[1]
Held(w) == Command(worker[w].msg)
Desired(c) == IF c.own THEN History[c.version] ELSE Strays[c.version]

Init ==
    /\ head = 0 /\ floor = 1
    /\ published = [c \in Commands |-> 0]
    /\ stream = {} /\ inflight = Nothing
    /\ fold = [version |-> 0, members |-> {}]
    /\ ledger = [v \in Versions |-> Nothing]
    /\ pending = [c \in Commands |-> Nothing]
    /\ intent = Nothing
    /\ audits = {}
    /\ worker = [w \in Workers |-> Idle]
    /\ faults = 0 /\ malformed = FALSE

------------------------------------------------------------------------------
(* foldRecords: one command, and the authority's own history up to v.      *)
FoldOne(members, c) ==
    IF Desired(c).assigned THEN members \cup {Desired(c).who}
                           ELSE members \ {Desired(c).who}

Own(v) == [version |-> v, own |-> TRUE]

(* The members after the commands recs[from..to] on top of base.           *)
FoldRecords(base, from, recs, to) ==
    LET after[v \in (from - 1)..to] ==
            IF v < from THEN base ELSE FoldOne(after[v - 1], recs[v])
    IN  after[to]

AuthorityMembers(v) == FoldRecords({}, 1, [u \in Versions |-> Own(u)], v)

------------------------------------------------------------------------------
(* The authority and the stream.                                           *)
Decide ==
    /\ head < MaxVersion
    /\ head' = head + 1
    /\ UNCHANGED <<floor, queue, tables, worker, faults, malformed>>

(* The authority keeps its history from a floor on and may raise it.       *)
Trim ==
    /\ floor < head
    /\ floor' = floor + 1
    /\ UNCHANGED <<head, queue, tables, worker, faults, malformed>>

Publish(c) ==
    /\ c.version <= head
    /\ published[c] < MaxCopies
    /\ published' = [published EXCEPT ![c] = @ + 1]
    /\ stream' = stream \cup {<<c, published[c] + 1>>}
    /\ UNCHANGED <<authority, inflight, tables, worker, faults, malformed>>

(* Consumer.Run: Fetch(1).  A new message only while none is outstanding,  *)
(* else the outstanding one again.                                         *)
Fetch(w, m) ==
    /\ worker[w] = Idle
    /\ m \in stream
    /\ inflight \in {Nothing, m}
    /\ inflight' = m
    /\ worker' = [worker EXCEPT ![w] = [at |-> "load", msg |-> m]]
    /\ UNCHANGED <<authority, published, stream, tables, faults, malformed>>

------------------------------------------------------------------------------
(* Consumer.handle.  Ack and Term both take the message off the work       *)
(* queue; either may be lost on the way.  Nak leaves it there.             *)
NoFault == UNCHANGED <<faults, malformed>>
Fault == faults < MaxFaults /\ faults' = faults + 1

(* An answer of the authority that breaks its contract.                    *)
Malformed == Fault /\ malformed' = TRUE

Move(w, step) ==
    /\ worker' = [worker EXCEPT ![w] = step]
    /\ UNCHANGED <<authority, queue>>

(* Fault: the message leaves the queue and keeps its delivery slot.        *)
TakeOffKeepsSlot(w) ==
    /\ worker' = [worker EXCEPT ![w] = Idle]
    /\ stream' = stream \ {worker[w].msg}
    /\ UNCHANGED <<authority, published, inflight>>

TakeOff(w) ==
    /\ worker' = [worker EXCEPT ![w] = Idle]
    /\ stream' = stream \ {worker[w].msg}
    /\ inflight' = IF inflight = worker[w].msg THEN Nothing ELSE inflight
    /\ UNCHANGED <<authority, published>>

Settle(w) ==
    \/ TakeOff(w) /\ NoFault
    \/ Move(w, Idle) /\ Fault /\ UNCHANGED malformed

Nak(w) == Move(w, Idle) /\ NoFault
Goto(w, at) == Move(w, [worker[w] EXCEPT !.at = at]) /\ NoFault

Audit(c, reason) == audits' = audits \cup {<<c, reason>>}

(* Store.Load: the identity on record for the version of a command.        *)
Retained(c) == ledger[c.version]

(* Fault: only a version past the next one counts as out of order.         *)
LoadLateAsNext(w) ==
    LET c == Held(w)
        row == Retained(c)
        seen(at) == Move(w, [at |-> at, msg |-> worker[w].msg, observed |-> fold.version])
                    /\ NoFault
    IN  /\ worker[w].at = "load"
        /\ \/ row # Nothing /\ row.own = c.own /\ Settle(w)
           \/ row # Nothing /\ row.own # c.own /\ seen("poison")
           \/ row = Nothing /\ c.version > fold.version + 1 /\ seen("begin")
           \/ row = Nothing /\ c.version <= fold.version + 1 /\ seen("install")
        /\ UNCHANGED tables

(* Projector.Apply up to its first write: Load and the case split.         *)
Load(w) ==
    LET c == Held(w)
        row == Retained(c)
        seen(at) == Move(w, [at |-> at, msg |-> worker[w].msg, observed |-> fold.version])
                    /\ NoFault
    IN  /\ worker[w].at = "load"
        /\ \/ c.version <= fold.version /\ row # Nothing /\ row.own = c.own /\ Settle(w)
           \/ c.version <= fold.version /\ row # Nothing /\ row.own # c.own /\ seen("poison")
           \/ c.version <= fold.version /\ row = Nothing /\ seen("begin")
           \/ c.version > fold.version + 1 /\ seen("begin")
           \/ c.version = fold.version + 1 /\ seen("install")
        /\ UNCHANGED tables

(* Store.RecordPoison, then ErrDivergentHistory.                           *)
RecordPoison(w) ==
    /\ worker[w].at = "poison"
    /\ Audit(Held(w), "DIVERGENT_HISTORY")
    /\ Settle(w)
    /\ UNCHANGED <<fold, ledger, pending, intent>>

HeadUnmoved(w) == fold.version = worker[w].observed

(* Fault: of a replayed range only the last version enters the ledger.     *)
InstallLastRecord(recs, from, to) ==
    /\ fold' = [version |-> to, members |-> FoldRecords(fold.members, from, recs, to)]
    /\ ledger' = [ledger EXCEPT ![to] = [own |-> recs[to].own, source |-> "command"]]

(* installRecords and insertLedgers: the participants are edited in place. *)
InstallRecords(recs, from, to) ==
    /\ fold' = [version |-> to, members |-> FoldRecords(fold.members, from, recs, to)]
    /\ ledger' = [v \in Versions |->
                     IF v \in from..to THEN [own |-> recs[v].own, source |-> "command"]
                                       ELSE ledger[v]]

(* Store.Install, compare-and-set on the head; the losing side is acked.   *)
Install(w) ==
    LET c == Held(w)
    IN  /\ worker[w].at = "install"
        /\ IF HeadUnmoved(w)
           THEN InstallRecords([v \in {c.version} |-> c], c.version, c.version)
           ELSE UNCHANGED <<fold, ledger>>
        /\ Settle(w)
        /\ UNCHANGED <<pending, intent, audits>>

------------------------------------------------------------------------------
(* Projector.reconcile.                                                    *)

(* Store.BeginReconcile.  A command is held at most once (the key of       *)
(* pending_inputs), so its reconcile token is named by the command.  An    *)
(* interaction has one pending intent; the same command finds its own      *)
(* again, any other one is ErrDivergentHistory and terminated.             *)
Begin(w) ==
    LET c == Held(w)
        fresh == [observed |-> fold.version, held |-> c]
        conflict == \E d \in Commands : d.version = c.version /\ pending[d] # Nothing
    IN  /\ worker[w].at = "begin"
        /\ \/ /\ ~HeadUnmoved(w) \/ intent \notin {Nothing, fresh}
                 \/ (intent = Nothing /\ conflict)
              /\ Settle(w)
              /\ UNCHANGED <<pending, intent>>
           \/ /\ HeadUnmoved(w) /\ intent = fresh
              /\ Goto(w, "replay")
              /\ UNCHANGED <<pending, intent>>
           \/ /\ HeadUnmoved(w) /\ intent = Nothing /\ ~conflict
              /\ pending' = [pending EXCEPT ![c] = [attempts |-> 0, status |-> "pending"]]
              /\ intent' = fresh
              /\ Goto(w, "replay")
        /\ UNCHANGED <<fold, ledger, audits>>

Historical(w) == Held(w).version <= worker[w].observed
From(w) == IF Historical(w) THEN Held(w).version ELSE worker[w].observed + 1

(* AuthorityPort.Replay and validateReplay.  The answer is the authority's *)
(* own commands; a held command that is not among them is terminated with  *)
(* its intent still pending.  Of a malformed answer, a short one is tried  *)
(* again and one that diverges is ErrDivergentHistory: terminated too.     *)
Replay(w) ==
    /\ worker[w].at = "replay"
    /\ \/ From(w) < floor /\ Goto(w, "snapshot")
       \/ /\ From(w) >= floor /\ Held(w).own
          /\ Goto(w, IF Historical(w) THEN "historical" ELSE "replayed")
       \/ From(w) >= floor /\ ~Held(w).own /\ Settle(w)
       \/ Malformed /\ (Move(w, Idle) \/ TakeOff(w))
    /\ UNCHANGED tables

(* AuthorityPort.Snapshot and validateSnapshot: the state at the head.     *)
Snapshot(w) ==
    /\ worker[w].at = "snapshot"
    /\ \/ /\ Move(w, [at |-> "snapped", msg |-> worker[w].msg,
                      observed |-> worker[w].observed, snap |-> head])
          /\ NoFault
       \/ Malformed /\ (Move(w, Idle) \/ TakeOff(w))
    /\ UNCHANGED tables

(* Client.request and mapWireError: the call times out or the authority    *)
(* says that it is unavailable; or the reply breaks the contract, which is *)
(* ErrInvalid (or ErrPermissionDenied).                                    *)
RequestFails(w) ==
    /\ worker[w].at \in {"replay", "snapshot"}
    /\ \/ Goto(w, "failed")
       \/ Malformed /\ Move(w, [worker[w] EXCEPT !.at = "refused"])
    /\ UNCHANGED tables

(* lockIntentAndHead                                                       *)
IntentHeld(w) ==
    HeadUnmoved(w) /\ intent = [observed |-> worker[w].observed, held |-> Held(w)]

(* Fault: the held command is closed and its intent is not.                *)
CompleteHeldOnly(w, status) ==
    /\ pending' = [pending EXCEPT ![Held(w)].status = status]
    /\ UNCHANGED intent

(* completeReconcile                                                       *)
Complete(w, status) ==
    /\ intent' = Nothing
    /\ pending' = [pending EXCEPT ![Held(w)].status = status]

(* Store.InstallReconcile, InstallHistorical and InstallSnapshot, each     *)
(* acked without effect when the head or the intent is no longer the one   *)
(* this worker began with.                                                 *)
Overtaken(w) ==
    /\ worker[w].at \in {"replayed", "historical", "snapped"}
    /\ ~IntentHeld(w)
    /\ Settle(w)
    /\ UNCHANGED tables

InstallReconcile(w) ==
    /\ worker[w].at = "replayed" /\ IntentHeld(w)
    /\ InstallRecords([v \in Versions |-> Own(v)], From(w), Held(w).version)
    /\ Complete(w, "installed")
    /\ Settle(w)
    /\ UNCHANGED audits

InstallHistorical(w) ==
    /\ worker[w].at = "historical" /\ IntentHeld(w)
    /\ ledger' = [ledger EXCEPT ![Held(w).version] = [own |-> TRUE, source |-> "command"]]
    /\ Complete(w, "installed")
    /\ Settle(w)
    /\ UNCHANGED <<fold, audits>>

(* The snapshot's version enters the ledger with a plain INSERT: when it   *)
(* is already there the transaction fails and the message is tried again.  *)
InstallSnapshot(w) ==
    LET v == worker[w].snap
    IN  /\ worker[w].at = "snapped" /\ IntentHeld(w)
        /\ \/ /\ ledger[v] # Nothing
              /\ Nak(w)
              /\ UNCHANGED tables
           \/ /\ ledger[v] = Nothing
              /\ fold' = [version |-> v, members |-> AuthorityMembers(v)]
              /\ ledger' = [ledger EXCEPT ![v] = [own |-> TRUE, source |-> "snapshot"]]
              /\ Audit(Held(w), "UNKNOWN_STALE_HISTORY")
              /\ Complete(w, "dlq")
              /\ Settle(w)

(* Faults: a failure that is not counted, and one that ends the command at *)
(* once and leaves no trace.                                               *)
FailUncounted(w) ==
    /\ worker[w].at \in {"failed", "refused"}
    /\ Nak(w)
    /\ UNCHANGED tables

FailUnaudited(w) ==
    /\ worker[w].at \in {"failed", "refused"}
    /\ IF IntentHeld(w) THEN Complete(w, "dlq") ELSE UNCHANGED <<pending, intent>>
    /\ Settle(w)
    /\ UNCHANGED <<fold, ledger, audits>>

(* Store.FailReconcile and handle: two failures are counted and tried      *)
(* again, the third is audited and terminated.  A refusal (ErrInvalid) is  *)
(* counted like any failure but terminated at once.                        *)
FailReconcile(w) ==
    LET c == Held(w)
        attempts == pending[c].attempts + 1
        exhausted == IntentHeld(w) /\ attempts = MaxAttempts
    IN  /\ worker[w].at \in {"failed", "refused"}
        /\ IF exhausted
           THEN /\ Audit(c, "RECONCILE_EXHAUSTED")
                /\ pending' = [pending EXCEPT ![c] = [attempts |-> attempts, status |-> "dlq"]]
                /\ intent' = Nothing
           ELSE /\ pending' = IF IntentHeld(w) THEN [pending EXCEPT ![c].attempts = attempts]
                                              ELSE pending
                /\ UNCHANGED <<audits, intent>>
        /\ IF exhausted \/ worker[w].at = "refused" THEN Settle(w) ELSE Nak(w)
        /\ UNCHANGED <<fold, ledger>>

(* A consumer stops, or one of its transactions fails; what it did not     *)
(* commit is lost and its message is delivered again.                      *)
Stop(w) ==
    /\ worker[w] # Idle
    /\ Fault /\ Move(w, Idle)
    /\ UNCHANGED <<tables, malformed>>

Handle(w) ==
    \/ Load(w) \/ RecordPoison(w) \/ Install(w) \/ Begin(w) \/ Replay(w)
    \/ Snapshot(w) \/ RequestFails(w) \/ Overtaken(w) \/ InstallReconcile(w)
    \/ InstallHistorical(w) \/ InstallSnapshot(w) \/ FailReconcile(w)

Next ==
    \/ Decide \/ Trim
    \/ \E c \in Sent : Publish(c)
    \/ \E w \in Workers : (\E m \in Messages : Fetch(w, m)) \/ Handle(w) \/ Stop(w)

Spec == Init /\ [][Next]_vars

Fairness ==
    /\ \A w \in Workers : WF_vars(Handle(w))
    /\ \A w \in Workers : WF_vars(\E m \in Messages : Fetch(w, m))

FairSpec == Spec /\ Fairness

------------------------------------------------------------------------------
(* Properties.                                                             *)

(* The shape of the state: the outstanding message is one of the queue,    *)
(* the fold never passes the authority, and an intent was made at a        *)
(* version the fold has reached.                                           *)
TypeOK ==
    /\ head \in 0..MaxVersion /\ floor \in 1..(MaxVersion + 1)
    /\ published \in [Commands -> 0..MaxCopies]
    /\ stream \subseteq Messages
    /\ inflight \in stream \cup {Nothing}
    /\ fold.version \in 0..head
    /\ intent # Nothing => intent.held \in Commands /\ intent.observed <= fold.version
    /\ audits \subseteq Commands \X Reasons
    /\ faults \in 0..MaxFaults /\ malformed \in BOOLEAN

(* The latest version installed from a snapshot, or 0.                     *)
Snapshots == {0} \cup {v \in Versions : ledger[v] # Nothing /\ ledger[v].source = "snapshot"}
Base == CHOOSE v \in Snapshots : \A u \in Snapshots : u <= v

(* The folded participants are those of the ledger: on top of the latest   *)
(* snapshot every version up to the head has one identity on record, and   *)
(* folding them in order gives the members, whichever consumer installed   *)
(* which of them and by which of the four ways.                            *)
FoldMatchesLedger ==
    LET recs == [v \in Versions |-> [version |-> v, own |-> ledger[v].own]]
    IN  /\ \A v \in Versions : v > fold.version => ledger[v] = Nothing
        /\ \A v \in (Base + 1)..fold.version : ledger[v] # Nothing
        /\ fold.members = FoldRecords(AuthorityMembers(Base), Base + 1, recs, fold.version)

(* A version's identity, once in the ledger, is never replaced, and the    *)
(* head never goes back, although two consumers may hold the same message. *)
LedgerIsPermanent ==
    [][/\ \A v \in Versions : ledger[v] # Nothing => ledger'[v] = ledger[v]
       /\ fold'.version >= fold.version]_<<ledger, fold>>

(* The authority keeps its contract, only its own commands are published,  *)
(* and no command was given up.  After one is given up the code does lose  *)
(* commands (README.md, Other disagreements).                              *)
Trusted ==
    /\ ~malformed
    /\ \A c \in Commands : published[c] > 0 => c.own
    /\ \A c \in Commands : <<c, "RECONCILE_EXHAUSTED">> \notin audits

Accounted(c) ==
    \/ ledger[c.version] # Nothing
    \/ \E r \in Reasons : <<c, r>> \in audits

(* A command taken off the queue is in the ledger or in the dead letters:  *)
(* an ack after a lost compare-and-set drops nothing.                      *)
SettledIsAccounted ==
    Trusted => \A m \in Messages :
        m[2] <= published[m[1]] /\ m \notin stream => Accounted(m[1])

(* A pending reconcile intent still has the message that will close it; an *)
(* intent without one refuses every later gap of the interaction.          *)
IntentHasMessage ==
    Trusted /\ intent # Nothing => \E m \in stream : Command(m) = intent.held

(* A command below the authority's floor needs a snapshot, and a snapshot  *)
(* at a version the ledger has already fails each time.                    *)
Blocked == \E m \in stream : Command(m).version < floor /\ ledger[head] # Nothing

(* Every message is settled in the end, however often the authority fails, *)
(* unless the queue is blocked in that one way.                            *)
Settles == \A m \in Messages : (m \in stream) ~> (m \notin stream \/ Blocked)
==============================================================================
