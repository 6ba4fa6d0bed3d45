------------------------ MODULE ParticipationProofs -------------------------
(***************************************************************************)
(* Proofs about ParticipationProjection, for every number of consumers,    *)
(* every history of the authority and every set of stray commands.         *)
(***************************************************************************)
EXTENDS ParticipationProjection, InductionTheorems

-----------------------------------------------------------------------------
(* What FoldRecords computes. *)

\* f[k] is the fold of the records from..k, for every k up to to.
FoldedBy(f, base, from, to, recs) ==
    /\ f[from - 1] = base
    /\ \A v \in from..to : f[v] = FoldOne(f[v - 1], recs[v])
    /\ \A k \in (from - 1)..to : FoldRecords(base, from, recs, k) = f[k]

\* The folds that start at one version are the values of one recursion.
LEMMA FoldRecordsRecursion ==
  ASSUME NEW base, NEW from \in Int, NEW to \in Int, from - 1 <= to, NEW recs
  PROVE  \E f : FoldedBy(f, base, from, to, recs)
<1> PICK m : m = from - 1
  OBVIOUS
<1> PICK X : X = SUBSET (base \cup {Desired(recs[v]).who : v \in from..to})
  OBVIOUS
<1> PICK step : step = [x \in X \X ((m + 1)..to) |-> FoldOne(x[1], recs[x[2]])]
  OBVIOUS
<1>1. m \in Int /\ m <= to /\ m + 1 = from
  OBVIOUS
<1>2. \A x \in X, v \in (m + 1)..to : FoldOne(x, recs[v]) \in X
  BY <1>1 DEF FoldOne
<1>3. base \in X /\ StepsOn(step, X, m, to)
  BY <1>2 DEF StepsOn
<1>4. PICK f : Solution(f, X, base, step, m, to)
  BY <1>1, <1>3, RecursionExists
<1>5. f \in [m..to -> X] /\ f[m] = base
  BY <1>4 DEF Solution
<1>6. ASSUME NEW v \in from..to
      PROVE  v - 1 \in m..to /\ f[v] = FoldOne(f[v - 1], recs[v])
  <2>1. v \in (m + 1)..to /\ v - 1 \in m..to /\ f[v - 1] \in X
    BY <1>1, <1>5
  <2>2. f[v] = step[<<f[v - 1], v>>]
    BY <1>4, <2>1 DEF Solution
  <2> QED BY <2>1, <2>2
<1>7. ASSUME NEW k \in m..to
      PROVE  FoldRecords(base, from, recs, k) = f[k]
  <2> DEFINE Solves(g) == g = [v \in (from - 1)..k |->
                                  IF v < from THEN base ELSE FoldOne(g[v - 1], recs[v])]
             after == CHOOSE g : Solves(g)
  <2>1. FoldRecords(base, from, recs, k) = after[k]
    BY DEF FoldRecords
  <2>2. Solves([v \in (from - 1)..k |-> f[v]])
    BY <1>1, <1>5, <1>6
  <2>3. Solves(after)
    BY <2>2
  <2> HIDE DEF after
  <2>4. after[m] = base /\ \A v \in (m + 1)..k : after[v] = FoldOne(after[v - 1], recs[v])
    BY <1>1, <2>3
  <2>5. \A v \in (m + 1)..k : after[v - 1] = f[v - 1] => after[v] = f[v]
    BY <1>1, <1>6, <2>4
  <2> DEFINE S == {v \in m..k : after[v] = f[v]}
  <2>6. k \in Int /\ m \in S /\ \A v \in (m + 1)..k : v - 1 \in S => v \in S
    BY <1>1, <1>5, <2>4, <2>5
  <2> HIDE DEF S
  <2>7. \A v \in m..k : v \in S
    BY <1>1, <2>6, RangeInduction
  <2> QED BY <1>1, <2>1, <2>7 DEF S
<1> QED BY <1>1, <1>5, <1>6, <1>7 DEF FoldedBy

LEMMA FoldNone ==
  ASSUME NEW base, NEW to \in Int, NEW recs
  PROVE  FoldRecords(base, to + 1, recs, to) = base
<1> PICK from : from = to + 1
  OBVIOUS
<1>1. from \in Int /\ from - 1 = to /\ from - 1 <= to /\ to \in (from - 1)..to
  OBVIOUS
<1>2. PICK f : FoldedBy(f, base, from, to, recs)
  BY <1>1, FoldRecordsRecursion
<1> QED BY <1>1, <1>2 DEF FoldedBy

FoldsUp(f, m, n, recs) == \A v \in (m + 1)..n : f[v] = FoldOne(f[v - 1], recs[v])

\* Two solutions of the same fold agree.
LEMMA FoldedByUnique ==
  ASSUME NEW f, NEW g, NEW m \in Int, NEW n \in Int, m <= n, NEW recs, f[m] = g[m],
         FoldsUp(f, m, n, recs), FoldsUp(g, m, n, recs)
  PROVE  f[n] = g[n]
<1> DEFINE S == {v \in m..n : f[v] = g[v]}
<1>1. m \in S /\ \A v \in (m + 1)..n : v - 1 \in S => v \in S
  BY DEF FoldsUp
<1> HIDE DEF S
<1>2. \A v \in m..n : v \in S
  BY <1>1, RangeInduction
<1>3. n \in S
  BY <1>2
<1> QED BY <1>3 DEF S

\* The fold depends on the records of its range only.
LEMMA FoldAgree ==
  ASSUME NEW base, NEW from \in Int, NEW to \in Int, from - 1 <= to, NEW recs,
         NEW others, \A v \in from..to : others[v] = recs[v]
  PROVE  FoldRecords(base, from, others, to) = FoldRecords(base, from, recs, to)
<1>1. PICK f : FoldedBy(f, base, from, to, recs)
  BY FoldRecordsRecursion
<1>2. PICK g : FoldedBy(g, base, from, to, others)
  BY FoldRecordsRecursion
<1> PICK m : m = from - 1
  OBVIOUS
<1>3. m \in Int /\ m + 1 = from /\ m <= to /\ to \in (from - 1)..to
  OBVIOUS
<1>4. f[m] = g[m] /\ FoldsUp(f, m, to, recs) /\ FoldsUp(g, m, to, recs)
  BY <1>1, <1>2, <1>3 DEF FoldedBy, FoldsUp
<1>5. f[to] = g[to]
  BY <1>3, <1>4, FoldedByUnique
<1> QED BY <1>1, <1>2, <1>3, <1>5 DEF FoldedBy

\* A fold continued where it stopped is the fold of the whole range.
LEMMA FoldJoin ==
  ASSUME NEW base, NEW from \in Int, NEW mid \in Int, NEW to \in Int, from - 1 <= mid, mid <= to,
         NEW recs
  PROVE  FoldRecords(FoldRecords(base, from, recs, mid), mid + 1, recs, to)
           = FoldRecords(base, from, recs, to)
<1> PICK next : next = mid + 1
  OBVIOUS
<1>1. /\ next \in Int /\ next - 1 = mid /\ next - 1 <= to /\ from - 1 <= to
      /\ mid \in (from - 1)..to /\ to \in (from - 1)..to /\ to \in (next - 1)..to
      /\ \A v \in (mid + 1)..to : v \in from..to /\ v \in next..to
  OBVIOUS
<1>2. PICK f : FoldedBy(f, base, from, to, recs)
  BY <1>1, FoldRecordsRecursion
<1>3. PICK g : FoldedBy(g, f[mid], next, to, recs)
  BY <1>1, FoldRecordsRecursion
<1>4. f[mid] = g[mid] /\ FoldsUp(f, mid, to, recs) /\ FoldsUp(g, mid, to, recs)
  BY <1>1, <1>2, <1>3 DEF FoldedBy, FoldsUp
<1>5. f[to] = g[to]
  BY <1>4, FoldedByUnique
<1>6. /\ FoldRecords(base, from, recs, mid) = f[mid] /\ FoldRecords(base, from, recs, to) = f[to]
      /\ FoldRecords(f[mid], next, recs, to) = g[to]
  BY <1>1, <1>2, <1>3 DEF FoldedBy
<1> QED BY <1>5, <1>6

-----------------------------------------------------------------------------
(* The inductive invariant. *)

AllVersions == 0..MaxVersion
LedgerRow == [own : BOOLEAN, source : {"command", "snapshot"}]
PendingRow == [attempts : Nat, status : {"pending", "installed", "dlq"}]
Intents == [observed : AllVersions, held : Commands]

BegunAt == {"replay", "snapshot", "failed", "refused", "replayed", "historical"}
WorkerStep ==
    {Idle}
    \cup [at : {"load"}, msg : Messages]
    \cup [at : {"poison", "install", "begin"} \cup BegunAt, msg : Messages, observed : AllVersions]
    \cup [at : {"snapped"}, msg : Messages, observed : AllVersions, snap : Versions]

QueueType ==
    /\ head \in AllVersions /\ floor \in 1..(MaxVersion + 1)
    /\ published \in [Commands -> 0..MaxCopies]
    /\ stream \subseteq Messages
    /\ inflight \in stream \cup {Nothing}
    /\ worker \in [Workers -> WorkerStep]
    /\ faults \in 0..MaxFaults /\ malformed \in BOOLEAN

TablesType ==
    /\ fold.version \in 0..head
    /\ ledger \in [Versions -> LedgerRow \cup {Nothing}]
    /\ pending \in [Commands -> PendingRow \cup {Nothing}]
    /\ intent \in Intents \cup {Nothing}
    /\ audits \subseteq Commands \X Reasons

\* A message that exists was published, and its command decided.
Known(m) == m[2] <= published[m[1]] /\ m[1].version <= head

\* Every consumer that holds a message of the queue holds the outstanding one.
QueueOK ==
    /\ \A m \in stream : Known(m)
    /\ \A w \in Workers : worker[w] # Idle =>
            /\ Known(worker[w].msg)
            /\ worker[w].msg \in stream => inflight = worker[w].msg

\* A command of this version has once been held for reconciliation.
HeldOnce(v) == \E d \in Commands : d.version = v /\ pending[d] # Nothing

\* What a consumer has read or checked, as far as it still holds.
StepOK(step) ==
    step.at \notin {"idle", "load"} =>
        LET c == Command(step.msg)
        IN  /\ step.observed <= fold.version
            /\ step.at = "poison" => ledger[c.version] # Nothing /\ ledger[c.version].own # c.own
            /\ IF step.at = "install" THEN c.version = step.observed + 1
               ELSE c.version # step.observed + 1
            /\ step.at = "begin" /\ step.observed = fold.version =>
                   ledger[c.version] = Nothing \/ HeldOnce(c.version)
            /\ step.at \in BegunAt \cup {"snapped"} => pending[c] # Nothing
            /\ step.at = "refused" => malformed
            /\ step.at = "replayed" => c.own /\ c.version > step.observed
            /\ step.at = "historical" => c.own /\ c.version <= step.observed
            /\ step.at = "snapped" => step.snap \in 1..head
                                      /\ step.snap >= step.observed /\ step.snap >= c.version

StepsOK == \A w \in Workers : StepOK(worker[w])

\* A held command was published and is not decided twice; while its intent is
\* pending and the head where it was, its version is not in the ledger.
HeldOK ==
    /\ \A c \in Commands : pending[c] # Nothing => published[c] > 0
    /\ \A c \in Commands : <<c, "UNKNOWN_STALE_HISTORY">> \in audits => pending[c] # Nothing
    /\ intent # Nothing =>
           /\ intent.observed <= fold.version
           /\ intent.held.version # intent.observed + 1
           /\ pending[intent.held] # Nothing
           /\ intent.observed = fold.version => ledger[intent.held.version] = Nothing

Current(step) ==
    step.at \notin {"idle", "load"} =>
        step.observed = fold.version \/ Accounted(Command(step.msg))

\* Without strays and broken answers: what is on record is the authority's;
\* whoever has read an older head holds a command that is settled already; and
\* a pending intent has the outstanding message, at the present head.
TrustedOK ==
    Trusted =>
        /\ \A v \in Versions : ledger[v] # Nothing => ledger[v].own
        /\ \A c \in Commands : <<c, "DIVERGENT_HISTORY">> \notin audits
        /\ \A c \in Commands : Accounted(c) => c.version <= fold.version
        /\ \A c \in Commands : pending[c] # Nothing /\ (intent = Nothing \/ intent.held # c)
                                   => Accounted(c)
        /\ \A w \in Workers : Current(worker[w])
        /\ intent # Nothing =>
               /\ inflight # Nothing /\ Command(inflight) = intent.held
               /\ intent.observed = fold.version
               /\ ~Accounted(intent.held)

ParticipationInv ==
    /\ QueueType /\ TablesType /\ QueueOK /\ StepsOK /\ HeldOK
    /\ FoldMatchesLedger /\ TrustedOK /\ SettledIsAccounted

-----------------------------------------------------------------------------
(* The shapes of commands, messages and consumers. *)

LEMMA CommandFields ==
  ASSUME NEW c \in Commands
  PROVE  /\ c.version \in Versions /\ c.version \in Nat /\ c.version >= 1 /\ c.version <= MaxVersion
         /\ c.own \in BOOLEAN
         /\ c.own => c = Own(c.version)
<1>1. c.version \in Versions /\ c.own \in BOOLEAN /\ (c.own => c = Own(c.version))
  BY ConstantsAssumption DEF Commands, Own
<1> QED BY <1>1, ConstantsAssumption DEF Versions

LEMMA MessageFields ==
  ASSUME NEW m \in Messages
  PROVE  /\ Command(m) \in Commands /\ Command(m) \in Sent /\ Command(m) = m[1]
         /\ m = <<m[1], m[2]>> /\ m[2] \in Nat /\ m[2] >= 1
BY ConstantsAssumption DEF Messages, Command

LEMMA StepShape ==
  ASSUME NEW s \in WorkerStep, s # Idle
  PROVE  /\ s.msg \in Messages
         /\ s.at \in {"load", "poison", "install", "begin", "snapped"} \cup BegunAt
         /\ s.at # "load" => s.observed \in AllVersions
         /\ s.at # "load" => s.observed \in Nat
         /\ s.at \in {"poison", "install", "begin"} \cup BegunAt =>
                s = [at |-> s.at, msg |-> s.msg, observed |-> s.observed]
         /\ s.at = "snapped" => s.snap \in Versions
<1>1. AllVersions \subseteq Nat
  BY ConstantsAssumption DEF AllVersions
<1> QED BY <1>1 DEF WorkerStep, Idle, BegunAt

LEMMA StepMade ==
  ASSUME NEW m \in Messages
  PROVE  /\ Idle \in WorkerStep
         /\ [at |-> "load", msg |-> m] \in WorkerStep
         /\ \A at \in {"poison", "install", "begin"} \cup BegunAt, x \in AllVersions :
                [at |-> at, msg |-> m, observed |-> x] \in WorkerStep
         /\ \A x \in AllVersions, v \in Versions :
                [at |-> "snapped", msg |-> m, observed |-> x, snap |-> v] \in WorkerStep
BY DEF WorkerStep

\* What a consumer at work holds.
LEMMA HeldFacts ==
  ASSUME QueueType, QueueOK, NEW w \in Workers, worker[w] # Idle
  PROVE  /\ worker[w] \in WorkerStep /\ worker[w].msg \in Messages /\ Held(w) \in Commands
         /\ Held(w) = Command(worker[w].msg) /\ Held(w) = worker[w].msg[1]
         /\ Held(w).version \in Versions /\ Held(w).version <= head
         /\ published[Held(w)] > 0
         /\ worker[w].msg \in stream => inflight = worker[w].msg
<1>1. worker[w] \in WorkerStep /\ worker[w].msg \in Messages
  BY StepShape DEF QueueType
<1>2. Held(w) \in Commands /\ Held(w) = Command(worker[w].msg) /\ Held(w) = worker[w].msg[1]
      /\ worker[w].msg[2] \in Nat /\ worker[w].msg[2] >= 1
  BY <1>1, MessageFields DEF Held
<1>3. worker[w].msg[2] <= published[Held(w)] /\ Held(w).version <= head
      /\ (worker[w].msg \in stream => inflight = worker[w].msg)
  BY <1>2 DEF QueueOK, Known
<1>4. published[Held(w)] \in Nat
  BY <1>2, ConstantsAssumption DEF QueueType
<1> QED BY <1>1, <1>2, <1>3, <1>4, CommandFields

\* The versions in play are numbers.
LEMMA VersionFacts ==
  ASSUME QueueType, TablesType
  PROVE  /\ head \in Nat /\ head <= MaxVersion /\ MaxVersion \in Nat /\ fold.version \in Nat
         /\ fold.version <= head /\ fold.version \in AllVersions
         /\ intent # Nothing => intent.observed \in Nat /\ intent.held \in Commands
BY ConstantsAssumption DEF QueueType, TablesType, AllVersions, Intents

-----------------------------------------------------------------------------
(* The latest snapshot. *)

LEMMA LatestOf ==
  ASSUME NEW S, S \subseteq AllVersions, 0 \in S
  PROVE  \E b \in S : \A u \in S : u <= b
<1> DEFINE T == {k \in Nat : MaxVersion - k \in S}
<1>1. T \subseteq Nat /\ MaxVersion \in T
  BY ConstantsAssumption
<1>2. PICK x \in T : \A y \in T : x <= y
  BY <1>1, LeastElement
<1>3. \A u \in S : MaxVersion - u \in T
  BY ConstantsAssumption DEF AllVersions
<1>4. \A u \in S : u <= MaxVersion - x
  <2> SUFFICES ASSUME NEW u \in S PROVE u <= MaxVersion - x
    OBVIOUS
  <2>1. x <= MaxVersion - u
    BY <1>2, <1>3
  <2>2. x \in Nat /\ u \in Nat /\ MaxVersion \in Nat
    BY ConstantsAssumption DEF AllVersions
  <2> QED BY <2>1, <2>2
<1> QED BY <1>2, <1>4

LEMMA BaseIsLatest ==
  ASSUME TablesType
  PROVE  /\ Base \in Snapshots /\ \A u \in Snapshots : u <= Base
         /\ Snapshots \subseteq AllVersions
<1> PICK S : S = Snapshots
  OBVIOUS
<1>1. S \subseteq AllVersions /\ 0 \in S
  BY ConstantsAssumption DEF Snapshots, AllVersions, Versions
<1>2. \E b \in S : \A u \in S : u <= b
  BY <1>1, LatestOf
<1> QED BY <1>1, <1>2 DEF Base

\* The ledger has the head, and the latest snapshot is not past it.
LEMMA LedgerFacts ==
  ASSUME QueueType, TablesType, FoldMatchesLedger
  PROVE  /\ Base \in 0..fold.version /\ Base \in Nat
         /\ \A v \in Versions : v > fold.version => ledger[v] = Nothing
         /\ \A v \in (Base + 1)..fold.version : ledger[v] # Nothing
         /\ fold.version > 0 => ledger[fold.version] # Nothing
<1>1. fold.version \in Nat /\ fold.version <= MaxVersion
  BY VersionFacts
<1>2. Base \in Nat /\ (Base # 0 => Base \in Versions /\ ledger[Base] # Nothing)
  BY BaseIsLatest, ConstantsAssumption DEF Snapshots, AllVersions
<1>3. /\ \A v \in Versions : v > fold.version => ledger[v] = Nothing
      /\ \A v \in (Base + 1)..fold.version : ledger[v] # Nothing
  BY DEF FoldMatchesLedger
<1>4. Base <= fold.version
  BY <1>1, <1>2, <1>3
<1>5. fold.version > 0 => ledger[fold.version] # Nothing
  BY <1>1, <1>2, <1>3, <1>4
<1> QED BY <1>1, <1>2, <1>3, <1>4, <1>5

-----------------------------------------------------------------------------
(* What no step takes back. *)

Forward ==
    /\ head' >= head
    /\ \A c \in Commands : published'[c] >= published[c]
    /\ fold'.version >= fold.version
    /\ \A v \in Versions : ledger[v] # Nothing => ledger'[v] = ledger[v]
    /\ fold'.version = fold.version => \A v \in Versions : ledger'[v] = ledger[v] \/ HeldOnce(v)
    /\ \A c \in Commands : pending[c] # Nothing => pending'[c] # Nothing
    /\ audits \subseteq audits'
    /\ malformed => malformed'

LEMMA StepStays ==
  ASSUME QueueType, TablesType, QueueType', TablesType', Forward,
         NEW s \in WorkerStep, StepOK(s)
  PROVE  StepOK(s)'
<1> SUFFICES ASSUME s.at \notin {"idle", "load"}
             PROVE  StepOK(s)'
  BY DEF StepOK
<1>1. s # Idle
  BY DEF Idle
<1> PICK c : c = Command(s.msg)
  OBVIOUS
<1>2. c \in Commands /\ c.version \in Versions /\ c.version \in Nat /\ s.observed \in Nat
      /\ (s.at = "snapped" => s.snap \in Nat)
  BY <1>1, StepShape, MessageFields, CommandFields, ConstantsAssumption DEF Versions
<1>3. fold.version \in Nat /\ fold'.version \in Nat /\ head \in Nat /\ head' \in Nat
  BY ConstantsAssumption DEF QueueType, TablesType, AllVersions
<1>4. s.observed <= fold'.version /\ (s.observed = fold'.version => fold'.version = fold.version)
  BY <1>2, <1>3 DEF StepOK, Forward
<1>5. s.at = "begin" /\ s.observed = fold'.version =>
          ledger'[c.version] = Nothing \/ HeldOnce(c.version)'
  <2>1. HeldOnce(c.version) => HeldOnce(c.version)'
    BY DEF HeldOnce, Forward
  <2> QED BY <1>2, <1>4, <2>1 DEF StepOK, Forward
<1>6. s.at = "snapped" => s.snap \in 1..head'
  BY <1>2, <1>3 DEF StepOK, Forward
<1>7. s.at = "poison" => ledger'[c.version] # Nothing /\ ledger'[c.version].own # c.own
  BY <1>2 DEF StepOK, Forward
<1>8. s.at \in BegunAt \cup {"snapped"} => pending'[c] # Nothing
  BY <1>2 DEF StepOK, Forward
<1>9. s.at = "refused" => malformed'
  BY DEF StepOK, Forward
<1>10. /\ IF s.at = "install" THEN c.version = s.observed + 1 ELSE c.version # s.observed + 1
       /\ s.at = "replayed" => c.own /\ c.version > s.observed
       /\ s.at = "historical" => c.own /\ c.version <= s.observed
       /\ s.at = "snapped" => s.snap >= s.observed /\ s.snap >= c.version
  BY DEF StepOK
<1> QED BY <1>4, <1>5, <1>6, <1>7, <1>8, <1>9, <1>10 DEF StepOK

LEMMA TrustStays ==
  ASSUME QueueType, TablesType, QueueType', Forward
  PROVE  /\ Trusted' => Trusted
         /\ \A c \in Commands : Accounted(c) => Accounted(c)'
         /\ \A m \in Messages : Known(m) => Known(m)'
<1>1. \A c \in Commands : published[c] \in Nat /\ published'[c] \in Nat
  BY ConstantsAssumption DEF QueueType
<1>2. Trusted' => Trusted
  BY <1>1 DEF Trusted, Forward
<1>3. ASSUME NEW c \in Commands, Accounted(c)
      PROVE  Accounted(c)'
  <2>1. c.version \in Versions
    BY CommandFields
  <2> QED BY <1>3, <2>1 DEF Accounted, Forward
<1>4. ASSUME NEW m \in Messages, Known(m)
      PROVE  Known(m)'
  <2>1. m[1] \in Commands /\ m[2] \in Nat
    BY MessageFields
  <2>2. m[1].version \in Nat /\ head \in Nat /\ head' \in Nat
    BY <2>1, CommandFields, ConstantsAssumption DEF QueueType, AllVersions
  <2> QED BY <1>1, <1>4, <2>1, <2>2 DEF Known, Forward
<1> QED BY <1>2, <1>3, <1>4

\* Where nothing was installed, taken up or dead-lettered.
LEMMA StandingForward ==
  ASSUME QueueType, TablesType, UNCHANGED <<fold, ledger, audits>>,
         \A c \in Commands : pending[c] # Nothing => pending'[c] # Nothing,
         UNCHANGED <<head, published>>, malformed => malformed'
  PROVE  Forward
<1>1. head \in Nat /\ fold.version \in Nat /\ \A c \in Commands : published[c] \in Nat
  BY ConstantsAssumption DEF QueueType, TablesType, AllVersions
<1> QED BY <1>1 DEF Forward

-----------------------------------------------------------------------------
(* The steps of a consumer, as the queue sees them. *)

Taken(w) ==
    /\ stream' = stream \ {worker[w].msg}
    /\ inflight' = IF inflight = worker[w].msg THEN Nothing ELSE inflight

WorkerMoves(w, s) ==
    /\ worker[w] # Idle
    /\ worker' = [worker EXCEPT ![w] = s]
    /\ s \in WorkerStep /\ (s = Idle \/ s.msg = worker[w].msg)
    /\ UNCHANGED <<head, floor, published>>
    /\ UNCHANGED <<stream, inflight>> \/ (s = Idle /\ Taken(w))
    /\ faults' \in 0..MaxFaults /\ malformed' \in BOOLEAN /\ (malformed => malformed')

LEMMA SettleMoves ==
  ASSUME QueueType, NEW w \in Workers, worker[w] # Idle, Settle(w) \/ Nak(w)
  PROVE  WorkerMoves(w, Idle)
<1>1. Idle \in WorkerStep
  BY DEF WorkerStep
<1> QED BY <1>1, ConstantsAssumption DEF Settle, Nak, TakeOff, Move, NoFault, Fault, WorkerMoves, Taken,
         authority, queue, QueueType

LEMMA GotoMoves ==
  ASSUME QueueType, NEW w \in Workers, worker[w] # Idle, NEW s \in WorkerStep,
         s = Idle \/ s.msg = worker[w].msg, Move(w, s),
         NoFault \/ Malformed \/ (Fault /\ UNCHANGED malformed)
  PROVE  WorkerMoves(w, s)
<1>1. faults' \in 0..MaxFaults
  BY ConstantsAssumption DEF NoFault, Fault, Malformed, QueueType
<1>2. malformed' \in BOOLEAN /\ (malformed => malformed')
  BY DEF NoFault, Fault, Malformed, QueueType
<1> QED BY <1>1, <1>2 DEF Move, WorkerMoves, authority, queue

LEMMA MovedType ==
  ASSUME QueueType, NEW w \in Workers, NEW s, WorkerMoves(w, s)
  PROVE  QueueType'
<1>1. inflight' \in stream' \cup {Nothing} /\ stream' \subseteq Messages
  BY DEF QueueType, WorkerMoves, Taken
<1> QED BY <1>1 DEF QueueType, WorkerMoves

LEMMA MovedOK ==
  ASSUME QueueType, TablesType, QueueOK, StepsOK, NEW w \in Workers, NEW s, WorkerMoves(w, s),
         TablesType', Forward, StepOK(s)'
  PROVE  QueueType' /\ QueueOK' /\ StepsOK'
<1>1. QueueType'
  BY MovedType
<1>2. \A q \in Workers : worker'[q] = IF q = w THEN s ELSE worker[q]
  BY DEF QueueType, WorkerMoves
<1>3. stream' \subseteq stream /\ \A m : Known(m) => Known(m)'
  BY DEF WorkerMoves, Taken, Known
<1>4. QueueOK'
  <2>1. \A m \in stream' : Known(m)'
    BY <1>3 DEF QueueOK
  <2>2. ASSUME NEW q \in Workers, worker'[q] # Idle
        PROVE  Known(worker[q].msg)' /\ (worker'[q].msg \in stream' => inflight' = worker'[q].msg)
    <3> PICK m : m = worker[q].msg
      OBVIOUS
    <3>1. worker[q] # Idle /\ worker'[q].msg = m
      BY <1>2, <2>2 DEF WorkerMoves
    <3>2. Known(m) /\ (m \in stream => inflight = m)
      BY <3>1 DEF QueueOK
    <3>3. Known(m)'
      BY <1>3, <3>2
    <3>4. m \in stream' => inflight' = m
      BY <1>3, <3>2 DEF WorkerMoves, Taken
    <3> QED BY <3>1, <3>3, <3>4
  <2> QED BY <2>1, <2>2 DEF QueueOK
<1>5. StepsOK'
  <2>1. ASSUME NEW q \in Workers, q # w
        PROVE  StepOK(worker[q])'
    <3>1. worker[q] \in WorkerStep /\ StepOK(worker[q]) /\ worker'[q] = worker[q]
      BY <1>2, <2>1 DEF QueueType, StepsOK
    <3> PICK x : x = worker[q]
      OBVIOUS
    <3>2. StepOK(x)'
      BY <1>1, <3>1, StepStays
    <3> QED BY <3>1, <3>2
  <2>2. worker'[w] = s
    BY <1>2
  <2> QED BY <2>1, <2>2 DEF StepsOK
<1> QED BY <1>1, <1>4, <1>5

\* Everybody else who has read the head that a step moves holds the command
\* of that step, or one that is settled.
LEMMA OthersTrusted ==
  ASSUME ParticipationInv, NEW w \in Workers, NEW s, WorkerMoves(w, s), QueueType', TablesType',
         Forward, Trusted', Current(s)', NEW c, c = Held(w),
         stream' # stream => Accounted(c)',
         fold'.version # fold.version =>
             Accounted(c)' /\ (inflight # Nothing => Command(inflight) = c)
  PROVE  /\ Trusted /\ \A q \in Workers : Current(worker[q])'
         /\ SettledIsAccounted'
<1>1. Trusted /\ QueueType /\ TablesType /\ QueueOK
  BY TrustStays DEF ParticipationInv
<1>2. \A m \in Messages : m[2] <= published[m[1]] /\ m \notin stream => Accounted(m[1])
  BY <1>1 DEF ParticipationInv, SettledIsAccounted
<1>3. ASSUME NEW q \in Workers
      PROVE  Current(worker[q])'
  <2> PICK x : x = worker'[q]
    OBVIOUS
  <2>1. CASE q = w
    BY <2>1, <1>1 DEF WorkerMoves, QueueType
  <2>2. CASE q # w /\ x.at \in {"idle", "load"}
    BY <2>2 DEF Current
  <2>3. CASE q # w /\ x.at \notin {"idle", "load"}
    <3>1. x = worker[q] /\ x # Idle /\ x \in WorkerStep
      BY <2>3, <1>1 DEF WorkerMoves, QueueType, Idle
    <3>2. Current(x)
      BY <1>1, <3>1 DEF ParticipationInv, TrustedOK
    <3> PICK m : m = x.msg
      OBVIOUS
    <3>3. m \in Messages /\ Command(m) \in Commands /\ m[1] = Command(m)
      BY <3>1, StepShape, MessageFields
    <3>4. Known(m) /\ (m \in stream => inflight = m)
      BY <1>1, <3>1 DEF QueueOK
    <3>5. Accounted(Command(m)) => Accounted(Command(m))'
      BY <1>1, <3>3, TrustStays
    <3>6. m \notin stream => Accounted(Command(m))
      BY <1>2, <3>3, <3>4 DEF Known
    <3>7. m \in stream => m # Nothing
      BY <3>3, ConstantsAssumption
    <3>8. x.observed = fold'.version \/ Accounted(Command(m))'
      BY <2>3, <3>2, <3>4, <3>5, <3>6, <3>7 DEF Current
    <3> QED BY <3>8 DEF Current
  <2> QED BY <2>1, <2>2, <2>3
<1>4. SettledIsAccounted'
  <2> SUFFICES ASSUME NEW m \in Messages, m[2] <= published'[m[1]], m \notin stream'
               PROVE  Accounted(m[1])'
    BY DEF SettledIsAccounted
  <2>1. m[1] \in Commands /\ published' = published
    BY MessageFields DEF WorkerMoves
  <2>2. CASE m \notin stream
    BY <1>1, <1>2, <2>1, <2>2, TrustStays
  <2>3. CASE m \in stream
    <3>1. Taken(w) /\ m = worker[w].msg
      BY <2>3 DEF WorkerMoves, Taken
    <3>2. c = m[1]
      BY <3>1 DEF Held, Command
    <3> QED BY <2>3, <3>2
  <2> QED BY <2>2, <2>3
<1> QED BY <1>1, <1>3, <1>4

\* A consumer's step that leaves the tables alone, but for a count of attempts.
LEMMA StandInv ==
  ASSUME ParticipationInv, NEW w \in Workers, NEW s, WorkerMoves(w, s),
         UNCHANGED <<fold, ledger, intent, audits>>,
         pending' \in [Commands -> PendingRow \cup {Nothing}],
         \A d \in Commands : pending'[d] = Nothing <=> pending[d] = Nothing,
         StepOK(s)', Trusted' => Current(s),
         Trusted' /\ stream' # stream => Accounted(Held(w))
  PROVE  ParticipationInv'
<1>1. QueueType /\ TablesType /\ QueueOK /\ StepsOK /\ HeldOK /\ TrustedOK /\ FoldMatchesLedger
  BY DEF ParticipationInv
<1>2. QueueType' /\ TablesType'
  BY <1>1, MovedType DEF TablesType, WorkerMoves
<1>3. UNCHANGED <<head, published>> /\ (malformed => malformed')
  BY DEF WorkerMoves
<1>4. Forward
  BY <1>1, <1>3, StandingForward
<1>5. QueueOK' /\ StepsOK'
  BY <1>1, <1>2, <1>4, MovedOK
<1>6. HeldOK'
  BY <1>1, <1>2, <1>3 DEF HeldOK, TablesType, Intents
<1>7. FoldMatchesLedger'
  BY <1>1 DEF FoldMatchesLedger, Base, Snapshots
<1>8. TrustedOK' /\ SettledIsAccounted'
  <2> SUFFICES ASSUME Trusted' PROVE TrustedOK' /\ SettledIsAccounted'
    BY DEF TrustedOK, SettledIsAccounted
  <2> PICK c : c = Held(w)
    OBVIOUS
  <2>1. \A d : Accounted(d)' <=> Accounted(d)
    BY DEF Accounted
  <2>2. Current(s)' /\ (stream' # stream => Accounted(c)')
    BY <2>1 DEF Current
  <2>3. Trusted /\ (\A q \in Workers : Current(worker[q])') /\ SettledIsAccounted'
    BY <1>2, <1>4, <2>2, OthersTrusted
  <2>4. intent # Nothing => /\ inflight # Nothing /\ Command(inflight) = intent.held
                            /\ intent.observed = fold.version /\ ~Accounted(intent.held)
    BY <1>1, <2>3 DEF TrustedOK
  <2>5. intent # Nothing => inflight' = inflight
    <3> SUFFICES ASSUME intent # Nothing, inflight' # inflight PROVE FALSE
      OBVIOUS
    <3>1. inflight = worker[w].msg /\ stream' = stream \ {worker[w].msg} /\ inflight \in stream
      BY <1>1, <2>4 DEF WorkerMoves, Taken, QueueType
    <3>2. Accounted(Command(inflight))
      BY <3>1 DEF Held
    <3> QED BY <2>4, <3>2
  <2>6. \A v \in Versions : ledger'[v] # Nothing => ledger'[v].own
    BY <1>1, <2>3 DEF TrustedOK
  <2>7. \A d \in Commands : <<d, "DIVERGENT_HISTORY">> \notin audits'
    BY <1>1, <2>3 DEF TrustedOK
  <2>8. \A d \in Commands : Accounted(d)' => d.version <= fold'.version
    BY <1>1, <2>1, <2>3 DEF TrustedOK
  <2>9. \A d \in Commands : pending'[d] # Nothing /\ (intent' = Nothing \/ intent'.held # d)
                                => Accounted(d)'
    BY <1>1, <2>1, <2>3 DEF TrustedOK
  <2>10. intent' # Nothing => /\ inflight' # Nothing /\ Command(inflight') = intent'.held
                              /\ intent'.observed = fold'.version /\ ~Accounted(intent.held)'
    BY <2>1, <2>4, <2>5 DEF Accounted
  <2> QED BY <2>3, <2>6, <2>7, <2>8, <2>9, <2>10 DEF TrustedOK, Command
<1> QED BY <1>2, <1>5, <1>6, <1>7, <1>8 DEF ParticipationInv

-----------------------------------------------------------------------------
(* The actions that leave the tables alone. *)

\* Where a consumer is, and what that means.
LEMMA AtWork ==
  ASSUME ParticipationInv, NEW w \in Workers, worker[w].at # "idle"
  PROVE  /\ worker[w] # Idle /\ worker[w] \in WorkerStep /\ StepOK(worker[w])
         /\ worker[w].msg \in Messages /\ Held(w) \in Commands
         /\ Held(w) = Command(worker[w].msg)
         /\ Held(w).version \in Versions /\ Held(w).version \in Nat
         /\ Held(w).version >= 1 /\ Held(w).version <= head
         /\ published[Held(w)] > 0
         /\ worker[w].msg \in stream => inflight = worker[w].msg
         /\ Trusted => Held(w).own /\ Current(worker[w])
         /\ Trusted /\ worker[w].msg \notin stream => Accounted(Held(w))
         /\ worker[w].at # "load" => worker[w].observed \in AllVersions /\ worker[w].observed \in Nat
         /\ worker[w].at \in {"poison", "install", "begin"} \cup BegunAt =>
                worker[w] = [at |-> worker[w].at, msg |-> worker[w].msg, observed |-> worker[w].observed]
<1>1. worker[w] # Idle /\ StepOK(worker[w]) /\ QueueType /\ QueueOK
  BY DEF Idle, ParticipationInv, StepsOK
<1>2. /\ worker[w] \in WorkerStep /\ worker[w].msg \in Messages /\ Held(w) \in Commands
      /\ Held(w) = Command(worker[w].msg) /\ Held(w) = worker[w].msg[1]
      /\ Held(w).version <= head /\ published[Held(w)] > 0
      /\ worker[w].msg \in stream => inflight = worker[w].msg
  BY <1>1, HeldFacts
<1>3. Trusted => Held(w).own /\ Current(worker[w])
  BY <1>2 DEF Trusted, ParticipationInv, TrustedOK
<1>4. Trusted /\ worker[w].msg \notin stream => Accounted(Held(w))
  BY <1>1, <1>2 DEF ParticipationInv, SettledIsAccounted, QueueOK, Known
<1> QED BY <1>1, <1>2, <1>3, <1>4, CommandFields, StepShape

\* A message may be given up where its command is accounted for.
LEMMA SettleInv ==
  ASSUME ParticipationInv, NEW w \in Workers, worker[w].at # "idle", Settle(w) \/ Nak(w),
         UNCHANGED tables, Trusted /\ worker[w].msg \in stream => Accounted(Held(w)) \/ Nak(w)
  PROVE  ParticipationInv'
<1>1. WorkerMoves(w, Idle)
  BY AtWork, SettleMoves DEF ParticipationInv
<1>2. StepOK(Idle)' /\ Current(Idle)
  BY DEF StepOK, Current, Idle
<1>3. UNCHANGED <<fold, ledger, intent, audits, pending>>
  BY DEF tables
<1>4. pending' \in [Commands -> PendingRow \cup {Nothing}]
  BY <1>3 DEF ParticipationInv, TablesType
<1>5. Trusted' /\ stream' # stream => Accounted(Held(w))
  <2> SUFFICES ASSUME Trusted', stream' # stream PROVE Accounted(Held(w))
    OBVIOUS
  <2>1. Taken(w) /\ worker[w].msg \in stream /\ ~Nak(w)
    BY <1>1 DEF WorkerMoves, Taken, Nak, Move, queue
  <2>2. Trusted
    BY <1>1, <1>3 DEF Trusted, WorkerMoves
  <2> QED BY <2>1, <2>2
<1> QED BY <1>1, <1>2, <1>3, <1>4, <1>5, StandInv

\* A consumer goes on with the head it has read.
LEMMA GoOnInv ==
  ASSUME ParticipationInv, NEW w \in Workers, worker[w].at # "idle", UNCHANGED tables,
         NEW s \in WorkerStep, s.msg = worker[w].msg, Move(w, s), NoFault,
         StepOK(s), Trusted => Current(s)
  PROVE  ParticipationInv'
<1>1. WorkerMoves(w, s)
  BY AtWork, GotoMoves DEF ParticipationInv
<1>2. UNCHANGED <<fold, ledger, intent, audits, pending, stream, head, malformed, published>>
  BY DEF tables, Move, queue, authority, NoFault
<1>3. StepOK(s)'
  BY <1>2 DEF StepOK, HeldOnce
<1>4. Trusted' => Current(s)
  BY <1>2 DEF Trusted
<1>5. pending' \in [Commands -> PendingRow \cup {Nothing}]
  BY <1>2 DEF ParticipationInv, TablesType
<1> QED BY <1>1, <1>2, <1>3, <1>4, <1>5, StandInv

\* A step with a fault that ends the handling or breaks the trust.
LEMMA FaultInv ==
  ASSUME ParticipationInv, NEW w \in Workers, NEW s, WorkerMoves(w, s), UNCHANGED tables,
         StepOK(s)', malformed' \/ (s = Idle /\ UNCHANGED stream)
  PROVE  ParticipationInv'
<1>1. UNCHANGED <<fold, ledger, intent, audits, pending>>
  BY DEF tables
<1>2. pending' \in [Commands -> PendingRow \cup {Nothing}]
  BY <1>1 DEF ParticipationInv, TablesType
<1>3. Trusted' => s = Idle /\ UNCHANGED stream
  BY DEF Trusted
<1>4. Current(Idle)
  BY DEF Current, Idle
<1> QED BY <1>1, <1>2, <1>3, <1>4, StandInv

LEMMA IdleFaultInv ==
  ASSUME ParticipationInv, NEW w \in Workers, worker[w].at # "idle", UNCHANGED tables,
         Move(w, Idle), Malformed \/ (Fault /\ UNCHANGED malformed)
  PROVE  ParticipationInv'
<1>1. Idle \in WorkerStep /\ StepOK(Idle)'
  BY DEF WorkerStep, StepOK, Idle
<1>2. WorkerMoves(w, Idle)
  BY <1>1, AtWork, GotoMoves DEF ParticipationInv
<1>3. UNCHANGED stream
  BY DEF Move, queue
<1> QED BY <1>1, <1>2, <1>3, FaultInv

\* A malformed answer after which the message is terminated.
LEMMA TakeOffFaultInv ==
  ASSUME ParticipationInv, NEW w \in Workers, worker[w].at # "idle", UNCHANGED tables,
         TakeOff(w), Malformed
  PROVE  ParticipationInv'
<1>1. Idle \in WorkerStep /\ StepOK(Idle)'
  BY DEF WorkerStep, StepOK, Idle
<1>2. malformed' /\ malformed' \in BOOLEAN /\ faults' \in 0..MaxFaults
  BY ConstantsAssumption DEF Malformed, Fault, ParticipationInv, QueueType
<1>3. WorkerMoves(w, Idle)
  BY <1>1, <1>2, AtWork DEF WorkerMoves, TakeOff, Taken, authority
<1> QED BY <1>1, <1>2, <1>3, FaultInv

LEMMA LoadInv ==
  ASSUME ParticipationInv, NEW w \in Workers, Load(w)
  PROVE  ParticipationInv'
<1>1. worker[w].at = "load" /\ worker[w].at # "idle" /\ UNCHANGED tables
  BY DEF Load
<1> PICK c : c = Held(w)
  OBVIOUS
<1>2. c \in Commands /\ c.version \in Versions /\ c.version \in Nat /\ worker[w].msg \in Messages
      /\ c = Command(worker[w].msg)
  BY <1>1, AtWork
<1>3. fold.version \in Nat /\ fold.version \in AllVersions
      /\ \A v \in Versions : v > fold.version => ledger[v] = Nothing
  BY VersionFacts, LedgerFacts DEF ParticipationInv
<1>4. CASE ledger[c.version] # Nothing /\ Settle(w)
  BY <1>1, <1>4, SettleInv DEF Accounted
<1>5. ASSUME NEW at \in {"poison", "begin", "install"},
             Move(w, [at |-> at, msg |-> worker[w].msg, observed |-> fold.version]), NoFault,
             at = "poison" => /\ c.version <= fold.version /\ ledger[c.version] # Nothing
                              /\ ledger[c.version].own # c.own,
             at = "begin" => \/ c.version <= fold.version /\ ledger[c.version] = Nothing
                             \/ c.version > fold.version + 1,
             at = "install" => c.version = fold.version + 1
      PROVE  ParticipationInv'
  <2> PICK s : s = [at |-> at, msg |-> worker[w].msg, observed |-> fold.version]
    OBVIOUS
  <2>1. s \in WorkerStep /\ s.msg = worker[w].msg /\ s.at = at /\ s.observed = fold.version
    BY <1>2, <1>3, StepMade
  <2>2. at = "begin" => ledger[c.version] = Nothing
    BY <1>2, <1>3, <1>5
  <2>3. fold.version <= fold.version
        /\ IF at = "install" THEN c.version = fold.version + 1 ELSE c.version # fold.version + 1
    BY <1>2, <1>3, <1>5
  <2>4. StepOK(s)
    BY <1>2, <1>5, <2>1, <2>2, <2>3 DEF StepOK, BegunAt
  <2>5. Current(s)
    BY <2>1 DEF Current
  <2> QED BY <1>1, <1>5, <2>1, <2>4, <2>5, GoOnInv
<1> QED BY <1>4, <1>5 DEF Load, Retained

\* The same step of reconcile with another name.
LEMMA GotoInv ==
  ASSUME ParticipationInv, NEW w \in Workers, worker[w].at \in {"begin"} \cup BegunAt,
         UNCHANGED tables, NEW at \in BegunAt, at # "refused", Goto(w, at),
         pending[Held(w)] # Nothing, worker[w].at = "begin" => HeadUnmoved(w),
         at = "replayed" => Held(w).own /\ Held(w).version > worker[w].observed,
         at = "historical" => Held(w).own /\ Held(w).version <= worker[w].observed
  PROVE  ParticipationInv'
<1> PICK x : x = worker[w]
  OBVIOUS
<1> PICK s : s = [at |-> at, msg |-> x.msg, observed |-> x.observed]
  OBVIOUS
<1>1. /\ x.at # "idle" /\ x.at \notin {"idle", "load", "install"}
      /\ at \notin {"idle", "load", "install", "poison", "begin", "refused", "snapped"}
      /\ at \in {"poison", "install", "begin"} \cup BegunAt
  BY DEF BegunAt
<1>2. /\ x \in WorkerStep /\ x.msg \in Messages /\ Held(w) = Command(x.msg) /\ StepOK(x)
      /\ x.observed \in AllVersions /\ (Trusted => Current(x))
      /\ x = [at |-> x.at, msg |-> x.msg, observed |-> x.observed]
  BY <1>1, AtWork DEF BegunAt
<1>3. s \in WorkerStep /\ s.msg = x.msg /\ s.at = at /\ s.observed = x.observed
  BY <1>1, <1>2, StepMade
<1>4. [x EXCEPT !.at = at] = s
  BY <1>2
<1>5. Move(w, s) /\ NoFault
  BY <1>4 DEF Goto
<1>6. StepOK(s)
  BY <1>1, <1>2, <1>3 DEF StepOK
<1>7. Trusted => Current(s)
  BY <1>1, <1>2, <1>3 DEF Current
<1> QED BY <1>1, <1>3, <1>5, <1>6, <1>7, GoOnInv

LEMMA ReplayInv ==
  ASSUME ParticipationInv, NEW w \in Workers, Replay(w)
  PROVE  ParticipationInv'
<1>1. /\ worker[w].at = "replay" /\ worker[w].at # "idle" /\ UNCHANGED tables
      /\ worker[w].at \in {"begin"} \cup BegunAt /\ worker[w].at # "begin"
  BY DEF Replay, BegunAt
<1>2. /\ StepOK(worker[w]) /\ Held(w) = Command(worker[w].msg) /\ (Trusted => Held(w).own)
      /\ Held(w).version \in Nat /\ worker[w].observed \in Nat
  BY <1>1, AtWork
<1>3. pending[Held(w)] # Nothing
  BY <1>1, <1>2 DEF StepOK, BegunAt
<1>4. CASE Goto(w, "snapshot")
  BY <1>1, <1>3, <1>4, GotoInv DEF BegunAt
<1>5. CASE Held(w).own /\ Goto(w, IF Historical(w) THEN "historical" ELSE "replayed")
  <2>1. CASE Historical(w)
    <3>1. Goto(w, "historical") /\ Held(w).version <= worker[w].observed
      BY <1>5, <2>1 DEF Historical
    <3> QED BY <1>1, <1>3, <1>5, <3>1, GotoInv DEF BegunAt
  <2>2. CASE ~Historical(w)
    <3>1. Goto(w, "replayed") /\ Held(w).version > worker[w].observed
      BY <1>2, <1>5, <2>2 DEF Historical
    <3> QED BY <1>1, <1>3, <1>5, <3>1, GotoInv DEF BegunAt
  <2> QED BY <2>1, <2>2
<1>6. CASE ~Held(w).own /\ Settle(w)
  BY <1>1, <1>2, <1>6, SettleInv
<1>7. CASE Malformed /\ Move(w, Idle)
  BY <1>1, <1>7, IdleFaultInv
<1>8. CASE Malformed /\ TakeOff(w)
  BY <1>1, <1>8, TakeOffFaultInv
<1> QED BY <1>4, <1>5, <1>6, <1>7, <1>8 DEF Replay

LEMMA SnapshotInv ==
  ASSUME ParticipationInv, NEW w \in Workers, Snapshot(w)
  PROVE  ParticipationInv'
<1> PICK x : x = worker[w]
  OBVIOUS
<1> PICK c : c = Command(x.msg)
  OBVIOUS
<1>1. x.at = "snapshot" /\ x.at # "idle" /\ UNCHANGED tables
  BY DEF Snapshot
<1>2. /\ StepOK(x) /\ x.msg \in Messages /\ x.observed \in AllVersions /\ x.observed \in Nat
      /\ c.version \in Nat /\ c.version >= 1 /\ c.version <= head /\ (Trusted => Current(x))
  BY <1>1, AtWork
<1>3. head \in Nat /\ fold.version \in Nat /\ fold.version <= head /\ head \in AllVersions
  BY VersionFacts DEF ParticipationInv, QueueType
<1>4. CASE /\ Move(w, [at |-> "snapped", msg |-> x.msg, observed |-> x.observed, snap |-> head])
           /\ NoFault
  <2> PICK s : s = [at |-> "snapped", msg |-> x.msg, observed |-> x.observed, snap |-> head]
    OBVIOUS
  <2>1. head \in Versions /\ head \in 1..head /\ head >= c.version
    BY <1>2, <1>3 DEF Versions, AllVersions
  <2>2. /\ s \in WorkerStep /\ s.msg = x.msg /\ s.at = "snapped" /\ s.observed = x.observed
        /\ s.snap = head
    BY <1>2, <2>1, StepMade
  <2>3. x.observed <= fold.version /\ c.version # x.observed + 1 /\ pending[c] # Nothing
    BY <1>1, <1>2 DEF StepOK, BegunAt
  <2>4. head >= x.observed
    BY <1>2, <1>3, <2>3
  <2>5. StepOK(s)
    BY <2>1, <2>2, <2>3, <2>4 DEF StepOK, BegunAt
  <2>6. Trusted => Current(s)
    BY <1>1, <1>2, <2>2 DEF Current
  <2> QED BY <1>1, <1>4, <2>2, <2>5, <2>6, GoOnInv
<1>5. CASE Malformed /\ Move(w, Idle)
  BY <1>1, <1>5, IdleFaultInv
<1>6. CASE Malformed /\ TakeOff(w)
  BY <1>1, <1>6, TakeOffFaultInv
<1> QED BY <1>4, <1>5, <1>6 DEF Snapshot

LEMMA RequestFailsInv ==
  ASSUME ParticipationInv, NEW w \in Workers, RequestFails(w)
  PROVE  ParticipationInv'
<1> PICK x : x = worker[w]
  OBVIOUS
<1>1. /\ x.at \in {"replay", "snapshot"} /\ x.at # "idle" /\ UNCHANGED tables
      /\ x.at \in {"begin"} \cup BegunAt /\ x.at # "begin"
  BY DEF RequestFails, BegunAt
<1>2. /\ StepOK(x) /\ Held(w) = Command(x.msg) /\ x.msg \in Messages /\ x.observed \in AllVersions
      /\ x = [at |-> x.at, msg |-> x.msg, observed |-> x.observed] /\ x # Idle
  BY <1>1, AtWork DEF BegunAt
<1>3. pending[Held(w)] # Nothing
  BY <1>1, <1>2 DEF StepOK, BegunAt
<1>4. CASE Goto(w, "failed")
  BY <1>1, <1>3, <1>4, GotoInv DEF BegunAt
<1>5. CASE Malformed /\ Move(w, [x EXCEPT !.at = "refused"])
  <2> PICK s : s = [at |-> "refused", msg |-> x.msg, observed |-> x.observed]
    OBVIOUS
  <2>1. s \in WorkerStep /\ s.msg = x.msg /\ s.at = "refused" /\ s.observed = x.observed
    BY <1>2, StepMade DEF BegunAt
  <2>2. [x EXCEPT !.at = "refused"] = s
    BY <1>2
  <2>3. WorkerMoves(w, s)
    BY <1>2, <1>5, <2>1, <2>2, GotoMoves DEF ParticipationInv
  <2>4. malformed' /\ UNCHANGED <<fold, ledger, pending, head>>
    BY <1>1, <1>5 DEF Malformed, tables, Move, authority
  <2>5. StepOK(s)'
    BY <1>1, <1>2, <2>1, <2>4 DEF StepOK, BegunAt
  <2> QED BY <1>1, <2>3, <2>4, <2>5, FaultInv
<1> QED BY <1>4, <1>5 DEF RequestFails

\* One that comes late to a reconciliation holds a command that is settled.
LEMMA LateIsAccounted ==
  ASSUME ParticipationInv, Trusted, NEW w \in Workers,
         worker[w].at \in BegunAt \cup {"snapped"}, ~IntentHeld(w)
  PROVE  Accounted(Held(w))
<1> PICK x : x = worker[w]
  OBVIOUS
<1>1. x.at \notin {"idle", "load"} /\ x.at # "idle"
  BY DEF BegunAt
<1>2. StepOK(x) /\ Held(w) \in Commands /\ Held(w) = Command(x.msg) /\ Current(x)
  BY <1>1, AtWork
<1>3. pending[Held(w)] # Nothing
  BY <1>1, <1>2 DEF StepOK
<1>4. CASE ~HeadUnmoved(w)
  BY <1>1, <1>2, <1>4 DEF HeadUnmoved, Current
<1>5. CASE intent = Nothing \/ intent.held # Held(w)
  BY <1>2, <1>3, <1>5 DEF ParticipationInv, TrustedOK
<1>6. CASE HeadUnmoved(w) /\ intent # Nothing /\ intent.held = Held(w)
  <2>1. intent \in Intents /\ intent.observed = fold.version
    BY <1>6 DEF ParticipationInv, TrustedOK, TablesType
  <2>2. intent = [observed |-> x.observed, held |-> Held(w)]
    BY <1>6, <2>1 DEF Intents, HeadUnmoved
  <2> QED BY <1>6, <2>2 DEF IntentHeld
<1> QED BY <1>4, <1>5, <1>6

LEMMA OvertakenInv ==
  ASSUME ParticipationInv, NEW w \in Workers, Overtaken(w)
  PROVE  ParticipationInv'
<1>1. /\ worker[w].at \in BegunAt \cup {"snapped"} /\ worker[w].at # "idle" /\ UNCHANGED tables
      /\ ~IntentHeld(w) /\ Settle(w)
  BY DEF Overtaken, BegunAt
<1> QED BY <1>1, LateIsAccounted, SettleInv

LEMMA StopInv ==
  ASSUME ParticipationInv, NEW w \in Workers, Stop(w)
  PROVE  ParticipationInv'
<1>1. worker[w] \in WorkerStep /\ worker[w] # Idle
  BY DEF Stop, ParticipationInv, QueueType
<1>2. worker[w].at # "idle"
  BY <1>1, StepShape DEF BegunAt
<1> QED BY <1>2, IdleFaultInv DEF Stop, tables

-----------------------------------------------------------------------------
(* Failures and dead letters that end the trust. *)

LEMMA UntrustedInv ==
  ASSUME ParticipationInv, NEW w \in Workers, WorkerMoves(w, Idle), UNCHANGED <<fold, ledger>>,
         NEW c \in Commands, NEW r \in Reasons, r # "UNKNOWN_STALE_HISTORY",
         audits' \in {audits, audits \cup {<<c, r>>}}, ~Trusted',
         pending' \in [Commands -> PendingRow \cup {Nothing}],
         \A d \in Commands : pending'[d] = Nothing <=> pending[d] = Nothing,
         intent' \in {intent, Nothing}
  PROVE  ParticipationInv'
<1>1. QueueType /\ TablesType /\ QueueOK /\ StepsOK /\ HeldOK /\ FoldMatchesLedger
  BY DEF ParticipationInv
<1>2. UNCHANGED <<head, published>> /\ (malformed => malformed')
  BY DEF WorkerMoves
<1>3. QueueType' /\ TablesType'
  BY <1>1, <1>2, MovedType DEF TablesType
<1>4. Forward
  <2>1. head \in Nat /\ fold.version \in Nat /\ \A d \in Commands : published[d] \in Nat
    BY <1>1, ConstantsAssumption DEF QueueType, TablesType, AllVersions
  <2> QED BY <1>2, <2>1 DEF Forward
<1>5. StepOK(Idle)'
  BY DEF StepOK, Idle
<1>6. QueueOK' /\ StepsOK'
  BY <1>1, <1>3, <1>4, <1>5, MovedOK
<1>7. HeldOK'
  <2>1. \A d \in Commands : <<d, "UNKNOWN_STALE_HISTORY">> \in audits' =>
                             <<d, "UNKNOWN_STALE_HISTORY">> \in audits
    OBVIOUS
  <2> QED BY <1>1, <1>2, <1>3, <2>1 DEF HeldOK, TablesType, Intents
<1>8. FoldMatchesLedger'
  BY <1>1 DEF FoldMatchesLedger, Base, Snapshots
<1>9. TrustedOK' /\ SettledIsAccounted'
  BY DEF TrustedOK, SettledIsAccounted
<1> QED BY <1>3, <1>6, <1>7, <1>8, <1>9 DEF ParticipationInv

LEMMA RecordPoisonInv ==
  ASSUME ParticipationInv, NEW w \in Workers, RecordPoison(w)
  PROVE  ParticipationInv'
<1>1. /\ worker[w].at = "poison" /\ worker[w].at # "idle" /\ Settle(w)
      /\ UNCHANGED <<fold, ledger, pending, intent>>
      /\ audits' = audits \cup {<<Held(w), "DIVERGENT_HISTORY">>}
  BY DEF RecordPoison, Audit
<1>2. /\ worker[w] # Idle /\ StepOK(worker[w]) /\ Held(w) \in Commands
      /\ Held(w) = Command(worker[w].msg)
      /\ Held(w).version \in Versions /\ (Trusted => Held(w).own)
  BY <1>1, AtWork
<1>3. WorkerMoves(w, Idle)
  BY <1>1, <1>2, SettleMoves DEF ParticipationInv
<1>4. ~Trusted
  <2>1. ledger[Held(w).version] # Nothing /\ ledger[Held(w).version].own # Held(w).own
    BY <1>1, <1>2 DEF StepOK
  <2>2. ledger[Held(w).version] \in LedgerRow
    BY <1>2, <2>1 DEF ParticipationInv, TablesType
  <2>3. ledger[Held(w).version].own \in BOOLEAN /\ Held(w).own \in BOOLEAN
    BY <1>2, <2>2, CommandFields DEF LedgerRow
  <2>4. Trusted => ledger[Held(w).version].own /\ Held(w).own
    BY <1>2, <2>1 DEF ParticipationInv, TrustedOK
  <2> QED BY <2>1, <2>3, <2>4
<1>5. ~Trusted'
  BY <1>1, <1>3, <1>4 DEF Trusted, WorkerMoves
<1>6. pending' \in [Commands -> PendingRow \cup {Nothing}]
  BY <1>1 DEF ParticipationInv, TablesType
<1>7. "DIVERGENT_HISTORY" \in Reasons /\ "DIVERGENT_HISTORY" # "UNKNOWN_STALE_HISTORY"
  BY DEF Reasons
<1> QED BY <1>1, <1>2, <1>3, <1>5, <1>6, <1>7, UntrustedInv

LEMMA FailReconcileInv ==
  ASSUME ParticipationInv, NEW w \in Workers, FailReconcile(w)
  PROVE  ParticipationInv'
<1> PICK x : x = worker[w]
  OBVIOUS
<1> PICK c : c = Held(w)
  OBVIOUS
<1> PICK n : n = pending[c].attempts + 1
  OBVIOUS
<1>1. x.at \in {"failed", "refused"} /\ x.at # "idle" /\ x.at \in BegunAt /\ UNCHANGED <<fold, ledger>>
  BY DEF FailReconcile, BegunAt
<1>2. x # Idle /\ StepOK(x) /\ c \in Commands /\ c = Command(x.msg)
  BY <1>1, AtWork
<1>3. pending[c] # Nothing /\ (x.at = "refused" => malformed)
  BY <1>1, <1>2 DEF StepOK
<1>4. /\ pending \in [Commands -> PendingRow \cup {Nothing}] /\ pending[c] \in PendingRow /\ n \in Nat
  BY <1>2, <1>3 DEF ParticipationInv, TablesType, PendingRow
<1>5. WorkerMoves(w, Idle)
  BY <1>2, SettleMoves DEF FailReconcile, ParticipationInv
<1>6. "RECONCILE_EXHAUSTED" \in Reasons /\ "RECONCILE_EXHAUSTED" # "UNKNOWN_STALE_HISTORY"
  BY DEF Reasons
<1>7. Nothing \notin PendingRow
  BY ConstantsAssumption DEF PendingRow
<1>8. CASE /\ audits' = audits \cup {<<c, "RECONCILE_EXHAUSTED">>} /\ intent' = Nothing
           /\ pending' = [pending EXCEPT ![c] = [attempts |-> n, status |-> "dlq"]]
  <2>1. [attempts |-> n, status |-> "dlq"] \in PendingRow
    BY <1>4 DEF PendingRow
  <2>2. /\ pending' \in [Commands -> PendingRow \cup {Nothing}]
        /\ \A d \in Commands : pending'[d] = Nothing <=> pending[d] = Nothing
    BY <1>2, <1>3, <1>4, <1>7, <1>8, <2>1
  <2>3. ~Trusted'
    BY <1>2, <1>8 DEF Trusted
  <2> QED BY <1>1, <1>2, <1>5, <1>6, <1>8, <2>2, <2>3, UntrustedInv
<1>9. CASE /\ pending' \in {pending, [pending EXCEPT ![c].attempts = n]}
           /\ UNCHANGED <<audits, intent>> /\ (x.at = "refused" \/ Nak(w))
  <2>1. [pending[c] EXCEPT !.attempts = n] \in PendingRow
    BY <1>4 DEF PendingRow
  <2>2. /\ pending' \in [Commands -> PendingRow \cup {Nothing}]
        /\ \A d \in Commands : pending'[d] = Nothing <=> pending[d] = Nothing
    BY <1>2, <1>3, <1>4, <1>7, <1>9, <2>1
  <2>3. CASE x.at = "refused"
    <3>1. ~Trusted'
      BY <1>3, <1>5, <2>3 DEF Trusted, WorkerMoves
    <3> QED BY <1>1, <1>2, <1>5, <1>6, <1>9, <2>2, <3>1, UntrustedInv
  <2>4. CASE Nak(w)
    <3>1. StepOK(Idle)' /\ Current(Idle) /\ stream' = stream
      BY <2>4 DEF StepOK, Current, Idle, Nak, Move, queue
    <3> QED BY <1>1, <1>5, <1>9, <2>2, <3>1, StandInv
  <2> QED BY <1>9, <2>3, <2>4
<1> QED BY <1>8, <1>9 DEF FailReconcile, Audit

-----------------------------------------------------------------------------
(* A reconciliation begins. *)

LEMMA BeginFreshInv ==
  ASSUME ParticipationInv, NEW w \in Workers, worker[w].at = "begin", HeadUnmoved(w),
         NEW c, c = Held(w), intent = Nothing, ~HeldOnce(c.version),
         pending' = [pending EXCEPT ![c] = [attempts |-> 0, status |-> "pending"]],
         intent' = [observed |-> fold.version, held |-> c],
         Goto(w, "replay"), UNCHANGED <<fold, ledger, audits>>
  PROVE  ParticipationInv'
<1> PICK x : x = worker[w]
  OBVIOUS
<1> PICK s : s = [at |-> "replay", msg |-> x.msg, observed |-> x.observed]
  OBVIOUS
<1>1. /\ QueueType /\ TablesType /\ QueueOK /\ StepsOK /\ HeldOK /\ FoldMatchesLedger /\ TrustedOK
      /\ x.at # "idle"
  BY DEF ParticipationInv
<1>2. /\ x # Idle /\ x.msg \in Messages /\ c = Command(x.msg) /\ c \in Commands /\ StepOK(x)
      /\ x.observed \in AllVersions /\ x.observed = fold.version /\ published[c] > 0
      /\ c.version \in Versions
      /\ x = [at |-> x.at, msg |-> x.msg, observed |-> x.observed]
  BY <1>1, AtWork DEF HeadUnmoved
<1>3. s \in WorkerStep /\ s.msg = x.msg /\ s.at = "replay" /\ s.observed = x.observed
  BY <1>2, StepMade DEF BegunAt
<1>4. [x EXCEPT !.at = "replay"] = s
  BY <1>2
<1>5. WorkerMoves(w, s) /\ UNCHANGED <<stream, inflight, head, published, malformed>>
  BY <1>1, <1>2, <1>3, <1>4, GotoMoves DEF Goto, Move, NoFault, queue, authority
<1>6. /\ pending' \in [Commands -> PendingRow \cup {Nothing}] /\ pending'[c] # Nothing
      /\ \A d \in Commands : d # c => pending'[d] = pending[d]
  <2>1. [attempts |-> 0, status |-> "pending"] \in PendingRow /\ Nothing \notin PendingRow
    BY ConstantsAssumption DEF PendingRow
  <2> QED BY <1>1, <1>2, <2>1 DEF TablesType
<1>7. QueueType' /\ TablesType'
  <2>1. intent' \in Intents
    BY <1>2 DEF Intents
  <2> QED BY <1>1, <1>5, <1>6, <2>1, MovedType DEF TablesType
<1>8. Forward
  BY <1>1, <1>5, <1>6, StandingForward
<1>9. /\ x.observed <= fold.version /\ c.version # fold.version + 1 /\ ledger[c.version] = Nothing
      /\ pending[c] = Nothing
  BY <1>2 DEF StepOK, BegunAt, HeldOnce
<1>10. StepOK(s)'
  BY <1>2, <1>3, <1>6, <1>9 DEF StepOK, BegunAt
<1>11. QueueOK' /\ StepsOK'
  BY <1>1, <1>5, <1>7, <1>8, <1>10, MovedOK
<1>12. intent' # Nothing /\ intent'.held = c /\ intent'.observed = fold.version
  BY <1>2, ConstantsAssumption DEF Intents, AllVersions
<1>13. HeldOK'
  <2>1. \A d \in Commands : pending'[d] # Nothing => published'[d] > 0
    BY <1>1, <1>2, <1>5, <1>6 DEF HeldOK
  <2>2. \A d \in Commands : <<d, "UNKNOWN_STALE_HISTORY">> \in audits' => pending'[d] # Nothing
    BY <1>1, <1>6 DEF HeldOK
  <2> QED BY <1>2, <1>6, <1>9, <1>12, <2>1, <2>2 DEF HeldOK
<1>14. FoldMatchesLedger'
  BY <1>1 DEF FoldMatchesLedger, Base, Snapshots
<1>15. TrustedOK' /\ SettledIsAccounted'
  <2> SUFFICES ASSUME Trusted' PROVE TrustedOK' /\ SettledIsAccounted'
    BY DEF TrustedOK, SettledIsAccounted
  <2>1. \A d : Accounted(d)' <=> Accounted(d)
    BY DEF Accounted
  <2>2. Current(s)' /\ stream' = stream /\ fold'.version = fold.version
    BY <1>2, <1>3, <1>5 DEF Current
  <2>3. Trusted /\ (\A q \in Workers : Current(worker[q])') /\ SettledIsAccounted'
    BY <1>5, <1>7, <1>8, <2>2, OthersTrusted
  <2>4. ~Accounted(c)
    BY <1>1, <1>2, <1>9, <2>3 DEF Accounted, Reasons, TrustedOK, Trusted, HeldOK
  <2>5. x.msg \in stream /\ inflight = x.msg /\ inflight # Nothing
    BY <1>1, <1>2, <2>3, <2>4, AtWork, ConstantsAssumption
  <2>6. \A v \in Versions : ledger'[v] # Nothing => ledger'[v].own
    BY <1>1, <2>3 DEF TrustedOK
  <2>7. \A d \in Commands : <<d, "DIVERGENT_HISTORY">> \notin audits'
    BY <1>1, <2>3 DEF TrustedOK
  <2>8. \A d \in Commands : Accounted(d)' => d.version <= fold'.version
    BY <1>1, <2>1, <2>3 DEF TrustedOK
  <2>9. \A d \in Commands : pending'[d] # Nothing /\ (intent' = Nothing \/ intent'.held # d)
                                => Accounted(d)'
    BY <1>1, <1>6, <1>12, <2>1, <2>3 DEF TrustedOK
  <2>10. /\ inflight' # Nothing /\ Command(inflight') = intent'.held
         /\ intent'.observed = fold'.version /\ ~Accounted(intent.held)'
    BY <1>2, <1>5, <1>12, <2>1, <2>4, <2>5 DEF Accounted
  <2> QED BY <2>3, <2>6, <2>7, <2>8, <2>9, <2>10 DEF TrustedOK, Command
<1> QED BY <1>7, <1>11, <1>13, <1>14, <1>15 DEF ParticipationInv

LEMMA BeginInv ==
  ASSUME ParticipationInv, NEW w \in Workers, Begin(w)
  PROVE  ParticipationInv'
<1> PICK x : x = worker[w]
  OBVIOUS
<1> PICK c : c = Held(w)
  OBVIOUS
<1> PICK fresh : fresh = [observed |-> fold.version, held |-> c]
  OBVIOUS
<1>1. x.at = "begin" /\ x.at # "idle" /\ x.at \in {"begin"} \cup BegunAt /\ UNCHANGED <<fold, ledger, audits>>
  BY DEF Begin
<1>2. /\ c \in Commands /\ c = Command(x.msg) /\ StepOK(x) /\ fresh # Nothing /\ fresh.held = c
      /\ x.msg \in stream => inflight = x.msg
      /\ Trusted => Current(x) /\ c.own
  <2>1. fresh \in Intents
    BY <1>1, AtWork, VersionFacts DEF Intents, ParticipationInv
  <2>2. fresh # Nothing
    BY <2>1, ConstantsAssumption DEF Intents, AllVersions
  <2> QED BY <1>1, <2>2, AtWork
<1>3. CASE /\ ~HeadUnmoved(w) \/ intent \notin {Nothing, fresh}
              \/ (intent = Nothing /\ HeldOnce(c.version))
           /\ Settle(w) /\ UNCHANGED <<pending, intent>>
  <2> SUFFICES ASSUME Trusted, x.msg \in stream
               PROVE  Accounted(c)
    BY <1>1, <1>3, SettleInv DEF tables
  <2>1. CASE ~HeadUnmoved(w)
    BY <1>1, <1>2, <2>1 DEF HeadUnmoved, Current
  <2>2. CASE intent \notin {Nothing, fresh}
    <3>1. intent \in Intents /\ intent.held = c /\ intent.observed = fold.version
      BY <1>2, <2>2 DEF ParticipationInv, TablesType, TrustedOK
    <3> QED BY <2>2, <3>1 DEF Intents
  <2>3. CASE intent = Nothing /\ HeldOnce(c.version)
    <3>1. PICK d \in Commands : d.version = c.version /\ pending[d] # Nothing
      BY <2>3 DEF HeldOnce
    <3>2. d.own
      BY <3>1 DEF ParticipationInv, HeldOK, Trusted
    <3>3. d = c
      BY <1>2, <3>1, <3>2, CommandFields
    <3> QED BY <2>3, <3>1, <3>3 DEF ParticipationInv, TrustedOK
  <2> QED BY <1>3, <2>1, <2>2, <2>3
<1>4. CASE HeadUnmoved(w) /\ intent = fresh /\ Goto(w, "replay") /\ UNCHANGED <<pending, intent>>
  <2>1. pending[c] # Nothing
    BY <1>2, <1>4 DEF ParticipationInv, HeldOK
  <2>2. "replay" \in BegunAt /\ UNCHANGED tables
    BY <1>1, <1>4 DEF BegunAt, tables
  <2> QED BY <1>1, <1>4, <2>1, <2>2, GotoInv
<1>5. CASE /\ HeadUnmoved(w) /\ intent = Nothing /\ ~HeldOnce(c.version) /\ Goto(w, "replay")
           /\ pending' = [pending EXCEPT ![c] = [attempts |-> 0, status |-> "pending"]]
           /\ intent' = fresh
  BY <1>1, <1>5, BeginFreshInv
<1> QED BY <1>3, <1>4, <1>5 DEF Begin, HeldOnce

-----------------------------------------------------------------------------
(* Installs. *)

\* The ledger as the records that FoldMatchesLedger folds.
LedgerRecords == [v \in Versions |-> [version |-> v, own |-> ledger[v].own]]

LEMMA LedgerFolded ==
  ASSUME FoldMatchesLedger
  PROVE  fold.members = FoldRecords(AuthorityMembers(Base), Base + 1, LedgerRecords, fold.version)
BY DEF FoldMatchesLedger, LedgerRecords

\* The next records, folded in place, continue the fold of the ledger.
LEMMA InstallRecordsFolds ==
  ASSUME QueueType, TablesType, FoldMatchesLedger,
         NEW from \in Nat, NEW to \in Versions, from = fold.version + 1, from <= to, NEW recs,
         \A v \in from..to : recs[v] \in Commands /\ recs[v].version = v,
         InstallRecords(recs, from, to)
  PROVE  /\ FoldMatchesLedger' /\ fold'.version = to
         /\ ledger' \in [Versions -> LedgerRow \cup {Nothing}]
         /\ \A v \in Versions : ledger[v] # Nothing => ledger'[v] = ledger[v]
         /\ \A v \in from..to : ledger'[v] # Nothing /\ ledger'[v].own = recs[v].own
         /\ \A v \in Versions : v \notin from..to => ledger'[v] = ledger[v]
<1>1. /\ Base \in Nat /\ Base <= fold.version /\ fold.version \in Nat /\ to \in Nat
      /\ \A v \in Versions : v > fold.version => ledger[v] = Nothing
      /\ \A v \in (Base + 1)..fold.version : ledger[v] # Nothing
  BY LedgerFacts, VersionFacts, ConstantsAssumption DEF Versions
<1>2. /\ fold' = [version |-> to, members |-> FoldRecords(fold.members, from, recs, to)]
      /\ fold'.version = to /\ fold'.members = FoldRecords(fold.members, from, recs, to)
      /\ ledger' = [v \in Versions |->
                        IF v \in from..to THEN [own |-> recs[v].own, source |-> "command"] ELSE ledger[v]]
  BY DEF InstallRecords
<1>3. \A v \in from..to : v \in Versions /\ [own |-> recs[v].own, source |-> "command"] \in LedgerRow
  BY <1>1, CommandFields, ConstantsAssumption DEF LedgerRow, Versions
<1>4. Nothing \notin LedgerRow
  BY ConstantsAssumption DEF LedgerRow
<1>5. /\ \A v \in from..to : ledger'[v] = [own |-> recs[v].own, source |-> "command"]
      /\ \A v \in Versions : v \notin from..to => ledger'[v] = ledger[v]
  BY <1>2, <1>3
<1>6. ledger' \in [Versions -> LedgerRow \cup {Nothing}]
  BY <1>2, <1>3 DEF TablesType
<1>7. \A v \in Versions : ledger[v] # Nothing => v \notin from..to
  BY <1>1, ConstantsAssumption DEF Versions
<1>8. \A v \in from..to : ledger'[v] # Nothing /\ ledger'[v].own = recs[v].own /\ ledger'[v].source = "command"
  <2> SUFFICES ASSUME NEW v \in from..to
               PROVE  ledger'[v] # Nothing /\ ledger'[v].own = recs[v].own /\ ledger'[v].source = "command"
    OBVIOUS
  <2>1. ledger'[v] = [own |-> recs[v].own, source |-> "command"] /\ ledger'[v] \in LedgerRow
    BY <1>3, <1>5
  <2>2. ledger'[v] # Nothing
    BY <1>4, <2>1
  <2> QED BY <2>1, <2>2
<1>9. Snapshots' = Snapshots
  BY <1>5, <1>7, <1>8 DEF Snapshots
<1>10. Base' = Base
  BY <1>9 DEF Base
<1> PICK b : b = Base
  OBVIOUS
<1> PICK m : m = fold.version
  OBVIOUS
<1> PICK base : base = AuthorityMembers(b)
  OBVIOUS
<1> PICK old : old = LedgerRecords
  OBVIOUS
<1> PICK new : new = LedgerRecords'
  OBVIOUS
<1>11. /\ b + 1 \in Int /\ m \in Int /\ to \in Int /\ from \in Int /\ (b + 1) - 1 <= m /\ m <= to
       /\ from - 1 <= to /\ from = m + 1
       /\ \A v \in (b + 1)..m : v \in Versions /\ v \notin from..to
       /\ \A v \in (b + 1)..to : v \in (b + 1)..m \/ v \in from..to
  BY <1>1, ConstantsAssumption DEF Versions
<1>12. \A v \in (b + 1)..m : new[v] = old[v]
  BY <1>5, <1>11 DEF LedgerRecords
<1>13. \A v \in from..to : new[v] = recs[v]
  <2> SUFFICES ASSUME NEW v \in from..to PROVE new[v] = recs[v]
    OBVIOUS
  <2>1. new[v] = [version |-> v, own |-> recs[v].own]
    BY <1>3, <1>8 DEF LedgerRecords
  <2>2. recs[v] = [version |-> recs[v].version, own |-> recs[v].own]
    BY DEF Commands
  <2> QED BY <2>1, <2>2
<1>14. FoldRecords(base, b + 1, new, m) = fold.members
  <2>1. FoldRecords(base, b + 1, new, m) = FoldRecords(base, b + 1, old, m)
    BY <1>11, <1>12, FoldAgree
  <2> QED BY <2>1, LedgerFolded
<1>15. FoldRecords(fold.members, from, new, to) = fold'.members
  <2>1. FoldRecords(fold.members, from, new, to) = FoldRecords(fold.members, from, recs, to)
    BY <1>11, <1>13, FoldAgree
  <2> QED BY <1>2, <2>1
<1>16. FoldRecords(FoldRecords(base, b + 1, new, m), m + 1, new, to) = FoldRecords(base, b + 1, new, to)
  BY <1>11, FoldJoin
<1>17. fold'.members = FoldRecords(base, b + 1, new, to)
  BY <1>11, <1>14, <1>15, <1>16
<1>18. \A v \in Versions : v > to => ledger'[v] = Nothing
  BY <1>1, <1>5, ConstantsAssumption DEF Versions
<1>19. \A v \in (b + 1)..to : ledger'[v] # Nothing
  BY <1>1, <1>5, <1>8, <1>11
<1>20. fold'.members = FoldRecords(AuthorityMembers(Base'), Base' + 1, LedgerRecords', fold'.version)
  BY <1>2, <1>10, <1>17
<1>21. FoldMatchesLedger'
  BY <1>2, <1>10, <1>18, <1>19, <1>20 DEF FoldMatchesLedger, LedgerRecords
<1> QED BY <1>2, <1>5, <1>6, <1>7, <1>8, <1>21

\* After an install that closes the intent, or had none.
LEMMA InstalledTrust ==
  ASSUME ParticipationInv, NEW w \in Workers, WorkerMoves(w, Idle), QueueType', TablesType',
         Forward, FoldMatchesLedger', Trusted', NEW c, c = Held(w), c \in Commands,
         Accounted(c)', inflight # Nothing => Command(inflight) = c,
         \A v \in Versions : ledger'[v] = ledger[v] \/ ledger'[v].own,
         audits' \subseteq audits \cup {<<c, "UNKNOWN_STALE_HISTORY">>},
         c.version <= fold'.version,
         \A d \in Commands : pending'[d] = Nothing <=> pending[d] = Nothing,
         intent' = Nothing, intent = Nothing \/ intent.held = c
  PROVE  TrustedOK' /\ SettledIsAccounted'
<1>1. Current(Idle)'
  BY DEF Current, Idle
<1>2. Trusted /\ (\A q \in Workers : Current(worker[q])') /\ SettledIsAccounted'
  BY <1>1, OthersTrusted
<1>3. TrustedOK /\ QueueType /\ TablesType
  BY DEF ParticipationInv
<1>4. \A v \in Versions : ledger'[v] # Nothing => ledger'[v].own
  BY <1>2, <1>3 DEF TrustedOK
<1>5. \A d \in Commands : <<d, "DIVERGENT_HISTORY">> \notin audits'
  BY <1>2, <1>3 DEF TrustedOK
<1>6. ASSUME NEW d \in Commands, Accounted(d)'
      PROVE  d.version <= fold'.version
  <2>1. d.version \in Versions /\ d.version \in Nat /\ fold.version \in Nat /\ fold'.version \in Nat
        /\ fold'.version >= fold.version
    BY <1>3, CommandFields, ConstantsAssumption DEF TablesType, QueueType, AllVersions, Forward
  <2>2. CASE ledger'[d.version] # Nothing
    BY <2>1, <2>2 DEF FoldMatchesLedger
  <2>3. CASE \E r \in Reasons : <<d, r>> \in audits'
    <3>1. d = c \/ Accounted(d)
      BY <2>3 DEF Accounted
    <3> QED BY <1>2, <1>3, <2>1, <3>1 DEF TrustedOK
  <2> QED BY <1>6, <2>2, <2>3 DEF Accounted
<1>7. ASSUME NEW d \in Commands, pending'[d] # Nothing
      PROVE  Accounted(d)'
  <2>1. d # c => Accounted(d)
    BY <1>2, <1>3, <1>7 DEF TrustedOK
  <2> QED BY <1>3, <2>1, TrustStays
<1> QED BY <1>2, <1>4, <1>5, <1>6, <1>7 DEF TrustedOK

Grows ==
    /\ \A v \in Versions : ledger[v] # Nothing => ledger'[v] = ledger[v]
    /\ fold'.version >= fold.version

LEMMA InstallInv ==
  ASSUME ParticipationInv, NEW w \in Workers, Install(w)
  PROVE  ParticipationInv' /\ Grows
<1> PICK x : x = worker[w]
  OBVIOUS
<1> PICK c : c = Held(w)
  OBVIOUS
<1>1. /\ x.at = "install" /\ x.at # "idle" /\ Settle(w) /\ UNCHANGED <<pending, intent, audits>>
      /\ QueueType /\ TablesType /\ QueueOK /\ StepsOK /\ HeldOK /\ FoldMatchesLedger /\ TrustedOK
  BY DEF Install, ParticipationInv
<1>2. /\ x # Idle /\ StepOK(x) /\ c \in Commands /\ c = Command(x.msg) /\ c.version \in Versions
      /\ c.version \in Nat /\ c.version <= head /\ x.observed \in Nat /\ x.msg \in Messages
      /\ x.msg \in stream => inflight = x.msg
      /\ Trusted => Current(x) /\ c.own
      /\ Trusted /\ x.msg \notin stream => Accounted(c)
  BY <1>1, AtWork
<1>3. CASE ~HeadUnmoved(w)
  <2>1. UNCHANGED tables
    BY <1>1, <1>3 DEF Install, tables
  <2>2. Trusted => Accounted(c)
    BY <1>1, <1>2, <1>3 DEF Current, HeadUnmoved
  <2>3. Grows
    BY <1>1, <2>1, VersionFacts DEF Grows, tables
  <2> QED BY <1>1, <2>1, <2>2, <2>3, SettleInv
<1>4. CASE HeadUnmoved(w)
  <2> PICK v : v = c.version
    OBVIOUS
  <2> PICK recs : recs = [u \in {v} |-> c]
    OBVIOUS
  <2>1. /\ v = fold.version + 1 /\ v \in Versions /\ v \in Nat /\ v <= v /\ v <= head
        /\ fold.version \in Nat /\ head \in Nat
    BY <1>1, <1>2, <1>4, VersionFacts DEF StepOK, HeadUnmoved
  <2>2. \A u \in v..v : recs[u] \in Commands /\ recs[u].version = u
    BY <1>2, <2>1
  <2>3. InstallRecords(recs, v, v)
    BY <1>4 DEF Install
  <2>4. /\ FoldMatchesLedger' /\ fold'.version = v
        /\ ledger' \in [Versions -> LedgerRow \cup {Nothing}]
        /\ \A u \in Versions : ledger[u] # Nothing => ledger'[u] = ledger[u]
        /\ \A u \in v..v : ledger'[u] # Nothing /\ ledger'[u].own = recs[u].own
        /\ \A u \in Versions : u \notin v..v => ledger'[u] = ledger[u]
    BY <1>1, <2>1, <2>2, <2>3, InstallRecordsFolds
  <2>5. /\ ledger'[v] # Nothing /\ ledger'[v].own = c.own
        /\ \A u \in Versions : u # v => ledger'[u] = ledger[u]
    BY <2>1, <2>4
  <2>6. WorkerMoves(w, Idle) /\ UNCHANGED <<head, published>> /\ (malformed => malformed')
    BY <1>1, <1>2, SettleMoves DEF WorkerMoves
  <2>7. QueueType' /\ TablesType'
    BY <1>1, <2>1, <2>4, <2>6, MovedType DEF TablesType
  <2>8. Forward
    <3>1. \A d \in Commands : published[d] \in Nat
      BY <1>1, ConstantsAssumption DEF QueueType
    <3> QED BY <1>1, <2>1, <2>4, <2>6, <3>1 DEF Forward
  <2>9. StepOK(Idle)'
    BY DEF StepOK, Idle
  <2>10. QueueOK' /\ StepsOK'
    BY <1>1, <2>6, <2>7, <2>8, <2>9, MovedOK
  <2>11. HeldOK'
    <3>1. intent # Nothing => intent.observed \in Nat
      BY <1>1, VersionFacts
    <3> QED BY <1>1, <2>1, <2>4, <2>6, <3>1 DEF HeldOK
  <2>12. TrustedOK' /\ SettledIsAccounted'
    <3> SUFFICES ASSUME Trusted' PROVE TrustedOK' /\ SettledIsAccounted'
      BY DEF TrustedOK, SettledIsAccounted
    <3>1. Trusted
      BY <1>1, <2>7, <2>8, TrustStays
    <3>2. ~Accounted(c)
      BY <1>1, <1>2, <2>1, <3>1 DEF TrustedOK
    <3>3. inflight = x.msg /\ Command(inflight) = c
      BY <1>2, <3>1, <3>2
    <3>4. intent = Nothing
      BY <1>1, <2>1, <3>1, <3>3 DEF TrustedOK, HeldOK
    <3>5. Accounted(c)'
      BY <2>5 DEF Accounted
    <3>6. \A u \in Versions : ledger'[u] = ledger[u] \/ ledger'[u].own
      BY <1>2, <2>5, <3>1
    <3>7. c.version <= fold'.version
      BY <2>1, <2>4
    <3> QED BY <1>1, <1>2, <2>4, <2>6, <2>7, <2>8, <3>3, <3>4, <3>5, <3>6, <3>7, InstalledTrust
  <2>13. Grows
    BY <2>8 DEF Grows, Forward
  <2> QED BY <2>4, <2>7, <2>10, <2>11, <2>12, <2>13 DEF ParticipationInv
<1> QED BY <1>3, <1>4

\* A reconciliation that still holds its intent.
LEMMA IntentFacts ==
  ASSUME ParticipationInv, NEW w \in Workers, worker[w].at \in BegunAt \cup {"snapped"}, IntentHeld(w)
  PROVE  /\ intent # Nothing /\ intent.held = Held(w) /\ worker[w].observed = fold.version
         /\ ledger[Held(w).version] = Nothing /\ pending[Held(w)] # Nothing
         /\ Trusted => Command(inflight) = Held(w)
<1>1. worker[w].at # "idle" /\ worker[w].at # "load"
  BY DEF BegunAt
<1>2. Held(w) \in Commands /\ worker[w].observed \in AllVersions
  BY <1>1, AtWork
<1>3. /\ intent = [observed |-> worker[w].observed, held |-> Held(w)]
      /\ worker[w].observed = fold.version
  BY DEF IntentHeld, HeadUnmoved
<1>4. intent # Nothing /\ intent.held = Held(w) /\ intent.observed = fold.version
  BY <1>2, <1>3, ConstantsAssumption DEF AllVersions
<1> QED BY <1>3, <1>4 DEF ParticipationInv, HeldOK, TrustedOK

\* completeReconcile, on the row the intent has.
LEMMA CompleteRows ==
  ASSUME TablesType, NEW w \in Workers, NEW c \in Commands, c = Held(w), pending[c] # Nothing,
         NEW status \in {"installed", "dlq"}, Complete(w, status)
  PROVE  /\ pending' \in [Commands -> PendingRow \cup {Nothing}] /\ intent' = Nothing
         /\ \A d \in Commands : pending'[d] = Nothing <=> pending[d] = Nothing
<1>1. pending[c] \in PendingRow /\ pending \in [Commands -> PendingRow \cup {Nothing}]
  BY DEF TablesType
<1>2. [pending[c] EXCEPT !.status = status] \in PendingRow /\ Nothing \notin PendingRow
  BY <1>1, ConstantsAssumption DEF PendingRow
<1>3. pending' = [pending EXCEPT ![c] = [pending[c] EXCEPT !.status = status]] /\ intent' = Nothing
  BY DEF Complete
<1> QED BY <1>1, <1>2, <1>3

\* What the three installs of a reconciliation have in common.
LEMMA ReconciledInv ==
  ASSUME ParticipationInv, NEW w \in Workers, worker[w].at \in BegunAt \cup {"snapped"}, IntentHeld(w),
         Settle(w), NEW status \in {"installed", "dlq"}, Complete(w, status),
         FoldMatchesLedger', fold'.version \in 0..head, fold'.version >= fold.version,
         NEW c, c = Held(w), c.version <= fold'.version,
         ledger' \in [Versions -> LedgerRow \cup {Nothing}],
         \A v \in Versions : ledger[v] # Nothing => ledger'[v] = ledger[v],
         \A v \in Versions : ledger'[v] = ledger[v] \/ ledger'[v].own,
         fold'.version = fold.version => \A v \in Versions : ledger'[v] = ledger[v] \/ HeldOnce(v),
         audits' \in {audits, audits \cup {<<c, "UNKNOWN_STALE_HISTORY">>}},
         ledger'[c.version] # Nothing \/ <<c, "UNKNOWN_STALE_HISTORY">> \in audits'
  PROVE  ParticipationInv' /\ Grows
<1>1. /\ QueueType /\ TablesType /\ QueueOK /\ StepsOK /\ HeldOK /\ TrustedOK
      /\ worker[w].at # "idle"
  BY DEF ParticipationInv, BegunAt
<1>2. /\ worker[w] # Idle /\ c \in Commands /\ c.version \in Versions
  BY <1>1, AtWork
<1>3. /\ intent # Nothing /\ intent.held = c /\ pending[c] # Nothing
      /\ Trusted => Command(inflight) = c
  BY IntentFacts
<1>4. /\ pending' \in [Commands -> PendingRow \cup {Nothing}] /\ intent' = Nothing
      /\ \A d \in Commands : pending'[d] = Nothing <=> pending[d] = Nothing
  BY <1>1, <1>2, <1>3, CompleteRows
<1>5. WorkerMoves(w, Idle) /\ UNCHANGED <<head, published>> /\ (malformed => malformed')
  BY <1>1, <1>2, SettleMoves DEF WorkerMoves
<1>6. QueueType' /\ TablesType'
  <2>1. audits' \subseteq Commands \X Reasons
    BY <1>1, <1>2 DEF TablesType, Reasons
  <2> QED BY <1>1, <1>4, <1>5, <2>1, MovedType DEF TablesType
<1>7. Forward
  <2>1. head \in Nat /\ \A d \in Commands : published[d] \in Nat
    BY <1>1, ConstantsAssumption DEF QueueType, AllVersions
  <2> QED BY <1>4, <1>5, <2>1 DEF Forward
<1>8. StepOK(Idle)'
  BY DEF StepOK, Idle
<1>9. QueueOK' /\ StepsOK'
  BY <1>1, <1>5, <1>6, <1>7, <1>8, MovedOK
<1>10. HeldOK'
  <2>1. \A d \in Commands : <<d, "UNKNOWN_STALE_HISTORY">> \in audits' =>
                             d = c \/ <<d, "UNKNOWN_STALE_HISTORY">> \in audits
    OBVIOUS
  <2> QED BY <1>1, <1>3, <1>4, <1>5, <2>1 DEF HeldOK
<1>11. Accounted(c)'
  BY DEF Accounted, Reasons
<1>12. TrustedOK' /\ SettledIsAccounted'
  <2> SUFFICES ASSUME Trusted' PROVE TrustedOK' /\ SettledIsAccounted'
    BY DEF TrustedOK, SettledIsAccounted
  <2>1. Trusted
    BY <1>1, <1>6, <1>7, TrustStays
  <2> QED BY <1>2, <1>3, <1>4, <1>5, <1>6, <1>7, <1>11, <2>1, InstalledTrust
<1>13. Grows
  BY <1>7 DEF Forward, Grows
<1> QED BY <1>6, <1>9, <1>10, <1>12, <1>13 DEF ParticipationInv

LEMMA InstallReconcileInv ==
  ASSUME ParticipationInv, NEW w \in Workers, InstallReconcile(w)
  PROVE  ParticipationInv' /\ Grows
<1> PICK x : x = worker[w]
  OBVIOUS
<1> PICK c : c = Held(w)
  OBVIOUS
<1> PICK to : to = c.version
  OBVIOUS
<1> PICK from : from = fold.version + 1
  OBVIOUS
<1> PICK recs : recs = [v \in Versions |-> Own(v)]
  OBVIOUS
<1>1. /\ x.at = "replayed" /\ x.at \in BegunAt \cup {"snapped"} /\ x.at # "idle"
      /\ IntentHeld(w) /\ Settle(w) /\ Complete(w, "installed") /\ UNCHANGED audits
      /\ QueueType /\ TablesType /\ FoldMatchesLedger
  BY DEF InstallReconcile, BegunAt, ParticipationInv
<1>2. /\ c = Command(x.msg) /\ StepOK(x) /\ to \in Versions /\ to \in Nat /\ to <= head
      /\ x.observed = fold.version /\ fold.version \in Nat /\ from \in Nat /\ head \in Nat
  <2>1. fold.version \in Nat /\ head \in Nat
    BY <1>1, VersionFacts
  <2>2. c = Command(x.msg) /\ StepOK(x) /\ to \in Versions /\ to \in Nat /\ to <= head
    BY <1>1, AtWork
  <2> QED BY <1>1, <2>1, <2>2, IntentFacts
<1>3. to > fold.version /\ from <= to
  BY <1>1, <1>2 DEF StepOK
<1>4. From(w) = from
  BY <1>2, <1>3 DEF From, Historical
<1>5. \A v \in from..to : v \in Versions /\ recs[v] \in Commands /\ recs[v].version = v /\ recs[v].own
  <2> SUFFICES ASSUME NEW v \in from..to
               PROVE  v \in Versions /\ recs[v] \in Commands /\ recs[v].version = v /\ recs[v].own
    OBVIOUS
  <2>1. v \in Versions
    BY <1>2, ConstantsAssumption DEF Versions
  <2>2. recs[v] = [version |-> v, own |-> TRUE]
    BY <2>1 DEF Own
  <2>3. [version |-> v, own |-> TRUE] \in Commands
    BY <2>1 DEF Commands
  <2> PICK r : r = recs[v]
    OBVIOUS
  <2>4. r = [version |-> v, own |-> TRUE]
    BY <2>2
  <2>5. r \in Commands
    BY <2>3, <2>4
  <2>6. r.version = v
    BY <2>4
  <2>7. r.own
    BY <2>4
  <2> QED BY <2>1, <2>5, <2>6, <2>7, Zenon
<1>6. InstallRecords(recs, from, to)
  BY <1>4 DEF InstallReconcile
<1>7. /\ FoldMatchesLedger' /\ fold'.version = to
      /\ ledger' \in [Versions -> LedgerRow \cup {Nothing}]
      /\ \A v \in Versions : ledger[v] # Nothing => ledger'[v] = ledger[v]
      /\ \A v \in from..to : ledger'[v] # Nothing /\ ledger'[v].own = recs[v].own
      /\ \A v \in Versions : v \notin from..to => ledger'[v] = ledger[v]
  BY <1>1, <1>2, <1>3, <1>5, <1>6, InstallRecordsFolds
<1>8. \A v \in Versions : ledger'[v] = ledger[v] \/ ledger'[v].own
  BY <1>5, <1>7
<1>9. ledger'[c.version] # Nothing /\ c.version <= fold'.version /\ fold'.version \in 0..head
      /\ fold'.version >= fold.version /\ fold'.version # fold.version
  <2>1. to \in from..to
    BY <1>2, <1>3
  <2>2. ledger'[to] # Nothing
    BY <1>7, <2>1
  <2>3. to <= to /\ to \in 0..head /\ to >= fold.version /\ to # fold.version
    BY <1>2, <1>3
  <2> QED BY <1>7, <2>2, <2>3
<1> QED BY <1>1, <1>7, <1>8, <1>9, ReconciledInv

LEMMA InstallHistoricalInv ==
  ASSUME ParticipationInv, NEW w \in Workers, InstallHistorical(w)
  PROVE  ParticipationInv' /\ Grows
<1> PICK x : x = worker[w]
  OBVIOUS
<1> PICK c : c = Held(w)
  OBVIOUS
<1> PICK row : row = [own |-> TRUE, source |-> "command"]
  OBVIOUS
<1>1. /\ x.at = "historical" /\ x.at \in BegunAt \cup {"snapped"} /\ x.at # "idle"
      /\ IntentHeld(w) /\ Settle(w) /\ Complete(w, "installed") /\ UNCHANGED <<fold, audits>>
      /\ QueueType /\ TablesType /\ FoldMatchesLedger
      /\ ledger' = [ledger EXCEPT ![c.version] = row]
  BY DEF InstallHistorical, BegunAt, ParticipationInv
<1>2. /\ c = Command(x.msg) /\ c \in Commands /\ StepOK(x) /\ c.version \in Versions /\ c.version \in Nat
      /\ x.observed = fold.version /\ ledger[c.version] = Nothing /\ pending[c] # Nothing
  BY <1>1, AtWork, IntentFacts
<1>3. /\ fold.version \in Nat /\ fold.version \in 0..head /\ c.version <= fold.version
      /\ fold.version >= fold.version
  BY <1>1, <1>2, VersionFacts DEF StepOK, TablesType
<1>4. row \in LedgerRow /\ row # Nothing /\ row.own /\ row.source = "command"
  <2>1. row \in LedgerRow
    BY DEF LedgerRow
  <2>2. Nothing \notin LedgerRow
    BY ConstantsAssumption DEF LedgerRow
  <2>3. row.own /\ row.source = "command"
    OBVIOUS
  <2> QED BY <2>1, <2>2, <2>3
<1>5. /\ ledger' \in [Versions -> LedgerRow \cup {Nothing}] /\ ledger'[c.version] = row
      /\ \A v \in Versions : v # c.version => ledger'[v] = ledger[v]
  BY <1>1, <1>2, <1>4 DEF TablesType
<1>6. HeldOnce(c.version)
  BY <1>2 DEF HeldOnce
<1>7. FoldMatchesLedger'
  <2>1. Snapshots' = Snapshots
    BY <1>2, <1>4, <1>5 DEF Snapshots
  <2>2. Base' = Base
    BY <2>1 DEF Base
  <2> PICK b : b = Base
    OBVIOUS
  <2> PICK m : m = fold.version
    OBVIOUS
  <2> PICK base : base = AuthorityMembers(b)
    OBVIOUS
  <2> PICK old : old = LedgerRecords
    OBVIOUS
  <2> PICK new : new = LedgerRecords'
    OBVIOUS
  <2>3. /\ b \in Nat /\ b <= m /\ m \in Nat /\ m <= MaxVersion /\ MaxVersion \in Nat
        /\ \A v \in Versions : v > m => ledger[v] = Nothing
        /\ \A v \in (b + 1)..m : ledger[v] # Nothing
    BY <1>1, LedgerFacts, VersionFacts
  <2>4. /\ b + 1 \in Int /\ m \in Int /\ (b + 1) - 1 <= m
        /\ \A v \in (b + 1)..m : v \in Versions /\ v # c.version
    BY <1>2, <2>3 DEF Versions
  <2>5. \A v \in (b + 1)..m : new[v] = old[v]
    BY <1>5, <2>4 DEF LedgerRecords
  <2>6. FoldRecords(base, b + 1, new, m) = FoldRecords(base, b + 1, old, m)
    BY <2>4, <2>5, FoldAgree
  <2>7. fold'.members = FoldRecords(AuthorityMembers(Base'), Base' + 1, LedgerRecords', fold'.version)
    BY <1>1, <2>2, <2>6, LedgerFolded
  <2>8. \A v \in Versions : v > m => ledger'[v] = Nothing
    BY <1>2, <1>3, <1>5, <2>3
  <2>9. \A v \in (b + 1)..m : ledger'[v] # Nothing
    BY <1>5, <2>3, <2>4
  <2> QED BY <1>1, <2>2, <2>7, <2>8, <2>9 DEF FoldMatchesLedger, LedgerRecords
<1>8. /\ \A v \in Versions : ledger[v] # Nothing => ledger'[v] = ledger[v]
      /\ \A v \in Versions : ledger'[v] = ledger[v] \/ ledger'[v].own
      /\ \A v \in Versions : ledger'[v] = ledger[v] \/ HeldOnce(v)
  BY <1>2, <1>4, <1>5, <1>6
<1>9. ledger'[c.version] # Nothing
  BY <1>4, <1>5
<1> QED BY <1>1, <1>3, <1>5, <1>7, <1>8, <1>9, ReconciledInv

LEMMA InstallSnapshotInv ==
  ASSUME ParticipationInv, NEW w \in Workers, InstallSnapshot(w)
  PROVE  ParticipationInv' /\ Grows
<1> PICK x : x = worker[w]
  OBVIOUS
<1> PICK c : c = Held(w)
  OBVIOUS
<1> PICK n : n = x.snap
  OBVIOUS
<1> PICK row : row = [own |-> TRUE, source |-> "snapshot"]
  OBVIOUS
<1>1. /\ x.at = "snapped" /\ x.at \in BegunAt \cup {"snapped"} /\ x.at # "idle" /\ IntentHeld(w)
      /\ QueueType /\ TablesType /\ FoldMatchesLedger
  BY DEF InstallSnapshot, ParticipationInv
<1>2. /\ c = Command(x.msg) /\ c \in Commands /\ StepOK(x) /\ c.version \in Nat /\ x.observed = fold.version
      /\ fold.version \in Nat /\ head \in Nat /\ head <= MaxVersion /\ MaxVersion \in Nat
  BY <1>1, AtWork, IntentFacts, VersionFacts
<1>3. n \in 1..head /\ n \in Nat /\ n \in Versions /\ n >= fold.version /\ n >= c.version
      /\ n \in 0..head
  BY <1>1, <1>2 DEF StepOK, Versions
<1>4. CASE Nak(w) /\ UNCHANGED tables
  <2>1. Grows
    BY <1>2, <1>4 DEF Grows, tables
  <2> QED BY <1>1, <1>4, <2>1, SettleInv
<1>5. CASE /\ ledger[n] = Nothing /\ Settle(w) /\ Complete(w, "dlq")
           /\ fold' = [version |-> n, members |-> AuthorityMembers(n)]
           /\ ledger' = [ledger EXCEPT ![n] = row]
           /\ audits' = audits \cup {<<c, "UNKNOWN_STALE_HISTORY">>}
  <2>1. row \in LedgerRow /\ row # Nothing /\ row.own /\ row.source = "snapshot"
    <3>1. row \in LedgerRow
      BY DEF LedgerRow
    <3>2. Nothing \notin LedgerRow
      BY ConstantsAssumption DEF LedgerRow
    <3>3. row.own /\ row.source = "snapshot"
      OBVIOUS
    <3> QED BY <3>1, <3>2, <3>3
  <2>2. /\ ledger' \in [Versions -> LedgerRow \cup {Nothing}] /\ ledger'[n] = row
        /\ \A v \in Versions : v # n => ledger'[v] = ledger[v]
    BY <1>1, <1>3, <1>5, <2>1 DEF TablesType
  <2>3. /\ n > fold.version
        /\ \A v \in Versions : v > fold.version => ledger[v] = Nothing
        /\ fold'.version = n /\ fold'.members = AuthorityMembers(n)
    BY <1>1, <1>2, <1>3, <1>5, LedgerFacts
  <2>4. FoldMatchesLedger'
    <3>1. \A v \in Versions : v > n => ledger'[v] = Nothing
      BY <1>2, <1>3, <2>2, <2>3 DEF Versions
    <3>2. n \in Snapshots' /\ \A u \in Snapshots' : u <= n /\ u \in Nat
      BY <1>2, <1>3, <2>1, <2>2, <3>1 DEF Snapshots, Versions
    <3>3. Base' \in Snapshots' /\ \A u \in Snapshots' : u <= Base'
      BY <3>2 DEF Base
    <3>4. Base' = n
      BY <1>3, <3>2, <3>3
    <3> PICK new : new = LedgerRecords'
      OBVIOUS
    <3>5. n \in Int
      BY <1>3
    <3>6. FoldRecords(AuthorityMembers(n), n + 1, new, n) = AuthorityMembers(n)
      BY <3>5, FoldNone
    <3>7. fold'.members = FoldRecords(AuthorityMembers(Base'), Base' + 1, LedgerRecords', fold'.version)
      BY <2>3, <3>4, <3>6
    <3>8. \A v \in (n + 1)..n : FALSE
      BY <1>3
    <3> QED BY <2>3, <3>1, <3>4, <3>7, <3>8 DEF FoldMatchesLedger, LedgerRecords
  <2>5. /\ \A v \in Versions : ledger[v] # Nothing => ledger'[v] = ledger[v]
        /\ \A v \in Versions : ledger'[v] = ledger[v] \/ ledger'[v].own
    BY <1>3, <1>5, <2>1, <2>2
  <2>6. c.version <= fold'.version /\ fold'.version \in 0..head /\ fold'.version >= fold.version
        /\ fold'.version # fold.version
    BY <1>2, <1>3, <2>3
  <2>7. <<c, "UNKNOWN_STALE_HISTORY">> \in audits'
    BY <1>5
  <2> QED BY <1>1, <1>5, <2>2, <2>4, <2>5, <2>6, <2>7, ReconciledInv
<1> QED BY <1>4, <1>5 DEF InstallSnapshot, Audit

-----------------------------------------------------------------------------
(* The authority, the stream and the queue. *)

\* The tables and the consumers as they are; the authority and the stream may
\* have moved on.
LEMMA EnvironmentInv ==
  ASSUME ParticipationInv, UNCHANGED tables, UNCHANGED <<faults, malformed>>,
         QueueType', QueueOK', head' >= head, \A c \in Commands : published'[c] >= published[c],
         \A q \in Workers : worker'[q] = worker[q] \/ worker'[q].at = "load",
         Trusted' => SettledIsAccounted' /\ (intent # Nothing => inflight' = inflight)
  PROVE  ParticipationInv'
<1>1. /\ QueueType /\ TablesType /\ StepsOK /\ HeldOK /\ FoldMatchesLedger /\ TrustedOK
      /\ UNCHANGED <<fold, ledger, pending, intent, audits>>
  BY DEF ParticipationInv, tables
<1>2. /\ head \in Nat /\ head' \in Nat /\ fold.version \in Nat
      /\ \A c \in Commands : published[c] \in Nat /\ published'[c] \in Nat
  BY <1>1, ConstantsAssumption DEF QueueType, TablesType, AllVersions
<1>3. TablesType'
  BY <1>1, <1>2 DEF TablesType
<1>4. Forward
  BY <1>1, <1>2 DEF Forward
<1>5. StepsOK'
  <2> SUFFICES ASSUME NEW q \in Workers PROVE StepOK(worker[q])'
    BY DEF StepsOK
  <2> PICK x : x = worker'[q]
    OBVIOUS
  <2>1. CASE x.at = "load"
    BY <2>1 DEF StepOK
  <2>2. CASE x = worker[q]
    <3>1. x \in WorkerStep /\ StepOK(x)
      BY <1>1, <2>2 DEF QueueType, StepsOK
    <3>2. StepOK(x)'
      BY <1>1, <1>3, <1>4, <3>1, StepStays
    <3> QED BY <3>2
  <2> QED BY <2>1, <2>2
<1>6. HeldOK'
  BY <1>1, <1>2 DEF HeldOK
<1>7. FoldMatchesLedger'
  BY <1>1 DEF FoldMatchesLedger, Base, Snapshots
<1>8. TrustedOK' /\ SettledIsAccounted'
  <2> SUFFICES ASSUME Trusted' PROVE TrustedOK'
    BY DEF TrustedOK, SettledIsAccounted
  <2>1. Trusted
    BY <1>1, <1>4, TrustStays
  <2>2. \A d : Accounted(d)' <=> Accounted(d)
    BY <1>1 DEF Accounted
  <2>3. \A q \in Workers : Current(worker[q])'
    BY <1>1, <2>1, <2>2 DEF TrustedOK, Current
  <2>4. intent # Nothing => /\ inflight # Nothing /\ Command(inflight) = intent.held
                            /\ intent.observed = fold.version /\ ~Accounted(intent.held)
    BY <1>1, <2>1 DEF TrustedOK
  <2>5. \A v \in Versions : ledger'[v] # Nothing => ledger'[v].own
    BY <1>1, <2>1 DEF TrustedOK
  <2>6. \A d \in Commands : <<d, "DIVERGENT_HISTORY">> \notin audits'
    BY <1>1, <2>1 DEF TrustedOK
  <2>7. \A d \in Commands : Accounted(d)' => d.version <= fold'.version
    BY <1>1, <2>1, <2>2 DEF TrustedOK
  <2>8. \A d \in Commands : pending'[d] # Nothing /\ (intent' = Nothing \/ intent'.held # d)
                                => Accounted(d)'
    BY <1>1, <2>1, <2>2 DEF TrustedOK
  <2>9. intent' # Nothing => /\ inflight' # Nothing /\ Command(inflight') = intent'.held
                             /\ intent'.observed = fold'.version /\ ~Accounted(intent.held)'
    BY <1>1, <2>2, <2>4 DEF Accounted
  <2> QED BY <2>3, <2>5, <2>6, <2>7, <2>8, <2>9 DEF TrustedOK, Command
<1> QED BY <1>3, <1>5, <1>6, <1>7, <1>8 DEF ParticipationInv

LEMMA AuthorityInv ==
  ASSUME ParticipationInv, Decide \/ Trim
  PROVE  ParticipationInv'
<1>1. /\ UNCHANGED <<published, stream, inflight, worker, faults, malformed>> /\ UNCHANGED tables
      /\ QueueType /\ QueueOK
  BY DEF Decide, Trim, queue, ParticipationInv
<1>2. /\ head \in Nat /\ MaxVersion \in Nat /\ head <= MaxVersion /\ floor \in 1..(MaxVersion + 1)
      /\ \A c \in Commands : published[c] \in Nat
  BY <1>1, ConstantsAssumption DEF QueueType, AllVersions
<1>3. head' \in AllVersions /\ head' >= head /\ floor' \in 1..(MaxVersion + 1)
  BY <1>2 DEF Decide, Trim, AllVersions
<1>4. QueueType'
  BY <1>1, <1>3 DEF QueueType
<1>5. QueueOK'
  <2>1. ASSUME NEW m \in Messages, Known(m)
        PROVE  Known(m)'
    <3>1. m[1].version \in Nat /\ head' \in Nat
      BY <1>2, <1>3, MessageFields, CommandFields DEF AllVersions
    <3> QED BY <1>1, <1>2, <1>3, <2>1, <3>1 DEF Known
  <2>2. \A m \in stream : Known(m)'
    BY <1>1, <2>1 DEF QueueOK, QueueType
  <2>3. \A q \in Workers : worker[q] # Idle => Known(worker[q].msg)'
    <3> SUFFICES ASSUME NEW q \in Workers, worker[q] # Idle PROVE Known(worker[q].msg)'
      OBVIOUS
    <3> PICK m : m = worker[q].msg
      OBVIOUS
    <3>1. m \in Messages /\ Known(m)
      BY <1>1, StepShape DEF QueueOK, QueueType
    <3>2. Known(m)'
      BY <2>1, <3>1
    <3> QED BY <1>1, <3>2
  <2> QED BY <1>1, <2>2, <2>3 DEF QueueOK
<1>6. Trusted' => SettledIsAccounted'
  BY <1>1 DEF ParticipationInv, SettledIsAccounted, Trusted, Accounted, tables
<1> QED BY <1>1, <1>2, <1>3, <1>4, <1>5, <1>6, EnvironmentInv

LEMMA PublishInv ==
  ASSUME ParticipationInv, NEW c \in Sent, Publish(c)
  PROVE  ParticipationInv'
<1> PICK k : k = published[c] + 1
  OBVIOUS
<1>1. /\ UNCHANGED <<head, floor, inflight, worker, faults, malformed>> /\ UNCHANGED tables
      /\ QueueType /\ QueueOK /\ c.version <= head /\ published[c] < MaxCopies
      /\ published' = [published EXCEPT ![c] = k] /\ stream' = stream \cup {<<c, k>>}
  BY DEF Publish, authority, ParticipationInv
<1>2. c \in Commands /\ MaxCopies \in Nat /\ \A d \in Commands : published[d] \in Nat
  BY <1>1, ConstantsAssumption DEF QueueType
<1>3. k \in 1..MaxCopies /\ k \in 0..MaxCopies /\ <<c, k>> \in Messages
  BY <1>1, <1>2 DEF Messages
<1>4. published'[c] = k /\ \A d \in Commands : d # c => published'[d] = published[d]
  BY <1>1, <1>2 DEF QueueType
<1>5. QueueType'
  BY <1>1, <1>2, <1>3 DEF QueueType
<1>6. \A d \in Commands : published'[d] >= published[d]
  BY <1>2, <1>4
<1>7. \A m \in Messages : Known(m) => Known(m)' /\ m # <<c, k>>
  <2> SUFFICES ASSUME NEW m \in Messages, Known(m) PROVE Known(m)' /\ m # <<c, k>>
    OBVIOUS
  <2>1. m[1] \in Commands /\ m[2] \in Nat
    BY MessageFields
  <2>2. Known(m)'
    BY <1>1, <1>2, <1>4, <2>1 DEF Known
  <2>3. m = <<c, k>> => m[1] = c /\ m[2] = k
    OBVIOUS
  <2>4. m # <<c, k>>
    BY <1>2, <2>1, <2>3 DEF Known
  <2> QED BY <2>2, <2>4
<1>8. QueueOK'
  <2>1. Known(<<c, k>>)'
    BY <1>1, <1>2, <1>3, <1>4 DEF Known
  <2>2. \A m \in stream' : Known(m)'
    BY <1>1, <1>7, <2>1 DEF QueueOK, QueueType
  <2>3. ASSUME NEW q \in Workers, worker[q] # Idle
        PROVE  Known(worker[q].msg)' /\ (worker[q].msg \in stream' => inflight = worker[q].msg)
    <3> PICK m : m = worker[q].msg
      OBVIOUS
    <3>1. m \in Messages /\ Known(m) /\ (m \in stream => inflight = m)
      BY <1>1, <2>3, StepShape DEF QueueOK, QueueType
    <3>2. Known(m)' /\ (m \in stream' => inflight = m)
      BY <1>1, <1>7, <3>1
    <3> QED BY <1>1, <3>2
  <2> QED BY <1>1, <2>2, <2>3 DEF QueueOK
<1>9. Trusted' => SettledIsAccounted'
  <2> SUFFICES ASSUME Trusted', NEW m \in Messages, m[2] <= published'[m[1]], m \notin stream'
               PROVE  Accounted(m[1])'
    BY DEF SettledIsAccounted
  <2>1. Trusted
    BY <1>1, <1>2, <1>4 DEF Trusted, tables
  <2>2. m[1] \in Commands /\ m[2] \in Nat /\ m = <<m[1], m[2]>> /\ m # <<c, k>> /\ m \notin stream
    BY <1>1, MessageFields
  <2>3. m[2] <= published[m[1]]
    BY <1>2, <1>4, <2>2
  <2>4. Accounted(m[1])
    BY <2>1, <2>2, <2>3 DEF ParticipationInv, SettledIsAccounted
  <2> QED BY <1>1, <2>4 DEF Accounted, tables
<1>10. head' >= head
  BY <1>1, ConstantsAssumption DEF QueueType, AllVersions
<1> QED BY <1>1, <1>5, <1>6, <1>8, <1>9, <1>10, EnvironmentInv

LEMMA FetchInv ==
  ASSUME ParticipationInv, NEW w \in Workers, NEW m \in Messages, Fetch(w, m)
  PROVE  ParticipationInv'
<1>1. /\ UNCHANGED <<head, floor, published, stream, faults, malformed>> /\ UNCHANGED tables
      /\ QueueType /\ QueueOK /\ m \in stream /\ inflight \in {Nothing, m} /\ inflight' = m
      /\ worker[w] = Idle /\ worker' = [worker EXCEPT ![w] = [at |-> "load", msg |-> m]]
  BY DEF Fetch, authority, ParticipationInv
<1>2. /\ head \in Nat /\ head' >= head /\ \A d \in Commands : published'[d] >= published[d]
  BY <1>1, ConstantsAssumption DEF QueueType, AllVersions
<1> PICK s : s = [at |-> "load", msg |-> m]
  OBVIOUS
<1>3. /\ s \in WorkerStep /\ s.at = "load" /\ s.msg = m
      /\ \A q \in Workers : worker'[q] = IF q = w THEN s ELSE worker[q]
  BY <1>1, StepMade DEF QueueType
<1>4. QueueType'
  BY <1>1, <1>3 DEF QueueType
<1>5. QueueOK'
  <2>1. \A n : Known(n)' <=> Known(n)
    BY <1>1 DEF Known
  <2>2. \A n \in stream' : Known(n)'
    BY <1>1, <2>1 DEF QueueOK
  <2>3. ASSUME NEW q \in Workers, worker'[q] # Idle
        PROVE  Known(worker[q].msg)' /\ (worker'[q].msg \in stream' => inflight' = worker'[q].msg)
    <3> PICK n : n = worker'[q].msg
      OBVIOUS
    <3>1. CASE q = w
      BY <1>1, <1>3, <2>2, <3>1
    <3>2. CASE q # w
      <4>1. worker[q] # Idle /\ worker[q].msg = n /\ n \in Messages
        BY <1>1, <1>3, <2>3, <3>2, StepShape DEF QueueType
      <4>2. Known(n) /\ (n \in stream => inflight = n)
        BY <1>1, <4>1 DEF QueueOK
      <4>3. Known(n)' /\ (n \in stream' => inflight' = n)
        BY <1>1, <2>1, <4>1, <4>2, ConstantsAssumption
      <4> QED BY <4>3
    <3> QED BY <3>1, <3>2
  <2> QED BY <2>2, <2>3 DEF QueueOK
<1>6. Trusted' => SettledIsAccounted' /\ (intent # Nothing => inflight' = inflight)
  <2> SUFFICES ASSUME Trusted' PROVE SettledIsAccounted' /\ (intent # Nothing => inflight' = inflight)
    OBVIOUS
  <2>1. Trusted
    BY <1>1 DEF Trusted, tables
  <2>2. SettledIsAccounted'
    BY <1>1, <2>1 DEF ParticipationInv, SettledIsAccounted, Accounted, tables
  <2>3. intent # Nothing => inflight # Nothing
    BY <2>1 DEF ParticipationInv, TrustedOK
  <2> QED BY <1>1, <2>2, <2>3
<1>7. \A q \in Workers : worker'[q] = worker[q] \/ worker'[q].at = "load"
  BY <1>3
<1> QED BY <1>1, <1>2, <1>4, <1>5, <1>6, <1>7, EnvironmentInv

-----------------------------------------------------------------------------
(* The theorems. *)

LEMMA ParticipationInitial == Init => ParticipationInv
<1> SUFFICES ASSUME Init PROVE ParticipationInv
  OBVIOUS
<1>1. /\ head = 0 /\ floor = 1 /\ published = [c \in Commands |-> 0] /\ stream = {} /\ inflight = Nothing
      /\ fold.version = 0 /\ fold.members = {} /\ ledger = [v \in Versions |-> Nothing]
      /\ pending = [c \in Commands |-> Nothing] /\ intent = Nothing /\ audits = {}
      /\ worker = [w \in Workers |-> Idle] /\ faults = 0 /\ malformed = FALSE
  BY DEF Init
<1>2. QueueType
  <2>1. 0 \in AllVersions /\ 1 \in 1..(MaxVersion + 1) /\ 0 \in 0..MaxCopies /\ 0 \in 0..MaxFaults
    BY ConstantsAssumption DEF AllVersions
  <2>2. head \in AllVersions /\ floor \in 1..(MaxVersion + 1) /\ faults \in 0..MaxFaults
    BY <1>1, <2>1
  <2>3. published \in [Commands -> 0..MaxCopies] /\ stream \subseteq Messages
        /\ inflight \in stream \cup {Nothing}
    BY <1>1, <2>1
  <2>4. Idle \in WorkerStep
    BY DEF WorkerStep
  <2>5. worker \in [Workers -> WorkerStep]
    BY <1>1, <2>4
  <2>6. malformed \in BOOLEAN
    BY <1>1, Zenon
  <2> QED BY <2>2, <2>3, <2>5, <2>6 DEF QueueType
<1>8. TablesType
  <2>1. fold.version \in 0..head
    BY <1>1
  <2>2. /\ ledger \in [Versions -> LedgerRow \cup {Nothing}]
        /\ pending \in [Commands -> PendingRow \cup {Nothing}]
    BY <1>1
  <2>3. intent \in Intents \cup {Nothing} /\ audits \subseteq Commands \X Reasons
    BY <1>1
  <2> QED BY <2>1, <2>2, <2>3 DEF TablesType
<1>3. QueueOK /\ StepsOK /\ HeldOK
  BY <1>1 DEF QueueOK, StepsOK, StepOK, HeldOK, Idle
<1>4. FoldMatchesLedger
  <2>1. Snapshots = {0}
    BY <1>1 DEF Snapshots
  <2>2. Base = 0
    BY <2>1 DEF Base
  <2> PICK recs : recs = LedgerRecords
    OBVIOUS
  <2> PICK own : own = [u \in Versions |-> Own(u)]
    OBVIOUS
  <2>3. 0 + 1 = 1 /\ 0 \in Int /\ \A v \in (0 + 1)..0 : FALSE
    OBVIOUS
  <2>4. FoldRecords({}, 0 + 1, own, 0) = {}
    BY <2>3, FoldNone
  <2>5. AuthorityMembers(0) = {}
    BY <2>3, <2>4 DEF AuthorityMembers
  <2>6. FoldRecords(AuthorityMembers(0), 0 + 1, recs, 0) = AuthorityMembers(0)
    BY <2>3, FoldNone
  <2> QED BY <1>1, <2>2, <2>3, <2>5, <2>6 DEF FoldMatchesLedger, LedgerRecords
<1>5. \A c \in Commands : ~Accounted(c)
  BY <1>1, CommandFields DEF Accounted
<1>6. TrustedOK
  BY <1>1, <1>5 DEF TrustedOK, Current, Idle
<1>7. SettledIsAccounted
  <2> SUFFICES ASSUME NEW m \in Messages, m[2] <= published[m[1]] PROVE FALSE
    BY DEF SettledIsAccounted
  <2>1. m[1] \in Commands /\ m[2] \in Nat /\ m[2] >= 1
    BY MessageFields
  <2> QED BY <1>1, <2>1
<1> QED BY <1>2, <1>3, <1>4, <1>6, <1>7, <1>8 DEF ParticipationInv

LEMMA ParticipationStep == ParticipationInv /\ [Next]_vars => ParticipationInv'
<1> SUFFICES ASSUME ParticipationInv, [Next]_vars PROVE ParticipationInv'
  OBVIOUS
<1>1. CASE Decide \/ Trim
  BY <1>1, AuthorityInv
<1>2. ASSUME NEW c \in Sent, Publish(c) PROVE ParticipationInv'
  BY <1>2, PublishInv
<1>3. ASSUME NEW w \in Workers, NEW m \in Messages, Fetch(w, m) PROVE ParticipationInv'
  BY <1>3, FetchInv
<1>4. ASSUME NEW w \in Workers, Handle(w) \/ Stop(w) PROVE ParticipationInv'
  BY <1>4, LoadInv, RecordPoisonInv, InstallInv, BeginInv, ReplayInv, SnapshotInv, RequestFailsInv,
     OvertakenInv, InstallReconcileInv, InstallHistoricalInv, InstallSnapshotInv, FailReconcileInv,
     StopInv DEF Handle
<1>5. CASE UNCHANGED vars
  <2>1. /\ UNCHANGED tables /\ UNCHANGED <<faults, malformed>> /\ QueueType' /\ QueueOK'
        /\ UNCHANGED <<head, published, worker, inflight, stream>>
    BY <1>5 DEF vars, tables, ParticipationInv, QueueType, QueueOK, Known
  <2>2. head' >= head /\ \A c \in Commands : published'[c] >= published[c]
    BY <2>1, ConstantsAssumption DEF ParticipationInv, QueueType, AllVersions
  <2>3. Trusted' => SettledIsAccounted'
    BY <2>1 DEF ParticipationInv, SettledIsAccounted, Trusted, Accounted, tables
  <2> QED BY <2>1, <2>2, <2>3, EnvironmentInv
<1> QED BY <1>1, <1>2, <1>3, <1>4, <1>5 DEF Next

\* The inductive invariant: every behaviour of the consumers, the queue and the
\* authority keeps it.
THEOREM ParticipationInvariance == Spec => []ParticipationInv
BY ParticipationInitial, ParticipationStep, PTL DEF Spec

\* The tables and the queue keep their shape: the fold never runs ahead of the
\* authority's head, whatever Store.Install, InstallReconcile,
\* InstallHistorical and InstallSnapshot write.
THEOREM ParticipationTypeCorrect == Spec => []TypeOK
<1>1. ParticipationInv => TypeOK
  BY DEF ParticipationInv, QueueType, TablesType, TypeOK, AllVersions, HeldOK, Intents
<1> QED BY <1>1, ParticipationInvariance, PTL

\* The membership participationpg holds is the fold of its own ledger rows over
\* the last snapshot: installRecords leaves no version out and folds none twice,
\* with a consumer that still works on a message the queue has handed out again.
THEOREM FoldIsOfLedger == Spec => []FoldMatchesLedger
<1>1. ParticipationInv => FoldMatchesLedger
  BY DEF ParticipationInv
<1> QED BY <1>1, ParticipationInvariance, PTL

\* While only the authority's own commands are published, its answers are well
\* formed and none was given up, Consumer.handle takes a message off the queue
\* only when its command has a ledger row or a dead letter.
THEOREM NothingIsDropped == Spec => []SettledIsAccounted
<1>1. ParticipationInv => SettledIsAccounted
  BY DEF ParticipationInv
<1> QED BY <1>1, ParticipationInvariance, PTL

\* Under the same condition the intent BeginReconcile leaves in the table always
\* has a message of the queue behind it, so that the reconciliation it locks the interaction for is
\* taken up again after a crash (lockIntentAndHead).
THEOREM IntentKeepsItsMessage == Spec => []IntentHasMessage
<1>1. ParticipationInv => IntentHasMessage
  <2> SUFFICES ASSUME ParticipationInv, Trusted, intent # Nothing
               PROVE  \E m \in stream : Command(m) = intent.held
    BY DEF IntentHasMessage
  <2>1. inflight # Nothing /\ Command(inflight) = intent.held
    BY DEF ParticipationInv, TrustedOK
  <2> QED BY <2>1 DEF ParticipationInv, QueueType
<1> QED BY <1>1, ParticipationInvariance, PTL

\* A row of the ledger is never rewritten and the fold never goes back: a
\* consumer that acts on an older head loses to the version installRecords reads
\* under its lock.
THEOREM ParticipationLedgerIsPermanent == Spec => LedgerIsPermanent
<1>1. ParticipationInv /\ [Next]_vars => [Grows]_<<ledger, fold>>
  <2> SUFFICES ASSUME ParticipationInv, Next PROVE UNCHANGED <<ledger, fold>> \/ Grows
    BY DEF vars
  <2>1. UNCHANGED <<ledger, fold>> \/ \E w \in Workers :
            Install(w) \/ InstallReconcile(w) \/ InstallHistorical(w) \/ InstallSnapshot(w)
    BY DEF Next, Decide, Trim, Publish, Fetch, Handle, Stop, Load, RecordPoison, Begin, Replay, Snapshot,
       RequestFails, Overtaken, FailReconcile, tables
  <2> QED BY <2>1, InstallInv, InstallReconcileInv, InstallHistoricalInv, InstallSnapshotInv
<1> QED BY <1>1, ParticipationInvariance, PTL DEF Spec, LedgerIsPermanent, Grows
=============================================================================
