---------------------------- MODULE RouterProofs ----------------------------
(***************************************************************************)
(* Proofs about Router, for every number of routers, workers, interactions *)
(* and commands, every fault and every value of the bounds.                *)
(***************************************************************************)
EXTENDS Router, InteractionFactsProofs

-----------------------------------------------------------------------------
(* The values a log and a dedup cache are made of. *)

Items == UNION {{Item(c, n) : n \in 1..Steps(c)} : c \in Commands}
OldFacts == UNION {{InitialLog[i][k] : k \in DOMAIN InitialLog[i]} : i \in Iids}
NewFacts == {Fact(item, q, p) : item \in Items, q \in Nat, p \in Nat \ {0}}
Facts == OldFacts \union NewFacts
Entry(f, ok) == [id |-> f.id, hash |-> f.hash, ok |-> ok]
Entries == {Entry(f, ok) : f \in Facts, ok \in BOOLEAN}

\* A dedup cache with entries of E, within its bound.
Cache(E) == {s \in Seq(E) : Len(s) <= MaxResults}

\* A command stands for at least one fact, an ordinary one for exactly one.
LEMMA StepsType ==
  ASSUME NEW c
  PROVE  /\ Steps(c) \in Nat \ {0}
         /\ ~IsParticipationCommand(c) => Steps(c) = 1
<1>1. CASE IsParticipationCommand(c)
  <2>1. Len(ParticipationFacts(c)) \in {1, 2}
    BY <1>1 DEF IsParticipationCommand, ParticipationCommands, ParticipationFacts
  <2> QED BY <1>1, <2>1 DEF Steps
<1>2. CASE ~IsParticipationCommand(c)
  BY <1>2 DEF Steps
<1> QED BY <1>1, <1>2

\* A sub-fact opens or closes a membership interval, and its id says which and
\* whose.
LEMMA SubFact ==
  ASSUME NEW c, IsParticipationCommand(c), NEW n \in 1..Steps(c)
  PROVE  /\ Item(c, n).type \in {Joined, Left}
         /\ Item(c, n).id[2] = Item(c, n).type /\ Item(c, n).id[3] = Item(c, n).actor
         /\ Len(Item(c, n).id) = 3
<1>1. Steps(c) = Len(ParticipationFacts(c))
  BY DEF Steps
<1>2. ParticipationFacts(c)[n].type \in {Joined, Left}
  BY <1>1 DEF IsParticipationCommand, ParticipationCommands, ParticipationFacts
<1> QED BY <1>2 DEF Item

\* What is appended for a command is an item, and gives a fact and an entry.
LEMMA ItemFacts ==
  ASSUME NEW c \in Commands, NEW n \in 1..Steps(c)
  PROVE  /\ Item(c, n) \in Items
         /\ \A q \in Nat, p \in Nat \ {0} : Fact(Item(c, n), q, p) \in NewFacts
         /\ \A ok \in BOOLEAN : [id |-> Item(c, n).id, hash |-> Item(c, n).hash, ok |-> ok] \in Entries
<1>1. Item(c, n) \in Items
  BY DEF Items
<1>2. \A q \in Nat, p \in Nat \ {0} : Fact(Item(c, n), q, p) \in NewFacts
  BY <1>1 DEF NewFacts
<1>3. \A ok \in BOOLEAN : [id |-> Item(c, n).id, hash |-> Item(c, n).hash, ok |-> ok] \in Entries
  <2>1. Fact(Item(c, n), 0, 1) \in Facts
    BY <1>2 DEF Facts
  <2>2. /\ Fact(Item(c, n), 0, 1).id = Item(c, n).id
        /\ Fact(Item(c, n), 0, 1).hash = Item(c, n).hash
    BY DEF Fact
  <2> QED BY <2>1, <2>2 DEF Entries, Entry
<1> QED BY <1>1, <1>2, <1>3

\* Facts carry a sequence number and a stream position.
LEMMA FactType ==
  ASSUME NEW f \in Facts
  PROVE  f.seq \in Nat /\ f.pos \in Nat \ {0}
<1>1. CASE f \in OldFacts
  BY <1>1, InitialLogOK DEF OldFacts
<1>2. CASE f \in NewFacts
  BY <1>2 DEF NewFacts, Fact
<1> QED BY <1>1, <1>2 DEF Facts

\* A fact with the id of a sub-fact is of the type and the agent the id names.
LEMMA SubFactType ==
  ASSUME NEW f \in Facts, NEW c \in Commands, IsParticipationCommand(c),
         NEW n \in 1..Steps(c), f.id = Item(c, n).id
  PROVE  f.type = Item(c, n).type /\ f.actor = Item(c, n).actor
<1>1. CASE f \in OldFacts
  BY <1>1, InitialLogOK DEF OldFacts
<1>2. CASE f \in NewFacts
  <2>0. PICK d \in Commands : \E m \in 1..Steps(d) :
          f.id = Item(d, m).id /\ f.type = Item(d, m).type /\ f.actor = Item(d, m).actor
    BY <1>2 DEF NewFacts, Items, Fact
  <2>1. PICK m \in 1..Steps(d) :
          f.id = Item(d, m).id /\ f.type = Item(d, m).type /\ f.actor = Item(d, m).actor
    BY <2>0
  <2>2. CASE IsParticipationCommand(d)
    <3>1. /\ Item(d, m).id[2] = Item(d, m).type /\ Item(d, m).id[3] = Item(d, m).actor
          /\ Item(c, n).id[2] = Item(c, n).type /\ Item(c, n).id[3] = Item(c, n).actor
      BY <2>2, SubFact
    <3>2. Item(d, m).id = Item(c, n).id
      BY <2>1
    <3> QED BY <2>1, <3>1, <3>2
  <2>3. CASE ~IsParticipationCommand(d)
    <3>1. Len(Item(d, m).id) = 1
      BY <2>3 DEF Item
    <3>2. Len(Item(c, n).id) = 3
      BY SubFact
    <3> QED BY <2>1, <3>1, <3>2
  <2> QED BY <2>2, <2>3
<1> QED BY <1>1, <1>2 DEF Facts

-----------------------------------------------------------------------------
(* The dedup cache. *)

\* putResult keeps a cache a cache.
LEMMA PutResultType ==
  ASSUME NEW E, NEW s \in Cache(E), NEW e \in E
  PROVE  PutResult(s, e) \in Cache(E)
<1>0. s \in Seq(E) /\ Len(s) \in Nat /\ Len(s) <= MaxResults /\ MaxResults \in Nat \ {0}
  BY ConstantsOK DEF Cache
<1>1. CASE Has(s, e.id)
  <2> DEFINE t == [k \in DOMAIN s |-> IF s[k].id = e.id THEN e ELSE s[k]]
  <2>1. t \in Seq(E) /\ Len(t) = Len(s)
    BY <1>0
  <2> QED BY <1>0, <1>1, <2>1 DEF PutResult, Cache
<1>2. CASE ~Has(s, e.id) /\ Len(s) < MaxResults
  BY <1>0, <1>2 DEF PutResult, Cache
<1>3. CASE ~Has(s, e.id) /\ ~(Len(s) < MaxResults)
  <2>1. s # <<>>
    BY <1>0, <1>3
  <2>2. Tail(s) \in Seq(E) /\ Len(Tail(s)) = Len(s) - 1
    BY <1>0, <2>1
  <2> QED BY <1>0, <1>3, <2>2 DEF PutResult, Cache
<1> QED BY <1>1, <1>2, <1>3

\* The chain of caches that copyMissingResults goes through exists.
LEMMA CopyChain ==
  ASSUME NEW E, NEW st \in Cache(E), NEW fresh \in Seq(E)
  PROVE  \A n \in 0..Len(fresh) :
           \E g \in [0..n -> Cache(E)] :
             /\ g[0] = st
             /\ \A k \in 1..n : g[k] = PutMissing(g[k-1], fresh[k])
<1> DEFINE Chain(m) == \E g \in [0..m -> Cache(E)] :
                         /\ g[0] = st
                         /\ \A k \in 1..m : g[k] = PutMissing(g[k-1], fresh[k])
           Bad == {m \in 0..Len(fresh) : ~Chain(m)}
<1>0. Len(fresh) \in Nat
  OBVIOUS
<1>1. SUFFICES ASSUME Bad # {} PROVE FALSE
  OBVIOUS
<1>2. PICK m \in Bad : \A l \in Bad : m <= l
  <2>1. Bad \subseteq Nat
    OBVIOUS
  <2> HIDE DEF Bad
  <2> QED BY <1>1, <2>1, LeastElement
<1>3. Chain(0)
  <2> DEFINE g == [k \in 0..0 |-> st]
  <2>1. /\ g \in [0..0 -> Cache(E)]
        /\ g[0] = st
        /\ \A k \in 1..0 : g[k] = PutMissing(g[k-1], fresh[k])
    OBVIOUS
  <2> HIDE DEF g
  <2> QED BY <2>1
<1>4. m \in 1..Len(fresh) /\ Chain(m-1) /\ ~Chain(m)
  <2> HIDE DEF Chain
  <2> QED BY <1>0, <1>2, <1>3
<1>5. PICK g \in [0..(m-1) -> Cache(E)] :
        /\ g[0] = st
        /\ \A k \in 1..(m-1) : g[k] = PutMissing(g[k-1], fresh[k])
  BY <1>4
<1> DEFINE h == [k \in 0..m |-> IF k = m THEN PutMissing(g[m-1], fresh[m]) ELSE g[k]]
<1>6. m \in Nat /\ m - 1 \in 0..(m-1) /\ \A k \in 0..m : k = m \/ k \in 0..(m-1)
  BY <1>0, <1>4
<1>7. PutMissing(g[m-1], fresh[m]) \in Cache(E)
  <2>1. g[m-1] \in Cache(E) /\ fresh[m] \in E
    BY <1>0, <1>4, <1>5, <1>6
  <2> QED BY <2>1, PutResultType DEF PutMissing
<1>8. h \in [0..m -> Cache(E)]
  BY <1>5, <1>6, <1>7
<1>9. h[0] = st
  BY <1>4, <1>5, <1>6
<1>10. ASSUME NEW k \in 1..m PROVE h[k] = PutMissing(h[k-1], fresh[k])
  <2>1. k \in 0..m /\ k - 1 \in 0..m /\ k - 1 # m
    BY <1>6
  <2>2. CASE k = m
    BY <2>1, <2>2
  <2>3. CASE k # m
    <3>1. k \in 1..(m-1)
      BY <1>6, <2>3
    <3> QED BY <1>5, <2>1, <2>3, <3>1
  <2> QED BY <2>2, <2>3
<1>11. Chain(m)
  <2> HIDE DEF h
  <2> QED BY <1>8, <1>9, <1>10
<1> QED BY <1>4, <1>11

\* copyMissingResults keeps a cache a cache: the bound holds, and an entry
\* is one of either side.
LEMMA CopyMissingType ==
  ASSUME NEW E, NEW st \in Cache(E), NEW fresh \in Seq(E)
  PROVE  CopyMissingResults(st, fresh) \in Cache(E)
<1> DEFINE N == Len(fresh)
           IsCopy(c) == c = [k \in 0..N |-> IF k = 0 THEN st ELSE PutMissing(c[k-1], fresh[k])]
           copy == CHOOSE c : IsCopy(c)
           Bad == {k \in 0..N : copy[k] \notin Cache(E)}
<1>0. N \in Nat /\ N \in 0..N
  OBVIOUS
<1>1. CopyMissingResults(st, fresh) = copy[N]
  BY DEF CopyMissingResults
<1> HIDE DEF N
<1>2. \E c : IsCopy(c)
  <2>0. \A n \in 0..N :
          \E g \in [0..n -> Cache(E)] :
            g[0] = st /\ \A k \in 1..n : g[k] = PutMissing(g[k-1], fresh[k])
    BY CopyChain DEF N
  <2>1. PICK g \in [0..N -> Cache(E)] :
          g[0] = st /\ \A k \in 1..N : g[k] = PutMissing(g[k-1], fresh[k])
    BY <1>0, <2>0
  <2>2. \A k \in 0..N : g[k] = IF k = 0 THEN st ELSE PutMissing(g[k-1], fresh[k])
    BY <1>0, <2>1
  <2>3. IsCopy(g)
    BY <2>1, <2>2
  <2> QED BY <2>3
<1>3. IsCopy(copy)
  <2> HIDE DEF IsCopy
  <2> QED BY <1>2
<1> HIDE DEF copy
<1>4. copy[0] = st /\ \A k \in 1..N : copy[k] = PutMissing(copy[k-1], fresh[k])
  BY <1>0, <1>3
<1>5. ASSUME Bad # {} PROVE FALSE
  <2>1. PICK m \in Bad : \A l \in Bad : m <= l
    <3>1. Bad \subseteq Nat
      BY <1>0
    <3> HIDE DEF Bad
    <3> QED BY <1>5, <3>1, LeastElement
  <2>2. m \in 1..N /\ m - 1 \in 0..N /\ copy[m-1] \in Cache(E) /\ copy[m] \notin Cache(E)
    BY <1>0, <1>4, <2>1
  <2>3. fresh[m] \in E
    BY <2>2 DEF N
  <2> QED BY <1>4, <2>2, <2>3, PutResultType DEF PutMissing
<1> QED BY <1>0, <1>1, <1>5

-----------------------------------------------------------------------------
(* The log, and state objects that mirror a prefix of it. *)

Actors == {f.actor : f \in Facts}
Bindings == {f.cause : f \in Facts} \X {f.id : f \in Facts}

State == [iid : Iids, seq : Nat, streamSeq : Nat, status : Status,
          results : Cache(Entries), part : SUBSET Actors, parents : SUBSET Bindings,
          poisoned : BOOLEAN]

\* A log L within stream sequence m: facts in stream order, each legal where it
\* stands.
LogInv(L, m) ==
  /\ m \in Nat
  /\ L \in [Iids -> Seq(Facts)]
  /\ \A i \in Iids : \A k \in DOMAIN L[i] :
       /\ L[i][k].pos <= m
       /\ \A j \in 1..(k-1) : L[i][j].pos < L[i][k].pos
       /\ LegalTransition(StatusAt(L[i], 1..(k-1)), L[i][k].type)

\* Log L2 is log L with facts added after stream sequence m.
Grown(L, m, L2, m2) ==
  /\ m <= m2
  /\ \A i \in Iids : /\ DOMAIN L[i] \subseteq DOMAIN L2[i]
                     /\ \A k \in DOMAIN L[i] : L2[i][k] = L[i][k]
                     /\ \A k \in DOMAIN L2[i] : k \in DOMAIN L[i] \/ m < L2[i][k].pos

\* The status of an object is the fold of the log up to its OCC token, and its
\* accepted results are in the log.
Faithful(st, L, m) ==
  /\ st.streamSeq <= m
  /\ st.status = StatusAt(L[st.iid], UpTo(L[st.iid], st.streamSeq))
  /\ \A k \in DOMAIN st.results : st.results[k].ok => st.results[k].id \in Ids(L[st.iid])

\* A log holds on to the status at every sequence number it has reached.
LEMMA GrownStatus ==
  ASSUME NEW L, NEW m, NEW L2, NEW m2, LogInv(L, m), LogInv(L2, m2), Grown(L, m, L2, m2),
         NEW i \in Iids, NEW p \in Nat, p <= m
  PROVE  StatusAt(L2[i], UpTo(L2[i], p)) = StatusAt(L[i], UpTo(L[i], p))
<1>1. \A k \in DOMAIN L2[i] : L2[i][k].pos \in Nat
  BY FactType DEF LogInv
<1>2. UpTo(L2[i], p) = UpTo(L[i], p)
  BY <1>1 DEF UpTo, Grown, LogInv
<1>3. \A k \in UpTo(L[i], p) : L2[i][k].type = L[i][k].type
  BY DEF UpTo, Grown
<1> QED BY <1>2, <1>3, StatusAtCongruence

\* ... and to the ids.
LEMMA GrownIds ==
  ASSUME NEW L, NEW m, NEW L2, NEW m2, Grown(L, m, L2, m2), NEW i \in Iids
  PROVE  Ids(L[i]) \subseteq Ids(L2[i])
BY DEF Grown, Ids

\* So an object stays faithful while the log grows.
LEMMA GrownFaithful ==
  ASSUME NEW L, NEW m, NEW L2, NEW m2, LogInv(L, m), LogInv(L2, m2), Grown(L, m, L2, m2),
         NEW st \in State, Faithful(st, L, m)
  PROVE  Faithful(st, L2, m2)
<1>1. st.iid \in Iids /\ st.streamSeq \in Nat /\ m \in Nat /\ m2 \in Nat
  BY DEF State, LogInv
<1>2. st.streamSeq <= m /\ st.streamSeq <= m2
  BY <1>1 DEF Faithful, Grown
<1>3. StatusAt(L2[st.iid], UpTo(L2[st.iid], st.streamSeq))
        = StatusAt(L[st.iid], UpTo(L[st.iid], st.streamSeq))
  BY <1>1, <1>2, GrownStatus
<1>4. Ids(L[st.iid]) \subseteq Ids(L2[st.iid])
  BY <1>1, GrownIds
<1> QED BY <1>2, <1>3, <1>4 DEF Faithful

\* A log is grown from itself.
LEMMA GrownSame ==
  ASSUME NEW L, NEW m, LogInv(L, m)
  PROVE  Grown(L, m, L, m)
BY DEF Grown, LogInv

\* Appending a fact that is legal now, at the next stream sequence.
LEMMA CommitLog ==
  ASSUME LogInv(log, lastSeq), NEW i \in Iids, NEW f \in Facts,
         f.pos = lastSeq + 1, LegalTransition(StatusOf(log[i]), f.type),
         Commit(i, f)
  PROVE  /\ LogInv(log', lastSeq')
         /\ Grown(log, lastSeq, log', lastSeq')
         /\ f.id \in Ids(log'[i])
         /\ LastPos(log'[i]) = lastSeq + 1
         /\ StatusOf(log'[i]) = ApplyTransition(StatusOf(log[i]), f.type)
<1> DEFINE n == Len(log[i])
<1>1. /\ lastSeq \in Nat /\ lastSeq' = lastSeq + 1
      /\ log \in [Iids -> Seq(Facts)] /\ log[i] \in Seq(Facts) /\ n \in Nat
      /\ \A j \in Iids : \A k \in DOMAIN log[j] : log[j][k].pos \in Nat
  BY FactType DEF LogInv, Commit
<1>2. /\ log'[i] = Append(log[i], f)
      /\ \A j \in Iids : j # i => log'[j] = log[j]
      /\ log' \in [Iids -> Seq(Facts)]
  BY <1>1 DEF Commit
<1>3. /\ DOMAIN log[i] = 1..n
      /\ DOMAIN log'[i] = 1..(n+1)
      /\ Len(log'[i]) = n + 1
      /\ log'[i][n+1] = f
      /\ \A k \in 1..n : log'[i][k] = log[i][k]
  BY <1>1, <1>2
<1> HIDE DEF n
<1>4. LogInv(log', lastSeq')
  <2> SUFFICES ASSUME NEW j \in Iids, NEW k \in DOMAIN log'[j]
               PROVE  /\ log'[j][k].pos <= lastSeq'
                      /\ \A l \in 1..(k-1) : log'[j][l].pos < log'[j][k].pos
                      /\ LegalTransition(StatusAt(log'[j], 1..(k-1)), log'[j][k].type)
    BY <1>1, <1>2 DEF LogInv
  <2>1. CASE j # i
    <3>1. log'[j] = log[j] /\ k \in DOMAIN log[j]
      BY <1>2, <2>1
    <3>2. log[j][k].pos <= lastSeq'
      BY <1>1, <3>1 DEF LogInv
    <3> QED BY <3>1, <3>2 DEF LogInv
  <2>2. CASE j = i /\ k \in 1..n
    <3>1. \A l \in 1..(k-1) : log'[i][l] = log[i][l]
      BY <1>1, <1>3, <2>2
    <3>2. StatusAt(log'[i], 1..(k-1)) = StatusAt(log[i], 1..(k-1))
      BY <3>1, StatusAtCongruence
    <3>3. log[i][k].pos <= lastSeq'
      BY <1>1, <1>3, <2>2 DEF LogInv
    <3> QED BY <1>3, <2>2, <3>1, <3>2, <3>3 DEF LogInv
  <2>3. CASE j = i /\ k = n + 1
    <3>1. k - 1 = n /\ \A l \in 1..n : log'[i][l] = log[i][l]
      BY <1>1, <1>3, <2>3
    <3>2. StatusAt(log'[i], 1..n) = StatusOf(log[i])
      <4>0. \A l \in 1..n : log'[i][l].type = log[i][l].type
        BY <3>1
      <4>1. StatusAt(log'[i], 1..n) = StatusAt(log[i], 1..n)
        BY <4>0, StatusAtCongruence
      <4> QED BY <1>3, <4>1 DEF StatusOf
    <3>3. \A l \in 1..n : log[i][l].pos <= lastSeq
      BY <1>3 DEF LogInv
    <3>4. ASSUME NEW l \in 1..n PROVE log'[i][l].pos < lastSeq + 1
      <4>1. log[i][l].pos \in Nat /\ log[i][l].pos <= lastSeq
        BY <1>1, <1>3, <3>3
      <4> QED BY <1>1, <3>1, <4>1
    <3> QED BY <1>1, <1>3, <2>3, <3>1, <3>2, <3>4
  <2>4. j = i => k \in 1..n \/ k = n + 1
    BY <1>1, <1>3 DEF n
  <2> QED BY <2>1, <2>2, <2>3, <2>4
<1>5. Grown(log, lastSeq, log', lastSeq')
  <2>1. ASSUME NEW j \in Iids
        PROVE  /\ DOMAIN log[j] \subseteq DOMAIN log'[j]
               /\ \A k \in DOMAIN log[j] : log'[j][k] = log[j][k]
               /\ \A k \in DOMAIN log'[j] : k \in DOMAIN log[j] \/ lastSeq < log'[j][k].pos
    <3>1. CASE j # i
      BY <1>2, <3>1
    <3>2. CASE j = i
      <4>1. lastSeq < f.pos
        BY <1>1
      <4>2. \A k \in 1..(n+1) : k \in 1..n \/ k = n + 1
        BY <1>1 DEF n
      <4>3. 1..n \subseteq 1..(n+1)
        BY <1>1 DEF n
      <4> QED BY <1>3, <3>2, <4>1, <4>2, <4>3
    <3> QED BY <3>1, <3>2
  <2> QED BY <1>1, <2>1 DEF Grown
<1>6. f.id \in Ids(log'[i])
  <2>1. n + 1 \in DOMAIN log'[i]
    BY <1>1, <1>3 DEF n
  <2> QED BY <1>3, <2>1 DEF Ids
<1>7. LastPos(log'[i]) = lastSeq + 1
  <2>1. log'[i] # <<>>
    BY <1>1, <1>3 DEF n
  <2> QED BY <1>3, <2>1 DEF LastPos
<1>8. StatusOf(log'[i]) = ApplyTransition(StatusOf(log[i]), f.type)
  BY <1>1, <1>2, StatusOfAppend
<1> QED BY <1>4, <1>5, <1>6, <1>7, <1>8

-----------------------------------------------------------------------------
(* Objects rebuilt from the log, and what the handlers make of them. *)

\* The results folded from a log are a cache, and all in the log.
LEMMA FoldResultsType ==
  ASSUME NEW s \in Seq(Facts)
  PROVE  /\ FoldResults(s) \in Cache(Entries)
         /\ \A k \in DOMAIN FoldResults(s) : FoldResults(s)[k].id \in Ids(s)
<1> DEFINE skip == IF Len(s) > MaxResults THEN Len(s) - MaxResults ELSE 0
           n == Len(s) - skip
           r == [k \in 1..n |-> [id |-> s[skip + k].id, hash |-> s[skip + k].hash, ok |-> TRUE]]
<1>1. Len(s) \in Nat /\ MaxResults \in Nat
  BY ConstantsOK
<1>2. skip \in Nat /\ n \in Nat /\ n <= MaxResults /\ \A k \in 1..n : skip + k \in DOMAIN s
  BY <1>1
<1>3. FoldResults(s) = r
  BY DEF FoldResults
<1> HIDE DEF skip, n
<1>4. ASSUME NEW k \in 1..n PROVE r[k] \in Entries
  <2>1. s[skip + k] \in Facts
    BY <1>2
  <2>2. \A ok \in BOOLEAN : Entry(s[skip + k], ok) \in Entries
    BY <2>1 DEF Entries
  <2>3. Entry(s[skip + k], TRUE) \in Entries
    BY <2>2
  <2> QED BY <2>3 DEF Entry
<1>5. r \in Seq(Entries) /\ Len(r) = n /\ DOMAIN r = 1..n
  <2>1. r \in [1..n -> Entries] /\ DOMAIN r = 1..n
    BY <1>4
  <2> HIDE DEF r
  <2> QED BY <1>2, <2>1
<1>6. \A k \in 1..n : r[k].id \in Ids(s)
  BY <1>2 DEF Ids
<1> HIDE DEF r
<1> QED BY <1>2, <1>3, <1>5, <1>6 DEF Cache

\* A rebuilt object mirrors the whole log of its interaction.
LEMMA RebuildOK ==
  ASSUME LogInv(log, lastSeq), NEW i \in Iids
  PROVE  /\ Rebuild(i) \in State
         /\ Faithful(Rebuild(i), log, lastSeq)
         /\ Rebuild(i).iid = i
<1> DEFINE st == Rebuild(i)
<1>1. log[i] \in Seq(Facts) /\ lastSeq \in Nat
  BY DEF LogInv
<1>2. \A k \in DOMAIN log[i] : log[i][k] \in Facts /\ log[i][k].pos \in Nat /\ log[i][k].seq \in Nat
  BY <1>1, FactType
<1>3. LastSeq(log[i]) \in Nat
  BY <1>1, <1>2, LastSeqType
<1>4. LastPos(log[i]) \in Nat /\ LastPos(log[i]) <= lastSeq
  <2>1. CASE log[i] = <<>>
    BY <1>1, <2>1 DEF LastPos
  <2>2. CASE log[i] # <<>>
    <3>1. Len(log[i]) \in DOMAIN log[i]
      BY <1>1, <2>2
    <3> QED BY <1>2, <2>2, <3>1 DEF LastPos, LogInv
  <2> QED BY <2>1, <2>2
<1>5. UpTo(log[i], LastPos(log[i])) = DOMAIN log[i]
  <2>1. \A j, k \in DOMAIN log[i] : j < k => log[i][j].pos < log[i][k].pos
    <3> SUFFICES ASSUME NEW j \in DOMAIN log[i], NEW k \in DOMAIN log[i], j < k
                 PROVE  log[i][j].pos < log[i][k].pos
      OBVIOUS
    <3>1. j \in 1..(k-1)
      BY <1>1
    <3> QED BY <3>1 DEF LogInv
  <2> QED BY <1>1, <1>2, <2>1, UpToLast
<1>6. FoldParticipation(log[i]) \in SUBSET Actors
  BY <1>2 DEF FoldParticipation, MembersAt, Actors
<1>7. FoldParents(log[i]) \in SUBSET Bindings
  BY <1>2 DEF FoldParents, Bindings
<1>8. StatusOf(log[i]) \in Status
  BY StatusAtType DEF StatusOf
<1>9. FoldResults(log[i]) \in Cache(Entries)
  BY <1>1, FoldResultsType
<1>10. /\ st.iid = i /\ st.streamSeq = LastPos(log[i]) /\ st.status = StatusOf(log[i])
       /\ st.results = FoldResults(log[i])
  BY DEF Rebuild
<1>11. st \in State
  BY <1>3, <1>4, <1>6, <1>7, <1>8, <1>9 DEF Rebuild, State
<1> HIDE DEF st
<1>12. Faithful(st, log, lastSeq)
  BY <1>1, <1>4, <1>5, <1>10, FoldResultsType DEF Faithful, StatusOf
<1> QED BY <1>10, <1>11, <1>12 DEF st

\* An entry put into the cache of a faithful object leaves it faithful, if an
\* accepted one is in the log.
LEMMA PutFaithful ==
  ASSUME NEW L, NEW i, NEW results \in Cache(Entries),
         \A k \in DOMAIN results : results[k].ok => results[k].id \in Ids(L[i]),
         NEW e \in Entries, e.ok => e.id \in Ids(L[i])
  PROVE  /\ PutResult(results, e) \in Cache(Entries)
         /\ \A k \in DOMAIN PutResult(results, e) :
              PutResult(results, e)[k].ok => PutResult(results, e)[k].id \in Ids(L[i])
<1> DEFINE E == {x \in Entries : x.ok => x.id \in Ids(L[i])}
           s == PutResult(results, e)
<1>1. results \in Cache(E)
  BY DEF Cache
<1>2. s \in Cache(E)
  <2> HIDE DEF s, E
  <2>1. e \in E
    BY DEF E
  <2> QED BY <1>1, <2>1, PutResultType DEF s
<1>3. s \in Seq(E) /\ Len(s) <= MaxResults
  BY <1>2 DEF Cache
<1>4. \A k \in DOMAIN s : s[k] \in E
  <2> HIDE DEF s, E
  <2> QED BY <1>3
<1>5. s \in Seq(Entries)
  <2> HIDE DEF s
  <2> QED BY <1>3
<1> HIDE DEF s
<1> QED BY <1>3, <1>4, <1>5 DEF Cache, s

\* A re-folded object mirrors the whole log too.
LEMMA RefreshOK ==
  ASSUME LogInv(log, lastSeq), NEW i \in Iids, NEW st \in State,
         Faithful(st, log, lastSeq), st.iid = i
  PROVE  /\ Refresh(st, Rebuild(i)) \in State
         /\ Faithful(Refresh(st, Rebuild(i)), log, lastSeq)
         /\ Refresh(st, Rebuild(i)).iid = i
<1> DEFINE E == {x \in Entries : x.ok => x.id \in Ids(log[i])}
           fresh == Rebuild(i)
           results == CopyMissingResults(st.results, fresh.results)
<1>1. fresh \in State /\ Faithful(fresh, log, lastSeq) /\ fresh.iid = i
  BY RebuildOK
<1> HIDE DEF fresh
<1>2. st.results \in Cache(Entries) /\ fresh.results \in Cache(Entries)
  BY <1>1 DEF State
<1>3. st.results \in Cache(E)
  BY <1>2 DEF Cache, Faithful
<1>4. fresh.results \in Seq(E)
  BY <1>1, <1>2 DEF Cache, Faithful
<1>5. results \in Cache(E)
  <2> HIDE DEF E, results
  <2> QED BY <1>3, <1>4, CopyMissingType DEF results
<1> HIDE DEF results
<1>6. results \in Seq(E) /\ Len(results) <= MaxResults
  BY <1>5 DEF Cache
<1>7. /\ results \in Cache(Entries)
      /\ \A k \in DOMAIN results : results[k].ok => results[k].id \in Ids(log[i])
  BY <1>6 DEF Cache
<1>8. Refresh(st, fresh) = [fresh EXCEPT !.results = results]
  BY DEF Refresh, results
<1>9. /\ Refresh(st, fresh) \in State
      /\ Refresh(st, fresh).iid = i
      /\ Refresh(st, fresh).streamSeq = fresh.streamSeq
      /\ Refresh(st, fresh).status = fresh.status
      /\ Refresh(st, fresh).results = results
  BY <1>1, <1>7, <1>8 DEF State
<1> QED BY <1>1, <1>7, <1>9 DEF Faithful, fresh

-----------------------------------------------------------------------------
(* The inductive invariant. *)

LogOK == LogInv(log, lastSeq)

\* Every object mirrors a prefix of its interaction's log.
ObjsOK ==
  /\ objs \in [Objs -> State]
  /\ \A o \in Objs : Faithful(objs[o], log, lastSeq)

\* The state map is keyed by the interaction of the object.
InterOK ==
  /\ inter \in [Routers -> [Iids -> Objs \union {NoObj}]]
  /\ \A r \in Routers, i \in Iids : inter[r][i] # NoObj => objs[inter[r][i]].iid = i

\* The dedup window holds ids of the log.
DedupOK == \A d \in dedup : d[1] \in Iids /\ d[2] \in Ids(log[d[1]])

\* A delayed append was legal at the sequence it expects to be the last.
DelayedOK ==
  \A d \in delayed :
    /\ d \in [iid : Iids, expected : Nat, fact : NewFacts]
    /\ d.expected <= lastSeq
    /\ LegalTransition(StatusAt(log[d.iid], UpTo(log[d.iid], d.expected)), d.fact.type)

WorkersType ==
  /\ pc \in [Workers -> Labels]
  /\ cmd \in [Workers -> Commands \union {NoCommand}]
  /\ root \in [Workers -> Objs \union {NoObj}]
  /\ ref \in [Workers -> Objs \union {NoObj}]
  /\ step \in [Workers -> Nat]
  /\ attempt \in [Workers -> 0..MaxRefold]

Durable(c, n) == Item(c, n).id \in Ids(log[c.iid])

\* What a worker knows at each label: the object it works on is its command's
\* interaction's, and the facts before the current one are durable.
WorkerOK(w) ==
  /\ pc[w] = "idle" => cmd[w] = NoCommand /\ step[w] = 1
  /\ pc[w] # "idle" => /\ cmd[w] \in Commands
                       /\ step[w] \in 1..Steps(cmd[w])
                       /\ \A n \in 1..(step[w] - 1) : Durable(cmd[w], n)
  /\ IF pc[w] \in {"ready"} \union Holding
     THEN ref[w] \in Objs /\ objs[ref[w]].iid = cmd[w].iid
     ELSE ref[w] = NoObj
  /\ IF pc[w] \notin {"idle", "prelude"} /\ IsParticipationCommand(cmd[w])
     THEN root[w] \in Objs
     ELSE root[w] = NoObj
  /\ pc[w] \in {"prelude", "check", "finish"} => IsParticipationCommand(cmd[w])
  /\ pc[w] \in {"failed", "dup"} => ~IsParticipationCommand(cmd[w])
  /\ pc[w] = "dup" => Durable(cmd[w], step[w])
  /\ pc[w] = "finish" => \A n \in 1..Steps(cmd[w]) : Durable(cmd[w], n)

ControlOK ==
  /\ WorkersType
  /\ \A w \in Workers : WorkerOK(w)
  /\ accepted \subseteq Commands
  /\ AcceptedIsDurable

IInv == LogOK /\ ObjsOK /\ InterOK /\ DedupOK /\ DelayedOK /\ ControlOK

-----------------------------------------------------------------------------
(* What a step does to the workers. *)

\* The log grows and objects in use stay those of their interaction.
Keeps ==
  /\ Grown(log, lastSeq, log', lastSeq')
  /\ \A o \in Objs : Free(o) \/ objs'[o].iid = objs[o].iid

\* What is durable stays durable.
LEMMA DurableStays ==
  ASSUME Keeps, NEW c \in Commands, NEW n, Durable(c, n)
  PROVE  Durable(c, n)'
<1>1. c.iid \in Iids
  BY ConstantsOK
<1>2. Ids(log[c.iid]) \subseteq Ids(log'[c.iid])
  BY <1>1, GrownIds DEF Keeps
<1> QED BY <1>2 DEF Durable

\* The objects a worker holds are in use.
LEMMA HeldNotFree ==
  ASSUME NEW w \in Workers, Keeps, ref[w] \in Objs
  PROVE  objs'[ref[w]].iid = objs[ref[w]].iid
BY DEF Keeps, Free

\* A worker that does not move keeps what it knows.
LEMMA WorkerStays ==
  ASSUME NEW w \in Workers, WorkerOK(w), Keeps,
         pc'[w] = pc[w], cmd'[w] = cmd[w], root'[w] = root[w], ref'[w] = ref[w],
         step'[w] = step[w]
  PROVE  WorkerOK(w)'
<1>1. pc[w] # "idle" => \A n : Durable(cmd[w], n) => Durable(cmd[w], n)'
  BY DurableStays DEF WorkerOK
<1>2. ref[w] \in Objs => objs'[ref[w]].iid = objs[ref[w]].iid
  BY HeldNotFree
<1> QED BY <1>1, <1>2 DEF WorkerOK, Durable

\* A step of one worker that answers nothing leaves the others and the answers
\* in order.
LEMMA OneWorkerMoves ==
  ASSUME IInv, Keeps, NEW w \in Workers, WorkersType', WorkerOK(w)',
         accepted' = accepted,
         \A v \in Workers \ {w} : /\ pc'[v] = pc[v] /\ cmd'[v] = cmd[v]
                                  /\ root'[v] = root[v] /\ ref'[v] = ref[v]
                                  /\ step'[v] = step[v]
  PROVE  ControlOK'
<1>1. \A v \in Workers : WorkerOK(v)'
  BY WorkerStays DEF IInv, ControlOK
<1>2. AcceptedIsDurable'
  <2> SUFFICES ASSUME NEW c \in accepted PROVE SubIds(c) \subseteq Ids(log'[c.iid])
    BY DEF AcceptedIsDurable
  <2>1. c \in Commands /\ SubIds(c) \subseteq Ids(log[c.iid]) /\ c.iid \in Iids
    BY ConstantsOK DEF IInv, ControlOK, AcceptedIsDurable
  <2> QED BY <2>1, GrownIds DEF Keeps
<1> QED BY <1>1, <1>2 DEF IInv, ControlOK

\* Going on to another label while holding st.mu.
LEMMA GotoHolding ==
  ASSUME IInv, Keeps, NEW w \in Workers, NEW label \in Holding,
         pc[w] \in {"ready"} \union Holding, Goto(w, label),
         label \in {"failed", "dup"} => ~IsParticipationCommand(cmd[w]),
         label = "dup" => Durable(cmd[w], step[w])'
  PROVE  ControlOK'
<1>1. WorkersType /\ WorkerOK(w)
  BY DEF IInv, ControlOK
<1>2. WorkersType'
  BY <1>1 DEF WorkersType, Goto, Labels, Holding
<1>3. pc'[w] = label /\ UNCHANGED <<cmd, root, ref, step, attempt, accepted>>
  BY <1>1 DEF Goto, WorkersType
<1>4. ref[w] \in Objs /\ objs'[ref[w]].iid = objs[ref[w]].iid
  BY <1>1, HeldNotFree DEF WorkerOK
<1>5. \A n \in 1..(step[w] - 1) : Durable(cmd[w], n)'
  <2>1. cmd[w] \in Commands /\ \A n \in 1..(step[w] - 1) : Durable(cmd[w], n)
    BY <1>1 DEF WorkerOK, Holding
  <2> QED BY <1>3, <2>1, DurableStays
<1>6. WorkerOK(w)'
  BY <1>1, <1>3, <1>4, <1>5 DEF WorkerOK, Holding, Durable
<1>7. \A v \in Workers \ {w} : pc'[v] = pc[v]
  BY <1>1 DEF Goto, WorkersType
<1> QED BY <1>2, <1>3, <1>6, <1>7, OneWorkerMoves

\* The reply to a command whose facts are all durable, or to a rejected one.
LEMMA ReplyOK ==
  ASSUME IInv, Keeps, NEW w \in Workers, NEW ok \in BOOLEAN, Reply(w, ok), pc[w] # "idle",
         ok => \A n \in 1..Steps(cmd[w]) : Item(cmd[w], n).id \in Ids(log'[cmd[w].iid])
  PROVE  ControlOK'
<1>1. WorkersType /\ WorkerOK(w) /\ accepted \subseteq Commands /\ AcceptedIsDurable
  BY DEF IInv, ControlOK
<1>2. cmd[w] \in Commands
  BY <1>1 DEF WorkerOK
<1>3. WorkersType'
  BY <1>1, ConstantsOK DEF WorkersType, Reply, Labels
<1>4. /\ pc'[w] = "idle" /\ cmd'[w] = NoCommand /\ root'[w] = NoObj /\ ref'[w] = NoObj
      /\ step'[w] = 1
  BY <1>1 DEF Reply, WorkersType
<1>5. \A v \in Workers \ {w} : /\ pc'[v] = pc[v] /\ cmd'[v] = cmd[v]
                               /\ root'[v] = root[v] /\ ref'[v] = ref[v]
                               /\ step'[v] = step[v]
  BY <1>1 DEF Reply, WorkersType
<1>6. WorkerOK(w)'
  BY <1>4 DEF WorkerOK, Holding
<1>7. \A v \in Workers : WorkerOK(v)'
  BY <1>5, <1>6, WorkerStays DEF IInv, ControlOK
<1>8. accepted' \subseteq accepted \union {cmd[w]} /\ (~ok => accepted' = accepted)
  BY DEF Reply
<1>9. AcceptedIsDurable'
  <2> SUFFICES ASSUME NEW c \in accepted' PROVE SubIds(c) \subseteq Ids(log'[c.iid])
    BY DEF AcceptedIsDurable
  <2>1. CASE c \in accepted
    <3>1. c \in Commands /\ SubIds(c) \subseteq Ids(log[c.iid]) /\ c.iid \in Iids
      BY <1>1, <2>1, ConstantsOK DEF AcceptedIsDurable
    <3> QED BY <3>1, GrownIds DEF Keeps
  <2>2. CASE c \notin accepted
    <3>1. c = cmd[w] /\ ok
      BY <1>8, <2>2
    <3> QED BY <3>1 DEF SubIds
  <2> QED BY <2>1, <2>2
<1> QED BY <1>1, <1>2, <1>3, <1>7, <1>8, <1>9 DEF ControlOK

\* On to the next sub-fact, the current one being durable.
LEMMA NextFactOK ==
  ASSUME IInv, Keeps, NEW w \in Workers, NextFact(w), pc[w] \notin {"idle", "prelude"},
         IsParticipationCommand(cmd[w]),
         Item(cmd[w], step[w]).id \in Ids(log'[cmd[w].iid])
  PROVE  ControlOK'
<1>1. WorkersType /\ WorkerOK(w) /\ cmd[w] \in Commands
  BY DEF IInv, ControlOK, WorkerOK
<1>2. Steps(cmd[w]) \in Nat /\ step[w] \in Nat /\ step[w] \in 1..Steps(cmd[w])
  BY <1>1, StepsType DEF WorkersType, WorkerOK
<1>3. /\ UNCHANGED <<cmd, root, accepted>>
      /\ pc'[w] = IF step[w] < Steps(cmd[w]) THEN "load" ELSE "finish"
      /\ step'[w] = IF step[w] < Steps(cmd[w]) THEN step[w] + 1 ELSE step[w]
      /\ ref'[w] = NoObj
  BY <1>1 DEF NextFact, WorkersType
<1>4. WorkersType'
  <2>1. pc' \in [Workers -> Labels]
    BY <1>1 DEF WorkersType, NextFact, Labels
  <2>2. step' \in [Workers -> Nat]
    BY <1>1, <1>2 DEF WorkersType, NextFact
  <2>3. attempt' \in [Workers -> 0..MaxRefold]
    BY <1>1, ConstantsOK DEF WorkersType, NextFact
  <2> QED BY <1>1, <1>3, <2>1, <2>2, <2>3 DEF WorkersType, NextFact
<1>5. \A n \in 1..step[w] : Item(cmd[w], n).id \in Ids(log'[cmd[w].iid])
  <2>1. ASSUME NEW n \in 1..(step[w] - 1) PROVE Item(cmd[w], n).id \in Ids(log'[cmd[w].iid])
    <3>1. Durable(cmd[w], n)
      BY <1>1 DEF WorkerOK
    <3>2. Ids(log[cmd[w].iid]) \subseteq Ids(log'[cmd[w].iid])
      BY <1>1, ConstantsOK, GrownIds DEF Keeps
    <3> QED BY <3>1, <3>2 DEF Durable
  <2>2. \A n \in 1..step[w] : n = step[w] \/ n \in 1..(step[w] - 1)
    BY <1>2
  <2> QED BY <2>1, <2>2
<1>6. WorkerOK(w)'
  <2>1. CASE step[w] < Steps(cmd[w])
    <3>1. pc'[w] = "load" /\ step'[w] = step[w] + 1 /\ step[w] + 1 \in 1..Steps(cmd[w])
      BY <1>2, <1>3, <2>1
    <3>2. \A n \in 1..(step'[w] - 1) : Item(cmd[w], n).id \in Ids(log'[cmd[w].iid])
      BY <1>2, <1>5, <3>1
    <3> QED BY <1>1, <1>3, <3>1, <3>2 DEF WorkerOK, Holding, Durable
  <2>2. CASE ~(step[w] < Steps(cmd[w]))
    <3>1. pc'[w] = "finish" /\ step'[w] = step[w] /\ step[w] = Steps(cmd[w])
      BY <1>2, <1>3, <2>2
    <3>2. \A n \in 1..(step'[w] - 1) : Item(cmd[w], n).id \in Ids(log'[cmd[w].iid])
      BY <1>2, <1>5, <3>1
    <3> QED BY <1>1, <1>2, <1>3, <1>5, <3>1, <3>2 DEF WorkerOK, Holding, Durable
  <2> QED BY <2>1, <2>2
<1>7. \A v \in Workers \ {w} : pc'[v] = pc[v] /\ ref'[v] = ref[v] /\ step'[v] = step[v]
  BY <1>1 DEF NextFact, WorkersType
<1> QED BY <1>3, <1>4, <1>6, <1>7, OneWorkerMoves

\* The end of an append whose fact, if accepted, is durable.
LEMMA SettleOK ==
  ASSUME IInv, Keeps, NEW w \in Workers, NEW ok \in BOOLEAN, Settle(w, ok), pc[w] # "idle",
         ok => pc[w] # "prelude",
         ok => Item(cmd[w], step[w]).id \in Ids(log'[cmd[w].iid])
  PROVE  ControlOK'
<1>1. CASE ok /\ IsParticipationCommand(cmd[w])
  BY <1>1, NextFactOK DEF Settle
<1>2. CASE ~(ok /\ IsParticipationCommand(cmd[w]))
  <2>1. Reply(w, ok)
    BY <1>2 DEF Settle
  <2>2. ok => \A n \in 1..Steps(cmd[w]) : n = step[w]
    BY <1>2, StepsType DEF IInv, ControlOK, WorkerOK
  <2> QED BY <2>1, <2>2, ReplyOK
<1> QED BY <1>1, <1>2

-----------------------------------------------------------------------------
(* What a step does to the broker, the objects and the state map. *)

\* A step that leaves the broker alone.
LEMMA BrokerStays ==
  ASSUME IInv, UNCHANGED brokerVars
  PROVE  /\ LogOK' /\ DedupOK' /\ DelayedOK'
         /\ Grown(log, lastSeq, log', lastSeq')
<1>1. log' = log /\ lastSeq' = lastSeq /\ dedup' = dedup /\ delayed' = delayed
  BY DEF brokerVars
<1>2. Grown(log, lastSeq, log', lastSeq')
  BY <1>1, GrownSame DEF IInv, LogOK
<1> QED BY <1>1, <1>2 DEF IInv, LogOK, DedupOK, DelayedOK

\* A commit of a fact that is legal now.
LEMMA BrokerCommits ==
  ASSUME IInv, NEW i \in Iids, NEW f \in NewFacts, f.pos = lastSeq + 1,
         LegalTransition(StatusOf(log[i]), f.type), Commit(i, f), delayed' \subseteq delayed
  PROVE  /\ LogOK' /\ DedupOK' /\ DelayedOK'
         /\ Grown(log, lastSeq, log', lastSeq')
         /\ f.id \in Ids(log'[i])
<1>0. f \in Facts /\ LogInv(log, lastSeq)
  BY DEF Facts, IInv, LogOK
<1>1. /\ LogInv(log', lastSeq')
      /\ Grown(log, lastSeq, log', lastSeq')
      /\ f.id \in Ids(log'[i])
  BY <1>0, CommitLog
<1>2. DedupOK'
  <2> SUFFICES ASSUME NEW d \in dedup' PROVE d[1] \in Iids /\ d[2] \in Ids(log'[d[1]])
    BY DEF DedupOK
  <2>1. CASE d \in dedup
    <3>1. d[1] \in Iids /\ d[2] \in Ids(log[d[1]])
      BY <2>1 DEF IInv, DedupOK
    <3> QED BY <1>1, <3>1, GrownIds
  <2>2. CASE d = <<i, f.id>>
    BY <1>1, <2>2
  <2> QED BY <2>1, <2>2 DEF Commit
<1>3. DelayedOK'
  <2> SUFFICES ASSUME NEW d \in delayed'
               PROVE  /\ d \in [iid : Iids, expected : Nat, fact : NewFacts]
                      /\ d.expected <= lastSeq'
                      /\ LegalTransition(StatusAt(log'[d.iid], UpTo(log'[d.iid], d.expected)),
                                         d.fact.type)
    BY DEF DelayedOK
  <2>1. /\ d \in [iid : Iids, expected : Nat, fact : NewFacts]
        /\ d.expected <= lastSeq
        /\ LegalTransition(StatusAt(log[d.iid], UpTo(log[d.iid], d.expected)), d.fact.type)
    BY DEF IInv, DelayedOK
  <2>2. d.iid \in Iids /\ d.expected \in Nat /\ lastSeq \in Nat /\ lastSeq' \in Nat /\ lastSeq <= lastSeq'
    BY <1>0, <1>1, <2>1 DEF LogInv, Grown
  <2>3. StatusAt(log'[d.iid], UpTo(log'[d.iid], d.expected))
          = StatusAt(log[d.iid], UpTo(log[d.iid], d.expected))
    BY <1>0, <1>1, <2>1, <2>2, GrownStatus
  <2> QED BY <2>1, <2>2, <2>3
<1> QED BY <1>1, <1>2, <1>3 DEF LogOK

\* Objects that do not change stay faithful.
LEMMA ObjsStay ==
  ASSUME IInv, LogOK', Grown(log, lastSeq, log', lastSeq'), objs' = objs
  PROVE  ObjsOK' /\ Keeps
<1>1. \A o \in Objs : Faithful(objs[o], log', lastSeq')
  BY GrownFaithful DEF IInv, LogOK, ObjsOK
<1> QED BY <1>1 DEF IInv, ObjsOK, Keeps

\* One object changes, to a faithful one of the same interaction.
LEMMA OneObjChanges ==
  ASSUME IInv, LogOK', Grown(log, lastSeq, log', lastSeq'), NEW o \in Objs, NEW st \in State,
         Faithful(st, log', lastSeq'), st.iid = objs[o].iid, objs' = [objs EXCEPT ![o] = st]
  PROVE  ObjsOK' /\ Keeps
<1>1. \A p \in Objs : Faithful(objs[p], log', lastSeq')
  BY GrownFaithful DEF IInv, LogOK, ObjsOK
<1>2. objs \in [Objs -> State]
  BY DEF IInv, ObjsOK
<1> QED BY <1>1, <1>2 DEF ObjsOK, Keeps

\* Entries of the state map are removed, at most.
LEMMA InterShrinks ==
  ASSUME IInv, Keeps, NEW w \in Workers, cmd[w].iid \in Iids, Evict(w) \/ UNCHANGED inter
  PROVE  InterOK'
<1>1. RouterOf[w] \in Routers
  BY ConstantsOK
<1>2. /\ inter \in [Routers -> [Iids -> Objs \union {NoObj}]]
      /\ \A r \in Routers, i \in Iids : inter[r][i] # NoObj => objs[inter[r][i]].iid = i
  BY DEF IInv, InterOK
<1>3. inter' \in [Routers -> [Iids -> Objs \union {NoObj}]]
  BY <1>1, <1>2 DEF Evict
<1>4. ASSUME NEW r \in Routers, NEW i \in Iids, inter'[r][i] # NoObj
      PROVE  inter'[r][i] = inter[r][i]
  BY <1>1, <1>2, <1>4 DEF Evict
<1>5. ASSUME NEW r \in Routers, NEW i \in Iids, inter[r][i] # NoObj
      PROVE  objs'[inter[r][i]].iid = objs[inter[r][i]].iid
  <2>1. inter[r][i] \in Objs /\ ~Free(inter[r][i])
    BY <1>2, <1>5 DEF Free
  <2> QED BY <2>1 DEF Keeps
<1> QED BY <1>2, <1>3, <1>4, <1>5 DEF InterOK

\* A worker about to append: its command, its object and the item.
LEMMA AtWork ==
  ASSUME IInv, NEW w \in Workers, pc[w] \in {"ready"} \union Holding
  PROVE  /\ cmd[w] \in Commands /\ cmd[w].iid \in Iids
         /\ step[w] \in 1..Steps(cmd[w])
         /\ ref[w] \in Objs
         /\ objs[ref[w]] \in State
         /\ objs[ref[w]].iid = cmd[w].iid
         /\ Faithful(objs[ref[w]], log, lastSeq)
         /\ pc[w] # "idle" /\ pc[w] # "prelude"
<1>1. WorkerOK(w) /\ pc[w] # "idle" /\ pc[w] # "prelude"
  BY DEF IInv, ControlOK, Holding
<1>2. cmd[w] \in Commands /\ cmd[w].iid \in Iids /\ step[w] \in 1..Steps(cmd[w])
  BY <1>1, ConstantsOK DEF WorkerOK
<1>3. ref[w] \in Objs /\ objs[ref[w]].iid = cmd[w].iid
  BY <1>1 DEF WorkerOK
<1> QED BY <1>1, <1>2, <1>3 DEF IInv, ObjsOK

\* Poisoning an object changes nothing it says about the log.
LEMMA PoisonOK ==
  ASSUME IInv, LogOK', Grown(log, lastSeq, log', lastSeq'), NEW w \in Workers,
         pc[w] \in {"ready"} \union Holding, Poison(w)
  PROVE  ObjsOK' /\ Keeps /\ InterOK'
<1> DEFINE st == [objs[ref[w]] EXCEPT !.poisoned = TRUE]
<1>1. /\ ref[w] \in Objs /\ objs[ref[w]] \in State /\ cmd[w].iid \in Iids
      /\ Faithful(objs[ref[w]], log, lastSeq)
  BY AtWork
<1>2. /\ st \in State /\ st.iid = objs[ref[w]].iid
      /\ st.streamSeq = objs[ref[w]].streamSeq
      /\ st.status = objs[ref[w]].status
      /\ st.results = objs[ref[w]].results
  BY <1>1 DEF State
<1>3. objs' = [objs EXCEPT ![ref[w]] = st] /\ Evict(w)
  BY DEF Poison
<1>4. Faithful(objs[ref[w]], log', lastSeq')
  BY <1>1, GrownFaithful DEF IInv, LogOK
<1> HIDE DEF st
<1>5. Faithful(st, log', lastSeq')
  BY <1>2, <1>4 DEF Faithful
<1>6. ObjsOK' /\ Keeps
  BY <1>1, <1>2, <1>3, <1>5, OneObjChanges
<1> QED BY <1>1, <1>3, <1>6, InterShrinks

-----------------------------------------------------------------------------
(* The actions, one by one. *)

\* A command taken from the queue group.
LEMMA ReceiveOK ==
  ASSUME IInv, NEW w \in Workers, NEW c \in Commands, Receive(w, c)
  PROVE  IInv'
<1>1. LogOK' /\ DedupOK' /\ DelayedOK' /\ Grown(log, lastSeq, log', lastSeq')
  BY BrokerStays DEF Receive
<1>2. ObjsOK' /\ Keeps
  BY <1>1, ObjsStay DEF Receive
<1>3. InterOK'
  BY <1>2 DEF IInv, InterOK, Receive
<1>4. WorkersType /\ WorkerOK(w)
  BY DEF IInv, ControlOK
<1>5. WorkersType'
  BY <1>4 DEF Receive, WorkersType, Labels
<1>6. /\ pc'[w] = IF IsParticipationCommand(c) THEN "prelude" ELSE "load"
      /\ cmd'[w] = c
      /\ UNCHANGED <<root, ref, step, accepted>>
      /\ \A v \in Workers \ {w} : pc'[v] = pc[v] /\ cmd'[v] = cmd[v]
  BY <1>4 DEF Receive, WorkersType
<1>7. WorkerOK(w)'
  <2>1. step[w] = 1 /\ ref[w] = NoObj /\ root[w] = NoObj
    BY <1>4 DEF Receive, WorkerOK, Holding
  <2>2. 1 \in 1..Steps(c)
    BY StepsType
  <2> QED BY <1>6, <2>1, <2>2 DEF WorkerOK, Holding
<1>8. ControlOK'
  BY <1>2, <1>5, <1>6, <1>7, OneWorkerMoves
<1> QED BY <1>1, <1>2, <1>3, <1>8 DEF IInv

\* getState hands a worker an object of its command's interaction.
LEMMA HoldOK ==
  ASSUME IInv, Keeps, NEW w \in Workers, NEW o \in Objs, pc[w] \in {"prelude", "load"},
         Hold(w, o), objs'[o].iid = cmd[w].iid
  PROVE  ControlOK'
<1>1. WorkersType /\ WorkerOK(w)
  BY DEF IInv, ControlOK
<1>2. cmd[w] \in Commands /\ UNCHANGED <<cmd, step, attempt, accepted>>
  BY <1>1 DEF WorkerOK, Hold
<1>3. WorkersType'
  BY <1>1 DEF Hold, WorkersType, Labels
<1>4. \A n \in 1..(step[w] - 1) : Durable(cmd[w], n)'
  <2>1. \A n \in 1..(step[w] - 1) : Durable(cmd[w], n)
    BY <1>1 DEF WorkerOK
  <2> QED BY <1>2, <2>1, DurableStays
<1>5. WorkerOK(w)'
  <2>1. CASE pc[w] = "prelude"
    <3>1. pc'[w] = "check" /\ root'[w] = o /\ ref' = ref
      BY <1>1, <2>1 DEF Hold, WorkersType
    <3> QED BY <1>1, <1>2, <1>4, <2>1, <3>1 DEF WorkerOK, Holding, Durable
  <2>2. CASE pc[w] = "load"
    <3>1. pc'[w] = "ready" /\ ref'[w] = o /\ root' = root
      BY <1>1, <2>2 DEF Hold, WorkersType
    <3> QED BY <1>1, <1>2, <1>4, <2>2, <3>1 DEF WorkerOK, Holding, Durable
  <2> QED BY <2>1, <2>2
<1>6. \A v \in Workers \ {w} : pc'[v] = pc[v] /\ root'[v] = root[v] /\ ref'[v] = ref[v]
  BY <1>1 DEF Hold, WorkersType
<1> QED BY <1>2, <1>3, <1>5, <1>6, OneWorkerMoves

\* getState from the map.
LEMMA GetCachedOK ==
  ASSUME IInv, NEW w \in Workers, GetCached(w)
  PROVE  IInv'
<1>1. LogOK' /\ DedupOK' /\ DelayedOK' /\ Grown(log, lastSeq, log', lastSeq')
  BY BrokerStays DEF GetCached
<1>2. ObjsOK' /\ Keeps
  BY <1>1, ObjsStay DEF GetCached
<1>3. InterOK'
  BY <1>2 DEF IInv, InterOK, GetCached
<1> DEFINE o == inter[RouterOf[w]][cmd[w].iid]
<1>4. cmd[w].iid \in Iids /\ RouterOf[w] \in Routers
  BY ConstantsOK DEF GetCached, IInv, ControlOK, WorkerOK
<1>5. o \in Objs /\ objs[o].iid = cmd[w].iid
  BY <1>4 DEF IInv, InterOK, GetCached
<1>6. ControlOK'
  BY <1>2, <1>5, HoldOK DEF GetCached
<1> QED BY <1>1, <1>2, <1>3, <1>6 DEF IInv

\* The blank object is the state of an interaction before its first fact.
LEMMA NoStateOK ==
  ASSUME LogInv(log, lastSeq)
  PROVE  NoState \in State /\ Faithful(NoState, log, lastSeq)
<1>1. PICK i \in Iids : NoState.iid = i
  BY ConstantsOK DEF NoState
<1>2. NoState.streamSeq = 0 /\ NoState.status = "" /\ NoState.results = <<>>
  BY DEF NoState
<1>3. UpTo(log[i], 0) = {}
  <2>1. \A k \in DOMAIN log[i] : log[i][k].pos \in Nat \ {0}
    BY FactType DEF LogInv
  <2> QED BY <2>1 DEF UpTo
<1>4. StatusAt(log[i], {}) = ""
  BY StatusAtEmpty
<1>5. <<>> \in Cache(Entries)
  BY ConstantsOK DEF Cache
<1>6. NoState \in State
  BY <1>1, <1>5 DEF NoState, State, Status
<1>7. 0 <= lastSeq
  BY DEF LogInv
<1>8. \A k \in DOMAIN NoState.results : FALSE
  <2>1. \A s \in Seq(Entries) : Len(s) = 0 => \A k \in DOMAIN s : FALSE
    OBVIOUS
  <2>2. <<>> \in Seq(Entries) /\ Len(<<>>) = 0
    OBVIOUS
  <2> QED BY <1>2, <2>1, <2>2
<1> QED BY <1>1, <1>2, <1>3, <1>4, <1>6, <1>7, <1>8 DEF Faithful

\* getState from the log: the object is new, nobody else has it.
LEMMA GetRebuiltOK ==
  ASSUME IInv, NEW w \in Workers, GetRebuilt(w)
  PROVE  IInv'
<1> DEFINE r == RouterOf[w]
           i == cmd[w].iid
           F == {p \in Objs : p[1] = r /\ Free(p)}
           o == CHOOSE p \in F : TRUE
<1>1. LogOK' /\ DedupOK' /\ DelayedOK' /\ Grown(log, lastSeq, log', lastSeq') /\ log' = log /\ lastSeq' = lastSeq
  BY BrokerStays DEF GetRebuilt, brokerVars
<1>2. /\ pc[w] \in {"prelude", "load"}
      /\ objs' = [p \in Objs |-> IF p = o THEN Rebuild(i) ELSE IF p \in F THEN NoState ELSE objs[p]]
      /\ \E keep \in Survivors(r, i) :
           inter' = [inter EXCEPT ![r] = [j \in Iids |->
                       IF j = i THEN o ELSE IF j \in keep THEN inter[r][j] ELSE NoObj]]
      /\ Hold(w, o)
      /\ o \in F
  BY DEF GetRebuilt
<1>3. i \in Iids /\ r \in Routers /\ o \in Objs /\ Free(o)
  BY <1>2, ConstantsOK DEF IInv, ControlOK, WorkerOK
<1>4. /\ \A p \in Objs : Free(p) \/ objs'[p] = objs[p]
      /\ objs'[o] = Rebuild(i)
      /\ \A p \in Objs : objs'[p] \in {Rebuild(i), NoState, objs[p]}
      /\ DOMAIN objs' = Objs
  BY <1>2, <1>3
<1> HIDE DEF F, o
<1>5. /\ Rebuild(i) \in State /\ Faithful(Rebuild(i), log, lastSeq) /\ Rebuild(i).iid = i
      /\ NoState \in State /\ Faithful(NoState, log, lastSeq)
  BY <1>3, RebuildOK, NoStateOK DEF IInv, LogOK
<1>6. ObjsOK'
  <2>1. \A p \in Objs : objs'[p] \in State /\ Faithful(objs'[p], log, lastSeq)
    BY <1>4, <1>5 DEF IInv, ObjsOK
  <2>2. objs' = [p \in Objs |-> objs'[p]]
    BY <1>2
  <2>3. objs' \in [Objs -> State]
    BY <2>1, <2>2
  <2> QED BY <1>1, <2>1, <2>3 DEF ObjsOK
<1>7. Keeps
  BY <1>1, <1>4 DEF Keeps
<1>8. InterOK'
  <2>1. inter \in [Routers -> [Iids -> Objs \union {NoObj}]]
    BY DEF IInv, InterOK
  <2>2. PICK keep \in Survivors(r, i) :
          inter' = [inter EXCEPT ![r] = [j \in Iids |->
                       IF j = i THEN o ELSE IF j \in keep THEN inter[r][j] ELSE NoObj]]
    BY <1>2
  <2>3. inter' \in [Routers -> [Iids -> Objs \union {NoObj}]]
    BY <1>3, <2>1, <2>2
  <2>4. ASSUME NEW q \in Routers, NEW j \in Iids, inter'[q][j] # NoObj
        PROVE  (q = r /\ j = i /\ inter'[q][j] = o) \/ inter'[q][j] = inter[q][j]
    BY <1>3, <2>1, <2>2, <2>4
  <2>5. ASSUME NEW q \in Routers, NEW j \in Iids, inter[q][j] # NoObj
        PROVE  objs'[inter[q][j]].iid = j
    <3>1. inter[q][j] \in Objs /\ ~Free(inter[q][j]) /\ objs[inter[q][j]].iid = j
      BY <2>1, <2>5 DEF Free, IInv, InterOK
    <3> QED BY <1>4, <3>1
  <2> QED BY <1>4, <1>5, <2>3, <2>4, <2>5 DEF InterOK
<1>9. ControlOK'
  BY <1>2, <1>3, <1>4, <1>5, <1>7, HoldOK
<1> QED BY <1>1, <1>6, <1>8, <1>9 DEF IInv

\* A step that only ends a command or an append.
LEMMA QuietSettle ==
  ASSUME IInv, NEW w \in Workers, NEW ok \in BOOLEAN, Settle(w, ok), pc[w] # "idle",
         UNCHANGED <<brokerVars, objs>>, Evict(w) \/ UNCHANGED inter,
         ok => pc[w] # "prelude",
         ok => Durable(cmd[w], step[w])
  PROVE  IInv'
<1>1. LogOK' /\ DedupOK' /\ DelayedOK' /\ Grown(log, lastSeq, log', lastSeq') /\ log' = log
  BY BrokerStays DEF brokerVars
<1>2. ObjsOK' /\ Keeps
  BY <1>1, ObjsStay
<1>3. cmd[w].iid \in Iids
  BY ConstantsOK DEF IInv, ControlOK, WorkerOK
<1>4. InterOK'
  BY <1>2, <1>3, InterShrinks
<1>5. ok => Item(cmd[w], step[w]).id \in Ids(log'[cmd[w].iid])
  BY <1>1 DEF Durable
<1>6. ControlOK'
  BY <1>2, <1>5, SettleOK
<1> QED BY <1>1, <1>2, <1>4, <1>6 DEF IInv

\* getState fails and the command is rejected.
LEMMA GetFailsOK ==
  ASSUME IInv, NEW w \in Workers, GetFails(w)
  PROVE  IInv'
BY QuietSettle DEF GetFails

\* The divergent-retry check of a privileged command.
LEMMA CheckParentsOK ==
  ASSUME IInv, NEW w \in Workers, CheckParents(w)
  PROVE  IInv'
<1>1. LogOK' /\ DedupOK' /\ DelayedOK' /\ Grown(log, lastSeq, log', lastSeq')
  BY BrokerStays DEF CheckParents
<1>2. ObjsOK' /\ Keeps
  BY <1>1, ObjsStay DEF CheckParents
<1>3. InterOK'
  BY <1>2 DEF IInv, InterOK, CheckParents
<1>4. WorkersType /\ WorkerOK(w) /\ pc[w] = "check"
  BY DEF IInv, ControlOK, CheckParents
<1>5. CASE Reply(w, FALSE)
  BY <1>1, <1>2, <1>3, <1>4, <1>5, ReplyOK DEF IInv
<1>6. CASE Goto(w, "load")
  <2>1. WorkersType'
    BY <1>4, <1>6 DEF Goto, WorkersType, Labels
  <2>2. /\ pc'[w] = "load" /\ UNCHANGED <<cmd, root, ref, step, accepted>>
        /\ \A v \in Workers \ {w} : pc'[v] = pc[v]
    BY <1>4, <1>6 DEF Goto, WorkersType
  <2>3. \A n \in 1..(step[w] - 1) : Durable(cmd[w], n)'
    <3>1. cmd[w] \in Commands /\ \A n \in 1..(step[w] - 1) : Durable(cmd[w], n)
      BY <1>4 DEF WorkerOK
    <3> QED BY <1>2, <2>2, <3>1, DurableStays
  <2>4. WorkerOK(w)'
    BY <1>4, <2>2, <2>3 DEF WorkerOK, Holding, Durable
  <2>5. ControlOK'
    BY <1>2, <2>1, <2>2, <2>4, OneWorkerMoves
  <2> QED BY <1>1, <1>2, <1>3, <2>5 DEF IInv
<1> QED BY <1>5, <1>6 DEF CheckParents

\* A poisoned object rejects the command.
LEMMA RejectPoisonedOK ==
  ASSUME IInv, NEW w \in Workers, RejectPoisoned(w)
  PROVE  IInv'
BY QuietSettle DEF RejectPoisoned

\* An accepted result on record is durable.
LEMMA StoredIsDurable ==
  ASSUME NEW st \in State, Faithful(st, log, lastSeq), NEW item, Has(st.results, item.id),
         StoredAnswer(st, item)
  PROVE  item.id \in Ids(log[st.iid])
<1>1. PICK k \in DOMAIN st.results : /\ st.results[k].id = item.id
                                     /\ Get(st.results, item.id) = st.results[k]
  BY DEF Has, Get
<1> QED BY <1>1 DEF StoredAnswer, Faithful

\* A result on record answers the command, or settles its sub-fact.
LEMMA AnswerStoredOK ==
  ASSUME IInv, NEW w \in Workers, AnswerStored(w)
  PROVE  IInv'
<1> DEFINE st == objs[ref[w]]
           item == Item(cmd[w], step[w])
<1>1. pc[w] \in {"ready"} \union Holding
  BY DEF AnswerStored, AtLoopHead, Holding
<1>2. st \in State /\ Faithful(st, log, lastSeq) /\ st.iid = cmd[w].iid /\ pc[w] # "prelude" /\ pc[w] # "idle"
  BY <1>1, AtWork
<1>3. /\ Has(st.results, item.id)
      /\ Settle(w, StoredAnswer(st, item))
      /\ UNCHANGED <<brokerVars, objs>>
      /\ Evict(w) \/ UNCHANGED inter
  BY DEF AnswerStored, Decided
<1>4. StoredAnswer(st, item) \in BOOLEAN
  BY DEF StoredAnswer
<1>5. StoredAnswer(st, item) => Durable(cmd[w], step[w])
  BY <1>2, <1>3, StoredIsDurable DEF Durable
<1> QED BY <1>2, <1>3, <1>4, <1>5, QuietSettle

\* The membership gate.
LEMMA RejectNonMemberOK ==
  ASSUME IInv, NEW w \in Workers, RejectNonMember(w)
  PROVE  IInv'
<1>1. pc[w] # "idle"
  BY DEF RejectNonMember, AtLoopHead
<1> QED BY <1>1, QuietSettle DEF RejectNonMember

\* An illegal transition: an ordinary command's rejection is remembered, and
\* a remembered rejection promises nothing about the log.
LEMMA RejectIllegalOK ==
  ASSUME IInv, NEW w \in Workers, RejectIllegal(w)
  PROVE  IInv'
<1> DEFINE st == objs[ref[w]]
           item == Item(cmd[w], step[w])
           e == [id |-> item.id, hash |-> item.hash, ok |-> FALSE]
           new == [st EXCEPT !.results = PutResult(st.results, e)]
<1>1. pc[w] \in {"ready"} \union Holding
  BY DEF RejectIllegal, AtLoopHead, Holding
<1>2. /\ st \in State /\ Faithful(st, log, lastSeq) /\ cmd[w] \in Commands /\ cmd[w].iid \in Iids
      /\ step[w] \in 1..Steps(cmd[w]) /\ ref[w] \in Objs /\ pc[w] # "idle"
  BY <1>1, AtWork
<1>3. CASE IsParticipationCommand(cmd[w])
  BY <1>2, <1>3, QuietSettle DEF RejectIllegal
<1>4. CASE ~IsParticipationCommand(cmd[w])
  <2>1. /\ objs' = [objs EXCEPT ![ref[w]] = new]
        /\ Settle(w, FALSE) /\ UNCHANGED <<brokerVars, inter>>
    BY <1>4 DEF RejectIllegal
  <2>2. LogOK' /\ DedupOK' /\ DelayedOK' /\ Grown(log, lastSeq, log', lastSeq') /\ log' = log /\ lastSeq' = lastSeq
    BY <2>1, BrokerStays DEF brokerVars
  <2>3. e \in Entries /\ ~e.ok
    BY <1>2, ItemFacts
  <2> HIDE DEF e
  <2>4. /\ PutResult(st.results, e) \in Cache(Entries)
        /\ \A k \in DOMAIN PutResult(st.results, e) :
             PutResult(st.results, e)[k].ok => PutResult(st.results, e)[k].id \in Ids(log[st.iid])
    <3>1. st.results \in Cache(Entries)
      BY <1>2 DEF State
    <3>2. \A k \in DOMAIN st.results : st.results[k].ok => st.results[k].id \in Ids(log[st.iid])
      BY <1>2 DEF Faithful
    <3> QED BY <2>3, <3>1, <3>2, PutFaithful
  <2>5. /\ new \in State /\ new.iid = st.iid /\ new.streamSeq = st.streamSeq
        /\ new.status = st.status /\ new.results = PutResult(st.results, e)
    BY <1>2, <2>4 DEF State
  <2> HIDE DEF new
  <2>6. Faithful(new, log, lastSeq)
    BY <1>2, <2>4, <2>5 DEF Faithful
  <2>7. ObjsOK' /\ Keeps
    BY <1>2, <2>1, <2>2, <2>5, <2>6, OneObjChanges
  <2>8. InterOK'
    BY <1>2, <2>1, <2>7, InterShrinks
  <2>9. ControlOK'
    BY <1>2, <2>1, <2>7, SettleOK
  <2> QED BY <2>2, <2>7, <2>8, <2>9 DEF IInv
<1> QED BY <1>3, <1>4

-----------------------------------------------------------------------------
(* The append. *)

\* What the broker's answer says about the log.
LEMMA OutcomeMeans ==
  ASSUME NEW i, NEW id, NEW expected
  PROVE  /\ Outcome(i, id, expected) = "commit" => LastPos(log[i]) = expected /\ <<i, id>> \notin dedup
         /\ Outcome(i, id, expected) = "dup" => <<i, id>> \in dedup
BY DEF Outcome

\* The status at a log's last stream sequence is the status of the log.
LEMMA StatusAtLast ==
  ASSUME NEW L, NEW m, LogInv(L, m), NEW i \in Iids
  PROVE  StatusAt(L[i], UpTo(L[i], LastPos(L[i]))) = StatusOf(L[i])
<1>1. L[i] \in Seq(Facts)
  BY DEF LogInv
<1>2. \A k \in DOMAIN L[i] : L[i][k].pos \in Nat
  BY <1>1, FactType
<1>3. \A j, k \in DOMAIN L[i] : j < k => L[i][j].pos < L[i][k].pos
  <2> SUFFICES ASSUME NEW j \in DOMAIN L[i], NEW k \in DOMAIN L[i], j < k
               PROVE  L[i][j].pos < L[i][k].pos
    OBVIOUS
  <2>1. j \in 1..(k-1)
    BY <1>1
  <2> QED BY <2>1 DEF LogInv
<1>4. UpTo(L[i], LastPos(L[i])) = DOMAIN L[i]
  BY <1>1, <1>2, <1>3, UpToLast
<1> QED BY <1>4 DEF StatusOf

\* At a participation fact the interaction is open.
LEMMA OpenAtSubFact ==
  ASSUME LogInv(log, lastSeq), NEW i \in Iids, NEW k \in DOMAIN log[i],
         log[i][k].type \in {Joined, Left}
  PROVE  StatusAt(log[i], UpTo(log[i], log[i][k].pos)) = "started"
<1> DEFINE s == log[i]
<1>1. s \in Seq(Facts) /\ k \in Nat \ {0} /\ DOMAIN s = 1..Len(s) /\ Len(s) \in Nat
  BY DEF LogInv
<1>2. \A j \in DOMAIN s : s[j].pos \in Nat
  BY <1>1, FactType
<1>3. StatusAt(s, 1..(k-1)) = "started"
  BY DEF LogInv, LegalTransition, Joined, Left, Started
<1>4. \A j \in DOMAIN s : j > k => s[k].pos < s[j].pos
  <2> SUFFICES ASSUME NEW j \in DOMAIN s, j > k PROVE s[k].pos < s[j].pos
    OBVIOUS
  <2>1. k \in 1..(j-1)
    BY <1>1
  <2> QED BY <2>1 DEF LogInv
<1>5. \A j \in 1..(k-1) : s[j].pos < s[k].pos
  BY DEF LogInv
<1>6. UpTo(s, s[k].pos) = 1..k
  <2>1. ASSUME NEW j \in DOMAIN s PROVE s[j].pos <= s[k].pos <=> j \in 1..k
    <3>1. CASE j < k
      <4>1. j \in 1..(k-1) /\ j \in 1..k
        BY <1>1, <3>1
      <4> QED BY <1>2, <1>5, <4>1
    <3>2. CASE j = k
      BY <1>1, <1>2, <3>2
    <3>3. CASE j > k
      BY <1>1, <1>2, <1>4, <3>3
    <3> QED BY <1>1, <3>1, <3>2, <3>3
  <2>2. 1..k \subseteq DOMAIN s
    BY <1>1
  <2> QED BY <2>1, <2>2 DEF UpTo
<1>7. StatusAt(s, 1..k) = StatusAt(s, 1..(k-1))
  <2>1. s[k].type # Started /\ s[k].type # Ended
    BY DEF Joined, Left, Started, Ended
  <2>2. \A j \in 1..k : j = k \/ j \in 1..(k-1)
    BY <1>1
  <2>3. 1..(k-1) \subseteq 1..k
    BY <1>1
  <2> HIDE DEF s
  <2> QED BY <2>1, <2>2, <2>3, StatusAtIgnoresOthers
<1> QED BY <1>3, <1>6, <1>7

\* An object that records an appended item mirrors the log up to that item.
LEMMA CommittedOK ==
  ASSUME NEW L, NEW m, NEW st \in State, NEW c \in Commands, NEW n \in 1..Steps(c), NEW pos \in Nat,
         pos <= m, Item(c, n).id \in Ids(L[st.iid]),
         \A k \in DOMAIN st.results : st.results[k].ok => st.results[k].id \in Ids(L[st.iid]),
         StatusAt(L[st.iid], UpTo(L[st.iid], pos)) = ApplyTransition(st.status, Item(c, n).type)
  PROVE  /\ Committed(st, Item(c, n), pos) \in State
         /\ Faithful(Committed(st, Item(c, n), pos), L, m)
         /\ Committed(st, Item(c, n), pos).iid = st.iid
<1> DEFINE item == Item(c, n)
           e == [id |-> item.id, hash |-> item.hash, ok |-> TRUE]
           new == Committed(st, item, pos)
<1>1. e \in Entries /\ e.id = item.id
  BY ItemFacts
<1> HIDE DEF e
<1>2. /\ PutResult(st.results, e) \in Cache(Entries)
      /\ \A k \in DOMAIN PutResult(st.results, e) :
           PutResult(st.results, e)[k].ok => PutResult(st.results, e)[k].id \in Ids(L[st.iid])
  <2>1. st.results \in Cache(Entries)
    BY DEF State
  <2> QED BY <1>1, <2>1, PutFaithful
<1>3. ApplyTransition(st.status, item.type) \in Status
  BY DEF ApplyTransition, State, Status
<1>4. ApplyFact(st.part, item) \in SUBSET Actors
  <2>1. Fact(item, 0, 1) \in Facts /\ Fact(item, 0, 1).actor = item.actor
    BY ItemFacts DEF Facts, Fact
  <2>2. item.actor \in Actors
    BY <2>1 DEF Actors
  <2>3. st.part \in SUBSET Actors
    BY DEF State
  <2> QED BY <2>2, <2>3 DEF ApplyFact
<1>5. st.seq + 1 \in Nat
  BY DEF State
<1>6. new = [st EXCEPT !.seq = st.seq + 1, !.streamSeq = pos,
                       !.status = ApplyTransition(st.status, item.type),
                       !.part = ApplyFact(st.part, item),
                       !.results = PutResult(st.results, e)]
  BY DEF Committed, e
<1>7. /\ new \in State
      /\ new.iid = st.iid /\ new.streamSeq = pos
      /\ new.status = ApplyTransition(st.status, item.type)
      /\ new.results = PutResult(st.results, e)
  <2> HIDE DEF new, item
  <2> QED BY <1>2, <1>3, <1>4, <1>5, <1>6 DEF State
<1> HIDE DEF new
<1>8. Faithful(new, L, m)
  BY <1>2, <1>7 DEF Faithful
<1> QED BY <1>7, <1>8 DEF new

\* A worker whose checks have passed, with what the broker makes of its append.
LEMMA ReadyMeans ==
  ASSUME IInv, NEW w \in Workers, Ready(w)
  PROVE  /\ pc[w] \in {"ready"} \union Holding
         /\ LegalTransition(objs[ref[w]].status, Item(cmd[w], step[w]).type)
         /\ BrokerSays(w) = "commit" =>
              /\ LastPos(log[cmd[w].iid]) = objs[ref[w]].streamSeq
              /\ objs[ref[w]].status = StatusOf(log[cmd[w].iid])
              /\ LegalTransition(StatusOf(log[cmd[w].iid]), Item(cmd[w], step[w]).type)
<1>1. /\ pc[w] \in {"ready"} \union Holding
      /\ LegalTransition(objs[ref[w]].status, Item(cmd[w], step[w]).type)
  BY DEF Ready, AtLoopHead, Holding
<1>2. ASSUME BrokerSays(w) = "commit"
      PROVE  /\ LastPos(log[cmd[w].iid]) = objs[ref[w]].streamSeq
             /\ objs[ref[w]].status = StatusOf(log[cmd[w].iid])
  <2>1. LastPos(log[cmd[w].iid]) = objs[ref[w]].streamSeq
    BY <1>2, OutcomeMeans DEF BrokerSays
  <2>2. /\ Faithful(objs[ref[w]], log, lastSeq) /\ objs[ref[w]].iid = cmd[w].iid
        /\ cmd[w].iid \in Iids
    BY <1>1, AtWork
  <2> QED BY <2>1, <2>2, StatusAtLast DEF Faithful, IInv, LogOK
<1> QED BY <1>1, <1>2

\* The fact a worker appends.
LEMMA AppendedFact ==
  ASSUME IInv, NEW w \in Workers, pc[w] \in {"ready"} \union Holding,
         NEW f, f = Fact(Item(cmd[w], step[w]), objs[ref[w]].seq + 1, lastSeq + 1)
  PROVE  /\ f \in NewFacts /\ f.pos = lastSeq + 1
         /\ f.type = Item(cmd[w], step[w]).type
         /\ f.id = Item(cmd[w], step[w]).id
<1>1. /\ cmd[w] \in Commands /\ step[w] \in 1..Steps(cmd[w]) /\ objs[ref[w]].seq + 1 \in Nat
      /\ lastSeq + 1 \in Nat \ {0}
  BY AtWork DEF State, IInv, LogOK, LogInv
<1>2. f \in NewFacts
  BY <1>1, ItemFacts
<1> QED BY <1>2 DEF Fact

\* A clean commit: the object goes on to mirror the log it was committed to.
LEMMA AppendCommitsOK ==
  ASSUME IInv, NEW w \in Workers, AppendCommits(w)
  PROVE  IInv'
<1> DEFINE i == cmd[w].iid
           st == objs[ref[w]]
           item == Item(cmd[w], step[w])
           f == Fact(item, st.seq + 1, lastSeq + 1)
           new == Committed(st, item, lastSeq + 1)
<1>1. Ready(w) /\ BrokerSays(w) = "commit" /\ Commit(i, f) /\ Record(w, lastSeq + 1)
        /\ Settle(w, TRUE) /\ delayed' = delayed
  BY DEF AppendCommits
<1>2. /\ pc[w] \in {"ready"} \union Holding
      /\ st.status = StatusOf(log[i]) /\ LegalTransition(StatusOf(log[i]), item.type)
  BY <1>1, ReadyMeans
<1>3. /\ cmd[w] \in Commands /\ i \in Iids /\ step[w] \in 1..Steps(cmd[w]) /\ ref[w] \in Objs
      /\ st \in State /\ st.iid = i /\ Faithful(st, log, lastSeq)
      /\ pc[w] # "idle" /\ pc[w] # "prelude"
  BY <1>2, AtWork
<1>4. f \in NewFacts /\ f.pos = lastSeq + 1 /\ f.type = item.type /\ f.id = item.id
  BY <1>2, AppendedFact
<1> HIDE DEF f
<1>5. /\ LogOK' /\ DedupOK' /\ DelayedOK' /\ Grown(log, lastSeq, log', lastSeq')
      /\ item.id \in Ids(log'[i])
  BY <1>1, <1>2, <1>3, <1>4, BrokerCommits
<1>6. /\ LastPos(log'[i]) = lastSeq + 1
      /\ StatusOf(log'[i]) = ApplyTransition(StatusOf(log[i]), item.type)
      /\ lastSeq' = lastSeq + 1 /\ lastSeq \in Nat
  <2>1. f \in Facts /\ LogInv(log, lastSeq) /\ LegalTransition(StatusOf(log[i]), f.type)
    BY <1>2, <1>4 DEF Facts, IInv, LogOK
  <2>2. lastSeq' = lastSeq + 1 /\ lastSeq \in Nat
    BY <1>1, <2>1 DEF Commit, LogInv
  <2>3. /\ LastPos(log'[i]) = lastSeq + 1
        /\ StatusOf(log'[i]) = ApplyTransition(StatusOf(log[i]), f.type)
    BY <1>1, <1>3, <1>4, <2>1, CommitLog
  <2> QED BY <1>4, <2>2, <2>3
<1>7. StatusAt(log'[i], UpTo(log'[i], lastSeq + 1)) = ApplyTransition(st.status, item.type)
  BY <1>2, <1>3, <1>5, <1>6, StatusAtLast DEF LogOK
<1>8. \A k \in DOMAIN st.results : st.results[k].ok => st.results[k].id \in Ids(log'[st.iid])
  BY <1>3, <1>5, GrownIds DEF Faithful
<1>9. new \in State /\ Faithful(new, log', lastSeq') /\ new.iid = st.iid
  <2>1. lastSeq + 1 \in Nat /\ lastSeq + 1 <= lastSeq'
    BY <1>6
  <2>2. /\ item.id \in Ids(log'[st.iid])
        /\ StatusAt(log'[st.iid], UpTo(log'[st.iid], lastSeq + 1)) = ApplyTransition(st.status, item.type)
    BY <1>3, <1>5, <1>7
  <2>3. cmd[w] \in Commands /\ step[w] \in 1..Steps(cmd[w]) /\ st \in State
    BY <1>3
  <2> QED BY <1>8, <2>1, <2>2, <2>3, CommittedOK
<1>10. objs' = [objs EXCEPT ![ref[w]] = new] /\ (Evict(w) \/ UNCHANGED inter)
  BY <1>1 DEF Record
<1> HIDE DEF new
<1>11. ObjsOK' /\ Keeps
  BY <1>3, <1>5, <1>9, <1>10, OneObjChanges
<1>12. InterOK'
  BY <1>3, <1>10, <1>11, InterShrinks
<1>13. ControlOK'
  BY <1>1, <1>3, <1>5, <1>11, SettleOK
<1> QED BY <1>5, <1>11, <1>12, <1>13 DEF IInv

\* A lost OCC race: the object and the log stay as they are.
LEMMA AppendConflictsOK ==
  ASSUME IInv, NEW w \in Workers, AppendConflicts(w)
  PROVE  IInv'
<1>1. LogOK' /\ DedupOK' /\ DelayedOK' /\ Grown(log, lastSeq, log', lastSeq')
  BY BrokerStays DEF AppendConflicts
<1>2. ObjsOK' /\ Keeps
  BY <1>1, ObjsStay DEF AppendConflicts
<1>3. InterOK'
  BY <1>2 DEF IInv, InterOK, AppendConflicts
<1>4. pc[w] \in {"ready"} \union Holding /\ Goto(w, "conflict") /\ "conflict" \in Holding
  BY ReadyMeans DEF AppendConflicts, Holding
<1>5. ControlOK'
  BY <1>2, <1>4, GotoHolding
<1> QED BY <1>1, <1>2, <1>3, <1>5 DEF IInv

\* The original of a duplicate is in the log, at the sequence its ack carries.
LEMMA OriginalOK ==
  ASSUME IInv, NEW i \in Iids, NEW id, <<i, id>> \in dedup
  PROVE  /\ id \in Ids(log[i])
         /\ \E k \in DOMAIN log[i] : log[i][k].id = id /\ OriginalPos(i, id) = log[i][k].pos
<1>1. id \in Ids(log[i])
  BY DEF IInv, DedupOK
<1>2. \E k \in DOMAIN log[i] : log[i][k].id = id
  BY <1>1 DEF Ids
<1> QED BY <1>1, <1>2 DEF OriginalPos

\* A duplicate sub-fact is recorded at the original's sequence, where the
\* interaction was open, as the status the object had says it still is.
LEMMA RecordDuplicateOK ==
  ASSUME IInv, NEW w \in Workers, Ready(w), BrokerSays(w) = "dup", IsParticipationCommand(cmd[w]),
         NEW pos, pos = OriginalPos(cmd[w].iid, Item(cmd[w], step[w]).id)
  PROVE  /\ Committed(objs[ref[w]], Item(cmd[w], step[w]), pos) \in State
         /\ Faithful(Committed(objs[ref[w]], Item(cmd[w], step[w]), pos), log, lastSeq)
         /\ Committed(objs[ref[w]], Item(cmd[w], step[w]), pos).iid = objs[ref[w]].iid
<1> DEFINE i == cmd[w].iid
           st == objs[ref[w]]
           item == Item(cmd[w], step[w])
<1>1. pc[w] \in {"ready"} \union Holding /\ LegalTransition(st.status, item.type)
  BY ReadyMeans
<1>2. /\ cmd[w] \in Commands /\ i \in Iids /\ step[w] \in 1..Steps(cmd[w])
      /\ st \in State /\ st.iid = i /\ Faithful(st, log, lastSeq)
  BY <1>1, AtWork
<1>3. <<i, item.id>> \in dedup
  BY OutcomeMeans DEF BrokerSays
<1>4. item.id \in Ids(log[i]) /\ \E k \in DOMAIN log[i] : log[i][k].id = item.id /\ pos = log[i][k].pos
  BY <1>2, <1>3, OriginalOK
<1>5. PICK k \in DOMAIN log[i] : log[i][k].id = item.id /\ pos = log[i][k].pos
  BY <1>4
<1>6. LogInv(log, lastSeq) /\ log[i][k] \in Facts
  BY <1>2 DEF IInv, LogOK, LogInv
<1>7. pos \in Nat /\ pos <= lastSeq
  BY <1>2, <1>5, <1>6, FactType DEF LogInv
<1>8. item.type \in {Joined, Left} /\ log[i][k].type = item.type
  BY <1>2, <1>5, <1>6, SubFact, SubFactType
<1>9. StatusAt(log[i], UpTo(log[i], pos)) = "started"
  BY <1>2, <1>5, <1>6, <1>8, OpenAtSubFact
<1>10. ApplyTransition(st.status, item.type) = "started"
  BY <1>1, <1>8 DEF LegalTransition, ApplyTransition, Joined, Left, Started, Ended
<1>11. \A l \in DOMAIN st.results : st.results[l].ok => st.results[l].id \in Ids(log[st.iid])
  BY <1>2 DEF Faithful
<1>12. /\ item.id \in Ids(log[st.iid])
       /\ StatusAt(log[st.iid], UpTo(log[st.iid], pos)) = ApplyTransition(st.status, item.type)
  BY <1>2, <1>4, <1>9, <1>10
<1>13. cmd[w] \in Commands /\ step[w] \in 1..Steps(cmd[w]) /\ st \in State
  BY <1>2
<1> HIDE DEF item, st
<1>14. /\ Committed(st, Item(cmd[w], step[w]), pos) \in State
       /\ Faithful(Committed(st, Item(cmd[w], step[w]), pos), log, lastSeq)
       /\ Committed(st, Item(cmd[w], step[w]), pos).iid = st.iid
  <2>1. Item(cmd[w], step[w]).id \in Ids(log[st.iid])
    BY <1>12 DEF item
  <2>2. StatusAt(log[st.iid], UpTo(log[st.iid], pos)) = ApplyTransition(st.status, Item(cmd[w], step[w]).type)
    BY <1>12 DEF item
  <2> QED BY <1>7, <1>11, <1>13, <2>1, <2>2, CommittedOK, ZenonT(60)
<1> QED BY <1>14 DEF st

\* A duplicate, of either kind of command.
LEMMA AppendDuplicatesOK ==
  ASSUME IInv, NEW w \in Workers, AppendDuplicates(w)
  PROVE  IInv'
<1> DEFINE i == cmd[w].iid
           st == objs[ref[w]]
           item == Item(cmd[w], step[w])
           pos == OriginalPos(i, item.id)
           new == Committed(st, item, pos)
<1>1. /\ LogOK' /\ DedupOK' /\ DelayedOK' /\ Grown(log, lastSeq, log', lastSeq')
      /\ log' = log /\ lastSeq' = lastSeq
  BY BrokerStays DEF AppendDuplicates, brokerVars
<1>2. Ready(w) /\ BrokerSays(w) = "dup"
  BY DEF AppendDuplicates
<1>3. pc[w] \in {"ready"} \union Holding
  BY <1>2, ReadyMeans
<1>4. /\ cmd[w] \in Commands /\ i \in Iids /\ step[w] \in 1..Steps(cmd[w]) /\ ref[w] \in Objs
      /\ st \in State /\ pc[w] # "idle" /\ pc[w] # "prelude"
  BY <1>3, AtWork
<1>5. item.id \in Ids(log'[i])
  <2>1. <<i, item.id>> \in dedup
    BY <1>2, OutcomeMeans DEF BrokerSays
  <2> QED BY <1>1, <1>4, <2>1, OriginalOK
<1>6. CASE IsParticipationCommand(cmd[w])
  <2>1. Record(w, pos) /\ Settle(w, TRUE)
    BY <1>6 DEF AppendDuplicates
  <2>2. new \in State /\ Faithful(new, log', lastSeq') /\ new.iid = st.iid
    BY <1>1, <1>2, <1>6, RecordDuplicateOK
  <2>3. objs' = [objs EXCEPT ![ref[w]] = new] /\ (Evict(w) \/ UNCHANGED inter)
    BY <2>1 DEF Record
  <2> HIDE DEF new
  <2>4. ObjsOK' /\ Keeps
    BY <1>1, <1>4, <2>2, <2>3, OneObjChanges
  <2>5. InterOK'
    BY <1>4, <2>3, <2>4, InterShrinks
  <2>6. ControlOK'
    BY <1>4, <1>5, <2>1, <2>4, SettleOK
  <2> QED BY <1>1, <2>4, <2>5, <2>6 DEF IInv
<1>7. CASE ~IsParticipationCommand(cmd[w])
  <2>1. Goto(w, "dup") /\ UNCHANGED <<inter, objs>> /\ "dup" \in Holding
    BY <1>7 DEF AppendDuplicates, Holding
  <2>2. ObjsOK' /\ Keeps
    BY <1>1, <2>1, ObjsStay
  <2>3. InterOK'
    BY <2>1 DEF IInv, InterOK
  <2>4. Durable(cmd[w], step[w])'
    BY <1>5, <2>1 DEF Durable, Goto
  <2>5. ControlOK'
    BY <1>3, <1>7, <2>1, <2>2, <2>4, GotoHolding
  <2> QED BY <1>1, <2>2, <2>3, <2>5 DEF IInv
<1> QED BY <1>6, <1>7

\* An append that fails leaves the broker with the fact, without it, or with a
\* request under way that is legal at the sequence it expects.
LEMMA AppendErrsBroker ==
  ASSUME IInv, NEW w \in Workers, AppendErrs(w)
  PROVE  LogOK' /\ DedupOK' /\ DelayedOK' /\ Grown(log, lastSeq, log', lastSeq')
<1> DEFINE i == cmd[w].iid
           st == objs[ref[w]]
           item == Item(cmd[w], step[w])
           f == Fact(item, st.seq + 1, lastSeq + 1)
           d0 == [iid |-> i, expected |-> st.streamSeq, fact |-> f]
<1>1. Ready(w)
  BY DEF AppendErrs
<1>2. pc[w] \in {"ready"} \union Holding /\ LegalTransition(st.status, item.type)
  BY <1>1, ReadyMeans
<1>3. i \in Iids /\ st \in State /\ st.iid = i /\ Faithful(st, log, lastSeq)
  BY <1>2, AtWork
<1>4. f \in NewFacts /\ f.pos = lastSeq + 1 /\ f.type = item.type
  BY <1>2, AppendedFact
<1>5. \/ UNCHANGED brokerVars
      \/ BrokerSays(w) = "commit" /\ Commit(i, f) /\ UNCHANGED delayed
      \/ delayed' = delayed \union {d0} /\ UNCHANGED <<log, lastSeq, dedup>>
  BY DEF AppendErrs
<1> HIDE DEF f
<1>6. CASE UNCHANGED brokerVars
  BY <1>6, BrokerStays
<1>7. CASE BrokerSays(w) = "commit" /\ Commit(i, f) /\ UNCHANGED delayed
  <2>1. LegalTransition(StatusOf(log[i]), f.type)
    BY <1>1, <1>4, <1>7, ReadyMeans
  <2> QED BY <1>3, <1>4, <1>7, <2>1, BrokerCommits
<1>8. CASE delayed' = delayed \union {d0} /\ UNCHANGED <<log, lastSeq, dedup>>
  <2>1. LogOK' /\ DedupOK'
    BY <1>8 DEF IInv, LogOK, DedupOK
  <2>2. Grown(log, lastSeq, log', lastSeq')
    BY <1>8, GrownSame DEF IInv, LogOK
  <2>3. d0 \in [iid : Iids, expected : Nat, fact : NewFacts]
    BY <1>3, <1>4 DEF State
  <2>4. /\ d0.expected <= lastSeq
        /\ LegalTransition(StatusAt(log[d0.iid], UpTo(log[d0.iid], d0.expected)), d0.fact.type)
    BY <1>2, <1>3, <1>4 DEF Faithful
  <2>5. DelayedOK'
    <3> HIDE DEF d0
    <3> QED BY <1>8, <2>3, <2>4 DEF IInv, DelayedOK
  <2> QED BY <2>1, <2>2, <2>5
<1> QED BY <1>5, <1>6, <1>7, <1>8

\* An append that fails: a sub-fact poisons its object and is rejected, an
\* ordinary command goes on to look into the log.
LEMMA AppendErrsOK ==
  ASSUME IInv, NEW w \in Workers, AppendErrs(w)
  PROVE  IInv'
<1>1. LogOK' /\ DedupOK' /\ DelayedOK' /\ Grown(log, lastSeq, log', lastSeq')
  BY AppendErrsBroker
<1>2. pc[w] \in {"ready"} \union Holding
  BY ReadyMeans DEF AppendErrs
<1>3. pc[w] # "idle"
  BY <1>2, AtWork
<1>4. CASE IsParticipationCommand(cmd[w])
  <2>1. Poison(w) /\ Settle(w, FALSE)
    BY <1>4 DEF AppendErrs
  <2>2. ObjsOK' /\ Keeps /\ InterOK'
    BY <1>1, <1>2, <2>1, PoisonOK
  <2>3. ControlOK'
    BY <1>3, <2>1, <2>2, SettleOK
  <2> QED BY <1>1, <2>2, <2>3 DEF IInv
<1>5. CASE ~IsParticipationCommand(cmd[w])
  <2>1. Goto(w, "failed") /\ UNCHANGED <<inter, objs>> /\ "failed" \in Holding
    BY <1>5 DEF AppendErrs, Holding
  <2>2. ObjsOK' /\ Keeps
    BY <1>1, <2>1, ObjsStay
  <2>3. InterOK'
    BY <2>1 DEF IInv, InterOK
  <2>4. ControlOK'
    BY <1>2, <1>5, <2>1, <2>2, GotoHolding
  <2> QED BY <1>1, <2>2, <2>3, <2>4 DEF IInv
<1> QED BY <1>4, <1>5

\* A step of the broker alone.
LEMMA NoWorkerMoves ==
  ASSUME IInv, LogOK', Grown(log, lastSeq, log', lastSeq'), UNCHANGED <<inter, objs, workerVars>>
  PROVE  ObjsOK' /\ InterOK' /\ ControlOK'
<1>1. ObjsOK' /\ Keeps
  BY ObjsStay
<1>2. InterOK'
  BY DEF IInv, InterOK
<1>3. UNCHANGED <<pc, cmd, root, ref, step, attempt, accepted>>
  BY DEF workerVars
<1>4. WorkersType'
  BY <1>3 DEF IInv, ControlOK, WorkersType
<1>5. \A v \in Workers : WorkerOK(v)'
  BY <1>1, <1>3, WorkerStays DEF IInv, ControlOK
<1>6. AcceptedIsDurable'
  <2> SUFFICES ASSUME NEW c \in accepted PROVE SubIds(c) \subseteq Ids(log'[c.iid])
    BY <1>3 DEF AcceptedIsDurable
  <2>1. c \in Commands /\ SubIds(c) \subseteq Ids(log[c.iid]) /\ c.iid \in Iids
    BY ConstantsOK DEF IInv, ControlOK, AcceptedIsDurable
  <2> QED BY <2>1, GrownIds
<1>7. ControlOK'
  BY <1>3, <1>4, <1>5, <1>6 DEF IInv, ControlOK
<1> QED BY <1>1, <1>2, <1>7

\* A late append is committed only where its router decided it: at the sequence
\* the object had, where it was legal.
LEMMA LateAppendOK ==
  ASSUME IInv, NEW d \in delayed, LateAppend(d)
  PROVE  IInv'
<1> DEFINE f == [d.fact EXCEPT !.pos = lastSeq + 1]
<1>1. /\ d.iid \in Iids /\ d.expected \in Nat /\ d.fact \in NewFacts
      /\ LegalTransition(StatusAt(log[d.iid], UpTo(log[d.iid], d.expected)), d.fact.type)
      /\ LogInv(log, lastSeq) /\ lastSeq + 1 \in Nat \ {0}
  BY DEF IInv, DelayedOK, LogOK, LogInv
<1>2. delayed' \subseteq delayed /\ UNCHANGED <<inter, objs, workerVars>>
  BY DEF LateAppend
<1>3. CASE Outcome(d.iid, d.fact.id, d.expected) = "commit"
  <2>1. Commit(d.iid, f)
    BY <1>3 DEF LateAppend
  <2>2. \A g \in NewFacts : \E x \in Items, q \in Nat, p \in Nat \ {0} : g = Fact(x, q, p)
    BY DEF NewFacts
  <2>3. PICK item \in Items, q \in Nat, p \in Nat \ {0} : d.fact = Fact(item, q, p)
    BY <1>1, <2>2
  <2>4. f = Fact(item, q, lastSeq + 1) /\ f.type = d.fact.type /\ f.pos = lastSeq + 1
    BY <2>3 DEF Fact
  <2>5. f \in NewFacts
    <3> HIDE DEF f
    <3> QED BY <1>1, <2>4 DEF NewFacts
  <2>6. StatusAt(log[d.iid], UpTo(log[d.iid], d.expected)) = StatusOf(log[d.iid])
    BY <1>1, <1>3, OutcomeMeans, StatusAtLast
  <2>7. LegalTransition(StatusOf(log[d.iid]), f.type)
    BY <1>1, <2>4, <2>6
  <2> HIDE DEF f
  <2>8. LogOK' /\ DedupOK' /\ DelayedOK' /\ Grown(log, lastSeq, log', lastSeq')
    BY <1>1, <1>2, <2>1, <2>4, <2>5, <2>7, BrokerCommits
  <2> QED BY <1>2, <2>8, NoWorkerMoves DEF IInv
<1>4. CASE Outcome(d.iid, d.fact.id, d.expected) # "commit"
  <2>1. UNCHANGED <<log, lastSeq, dedup>>
    BY <1>4 DEF LateAppend
  <2>2. LogOK' /\ DedupOK' /\ DelayedOK'
    BY <1>2, <2>1 DEF IInv, LogOK, DedupOK, DelayedOK
  <2>3. Grown(log, lastSeq, log', lastSeq')
    BY <2>1, GrownSame DEF IInv, LogOK
  <2> QED BY <1>2, <2>2, <2>3, NoWorkerMoves DEF IInv
<1> QED BY <1>3, <1>4

\* A command given up: its object is poisoned and the reply is a rejection.
LEMMA GiveUpOK ==
  ASSUME IInv, NEW w \in Workers, pc[w] \in Holding, Poison(w), NEW ok \in BOOLEAN, Settle(w, ok),
         ok => Durable(cmd[w], step[w]), UNCHANGED brokerVars
  PROVE  IInv'
<1>1. LogOK' /\ DedupOK' /\ DelayedOK' /\ Grown(log, lastSeq, log', lastSeq') /\ log' = log
  BY BrokerStays DEF brokerVars
<1>2. pc[w] \in {"ready"} \union Holding
  OBVIOUS
<1>3. ObjsOK' /\ Keeps /\ InterOK'
  BY <1>1, <1>2, PoisonOK
<1>4. pc[w] # "idle" /\ pc[w] # "prelude"
  BY <1>2, AtWork
<1>5. ok => Item(cmd[w], step[w]).id \in Ids(log'[cmd[w].iid])
  BY <1>1 DEF Durable
<1>6. ControlOK'
  BY <1>3, <1>4, <1>5, SettleOK
<1> QED BY <1>1, <1>3, <1>6 DEF IInv

\* A worker that holds st.mu replaces its object by a faithful one.
LEMMA HeldObjChanges ==
  ASSUME IInv, NEW w \in Workers, pc[w] \in Holding, UNCHANGED <<brokerVars, inter>>,
         NEW st \in State, Faithful(st, log, lastSeq), st.iid = cmd[w].iid,
         objs' = [objs EXCEPT ![ref[w]] = st]
  PROVE  /\ LogOK' /\ DedupOK' /\ DelayedOK' /\ ObjsOK' /\ InterOK' /\ Keeps
         /\ log' = log
<1>1. /\ LogOK' /\ DedupOK' /\ DelayedOK' /\ Grown(log, lastSeq, log', lastSeq')
      /\ log' = log /\ lastSeq' = lastSeq
  BY BrokerStays DEF brokerVars
<1>2. ref[w] \in Objs /\ objs[ref[w]].iid = cmd[w].iid /\ cmd[w].iid \in Iids
  BY AtWork
<1>3. ObjsOK' /\ Keeps
  BY <1>1, <1>2, OneObjChanges
<1>4. InterOK'
  BY <1>2, <1>3, InterShrinks
<1> QED BY <1>1, <1>3, <1>4

\* An OCC loser's re-fold, within its bound, or its giving up.
LEMMA RefoldOK ==
  ASSUME IInv, NEW w \in Workers, Refold(w)
  PROVE  IInv'
<1> DEFINE st == Refresh(objs[ref[w]], Rebuild(cmd[w].iid))
<1>1. pc[w] = "conflict" /\ pc[w] \in Holding /\ UNCHANGED brokerVars
  BY DEF Refold, Holding
<1>2. CASE Poison(w) /\ Settle(w, FALSE)
  BY <1>1, <1>2, GiveUpOK
<1>3. CASE /\ attempt[w] < MaxRefold
           /\ objs' = [objs EXCEPT ![ref[w]] = st]
           /\ pc' = [pc EXCEPT ![w] = "retry"]
           /\ attempt' = [attempt EXCEPT ![w] = attempt[w] + 1]
           /\ UNCHANGED <<inter, cmd, root, ref, step, accepted, faults>>
  <2>1. /\ objs[ref[w]] \in State /\ Faithful(objs[ref[w]], log, lastSeq)
        /\ cmd[w].iid \in Iids /\ objs[ref[w]].iid = cmd[w].iid
    BY <1>1, AtWork
  <2>2. st \in State /\ Faithful(st, log, lastSeq) /\ st.iid = cmd[w].iid
    BY <2>1, RefreshOK DEF IInv, LogOK
  <2> HIDE DEF st
  <2>3. LogOK' /\ DedupOK' /\ DelayedOK' /\ ObjsOK' /\ InterOK' /\ Keeps
    BY <1>1, <1>3, <2>2, HeldObjChanges
  <2>4. WorkersType /\ WorkerOK(w)
    BY DEF IInv, ControlOK
  <2>5. attempt[w] + 1 \in 0..MaxRefold
    BY <1>3, <2>4, ConstantsOK DEF WorkersType
  <2>6. WorkersType'
    BY <1>3, <2>4, <2>5 DEF WorkersType, Labels
  <2>7. pc'[w] = "retry" /\ \A v \in Workers \ {w} : pc'[v] = pc[v]
    BY <1>3, <2>4 DEF WorkersType
  <2>8. ref[w] \in Objs /\ objs'[ref[w]].iid = objs[ref[w]].iid
    BY <1>1, <2>3, <2>4, HeldNotFree DEF WorkerOK
  <2>9. \A n \in 1..(step[w] - 1) : Durable(cmd[w], n)'
    <3>1. cmd[w] \in Commands /\ \A n \in 1..(step[w] - 1) : Durable(cmd[w], n)
      BY <1>1, <2>4 DEF WorkerOK
    <3> QED BY <1>3, <2>3, <3>1, DurableStays
  <2>10. WorkerOK(w)'
    BY <1>1, <1>3, <2>4, <2>7, <2>8, <2>9 DEF WorkerOK, Holding, Durable
  <2>11. ControlOK'
    BY <1>3, <2>3, <2>6, <2>7, <2>10, OneWorkerMoves
  <2> QED BY <2>3, <2>11 DEF IInv
<1> QED BY <1>2, <1>3 DEF Refold

\* A failed append found in the log, or given up.
LEMMA ReconcileOK ==
  ASSUME IInv, NEW w \in Workers, Reconcile(w)
  PROVE  IInv'
<1> DEFINE i == cmd[w].iid
           fresh == Rebuild(i)
           id == Item(cmd[w], step[w]).id
           st == objs[ref[w]]
           new == [st EXCEPT !.seq = fresh.seq, !.streamSeq = fresh.streamSeq, !.status = fresh.status]
<1>1. pc[w] = "failed" /\ pc[w] \in Holding /\ UNCHANGED brokerVars
  BY DEF Reconcile, Holding
<1>2. CASE Poison(w) /\ Settle(w, FALSE)
  BY <1>1, <1>2, GiveUpOK
<1>3. CASE /\ Has(fresh.results, id)
           /\ objs' = [objs EXCEPT ![ref[w]].seq = fresh.seq,
                                   ![ref[w]].streamSeq = fresh.streamSeq,
                                   ![ref[w]].status = fresh.status]
           /\ Settle(w, TRUE)
           /\ UNCHANGED <<inter, faults>>
  <2>1. /\ st \in State /\ Faithful(st, log, lastSeq) /\ ref[w] \in Objs
        /\ i \in Iids /\ st.iid = i /\ pc[w] # "idle" /\ pc[w] # "prelude"
    BY <1>1, AtWork
  <2>2. fresh \in State /\ Faithful(fresh, log, lastSeq) /\ fresh.iid = i
    BY <2>1, RebuildOK DEF IInv, LogOK
  <2>3. id \in Ids(log[i])
    <3>1. fresh.results = FoldResults(log[i])
      BY DEF Rebuild
    <3>2. log[i] \in Seq(Facts)
      BY <2>1 DEF IInv, LogOK, LogInv
    <3>3. PICK k \in DOMAIN FoldResults(log[i]) : FoldResults(log[i])[k].id = id
      BY <1>3, <3>1 DEF Has
    <3> QED BY <3>2, <3>3, FoldResultsType
  <2>4. objs \in [Objs -> State]
    BY DEF IInv, ObjsOK
  <2> HIDE DEF fresh
  <2>5. objs' = [objs EXCEPT ![ref[w]] = new]
    BY <1>3, <2>1, <2>2, <2>4 DEF State
  <2>6. /\ new \in State /\ new.iid = i /\ new.streamSeq = fresh.streamSeq
        /\ new.status = fresh.status /\ new.results = st.results
    BY <2>1, <2>2 DEF State
  <2> HIDE DEF new
  <2>7. Faithful(new, log, lastSeq)
    BY <2>1, <2>2, <2>6 DEF Faithful
  <2>8. LogOK' /\ DedupOK' /\ DelayedOK' /\ ObjsOK' /\ InterOK' /\ Keeps /\ log' = log
    BY <1>1, <1>3, <2>5, <2>6, <2>7, HeldObjChanges
  <2>9. ControlOK'
    BY <1>3, <2>1, <2>3, <2>8, SettleOK
  <2> QED BY <2>8, <2>9 DEF IInv
<1> QED BY <1>2, <1>3 DEF Reconcile

\* A duplicate of an ordinary command, whose original is in the log.
LEMMA ReconcileDupOK ==
  ASSUME IInv, NEW w \in Workers, ReconcileDup(w)
  PROVE  IInv'
<1> DEFINE i == cmd[w].iid
           item == Item(cmd[w], step[w])
           e == [id |-> item.id, hash |-> item.hash, ok |-> TRUE]
           st == Refresh(objs[ref[w]], Rebuild(i))
           new == [st EXCEPT !.results = PutResult(st.results, e)]
<1>1. pc[w] = "dup" /\ pc[w] \in Holding /\ UNCHANGED brokerVars
  BY DEF ReconcileDup, Holding
<1>2. Durable(cmd[w], step[w]) /\ item.id \in Ids(log[i])
  BY <1>1 DEF IInv, ControlOK, WorkerOK, Durable
<1>3. /\ objs[ref[w]] \in State /\ Faithful(objs[ref[w]], log, lastSeq)
      /\ i \in Iids /\ objs[ref[w]].iid = i /\ cmd[w] \in Commands
      /\ step[w] \in 1..Steps(cmd[w]) /\ pc[w] # "idle" /\ pc[w] # "prelude"
  BY <1>1, AtWork
<1>4. st \in State /\ Faithful(st, log, lastSeq) /\ st.iid = i
  BY <1>3, RefreshOK DEF IInv, LogOK
<1>5. \/ /\ objs' = [objs EXCEPT ![ref[w]] = st]
         /\ Settle(w, StoredAnswer(st, item))
         /\ UNCHANGED inter
      \/ /\ objs' = [objs EXCEPT ![ref[w]] = new]
         /\ Settle(w, TRUE)
         /\ UNCHANGED inter
      \/ Poison(w) /\ Settle(w, TRUE)
  BY DEF ReconcileDup
<1>6. StoredAnswer(st, item) \in BOOLEAN
  BY DEF StoredAnswer
<1>7. e \in Entries /\ e.id = item.id
  BY <1>3, ItemFacts
<1> HIDE DEF st, e
<1>8. CASE /\ objs' = [objs EXCEPT ![ref[w]] = st]
           /\ Settle(w, StoredAnswer(st, item))
           /\ UNCHANGED inter
  <2>1. LogOK' /\ DedupOK' /\ DelayedOK' /\ ObjsOK' /\ InterOK' /\ Keeps /\ log' = log
    BY <1>1, <1>4, <1>8, HeldObjChanges
  <2>2. ControlOK'
    BY <1>2, <1>3, <1>6, <1>8, <2>1, SettleOK
  <2> QED BY <2>1, <2>2 DEF IInv
<1>9. CASE /\ objs' = [objs EXCEPT ![ref[w]] = new]
           /\ Settle(w, TRUE)
           /\ UNCHANGED inter
  <2>1. /\ PutResult(st.results, e) \in Cache(Entries)
        /\ \A k \in DOMAIN PutResult(st.results, e) :
             PutResult(st.results, e)[k].ok => PutResult(st.results, e)[k].id \in Ids(log[i])
    <3>1. st.results \in Cache(Entries)
      BY <1>4 DEF State
    <3>2. \A k \in DOMAIN st.results : st.results[k].ok => st.results[k].id \in Ids(log[i])
      BY <1>4 DEF Faithful
    <3>3. e.ok => e.id \in Ids(log[i])
      BY <1>2, <1>7
    <3> QED BY <1>7, <3>1, <3>2, <3>3, PutFaithful
  <2>2. /\ new \in State /\ new.iid = i /\ new.streamSeq = st.streamSeq
        /\ new.status = st.status /\ new.results = PutResult(st.results, e)
    BY <1>4, <2>1 DEF State
  <2> HIDE DEF new
  <2>3. Faithful(new, log, lastSeq)
    BY <1>4, <2>1, <2>2 DEF Faithful
  <2>4. LogOK' /\ DedupOK' /\ DelayedOK' /\ ObjsOK' /\ InterOK' /\ Keeps /\ log' = log
    BY <1>1, <1>9, <2>2, <2>3, HeldObjChanges
  <2>5. ControlOK'
    BY <1>2, <1>3, <1>9, <2>4, SettleOK
  <2> QED BY <2>4, <2>5 DEF IInv
<1>10. CASE Poison(w) /\ Settle(w, TRUE)
  BY <1>1, <1>2, <1>10, GiveUpOK
<1> QED BY <1>5, <1>8, <1>9, <1>10

\* All sub-facts of a privileged command are durable: bind them and accept it.
LEMMA FinishParticipationOK ==
  ASSUME IInv, NEW w \in Workers, FinishParticipation(w)
  PROVE  IInv'
<1> DEFINE c == cmd[w]
           o == root[w]
           P == {<<c.id, s>> : s \in SubIds(c)}
           new == [objs[o] EXCEPT !.parents = objs[o].parents \union P]
<1>1. /\ LogOK' /\ DedupOK' /\ DelayedOK' /\ Grown(log, lastSeq, log', lastSeq')
      /\ log' = log /\ lastSeq' = lastSeq
  BY BrokerStays DEF FinishParticipation, brokerVars
<1>2. /\ pc[w] = "finish" /\ Reply(w, TRUE) /\ inter' = inter
      /\ objs' = [objs EXCEPT ![o] = new]
  BY DEF FinishParticipation
<1>3. /\ c \in Commands /\ c.iid \in Iids /\ o \in Objs
      /\ \A n \in 1..Steps(c) : Durable(c, n)
  BY <1>2, ConstantsOK DEF IInv, ControlOK, WorkerOK
<1>4. objs[o] \in State /\ Faithful(objs[o], log, lastSeq)
  BY <1>3 DEF IInv, ObjsOK
<1>5. P \subseteq Bindings
  <2> SUFFICES ASSUME NEW n \in 1..Steps(c) PROVE <<c.id, Item(c, n).id>> \in Bindings
    BY DEF SubIds
  <2>1. Item(c, n).cause = c.id
    BY DEF Item
  <2>2. /\ Fact(Item(c, n), 0, 1) \in Facts
        /\ Fact(Item(c, n), 0, 1).cause = c.id
        /\ Fact(Item(c, n), 0, 1).id = Item(c, n).id
    BY <1>3, <2>1, ItemFacts DEF Facts, Fact
  <2> QED BY <2>2 DEF Bindings
<1> HIDE DEF P
<1>6. /\ new \in State /\ new.iid = objs[o].iid /\ new.streamSeq = objs[o].streamSeq
      /\ new.status = objs[o].status /\ new.results = objs[o].results
  BY <1>4, <1>5 DEF State
<1> HIDE DEF new
<1>7. Faithful(new, log', lastSeq')
  BY <1>1, <1>4, <1>6 DEF Faithful
<1>8. ObjsOK' /\ Keeps
  BY <1>1, <1>2, <1>3, <1>6, <1>7, OneObjChanges
<1>9. InterOK'
  BY <1>2, <1>3, <1>8, InterShrinks
<1>10. \A n \in 1..Steps(c) : Item(c, n).id \in Ids(log'[c.iid])
  BY <1>1, <1>3 DEF Durable
<1>11. ControlOK'
  BY <1>2, <1>8, <1>10, ReplyOK
<1> QED BY <1>1, <1>8, <1>9, <1>11 DEF IInv

\* A restart forgets the router's map and commands, and no fact.
LEMMA CrashOK ==
  ASSUME IInv, NEW r \in Routers, Crash(r)
  PROVE  IInv'
<1>1. LogOK' /\ DedupOK' /\ DelayedOK' /\ Grown(log, lastSeq, log', lastSeq') /\ log' = log
  BY BrokerStays DEF Crash, brokerVars
<1>2. ObjsOK' /\ Keeps
  BY <1>1, ObjsStay DEF Crash
<1>3. InterOK'
  <2>1. objs' = objs /\ inter' = [inter EXCEPT ![r] = [i \in Iids |-> NoObj]]
    BY DEF Crash
  <2> QED BY <2>1 DEF IInv, InterOK
<1>4. WorkersType /\ accepted' = accepted
  BY DEF IInv, ControlOK, Crash
<1>5. WorkersType'
  <2>1. pc' \in [Workers -> Labels]
    BY <1>4 DEF Crash, WorkersType, Labels
  <2>2. cmd' \in [Workers -> Commands \union {NoCommand}]
    BY <1>4 DEF Crash, WorkersType
  <2>3. root' \in [Workers -> Objs \union {NoObj}] /\ ref' \in [Workers -> Objs \union {NoObj}]
    BY <1>4 DEF Crash, WorkersType
  <2>4. step' \in [Workers -> Nat] /\ attempt' \in [Workers -> 0..MaxRefold]
    BY <1>4, ConstantsOK DEF Crash, WorkersType
  <2> QED BY <2>1, <2>2, <2>3, <2>4 DEF WorkersType
<1>6. ASSUME NEW w \in Workers PROVE WorkerOK(w)'
  <2>1. CASE RouterOf[w] = r
    <3>1. /\ pc'[w] = "idle" /\ cmd'[w] = NoCommand /\ root'[w] = NoObj /\ ref'[w] = NoObj
          /\ step'[w] = 1
      BY <2>1 DEF Crash
    <3> QED BY <3>1 DEF WorkerOK, Holding
  <2>2. CASE RouterOf[w] # r
    <3>1. /\ pc'[w] = pc[w] /\ cmd'[w] = cmd[w] /\ root'[w] = root[w] /\ ref'[w] = ref[w]
          /\ step'[w] = step[w]
      BY <2>2 DEF Crash
    <3> QED BY <1>2, <3>1, WorkerStays DEF IInv, ControlOK
  <2> QED BY <2>1, <2>2
<1>7. ControlOK'
  BY <1>1, <1>4, <1>5, <1>6 DEF IInv, ControlOK, AcceptedIsDurable
<1> QED BY <1>1, <1>2, <1>3, <1>7 DEF IInv

\* A fact that leaves the dedup window stays in the log.
LEMMA DedupExpiryOK ==
  ASSUME IInv, DedupExpiry
  PROVE  IInv'
<1>1. dedup' \subseteq dedup /\ UNCHANGED <<log, lastSeq, delayed, inter, objs, workerVars>>
  BY DEF DedupExpiry
<1>2. LogOK' /\ DedupOK' /\ DelayedOK'
  BY <1>1 DEF IInv, LogOK, DedupOK, DelayedOK
<1>3. Grown(log, lastSeq, log', lastSeq')
  BY <1>1, GrownSame DEF IInv, LogOK
<1> QED BY <1>1, <1>2, <1>3, NoWorkerMoves DEF IInv

-----------------------------------------------------------------------------
(* The theorems. *)

\* The stream starts after the facts of earlier incarnations.
LEMMA InitialLogInv ==
  ASSUME Init
  PROVE  LogInv(log, lastSeq)
<1>1. log = InitialLog
  BY DEF Init
<1>2. log \in [Iids -> Seq(Facts)]
  <2>1. InitialLog \in [Iids -> Seq(OldFacts)]
    BY InitialLogOK DEF OldFacts
  <2>2. \A s \in Seq(OldFacts) : s \in Seq(Facts)
    <3>1. OldFacts \subseteq Facts
      BY DEF Facts
    <3> QED BY <3>1
  <2> QED BY <1>1, <2>1, <2>2
<1>3. lastSeq \in InitialPositions /\ \A q \in InitialPositions : q <= lastSeq
  BY InitialLogOK DEF Init
<1>4. \A i \in Iids : LastPos(log[i]) \in InitialPositions
  BY <1>1 DEF InitialPositions
<1>5. \A i \in Iids : LastPos(log[i]) \in Nat
  <2> SUFFICES ASSUME NEW i \in Iids PROVE LastPos(log[i]) \in Nat
    OBVIOUS
  <2>1. log[i] \in Seq(Facts)
    BY <1>2
  <2>2. log[i] # <<>> => log[i][Len(log[i])] \in Facts
    BY <2>1
  <2> QED BY <2>2, FactType DEF LastPos
<1>6. lastSeq \in Nat
  BY <1>1, <1>3, <1>5 DEF InitialPositions
<1>7. ASSUME NEW i \in Iids, NEW k \in DOMAIN log[i]
      PROVE  /\ log[i][k].pos <= lastSeq
             /\ \A j \in 1..(k-1) : log[i][j].pos < log[i][k].pos
             /\ LegalTransition(StatusAt(log[i], 1..(k-1)), log[i][k].type)
  <2>1. /\ \A l \in DOMAIN log[i] : \A j \in 1..(l-1) : log[i][j].pos < log[i][l].pos
        /\ LegalTransition(StatusAt(log[i], 1..(k-1)), log[i][k].type)
    BY <1>1, InitialLogOK
  <2>2. log[i] \in Seq(Facts) /\ Len(log[i]) \in Nat /\ DOMAIN log[i] = 1..Len(log[i])
    BY <1>2
  <2>3. log[i][k].pos \in Nat /\ Len(log[i]) \in DOMAIN log[i] /\ log[i] # <<>>
    BY <2>2, FactType
  <2>4. log[i][k].pos <= LastPos(log[i])
    <3>1. CASE k = Len(log[i])
      BY <2>3, <3>1 DEF LastPos
    <3>2. CASE k # Len(log[i])
      <4>1. k \in 1..(Len(log[i]) - 1)
        BY <2>2, <3>2
      <4>2. log[i][k].pos < log[i][Len(log[i])].pos
        BY <2>1, <2>3, <4>1
      <4>3. log[i][Len(log[i])].pos \in Nat
        BY <2>2, <2>3, FactType
      <4> QED BY <2>3, <4>2, <4>3 DEF LastPos
    <3> QED BY <3>1, <3>2
  <2>5. LastPos(log[i]) \in Nat /\ LastPos(log[i]) <= lastSeq
    BY <1>3, <1>4, <1>5
  <2>6. log[i][k].pos <= lastSeq
    BY <1>6, <2>3, <2>4, <2>5
  <2> QED BY <2>1, <2>6
<1> QED BY <1>2, <1>6, <1>7 DEF LogInv

\* The initial states satisfy the invariant.
LEMMA InitOK ==
  ASSUME Init
  PROVE  IInv
<1>1. LogOK
  BY InitialLogInv DEF LogOK
<1>2. ObjsOK
  <2>1. NoState \in State /\ Faithful(NoState, log, lastSeq)
    BY <1>1, NoStateOK DEF LogOK
  <2>2. objs = [o \in Objs |-> NoState]
    BY DEF Init
  <2> QED BY <2>1, <2>2 DEF ObjsOK
<1>3. InterOK
  BY DEF Init, InterOK
<1>4. DedupOK
  <2> SUFFICES ASSUME NEW d \in dedup PROVE d[1] \in Iids /\ d[2] \in Ids(log[d[1]])
    BY DEF DedupOK
  <2>1. PICK i \in Iids : d \in {<<i, InitialLog[i][k].id>> : k \in DOMAIN InitialLog[i]}
    BY DEF Init
  <2>2. PICK k \in DOMAIN InitialLog[i] : d = <<i, InitialLog[i][k].id>>
    BY <2>1
  <2> QED BY <2>2 DEF Ids, Init
<1>5. DelayedOK
  BY DEF Init, DelayedOK
<1>6. WorkersType
  BY ConstantsOK DEF Init, WorkersType, Labels
<1>7. \A w \in Workers : WorkerOK(w)
  BY DEF Init, WorkerOK, Holding
<1>8. ControlOK
  BY <1>6, <1>7 DEF Init, ControlOK, AcceptedIsDurable
<1> QED BY <1>1, <1>2, <1>3, <1>4, <1>5, <1>8 DEF IInv

\* Every step of a worker preserves the invariant.
LEMMA WorkOK ==
  ASSUME IInv, NEW w \in Workers, Work(w)
  PROVE  IInv'
<1>1. CASE GetCached(w)
  BY <1>1, GetCachedOK
<1>2. CASE GetRebuilt(w)
  BY <1>2, GetRebuiltOK
<1>3. CASE GetFails(w)
  BY <1>3, GetFailsOK
<1>4. CASE CheckParents(w)
  BY <1>4, CheckParentsOK
<1>5. CASE RejectPoisoned(w)
  BY <1>5, RejectPoisonedOK
<1>6. CASE AnswerStored(w)
  BY <1>6, AnswerStoredOK
<1>7. CASE RejectNonMember(w)
  BY <1>7, RejectNonMemberOK
<1>8. CASE RejectIllegal(w)
  BY <1>8, RejectIllegalOK
<1>9. CASE AppendCommits(w)
  BY <1>9, AppendCommitsOK
<1>10. CASE AppendConflicts(w)
  BY <1>10, AppendConflictsOK
<1>11. CASE AppendDuplicates(w)
  BY <1>11, AppendDuplicatesOK
<1>12. CASE AppendErrs(w)
  BY <1>12, AppendErrsOK
<1>13. CASE Refold(w)
  BY <1>13, RefoldOK
<1>14. CASE Reconcile(w)
  BY <1>14, ReconcileOK
<1>15. CASE ReconcileDup(w)
  BY <1>15, ReconcileDupOK
<1>16. CASE FinishParticipation(w)
  BY <1>16, FinishParticipationOK
<1> QED BY <1>1, <1>2, <1>3, <1>4, <1>5, <1>6, <1>7, <1>8, <1>9, <1>10, <1>11, <1>12, <1>13,
           <1>14, <1>15, <1>16 DEF Work

\* Every step preserves the invariant, also one that changes nothing.
LEMMA NextOK ==
  ASSUME IInv, [Next]_vars
  PROVE  IInv'
<1>1. CASE \E w \in Workers, c \in Commands : Receive(w, c)
  BY <1>1, ReceiveOK
<1>2. CASE \E w \in Workers : Work(w)
  BY <1>2, WorkOK
<1>3. CASE \E d \in delayed : LateAppend(d)
  BY <1>3, LateAppendOK
<1>4. CASE \E r \in Routers : Crash(r)
  BY <1>4, CrashOK
<1>5. CASE DedupExpiry
  BY <1>5, DedupExpiryOK
<1>6. CASE UNCHANGED vars
  <2>1. /\ UNCHANGED <<log, lastSeq, dedup, delayed, inter, objs>>
        /\ UNCHANGED <<pc, cmd, root, ref, step, attempt, accepted>>
    BY <1>6 DEF vars
  <2>2. LogOK' /\ DedupOK' /\ DelayedOK'
    BY <2>1 DEF IInv, LogOK, DedupOK, DelayedOK
  <2>3. Grown(log, lastSeq, log', lastSeq')
    BY <2>1, GrownSame DEF IInv, LogOK
  <2>4. UNCHANGED <<inter, objs, workerVars>>
    BY <2>1 DEF workerVars
  <2> QED BY <2>2, <2>3, <2>4, NoWorkerMoves DEF IInv
<1> QED BY <1>1, <1>2, <1>3, <1>4, <1>5, <1>6 DEF Next

\* The invariant holds in every reachable state, for every number of routers,
\* workers, interactions and commands, and whatever fails.
THEOREM Invariance == Spec => []IInv
<1>1. Init => IInv
  BY InitOK
<1>2. IInv /\ [Next]_vars => IInv'
  BY NextOK
<1> QED BY <1>1, <1>2, PTL DEF Spec

\* The variables of the router and of the broker keep their shape: OCC tokens
\* never pass the stream, a dedup cache never passes maxResults, a loser never
\* re-folds more than maxRefold times, and a worker past getState has an object.
THEOREM TypeCorrect == Spec => []TypeOK
<1>1. ASSUME IInv PROVE TypeOK
  <2>1. lastSeq \in Nat /\ log \in [Iids -> Seq(Facts)]
    BY <1>1 DEF IInv, LogOK, LogInv
  <2>2. ASSUME NEW i \in Iids, NEW k \in DOMAIN log[i]
        PROVE  log[i][k].pos \in 1..lastSeq /\ log[i][k].seq \in Nat
    <3>1. log[i][k] \in Facts /\ log[i][k].pos <= lastSeq
      BY <1>1, <2>1 DEF IInv, LogOK, LogInv
    <3> QED BY <2>1, <3>1, FactType
  <2>3. inter \in [Routers -> [Iids -> Objs \union {NoObj}]]
    BY <1>1 DEF IInv, InterOK
  <2>4. ASSUME NEW o \in Objs
        PROVE  /\ objs[o].seq \in Nat
               /\ objs[o].streamSeq \in 0..lastSeq
               /\ objs[o].status \in Status
               /\ objs[o].poisoned \in BOOLEAN
               /\ Len(objs[o].results) <= MaxResults
    <3>1. objs[o] \in State /\ Faithful(objs[o], log, lastSeq)
      BY <1>1 DEF IInv, ObjsOK
    <3>2. objs[o].poisoned \in BOOLEAN
      BY <3>1, Zenon DEF State
    <3>3. objs[o].seq \in Nat /\ objs[o].streamSeq \in Nat /\ objs[o].status \in Status
      BY <3>1 DEF State
    <3>4. Len(objs[o].results) <= MaxResults
      BY <3>1 DEF State, Cache
    <3>5. objs[o].streamSeq \in 0..lastSeq
      BY <2>1, <3>1, <3>3 DEF Faithful
    <3> QED BY <3>2, <3>3, <3>4, <3>5
  <2>5. pc \in [Workers -> Labels] /\ accepted \subseteq Commands
    BY <1>1 DEF IInv, ControlOK, WorkersType
  <2>6. ASSUME NEW w \in Workers
        PROVE  /\ cmd[w] \in IF pc[w] = "idle" THEN {NoCommand} ELSE Commands
               /\ ref[w] \in IF pc[w] \in {"ready"} \union Holding THEN Objs ELSE {NoObj}
               /\ root[w] \in IF /\ pc[w] \notin {"idle", "prelude"}
                                 /\ IsParticipationCommand(cmd[w])
                              THEN Objs ELSE {NoObj}
               /\ pc[w] # "idle" => step[w] \in 1..Steps(cmd[w])
               /\ attempt[w] \in 0..MaxRefold
    <3>1. WorkerOK(w) /\ WorkersType
      BY <1>1 DEF IInv, ControlOK
    <3>2. cmd[w] \in IF pc[w] = "idle" THEN {NoCommand} ELSE Commands
      BY <3>1 DEF WorkerOK
    <3>3. ref[w] \in IF pc[w] \in {"ready"} \union Holding THEN Objs ELSE {NoObj}
      BY <3>1 DEF WorkerOK
    <3>4. root[w] \in IF pc[w] \notin {"idle", "prelude"} /\ IsParticipationCommand(cmd[w])
                      THEN Objs ELSE {NoObj}
      BY <3>1 DEF WorkerOK
    <3>5. pc[w] # "idle" => step[w] \in 1..Steps(cmd[w])
      BY <3>1 DEF WorkerOK
    <3>6. attempt[w] \in 0..MaxRefold
      BY <3>1 DEF WorkersType
    <3> QED BY <3>2, <3>3, <3>4, <3>5, <3>6
  <2> QED BY <2>1, <2>2, <2>3, <2>4, <2>5, <2>6 DEF TypeOK
<1> QED BY <1>1, Invariance, PTL

\* A fact is legal where it stands in the log, although it was judged on a
\* cached status by one of many routers: per-subject OCC makes the judgement
\* stand, also for an append that reaches the broker late.
THEOREM LifecycleIsLegal == Spec => []LifecycleLegal
<1>1. IInv => LifecycleLegal
  BY DEF IInv, LogOK, LogInv, LifecycleLegal
<1> QED BY <1>1, Invariance, PTL

\* An accepted command is in the log, all of it, from the moment of the answer
\* on: whether the answer comes from the append, from a cache, from a duplicate
\* or from looking into the log after a failed append.
THEOREM AcceptedCommandsAreDurable == Spec => []AcceptedIsDurable
<1>1. IInv => AcceptedIsDurable
  BY DEF IInv, ControlOK
<1> QED BY <1>1, Invariance, PTL

-----------------------------------------------------------------------------
(* What a step does to the log. *)

\* An append of f is owed to a command whose earlier facts are in the log.
Owed(i, f) ==
  \E c \in Commands : \E n \in 1..Steps(c) :
    /\ i = c.iid /\ f.id = Item(c, n).id /\ f.type = Item(c, n).type
    /\ \A m \in 1..(n-1) : Durable(c, m)

DelayedOwed == \A d \in delayed : Owed(d.iid, d.fact)

\* The broker takes one fact, which it has not seen within its dedup window.
Takes(i, f) ==
  i \in Iids /\ f \in NewFacts /\ Owed(i, f) /\ <<i, f.id>> \notin dedup /\ Commit(i, f)

BrokerStep ==
  /\ \/ log' = log /\ (DedupExpires \/ dedup' = dedup)
     \/ \E i, f : Takes(i, f)
  /\ \A d \in delayed' : d \in delayed \/ Owed(d.iid, d.fact)

\* The item a worker appends is owed.
LEMMA WorkIsOwed ==
  ASSUME IInv, NEW w \in Workers, pc[w] \in {"ready"} \union Holding,
         NEW f, f.id = Item(cmd[w], step[w]).id, f.type = Item(cmd[w], step[w]).type
  PROVE  Owed(cmd[w].iid, f)
<1>1. cmd[w] \in Commands /\ step[w] \in 1..Steps(cmd[w]) /\ pc[w] # "idle"
  BY AtWork
<1>2. \A m \in 1..(step[w] - 1) : Durable(cmd[w], m)
  BY <1>1 DEF IInv, ControlOK, WorkerOK
<1> QED BY <1>1, <1>2 DEF Owed

\* A worker whose append the broker takes, acknowledged or not.
LEMMA WorkerTakes ==
  ASSUME IInv, NEW w \in Workers, Ready(w), BrokerSays(w) = "commit",
         NEW f, f = Fact(Item(cmd[w], step[w]), objs[ref[w]].seq + 1, lastSeq + 1),
         Commit(cmd[w].iid, f)
  PROVE  Takes(cmd[w].iid, f)
<1>1. pc[w] \in {"ready"} \union Holding
  BY ReadyMeans
<1>2. cmd[w].iid \in Iids
  BY <1>1, AtWork
<1>3. f \in NewFacts /\ f.id = Item(cmd[w], step[w]).id /\ f.type = Item(cmd[w], step[w]).type
  BY <1>1, AppendedFact
<1>4. Owed(cmd[w].iid, f)
  BY <1>1, <1>3, WorkIsOwed
<1>5. <<cmd[w].iid, f.id>> \notin dedup
  BY <1>3, OutcomeMeans DEF BrokerSays
<1> QED BY <1>2, <1>3, <1>4, <1>5 DEF Takes

LEMMA LogStep ==
  ASSUME IInv, DelayedOwed, [Next]_vars
  PROVE  BrokerStep
<1>1. CASE UNCHANGED brokerVars
  BY <1>1 DEF BrokerStep, brokerVars
<1>2. ASSUME NEW w \in Workers, AppendCommits(w) PROVE BrokerStep
  <2> PICK f : f = Fact(Item(cmd[w], step[w]), objs[ref[w]].seq + 1, lastSeq + 1)
    OBVIOUS
  <2>1. Ready(w) /\ BrokerSays(w) = "commit" /\ Commit(cmd[w].iid, f) /\ delayed' = delayed
    BY <1>2 DEF AppendCommits
  <2>2. Takes(cmd[w].iid, f)
    BY <2>1, WorkerTakes
  <2> QED BY <2>1, <2>2 DEF BrokerStep
<1>3. ASSUME NEW w \in Workers, AppendErrs(w) PROVE BrokerStep
  <2> PICK f : f = Fact(Item(cmd[w], step[w]), objs[ref[w]].seq + 1, lastSeq + 1)
    OBVIOUS
  <2> PICK d : d = [iid |-> cmd[w].iid, expected |-> objs[ref[w]].streamSeq, fact |-> f]
    OBVIOUS
  <2>1. /\ Ready(w)
        /\ \/ UNCHANGED brokerVars
           \/ BrokerSays(w) = "commit" /\ Commit(cmd[w].iid, f) /\ delayed' = delayed
           \/ delayed' = delayed \union {d} /\ UNCHANGED <<log, dedup>>
    BY <1>3 DEF AppendErrs
  <2>2. CASE UNCHANGED brokerVars
    BY <2>2 DEF BrokerStep, brokerVars
  <2>3. CASE BrokerSays(w) = "commit" /\ Commit(cmd[w].iid, f) /\ delayed' = delayed
    <3>1. Takes(cmd[w].iid, f)
      BY <2>1, <2>3, WorkerTakes
    <3> QED BY <2>3, <3>1 DEF BrokerStep
  <2>4. CASE delayed' = delayed \union {d} /\ UNCHANGED <<log, dedup>>
    <3>1. pc[w] \in {"ready"} \union Holding
      BY <2>1, ReadyMeans
    <3>2. Owed(cmd[w].iid, f)
      BY <3>1, AppendedFact, WorkIsOwed
    <3>3. d.iid = cmd[w].iid /\ d.fact = f
      OBVIOUS
    <3>4. Owed(d.iid, d.fact)
      BY <3>2, <3>3
    <3> QED BY <2>4, <3>4 DEF BrokerStep
  <2> QED BY <2>1, <2>2, <2>3, <2>4
<1>4. ASSUME NEW d \in delayed, LateAppend(d) PROVE BrokerStep
  <2> PICK f : f = [d.fact EXCEPT !.pos = lastSeq + 1]
    OBVIOUS
  <2>1. d.iid \in Iids /\ d.fact \in NewFacts /\ lastSeq + 1 \in Nat \ {0} /\ Owed(d.iid, d.fact)
    BY DEF IInv, DelayedOK, LogOK, LogInv, DelayedOwed
  <2>2. \A e \in delayed' : e \in delayed
    BY <1>4 DEF LateAppend
  <2>3. CASE Outcome(d.iid, d.fact.id, d.expected) = "commit"
    <3>1. Commit(d.iid, f)
      BY <1>4, <2>3 DEF LateAppend
    <3>2. \A g \in NewFacts : \E x \in Items, q \in Nat, p \in Nat \ {0} : g = Fact(x, q, p)
      BY DEF NewFacts
    <3>3. PICK item \in Items, q \in Nat, p \in Nat \ {0} : d.fact = Fact(item, q, p)
      BY <2>1, <3>2
    <3>4. f = Fact(item, q, lastSeq + 1) /\ f.id = d.fact.id /\ f.type = d.fact.type
      BY <3>3 DEF Fact
    <3>5. f \in NewFacts
      BY <2>1, <3>4 DEF NewFacts
    <3>6. Owed(d.iid, f)
      BY <2>1, <3>4 DEF Owed
    <3>7. <<d.iid, f.id>> \notin dedup
      BY <2>3, <3>4, OutcomeMeans
    <3>8. Takes(d.iid, f)
      BY <2>1, <3>1, <3>5, <3>6, <3>7 DEF Takes
    <3> QED BY <2>2, <3>8 DEF BrokerStep
  <2>4. CASE Outcome(d.iid, d.fact.id, d.expected) # "commit"
    <3>1. UNCHANGED <<log, dedup>>
      BY <1>4, <2>4 DEF LateAppend
    <3> QED BY <2>2, <3>1 DEF BrokerStep
  <2> QED BY <2>3, <2>4
<1>5. CASE DedupExpiry
  BY <1>5 DEF DedupExpiry, BrokerStep
<1>6. ASSUME NEW w \in Workers, Work(w), ~AppendCommits(w), ~AppendErrs(w) PROVE UNCHANGED brokerVars
  BY <1>6 DEF Work, GetCached, GetRebuilt, GetFails, CheckParents, RejectPoisoned, AnswerStored,
     RejectNonMember, RejectIllegal, AppendConflicts, AppendDuplicates, Refold, Reconcile,
     ReconcileDup, FinishParticipation
<1>7. ASSUME NEW w \in Workers, NEW c \in Commands, Receive(w, c) PROVE UNCHANGED brokerVars
  BY <1>7 DEF Receive
<1>8. ASSUME NEW r \in Routers, Crash(r) PROVE UNCHANGED brokerVars
  BY <1>8 DEF Crash
<1>9. UNCHANGED vars => UNCHANGED brokerVars
  BY DEF vars, brokerVars
<1> QED BY <1>1, <1>2, <1>3, <1>4, <1>5, <1>6, <1>7, <1>8, <1>9 DEF Next

\* What a log looks like after an append.
LEMMA TakenLog ==
  ASSUME LogOK, NEW i, NEW f, Takes(i, f)
  PROVE  /\ i \in Iids /\ log[i] \in Seq(Facts) /\ Len(log[i]) \in Nat
         /\ log' = [log EXCEPT ![i] = Append(log[i], f)]
         /\ \A j \in Iids : j # i => log'[j] = log[j]
         /\ DOMAIN log[i] = 1..Len(log[i]) /\ DOMAIN log'[i] = 1..(Len(log[i]) + 1)
         /\ log'[i] = Append(log[i], f)
         /\ log'[i][Len(log[i]) + 1] = f
         /\ \A k \in DOMAIN log[i] : log'[i][k] = log[i][k]
<1>1. i \in Iids /\ f \in Facts /\ log \in [Iids -> Seq(Facts)]
  BY DEF Takes, Facts, LogOK, LogInv
<1>2. log[i] \in Seq(Facts) /\ Len(log[i]) \in Nat /\ DOMAIN log[i] = 1..Len(log[i])
  BY <1>1
<1>3. log' = [log EXCEPT ![i] = Append(log[i], f)]
  BY DEF Takes, Commit
<1>4. log'[i] = Append(log[i], f) /\ \A j \in Iids : j # i => log'[j] = log[j]
  BY <1>1, <1>3
<1>5. /\ DOMAIN log'[i] = 1..(Len(log[i]) + 1) /\ log'[i][Len(log[i]) + 1] = f
      /\ \A k \in DOMAIN log[i] : log'[i][k] = log[i][k]
  BY <1>1, <1>2, <1>4
<1> QED BY <1>1, <1>2, <1>3, <1>4, <1>5

\* A fact that is in the log stays there.
LEMMA IdsStay ==
  ASSUME LogOK, BrokerStep, NEW i \in Iids
  PROVE  Ids(log[i]) \subseteq Ids(log'[i])
<1>1. CASE log' = log
  BY <1>1
<1>2. ASSUME NEW j, NEW f, Takes(j, f) PROVE Ids(log[i]) \subseteq Ids(log'[i])
  <2>1. CASE j = i
    <3>1. /\ DOMAIN log[i] \subseteq DOMAIN log'[i]
          /\ \A k \in DOMAIN log[i] : log'[i][k] = log[i][k]
      BY <1>2, <2>1, TakenLog
    <3> QED BY <3>1 DEF Ids
  <2>2. CASE j # i
    <3>1. log'[i] = log[i]
      BY <1>2, <2>2, TakenLog
    <3> QED BY <3>1
  <2> QED BY <2>1, <2>2
<1> QED BY <1>1, <1>2 DEF BrokerStep

LEMMA OwedStays ==
  ASSUME LogOK, BrokerStep, NEW i, NEW f, Owed(i, f)
  PROVE  Owed(i, f)'
<1>1. PICK c \in Commands : \E n \in 1..Steps(c) :
        /\ i = c.iid /\ f.id = Item(c, n).id /\ f.type = Item(c, n).type
        /\ \A m \in 1..(n-1) : Durable(c, m)
  BY DEF Owed
<1>2. c.iid \in Iids
  BY ConstantsOK
<1>3. Ids(log[c.iid]) \subseteq Ids(log'[c.iid])
  BY <1>2, IdsStay
<1> QED BY <1>1, <1>3 DEF Owed, Durable

\* Every append the broker takes, now or late, is owed to a command.
THEOREM AppendsAreOwed == Spec => [](IInv /\ DelayedOwed)
<1>1. Init => DelayedOwed
  BY DEF Init, DelayedOwed
<1>2. IInv /\ DelayedOwed /\ [Next]_vars => DelayedOwed'
  <2> SUFFICES ASSUME IInv, DelayedOwed, [Next]_vars, NEW d \in delayed' PROVE Owed(d.iid, d.fact)'
    BY DEF DelayedOwed
  <2>1. BrokerStep /\ LogOK
    BY LogStep DEF IInv
  <2>2. Owed(d.iid, d.fact)
    BY <2>1 DEF BrokerStep, DelayedOwed
  <2> QED BY <2>1, <2>2, OwedStays
<1> QED BY <1>1, <1>2, Invariance, PTL DEF Spec

-----------------------------------------------------------------------------
(* What follows for the order and the uniqueness of facts. *)

\* The two facts of a transfer.
LEMMA TransferItems ==
  ASSUME NEW c \in Commands, c.type = "participant.transfer"
  PROVE  /\ IsParticipationCommand(c) /\ Steps(c) = 2
         /\ Item(c, 1).id = <<c.id, Joined, c.agent>>
         /\ Item(c, 2).id = <<c.id, Left, c.from>>
<1>1. IsParticipationCommand(c)
  BY DEF IsParticipationCommand, ParticipationCommands
<1>2. ParticipationFacts(c) = <<[type |-> Joined, agent |-> c.agent], [type |-> Left, agent |-> c.from]>>
  BY DEF ParticipationFacts
<1>3. Steps(c) = 2
  BY <1>1, <1>2 DEF Steps
<1>4. Item(c, 1).id = <<c.id, Joined, c.agent>> /\ Item(c, 2).id = <<c.id, Left, c.from>>
  BY <1>1, <1>2 DEF Item
<1> QED BY <1>1, <1>3, <1>4

\* A fact id names the command it belongs to.
LEMMA IdNamesCommand ==
  ASSUME NEW c, NEW n \in 1..Steps(c), NEW x, NEW y, NEW z, Item(c, n).id = <<x, y, z>>
  PROVE  c.id = x
<1>1. CASE IsParticipationCommand(c)
  <2>1. Item(c, n).id[1] = c.id
    BY <1>1 DEF Item
  <2> QED BY <2>1
<1>2. CASE ~IsParticipationCommand(c)
  <2>1. Len(Item(c, n).id) = 1
    BY <1>2 DEF Item
  <2> QED BY <2>1
<1> QED BY <1>1, <1>2

\* The leave of a transfer is owed only when its join is in the log.
LEMMA LeaveIsOwedAfterJoin ==
  ASSUME NEW c \in Commands, c.type = "participant.transfer",
         \A d \in Commands : d.id = c.id => d = c,
         NEW i, NEW f, Owed(i, f), f.id = <<c.id, Left, c.from>>
  PROVE  <<c.id, Joined, c.agent>> \in Ids(log[c.iid])
<1>1. PICK d \in Commands : \E n \in 1..Steps(d) :
        f.id = Item(d, n).id /\ \A m \in 1..(n-1) : Durable(d, m)
  BY DEF Owed
<1>2. PICK n \in 1..Steps(d) : f.id = Item(d, n).id /\ \A m \in 1..(n-1) : Durable(d, m)
  BY <1>1
<1>3. d.id = c.id
  BY <1>2, IdNamesCommand
<1>4. d = c
  BY <1>3
<1>5. /\ Steps(c) = 2 /\ Item(c, 1).id = <<c.id, Joined, c.agent>>
  BY TransferItems
<1>6. n # 1
  <2> SUFFICES ASSUME n = 1 PROVE FALSE
    OBVIOUS
  <2>1. <<c.id, Left, c.from>> = <<c.id, Joined, c.agent>>
    BY <1>2, <1>4, <1>5
  <2>2. Left = Joined
    BY <2>1
  <2> QED BY <2>2 DEF Left, Joined
<1>7. 1 \in 1..(n-1)
  BY <1>4, <1>5, <1>6
<1>8. Durable(c, 1)
  BY <1>2, <1>4, <1>7
<1> QED BY <1>5, <1>8 DEF Durable

\* Over any number of retries, routers and failures a transfer never revokes the
\* old agent before the new one has joined, provided the facts of earlier
\* incarnations do not: handleParticipation goes on to the second fact only when
\* the first is in the log, and a late append was owed when it was sent.
THEOREM TransferJoinsFirst == TransferHasNoGap /\ Spec => []TransferHasNoGap
<1>1. IInv /\ DelayedOwed /\ TransferHasNoGap /\ [Next]_vars => TransferHasNoGap'
  <2> SUFFICES ASSUME IInv, DelayedOwed, TransferHasNoGap, [Next]_vars,
                      NEW c \in Commands, c.type = "participant.transfer",
                      \A d \in Commands : d.id = c.id => d = c,
                      NEW k \in DOMAIN log'[c.iid], log'[c.iid][k].id = <<c.id, Left, c.from>>
               PROVE  \E j \in 1..(k-1) : log'[c.iid][j].id = <<c.id, Joined, c.agent>>
    BY DEF TransferHasNoGap
  <2>1. BrokerStep /\ LogOK /\ c.iid \in Iids /\ log \in [Iids -> Seq(Facts)]
    BY LogStep, ConstantsOK DEF IInv, LogOK, LogInv
  <2> PICK s : s = log[c.iid]
    OBVIOUS
  <2>2. s \in Seq(Facts) /\ Len(s) \in Nat /\ DOMAIN s = 1..Len(s)
    BY <2>1
  <2>3. CASE k \in DOMAIN s /\ \A j \in DOMAIN s : log'[c.iid][j] = s[j]
    <3>1. s[k].id = <<c.id, Left, c.from>>
      BY <2>3
    <3>2. PICK j \in 1..(k-1) : s[j].id = <<c.id, Joined, c.agent>>
      BY <2>3, <3>1 DEF TransferHasNoGap
    <3>3. j \in DOMAIN s
      BY <2>2, <2>3
    <3> QED BY <2>3, <3>2, <3>3
  <2>4. ASSUME NEW i, NEW f, Takes(i, f), k \notin DOMAIN s
        PROVE  \E j \in 1..(k-1) : log'[c.iid][j].id = <<c.id, Joined, c.agent>>
    <3>1. i = c.iid
      BY <2>1, <2>4, TakenLog
    <3>2. /\ DOMAIN log'[c.iid] = 1..(Len(s) + 1) /\ log'[c.iid][Len(s) + 1] = f
          /\ \A j \in DOMAIN s : log'[c.iid][j] = s[j]
      BY <2>1, <2>4, <3>1, TakenLog
    <3>3. k = Len(s) + 1
      BY <2>2, <2>4, <3>2
    <3>4. f.id = <<c.id, Left, c.from>> /\ Owed(i, f)
      BY <2>4, <3>2, <3>3 DEF Takes
    <3>5. <<c.id, Joined, c.agent>> \in Ids(s)
      BY <3>4, LeaveIsOwedAfterJoin
    <3>6. PICK j \in DOMAIN s : s[j].id = <<c.id, Joined, c.agent>>
      BY <3>5 DEF Ids
    <3>7. j \in 1..(k-1)
      BY <2>2, <3>3
    <3> QED BY <3>2, <3>6, <3>7
  <2>5. ASSUME NEW i, NEW f, Takes(i, f) PROVE \A j \in DOMAIN s : log'[c.iid][j] = s[j]
    BY <2>1, <2>5, TakenLog
  <2> QED BY <2>1, <2>3, <2>4, <2>5 DEF BrokerStep
<1> QED BY <1>1, AppendsAreOwed, PTL DEF Spec

\* The dedup window covers the log.
DedupComplete == \A i \in Iids : \A k \in DOMAIN log[i] : <<i, log[i][k].id>> \in dedup

LEMMA DedupInitial == Init => DedupComplete
<1> SUFFICES ASSUME Init, NEW i \in Iids, NEW k \in DOMAIN log[i] PROVE <<i, log[i][k].id>> \in dedup
  BY DEF DedupComplete
<1>1. log = InitialLog
  BY DEF Init
<1>2. <<i, InitialLog[i][k].id>> \in {<<i, InitialLog[i][h].id>> : h \in DOMAIN InitialLog[i]}
  BY <1>1
<1> QED BY <1>1, <1>2 DEF Init

\* Ids of the log are distinct while the dedup window covers it.
LEMMA OnceStep ==
  ASSUME IInv, DelayedOwed, ~DedupExpires, DedupComplete, ExactlyOnce, [Next]_vars
  PROVE  DedupComplete' /\ ExactlyOnce'
<1>1. BrokerStep /\ LogOK
  BY LogStep DEF IInv
<1>2. CASE log' = log /\ dedup' = dedup
  <2>1. DedupComplete' /\ ExactlyOnce'
    BY <1>2 DEF DedupComplete, ExactlyOnce
  <2> QED BY <2>1
<1>3. ASSUME NEW i, NEW f, Takes(i, f) PROVE DedupComplete' /\ ExactlyOnce'
  <2> PICK n : n = Len(log[i])
    OBVIOUS
  <2>1. /\ i \in Iids /\ n \in Nat /\ DOMAIN log[i] = 1..n /\ DOMAIN log'[i] = 1..(n + 1)
        /\ log'[i][n + 1] = f
        /\ \A k \in DOMAIN log[i] : log'[i][k] = log[i][k]
        /\ \A j \in Iids : j # i => log'[j] = log[j]
    BY <1>1, <1>3, TakenLog
  <2>2. dedup' = dedup \union {<<i, f.id>>} /\ <<i, f.id>> \notin dedup
    BY <1>3 DEF Takes, Commit
  <2>3. \A k \in DOMAIN log'[i] : k \in DOMAIN log[i] \/ k = n + 1
    BY <2>1
  <2>4. DedupComplete'
    <3>1. ASSUME NEW j \in Iids, NEW k \in DOMAIN log'[j], j # i PROVE <<j, log'[j][k].id>> \in dedup'
      BY <2>1, <2>2, <3>1 DEF DedupComplete
    <3>2. ASSUME NEW k \in DOMAIN log'[i] PROVE <<i, log'[i][k].id>> \in dedup'
      BY <2>1, <2>2, <2>3, <3>2 DEF DedupComplete
    <3>3. \A j \in Iids : \A k \in DOMAIN log'[j] : <<j, log'[j][k].id>> \in dedup'
      BY <3>1, <3>2
    <3> QED BY <3>3, Zenon DEF DedupComplete
  <2>5. \A k \in DOMAIN log[i] : log[i][k].id # f.id
    BY <2>1, <2>2 DEF DedupComplete
  <2>6. ExactlyOnce'
    <3> SUFFICES ASSUME NEW j \in Iids, NEW g \in DOMAIN log'[j], NEW h \in DOMAIN log'[j],
                        log'[j][g].id = log'[j][h].id
                 PROVE  g = h
      BY DEF ExactlyOnce
    <3>1. CASE j # i
      BY <2>1, <3>1 DEF ExactlyOnce
    <3>2. CASE j = i /\ g \in DOMAIN log[i] /\ h \in DOMAIN log[i]
      BY <2>1, <3>2 DEF ExactlyOnce
    <3>3. CASE j = i /\ ~(g \in DOMAIN log[i] /\ h \in DOMAIN log[i])
      BY <2>1, <2>3, <2>5, <3>3
    <3> QED BY <3>1, <3>2, <3>3
  <2> QED BY <2>4, <2>6
<1> QED BY <1>1, <1>2, <1>3 DEF BrokerStep

LEMMA OnceInvariance == ~DedupExpires /\ ExactlyOnce /\ Spec => [](ExactlyOnce /\ DedupComplete)
<1> SUFFICES ASSUME ~DedupExpires PROVE ExactlyOnce /\ Spec => [](ExactlyOnce /\ DedupComplete)
  OBVIOUS
<1>1. IInv /\ DelayedOwed /\ DedupComplete /\ ExactlyOnce /\ [Next]_vars => DedupComplete' /\ ExactlyOnce'
  BY OnceStep
<1> QED BY <1>1, DedupInitial, AppendsAreOwed, PTL DEF Spec

\* No command id has two facts while facts stay within the broker's dedup window,
\* provided those of earlier incarnations have not: whatever the routers' caches
\* forget, the message id of Append decides.
THEOREM NoIdTwice == ~DedupExpires /\ ExactlyOnce /\ Spec => []ExactlyOnce
BY OnceInvariance, PTL

-----------------------------------------------------------------------------
(* The write plane implements InteractionLog. *)

\* The folds of the abstract log are those of the log.
LEMMA AbsFolds ==
  /\ \A s : Abs!StatusOf(s) = StatusOf(s)
  /\ \A st, type : Abs!LegalTransition(st, type) <=> LegalTransition(st, type)
  /\ \A s : Abs!Ids(s) = Ids(s)
<1>1. \A s : Abs!StatusOf(s) = StatusOf(s)
  BY DEF Abs!StatusOf, Abs!StatusAt, StatusOf, StatusAt, Abs!Started, Abs!Ended, Started, Ended
<1>2. \A st, type : Abs!LegalTransition(st, type) <=> LegalTransition(st, type)
  BY DEF Abs!LegalTransition, LegalTransition, Abs!Started, Started
<1>3. \A s : Abs!Ids(s) = Ids(s)
  BY DEF Abs!Ids, Ids
<1> QED BY <1>1, <1>2, <1>3

\* Leaving out a fact's position, payload and actor changes neither the ids nor
\* the status of a log.
LEMMA ShapeKeeps ==
  ASSUME NEW s \in Seq(Facts)
  PROVE  /\ Ids(Shape(s)) = Ids(s) /\ StatusOf(Shape(s)) = StatusOf(s)
         /\ DOMAIN Shape(s) = DOMAIN s /\ Shape(s) \in Seq({[type |-> f.type, id |-> f.id] : f \in Facts})
         /\ Len(Shape(s)) = Len(s)
<1>1. DOMAIN Shape(s) = DOMAIN s /\ \A k \in DOMAIN s : Shape(s)[k] = [type |-> s[k].type, id |-> s[k].id]
  BY DEF Shape
<1>2. Ids(Shape(s)) = Ids(s)
  BY <1>1 DEF Ids
<1>3. \A k \in DOMAIN s : Shape(s)[k].type = s[k].type
  BY <1>1
<1>4. StatusOf(Shape(s)) = StatusOf(s)
  BY <1>1, <1>3, StatusAtCongruence DEF StatusOf
<1>5. /\ Shape(s) \in Seq({[type |-> f.type, id |-> f.id] : f \in Facts})
      /\ Len(Shape(s)) = Len(s)
  <2>1. DOMAIN s = 1..Len(s) /\ Len(s) \in Nat /\ \A k \in 1..Len(s) : s[k] \in Facts
    OBVIOUS
  <2>2. Shape(s) = [k \in 1..Len(s) |-> [type |-> s[k].type, id |-> s[k].id]]
    BY <2>1 DEF Shape
  <2>3. \A k \in 1..Len(s) : [type |-> s[k].type, id |-> s[k].id] \in {[type |-> f.type, id |-> f.id] : f \in Facts}
    BY <2>1
  <2> QED BY <2>1, <2>2, <2>3
<1> QED BY <1>1, <1>2, <1>4, <1>5

LEMMA ShapeAppend ==
  ASSUME NEW s \in Seq(Facts), NEW f \in Facts
  PROVE  Shape(Append(s, f)) = Append(Shape(s), [type |-> f.type, id |-> f.id])
<1> PICK n : n = Len(s)
  OBVIOUS
<1> PICK t : t = Append(s, f)
  OBVIOUS
<1> PICK g : g = [type |-> f.type, id |-> f.id]
  OBVIOUS
<1> PICK u : u = Shape(s)
  OBVIOUS
<1>1. n \in Nat /\ DOMAIN s = 1..n /\ DOMAIN t = 1..(n + 1) /\ t[n + 1] = f /\ \A k \in 1..n : t[k] = s[k]
  OBVIOUS
<1>2. u \in Seq({[type |-> h.type, id |-> h.id] : h \in Facts}) /\ Len(u) = n
  BY ShapeKeeps
<1>3. g \in {[type |-> h.type, id |-> h.id] : h \in Facts}
  OBVIOUS
<1>4. \A k \in 1..n : u[k] = [type |-> s[k].type, id |-> s[k].id]
  BY <1>1 DEF Shape
<1>5. Append(u, g) = [k \in 1..(n + 1) |-> IF k = n + 1 THEN g ELSE u[k]]
  BY <1>1, <1>2, <1>3
<1>6. \A k \in 1..(n + 1) : [type |-> t[k].type, id |-> t[k].id] = IF k = n + 1 THEN g ELSE u[k]
  <2> SUFFICES ASSUME NEW k \in 1..(n + 1)
               PROVE  [type |-> t[k].type, id |-> t[k].id] = IF k = n + 1 THEN g ELSE u[k]
    OBVIOUS
  <2>1. CASE k = n + 1
    BY <1>1, <2>1
  <2>2. CASE k # n + 1
    <3>1. k \in 1..n
      BY <1>1, <2>2
    <3> QED BY <1>1, <1>4, <2>2, <3>1
  <2> QED BY <2>1, <2>2
<1>7. Shape(t) = [k \in 1..(n + 1) |-> [type |-> t[k].type, id |-> t[k].id]]
  BY <1>1 DEF Shape
<1>8. Shape(t) = Append(u, g)
  BY <1>5, <1>6, <1>7
<1> QED BY <1>8

\* One command at most is answered in a step.
LEMMA AcceptStep ==
  ASSUME IInv, [Next]_vars
  PROVE  accepted' = accepted \/ \E c \in Commands : accepted' = accepted \union {c}
<1>1. ASSUME NEW w \in Workers, Work(w) PROVE accepted' = accepted \/ accepted' = accepted \union {cmd[w]}
  BY <1>1 DEF Work, GetCached, GetRebuilt, GetFails, CheckParents, RejectPoisoned, AnswerStored,
     RejectNonMember, RejectIllegal, AppendCommits, AppendConflicts, AppendDuplicates, AppendErrs,
     Refold, Reconcile, ReconcileDup, FinishParticipation, Hold, Goto, Settle, NextFact, Reply
<1>2. ASSUME NEW w \in Workers, Work(w) PROVE pc[w] # "idle"
  BY <1>2 DEF Work, GetCached, GetRebuilt, GetFails, CheckParents, RejectPoisoned, AnswerStored,
     RejectNonMember, RejectIllegal, AppendCommits, AppendConflicts, AppendDuplicates, AppendErrs,
     Refold, Reconcile, ReconcileDup, FinishParticipation, Ready, AtLoopHead
<1>3. ASSUME NEW w \in Workers, pc[w] # "idle" PROVE cmd[w] \in Commands
  BY <1>3 DEF IInv, ControlOK, WorkerOK
<1>4. ASSUME NEW w \in Workers, NEW c \in Commands, Receive(w, c) PROVE accepted' = accepted
  BY <1>4 DEF Receive
<1>5. ASSUME NEW d \in delayed, LateAppend(d) PROVE accepted' = accepted
  BY <1>5 DEF LateAppend, workerVars
<1>6. ASSUME NEW r \in Routers, Crash(r) PROVE accepted' = accepted
  BY <1>6 DEF Crash
<1>7. DedupExpiry => accepted' = accepted
  BY DEF DedupExpiry, workerVars
<1>8. UNCHANGED vars => accepted' = accepted
  BY DEF vars
<1> QED BY <1>1, <1>2, <1>3, <1>4, <1>5, <1>6, <1>7, <1>8 DEF Next

\* A fact the broker takes is one more fact of a command in the abstract log.
LEMMA TakenIsAppendFact ==
  ASSUME IInv, IInv', DedupComplete, NEW i, NEW f, Takes(i, f)
  PROVE  \E c \in Commands : \E g \in FactsOf(c) : Abs!AppendFact(c, g)
<1> PICK s : s = log[i]
  OBVIOUS
<1> PICK n : n = Len(s)
  OBVIOUS
<1> PICK g : g = [type |-> f.type, id |-> f.id]
  OBVIOUS
<1>1. /\ i \in Iids /\ s \in Seq(Facts) /\ n \in Nat /\ DOMAIN s = 1..n
      /\ log'[i] = Append(s, f) /\ DOMAIN log'[i] = 1..(n + 1) /\ log'[i][n + 1] = f
      /\ \A k \in DOMAIN s : log'[i][k] = s[k]
      /\ \A j \in Iids : j # i => log'[j] = log[j]
      /\ f \in Facts
  BY TakenLog DEF IInv, Takes, Facts
<1>2. PICK c \in Commands : \E m \in 1..Steps(c) :
        i = c.iid /\ f.id = Item(c, m).id /\ f.type = Item(c, m).type
  BY DEF Takes, Owed
<1>3. PICK m \in 1..Steps(c) : i = c.iid /\ f.id = Item(c, m).id /\ f.type = Item(c, m).type
  BY <1>2
<1>4. g \in FactsOf(c) /\ IidOf(c) = i
  BY <1>3 DEF FactsOf, IidOf
<1>5. LegalTransition(StatusOf(s), f.type)
  <2>1. n + 1 \in DOMAIN log'[i] /\ 1..((n + 1) - 1) = DOMAIN s
    BY <1>1
  <2>2. LegalTransition(StatusAt(log'[i], 1..((n + 1) - 1)), log'[i][n + 1].type)
    BY <1>1, <2>1 DEF IInv, LogOK, LogInv
  <2>3. StatusAt(log'[i], DOMAIN s) = StatusAt(s, DOMAIN s)
    <3>1. \A k \in DOMAIN s : log'[i][k].type = s[k].type
      BY <1>1
    <3> QED BY <3>1, StatusAtCongruence
  <2> QED BY <1>1, <2>1, <2>2, <2>3 DEF StatusOf
<1>6. f.id \notin Ids(s)
  BY <1>1 DEF DedupComplete, Takes, Ids
<1> PICK F : F = [j \in Iids |-> Shape(log[j])]
  OBVIOUS
<1> PICK G : G = [j \in Iids |-> Shape(log'[j])]
  OBVIOUS
<1>7. F[i] = Shape(s) /\ G[i] = Append(Shape(s), g)
  BY <1>1, ShapeAppend
<1>8. G = [F EXCEPT ![i] = Append(F[i], g)]
  <2> PICK u : u = Append(F[i], g)
    OBVIOUS
  <2>1. F = [j \in Iids |-> F[j]] /\ G = [j \in Iids |-> G[j]] /\ G[i] = u
    BY <1>7
  <2>2. \A j \in Iids : j # i => G[j] = F[j]
    BY <1>1
  <2>3. [F EXCEPT ![i] = u] = [j \in Iids |-> IF j = i THEN u ELSE F[j]]
    BY <2>1
  <2>4. \A j \in Iids : G[j] = IF j = i THEN u ELSE F[j]
    BY <2>1, <2>2
  <2>5. G = [j \in Iids |-> IF j = i THEN u ELSE F[j]]
    BY <2>1, <2>4
  <2> QED BY <2>3, <2>5
<1>9. LegalTransition(StatusOf(F[i]), g.type) /\ g.id \notin Ids(F[i])
  BY <1>1, <1>5, <1>6, <1>7, ShapeKeeps
<1>10. Abs!AppendFact(c, g)
  BY <1>4, <1>8, <1>9, AbsFolds DEF Abs!AppendFact
<1> QED BY <1>4, <1>10

\* An answer "accepted" is given for what is in the log.
LEMMA AnswerIsAccept ==
  ASSUME IInv', NEW c \in Commands, accepted' = accepted \union {c}
  PROVE  Abs!Accept(c)
<1>1. c.iid \in Iids
  BY ConstantsOK
<1>2. SubIds(c) \subseteq Ids(log'[c.iid]) /\ log'[c.iid] \in Seq(Facts)
  BY <1>1 DEF IInv, ControlOK, AcceptedIsDurable, LogOK, LogInv
<1>3. \A f \in FactsOf(c) : f.id \in SubIds(c)
  <2> TAKE f \in FactsOf(c)
  <2>1. PICK n \in 1..Steps(c) : f = [type |-> Item(c, n).type, id |-> Item(c, n).id]
    BY DEF FactsOf
  <2>2. f.id = Item(c, n).id
    BY <2>1
  <2> QED BY <2>2 DEF SubIds
<1> PICK G : G = [j \in Iids |-> Shape(log'[j])]
  OBVIOUS
<1>4. Ids(G[c.iid]) = Ids(log'[c.iid])
  BY <1>1, <1>2, ShapeKeeps
<1>5. {f.id : f \in FactsOf(c)} \subseteq Ids(G[IidOf(c)])
  BY <1>2, <1>3, <1>4 DEF IidOf
<1> QED BY <1>5, AbsFolds DEF Abs!Accept

LEMMA AbsStep ==
  ASSUME IInv, IInv', DelayedOwed, DedupComplete, [Next]_vars
  PROVE  Abs!Next
<1>1. BrokerStep
  BY LogStep
<1>2. \/ UNCHANGED [j \in Iids |-> Shape(log[j])]
      \/ \E c \in Commands : \E f \in FactsOf(c) : Abs!AppendFact(c, f)
  BY <1>1, TakenIsAppendFact DEF BrokerStep
<1>3. accepted' = accepted \/ \E c \in Commands : Abs!Accept(c)
  BY AcceptStep, AnswerIsAccept
<1> QED BY <1>2, <1>3 DEF Abs!Next

\* The write plane keeps the promise of InteractionLog, for every number of
\* routers and workers and every failure of append, replay and process, while
\* facts stay within the dedup window: HandleCommand, handleParticipation and
\* the broker together append legal facts with new ids, one at a time, and an
\* answer "accepted" is given only for what the log holds.
THEOREM WritePlaneRefinesLog == ~DedupExpires /\ ExactlyOnce /\ Spec => ImplementsInteractionLog
<1> SUFFICES ASSUME ~DedupExpires PROVE ExactlyOnce /\ Spec => ImplementsInteractionLog
  OBVIOUS
<1>1. Init => Abs!Init
  BY DEF Init, Abs!Init
<1>2. IInv /\ IInv' /\ DelayedOwed /\ DedupComplete /\ [Next]_vars => [Abs!Next]_Abs!absVars
  BY AbsStep
<1> QED BY <1>1, <1>2, AppendsAreOwed, OnceInvariance, PTL DEF Spec, ImplementsInteractionLog, Abs!Spec

-----------------------------------------------------------------------------
(* What a step does to a state object. *)

\* An object whose view of the log does not change: only the poison mark and the
\* bindings of privileged commands may.
SameView(st, s) ==
  /\ st.iid = s.iid /\ st.seq = s.seq /\ st.streamSeq = s.streamSeq
  /\ st.part = s.part /\ st.results = s.results

\* The result a worker puts on record for the item it appends.
ResultOf(w, ok) == [id |-> Item(cmd[w], step[w]).id, hash |-> Item(cmd[w], step[w]).hash, ok |-> ok]

\* Folded from the whole log: a rebuilt object, or a re-folded one, which keeps
\* its own results, and puts one more on record for a duplicate it has none of.
Refolded(o, st) ==
  LET facts == log[st.iid]
      copy == CopyMissingResults(objs[o].results, FoldResults(facts))
  IN  /\ st.iid \in Iids
      /\ st.seq = LastSeq(facts) /\ st.streamSeq = LastPos(facts)
      /\ st.part = FoldParticipation(facts)
      /\ \/ st.results = FoldResults(facts)
         \/ st.iid = objs[o].iid /\ st.results = copy
         \/ /\ st.iid = objs[o].iid
            /\ \E w \in Workers : /\ pc[w] = "dup" /\ cmd[w].iid = st.iid
                                  /\ ~Has(copy, Item(cmd[w], step[w]).id)
                                  /\ st.results = PutResult(copy, ResultOf(w, TRUE))

\* An illegal transition of an ordinary command, remembered.
Rejected(o, st) ==
  /\ st.iid = objs[o].iid /\ st.seq = objs[o].seq /\ st.streamSeq = objs[o].streamSeq
  /\ st.part = objs[o].part
  /\ \E w \in Workers : /\ pc[w] \in {"ready"} \union Holding /\ ~IsParticipationCommand(cmd[w])
                        /\ st.results = PutResult(objs[o].results, ResultOf(w, FALSE))

\* The item of a worker counted at stream sequence pos.
Counted(w, st, pos) == st = Committed(objs[ref[w]], Item(cmd[w], step[w]), pos)

\* The fact a worker sends to the broker.
FactOf(w) == Fact(Item(cmd[w], step[w]), objs[ref[w]].seq + 1, lastSeq + 1)

\* A sub-fact that the broker knows and the object's cache does not: it is
\* counted once more, at the original's stream sequence.
BlindDuplicate(w) == Ready(w) /\ IsParticipationCommand(cmd[w]) /\ BrokerSays(w) = "dup"

\* A failed append whose id is in the log after all.
FoundLater(w) == pc[w] = "failed" /\ Item(cmd[w], step[w]).id \in Ids(log[cmd[w].iid])

\* ... of which the object takes over sequence and token, not the membership and
\* not the results.
Reconciled(o, st) ==
  /\ st.iid = objs[o].iid
  /\ st.seq = LastSeq(log[st.iid]) /\ st.streamSeq = LastPos(log[st.iid])
  /\ st.part = objs[o].part /\ st.results = objs[o].results

\* All a step can make of object o.
Becomes(o, st) ==
  \/ SameView(st, objs[o])
  \/ st = NoState
  \/ log' = log /\ (Refolded(o, st) \/ Rejected(o, st))
  \/ \E w \in Workers :
       /\ ref[w] = o
       /\ \/ Ready(w) /\ BrokerSays(w) = "commit" /\ Commit(cmd[w].iid, FactOf(w)) /\ Counted(w, st, lastSeq + 1)
          \/ log' = log /\ BlindDuplicate(w) /\ Counted(w, st, OriginalPos(cmd[w].iid, Item(cmd[w], step[w]).id))
          \/ log' = log /\ FoundLater(w) /\ Reconciled(o, st)

ObjStep(o) == Becomes(o, objs'[o])

\* A step that changes one object.
LEMMA OneObjStep ==
  ASSUME IInv, NEW p \in Objs, NEW st, objs' = [objs EXCEPT ![p] = st], Becomes(p, st), NEW o \in Objs
  PROVE  ObjStep(o)
<1>1. objs \in [Objs -> State]
  BY DEF IInv, ObjsOK
<1>2. CASE o = p
  <2>1. objs'[o] = st
    BY <1>1, <1>2
  <2> QED BY <1>2, <2>1 DEF ObjStep
<1>3. CASE o # p
  <2>1. objs'[o] = objs[o]
    BY <1>1, <1>3
  <2> QED BY <2>1 DEF ObjStep, Becomes, SameView
<1> QED BY <1>2, <1>3

\* A step that leaves a worker's object alone.
LEMMA UnchangedObjStep ==
  ASSUME UNCHANGED objs, NEW o \in Objs
  PROVE  ObjStep(o)
BY DEF ObjStep, Becomes, SameView

\* Marking an object poisoned changes nothing else of it.
LEMMA PoisonObjStep ==
  ASSUME IInv, NEW w \in Workers, pc[w] \in {"ready"} \union Holding, Poison(w), NEW o \in Objs
  PROVE  ObjStep(o)
<1> PICK st : st = [objs[ref[w]] EXCEPT !.poisoned = TRUE]
  OBVIOUS
<1>1. ref[w] \in Objs /\ objs[ref[w]] \in State
  BY AtWork
<1>2. SameView(st, objs[ref[w]])
  BY <1>1 DEF State, SameView
<1>3. objs' = [objs EXCEPT ![ref[w]] = st]
  BY DEF Poison
<1>4. Becomes(ref[w], st)
  BY <1>2 DEF Becomes
<1> QED BY <1>1, <1>3, <1>4, OneObjStep

\* A rebuild gives a new object folded from the whole log, and may evict others.
LEMMA GetRebuiltObjStep ==
  ASSUME IInv, NEW w \in Workers, GetRebuilt(w), NEW o \in Objs
  PROVE  ObjStep(o)
<1>1. log' = log /\ objs'[o] \in {Rebuild(cmd[w].iid), NoState, objs[o]}
  BY DEF GetRebuilt, brokerVars
<1>2. cmd[w].iid \in Iids
  BY ConstantsOK DEF GetRebuilt, IInv, ControlOK, WorkerOK
<1>3. CASE objs'[o] = Rebuild(cmd[w].iid)
  <2>1. Refolded(o, objs'[o])
    BY <1>2, <1>3 DEF Rebuild, Refolded
  <2> QED BY <1>1, <2>1 DEF ObjStep, Becomes
<1> QED BY <1>1, <1>3 DEF ObjStep, Becomes, SameView

\* A rejection remembers its result and moves nothing else.
LEMMA RejectIllegalObjStep ==
  ASSUME IInv, NEW w \in Workers, RejectIllegal(w), NEW o \in Objs
  PROVE  ObjStep(o)
<1> PICK st : st = [objs[ref[w]] EXCEPT !.results = PutResult(@, ResultOf(w, FALSE))]
  OBVIOUS
<1>1. pc[w] \in {"ready"} \union Holding /\ log' = log
  BY DEF RejectIllegal, AtLoopHead, Holding, brokerVars
<1>2. ref[w] \in Objs /\ objs[ref[w]] \in State
  BY <1>1, AtWork
<1>3. \/ objs' = objs
      \/ ~IsParticipationCommand(cmd[w]) /\ objs' = [objs EXCEPT ![ref[w]] = st]
  BY DEF RejectIllegal, ResultOf
<1>4. CASE ~IsParticipationCommand(cmd[w])
  <2>1. Rejected(ref[w], st)
    BY <1>1, <1>2, <1>4 DEF State, Rejected
  <2>2. Becomes(ref[w], st)
    BY <1>1, <2>1 DEF Becomes
  <2> QED BY <1>2, <1>3, <2>2, OneObjStep, UnchangedObjStep
<1> QED BY <1>3, <1>4, UnchangedObjStep

\* A committed append counts the fact at the end of the log.
LEMMA AppendCommitsObjStep ==
  ASSUME IInv, NEW w \in Workers, AppendCommits(w), NEW o \in Objs
  PROVE  ObjStep(o)
<1> PICK st : st = Committed(objs[ref[w]], Item(cmd[w], step[w]), lastSeq + 1)
  OBVIOUS
<1>1. /\ Ready(w) /\ BrokerSays(w) = "commit" /\ Commit(cmd[w].iid, FactOf(w))
      /\ objs' = [objs EXCEPT ![ref[w]] = st]
  BY DEF AppendCommits, Record, FactOf
<1>2. ref[w] \in Objs
  BY <1>1, ReadyMeans, AtWork
<1>3. Becomes(ref[w], st)
  BY <1>1 DEF Becomes, Counted
<1> QED BY <1>1, <1>2, <1>3, OneObjStep

\* A duplicate append the router cannot tell from its own counts the item.
LEMMA AppendDuplicatesObjStep ==
  ASSUME IInv, NEW w \in Workers, AppendDuplicates(w), NEW o \in Objs
  PROVE  ObjStep(o)
<1> PICK st : st = Committed(objs[ref[w]], Item(cmd[w], step[w]),
                             OriginalPos(cmd[w].iid, Item(cmd[w], step[w]).id))
  OBVIOUS
<1>1. /\ Ready(w) /\ log' = log
      /\ objs' = objs \/ (BlindDuplicate(w) /\ objs' = [objs EXCEPT ![ref[w]] = st])
  BY DEF AppendDuplicates, Record, BlindDuplicate, brokerVars
<1>2. ref[w] \in Objs
  BY <1>1, ReadyMeans, AtWork
<1>3. BlindDuplicate(w) => Becomes(ref[w], st)
  BY <1>1 DEF Becomes, Counted
<1> QED BY <1>1, <1>2, <1>3, OneObjStep, UnchangedObjStep

\* A re-fold gives an object folded from the whole log.
LEMMA RefreshRefolds ==
  ASSUME IInv, NEW w \in Workers, pc[w] \in {"ready"} \union Holding,
         NEW st, st = Refresh(objs[ref[w]], Rebuild(cmd[w].iid))
  PROVE  /\ Refolded(ref[w], st) /\ st.iid = cmd[w].iid
         /\ st.results = CopyMissingResults(objs[ref[w]].results, FoldResults(log[cmd[w].iid]))
         /\ DOMAIN st = {"iid", "seq", "streamSeq", "status", "results", "part", "parents", "poisoned"}
<1>1. cmd[w].iid \in Iids /\ objs[ref[w]].iid = cmd[w].iid
  BY AtWork
<1>2. /\ st.iid = cmd[w].iid /\ st.seq = LastSeq(log[cmd[w].iid])
      /\ st.streamSeq = LastPos(log[cmd[w].iid]) /\ st.part = FoldParticipation(log[cmd[w].iid])
      /\ st.results = CopyMissingResults(objs[ref[w]].results, FoldResults(log[cmd[w].iid]))
      /\ DOMAIN st = {"iid", "seq", "streamSeq", "status", "results", "part", "parents", "poisoned"}
  BY DEF Refresh, Rebuild
<1> QED BY <1>1, <1>2 DEF Refolded

\* A re-fold keeps the object's own results over the log's.
LEMMA RefoldObjStep ==
  ASSUME IInv, NEW w \in Workers, Refold(w), NEW o \in Objs
  PROVE  ObjStep(o)
<1> PICK st : st = Refresh(objs[ref[w]], Rebuild(cmd[w].iid))
  OBVIOUS
<1>1. pc[w] \in {"ready"} \union Holding /\ log' = log
  BY DEF Refold, Holding, brokerVars
<1>2. Poison(w) \/ objs' = [objs EXCEPT ![ref[w]] = st]
  BY DEF Refold
<1>3. ref[w] \in Objs /\ Becomes(ref[w], st)
  BY <1>1, AtWork, RefreshRefolds DEF Becomes
<1> QED BY <1>1, <1>2, <1>3, PoisonObjStep, OneObjStep

\* A reconcile after a failed append: the item found and counted, or the log re-folded.
LEMMA ReconcileObjStep ==
  ASSUME IInv, NEW w \in Workers, Reconcile(w), NEW o \in Objs
  PROVE  ObjStep(o)
<1> PICK fresh : fresh = Rebuild(cmd[w].iid)
  OBVIOUS
<1> PICK st : st = [objs[ref[w]] EXCEPT !.seq = fresh.seq, !.streamSeq = fresh.streamSeq,
                                        !.status = fresh.status]
  OBVIOUS
<1>1. pc[w] = "failed" /\ pc[w] \in {"ready"} \union Holding /\ log' = log
  BY DEF Reconcile, Holding, brokerVars
<1>2. /\ ref[w] \in Objs /\ objs[ref[w]] \in State /\ objs[ref[w]].iid = cmd[w].iid
      /\ objs \in [Objs -> State] /\ cmd[w].iid \in Iids
  BY <1>1, AtWork DEF IInv, ObjsOK
<1>3. \/ Poison(w)
      \/ /\ Has(fresh.results, Item(cmd[w], step[w]).id)
         /\ objs' = [objs EXCEPT ![ref[w]].seq = fresh.seq, ![ref[w]].streamSeq = fresh.streamSeq,
                                 ![ref[w]].status = fresh.status]
  BY DEF Reconcile
<1>4. /\ fresh.streamSeq = LastPos(log[cmd[w].iid]) /\ fresh.seq = LastSeq(log[cmd[w].iid])
      /\ fresh.results = FoldResults(log[cmd[w].iid])
  BY DEF Rebuild
<1>5. Reconciled(ref[w], st)
  BY <1>2, <1>4 DEF State, Reconciled
<1>6. Poison(w) \/ objs' = [objs EXCEPT ![ref[w]] = st]
  BY <1>2, <1>3 DEF State
<1>7. Has(fresh.results, Item(cmd[w], step[w]).id) => FoundLater(w)
  <2>1. log[cmd[w].iid] \in Seq(Facts)
    BY <1>2 DEF IInv, LogOK, LogInv
  <2> QED BY <1>1, <1>4, <2>1, FoldResultsType DEF Has, FoundLater
<1>8. Has(fresh.results, Item(cmd[w], step[w]).id) => Becomes(ref[w], st)
  BY <1>1, <1>5, <1>7 DEF Becomes
<1> QED BY <1>1, <1>2, <1>3, <1>6, <1>8, PoisonObjStep, OneObjStep

\* A duplicate of an ordinary command: the log re-folded, a result put if none is there.
LEMMA ReconcileDupObjStep ==
  ASSUME IInv, NEW w \in Workers, ReconcileDup(w), NEW o \in Objs
  PROVE  ObjStep(o)
<1> PICK st : st = Refresh(objs[ref[w]], Rebuild(cmd[w].iid))
  OBVIOUS
<1> PICK st2 : st2 = [st EXCEPT !.results = PutResult(@, ResultOf(w, TRUE))]
  OBVIOUS
<1>1. pc[w] = "dup" /\ pc[w] \in {"ready"} \union Holding /\ log' = log
  BY DEF ReconcileDup, Holding, brokerVars
<1>2. \/ Poison(w)
      \/ objs' = [objs EXCEPT ![ref[w]] = st]
      \/ ~Has(st.results, Item(cmd[w], step[w]).id) /\ objs' = [objs EXCEPT ![ref[w]] = st2]
  BY DEF ReconcileDup, ResultOf
<1>3. ref[w] \in Objs /\ objs[ref[w]].iid = cmd[w].iid
  BY <1>1, AtWork
<1>4. /\ Refolded(ref[w], st) /\ st.iid = cmd[w].iid
      /\ st.results = CopyMissingResults(objs[ref[w]].results, FoldResults(log[cmd[w].iid]))
      /\ DOMAIN st = {"iid", "seq", "streamSeq", "status", "results", "part", "parents", "poisoned"}
  BY <1>1, RefreshRefolds
<1>5. /\ st2.iid = st.iid /\ st2.seq = st.seq /\ st2.streamSeq = st.streamSeq /\ st2.part = st.part
      /\ st2.results = PutResult(st.results, ResultOf(w, TRUE))
  BY <1>4
<1>6. ~Has(st.results, Item(cmd[w], step[w]).id) => Refolded(ref[w], st2)
  BY <1>1, <1>3, <1>4, <1>5 DEF Refolded
<1>7. /\ Becomes(ref[w], st)
      /\ ~Has(st.results, Item(cmd[w], step[w]).id) => Becomes(ref[w], st2)
  BY <1>1, <1>4, <1>6 DEF Becomes
<1> QED BY <1>1, <1>2, <1>3, <1>7, PoisonObjStep, OneObjStep

\* A finished participation command records its sub-facts and nothing else.
LEMMA FinishObjStep ==
  ASSUME IInv, NEW w \in Workers, FinishParticipation(w), NEW o \in Objs
  PROVE  ObjStep(o)
<1> PICK P : P = {<<cmd[w].id, s>> : s \in SubIds(cmd[w])}
  OBVIOUS
<1> PICK st : st = [objs[root[w]] EXCEPT !.parents = @ \union P]
  OBVIOUS
<1>1. root[w] \in Objs
  BY DEF FinishParticipation, IInv, ControlOK, WorkerOK
<1>2. SameView(st, objs[root[w]])
  BY <1>1 DEF IInv, ObjsOK, State, SameView
<1>3. objs' = [objs EXCEPT ![root[w]] = st]
  BY DEF FinishParticipation
<1>4. Becomes(root[w], st)
  BY <1>2 DEF Becomes
<1> QED BY <1>1, <1>3, <1>4, OneObjStep

\* The objects move in no other way.
LEMMA ObjectStep ==
  ASSUME IInv, [Next]_vars, NEW o \in Objs
  PROVE  ObjStep(o)
<1>1. CASE UNCHANGED objs
  BY <1>1, UnchangedObjStep
<1>2. ASSUME NEW w \in Workers, AppendErrs(w) PROVE ObjStep(o)
  <2>1. Ready(w) /\ (Poison(w) \/ UNCHANGED objs)
    BY <1>2 DEF AppendErrs
  <2> QED BY <1>1, <2>1, ReadyMeans, PoisonObjStep
<1>3. ASSUME NEW w \in Workers, Work(w) PROVE ObjStep(o)
  <2>1. ASSUME \/ GetCached(w) \/ GetFails(w) \/ CheckParents(w) \/ RejectPoisoned(w)
               \/ AnswerStored(w) \/ RejectNonMember(w) \/ AppendConflicts(w)
        PROVE  UNCHANGED objs
    BY <2>1 DEF GetCached, GetFails, CheckParents, RejectPoisoned, AnswerStored, RejectNonMember,
       AppendConflicts
  <2> QED BY <1>1, <1>2, <1>3, <2>1, GetRebuiltObjStep, RejectIllegalObjStep, AppendCommitsObjStep,
          AppendDuplicatesObjStep, RefoldObjStep, ReconcileObjStep, ReconcileDupObjStep, FinishObjStep
          DEF Work
<1>4. ASSUME NEW w \in Workers, NEW c \in Commands, Receive(w, c) PROVE UNCHANGED objs
  BY <1>4 DEF Receive
<1>5. ASSUME NEW d \in delayed, LateAppend(d) PROVE UNCHANGED objs
  BY <1>5 DEF LateAppend
<1>6. ASSUME NEW r \in Routers, Crash(r) PROVE UNCHANGED objs
  BY <1>6 DEF Crash
<1>7. DedupExpiry => UNCHANGED objs
  BY DEF DedupExpiry
<1>8. UNCHANGED vars => UNCHANGED objs
  BY DEF vars
<1> QED BY <1>1, <1>3, <1>4, <1>5, <1>6, <1>7, <1>8 DEF Next

\* A recorded item moves the count, the token, the membership and the results.
LEMMA CountedFields ==
  ASSUME IInv, NEW w \in Workers, pc[w] \in {"ready"} \union Holding, NEW st, NEW pos, Counted(w, st, pos)
  PROVE  /\ st.iid = cmd[w].iid /\ st.seq = objs[ref[w]].seq + 1 /\ st.streamSeq = pos
         /\ st.part = ApplyFact(objs[ref[w]].part, Item(cmd[w], step[w]))
         /\ st.results = PutResult(objs[ref[w]].results, ResultOf(w, TRUE))
<1>1. objs[ref[w]] \in State /\ objs[ref[w]].iid = cmd[w].iid
  BY AtWork
<1> QED BY <1>1 DEF Counted, Committed, State, ResultOf

\* An append the broker takes from a worker, or from a delayed one.
TakenFrom(i, f) ==
  \/ \E w \in Workers : /\ Ready(w) /\ BrokerSays(w) = "commit"
                        /\ i = cmd[w].iid /\ f = FactOf(w)
  \/ \E d \in delayed : /\ LastPos(log[d.iid]) = d.expected
                        /\ i = d.iid /\ f = [d.fact EXCEPT !.pos = lastSeq + 1]

\* An append that a worker leaves behind.
LeftBehind(d) ==
  \E w \in Workers : /\ Ready(w)
                     /\ d = [iid |-> cmd[w].iid, expected |-> objs[ref[w]].streamSeq, fact |-> FactOf(w)]

LogMoves ==
  /\ log' = log \/ \E i, f : Takes(i, f) /\ f.pos = lastSeq + 1 /\ TakenFrom(i, f)
  /\ \A d \in delayed' : d \in delayed \/ (log' = log /\ LeftBehind(d))

\* The log changes only by a commit or by a late append.
LEMMA LogMovesStep ==
  ASSUME IInv, DelayedOwed, [Next]_vars
  PROVE  LogMoves
<1>1. CASE UNCHANGED brokerVars
  BY <1>1 DEF LogMoves, brokerVars
<1>2. ASSUME NEW w \in Workers, AppendCommits(w) PROVE LogMoves
  <2> PICK f : f = FactOf(w)
    OBVIOUS
  <2>1. Ready(w) /\ BrokerSays(w) = "commit" /\ Commit(cmd[w].iid, f) /\ delayed' = delayed
    BY <1>2 DEF AppendCommits, FactOf
  <2>2. Takes(cmd[w].iid, f) /\ f.pos = lastSeq + 1
    BY <2>1, WorkerTakes, ReadyMeans, AppendedFact DEF FactOf
  <2> QED BY <2>1, <2>2 DEF LogMoves, TakenFrom
<1>3. ASSUME NEW w \in Workers, AppendErrs(w) PROVE LogMoves
  <2> PICK f : f = FactOf(w)
    OBVIOUS
  <2> PICK d : d = [iid |-> cmd[w].iid, expected |-> objs[ref[w]].streamSeq, fact |-> f]
    OBVIOUS
  <2>1. /\ Ready(w)
        /\ \/ UNCHANGED brokerVars
           \/ BrokerSays(w) = "commit" /\ Commit(cmd[w].iid, f) /\ delayed' = delayed
           \/ delayed' = delayed \union {d} /\ log' = log
    BY <1>3 DEF AppendErrs, FactOf
  <2>2. CASE BrokerSays(w) = "commit" /\ Commit(cmd[w].iid, f) /\ delayed' = delayed
    <3>1. Takes(cmd[w].iid, f) /\ f.pos = lastSeq + 1
      BY <2>1, <2>2, WorkerTakes, ReadyMeans, AppendedFact DEF FactOf
    <3> QED BY <2>1, <2>2, <3>1 DEF LogMoves, TakenFrom
  <2>3. LeftBehind(d)
    BY <2>1 DEF LeftBehind
  <2>4. CASE delayed' = delayed \union {d} /\ log' = log
    BY <2>3, <2>4 DEF LogMoves
  <2> QED BY <1>1, <2>1, <2>2, <2>4
<1>4. ASSUME NEW d \in delayed, LateAppend(d) PROVE LogMoves
  <2> PICK f : f = [d.fact EXCEPT !.pos = lastSeq + 1]
    OBVIOUS
  <2>1. d.iid \in Iids /\ d.fact \in NewFacts /\ lastSeq + 1 \in Nat \ {0} /\ Owed(d.iid, d.fact)
    BY DEF IInv, DelayedOK, LogOK, LogInv, DelayedOwed
  <2>2. \A e \in delayed' : e \in delayed
    BY <1>4 DEF LateAppend
  <2>3. CASE Outcome(d.iid, d.fact.id, d.expected) = "commit"
    <3>1. Commit(d.iid, f)
      BY <1>4, <2>3 DEF LateAppend
    <3>2. \A g \in NewFacts : \E x \in Items, q \in Nat, p \in Nat \ {0} : g = Fact(x, q, p)
      BY DEF NewFacts
    <3>3. PICK item \in Items, q \in Nat, p \in Nat \ {0} : d.fact = Fact(item, q, p)
      BY <2>1, <3>2
    <3>4. f = Fact(item, q, lastSeq + 1) /\ f.id = d.fact.id /\ f.type = d.fact.type /\ f.pos = lastSeq + 1
      BY <3>3 DEF Fact
    <3>5. f \in NewFacts
      BY <2>1, <3>4 DEF NewFacts
    <3>6. Owed(d.iid, f)
      BY <2>1, <3>4 DEF Owed
    <3>7. <<d.iid, f.id>> \notin dedup /\ LastPos(log[d.iid]) = d.expected
      BY <2>3, <3>4, OutcomeMeans
    <3>8. Takes(d.iid, f)
      BY <2>1, <3>1, <3>5, <3>6, <3>7 DEF Takes
    <3> QED BY <2>2, <3>4, <3>7, <3>8 DEF LogMoves, TakenFrom
  <2>4. CASE Outcome(d.iid, d.fact.id, d.expected) # "commit"
    <3>1. UNCHANGED log
      BY <1>4, <2>4 DEF LateAppend
    <3> QED BY <2>2, <3>1 DEF LogMoves
  <2> QED BY <2>3, <2>4
<1>5. CASE DedupExpiry
  BY <1>5 DEF DedupExpiry, LogMoves
<1>6. ASSUME NEW w \in Workers, Work(w), ~AppendCommits(w), ~AppendErrs(w) PROVE UNCHANGED brokerVars
  BY <1>6 DEF Work, GetCached, GetRebuilt, GetFails, CheckParents, RejectPoisoned, AnswerStored,
     RejectNonMember, RejectIllegal, AppendConflicts, AppendDuplicates, Refold, Reconcile,
     ReconcileDup, FinishParticipation
<1>7. ASSUME NEW w \in Workers, NEW c \in Commands, Receive(w, c) PROVE UNCHANGED brokerVars
  BY <1>7 DEF Receive
<1>8. ASSUME NEW r \in Routers, Crash(r) PROVE UNCHANGED brokerVars
  BY <1>8 DEF Crash
<1>9. UNCHANGED vars => UNCHANGED brokerVars
  BY DEF vars, brokerVars
<1> QED BY <1>1, <1>2, <1>3, <1>4, <1>5, <1>6, <1>7, <1>8, <1>9 DEF Next

-----------------------------------------------------------------------------
(* Objects that are up to date: only those get an append through. *)

Current(o) == LastPos(log[objs[o].iid]) = objs[o].streamSeq
StillExpected(d) == LastPos(log[d.iid]) = d.expected

\* The last position of a log is a stream sequence the broker has given.
LEMMA LastPosType ==
  ASSUME LogOK, NEW i \in Iids
  PROVE  LastPos(log[i]) \in Nat /\ LastPos(log[i]) <= lastSeq /\ (LastPos(log[i]) = 0 => log[i] = <<>>)
<1>1. log[i] \in Seq(Facts)
  BY DEF LogOK, LogInv
<1>2. log[i] # <<>> => Len(log[i]) \in DOMAIN log[i] /\ log[i][Len(log[i])] \in Facts
  BY <1>1
<1>3. log[i] # <<>> => log[i][Len(log[i])].pos \in Nat \ {0} /\ log[i][Len(log[i])].pos <= lastSeq
  BY <1>2, FactType DEF LogOK, LogInv
<1> QED BY <1>3 DEF LastPos, LogOK, LogInv

\* An append moves the last position of its own log only, beyond every token.
LEMMA LastPosMoves ==
  ASSUME LogOK, NEW i, NEW f, Takes(i, f), f.pos = lastSeq + 1, NEW j \in Iids,
         NEW p \in Nat, p <= lastSeq, LastPos(log'[j]) = p
  PROVE  j # i /\ log'[j] = log[j]
<1>1. /\ i \in Iids /\ Len(log[i]) \in Nat /\ DOMAIN log'[i] = 1..(Len(log[i]) + 1)
      /\ log'[i][Len(log[i]) + 1] = f /\ log'[i] = Append(log[i], f) /\ log[i] \in Seq(Facts)
      /\ j # i => log'[j] = log[j]
  BY TakenLog
<1>2. f \in Facts
  BY DEF Takes, Facts
<1>3. log'[i] # <<>> /\ Len(log'[i]) = Len(log[i]) + 1
  BY <1>1, <1>2
<1>4. LastPos(log'[i]) = lastSeq + 1
  BY <1>1, <1>3 DEF LastPos
<1>5. lastSeq \in Nat
  BY DEF LogOK, LogInv
<1>6. ASSUME j = i PROVE FALSE
  <2>1. p = lastSeq + 1
    BY <1>4, <1>6
  <2> QED BY <1>5, <2>1
<1> QED BY <1>1, <1>6

\* An object that is up to date after a step was so before and has seen nothing
\* new, or has just been folded from the log, or has taken over a sequence and a
\* token without the fold.
CurrentCase(o) ==
  LET st == objs'[o]
      facts == log[st.iid]
  IN  \/ st.iid = objs[o].iid /\ log'[st.iid] = facts /\ Current(o) /\ SameView(st, objs[o])
      \/ st = NoState /\ log'[st.iid] = <<>>
      \/ log' = log /\ Refolded(o, st)
      \/ log' = log /\ Current(o) /\ Rejected(o, st)
      \/ \E w \in Workers :
           /\ ref[w] = o /\ st.iid = objs[o].iid
           /\ \/ /\ Ready(w) /\ BrokerSays(w) = "commit" /\ Current(o)
                 /\ log'[st.iid] = Append(facts, FactOf(w)) /\ Counted(w, st, lastSeq + 1)
              \/ /\ log' = log /\ BlindDuplicate(w)
                 /\ Counted(w, st, OriginalPos(cmd[w].iid, Item(cmd[w], step[w]).id))
              \/ log' = log /\ FoundLater(w) /\ Reconciled(o, st)

\* Where the up-to-date objects of the next state come from.
LEMMA CurrentAfter ==
  ASSUME IInv, IInv', DelayedOwed, [Next]_vars, NEW o \in Objs, Current(o)'
  PROVE  CurrentCase(o)
<1> PICK st : st = objs'[o]
  OBVIOUS
<1>1. ObjStep(o) /\ LogMoves
  BY ObjectStep, LogMovesStep
<1>2. /\ objs[o] \in State /\ Faithful(objs[o], log, lastSeq) /\ objs[o].iid \in Iids
      /\ st \in State /\ st.iid \in Iids /\ LogOK /\ LogOK' /\ objs[o].streamSeq \in Nat
  BY DEF IInv, ObjsOK, State
<1>3. LastPos(log'[st.iid]) = st.streamSeq
  BY DEF Current
<1>4. CASE SameView(st, objs[o])
  <2>1. st.iid = objs[o].iid /\ st.streamSeq = objs[o].streamSeq /\ st.streamSeq <= lastSeq
    BY <1>2, <1>4 DEF SameView, Faithful
  <2>2. log'[st.iid] = log[st.iid]
    <3>1. CASE log' = log
      BY <3>1
    <3>2. ASSUME NEW i, NEW f, Takes(i, f), f.pos = lastSeq + 1 PROVE log'[st.iid] = log[st.iid]
      BY <1>2, <1>3, <2>1, <3>2, LastPosMoves
    <3> QED BY <1>1, <3>1, <3>2 DEF LogMoves
  <2>3. Current(o)
    BY <1>3, <2>1, <2>2 DEF Current
  <2> QED BY <1>4, <2>1, <2>2, <2>3 DEF CurrentCase
<1>5. CASE st = NoState
  <2>1. NoState.streamSeq = 0
    BY DEF NoState
  <2>2. LastPos(log'[st.iid]) = 0
    BY <1>3, <1>5, <2>1
  <2>3. LogOK' => (LastPos(log'[st.iid]) = 0 => log'[st.iid] = <<>>)
    <3>1. LogOK' => log'[st.iid] \in Seq(Facts)
      BY <1>2 DEF LogOK, LogInv
    <3>2. log'[st.iid] \in Seq(Facts) /\ log'[st.iid] # <<>> =>
            /\ LastPos(log'[st.iid]) = log'[st.iid][Len(log'[st.iid])].pos
            /\ log'[st.iid][Len(log'[st.iid])] \in Facts
      BY DEF LastPos
    <3> QED BY <3>1, <3>2, FactType
  <2> QED BY <1>2, <1>5, <2>2, <2>3 DEF CurrentCase
<1>6. CASE log' = log /\ Refolded(o, st)
  BY <1>6 DEF CurrentCase
<1>7. CASE log' = log /\ Rejected(o, st)
  <2>1. Current(o)
    BY <1>3, <1>7 DEF Current, Rejected
  <2> QED BY <1>7, <2>1 DEF CurrentCase
<1>8. ASSUME NEW w \in Workers, ref[w] = o, Ready(w), BrokerSays(w) = "commit",
             Commit(cmd[w].iid, FactOf(w)), Counted(w, st, lastSeq + 1)
      PROVE  CurrentCase(o)
  <2>1. /\ pc[w] \in {"ready"} \union Holding /\ LastPos(log[cmd[w].iid]) = objs[o].streamSeq
    BY <1>8, ReadyMeans
  <2>2. st.iid = cmd[w].iid /\ objs[o].iid = cmd[w].iid
    BY <1>8, <2>1, CountedFields, AtWork
  <2>3. Takes(cmd[w].iid, FactOf(w))
    BY <1>8, WorkerTakes DEF FactOf
  <2>4. log'[cmd[w].iid] = Append(log[cmd[w].iid], FactOf(w))
    BY <1>2, <2>3, TakenLog
  <2>5. Current(o)
    BY <2>1, <2>2 DEF Current
  <2> QED BY <1>8, <2>2, <2>4, <2>5 DEF CurrentCase
<1>9. ASSUME NEW w \in Workers, ref[w] = o, log' = log, BlindDuplicate(w),
             Counted(w, st, OriginalPos(cmd[w].iid, Item(cmd[w], step[w]).id))
      PROVE  CurrentCase(o)
  <2>1. pc[w] \in {"ready"} \union Holding
    BY <1>9, ReadyMeans DEF BlindDuplicate
  <2>2. st.iid = cmd[w].iid /\ objs[o].iid = cmd[w].iid
    BY <1>9, <2>1, CountedFields, AtWork
  <2> QED BY <1>9, <2>2 DEF CurrentCase
<1>10. ASSUME NEW w \in Workers, ref[w] = o, log' = log, FoundLater(w), Reconciled(o, st)
       PROVE  CurrentCase(o)
  BY <1>10 DEF CurrentCase, Reconciled
<1> QED BY <1>1, <1>4, <1>5, <1>6, <1>7, <1>8, <1>9, <1>10 DEF ObjStep, Becomes

\* A delayed append whose expectation still holds after a step held it before,
\* or was left behind just now.
LEMMA ExpectedAfter ==
  ASSUME IInv, DelayedOwed, [Next]_vars, NEW d \in delayed', StillExpected(d)'
  PROVE  \/ d \in delayed /\ StillExpected(d) /\ log'[d.iid] = log[d.iid]
         \/ log' = log /\ \E w \in Workers :
              /\ Ready(w) /\ Current(ref[w])
              /\ d.iid = cmd[w].iid /\ d.fact = FactOf(w)
<1>1. LogMoves /\ LogOK
  BY LogMovesStep DEF IInv
<1>2. LastPos(log'[d.iid]) = d.expected
  BY DEF StillExpected
<1>3. CASE d \in delayed
  <2>1. d.iid \in Iids /\ d.expected \in Nat /\ d.expected <= lastSeq
    BY <1>3 DEF IInv, DelayedOK
  <2>2. log'[d.iid] = log[d.iid]
    <3>1. CASE log' = log
      BY <3>1
    <3>2. ASSUME NEW i, NEW f, Takes(i, f), f.pos = lastSeq + 1 PROVE log'[d.iid] = log[d.iid]
      BY <1>1, <1>2, <2>1, <3>2, LastPosMoves
    <3> QED BY <1>1, <3>1, <3>2 DEF LogMoves
  <2> QED BY <1>2, <1>3, <2>2 DEF StillExpected
<1>4. CASE log' = log /\ LeftBehind(d)
  <2>1. PICK w \in Workers : /\ Ready(w) /\ d.iid = cmd[w].iid /\ d.fact = FactOf(w)
                             /\ d.expected = objs[ref[w]].streamSeq
    BY <1>4 DEF LeftBehind
  <2>2. objs[ref[w]].iid = cmd[w].iid
    BY <2>1, ReadyMeans, AtWork
  <2>3. Current(ref[w])
    BY <1>2, <1>4, <2>1, <2>2 DEF Current
  <2> QED BY <1>4, <2>1, <2>3
<1> QED BY <1>1, <1>3, <1>4 DEF LogMoves

\* What the broker takes comes from an object that is up to date, or from a
\* delayed append whose expectation holds.
LEMMA TakenWhileCurrent ==
  ASSUME IInv, NEW i, NEW f, TakenFrom(i, f)
  PROVE  \/ \E w \in Workers : /\ Ready(w) /\ BrokerSays(w) = "commit" /\ Current(ref[w])
                               /\ ref[w] \in Objs /\ objs[ref[w]].iid = i
                               /\ i = cmd[w].iid /\ f = FactOf(w)
         \/ \E d \in delayed : /\ StillExpected(d) /\ i = d.iid
                               /\ f.id = d.fact.id /\ f.hash = d.fact.hash /\ f.seq = d.fact.seq
                               /\ f.type = d.fact.type /\ f.actor = d.fact.actor
<1>1. ASSUME NEW w \in Workers, Ready(w), BrokerSays(w) = "commit", i = cmd[w].iid, f = FactOf(w)
      PROVE  Current(ref[w]) /\ ref[w] \in Objs /\ objs[ref[w]].iid = i
  BY <1>1, ReadyMeans, AtWork DEF Current
<1>2. ASSUME NEW d \in delayed, f = [d.fact EXCEPT !.pos = lastSeq + 1]
      PROVE  /\ f.id = d.fact.id /\ f.hash = d.fact.hash /\ f.seq = d.fact.seq
             /\ f.type = d.fact.type /\ f.actor = d.fact.actor
  <2>1. d.fact \in NewFacts
    BY DEF IInv, DelayedOK
  <2>2. \A g \in NewFacts : \E x \in Items, q \in Nat, p \in Nat \ {0} : g = Fact(x, q, p)
    BY DEF NewFacts
  <2>3. PICK item \in Items, q \in Nat, p \in Nat \ {0} : d.fact = Fact(item, q, p)
    BY <2>1, <2>2
  <2> QED BY <1>2, <2>3 DEF Fact
<1> QED BY <1>1, <1>2 DEF TakenFrom, StillExpected

-----------------------------------------------------------------------------
(* What the OCC token of an object names. *)

\* Stream sequence p is that of a fact of interaction i in log L.
Named(L, i, p) == p # 0 => \E k \in DOMAIN L[i] : L[i][k].pos = p

\* A token that names a fact goes on naming it.
LEMMA NamedStays ==
  ASSUME LogOK, BrokerStep, NEW i \in Iids, NEW p, Named(log, i, p)
  PROVE  Named(log', i, p)
<1>1. CASE log' = log
  BY <1>1 DEF Named
<1>2. ASSUME NEW j, NEW f, Takes(j, f) PROVE Named(log', i, p)
  <2>1. CASE j = i
    <3>1. /\ DOMAIN log[i] \subseteq DOMAIN log'[i]
          /\ \A k \in DOMAIN log[i] : log'[i][k] = log[i][k]
      BY <1>2, <2>1, TakenLog
    <3> QED BY <3>1 DEF Named
  <2>2. CASE j # i
    <3>1. log'[i] = log[i]
      BY <1>2, <2>2, TakenLog
    <3> QED BY <3>1 DEF Named
  <2> QED BY <2>1, <2>2
<1> QED BY <1>1, <1>2 DEF BrokerStep

\* A rebuilt object names the last fact of its log.
LEMMA LastIsNamed ==
  ASSUME LogOK, NEW i \in Iids
  PROVE  Named(log, i, LastPos(log[i]))
<1>1. log[i] \in Seq(Facts)
  BY DEF LogOK, LogInv
<1>2. log[i] # <<>> => Len(log[i]) \in DOMAIN log[i]
  BY <1>1
<1> QED BY <1>2 DEF Named, LastPos

\* An object keeps its token, or takes one that names a fact.
LEMMA TokenStep ==
  ASSUME IInv, DelayedOwed, [Next]_vars, NEW o \in Objs
  PROVE  \/ objs'[o].iid = objs[o].iid /\ objs'[o].streamSeq = objs[o].streamSeq
         \/ Named(log', objs'[o].iid, objs'[o].streamSeq)
<1> PICK st : st = objs'[o]
  OBVIOUS
<1>1. Becomes(o, st) /\ LogOK /\ objs[o].iid \in Iids
  BY ObjectStep DEF ObjStep, IInv, ObjsOK, State
<1>2. CASE st = NoState
  <2>1. NoState.streamSeq = 0
    BY DEF NoState
  <2>2. st.streamSeq = 0
    BY <1>2, <2>1
  <2> QED BY <2>2 DEF Named
<1>3. ASSUME log' = log, st.iid \in Iids, st.streamSeq = LastPos(log[st.iid])
      PROVE  Named(log', st.iid, st.streamSeq)
  BY <1>1, <1>3, LastIsNamed DEF Named
<1>4. ASSUME NEW w \in Workers, Ready(w), BrokerSays(w) = "commit", Commit(cmd[w].iid, FactOf(w)),
             Counted(w, st, lastSeq + 1)
      PROVE  Named(log', st.iid, st.streamSeq)
  <2>1. pc[w] \in {"ready"} \union Holding
    BY <1>4, ReadyMeans
  <2>2. st.iid = cmd[w].iid /\ st.streamSeq = lastSeq + 1
    BY <1>4, <2>1, CountedFields
  <2>3. Takes(cmd[w].iid, FactOf(w)) /\ FactOf(w).pos = lastSeq + 1
    BY <1>4, <2>1, WorkerTakes, AppendedFact DEF FactOf
  <2>4. /\ log'[cmd[w].iid][Len(log[cmd[w].iid]) + 1] = FactOf(w)
        /\ Len(log[cmd[w].iid]) + 1 \in DOMAIN log'[cmd[w].iid]
    BY <1>1, <2>3, TakenLog
  <2> QED BY <2>2, <2>3, <2>4 DEF Named
<1>5. ASSUME NEW w \in Workers, log' = log, BlindDuplicate(w),
             Counted(w, st, OriginalPos(cmd[w].iid, Item(cmd[w], step[w]).id))
      PROVE  Named(log', st.iid, st.streamSeq)
  <2> PICK id : id = Item(cmd[w], step[w]).id
    OBVIOUS
  <2>1. pc[w] \in {"ready"} \union Holding /\ BrokerSays(w) = "dup"
    BY <1>5, ReadyMeans DEF BlindDuplicate
  <2>2. st.iid = cmd[w].iid /\ st.streamSeq = OriginalPos(cmd[w].iid, id)
    BY <1>5, <2>1, CountedFields
  <2>3. cmd[w].iid \in Iids /\ <<cmd[w].iid, id>> \in dedup
    BY <2>1, AtWork, OutcomeMeans DEF BrokerSays
  <2>4. \E k \in DOMAIN log[cmd[w].iid] : log[cmd[w].iid][k].pos = OriginalPos(cmd[w].iid, id)
    BY <2>3, OriginalOK
  <2> QED BY <1>5, <2>2, <2>4 DEF Named
<1>6. log' = log /\ Reconciled(o, st) => Named(log', st.iid, st.streamSeq)
  BY <1>1, <1>3 DEF Reconciled
<1>7. log' = log /\ Refolded(o, st) => Named(log', st.iid, st.streamSeq)
  BY <1>3 DEF Refolded
<1>8. SameView(st, objs[o]) \/ Rejected(o, st) => st.iid = objs[o].iid /\ st.streamSeq = objs[o].streamSeq
  BY DEF SameView, Rejected
<1> QED BY <1>1, <1>2, <1>4, <1>5, <1>6, <1>7, <1>8 DEF Becomes

\* The OCC token of every state object, live, evicted or poisoned, is the
\* stream sequence of a fact of its own interaction, whatever was appended,
\* re-folded, found duplicate or left in doubt: getState, reconcile,
\* reconcileDup and appendParticipationFact never invent one.
THEOREM TokensAreNamed == Spec => []TokenNamesFact
<1>1. Init => TokenNamesFact
  <2>1. NoState.streamSeq = 0
    BY DEF NoState
  <2>2. Init => \A o \in Objs : objs[o] = NoState
    BY DEF Init
  <2>3. Init => \A o \in Objs : objs[o].streamSeq = 0
    BY <2>1, <2>2
  <2> QED BY <2>3 DEF TokenNamesFact
<1>2. IInv /\ DelayedOwed /\ TokenNamesFact /\ [Next]_vars => TokenNamesFact'
  <2> SUFFICES ASSUME IInv, DelayedOwed, TokenNamesFact, [Next]_vars, NEW o \in Objs
               PROVE  Named(log', objs'[o].iid, objs'[o].streamSeq)
    BY DEF TokenNamesFact, Named
  <2>1. Named(log, objs[o].iid, objs[o].streamSeq) /\ objs[o].iid \in Iids
    BY DEF TokenNamesFact, Named, IInv, ObjsOK, State
  <2>2. BrokerStep /\ LogOK
    BY LogStep DEF IInv
  <2>3. Named(log', objs[o].iid, objs[o].streamSeq)
    BY <2>1, <2>2, NamedStays
  <2> QED BY <2>3, TokenStep
<1> QED BY <1>1, <1>2, AppendsAreOwed, PTL DEF Spec

-----------------------------------------------------------------------------
(* The numbering of a log. *)

\* The conditions under which a router's count can be trusted.  A stale duplicate
\* is one of a sub-fact on an object that is behind the log.
NoStaleDuplicate == \A w \in Workers : BlindDuplicate(w) => Current(ref[w])
NoBlindDuplicate == \A w \in Workers : ~BlindDuplicate(w)

\* No fact of a log has a number above n.
NumberedTo(facts, n) == \A k \in DOMAIN facts : facts[k].seq <= n

\* An object that is up to date has counted every fact of its log, and an append
\* whose expectation holds carries the next number or a later one.
CountsAll ==
  /\ \A o \in Objs : Current(o) => NumberedTo(log[objs[o].iid], objs[o].seq)
  /\ \A d \in delayed : StillExpected(d) => NumberedTo(log[d.iid], d.fact.seq - 1)

\* The number of the fact a worker sends.
LEMMA FactOfSeq ==
  ASSUME IInv, NEW w \in Workers, Ready(w)
  PROVE  /\ FactOf(w).seq = objs[ref[w]].seq + 1 /\ objs[ref[w]].seq \in Nat
         /\ FactOf(w) \in NewFacts /\ ref[w] \in Objs /\ objs[ref[w]].iid = cmd[w].iid
         /\ cmd[w].iid \in Iids /\ FactOf(w).id = Item(cmd[w], step[w]).id
         /\ FactOf(w).hash = Item(cmd[w], step[w]).hash
         /\ FactOf(w).type = Item(cmd[w], step[w]).type
         /\ FactOf(w).actor = Item(cmd[w], step[w]).actor
<1>1. pc[w] \in {"ready"} \union Holding
  BY ReadyMeans
<1> QED BY <1>1, AtWork, AppendedFact DEF FactOf, Fact, State

\* The largest number of a log of facts.
LEMMA LastSeqOfLog ==
  ASSUME LogOK, NEW i \in Iids
  PROVE  /\ log[i] \in Seq(Facts) /\ \A k \in DOMAIN log[i] : log[i][k].seq \in Nat
         /\ NumberedTo(log[i], LastSeq(log[i]))
<1>1. log[i] \in Seq(Facts)
  BY DEF LogOK, LogInv
<1>2. \A k \in DOMAIN log[i] : log[i][k].seq \in Nat
  BY <1>1, FactType
<1> QED BY <1>1, <1>2, LastSeqIsLargest DEF NumberedTo

\* A fact is appended with a number above all before it.
LEMMA NumberOfTaken ==
  ASSUME IInv, CountsAll, NEW i, NEW f, TakenFrom(i, f)
  PROVE  \A k \in DOMAIN log[i] : log[i][k].seq < f.seq
<1>1. CASE \E w \in Workers : /\ Ready(w) /\ BrokerSays(w) = "commit" /\ Current(ref[w])
                              /\ ref[w] \in Objs /\ objs[ref[w]].iid = i
                              /\ i = cmd[w].iid /\ f = FactOf(w)
  <2>1. PICK w \in Workers : /\ Ready(w) /\ Current(ref[w])
                             /\ ref[w] \in Objs /\ objs[ref[w]].iid = i
                             /\ i = cmd[w].iid /\ f = FactOf(w)
    BY <1>1
  <2>2. NumberedTo(log[i], objs[ref[w]].seq)
    BY <2>1 DEF CountsAll
  <2>3. f.seq = objs[ref[w]].seq + 1 /\ objs[ref[w]].seq \in Nat /\ i \in Iids
    BY <2>1, FactOfSeq
  <2>4. \A k \in DOMAIN log[i] : log[i][k].seq \in Nat
    BY <2>3, LastSeqOfLog DEF IInv
  <2> QED BY <2>2, <2>3, <2>4 DEF NumberedTo
<1>2. CASE \E d \in delayed : StillExpected(d) /\ i = d.iid /\ f.seq = d.fact.seq
  <2>1. PICK d \in delayed : StillExpected(d) /\ i = d.iid /\ f.seq = d.fact.seq
    BY <1>2
  <2>2. i \in Iids /\ d.fact \in Facts
    BY <2>1 DEF IInv, DelayedOK, Facts
  <2>3. f.seq \in Nat /\ \A k \in DOMAIN log[i] : log[i][k].seq \in Nat
    BY <2>1, <2>2, FactType, LastSeqOfLog DEF IInv
  <2>4. NumberedTo(log[i], f.seq - 1)
    BY <2>1 DEF CountsAll
  <2> QED BY <2>3, <2>4 DEF NumberedTo
<1> QED BY <1>1, <1>2, TakenWhileCurrent

\* Every step keeps the counts of the up-to-date objects.
LEMMA CountsAllStep ==
  ASSUME IInv, IInv', DelayedOwed, [Next]_vars, NoStaleDuplicate, CountsAll
  PROVE  CountsAll'
<1>1. ASSUME NEW o \in Objs, Current(o)' PROVE NumberedTo(log'[objs'[o].iid], objs'[o].seq)
  <2> PICK st : st = objs'[o]
    OBVIOUS
  <2>1. CurrentCase(o) /\ LogOK
    BY <1>1, CurrentAfter DEF IInv
  <2>2. Current(o) => NumberedTo(log[objs[o].iid], objs[o].seq)
    BY DEF CountsAll
  <2>3. CASE st.iid = objs[o].iid /\ log'[st.iid] = log[st.iid] /\ Current(o) /\ SameView(st, objs[o])
    BY <2>2, <2>3 DEF SameView
  <2>4. CASE st = NoState /\ log'[st.iid] = <<>>
    BY <2>4 DEF NumberedTo
  <2>5. CASE log' = log /\ Refolded(o, st)
    BY <2>1, <2>5, LastSeqOfLog DEF Refolded
  <2>6. CASE log' = log /\ Current(o) /\ Rejected(o, st)
    BY <2>2, <2>6 DEF Rejected
  <2>7. ASSUME NEW w \in Workers, ref[w] = o, st.iid = objs[o].iid, Ready(w), Current(o),
               log'[st.iid] = Append(log[st.iid], FactOf(w)), Counted(w, st, lastSeq + 1)
        PROVE  NumberedTo(log'[st.iid], st.seq)
    <3>1. /\ FactOf(w).seq = objs[o].seq + 1 /\ objs[o].seq \in Nat /\ FactOf(w) \in Facts
          /\ st.iid \in Iids
      BY <2>7, FactOfSeq DEF Facts
    <3>2. st.seq = objs[o].seq + 1
      BY <2>7, ReadyMeans, CountedFields
    <3>3. log[st.iid] \in Seq(Facts) /\ \A k \in DOMAIN log[st.iid] : log[st.iid][k].seq \in Nat
      BY <2>1, <3>1, LastSeqOfLog
    <3>4. NumberedTo(log[st.iid], objs[o].seq)
      BY <2>2, <2>7
    <3>5. ASSUME NEW k \in DOMAIN Append(log[st.iid], FactOf(w))
          PROVE  Append(log[st.iid], FactOf(w))[k].seq <= objs[o].seq + 1
      <4>1. CASE k \in DOMAIN log[st.iid]
        <5>1. Append(log[st.iid], FactOf(w))[k] = log[st.iid][k]
          BY <3>1, <3>3, <4>1
        <5>2. log[st.iid][k].seq \in Nat /\ log[st.iid][k].seq <= objs[o].seq
          BY <3>3, <3>4, <4>1 DEF NumberedTo
        <5> QED BY <3>1, <5>1, <5>2
      <4>2. CASE k = Len(log[st.iid]) + 1
        <5>1. Append(log[st.iid], FactOf(w))[k] = FactOf(w)
          BY <3>1, <3>3, <4>2
        <5> QED BY <3>1, <5>1
      <4> QED BY <3>1, <3>3, <4>1, <4>2
    <3> QED BY <2>7, <3>2, <3>5 DEF NumberedTo
  <2>8. ASSUME NEW w \in Workers, ref[w] = o, st.iid = objs[o].iid, log' = log, BlindDuplicate(w),
               Counted(w, st, OriginalPos(cmd[w].iid, Item(cmd[w], step[w]).id))
        PROVE  NumberedTo(log'[st.iid], st.seq)
    <3>1. Current(o) /\ Ready(w)
      BY <2>8 DEF NoStaleDuplicate, BlindDuplicate
    <3>2. st.seq = objs[o].seq + 1
      BY <2>8, <3>1, ReadyMeans, CountedFields
    <3>3. objs[o].seq \in Nat /\ st.iid \in Iids
      BY <2>8, <3>1, FactOfSeq
    <3>4. \A k \in DOMAIN log[st.iid] : log[st.iid][k].seq \in Nat
      BY <2>1, <3>3, LastSeqOfLog
    <3> QED BY <2>2, <2>8, <3>1, <3>2, <3>3, <3>4 DEF NumberedTo
  <2>9. CASE st.iid = objs[o].iid /\ log' = log /\ Reconciled(o, st)
    <3>1. st.iid \in Iids
      BY <2>9 DEF IInv, ObjsOK, State
    <3> QED BY <2>1, <2>9, <3>1, LastSeqOfLog DEF Reconciled
  <2> QED BY <2>1, <2>3, <2>4, <2>5, <2>6, <2>7, <2>8, <2>9 DEF CurrentCase
<1>2. ASSUME NEW d \in delayed', StillExpected(d)' PROVE NumberedTo(log'[d.iid], d.fact.seq - 1)
  <2>1. CASE d \in delayed /\ StillExpected(d) /\ log'[d.iid] = log[d.iid]
    BY <2>1 DEF CountsAll
  <2>2. ASSUME NEW w \in Workers, log' = log, Ready(w), Current(ref[w]), d.iid = cmd[w].iid, d.fact = FactOf(w)
        PROVE  NumberedTo(log'[d.iid], d.fact.seq - 1)
    <3>1. /\ d.fact.seq = objs[ref[w]].seq + 1 /\ objs[ref[w]].seq \in Nat /\ ref[w] \in Objs
          /\ objs[ref[w]].iid = d.iid
      BY <2>2, FactOfSeq
    <3>2. NumberedTo(log[d.iid], objs[ref[w]].seq)
      BY <2>2, <3>1 DEF CountsAll
    <3>3. d.fact.seq - 1 = objs[ref[w]].seq
      BY <3>1
    <3> QED BY <2>2, <3>2, <3>3
  <2> QED BY <1>2, <2>1, <2>2, ExpectedAfter
<1> QED BY <1>1, <1>2 DEF CountsAll

\* A step appends a number above all numbers in the log.
LEMMA SeqGrowsStep ==
  ASSUME IInv, DelayedOwed, [Next]_vars, CountsAll, SeqGrows
  PROVE  SeqGrows'
<1>1. LogMoves /\ LogOK
  BY LogMovesStep DEF IInv
<1>2. CASE log' = log
  BY <1>2 DEF SeqGrows
<1>3. ASSUME NEW i, NEW f, Takes(i, f), TakenFrom(i, f) PROVE SeqGrows'
  <2> PICK n : n = Len(log[i])
    OBVIOUS
  <2>1. /\ i \in Iids /\ n \in Nat /\ DOMAIN log[i] = 1..n /\ DOMAIN log'[i] = 1..(n + 1)
        /\ log'[i][n + 1] = f
        /\ \A k \in DOMAIN log[i] : log'[i][k] = log[i][k]
        /\ \A j \in Iids : j # i => log'[j] = log[j]
    BY <1>1, <1>3, TakenLog
  <2>2. \A k \in DOMAIN log[i] : log[i][k].seq < f.seq
    BY <1>3, NumberOfTaken
  <2> SUFFICES ASSUME NEW h \in Iids, NEW j \in DOMAIN log'[h], NEW k \in DOMAIN log'[h], j < k
               PROVE  log'[h][j].seq < log'[h][k].seq
    BY DEF SeqGrows
  <2>3. CASE h # i
    BY <2>1, <2>3 DEF SeqGrows
  <2>4. CASE h = i
    <3>1. j \in DOMAIN log[i] /\ (k \in DOMAIN log[i] \/ k = n + 1)
      BY <2>1, <2>4
    <3> QED BY <2>1, <2>2, <2>4, <3>1 DEF SeqGrows
  <2> QED BY <2>3, <2>4
<1> QED BY <1>1, <1>2, <1>3 DEF LogMoves

\* No object holds a count at the start.
LEMMA CountsInitially == Init => CountsAll
<1> SUFFICES ASSUME Init, NEW o \in Objs, Current(o) PROVE NumberedTo(log[objs[o].iid], objs[o].seq)
  BY DEF Init, CountsAll
<1>1. objs[o] = NoState /\ IInv
  BY InitOK DEF Init
<1>2. NoState.streamSeq = 0 /\ NoState.iid \in Iids
  BY ConstantsOK DEF NoState
<1>3. LastPos(log[objs[o].iid]) = 0 /\ objs[o].iid \in Iids
  BY <1>1, <1>2 DEF Current
<1>4. log[objs[o].iid] = <<>>
  BY <1>1, <1>3, LastPosType DEF IInv
<1> QED BY <1>4 DEF NumberedTo

\* The facts of an interaction are numbered upwards along the stream, whatever
\* fails and however small the caches are, as long as no duplicate of a sub-fact
\* is counted on an object that is behind the log (appendParticipationFact takes
\* the original's stream sequence and adds one to its own count).
THEOREM NumbersGrow == SeqGrows /\ Spec /\ []NoStaleDuplicate => []SeqGrows
<1>1. IInv /\ IInv' /\ DelayedOwed /\ NoStaleDuplicate /\ CountsAll /\ [Next]_vars => CountsAll'
  BY CountsAllStep
<1>2. IInv /\ DelayedOwed /\ CountsAll /\ SeqGrows /\ [Next]_vars => SeqGrows'
  BY SeqGrowsStep
<1> QED BY <1>1, <1>2, CountsInitially, AppendsAreOwed, PTL DEF Spec

\* An object that is up to date counts as many facts as its log has, and an
\* append whose expectation holds carries the next number.
CountsExactly ==
  /\ \A o \in Objs : Current(o) => objs[o].seq = Len(log[objs[o].iid])
  /\ \A d \in delayed : StillExpected(d) => d.fact.seq = Len(log[d.iid]) + 1

\* In a dense log the largest number is the length.
LEMMA DenseLastSeq ==
  ASSUME LogOK, DenseLog, NEW i \in Iids
  PROVE  LastSeq(log[i]) = Len(log[i])
<1> PICK n : n = Len(log[i])
  OBVIOUS
<1>1. log[i] \in Seq(Facts) /\ \A k \in DOMAIN log[i] : log[i][k].seq \in Nat
  BY LastSeqOfLog
<1>2. n \in Nat /\ DOMAIN log[i] = 1..n /\ \A k \in 1..n : log[i][k].seq = k
  BY <1>1 DEF DenseLog
<1>3. CASE log[i] = <<>>
  BY <1>1, <1>3 DEF LastSeq
<1>4. CASE log[i] # <<>>
  <2>1. n \in 1..n
    BY <1>1, <1>2, <1>4
  <2>2. PICK k \in 1..n : log[i][k].seq = LastSeq(log[i])
    BY <1>1, <1>2, <1>4, LastSeqIsLargest
  <2>3. log[i][n].seq <= LastSeq(log[i])
    BY <1>1, <1>2, <2>1, LastSeqIsLargest
  <2>4. LastSeq(log[i]) = k /\ n <= LastSeq(log[i])
    BY <1>2, <2>1, <2>2, <2>3
  <2> QED BY <1>2, <2>4
<1> QED BY <1>3, <1>4

\* Every step keeps the exact counts of the up-to-date objects.
LEMMA CountsExactlyStep ==
  ASSUME IInv, IInv', DelayedOwed, [Next]_vars, NoBlindDuplicate, DenseLog, CountsExactly
  PROVE  CountsExactly'
<1>1. ASSUME NEW o \in Objs, Current(o)' PROVE objs'[o].seq = Len(log'[objs'[o].iid])
  <2> PICK st : st = objs'[o]
    OBVIOUS
  <2>1. CurrentCase(o) /\ LogOK
    BY <1>1, CurrentAfter DEF IInv
  <2>2. Current(o) => objs[o].seq = Len(log[objs[o].iid])
    BY DEF CountsExactly
  <2>3. CASE st.iid = objs[o].iid /\ log'[st.iid] = log[st.iid] /\ Current(o) /\ SameView(st, objs[o])
    BY <2>2, <2>3 DEF SameView
  <2>4. CASE st = NoState /\ log'[st.iid] = <<>>
    <3>1. NoState.seq = 0 /\ Len(<<>>) = 0
      BY DEF NoState
    <3> QED BY <2>4, <3>1
  <2>5. CASE log' = log /\ Refolded(o, st)
    BY <2>1, <2>5, DenseLastSeq DEF Refolded
  <2>6. CASE log' = log /\ Current(o) /\ Rejected(o, st)
    BY <2>2, <2>6 DEF Rejected
  <2>7. ASSUME NEW w \in Workers, ref[w] = o, st.iid = objs[o].iid, Ready(w), Current(o),
               log'[st.iid] = Append(log[st.iid], FactOf(w)), Counted(w, st, lastSeq + 1)
        PROVE  st.seq = Len(log'[st.iid])
    <3>0. st.seq = objs[o].seq + 1
      BY <2>7, ReadyMeans, CountedFields
    <3>1. FactOf(w) \in Facts /\ st.iid \in Iids
      BY <2>7, FactOfSeq DEF Facts
    <3>2. log[st.iid] \in Seq(Facts)
      BY <2>1, <3>1, LastSeqOfLog
    <3>3. Len(Append(log[st.iid], FactOf(w))) = Len(log[st.iid]) + 1
      BY <3>1, <3>2
    <3> QED BY <2>2, <2>7, <3>0, <3>3
  <2>8. CASE st.iid = objs[o].iid /\ log' = log /\ Reconciled(o, st)
    <3>1. st.iid \in Iids
      BY <2>8 DEF IInv, ObjsOK, State
    <3> QED BY <2>1, <2>8, <3>1, DenseLastSeq DEF Reconciled
  <2> QED BY <2>1, <2>3, <2>4, <2>5, <2>6, <2>7, <2>8 DEF CurrentCase, NoBlindDuplicate
<1>2. ASSUME NEW d \in delayed', StillExpected(d)' PROVE d.fact.seq = Len(log'[d.iid]) + 1
  <2>1. CASE d \in delayed /\ StillExpected(d) /\ log'[d.iid] = log[d.iid]
    BY <2>1 DEF CountsExactly
  <2>2. ASSUME NEW w \in Workers, log' = log, Ready(w), Current(ref[w]), d.iid = cmd[w].iid, d.fact = FactOf(w)
        PROVE  d.fact.seq = Len(log'[d.iid]) + 1
    <3>1. d.fact.seq = objs[ref[w]].seq + 1 /\ ref[w] \in Objs /\ objs[ref[w]].iid = d.iid
      BY <2>2, FactOfSeq
    <3> QED BY <2>2, <3>1 DEF CountsExactly
  <2> QED BY <1>2, <2>1, <2>2, ExpectedAfter
<1> QED BY <1>1, <1>2 DEF CountsExactly

\* A step appends the next number.
LEMMA DenseStep ==
  ASSUME IInv, DelayedOwed, [Next]_vars, CountsExactly, DenseLog
  PROVE  DenseLog'
<1>1. LogMoves /\ LogOK
  BY LogMovesStep DEF IInv
<1>2. CASE log' = log
  BY <1>2 DEF DenseLog
<1>3. ASSUME NEW i, NEW f, Takes(i, f), TakenFrom(i, f) PROVE DenseLog'
  <2> PICK n : n = Len(log[i])
    OBVIOUS
  <2>1. /\ i \in Iids /\ n \in Nat /\ DOMAIN log[i] = 1..n /\ DOMAIN log'[i] = 1..(n + 1)
        /\ log'[i][n + 1] = f
        /\ \A k \in DOMAIN log[i] : log'[i][k] = log[i][k]
        /\ \A j \in Iids : j # i => log'[j] = log[j]
    BY <1>1, <1>3, TakenLog
  <2>2. f.seq = n + 1
    <3>1. ASSUME NEW w \in Workers, Ready(w), Current(ref[w]), ref[w] \in Objs, objs[ref[w]].iid = i,
                 i = cmd[w].iid, f = FactOf(w)
          PROVE  f.seq = n + 1
      BY <3>1, FactOfSeq DEF CountsExactly
    <3>2. ASSUME NEW d \in delayed, StillExpected(d), i = d.iid, f.seq = d.fact.seq
          PROVE  f.seq = n + 1
      BY <3>2 DEF CountsExactly
    <3> QED BY <1>3, <3>1, <3>2, TakenWhileCurrent
  <2> SUFFICES ASSUME NEW h \in Iids, NEW k \in DOMAIN log'[h]
               PROVE  log'[h][k].seq = k
    BY DEF DenseLog
  <2>3. CASE h # i
    BY <2>1, <2>3 DEF DenseLog
  <2>4. CASE h = i
    <3>1. k \in DOMAIN log[i] \/ k = n + 1
      BY <2>1, <2>4
    <3> QED BY <2>1, <2>2, <2>4, <3>1 DEF DenseLog
  <2> QED BY <2>3, <2>4
<1> QED BY <1>1, <1>2, <1>3 DEF LogMoves

\* No object holds a count at the start.
LEMMA CountsExactlyInitially == Init => CountsExactly
<1> SUFFICES ASSUME Init, NEW o \in Objs, Current(o) PROVE objs[o].seq = Len(log[objs[o].iid])
  BY DEF Init, CountsExactly
<1>1. objs[o] = NoState /\ IInv
  BY InitOK DEF Init
<1>2. NoState.streamSeq = 0 /\ NoState.seq = 0 /\ NoState.iid \in Iids
  BY ConstantsOK DEF NoState
<1>3. LastPos(log[objs[o].iid]) = 0 /\ objs[o].iid \in Iids /\ objs[o].seq = 0
  BY <1>1, <1>2 DEF Current
<1>4. log[objs[o].iid] = <<>>
  BY <1>1, <1>3, LastPosType DEF IInv
<1> QED BY <1>3, <1>4

\* Each log is numbered 1, 2, 3, ... without gap or repetition, whatever the
\* appends, replays and restarts do, as long as no duplicate of a sub-fact is
\* counted: that is the one place where a router counts what it did not append
\* (appendParticipationFact ignores the duplicate flag).
THEOREM NumbersAreDense == DenseLog /\ Spec /\ []NoBlindDuplicate => []DenseLog
<1>1. IInv /\ IInv' /\ DelayedOwed /\ NoBlindDuplicate /\ DenseLog /\ CountsExactly /\ [Next]_vars
        => CountsExactly'
  BY CountsExactlyStep
<1>2. IInv /\ DelayedOwed /\ CountsExactly /\ DenseLog /\ [Next]_vars => DenseLog'
  BY DenseStep
<1> QED BY <1>1, <1>2, CountsExactlyInitially, AppendsAreOwed, PTL DEF Spec

-----------------------------------------------------------------------------
(* Facts stand inside their writer's membership. *)

\* An append in doubt that turns out to be in the log is taken over without the
\* membership and the results (reconcile): never so.
NoLateFind == \A w \in Workers : ~FoundLater(w)

\* A payload under a command id has one sender: no trusted backend repeats, under
\* the agent's name, the very command an agent sends.
OneSender ==
  \A c, d \in Commands :
    c.iid = d.iid /\ c.id = d.id /\ Item(c, 1).hash = Item(d, 1).hash => c.suffix = d.suffix

\* Fact f of interaction i has passed the gate if its writer is among members.
GatePassed(i, f, members) ==
  \A c \in Commands :
    GateParticipation(c) /\ c.iid = i /\ f.id = <<c.id>> /\ f.hash = Item(c, 1).hash
      => c.suffix \in members

\* An object that is up to date knows the members, and an append whose
\* expectation holds would still pass the gate.
KnowsMembers ==
  /\ \A o \in Objs : Current(o) => objs[o].part = FoldParticipation(log[objs[o].iid])
  /\ \A d \in delayed : StillExpected(d) => GatePassed(d.iid, d.fact, FoldParticipation(log[d.iid]))

\* Only the type and the actor of a fact matter to the membership.
LEMMA SameEffect ==
  ASSUME NEW part, NEW f, NEW g, f.type = g.type, f.actor = g.actor
  PROVE  ApplyFact(part, f) = ApplyFact(part, g)
BY DEF ApplyFact

\* What a worker with an up-to-date object sends has passed the gate.
LEMMA SentPassesGate ==
  ASSUME IInv, KnowsMembers, OneSender, NEW w \in Workers, Ready(w), Current(ref[w])
  PROVE  GatePassed(cmd[w].iid, FactOf(w), FoldParticipation(log[cmd[w].iid]))
<1> PICK d : d = cmd[w]
  OBVIOUS
<1> SUFFICES ASSUME NEW c \in Commands, GateParticipation(c), c.iid = d.iid,
                    FactOf(w).id = <<c.id>>, FactOf(w).hash = Item(c, 1).hash
             PROVE  c.suffix \in FoldParticipation(log[d.iid])
  BY DEF GatePassed
<1>1. /\ d \in Commands /\ step[w] \in 1..Steps(d) /\ ref[w] \in Objs /\ objs[ref[w]].iid = d.iid
  BY ReadyMeans, AtWork
<1>2. /\ PassesGate(objs[ref[w]], d) /\ Item(d, step[w]).id = <<c.id>>
      /\ Item(d, step[w]).hash = Item(c, 1).hash
  BY FactOfSeq DEF Ready
<1>3. ~IsParticipationCommand(d)
  <2>1. ASSUME IsParticipationCommand(d) PROVE Len(Item(d, step[w]).id) = 3
    BY <1>1, <2>1, SubFact
  <2>2. Len(<<c.id>>) = 1
    OBVIOUS
  <2> QED BY <1>2, <2>1, <2>2
<1>4. step[w] = 1
  BY <1>1, <1>3 DEF Steps
<1>5. d.id = c.id /\ Item(d, 1).hash = Item(c, 1).hash
  <2>1. Item(d, 1).id = <<d.id>>
    BY <1>3 DEF Item
  <2> QED BY <1>2, <1>4, <2>1
<1>6. d.suffix = c.suffix
  BY <1>1, <1>5 DEF OneSender
<1>7. d.type = Item(d, 1).hash[3]
  BY <1>3 DEF Item, HashPayload
<1>8. Item(c, 1).hash[3] # Started
  <2>1. CASE IsParticipationCommand(c)
    <3>1. ParticipationFacts(c)[1].type \in {Joined, Left}
      BY <2>1 DEF IsParticipationCommand, ParticipationCommands, ParticipationFacts
    <3>2. Item(c, 1).hash[3] = ParticipationFacts(c)[1].type
      BY <2>1 DEF Item, HashPayload
    <3> QED BY <3>1, <3>2 DEF Joined, Left, Started
  <2>2. CASE ~IsParticipationCommand(c)
    <3>1. Item(c, 1).hash[3] = c.type
      BY <2>2 DEF Item, HashPayload
    <3> QED BY <3>1 DEF GateParticipation
  <2> QED BY <2>1, <2>2
<1>9. GateParticipation(d)
  <2>1. d.type # Started
    BY <1>5, <1>7, <1>8
  <2> QED BY <1>6, <2>1 DEF GateParticipation, IsAuthenticated, IsTrusted
<1>10. d.suffix \in objs[ref[w]].part
  BY <1>2, <1>9 DEF PassesGate
<1> QED BY <1>1, <1>6, <1>10 DEF KnowsMembers

\* A duplicate counted at the last position of a log is a duplicate of the last
\* fact.
LEMMA DuplicateOfLast ==
  ASSUME IInv, NEW w \in Workers, BlindDuplicate(w),
         OriginalPos(cmd[w].iid, Item(cmd[w], step[w]).id) = LastPos(log[cmd[w].iid])
  PROVE  LET s == log[cmd[w].iid]
         IN  /\ s \in Seq(Facts) /\ s # <<>>
             /\ s[Len(s)].type = Item(cmd[w], step[w]).type
             /\ s[Len(s)].actor = Item(cmd[w], step[w]).actor
<1> DEFINE i == cmd[w].iid
           item == Item(cmd[w], step[w])
           s == log[i]
<1>1. /\ cmd[w] \in Commands /\ i \in Iids /\ step[w] \in 1..Steps(cmd[w])
      /\ IsParticipationCommand(cmd[w]) /\ <<i, item.id>> \in dedup
  BY ReadyMeans, AtWork, OutcomeMeans DEF BlindDuplicate, BrokerSays
<1>2. PICK k \in DOMAIN s : s[k].id = item.id /\ OriginalPos(i, item.id) = s[k].pos
  BY <1>1, OriginalOK
<1>3. s \in Seq(Facts) /\ LogOK
  BY <1>1 DEF IInv, LogOK, LogInv
<1>4. Len(s) \in Nat /\ DOMAIN s = 1..Len(s) /\ s # <<>> /\ Len(s) \in DOMAIN s
  BY <1>2, <1>3
<1>5. LastPos(s) = s[Len(s)].pos /\ s[k].pos = s[Len(s)].pos /\ s[k].pos \in Nat
  BY <1>2, <1>3, <1>4, FactType DEF LastPos
<1>6. k = Len(s)
  <2>1. ASSUME k # Len(s) PROVE FALSE
    <3>1. k \in 1..(Len(s) - 1)
      BY <1>4, <2>1
    <3>2. s[k].pos < s[Len(s)].pos
      BY <1>1, <1>3, <1>4, <3>1 DEF LogOK, LogInv
    <3> QED BY <1>5, <3>2
  <2> QED BY <2>1
<1>7. s[k] \in Facts
  BY <1>3
<1>8. s[k].type = item.type /\ s[k].actor = item.actor
  BY <1>1, <1>2, <1>7, SubFactType
<1> QED BY <1>3, <1>4, <1>6, <1>8

\* Every step keeps the rosters of the up-to-date objects.
LEMMA KnowsMembersStep ==
  ASSUME IInv, IInv', DelayedOwed, [Next]_vars, NoStaleDuplicate, NoLateFind, OneSender, KnowsMembers
  PROVE  KnowsMembers'
<1>1. ASSUME NEW o \in Objs, Current(o)' PROVE objs'[o].part = FoldParticipation(log'[objs'[o].iid])
  <2> PICK st : st = objs'[o]
    OBVIOUS
  <2>1. CurrentCase(o) /\ LogOK /\ LastPos(log'[st.iid]) = st.streamSeq
    BY <1>1, CurrentAfter DEF IInv, Current
  <2>2. Current(o) => objs[o].part = FoldParticipation(log[objs[o].iid])
    BY DEF KnowsMembers
  <2>3. CASE st.iid = objs[o].iid /\ log'[st.iid] = log[st.iid] /\ Current(o) /\ SameView(st, objs[o])
    BY <2>2, <2>3 DEF SameView
  <2>4. CASE st = NoState /\ log'[st.iid] = <<>>
    <3>1. NoState.part = {}
      BY DEF NoState
    <3>2. FoldParticipation(<<>>) = {}
      BY DEF FoldParticipation, MembersAt
    <3> QED BY <2>4, <3>1, <3>2
  <2>5. CASE log' = log /\ Refolded(o, st)
    BY <2>5 DEF Refolded
  <2>6. CASE log' = log /\ Current(o) /\ Rejected(o, st)
    BY <2>2, <2>6 DEF Rejected
  <2>7. ASSUME NEW w \in Workers, ref[w] = o, st.iid = objs[o].iid, Ready(w), Current(o),
               log'[st.iid] = Append(log[st.iid], FactOf(w)), Counted(w, st, lastSeq + 1)
        PROVE  st.part = FoldParticipation(log'[st.iid])
    <3>1. /\ FactOf(w) \in Facts /\ st.iid \in Iids
          /\ FactOf(w).type = Item(cmd[w], step[w]).type /\ FactOf(w).actor = Item(cmd[w], step[w]).actor
      BY <2>7, FactOfSeq DEF Facts
    <3>2. st.part = ApplyFact(objs[o].part, Item(cmd[w], step[w]))
      BY <2>7, ReadyMeans, CountedFields
    <3>3. log[st.iid] \in Seq(Facts)
      BY <2>1, <3>1, LastSeqOfLog
    <3>4. FoldParticipation(log'[st.iid]) = ApplyFact(FoldParticipation(log[st.iid]), FactOf(w))
      BY <2>7, <3>1, <3>3, MembersOfAppend
    <3>5. ApplyFact(objs[o].part, FactOf(w)) = ApplyFact(objs[o].part, Item(cmd[w], step[w]))
      BY <3>1, SameEffect
    <3> QED BY <2>2, <2>7, <3>2, <3>4, <3>5
  <2>8. ASSUME NEW w \in Workers, ref[w] = o, st.iid = objs[o].iid, log' = log, BlindDuplicate(w),
               Counted(w, st, OriginalPos(cmd[w].iid, Item(cmd[w], step[w]).id))
        PROVE  st.part = FoldParticipation(log'[st.iid])
    <3> PICK s : s = log[cmd[w].iid]
      OBVIOUS
    <3>1. Current(o) /\ Ready(w)
      BY <2>8 DEF NoStaleDuplicate, BlindDuplicate
    <3>2. /\ st.part = ApplyFact(objs[o].part, Item(cmd[w], step[w])) /\ st.iid = cmd[w].iid
          /\ st.streamSeq = OriginalPos(cmd[w].iid, Item(cmd[w], step[w]).id)
      <4>1. pc[w] \in {"ready"} \union Holding
        BY <3>1, ReadyMeans
      <4> QED BY <2>8, <4>1, CountedFields
    <3>3. /\ s \in Seq(Facts) /\ s # <<>>
          /\ s[Len(s)].type = Item(cmd[w], step[w]).type /\ s[Len(s)].actor = Item(cmd[w], step[w]).actor
      BY <2>1, <2>8, <3>2, DuplicateOfLast
    <3>4. objs[o].part = FoldParticipation(s)
      BY <2>2, <2>8, <3>1, <3>2
    <3>5. ApplyFact(FoldParticipation(s), s[Len(s)]) = FoldParticipation(s)
      BY <3>3, LastFactApplied
    <3>6. ApplyFact(FoldParticipation(s), s[Len(s)]) = ApplyFact(FoldParticipation(s), Item(cmd[w], step[w]))
      BY <3>3, SameEffect
    <3> QED BY <2>8, <3>2, <3>4, <3>5, <3>6
  <2> QED BY <2>1, <2>3, <2>4, <2>5, <2>6, <2>7, <2>8 DEF CurrentCase, NoLateFind
<1>2. ASSUME NEW d \in delayed', StillExpected(d)'
      PROVE  GatePassed(d.iid, d.fact, FoldParticipation(log'[d.iid]))
  <2>1. CASE d \in delayed /\ StillExpected(d) /\ log'[d.iid] = log[d.iid]
    BY <2>1 DEF KnowsMembers
  <2>2. ASSUME NEW w \in Workers, log' = log, Ready(w), Current(ref[w]), d.iid = cmd[w].iid, d.fact = FactOf(w)
        PROVE  GatePassed(d.iid, d.fact, FoldParticipation(log'[d.iid]))
    BY <2>2, SentPassesGate
  <2> QED BY <1>2, <2>1, <2>2, ExpectedAfter
<1>3. /\ \A o \in Objs : Current(o)' => objs'[o].part = FoldParticipation(log'[objs'[o].iid])
      /\ \A d \in delayed' : StillExpected(d)' => GatePassed(d.iid, d.fact, FoldParticipation(log'[d.iid]))
  BY <1>1, <1>2
<1> QED BY <1>3 DEF KnowsMembers, GatePassed

\* Every fact of a log has passed the gate where it stands.
LEMMA MembersMeans ==
  /\ MembersOnlyWrite <=> \A i \in Iids : \A k \in DOMAIN log[i] :
       GatePassed(i, log[i][k], MembersAt(log[i], 1..(k-1)))
  /\ MembersOnlyWrite' <=> \A i \in Iids : \A k \in DOMAIN log'[i] :
       GatePassed(i, log'[i][k], MembersAt(log'[i], 1..(k-1)))
BY ConstantsOK DEF MembersOnlyWrite, GatePassed

\* A step appends no fact of a non-member.
LEMMA MembersStep ==
  ASSUME IInv, DelayedOwed, [Next]_vars, OneSender, KnowsMembers, MembersOnlyWrite
  PROVE  MembersOnlyWrite'
<1>1. LogMoves /\ LogOK
  BY LogMovesStep DEF IInv
<1>2. CASE log' = log
  BY <1>2 DEF MembersOnlyWrite
<1>3. ASSUME NEW i, NEW f, Takes(i, f), TakenFrom(i, f) PROVE MembersOnlyWrite'
  <2> PICK n : n = Len(log[i])
    OBVIOUS
  <2>1. /\ i \in Iids /\ n \in Nat /\ DOMAIN log[i] = 1..n /\ DOMAIN log'[i] = 1..(n + 1)
        /\ log'[i][n + 1] = f
        /\ \A k \in DOMAIN log[i] : log'[i][k] = log[i][k]
        /\ \A j \in Iids : j # i => log'[j] = log[j]
    BY <1>1, <1>3, TakenLog
  <2>2. GatePassed(i, f, FoldParticipation(log[i]))
    <3>1. ASSUME NEW w \in Workers, Ready(w), Current(ref[w]), i = cmd[w].iid, f = FactOf(w)
          PROVE  GatePassed(i, f, FoldParticipation(log[i]))
      BY <3>1, SentPassesGate
    <3>2. ASSUME NEW d \in delayed, StillExpected(d), i = d.iid, f.id = d.fact.id, f.hash = d.fact.hash
          PROVE  GatePassed(i, f, FoldParticipation(log[i]))
      BY <3>2 DEF KnowsMembers, GatePassed
    <3> QED BY <1>3, <3>1, <3>2, TakenWhileCurrent
  <2>3. ASSUME NEW k \in 1..(n + 1) PROVE MembersAt(log'[i], 1..(k-1)) = MembersAt(log[i], 1..(k-1))
    <3>1. \A h \in 1..(k-1) : log'[i][h] = log[i][h]
      BY <2>1
    <3>2. \A h \in 1..(k-1) : log'[i][h].type = log[i][h].type /\ log'[i][h].actor = log[i][h].actor
      BY <3>1
    <3> QED BY <3>2, MembersAtCongruence
  <2> SUFFICES ASSUME NEW h \in Iids, NEW k \in DOMAIN log'[h]
               PROVE  GatePassed(h, log'[h][k], MembersAt(log'[h], 1..(k-1)))
    BY MembersMeans
  <2>4. CASE h # i
    BY <2>1, <2>4, MembersMeans
  <2>5. CASE h = i /\ k \in DOMAIN log[i]
    BY <2>1, <2>3, <2>5, MembersMeans
  <2>6. CASE h = i /\ k = n + 1
    <3>1. 1..(k-1) = DOMAIN log[i] /\ k \in 1..(n + 1)
      BY <2>1, <2>6
    <3>2. MembersAt(log'[i], 1..(k-1)) = FoldParticipation(log[i])
      BY <2>3, <3>1 DEF FoldParticipation
    <3> QED BY <2>1, <2>2, <2>6, <3>2
  <2> QED BY <2>1, <2>4, <2>5, <2>6
<1> QED BY <1>1, <1>2, <1>3 DEF LogMoves

\* No object holds a roster at the start.
LEMMA KnowsMembersInitially == Init => KnowsMembers
<1> SUFFICES ASSUME Init, NEW o \in Objs, Current(o)
             PROVE  objs[o].part = FoldParticipation(log[objs[o].iid])
  BY DEF Init, KnowsMembers
<1>1. objs[o] = NoState /\ IInv
  BY InitOK DEF Init
<1>2. NoState.streamSeq = 0 /\ NoState.part = {} /\ NoState.iid \in Iids
  BY ConstantsOK DEF NoState
<1>3. LastPos(log[objs[o].iid]) = 0 /\ objs[o].iid \in Iids /\ objs[o].part = {}
  BY <1>1, <1>2 DEF Current
<1>4. log[objs[o].iid] = <<>>
  BY <1>1, <1>3, LastPosType DEF IInv
<1>5. FoldParticipation(<<>>) = {}
  BY DEF FoldParticipation, MembersAt
<1> QED BY <1>3, <1>4, <1>5

\* A fact an agent writes stands inside an open membership interval of the agent,
\* although the gate looks at a cached membership: OCC lets only an object that is
\* up to date write, and such an object knows the members unless reconcile or a
\* stale duplicate of a sub-fact has moved its token without the fold.
THEOREM OnlyMembersWrite ==
  OneSender /\ MembersOnlyWrite /\ Spec /\ [](NoStaleDuplicate /\ NoLateFind) => []MembersOnlyWrite
<1> SUFFICES ASSUME OneSender
             PROVE  MembersOnlyWrite /\ Spec /\ [](NoStaleDuplicate /\ NoLateFind) => []MembersOnlyWrite
  OBVIOUS
<1>1. IInv /\ IInv' /\ DelayedOwed /\ NoStaleDuplicate /\ NoLateFind /\ KnowsMembers /\ [Next]_vars
        => KnowsMembers'
  BY KnowsMembersStep
<1>2. IInv /\ DelayedOwed /\ KnowsMembers /\ MembersOnlyWrite /\ [Next]_vars => MembersOnlyWrite'
  BY MembersStep
<1> QED BY <1>1, <1>2, KnowsMembersInitially, AppendsAreOwed, PTL DEF Spec

-----------------------------------------------------------------------------
(* Caches with room: every fact of the log is known to an up-to-date object. *)

\* No dedup cache is full and no log is longer than a cache.
CachesHaveRoom ==
  /\ \A o \in Objs : Len(objs[o].results) < MaxResults
  /\ \A i \in Iids : Len(log[i]) <= MaxResults

KnowsAll(results, facts) == \A k \in DOMAIN facts : Has(results, facts[k].id)

\* Entries of which only those of ordinary commands are rejections: putResult
\* remembers an illegal transition in HandleCommand alone.
Remembered == {e \in Entries : ~e.ok => Len(e.id) = 1}

CachesRemember == \A o \in Objs : objs[o].results \in Cache(Remembered)

KnowsFacts ==
  /\ CachesRemember
  /\ \A o \in Objs : Current(o) => KnowsAll(objs[o].results, log[objs[o].iid])

\* A cache that has room after putResult had it before, and has lost nothing.
LEMMA PutWithRoom ==
  ASSUME NEW E, NEW s \in Cache(E), NEW e \in E, Len(PutResult(s, e)) < MaxResults
  PROVE  /\ Len(s) < MaxResults
         /\ Has(PutResult(s, e), e.id)
         /\ \A id : Has(s, id) => Has(PutResult(s, e), id)
<1>0. s \in Seq(E) /\ Len(s) \in Nat /\ DOMAIN s = 1..Len(s) /\ MaxResults \in Nat \ {0}
  BY ConstantsOK DEF Cache
<1>1. CASE Has(s, e.id)
  <2> DEFINE t == [k \in DOMAIN s |-> IF s[k].id = e.id THEN e ELSE s[k]]
  <2>1. PutResult(s, e) = t
    BY <1>1 DEF PutResult
  <2>2. t \in Seq(E) /\ Len(t) = Len(s) /\ DOMAIN t = DOMAIN s /\ \A k \in DOMAIN s : t[k].id = s[k].id
    BY <1>0
  <2> HIDE DEF t
  <2> QED BY <1>1, <2>1, <2>2 DEF Has
<1>2. CASE ~Has(s, e.id) /\ Len(s) < MaxResults
  <2>1. PutResult(s, e) = Append(s, e)
    BY <1>2 DEF PutResult
  <2>2. /\ DOMAIN Append(s, e) = 1..(Len(s) + 1) /\ Append(s, e)[Len(s) + 1] = e
        /\ \A k \in DOMAIN s : Append(s, e)[k] = s[k]
    BY <1>0
  <2>3. Len(s) + 1 \in 1..(Len(s) + 1) /\ DOMAIN s \subseteq 1..(Len(s) + 1)
    BY <1>0
  <2> QED BY <1>2, <2>1, <2>2, <2>3 DEF Has
<1>3. CASE ~Has(s, e.id) /\ ~(Len(s) < MaxResults)
  <2>1. s # <<>> /\ PutResult(s, e) = Append(Tail(s), e)
    BY <1>0, <1>3 DEF PutResult
  <2>2. Tail(s) \in Seq(E) /\ Len(Tail(s)) = Len(s) - 1
    BY <1>0, <2>1
  <2>3. Len(PutResult(s, e)) = Len(s)
    BY <1>0, <2>1, <2>2
  <2> QED BY <1>3, <2>3
<1> QED BY <1>1, <1>2, <1>3

\* copyMissingResults with room to spare takes over everything.
LEMMA CopyWithRoom ==
  ASSUME NEW E, NEW st \in Cache(E), NEW fresh \in Seq(E),
         Len(CopyMissingResults(st, fresh)) < MaxResults
  PROVE  \A k \in DOMAIN fresh : Has(CopyMissingResults(st, fresh), fresh[k].id)
<1> DEFINE N == Len(fresh)
           IsCopy(c) == c = [k \in 0..N |-> IF k = 0 THEN st ELSE PutMissing(c[k-1], fresh[k])]
           copy == CHOOSE c : IsCopy(c)
           Good(k) == /\ copy[k] \in Cache(E)
                      /\ Len(copy[k]) < MaxResults => \A j \in 1..k : Has(copy[k], fresh[j].id)
           Bad == {k \in 0..N : ~Good(k)}
<1>0. N \in Nat /\ N \in 0..N /\ DOMAIN fresh = 1..N
  OBVIOUS
<1>1. CopyMissingResults(st, fresh) = copy[N]
  BY DEF CopyMissingResults
<1> HIDE DEF N
<1>2. \E c : IsCopy(c)
  <2>0. \A n \in 0..N :
          \E g \in [0..n -> Cache(E)] :
            g[0] = st /\ \A k \in 1..n : g[k] = PutMissing(g[k-1], fresh[k])
    BY CopyChain DEF N
  <2>1. PICK g \in [0..N -> Cache(E)] :
          g[0] = st /\ \A k \in 1..N : g[k] = PutMissing(g[k-1], fresh[k])
    BY <1>0, <2>0
  <2>2. \A k \in 0..N : g[k] = IF k = 0 THEN st ELSE PutMissing(g[k-1], fresh[k])
    BY <1>0, <2>1
  <2>3. IsCopy(g)
    BY <2>1, <2>2
  <2> QED BY <2>3
<1>3. IsCopy(copy)
  <2> HIDE DEF IsCopy
  <2> QED BY <1>2
<1> HIDE DEF copy
<1>4. copy[0] = st /\ \A k \in 1..N : copy[k] = PutMissing(copy[k-1], fresh[k])
  BY <1>0, <1>3
<1> HIDE DEF IsCopy
<1>5. ASSUME Bad # {} PROVE FALSE
  <2>1. PICK m \in Bad : \A l \in Bad : m <= l
    <3>1. Bad \subseteq Nat
      BY <1>0
    <3> HIDE DEF Bad
    <3> QED BY <1>5, <3>1, LeastElement
  <2>2. Good(0)
    BY <1>4
  <2>3. m \in 1..N /\ m - 1 \in 0..N /\ Good(m-1) /\ ~Good(m)
    <3> HIDE DEF Good
    <3> QED BY <1>0, <2>1, <2>2
  <2>4. fresh[m] \in E /\ copy[m] = PutMissing(copy[m-1], fresh[m])
    BY <1>4, <2>3 DEF N
  <2>5. copy[m] \in Cache(E)
    BY <2>3, <2>4, PutResultType DEF PutMissing
  <2>6. ASSUME Len(copy[m]) < MaxResults
        PROVE  /\ Len(copy[m-1]) < MaxResults /\ Has(copy[m], fresh[m].id)
               /\ \A id : Has(copy[m-1], id) => Has(copy[m], id)
    BY <2>3, <2>4, <2>6, PutWithRoom DEF PutMissing
  <2>7. ASSUME Len(copy[m]) < MaxResults, NEW j \in 1..m PROVE Has(copy[m], fresh[j].id)
    <3>1. j \in 1..(m-1) \/ j = m
      BY <1>0, <2>3
    <3> QED BY <2>3, <2>6, <2>7, <3>1
  <2> QED BY <2>3, <2>5, <2>7
<1>6. Good(N)
  <2> HIDE DEF Good
  <2> QED BY <1>0, <1>5
<1> QED BY <1>0, <1>1, <1>6

\* The results of a log no longer than a cache are those of all its facts, all
\* accepted.
LEMMA FoldKnowsAll ==
  ASSUME NEW s \in Seq(Facts), Len(s) <= MaxResults
  PROVE  /\ FoldResults(s) = [k \in DOMAIN s |-> [id |-> s[k].id, hash |-> s[k].hash, ok |-> TRUE]]
         /\ KnowsAll(FoldResults(s), s)
<1> DEFINE skip == IF Len(s) > MaxResults THEN Len(s) - MaxResults ELSE 0
           r == [k \in DOMAIN s |-> [id |-> s[k].id, hash |-> s[k].hash, ok |-> TRUE]]
<1>1. Len(s) \in Nat /\ MaxResults \in Nat /\ DOMAIN s = 1..Len(s)
  BY ConstantsOK
<1>2. skip = 0 /\ Len(s) - skip = Len(s) /\ \A k \in 1..Len(s) : skip + k = k
  <2>1. ~(Len(s) > MaxResults)
    BY <1>1
  <2>2. skip = 0
    BY <2>1
  <2> HIDE DEF skip
  <2> QED BY <1>1, <2>2
<1>3. FoldResults(s) = [k \in 1..(Len(s) - skip) |->
                         [id |-> s[skip + k].id, hash |-> s[skip + k].hash, ok |-> TRUE]]
  BY DEF FoldResults
<1> HIDE DEF skip
<1>4. FoldResults(s) = r
  BY <1>1, <1>2, <1>3
<1>5. ASSUME NEW k \in DOMAIN s PROVE \E h \in DOMAIN r : r[h].id = s[k].id
  <2>1. k \in DOMAIN r /\ r[k].id = s[k].id
    OBVIOUS
  <2> HIDE DEF r
  <2> QED BY <2>1
<1> HIDE DEF r
<1>6. KnowsAll(r, s)
  BY <1>5 DEF KnowsAll, Has
<1> QED BY <1>4, <1>6 DEF r

\* The results folded from a log, and what a worker puts on record, are entries
\* to remember.
LEMMA FoldRemembered ==
  ASSUME NEW s \in Seq(Facts)
  PROVE  FoldResults(s) \in Cache(Remembered)
<1>1. FoldResults(s) \in Seq(Entries) /\ Len(FoldResults(s)) <= MaxResults
  BY FoldResultsType DEF Cache
<1>2. \A k \in DOMAIN FoldResults(s) : FoldResults(s)[k].ok
  BY DEF FoldResults
<1>3. \A k \in DOMAIN FoldResults(s) : FoldResults(s)[k] \in Remembered
  BY <1>1, <1>2 DEF Remembered
<1>4. FoldResults(s) \in Seq(Remembered)
  <2> PICK t : t = FoldResults(s)
    OBVIOUS
  <2> QED BY <1>1, <1>3
<1> QED BY <1>1, <1>4 DEF Cache

\* The result of an item is an entry to remember, under the item's id.
LEMMA ResultRemembered ==
  ASSUME NEW w \in Workers, cmd[w] \in Commands, step[w] \in 1..Steps(cmd[w]), NEW ok \in BOOLEAN,
         IsParticipationCommand(cmd[w]) => ok
  PROVE  ResultOf(w, ok) \in Remembered /\ ResultOf(w, ok).id = Item(cmd[w], step[w]).id
<1>1. ResultOf(w, ok) \in Entries
  BY ItemFacts DEF ResultOf
<1>2. ~IsParticipationCommand(cmd[w]) => Len(Item(cmd[w], step[w]).id) = 1
  BY DEF Item
<1>3. ResultOf(w, ok).ok = ok /\ ResultOf(w, ok).id = Item(cmd[w], step[w]).id
  BY DEF ResultOf
<1> QED BY <1>1, <1>2, <1>3 DEF Remembered

\* A re-fold gives a cache of entries to remember, and with room a complete one.
LEMMA RefoldKnowsAll ==
  ASSUME IInv, CachesRemember, NEW o \in Objs, NEW st, Refolded(o, st)
  PROVE  /\ st.results \in Cache(Remembered)
         /\ Len(st.results) < MaxResults /\ Len(log[st.iid]) <= MaxResults
              => KnowsAll(st.results, log[st.iid])
<1> PICK facts : facts = log[st.iid]
  OBVIOUS
<1> PICK copy : copy = CopyMissingResults(objs[o].results, FoldResults(facts))
  OBVIOUS
<1>1. facts \in Seq(Facts)
  BY DEF Refolded, IInv, LogOK, LogInv
<1>2. /\ FoldResults(facts) \in Cache(Remembered) /\ FoldResults(facts) \in Seq(Remembered)
      /\ objs[o].results \in Cache(Remembered)
  BY <1>1, FoldRemembered DEF Cache, CachesRemember
<1>3. copy \in Cache(Remembered)
  BY <1>2, CopyMissingType
<1>4. Len(facts) <= MaxResults => KnowsAll(FoldResults(facts), facts)
  BY <1>1, FoldKnowsAll
<1>5. ASSUME Len(copy) < MaxResults, Len(facts) <= MaxResults PROVE KnowsAll(copy, facts)
  <2>1. \A k \in DOMAIN FoldResults(facts) : Has(copy, FoldResults(facts)[k].id)
    BY <1>2, <1>5, CopyWithRoom
  <2>2. \A k \in DOMAIN facts : \E j \in DOMAIN FoldResults(facts) : FoldResults(facts)[j].id = facts[k].id
    BY <1>4, <1>5 DEF KnowsAll, Has
  <2>3. ASSUME NEW k \in DOMAIN facts PROVE Has(copy, facts[k].id)
    <3>1. PICK j \in DOMAIN FoldResults(facts) : FoldResults(facts)[j].id = facts[k].id
      BY <2>2
    <3>2. Has(copy, FoldResults(facts)[j].id)
      BY <2>1
    <3> QED BY <3>1, <3>2
  <2> QED BY <2>3 DEF KnowsAll
<1>6. CASE st.results = FoldResults(facts)
  BY <1>2, <1>4, <1>6
<1>7. CASE st.results = copy
  BY <1>3, <1>5, <1>7
<1>8. ASSUME NEW w \in Workers, pc[w] = "dup", st.results = PutResult(copy, ResultOf(w, TRUE))
      PROVE  /\ st.results \in Cache(Remembered)
             /\ Len(st.results) < MaxResults /\ Len(facts) <= MaxResults => KnowsAll(st.results, facts)
  <2>1. pc[w] \in {"ready"} \union Holding
    BY <1>8 DEF Holding
  <2>2. ResultOf(w, TRUE) \in Remembered
    BY <2>1, AtWork, ResultRemembered
  <2>3. st.results \in Cache(Remembered)
    BY <1>3, <1>8, <2>2, PutResultType
  <2>4. ASSUME Len(st.results) < MaxResults, Len(facts) <= MaxResults PROVE KnowsAll(st.results, facts)
    <3>1. Len(copy) < MaxResults /\ \A id : Has(copy, id) => Has(st.results, id)
      BY <1>3, <1>8, <2>2, <2>4, PutWithRoom
    <3> QED BY <1>5, <2>4, <3>1 DEF KnowsAll
  <2> QED BY <2>3, <2>4
<1> QED BY <1>6, <1>7, <1>8 DEF Refolded

\* Only entries to remember are put into a cache.
LEMMA RememberedStep ==
  ASSUME IInv, CachesRemember, [Next]_vars, NEW o \in Objs
  PROVE  objs'[o].results \in Cache(Remembered)
<1> PICK st : st = objs'[o]
  OBVIOUS
<1>1. Becomes(o, st) /\ objs[o].results \in Cache(Remembered)
  BY ObjectStep DEF ObjStep, CachesRemember
<1>2. CASE st = NoState
  <2>1. NoState.results = <<>>
    BY DEF NoState
  <2>2. <<>> \in Seq(Remembered) /\ Len(<<>>) = 0 /\ MaxResults \in Nat
    BY ConstantsOK
  <2> QED BY <1>2, <2>1, <2>2 DEF Cache
<1>3. CASE Refolded(o, st)
  BY <1>3, RefoldKnowsAll
<1>4. ASSUME NEW w \in Workers, NEW ok \in BOOLEAN, pc[w] \in {"ready"} \union Holding,
             IsParticipationCommand(cmd[w]) => ok, st.results = PutResult(objs[o].results, ResultOf(w, ok))
      PROVE  st.results \in Cache(Remembered)
  <2>1. ResultOf(w, ok) \in Remembered
    BY <1>4, AtWork, ResultRemembered
  <2> QED BY <1>1, <1>4, <2>1, PutResultType
<1>5. CASE Rejected(o, st)
  BY <1>4, <1>5 DEF Rejected
<1>6. ASSUME NEW w \in Workers, NEW pos, ref[w] = o, Ready(w), Counted(w, st, pos)
      PROVE  st.results \in Cache(Remembered)
  <2>1. pc[w] \in {"ready"} \union Holding
    BY <1>6, ReadyMeans
  <2>2. st.results = PutResult(objs[o].results, ResultOf(w, TRUE))
    BY <1>6, <2>1, CountedFields
  <2> QED BY <1>4, <2>1, <2>2
<1>7. CASE SameView(st, objs[o]) \/ Reconciled(o, st)
  BY <1>1, <1>7 DEF SameView, Reconciled
<1> QED BY <1>1, <1>2, <1>3, <1>5, <1>6, <1>7 DEF Becomes, BlindDuplicate

\* What an up-to-date object is about to append and the log has, it remembers as
\* a rejection of an ordinary command.
LEMMA KnownAtAppend ==
  ASSUME IInv, KnowsFacts, NEW w \in Workers, Ready(w), Current(ref[w]),
         Item(cmd[w], step[w]).id \in Ids(log[cmd[w].iid])
  PROVE  /\ ~IsParticipationCommand(cmd[w])
         /\ \E k \in DOMAIN objs[ref[w]].results :
              ~objs[ref[w]].results[k].ok /\ objs[ref[w]].results[k].id = Item(cmd[w], step[w]).id
<1> PICK r : r = objs[ref[w]].results
  OBVIOUS
<1> PICK item : item = Item(cmd[w], step[w])
  OBVIOUS
<1>1. /\ cmd[w] \in Commands /\ step[w] \in 1..Steps(cmd[w]) /\ ref[w] \in Objs
      /\ objs[ref[w]].iid = cmd[w].iid
  BY ReadyMeans, AtWork
<1>2. Has(r, item.id)
  BY <1>1 DEF KnowsFacts, KnowsAll, Ids
<1>3. PICK k \in DOMAIN r : Get(r, item.id) = r[k] /\ r[k].id = item.id
  BY <1>2 DEF Has, Get
<1>4. ~r[k].ok
  BY <1>2, <1>3 DEF Ready, Decided
<1>5. Len(item.id) = 1
  <2>1. r \in Seq(Remembered)
    BY <1>1 DEF KnowsFacts, CachesRemember, Cache
  <2>2. r[k] \in Remembered
    BY <2>1
  <2> QED BY <1>3, <1>4, <2>2 DEF Remembered
<1>6. IsParticipationCommand(cmd[w]) => Len(item.id) = 3
  BY <1>1, SubFact
<1> QED BY <1>3, <1>4, <1>5, <1>6

\* An object that knows the log's facts counts no duplicate blindly.
LEMMA NoDuplicateIsBlind ==
  ASSUME IInv, KnowsFacts, NoStaleDuplicate
  PROVE  NoBlindDuplicate
<1> SUFFICES ASSUME NEW w \in Workers, BlindDuplicate(w) PROVE FALSE
  BY DEF NoBlindDuplicate
<1>1. Ready(w) /\ IsParticipationCommand(cmd[w]) /\ BrokerSays(w) = "dup" /\ Current(ref[w])
  BY DEF BlindDuplicate, NoStaleDuplicate
<1>2. cmd[w].iid \in Iids /\ <<cmd[w].iid, Item(cmd[w], step[w]).id>> \in dedup
  BY <1>1, ReadyMeans, AtWork, OutcomeMeans DEF BrokerSays
<1>3. Item(cmd[w], step[w]).id \in Ids(log[cmd[w].iid])
  BY <1>2, OriginalOK
<1> QED BY <1>1, <1>3, KnownAtAppend

\* Every step keeps what the up-to-date objects know of the log.
LEMMA KnowsFactsStep ==
  ASSUME IInv, IInv', DelayedOwed, [Next]_vars, NoStaleDuplicate, NoLateFind, CachesHaveRoom',
         KnowsFacts
  PROVE  KnowsFacts'
<1>1. ASSUME NEW o \in Objs, Current(o)' PROVE KnowsAll(objs'[o].results, log'[objs'[o].iid])
  <2> PICK st : st = objs'[o]
    OBVIOUS
  <2>1. CurrentCase(o) /\ LogOK
    BY <1>1, CurrentAfter DEF IInv
  <2>2. /\ Current(o) => KnowsAll(objs[o].results, log[objs[o].iid])
        /\ objs[o].results \in Cache(Remembered)
    BY DEF KnowsFacts, CachesRemember
  <2>3. Len(st.results) < MaxResults /\ \A i \in Iids : Len(log'[i]) <= MaxResults
    BY DEF CachesHaveRoom
  <2>4. CASE st.iid = objs[o].iid /\ log'[st.iid] = log[st.iid] /\ Current(o) /\ SameView(st, objs[o])
    BY <2>2, <2>4 DEF SameView
  <2>5. CASE st = NoState /\ log'[st.iid] = <<>>
    BY <2>5 DEF KnowsAll
  <2>6. CASE log' = log /\ Refolded(o, st)
    BY <2>3, <2>6, RefoldKnowsAll DEF Refolded, KnowsFacts
  <2>7. ASSUME NEW w \in Workers, NEW ok \in BOOLEAN, pc[w] \in {"ready"} \union Holding,
               IsParticipationCommand(cmd[w]) => ok,
               st.results = PutResult(objs[o].results, ResultOf(w, ok))
        PROVE  /\ Has(st.results, Item(cmd[w], step[w]).id)
               /\ \A id : Has(objs[o].results, id) => Has(st.results, id)
    <3>1. ResultOf(w, ok) \in Remembered /\ ResultOf(w, ok).id = Item(cmd[w], step[w]).id
      BY <2>7, AtWork, ResultRemembered
    <3>2. Len(PutResult(objs[o].results, ResultOf(w, ok))) < MaxResults
      BY <2>3, <2>7
    <3>3. /\ Has(PutResult(objs[o].results, ResultOf(w, ok)), ResultOf(w, ok).id)
          /\ \A id : Has(objs[o].results, id) => Has(PutResult(objs[o].results, ResultOf(w, ok)), id)
      BY <2>2, <3>1, <3>2, PutWithRoom
    <3> QED BY <2>7, <3>1, <3>3
  <2>8. CASE log' = log /\ Current(o) /\ Rejected(o, st)
    <3>1. \A id : Has(objs[o].results, id) => Has(st.results, id)
      BY <2>7, <2>8 DEF Rejected
    <3> QED BY <2>2, <2>8, <3>1 DEF KnowsAll, Rejected
  <2>9. ASSUME NEW w \in Workers, ref[w] = o, st.iid = objs[o].iid, Ready(w), Current(o),
               log'[st.iid] = Append(log[st.iid], FactOf(w)), Counted(w, st, lastSeq + 1)
        PROVE  KnowsAll(st.results, log'[st.iid])
    <3>1. pc[w] \in {"ready"} \union Holding
      BY <2>9, ReadyMeans
    <3>2. st.results = PutResult(objs[o].results, ResultOf(w, TRUE))
      BY <2>9, <3>1, CountedFields
    <3>3. /\ Has(st.results, Item(cmd[w], step[w]).id)
          /\ \A id : Has(objs[o].results, id) => Has(st.results, id)
      BY <2>7, <3>1, <3>2
    <3>4. FactOf(w) \in Facts /\ st.iid \in Iids /\ FactOf(w).id = Item(cmd[w], step[w]).id
      BY <2>9, FactOfSeq DEF Facts
    <3>5. log[st.iid] \in Seq(Facts)
      BY <2>1, <3>4, LastSeqOfLog
    <3>6. ASSUME NEW k \in DOMAIN Append(log[st.iid], FactOf(w))
          PROVE  Has(st.results, Append(log[st.iid], FactOf(w))[k].id)
      <4>1. CASE k \in DOMAIN log[st.iid]
        <5>1. Append(log[st.iid], FactOf(w))[k] = log[st.iid][k]
          BY <3>4, <3>5, <4>1
        <5> QED BY <2>2, <2>9, <3>3, <4>1, <5>1 DEF KnowsAll
      <4>2. CASE k = Len(log[st.iid]) + 1
        <5>1. Append(log[st.iid], FactOf(w))[k] = FactOf(w)
          BY <3>4, <3>5, <4>2
        <5> QED BY <3>3, <3>4, <5>1
      <4> QED BY <3>4, <3>5, <4>1, <4>2
    <3> QED BY <2>9, <3>6 DEF KnowsAll
  <2> QED BY <2>1, <2>4, <2>5, <2>6, <2>8, <2>9, NoDuplicateIsBlind
          DEF CurrentCase, NoLateFind, NoBlindDuplicate
<1>2. \A o \in Objs : objs'[o].results \in Cache(Remembered)
  BY RememberedStep DEF KnowsFacts
<1> QED BY <1>1, <1>2 DEF KnowsFacts, CachesRemember

\* No object holds a cache at the start.
LEMMA KnowsFactsInitially == Init => KnowsFacts
<1> SUFFICES ASSUME Init, NEW o \in Objs
             PROVE  /\ objs[o].results \in Cache(Remembered)
                    /\ Current(o) => KnowsAll(objs[o].results, log[objs[o].iid])
  BY DEF KnowsFacts, CachesRemember
<1>1. objs[o] = NoState /\ IInv
  BY InitOK DEF Init
<1>2. NoState.streamSeq = 0 /\ NoState.results = <<>> /\ NoState.iid \in Iids
  BY ConstantsOK DEF NoState
<1>3. objs[o].iid \in Iids /\ objs[o].results = <<>> /\ (Current(o) => LastPos(log[objs[o].iid]) = 0)
  BY <1>1, <1>2 DEF Current
<1>4. Current(o) => log[objs[o].iid] = <<>>
  BY <1>1, <1>3, LastPosType DEF IInv
<1>5. <<>> \in Seq(Remembered) /\ Len(<<>>) = 0 /\ MaxResults \in Nat
  BY ConstantsOK
<1> QED BY <1>3, <1>4, <1>5 DEF Cache, KnowsAll

\* The caches hold entries to remember at any time.
LEMMA CachesRememberAlways == Spec => [](IInv /\ CachesRemember)
<1>1. Init => CachesRemember
  BY KnowsFactsInitially DEF KnowsFacts
<1>2. IInv /\ CachesRemember /\ [Next]_vars => CachesRemember'
  <2> SUFFICES ASSUME IInv, CachesRemember, [Next]_vars PROVE CachesRemember'
    OBVIOUS
  <2>1. \A o \in Objs : objs'[o].results \in Cache(Remembered)
    BY RememberedStep
  <2> QED BY <2>1 DEF CachesRemember
<1> QED BY <1>1, <1>2, Invariance, PTL DEF Spec

\* Under the three conditions the up-to-date objects know the log's facts.
LEMMA KnowsFactsAlways ==
  Spec /\ [](NoStaleDuplicate /\ NoLateFind /\ CachesHaveRoom) => [](IInv /\ KnowsFacts)
<1>1. IInv /\ IInv' /\ DelayedOwed /\ NoStaleDuplicate /\ NoLateFind /\ CachesHaveRoom' /\ KnowsFacts
        /\ [Next]_vars => KnowsFacts'
  BY KnowsFactsStep
<1> QED BY <1>1, KnowsFactsInitially, AppendsAreOwed, PTL DEF Spec

\* While the dedup caches have room for every result, appendParticipationFact never
\* gets a duplicate to count: an object that is up to date has the sub-fact on
\* record and answers from there, and one that is not loses the OCC race first.
THEOREM DuplicatesAreKnown ==
  Spec /\ [](NoStaleDuplicate /\ NoLateFind /\ CachesHaveRoom) => []NoBlindDuplicate
<1>1. IInv /\ KnowsFacts /\ NoStaleDuplicate => NoBlindDuplicate
  BY NoDuplicateIsBlind
<1> QED BY <1>1, KnowsFactsAlways, PTL

-----------------------------------------------------------------------------
(* No id twice beyond the dedup window. *)

\* No object that is up to date remembers as rejected what the log has: after a
\* re-fold copyMissingResults would keep the object's own, older rejection.
NoHiddenCommit ==
  \A o \in Objs : Current(o) =>
    \A k \in DOMAIN objs[o].results :
      ~objs[o].results[k].ok => objs[o].results[k].id \notin Ids(log[objs[o].iid])

\* An append whose expectation holds is not in the log.
DelayedIsNew == \A d \in delayed : StillExpected(d) => d.fact.id \notin Ids(log[d.iid])

\* What a worker with an up-to-date object sends is not in the log.
LEMMA SentIsNew ==
  ASSUME IInv, KnowsFacts, NoHiddenCommit, NEW w \in Workers, Ready(w), Current(ref[w])
  PROVE  FactOf(w).id \notin Ids(log[cmd[w].iid])
<1>1. FactOf(w).id = Item(cmd[w], step[w]).id /\ ref[w] \in Objs /\ objs[ref[w]].iid = cmd[w].iid
  BY FactOfSeq
<1> QED BY <1>1, KnownAtAppend DEF NoHiddenCommit

\* Every step keeps the delayed appends new to the log.
LEMMA DelayedIsNewStep ==
  ASSUME IInv, DelayedOwed, [Next]_vars, KnowsFacts, NoHiddenCommit, DelayedIsNew
  PROVE  DelayedIsNew'
<1> SUFFICES ASSUME NEW d \in delayed', StillExpected(d)' PROVE d.fact.id \notin Ids(log'[d.iid])
  BY DEF DelayedIsNew, Ids
<1>1. CASE d \in delayed /\ StillExpected(d) /\ log'[d.iid] = log[d.iid]
  BY <1>1 DEF DelayedIsNew
<1>2. ASSUME NEW w \in Workers, log' = log, Ready(w), Current(ref[w]), d.iid = cmd[w].iid, d.fact = FactOf(w)
      PROVE  d.fact.id \notin Ids(log'[d.iid])
  BY <1>2, SentIsNew
<1> QED BY <1>1, <1>2, ExpectedAfter

\* A step appends no id the log already has.
LEMMA NewIdStep ==
  ASSUME IInv, DelayedOwed, [Next]_vars, KnowsFacts, NoHiddenCommit, DelayedIsNew, ExactlyOnce
  PROVE  ExactlyOnce'
<1>1. LogMoves /\ LogOK
  BY LogMovesStep DEF IInv
<1>2. CASE log' = log
  BY <1>2 DEF ExactlyOnce
<1>3. ASSUME NEW i, NEW f, Takes(i, f), TakenFrom(i, f) PROVE ExactlyOnce'
  <2> PICK n : n = Len(log[i])
    OBVIOUS
  <2>1. /\ i \in Iids /\ n \in Nat /\ DOMAIN log[i] = 1..n /\ DOMAIN log'[i] = 1..(n + 1)
        /\ log'[i][n + 1] = f
        /\ \A k \in DOMAIN log[i] : log'[i][k] = log[i][k]
        /\ \A j \in Iids : j # i => log'[j] = log[j]
    BY <1>1, <1>3, TakenLog
  <2>2. f.id \notin Ids(log[i])
    <3>1. ASSUME NEW w \in Workers, Ready(w), Current(ref[w]), i = cmd[w].iid, f = FactOf(w)
          PROVE  f.id \notin Ids(log[i])
      BY <3>1, SentIsNew
    <3>2. ASSUME NEW d \in delayed, StillExpected(d), i = d.iid, f.id = d.fact.id
          PROVE  f.id \notin Ids(log[i])
      BY <3>2 DEF DelayedIsNew
    <3> QED BY <1>3, <3>1, <3>2, TakenWhileCurrent
  <2>3. \A k \in DOMAIN log[i] : log[i][k].id # f.id
    BY <2>2 DEF Ids
  <2> SUFFICES ASSUME NEW j \in Iids, NEW g \in DOMAIN log'[j], NEW h \in DOMAIN log'[j],
                      log'[j][g].id = log'[j][h].id
               PROVE  g = h
    BY DEF ExactlyOnce
  <2>4. CASE j # i
    BY <2>1, <2>4 DEF ExactlyOnce
  <2>5. \A k \in DOMAIN log'[i] : k \in DOMAIN log[i] \/ k = n + 1
    BY <2>1
  <2>6. CASE j = i /\ g \in DOMAIN log[i] /\ h \in DOMAIN log[i]
    BY <2>1, <2>6 DEF ExactlyOnce
  <2>7. CASE j = i /\ ~(g \in DOMAIN log[i] /\ h \in DOMAIN log[i])
    BY <2>1, <2>3, <2>5, <2>7
  <2> QED BY <2>4, <2>6, <2>7
<1> QED BY <1>1, <1>2, <1>3 DEF LogMoves

\* No command id has two facts even when facts outlive the broker's dedup window,
\* so that only OCC and the routers' caches are left to tell a retry: an append
\* gets through from an object that is up to date only, and with room such an
\* object knows every fact of the log, unless its own rejection hides it.
THEOREM NoIdTwiceBeyondTheWindow ==
  ExactlyOnce /\ Spec /\ [](NoStaleDuplicate /\ NoLateFind /\ CachesHaveRoom /\ NoHiddenCommit)
    => []ExactlyOnce
<1>1. IInv /\ DelayedOwed /\ KnowsFacts /\ NoHiddenCommit /\ DelayedIsNew /\ [Next]_vars => DelayedIsNew'
  BY DelayedIsNewStep
<1>2. IInv /\ DelayedOwed /\ KnowsFacts /\ NoHiddenCommit /\ DelayedIsNew /\ ExactlyOnce /\ [Next]_vars
        => ExactlyOnce'
  BY NewIdStep
<1>3. Init => DelayedIsNew
  BY DEF Init, DelayedIsNew
<1>4. Spec /\ [](NoStaleDuplicate /\ NoLateFind /\ CachesHaveRoom /\ NoHiddenCommit)
        => [](IInv /\ KnowsFacts)
  BY KnowsFactsAlways, PTL
<1> QED BY <1>1, <1>2, <1>3, <1>4, AppendsAreOwed, PTL DEF Spec

-----------------------------------------------------------------------------
(* What is accepted was committed with its payload. *)

\* The n-th fact of command c is in log L, with the payload of c or with none.
Written(L, c, n) ==
  \E k \in DOMAIN L[c.iid] : /\ L[c.iid][k].id = Item(c, n).id
                             /\ L[c.iid][k].hash \in {NoHash, Item(c, n).hash}

\* A failed append that turns out to be in the log is accepted without a look at
\* the payload found there (reconcile): it is never another one's.
NoForeignFind == \A w \in Workers : FoundLater(w) => Written(log, cmd[w], step[w])

\* Entries of which the accepted ones have the payload of a fact.
Backed(facts) ==
  {e \in Entries : e.ok => \E k \in DOMAIN facts : facts[k].id = e.id /\ facts[k].hash = e.hash}

\* The facts a worker has passed are written with its payload.
PassedAreWritten(w) ==
  pc[w] # "idle" => /\ \A n \in 1..(step[w] - 1) : Written(log, cmd[w], n)
                    /\ pc[w] = "finish" => \A n \in 1..Steps(cmd[w]) : Written(log, cmd[w], n)

AnswersAreBacked ==
  /\ \A o \in Objs : objs[o].results \in Cache(Backed(log[objs[o].iid]))
  /\ \A w \in Workers : PassedAreWritten(w)

\* How a worker goes on: it replies, takes a command, stays with its fact, or goes
\* on to the next one when the current one is written.
GoesOn(w) ==
  \/ pc'[w] = "idle"
  \/ step'[w] = 1 /\ pc'[w] # "finish"
  \/ /\ pc[w] # "idle" /\ cmd'[w] = cmd[w] /\ step'[w] = step[w]
     /\ pc'[w] = "finish" => pc[w] = "finish"
  \/ /\ pc[w] # "idle" /\ cmd'[w] = cmd[w] /\ Written(log', cmd[w], step[w])
     /\ \/ step'[w] = step[w] + 1 /\ pc'[w] # "finish"
        \/ step'[w] = step[w] /\ step[w] = Steps(cmd[w])

\* Which commands are newly answered accepted.
AnswersOn ==
  \A c \in accepted' : \/ c \in accepted
                       \/ \E w \in Workers : /\ c = cmd[w] /\ pc[w] # "idle"
                                             /\ \/ pc[w] = "finish"
                                                \/ Steps(c) = 1 /\ Written(log', c, 1)

WorkersGoOnWritten == (\A w \in Workers : GoesOn(w)) /\ AnswersOn

\* A step that moves no worker and answers nothing.
LEMMA QuietGoesOn ==
  ASSUME IInv, UNCHANGED <<pc, cmd, step, accepted>>
  PROVE  WorkersGoOnWritten
BY DEF WorkersGoOnWritten, GoesOn, AnswersOn

\* A step that only moves one worker to another label.
LEMMA GotoGoesOn ==
  ASSUME IInv, NEW w \in Workers, pc[w] # "idle", UNCHANGED <<cmd, step, accepted>>,
         NEW label, label # "finish", pc' = [pc EXCEPT ![w] = label]
  PROVE  WorkersGoOnWritten
<1>1. pc \in [Workers -> Labels]
  BY DEF IInv, ControlOK, WorkersType
<1>2. pc'[w] = label /\ \A v \in Workers \ {w} : pc'[v] = pc[v]
  BY <1>1
<1> QED BY <1>2 DEF WorkersGoOnWritten, GoesOn, AnswersOn

\* A reply, accepting only what is written.
LEMMA ReplyGoesOn ==
  ASSUME IInv, NEW w \in Workers, pc[w] # "idle", NEW ok \in BOOLEAN, Reply(w, ok),
         ok => pc[w] = "finish" \/ (Steps(cmd[w]) = 1 /\ Written(log', cmd[w], 1))
  PROVE  WorkersGoOnWritten
<1>1. WorkersType
  BY DEF IInv, ControlOK
<1>2. /\ pc'[w] = "idle"
      /\ \A v \in Workers \ {w} : pc'[v] = pc[v] /\ cmd'[v] = cmd[v] /\ step'[v] = step[v]
  BY <1>1 DEF Reply, WorkersType
<1>3. accepted' = IF ok THEN accepted \union {cmd[w]} ELSE accepted
  BY DEF Reply
<1>4. \A v \in Workers : GoesOn(v)
  BY <1>2 DEF GoesOn
<1>5. AnswersOn
  BY <1>3 DEF AnswersOn
<1> QED BY <1>4, <1>5 DEF WorkersGoOnWritten

\* A settled item, accepted only when it is written.
LEMMA SettleGoesOn ==
  ASSUME IInv, NEW w \in Workers, pc[w] # "idle", NEW ok \in BOOLEAN, Settle(w, ok),
         ok => Written(log', cmd[w], step[w])
  PROVE  WorkersGoOnWritten
<1>1. WorkersType /\ cmd[w] \in Commands /\ step[w] \in 1..Steps(cmd[w])
  BY DEF IInv, ControlOK, WorkerOK
<1>2. CASE ok /\ IsParticipationCommand(cmd[w])
  <2>1. /\ cmd' = cmd /\ accepted' = accepted
        /\ pc'[w] = IF step[w] < Steps(cmd[w]) THEN "load" ELSE "finish"
        /\ step'[w] = IF step[w] < Steps(cmd[w]) THEN step[w] + 1 ELSE step[w]
        /\ \A v \in Workers \ {w} : pc'[v] = pc[v] /\ step'[v] = step[v]
    BY <1>1, <1>2 DEF Settle, NextFact, WorkersType
  <2>2. Steps(cmd[w]) \in Nat
    BY StepsType
  <2>3. GoesOn(w)
    BY <1>1, <1>2, <2>1, <2>2 DEF GoesOn
  <2>4. \A v \in Workers \ {w} : GoesOn(v)
    BY <2>1 DEF GoesOn
  <2> QED BY <2>1, <2>3, <2>4 DEF WorkersGoOnWritten, AnswersOn
<1>3. CASE ~(ok /\ IsParticipationCommand(cmd[w]))
  <2>1. Reply(w, ok)
    BY <1>3 DEF Settle
  <2>2. ok => Steps(cmd[w]) = 1
    BY <1>3 DEF Steps
  <2>3. ok => step[w] = 1
    BY <1>1, <2>2
  <2> QED BY <2>1, <2>2, <2>3, ReplyGoesOn
<1> QED BY <1>2, <1>3

\* An accepted entry of the same payload, or of none, answers for the payload.
LEMMA StoredIsWritten ==
  ASSUME NEW st, NEW c, NEW n, Has(st.results, Item(c, n).id), StoredAnswer(st, Item(c, n)),
         st.results \in Cache(Backed(log[c.iid]))
  PROVE  Written(log, c, n)
<1> PICK item : item = Item(c, n)
  OBVIOUS
<1>1. PICK k \in DOMAIN st.results : /\ st.results[k].id = item.id
                                     /\ Get(st.results, item.id) = st.results[k]
  BY DEF Has, Get
<1>2. st.results[k] \in Backed(log[c.iid])
  <2>1. st.results \in Seq(Backed(log[c.iid]))
    BY DEF Cache
  <2> QED BY <2>1
<1>3. st.results[k].ok /\ st.results[k].hash \in {NoHash, item.hash}
  BY <1>1 DEF StoredAnswer
<1>4. PICK h \in DOMAIN log[c.iid] : /\ log[c.iid][h].id = st.results[k].id
                                     /\ log[c.iid][h].hash = st.results[k].hash
  BY <1>2, <1>3 DEF Backed
<1> QED BY <1>1, <1>3, <1>4 DEF Written

\* The results folded from a log are backed by it.
LEMMA FoldBacked ==
  ASSUME NEW s \in Seq(Facts), Len(s) <= MaxResults
  PROVE  FoldResults(s) \in Cache(Backed(s))
<1>1. FoldResults(s) \in Seq(Entries) /\ Len(FoldResults(s)) <= MaxResults
  BY FoldResultsType DEF Cache
<1>2. FoldResults(s) = [k \in DOMAIN s |-> [id |-> s[k].id, hash |-> s[k].hash, ok |-> TRUE]]
  BY FoldKnowsAll
<1>3. \A k \in DOMAIN FoldResults(s) : FoldResults(s)[k] \in Backed(s)
  <2> SUFFICES ASSUME NEW k \in DOMAIN s PROVE FoldResults(s)[k] \in Backed(s)
    BY <1>2
  <2>1. FoldResults(s)[k].id = s[k].id /\ FoldResults(s)[k].hash = s[k].hash
    BY <1>2
  <2>2. FoldResults(s)[k] \in Entries
    <3>1. k \in DOMAIN FoldResults(s)
      BY <1>2
    <3> QED BY <1>1, <3>1
  <2> QED BY <2>1, <2>2 DEF Backed
<1>4. FoldResults(s) \in Seq(Backed(s))
  <2> PICK t : t = FoldResults(s)
    OBVIOUS
  <2> QED BY <1>1, <1>3
<1> QED BY <1>1, <1>4 DEF Cache

\* The cache of a re-fold is backed.
LEMMA CopyBacked ==
  ASSUME IInv, AnswersAreBacked, CachesHaveRoom, NEW o \in Objs, NEW i \in Iids, objs[o].iid = i
  PROVE  CopyMissingResults(objs[o].results, FoldResults(log[i])) \in Cache(Backed(log[i]))
<1>1. log[i] \in Seq(Facts) /\ Len(log[i]) <= MaxResults
  BY DEF IInv, LogOK, LogInv, CachesHaveRoom
<1>2. FoldResults(log[i]) \in Seq(Backed(log[i])) /\ objs[o].results \in Cache(Backed(log[i]))
  BY <1>1, FoldBacked DEF Cache, AnswersAreBacked
<1> QED BY <1>2, CopyMissingType

\* A duplicate of an ordinary command has its result on record after the re-fold.
LEMMA DuplicateIsOnRecord ==
  ASSUME IInv, CachesRemember, CachesHaveRoom, NEW w \in Workers, pc[w] = "dup", NEW o \in Objs,
         NEW copy, copy = CopyMissingResults(objs[o].results, FoldResults(log[cmd[w].iid])),
         Len(PutResult(copy, ResultOf(w, TRUE))) < MaxResults
  PROVE  Has(copy, Item(cmd[w], step[w]).id)
<1> PICK facts : facts = log[cmd[w].iid]
  OBVIOUS
<1>1. pc[w] \in {"ready"} \union Holding
  BY DEF Holding
<1>2. cmd[w] \in Commands /\ cmd[w].iid \in Iids /\ step[w] \in 1..Steps(cmd[w])
  BY <1>1, AtWork
<1>3. facts \in Seq(Facts) /\ Len(facts) <= MaxResults
  BY <1>2 DEF IInv, LogOK, LogInv, CachesHaveRoom
<1>4. PICK k \in DOMAIN facts : facts[k].id = Item(cmd[w], step[w]).id
  BY DEF IInv, ControlOK, WorkerOK, Durable, Ids
<1>5. /\ FoldResults(facts) \in Seq(Remembered) /\ objs[o].results \in Cache(Remembered)
      /\ ResultOf(w, TRUE) \in Remembered
  BY <1>2, <1>3, FoldRemembered, ResultRemembered DEF Cache, CachesRemember
<1>6. copy \in Cache(Remembered)
  BY <1>5, CopyMissingType
<1>7. Len(copy) < MaxResults
  BY <1>5, <1>6, PutWithRoom
<1>8. \A j \in DOMAIN FoldResults(facts) : Has(copy, FoldResults(facts)[j].id)
  BY <1>5, <1>7, CopyWithRoom
<1>9. PICK j \in DOMAIN FoldResults(facts) : FoldResults(facts)[j].id = facts[k].id
  BY <1>3, FoldKnowsAll DEF KnowsAll, Has
<1> QED BY <1>4, <1>8, <1>9

\* A log keeps its facts.
LEMMA LogKeeps ==
  ASSUME LogOK, BrokerStep, NEW i \in Iids
  PROVE  DOMAIN log[i] \subseteq DOMAIN log'[i] /\ \A k \in DOMAIN log[i] : log'[i][k] = log[i][k]
<1>1. CASE log' = log
  BY <1>1
<1>2. ASSUME NEW j, NEW f, Takes(j, f)
      PROVE  DOMAIN log[i] \subseteq DOMAIN log'[i] /\ \A k \in DOMAIN log[i] : log'[i][k] = log[i][k]
  <2>1. CASE j = i
    BY <1>2, <2>1, TakenLog
  <2>2. CASE j # i
    <3>1. log'[i] = log[i]
      BY <1>2, <2>2, TakenLog
    <3> QED BY <3>1
  <2> QED BY <2>1, <2>2
<1> QED BY <1>1, <1>2 DEF BrokerStep

\* A backed result stays backed as the log grows.
LEMMA BackedStays ==
  ASSUME LogOK, BrokerStep, NEW i \in Iids, NEW s \in Cache(Backed(log[i]))
  PROVE  s \in Cache(Backed(log'[i]))
<1>1. DOMAIN log[i] \subseteq DOMAIN log'[i] /\ \A k \in DOMAIN log[i] : log'[i][k] = log[i][k]
  BY LogKeeps
<1>2. Backed(log[i]) \subseteq Backed(log'[i])
  BY <1>1 DEF Backed
<1>3. s \in Seq(Backed(log[i])) /\ Len(s) <= MaxResults
  BY DEF Cache
<1>4. s \in Seq(Backed(log'[i]))
  BY <1>2, <1>3
<1> QED BY <1>3, <1>4 DEF Cache

\* Every step keeps the remembered acceptances backed by the log.
LEMMA BackedStep ==
  ASSUME IInv, [Next]_vars, DelayedOwed, CachesRemember, NoBlindDuplicate, CachesHaveRoom, CachesHaveRoom',
         AnswersAreBacked, NEW o \in Objs
  PROVE  objs'[o].results \in Cache(Backed(log'[objs'[o].iid]))
<1> PICK st : st = objs'[o]
  OBVIOUS
<1>1. /\ Becomes(o, st) /\ LogOK /\ BrokerStep /\ objs[o].iid \in Iids
      /\ objs[o].results \in Cache(Backed(log[objs[o].iid]))
  BY ObjectStep, LogStep DEF ObjStep, AnswersAreBacked, IInv, ObjsOK, State
<1>2. objs[o].results \in Cache(Backed(log'[objs[o].iid]))
  BY <1>1, BackedStays
<1>3. CASE SameView(st, objs[o]) \/ Reconciled(o, st)
  BY <1>2, <1>3 DEF SameView, Reconciled
<1>4. CASE st = NoState
  <2>1. NoState.results = <<>>
    BY DEF NoState
  <2>2. <<>> \in Seq(Backed(log'[st.iid])) /\ Len(<<>>) = 0 /\ MaxResults \in Nat
    BY ConstantsOK
  <2> QED BY <1>4, <2>1, <2>2 DEF Cache
<1>5. CASE log' = log /\ Refolded(o, st)
  <2> PICK copy : copy = CopyMissingResults(objs[o].results, FoldResults(log[st.iid]))
    OBVIOUS
  <2>1. st.iid \in Iids /\ log[st.iid] \in Seq(Facts) /\ Len(log[st.iid]) <= MaxResults
    BY <1>1, <1>5 DEF Refolded, LogOK, LogInv, CachesHaveRoom
  <2>2. FoldResults(log[st.iid]) \in Cache(Backed(log[st.iid]))
    BY <2>1, FoldBacked
  <2>3. st.iid = objs[o].iid => copy \in Cache(Backed(log[st.iid]))
    BY <2>1, CopyBacked
  <2>4. ASSUME NEW w \in Workers, pc[w] = "dup", cmd[w].iid = st.iid, ~Has(copy, Item(cmd[w], step[w]).id),
               st.results = PutResult(copy, ResultOf(w, TRUE))
        PROVE  FALSE
    <3>1. Len(PutResult(copy, ResultOf(w, TRUE))) < MaxResults
      BY <2>4 DEF CachesHaveRoom
    <3> QED BY <2>4, <3>1, DuplicateIsOnRecord
  <2> QED BY <1>5, <2>2, <2>3, <2>4 DEF Refolded
<1>6. CASE log' = log /\ Rejected(o, st)
  <2>1. PICK w \in Workers : /\ pc[w] \in {"ready"} \union Holding
                             /\ st.results = PutResult(objs[o].results, ResultOf(w, FALSE))
    BY <1>6 DEF Rejected
  <2>2. ResultOf(w, FALSE) \in Entries /\ ResultOf(w, FALSE).ok = FALSE
    BY <2>1, AtWork, ItemFacts DEF ResultOf
  <2>3. ResultOf(w, FALSE) \in Backed(log'[st.iid])
    BY <2>2 DEF Backed
  <2>4. st.iid = objs[o].iid
    BY <1>6 DEF Rejected
  <2> QED BY <1>2, <2>1, <2>3, <2>4, PutResultType
<1>7. ASSUME NEW w \in Workers, ref[w] = o, Ready(w), BrokerSays(w) = "commit",
             Commit(cmd[w].iid, FactOf(w)), Counted(w, st, lastSeq + 1)
      PROVE  st.results \in Cache(Backed(log'[st.iid]))
  <2>1. pc[w] \in {"ready"} \union Holding
    BY <1>7, ReadyMeans
  <2>2. st.iid = cmd[w].iid /\ st.results = PutResult(objs[o].results, ResultOf(w, TRUE))
    BY <1>7, <2>1, CountedFields
  <2>3. /\ FactOf(w).id = Item(cmd[w], step[w]).id /\ FactOf(w).hash = Item(cmd[w], step[w]).hash
        /\ objs[o].iid = st.iid
    BY <1>7, <2>2, FactOfSeq
  <2>4. Takes(cmd[w].iid, FactOf(w))
    BY <1>7, WorkerTakes DEF FactOf
  <2>5. /\ Len(log[st.iid]) + 1 \in DOMAIN log'[st.iid]
        /\ log'[st.iid][Len(log[st.iid]) + 1] = FactOf(w)
    BY <1>1, <2>2, <2>4, TakenLog
  <2>6. /\ ResultOf(w, TRUE) \in Entries /\ ResultOf(w, TRUE).id = Item(cmd[w], step[w]).id
        /\ ResultOf(w, TRUE).hash = Item(cmd[w], step[w]).hash
    BY <2>1, AtWork, ItemFacts DEF ResultOf
  <2>7. ResultOf(w, TRUE) \in Backed(log'[st.iid])
    BY <2>3, <2>5, <2>6 DEF Backed
  <2> QED BY <1>2, <2>2, <2>3, <2>7, PutResultType
<1> QED BY <1>1, <1>3, <1>4, <1>5, <1>6, <1>7 DEF Becomes, NoBlindDuplicate

\* A received command has written nothing yet.
LEMMA ReceiveGoesOn ==
  ASSUME IInv, NEW w \in Workers, NEW c \in Commands, Receive(w, c)
  PROVE  WorkersGoOnWritten
<1>1. WorkersType /\ step[w] = 1
  BY DEF IInv, ControlOK, WorkerOK, Receive
<1>2. /\ step' = step /\ accepted' = accepted
      /\ pc'[w] \in {"prelude", "load"}
      /\ \A v \in Workers \ {w} : pc'[v] = pc[v] /\ cmd'[v] = cmd[v]
  BY <1>1 DEF Receive, WorkersType
<1> QED BY <1>1, <1>2 DEF WorkersGoOnWritten, GoesOn, AnswersOn

\* A crash leaves its workers idle.
LEMMA CrashGoesOn ==
  ASSUME IInv, NEW r \in Routers, Crash(r)
  PROVE  WorkersGoOnWritten
<1>1. \A w \in Workers : \/ pc'[w] = "idle"
                         \/ pc'[w] = pc[w] /\ cmd'[w] = cmd[w] /\ step'[w] = step[w]
  BY DEF Crash
<1>2. accepted' = accepted
  BY DEF Crash
<1> QED BY <1>1, <1>2 DEF WorkersGoOnWritten, GoesOn, AnswersOn

\* A committed append has written its item.
LEMMA AppendCommitsGoesOn ==
  ASSUME IInv, NEW w \in Workers, AppendCommits(w)
  PROVE  WorkersGoOnWritten
<1>1. /\ Ready(w) /\ BrokerSays(w) = "commit" /\ Commit(cmd[w].iid, FactOf(w)) /\ Settle(w, TRUE)
  BY DEF AppendCommits, FactOf
<1>2. pc[w] # "idle" /\ FactOf(w).id = Item(cmd[w], step[w]).id
      /\ FactOf(w).hash = Item(cmd[w], step[w]).hash
  BY <1>1, ReadyMeans, AtWork, FactOfSeq
<1>3. Takes(cmd[w].iid, FactOf(w)) /\ LogOK
  BY <1>1, WorkerTakes DEF FactOf, IInv
<1>4. /\ Len(log[cmd[w].iid]) + 1 \in DOMAIN log'[cmd[w].iid]
      /\ log'[cmd[w].iid][Len(log[cmd[w].iid]) + 1] = FactOf(w)
  BY <1>3, TakenLog
<1>5. Written(log', cmd[w], step[w])
  BY <1>2, <1>4 DEF Written
<1> QED BY <1>1, <1>2, <1>5, SettleGoesOn

\* An acceptance from the cache is backed by the log.
LEMMA AnswerStoredGoesOn ==
  ASSUME IInv, AnswersAreBacked, NEW w \in Workers, AnswerStored(w)
  PROVE  WorkersGoOnWritten
<1> PICK ok : ok = StoredAnswer(objs[ref[w]], Item(cmd[w], step[w]))
  OBVIOUS
<1>1. /\ pc[w] \in {"ready"} \union Holding /\ Has(objs[ref[w]].results, Item(cmd[w], step[w]).id)
      /\ Settle(w, ok) /\ log' = log
  BY DEF AnswerStored, AtLoopHead, Holding, Decided, brokerVars
<1>2. pc[w] # "idle" /\ ref[w] \in Objs /\ objs[ref[w]].iid = cmd[w].iid
  BY <1>1, AtWork
<1>3. ok => Written(log', cmd[w], step[w])
  BY <1>1, <1>2, StoredIsWritten DEF AnswersAreBacked
<1>4. ok \in BOOLEAN
  BY DEF StoredAnswer
<1> QED BY <1>1, <1>2, <1>3, <1>4, SettleGoesOn

\* A reconciled item is accepted when the replayed log holds it.
LEMMA ReconcileGoesOn ==
  ASSUME IInv, NoForeignFind, ~ReplayFails, NEW w \in Workers, Reconcile(w)
  PROVE  WorkersGoOnWritten
<1>1. pc[w] = "failed" /\ pc[w] \in {"ready"} \union Holding /\ log' = log
  BY DEF Reconcile, Holding, brokerVars
<1>2. cmd[w].iid \in Iids /\ log[cmd[w].iid] \in Seq(Facts) /\ pc[w] # "idle"
  BY <1>1, AtWork DEF IInv, LogOK, LogInv
<1>3. Rebuild(cmd[w].iid).results = FoldResults(log[cmd[w].iid])
  BY DEF Rebuild
<1>4. ASSUME Has(Rebuild(cmd[w].iid).results, Item(cmd[w], step[w]).id)
      PROVE  Written(log', cmd[w], step[w])
  <2>1. FoundLater(w)
    BY <1>1, <1>2, <1>3, <1>4, FoldResultsType DEF Has, FoundLater
  <2>2. Written(log, cmd[w], step[w])
    BY <2>1 DEF NoForeignFind
  <2> QED BY <1>1, <2>2 DEF Written
<1>5. \/ Has(Rebuild(cmd[w].iid).results, Item(cmd[w], step[w]).id) /\ Settle(w, TRUE)
      \/ Settle(w, FALSE)
  BY DEF Reconcile
<1> QED BY <1>2, <1>4, <1>5, SettleGoesOn

\* A duplicate is answered from a cache that the log backs.
LEMMA ReconcileDupGoesOn ==
  ASSUME IInv, CachesRemember, CachesHaveRoom, CachesHaveRoom', AnswersAreBacked, ~ReplayFails,
         NEW w \in Workers, ReconcileDup(w)
  PROVE  WorkersGoOnWritten
<1> PICK st : st = Refresh(objs[ref[w]], Rebuild(cmd[w].iid))
  OBVIOUS
<1> PICK ok : ok = StoredAnswer(st, Item(cmd[w], step[w]))
  OBVIOUS
<1> PICK st2 : st2 = [st EXCEPT !.results = PutResult(@, ResultOf(w, TRUE))]
  OBVIOUS
<1>1. pc[w] = "dup" /\ pc[w] \in {"ready"} \union Holding /\ log' = log
  BY DEF ReconcileDup, Holding, brokerVars
<1>2. /\ ref[w] \in Objs /\ objs[ref[w]].iid = cmd[w].iid /\ cmd[w].iid \in Iids /\ pc[w] # "idle"
      /\ objs \in [Objs -> State]
  BY <1>1, AtWork DEF IInv, ObjsOK
<1>3. /\ st.results = CopyMissingResults(objs[ref[w]].results, FoldResults(log[cmd[w].iid]))
      /\ DOMAIN st = {"iid", "seq", "streamSeq", "status", "results", "part", "parents", "poisoned"}
  BY <1>1, RefreshRefolds
<1>4. \/ Has(st.results, Item(cmd[w], step[w]).id) /\ Settle(w, ok)
      \/ ~Has(st.results, Item(cmd[w], step[w]).id) /\ objs' = [objs EXCEPT ![ref[w]] = st2]
  BY DEF ReconcileDup, ReplayFailure, ResultOf
<1>5. ASSUME ~Has(st.results, Item(cmd[w], step[w]).id), objs' = [objs EXCEPT ![ref[w]] = st2] PROVE FALSE
  <2>1. objs'[ref[w]].results = PutResult(st.results, ResultOf(w, TRUE))
    BY <1>2, <1>3, <1>5
  <2>2. Len(PutResult(st.results, ResultOf(w, TRUE))) < MaxResults
    BY <1>2, <2>1 DEF CachesHaveRoom
  <2> QED BY <1>1, <1>2, <1>3, <1>5, <2>2, DuplicateIsOnRecord
<1>6. st.results \in Cache(Backed(log[cmd[w].iid]))
  BY <1>2, <1>3, CopyBacked
<1>7. Has(st.results, Item(cmd[w], step[w]).id) /\ ok => Written(log', cmd[w], step[w])
  BY <1>1, <1>6, StoredIsWritten
<1>8. ok \in BOOLEAN
  BY DEF StoredAnswer
<1> QED BY <1>2, <1>4, <1>5, <1>7, <1>8, SettleGoesOn

\* Every step of a worker on its command.
LEMMA WorkGoesOn ==
  ASSUME IInv, CachesRemember, NoBlindDuplicate, NoForeignFind, CachesHaveRoom, CachesHaveRoom',
         AnswersAreBacked, ~ReplayFails, NEW w \in Workers, Work(w)
  PROVE  WorkersGoOnWritten
<1>1. ASSUME pc[w] # "idle", Settle(w, FALSE) PROVE WorkersGoOnWritten
  BY <1>1, SettleGoesOn
<1>2. ASSUME pc[w] # "idle", NEW label, label # "finish", Goto(w, label) PROVE WorkersGoOnWritten
  BY <1>2, GotoGoesOn DEF Goto
<1>3. Ready(w) => pc[w] # "idle"
  BY ReadyMeans DEF Holding
<1>4. ASSUME NEW o, pc[w] # "idle", Hold(w, o) PROVE WorkersGoOnWritten
  BY <1>4, GotoGoesOn DEF Hold
<1>5. CASE GetCached(w) \/ GetRebuilt(w)
  BY <1>4, <1>5 DEF GetCached, GetRebuilt
<1>6. CASE GetFails(w) \/ RejectPoisoned(w) \/ RejectNonMember(w) \/ RejectIllegal(w)
  BY <1>1, <1>6 DEF GetFails, RejectPoisoned, RejectNonMember, RejectIllegal, AtLoopHead
<1>7. CASE CheckParents(w)
  BY <1>2, <1>7, ReplyGoesOn DEF CheckParents
<1>8. CASE AppendConflicts(w)
  BY <1>2, <1>3, <1>8 DEF AppendConflicts
<1>9. CASE AppendDuplicates(w)
  <2>1. Ready(w) /\ ~IsParticipationCommand(cmd[w]) /\ Goto(w, "dup")
    BY <1>9 DEF AppendDuplicates, NoBlindDuplicate, BlindDuplicate
  <2> QED BY <1>2, <1>3, <2>1
<1>10. CASE AppendErrs(w)
  BY <1>1, <1>2, <1>3, <1>10 DEF AppendErrs
<1>11. CASE Refold(w)
  <2>1. ASSUME pc' = [pc EXCEPT ![w] = "retry"], UNCHANGED <<cmd, step, accepted>>
        PROVE  WorkersGoOnWritten
    BY <1>11, <2>1, GotoGoesOn DEF Refold
  <2> QED BY <1>1, <1>11, <2>1 DEF Refold
<1>12. CASE FinishParticipation(w)
  BY <1>12, ReplyGoesOn DEF FinishParticipation
<1> QED BY <1>5, <1>6, <1>7, <1>8, <1>9, <1>10, <1>11, <1>12, AnswerStoredGoesOn, AppendCommitsGoesOn,
        ReconcileGoesOn, ReconcileDupGoesOn DEF Work

\* Every step of the specification.
LEMMA EveryStepGoesOn ==
  ASSUME IInv, CachesRemember, NoBlindDuplicate, NoForeignFind, CachesHaveRoom, CachesHaveRoom',
         AnswersAreBacked, ~ReplayFails, [Next]_vars
  PROVE  WorkersGoOnWritten
<1>1. ASSUME NEW d \in delayed, LateAppend(d) PROVE UNCHANGED <<pc, cmd, step, accepted>>
  BY <1>1 DEF LateAppend, workerVars
<1>2. DedupExpiry => UNCHANGED <<pc, cmd, step, accepted>>
  BY DEF DedupExpiry, workerVars
<1>3. UNCHANGED vars => UNCHANGED <<pc, cmd, step, accepted>>
  BY DEF vars
<1> QED BY <1>1, <1>2, <1>3, QuietGoesOn, WorkGoesOn, ReceiveGoesOn, CrashGoesOn DEF Next

\* What is written stays written.
LEMMA WrittenStays ==
  ASSUME LogOK, BrokerStep, NEW c \in Commands, NEW n, Written(log, c, n)
  PROVE  Written(log', c, n)
<1>1. c.iid \in Iids
  BY ConstantsOK
<1>2. /\ DOMAIN log[c.iid] \subseteq DOMAIN log'[c.iid]
      /\ \A k \in DOMAIN log[c.iid] : log'[c.iid][k] = log[c.iid][k]
  BY <1>1, LogKeeps
<1> QED BY <1>2 DEF Written

\* Every step keeps what the answers and the caches rest on in the log.
LEMMA AnswersAreBackedStep ==
  ASSUME IInv, IInv', DelayedOwed, [Next]_vars, CachesRemember, NoBlindDuplicate, NoForeignFind, CachesHaveRoom,
         CachesHaveRoom', AnswersAreBacked, ~ReplayFails
  PROVE  AnswersAreBacked'
<1>1. WorkersGoOnWritten /\ BrokerStep /\ LogOK
  BY EveryStepGoesOn, LogStep DEF IInv
<1>2. ASSUME NEW w \in Workers, pc'[w] # "idle"
      PROVE  /\ \A n \in 1..(step'[w] - 1) : Written(log', cmd'[w], n)
             /\ pc'[w] = "finish" => \A n \in 1..Steps(cmd'[w]) : Written(log', cmd'[w], n)
  <2>1. GoesOn(w)
    BY <1>1 DEF WorkersGoOnWritten
  <2>2. CASE step'[w] = 1 /\ pc'[w] # "finish"
    BY <2>2
  <2>3. ASSUME pc[w] # "idle"
        PROVE  /\ cmd[w] \in Commands /\ step[w] \in 1..Steps(cmd[w]) /\ Steps(cmd[w]) \in Nat
               /\ \A n \in 1..(step[w] - 1) : Written(log', cmd[w], n)
               /\ pc[w] = "finish" => \A n \in 1..Steps(cmd[w]) : Written(log', cmd[w], n)
    <3>1. cmd[w] \in Commands /\ step[w] \in 1..Steps(cmd[w]) /\ Steps(cmd[w]) \in Nat
      BY <2>3, StepsType DEF IInv, ControlOK, WorkerOK
    <3>2. \A n : Written(log, cmd[w], n) => Written(log', cmd[w], n)
      BY <1>1, <3>1, WrittenStays
    <3> QED BY <2>3, <3>1, <3>2 DEF AnswersAreBacked, PassedAreWritten
  <2>4. CASE /\ pc[w] # "idle" /\ cmd'[w] = cmd[w] /\ step'[w] = step[w]
             /\ pc'[w] = "finish" => pc[w] = "finish"
    BY <2>3, <2>4
  <2>5. CASE /\ pc[w] # "idle" /\ cmd'[w] = cmd[w] /\ Written(log', cmd[w], step[w])
             /\ \/ step'[w] = step[w] + 1 /\ pc'[w] # "finish"
                \/ step'[w] = step[w] /\ step[w] = Steps(cmd[w])
    <3>1. \A n \in 1..step[w] : n = step[w] \/ n \in 1..(step[w] - 1)
      BY <2>3, <2>5
    <3>2. \A n \in 1..step[w] : Written(log', cmd[w], n)
      BY <2>3, <2>5, <3>1
    <3>3. \/ step'[w] - 1 = step[w] /\ pc'[w] # "finish"
          \/ step'[w] = step[w] /\ step[w] = Steps(cmd[w])
      BY <2>3, <2>5
    <3>4. CASE step'[w] - 1 = step[w] /\ pc'[w] # "finish"
      BY <2>5, <3>2, <3>4
    <3>5. CASE step'[w] = step[w] /\ step[w] = Steps(cmd[w])
      BY <2>3, <2>5, <3>2, <3>5
    <3> QED BY <3>3, <3>4, <3>5
  <2> QED BY <1>2, <2>1, <2>2, <2>4, <2>5 DEF GoesOn
<1>3. \A o \in Objs : objs'[o].results \in Cache(Backed(log'[objs'[o].iid]))
  BY BackedStep
<1>4. \A w \in Workers : PassedAreWritten(w)'
  BY <1>2 DEF PassedAreWritten
<1> QED BY <1>3, <1>4 DEF AnswersAreBacked

\* Every step accepts only payloads that are committed.
LEMMA PayloadStep ==
  ASSUME IInv, DelayedOwed, [Next]_vars, CachesRemember, NoBlindDuplicate, NoForeignFind, CachesHaveRoom,
         CachesHaveRoom', AnswersAreBacked, ~ReplayFails, AcceptedPayloadIsCommitted
  PROVE  AcceptedPayloadIsCommitted'
<1>1. AnswersOn /\ BrokerStep /\ LogOK /\ accepted \subseteq Commands
  BY EveryStepGoesOn, LogStep DEF WorkersGoOnWritten, IInv, ControlOK
<1>2. ASSUME NEW c \in accepted', NEW n \in 1..Steps(c) PROVE Written(log', c, n)
  <2>1. CASE c \in accepted
    <3>1. Written(log, c, n)
      BY <2>1 DEF AcceptedPayloadIsCommitted, Written
    <3> QED BY <1>1, <2>1, <3>1, WrittenStays
  <2>2. ASSUME NEW w \in Workers, c = cmd[w], pc[w] = "finish" PROVE Written(log', c, n)
    <3>1. c \in Commands
      BY <2>2 DEF IInv, ControlOK, WorkerOK
    <3>2. Written(log, c, n)
      BY <2>2 DEF AnswersAreBacked, PassedAreWritten
    <3> QED BY <1>1, <3>1, <3>2, WrittenStays
  <2>3. CASE Steps(c) = 1 /\ Written(log', c, 1)
    <3>1. n = 1
      BY <2>3
    <3> QED BY <2>3, <3>1
  <2> QED BY <1>1, <2>1, <2>2, <2>3 DEF AnswersOn
<1> QED BY <1>2 DEF AcceptedPayloadIsCommitted, Written

\* There are no answers at the start.
LEMMA AnswersInitially == Init => AnswersAreBacked /\ AcceptedPayloadIsCommitted
<1> SUFFICES ASSUME Init PROVE AnswersAreBacked /\ AcceptedPayloadIsCommitted
  OBVIOUS
<1>1. AcceptedPayloadIsCommitted
  BY DEF Init, AcceptedPayloadIsCommitted
<1>2. \A w \in Workers : PassedAreWritten(w)
  BY DEF Init, PassedAreWritten
<1>3. ASSUME NEW o \in Objs PROVE objs[o].results \in Cache(Backed(log[objs[o].iid]))
  <2>1. objs[o].results = <<>>
    BY DEF Init, NoState
  <2>2. <<>> \in Seq(Backed(log[objs[o].iid])) /\ Len(<<>>) = 0 /\ MaxResults \in Nat
    BY ConstantsOK
  <2> QED BY <2>1, <2>2 DEF Cache
<1> QED BY <1>1, <1>2, <1>3 DEF AnswersAreBacked

\* A command is answered accepted for the payload the log holds under its id (or
\* for one without a hash, from before hashes were kept), whether the answer comes
\* from the append, from a cache, from the re-fold after a duplicate or from the
\* log in which a failed append is found again.  Where a result is on record its
\* hash is compared, and with room and without replay failures there is one for
\* every duplicate.  None is compared for a sub-fact counted blindly, of which there
\* is none, and for an append in doubt, which may be found but as its own payload.
THEOREM AcceptedPayloadsAreCommitted ==
  ~ReplayFails /\ Spec /\ [](NoBlindDuplicate /\ NoForeignFind /\ CachesHaveRoom)
    => []AcceptedPayloadIsCommitted
<1> SUFFICES ASSUME ~ReplayFails
             PROVE  Spec /\ [](NoBlindDuplicate /\ NoForeignFind /\ CachesHaveRoom)
                      => []AcceptedPayloadIsCommitted
  OBVIOUS
<1>1. IInv /\ IInv' /\ DelayedOwed /\ CachesRemember /\ NoBlindDuplicate /\ NoForeignFind
        /\ CachesHaveRoom /\ CachesHaveRoom' /\ AnswersAreBacked /\ [Next]_vars => AnswersAreBacked'
  BY AnswersAreBackedStep
<1>2. IInv /\ DelayedOwed /\ CachesRemember /\ NoBlindDuplicate /\ NoForeignFind /\ CachesHaveRoom
        /\ CachesHaveRoom' /\ AnswersAreBacked /\ AcceptedPayloadIsCommitted /\ [Next]_vars
        => AcceptedPayloadIsCommitted'
  BY PayloadStep
<1> QED BY <1>1, <1>2, AnswersInitially, CachesRememberAlways, AppendsAreOwed, PTL DEF Spec

-----------------------------------------------------------------------------
(* Deployments that meet the conditions. *)

\* A broker that compares the OCC token before the message id never calls a stale
\* append a duplicate.
LEMMA TokenFirst ==
  ASSUME IInv, ~DedupFirst
  PROVE  NoStaleDuplicate
<1> SUFFICES ASSUME NEW w \in Workers, BlindDuplicate(w) PROVE Current(ref[w])
  BY DEF NoStaleDuplicate
<1>1. Ready(w) /\ BrokerSays(w) = "dup"
  BY DEF BlindDuplicate
<1>2. objs[ref[w]].iid = cmd[w].iid
  BY <1>1, ReadyMeans, AtWork
<1>3. LastPos(log[cmd[w].iid]) = objs[ref[w]].streamSeq
  BY <1>1 DEF BrokerSays, Outcome
<1> QED BY <1>2, <1>3 DEF Current

NothingFailed == \A w \in Workers : pc[w] # "failed"

\* Without append errors nothing is left in doubt.
LEMMA NothingFails ==
  ASSUME IInv, IInv', AppendFaults = {}, [Next]_vars, NothingFailed
  PROVE  NothingFailed'
<1>1. pc \in [Workers -> Labels]
  BY DEF IInv, ControlOK, WorkersType
<1>2. ASSUME NEW w \in Workers, NEW label, label # "failed", pc' = [pc EXCEPT ![w] = label]
      PROVE  NothingFailed'
  BY <1>1, <1>2 DEF NothingFailed
<1>3. ASSUME NEW w \in Workers, NEW ok, Settle(w, ok) PROVE NothingFailed'
  BY <1>2, <1>3 DEF Settle, NextFact, Reply
<1>4. ASSUME NEW w \in Workers, NEW ok, Reply(w, ok) PROVE NothingFailed'
  BY <1>2, <1>4 DEF Reply
<1>5. ASSUME NEW w \in Workers, NEW label, label # "failed", Goto(w, label) PROVE NothingFailed'
  BY <1>2, <1>5 DEF Goto
<1>6. ASSUME NEW w \in Workers, NEW o, Hold(w, o) PROVE NothingFailed'
  BY <1>2, <1>6 DEF Hold
<1>7. ASSUME NEW w \in Workers, Work(w) PROVE NothingFailed'
  <2>1. CASE GetCached(w) \/ GetRebuilt(w)
    BY <1>6, <2>1 DEF GetCached, GetRebuilt
  <2>2. CASE GetFails(w) \/ RejectPoisoned(w) \/ RejectNonMember(w) \/ RejectIllegal(w) \/ AnswerStored(w)
    BY <1>3, <2>2 DEF GetFails, RejectPoisoned, RejectNonMember, RejectIllegal, AnswerStored
  <2>3. CASE CheckParents(w)
    BY <1>4, <1>5, <2>3 DEF CheckParents
  <2>4. CASE AppendCommits(w) \/ AppendConflicts(w) \/ AppendDuplicates(w)
    BY <1>3, <1>5, <2>4 DEF AppendCommits, AppendConflicts, AppendDuplicates
  <2>5. ~AppendErrs(w)
    BY DEF AppendErrs
  <2>6. CASE Refold(w)
    BY <1>2, <1>3, <2>6 DEF Refold
  <2>7. CASE Reconcile(w) \/ ReconcileDup(w)
    BY <1>3, <2>7 DEF Reconcile, ReconcileDup
  <2>8. CASE FinishParticipation(w)
    BY <1>4, <2>8 DEF FinishParticipation
  <2> QED BY <1>7, <2>1, <2>2, <2>3, <2>4, <2>5, <2>6, <2>7, <2>8 DEF Work
<1>8. ASSUME NEW w \in Workers, NEW c \in Commands, Receive(w, c) PROVE NothingFailed'
  BY <1>2, <1>8 DEF Receive
<1>9. ASSUME NEW r \in Routers, Crash(r) PROVE NothingFailed'
  BY <1>9 DEF Crash, NothingFailed
<1>10. ASSUME UNCHANGED pc PROVE NothingFailed'
  BY <1>10 DEF NothingFailed
<1>11. ASSUME NEW d \in delayed, LateAppend(d) PROVE UNCHANGED pc
  BY <1>11 DEF LateAppend, workerVars
<1>12. DedupExpiry => UNCHANGED pc
  BY DEF DedupExpiry, workerVars
<1>13. UNCHANGED vars => UNCHANGED pc
  BY DEF vars
<1> QED BY <1>7, <1>8, <1>9, <1>10, <1>11, <1>12, <1>13 DEF Next

\* Token-first dedup without failures meets the conditions of the theorems above.
LEMMA TroubleFree ==
  ~DedupFirst /\ AppendFaults = {} /\ Spec => [](NoStaleDuplicate /\ NoLateFind)
<1> SUFFICES ASSUME ~DedupFirst, AppendFaults = {} PROVE Spec => [](NoStaleDuplicate /\ NoLateFind)
  OBVIOUS
<1>1. IInv => NoStaleDuplicate
  BY TokenFirst
<1>2. Init => NothingFailed
  BY DEF Init, NothingFailed
<1>3. IInv /\ IInv' /\ NothingFailed /\ [Next]_vars => NothingFailed'
  BY NothingFails
<1>4. NothingFailed => NoLateFind
  BY DEF NothingFailed, NoLateFind, FoundLater
<1> QED BY <1>1, <1>2, <1>3, <1>4, Invariance, PTL DEF Spec

\* The facts of an interaction are numbered upwards along the stream, which is
\* what the fan-out asks of them, at any size of the caches and whatever appends,
\* replays and restarts do, where the broker compares the token first.
THEOREM NumbersGrowTokenFirst == ~DedupFirst /\ SeqGrows /\ Spec => []SeqGrows
<1>1. ASSUME ~DedupFirst PROVE IInv => NoStaleDuplicate
  BY <1>1, TokenFirst
<1> SUFFICES ASSUME ~DedupFirst PROVE SeqGrows /\ Spec => []SeqGrows
  OBVIOUS
<1> QED BY <1>1, NumbersGrow, Invariance, PTL

\* Where the broker compares the token first and answers every append, routers
\* that race, re-fold, restart, evict and hand sub-facts over to each other number
\* each log without gap or repetition, let only members write and accept only the
\* payload that was committed, as long as the dedup caches have room.
THEOREM WritePlaneIsExact ==
  /\ ~DedupFirst /\ AppendFaults = {} /\ ~ReplayFails /\ OneSender
  /\ DenseLog /\ MembersOnlyWrite /\ Spec /\ []CachesHaveRoom
  => [](DenseLog /\ MembersOnlyWrite /\ AcceptedPayloadIsCommitted)
<1>1. NoLateFind => NoForeignFind
  BY DEF NoLateFind, NoForeignFind
<1> QED BY <1>1, TroubleFree, DuplicatesAreKnown, NumbersAreDense, OnlyMembersWrite,
        AcceptedPayloadsAreCommitted, PTL

=============================================================================
