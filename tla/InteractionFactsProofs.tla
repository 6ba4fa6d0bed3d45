----------------------- MODULE InteractionFactsProofs -----------------------
(***************************************************************************)
(* What the folds of InteractionFacts compute: the status of a log's       *)
(* prefix, of a log extended by one fact, and the extremes of a log.       *)
(***************************************************************************)
EXTENDS InteractionFacts, InductionTheorems

\* The status folded from a set of facts is one of the three.
LEMMA StatusAtType ==
  ASSUME NEW facts, NEW K
  PROVE  StatusAt(facts, K) \in Status
BY DEF StatusAt, Status

\* It depends on nothing but the event types of those facts.
LEMMA StatusAtCongruence ==
  ASSUME NEW f, NEW g, NEW K, \A k \in K : f[k].type = g[k].type
  PROVE  StatusAt(f, K) = StatusAt(g, K)
BY DEF StatusAt

\* Facts that are no lifecycle facts do not change the status.
LEMMA StatusAtIgnoresOthers ==
  ASSUME NEW f, NEW K, NEW J, J \subseteq K,
         \A k \in K : k \in J \/ (f[k].type # Started /\ f[k].type # Ended)
  PROVE  StatusAt(f, K) = StatusAt(f, J)
<1> DEFINE LastIn(S, type, other) ==
             \E k \in S : f[k].type = type /\ \A j \in S : f[j].type = other => j < k
<1>1. LastIn(K, Ended, Started) <=> LastIn(J, Ended, Started)
  OBVIOUS
<1>2. LastIn(K, Started, Ended) <=> LastIn(J, Started, Ended)
  OBVIOUS
<1> QED BY <1>1, <1>2 DEF StatusAt

\* No facts, no status.
LEMMA StatusAtEmpty ==
  ASSUME NEW facts
  PROVE  StatusAt(facts, {}) = ""
BY DEF StatusAt

\* Folding one more fact applies its transition to the status before it.
LEMMA StatusOfAppend ==
  ASSUME NEW S, NEW s \in Seq(S), NEW f \in S
  PROVE  StatusOf(Append(s, f)) = ApplyTransition(StatusOf(s), f.type)
<1> DEFINE t == Append(s, f)
           n == Len(s) + 1
           LastIs(u, K, type, other) == \E k \in K : /\ u[k].type = type
                                                     /\ \A j \in K : u[j].type = other => j < k
<1>1. /\ n \in Nat \ {0}
      /\ DOMAIN s = 1..(n-1)
      /\ DOMAIN t = 1..n
      /\ t[n] = f
      /\ \A k \in 1..(n-1) : t[k] = s[k]
  OBVIOUS
<1> HIDE DEF t, n
<1>2. StatusOf(t) = CASE LastIs(t, 1..n, Ended, Started) -> "ended"
                      [] LastIs(t, 1..n, Started, Ended) -> "started"
                      [] OTHER -> ""
  BY <1>1 DEF StatusOf, StatusAt
<1>3. StatusOf(s) = CASE LastIs(s, 1..(n-1), Ended, Started) -> "ended"
                      [] LastIs(s, 1..(n-1), Started, Ended) -> "started"
                      [] OTHER -> ""
  BY <1>1 DEF StatusOf, StatusAt
<1>4. CASE f.type = Ended
  <2>1. n \in 1..n /\ t[n].type = Ended /\ \A j \in 1..n : t[j].type = Started => j < n
    BY <1>1, <1>4 DEF Ended, Started
  <2>2. LastIs(t, 1..n, Ended, Started)
    BY <2>1
  <2>3. ~LastIs(t, 1..n, Started, Ended)
    BY <1>1, <1>4 DEF Ended, Started
  <2>4. Ended # Started
    BY DEF Ended, Started
  <2> HIDE DEF LastIs
  <2> QED BY <1>2, <1>4, <2>2, <2>3, <2>4 DEF ApplyTransition, t
<1>5. CASE f.type = Started
  <2>0. n \in 1..n /\ t[n].type = Started /\ \A j \in 1..n : t[j].type = Ended => j < n
    BY <1>1, <1>5 DEF Ended, Started
  <2>1. LastIs(t, 1..n, Started, Ended)
    BY <2>0
  <2>2. ~LastIs(t, 1..n, Ended, Started)
    BY <1>1, <1>5 DEF Ended, Started
  <2> HIDE DEF LastIs
  <2> QED BY <1>2, <1>5, <2>1, <2>2 DEF ApplyTransition, t
<1>6. CASE f.type # Started /\ f.type # Ended
  <2>1. LastIs(t, 1..n, Started, Ended) <=> LastIs(s, 1..(n-1), Started, Ended)
    BY <1>1, <1>6
  <2>2. LastIs(t, 1..n, Ended, Started) <=> LastIs(s, 1..(n-1), Ended, Started)
    BY <1>1, <1>6
  <2> HIDE DEF LastIs
  <2> QED BY <1>2, <1>3, <1>6, <2>1, <2>2 DEF ApplyTransition, t
<1> QED BY <1>4, <1>5, <1>6

\* In a log whose stream positions grow, the last position covers every fact.
LEMMA UpToLast ==
  ASSUME NEW S, NEW s \in Seq(S),
         \A k \in DOMAIN s : s[k].pos \in Nat,
         \A j, k \in DOMAIN s : j < k => s[j].pos < s[k].pos
  PROVE  UpTo(s, LastPos(s)) = DOMAIN s
<1>1. CASE s = <<>>
  BY <1>1 DEF UpTo
<1>2. CASE s # <<>>
  <2>1. Len(s) \in DOMAIN s /\ \A k \in DOMAIN s : k <= Len(s)
    BY <1>2
  <2>2. \A k \in DOMAIN s : s[k].pos <= s[Len(s)].pos
    BY <2>1
  <2> QED BY <1>2, <2>2 DEF UpTo, LastPos
<1> QED BY <1>1, <1>2

\* Finitely many natural numbers have a largest one.
LEMMA LargestElement ==
  ASSUME NEW n \in Nat \ {0}, NEW q \in [1..n -> Nat]
  PROVE  \E k \in 1..n : \A j \in 1..n : q[j] <= q[k]
<1> DEFINE HasMax(m) == \E k \in 1..m : \A j \in 1..m : q[j] <= q[k]
           Bad == {m \in 1..n : ~HasMax(m)}
<1>1. SUFFICES ASSUME Bad # {} PROVE FALSE
  <2> HIDE DEF HasMax
  <2>1. Bad = {} => HasMax(n)
    OBVIOUS
  <2> QED BY <2>1 DEF HasMax
<1>2. PICK m \in Bad : \A l \in Bad : m <= l
  <2>1. Bad \subseteq Nat
    OBVIOUS
  <2> HIDE DEF Bad
  <2> QED BY <1>1, <2>1, LeastElement
<1>3. HasMax(1)
  <2>1. 1 \in 1..1 /\ \A j \in 1..1 : j = 1
    OBVIOUS
  <2>2. q[1] <= q[1]
    OBVIOUS
  <2> QED BY <2>1, <2>2
<1>4. m \in 1..n /\ m # 1 /\ HasMax(m-1) /\ ~HasMax(m)
  <2> HIDE DEF HasMax
  <2> QED BY <1>2, <1>3
<1>5. PICK k \in 1..(m-1) : \A j \in 1..(m-1) : q[j] <= q[k]
  BY <1>4
<1>6. CASE q[m] <= q[k]
  <2>1. \A j \in 1..m : j = m \/ j \in 1..(m-1)
    BY <1>4
  <2>2. k \in 1..m /\ \A j \in 1..m : q[j] <= q[k]
    BY <1>4, <1>5, <1>6, <2>1
  <2> QED BY <1>4, <2>2
<1>7. CASE q[k] <= q[m]
  <2>1. \A j \in 1..m : j = m \/ j \in 1..(m-1)
    BY <1>4
  <2>2. m \in 1..m /\ \A j \in 1..m : q[j] <= q[m]
    BY <1>4, <1>5, <1>7, <2>1
  <2> QED BY <1>4, <2>2
<1>8. q[m] \in Nat /\ q[k] \in Nat
  BY <1>4
<1> QED BY <1>6, <1>7, <1>8

\* The sequence number a rebuild takes over is the largest of the log.
LEMMA LastSeqIsLargest ==
  ASSUME NEW S, NEW s \in Seq(S), \A k \in DOMAIN s : s[k].seq \in Nat
  PROVE  /\ \A k \in DOMAIN s : s[k].seq <= LastSeq(s)
         /\ s # <<>> => \E k \in DOMAIN s : s[k].seq = LastSeq(s)
<1>1. CASE s = <<>>
  BY <1>1
<1>2. CASE s # <<>>
  <2>1. Len(s) \in Nat \ {0} /\ DOMAIN s = 1..Len(s)
    BY <1>2
  <2> DEFINE q == [k \in 1..Len(s) |-> s[k].seq]
             Q == {s[j].seq : j \in DOMAIN s}
  <2>2. q \in [1..Len(s) -> Nat]
    BY <2>1
  <2>3. PICK k \in 1..Len(s) : \A j \in 1..Len(s) : q[j] <= q[k]
    <3> HIDE DEF q
    <3> QED BY <2>1, <2>2, LargestElement
  <2>4. Q \subseteq Nat /\ \E x \in Q : \A m \in Q : m <= x
    BY <2>1, <2>3
  <2>5. LastSeq(s) = CHOOSE x \in Q : \A m \in Q : m <= x
    BY <1>2 DEF LastSeq
  <2>6. LastSeq(s) \in Q /\ \A m \in Q : m <= LastSeq(s)
    <3> HIDE DEF Q
    <3> QED BY <2>4, <2>5
  <2> QED BY <2>6
<1> QED BY <1>1, <1>2

\* ... and a natural number.
LEMMA LastSeqType ==
  ASSUME NEW S, NEW s \in Seq(S), \A k \in DOMAIN s : s[k].seq \in Nat
  PROVE  LastSeq(s) \in Nat
<1>1. CASE s = <<>>
  BY <1>1 DEF LastSeq
<1>2. CASE s # <<>>
  <2>1. PICK k \in DOMAIN s : s[k].seq = LastSeq(s)
    BY <1>2, LastSeqIsLargest
  <2> QED BY <2>1
<1> QED BY <1>1, <1>2

\* The members at a set of facts depend on nothing but types and actors.
LEMMA MembersAtCongruence ==
  ASSUME NEW f, NEW g, NEW K, \A k \in K : f[k].type = g[k].type /\ f[k].actor = g[k].actor
  PROVE  MembersAt(f, K) = MembersAt(g, K)
<1> DEFINE Open(s) == {j \in K : /\ s[j].type = Joined
                                 /\ \A h \in K : ~(h > j /\ s[h].type = Left /\ s[h].actor = s[j].actor)}
<1>1. Open(f) = Open(g)
  OBVIOUS
<1>2. \A k \in Open(f) : f[k].actor = g[k].actor
  OBVIOUS
<1>3. MembersAt(f, K) = {f[k].actor : k \in Open(f)} /\ MembersAt(g, K) = {g[k].actor : k \in Open(g)}
  BY DEF MembersAt
<1> HIDE DEF Open
<1> QED BY <1>1, <1>2, <1>3

\* Folding one more fact applies it to the membership before it.
LEMMA MembersOfAppend ==
  ASSUME NEW S, NEW s \in Seq(S), NEW f \in S
  PROVE  FoldParticipation(Append(s, f)) = ApplyFact(FoldParticipation(s), f)
<1> DEFINE t == Append(s, f)
           n == Len(s) + 1
           Opens(u, K, j) == /\ u[j].type = Joined
                             /\ \A h \in K : ~(h > j /\ u[h].type = Left /\ u[h].actor = u[j].actor)
<1>1. /\ n \in Nat \ {0}
      /\ DOMAIN s = 1..(n-1)
      /\ DOMAIN t = 1..n
      /\ t[n] = f
      /\ \A k \in 1..(n-1) : t[k] = s[k]
  OBVIOUS
<1> HIDE DEF t, n
<1>2. \A a : a \in FoldParticipation(t) <=> \E j \in 1..n : Opens(t, 1..n, j) /\ a = t[j].actor
  BY <1>1 DEF FoldParticipation, MembersAt
<1>3. \A a : a \in FoldParticipation(s) <=> \E j \in 1..(n-1) : Opens(s, 1..(n-1), j) /\ a = s[j].actor
  BY <1>1 DEF FoldParticipation, MembersAt
<1>4. Opens(t, 1..n, n) <=> f.type = Joined
  BY <1>1
<1>5. \A k \in 1..n : k = n \/ k \in 1..(n-1)
  BY <1>1
<1>6. \A k \in 1..(n-1) : k \in 1..n /\ n > k /\ k # n
  BY <1>1
<1>7. ASSUME NEW j \in 1..(n-1)
      PROVE  Opens(t, 1..n, j) <=> Opens(s, 1..(n-1), j) /\ ~(f.type = Left /\ f.actor = s[j].actor)
  BY <1>1, <1>5, <1>6
<1> HIDE DEF Opens
<1>8. n \in 1..n
  BY <1>1
<1>9. \A a : a \in FoldParticipation(t) <=>
        \/ f.type = Joined /\ a = f.actor
        \/ a \in FoldParticipation(s) /\ ~(f.type = Left /\ f.actor = a)
  <2> TAKE a
  <2>1. ASSUME a \in FoldParticipation(t)
        PROVE  \/ f.type = Joined /\ a = f.actor
               \/ a \in FoldParticipation(s) /\ ~(f.type = Left /\ f.actor = a)
    <3>1. PICK j \in 1..n : Opens(t, 1..n, j) /\ a = t[j].actor
      BY <1>2, <2>1
    <3>2. CASE j = n
      BY <1>1, <1>4, <3>1, <3>2
    <3>3. CASE j \in 1..(n-1)
      BY <1>1, <1>3, <1>7, <3>1, <3>3
    <3> QED BY <1>5, <3>2, <3>3
  <2>2. ASSUME f.type = Joined /\ a = f.actor PROVE a \in FoldParticipation(t)
    BY <1>1, <1>2, <1>4, <1>8, <2>2
  <2>3. ASSUME a \in FoldParticipation(s) /\ ~(f.type = Left /\ f.actor = a) PROVE a \in FoldParticipation(t)
    <3>1. PICK j \in 1..(n-1) : Opens(s, 1..(n-1), j) /\ a = s[j].actor
      BY <1>3, <2>3
    <3>2. Opens(t, 1..n, j) /\ j \in 1..n /\ t[j] = s[j]
      BY <1>1, <1>6, <1>7, <2>3, <3>1
    <3> QED BY <1>2, <3>1, <3>2
  <2> QED BY <2>1, <2>2, <2>3
<1>10. \A a : a \in ApplyFact(FoldParticipation(s), f) <=>
        \/ f.type = Joined /\ a = f.actor
        \/ a \in FoldParticipation(s) /\ ~(f.type = Left /\ f.actor = a)
  <2>1. Joined # Left
    BY DEF Joined, Left
  <2>2. CASE f.type = Joined
    BY <2>1, <2>2 DEF ApplyFact
  <2>3. CASE f.type = Left
    BY <2>1, <2>3 DEF ApplyFact
  <2>4. CASE f.type # Joined /\ f.type # Left
    BY <2>4 DEF ApplyFact
  <2> QED BY <2>2, <2>3, <2>4
<1> QED BY <1>9, <1>10 DEF t

\* Applying a fact that a log already ends with changes nothing.
LEMMA LastFactApplied ==
  ASSUME NEW S, NEW s \in Seq(S), s # <<>>
  PROVE  ApplyFact(FoldParticipation(s), s[Len(s)]) = FoldParticipation(s)
<1> PICK n : n = Len(s)
  OBVIOUS
<1> DEFINE f == s[n]
           t == SubSeq(s, 1, n - 1)
<1>1. n \in Nat \ {0} /\ f \in S /\ n \in DOMAIN s
  OBVIOUS
<1>2. t \in Seq(S) /\ s = Append(t, f)
  BY <1>1
<1>3. FoldParticipation(s) = ApplyFact(FoldParticipation(t), f)
  <2> HIDE DEF t, f
  <2> QED BY <1>1, <1>2, MembersOfAppend
<1>4. \A part : ApplyFact(ApplyFact(part, f), f) = ApplyFact(part, f)
  BY DEF ApplyFact, Joined, Left
<1> QED BY <1>3, <1>4
=============================================================================
