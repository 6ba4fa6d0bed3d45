-------------------------- MODULE ProjectorProofs ---------------------------
(***************************************************************************)
(* Theorems about Projector.                                               *)
(***************************************************************************)
EXTENDS Projector, InductionTheorems, TLAPS

\* The renewal attempts of renewWithRetry, each timing out and with the pauses
\* between them, end before the lease that was last renewed one interval ago
\* runs out: a holder knows it is fenced before a standby can be in its place,
\* for every TTL and renewal interval a Config may hold (renewBudget).
THEOREM RenewalEndsInTime ==
  ASSUME NEW ttl \in Nat, NEW interval \in Nat, interval < ttl
  PROVE  interval + RenewTime(RenewBudget(ttl, interval)) < ttl
<1> DEFINE budget == ((ttl - interval) * 9) \div 10
<1>1. budget \in Nat /\ budget < ttl - interval
  OBVIOUS
<1> HIDE DEF budget
<1>2. BackoffOf(budget) \in Nat
  BY <1>1 DEF BackoffOf, RenewAttempts, RenewBackoff
<1>3. /\ PerAttempt(budget) \in Int
      /\ 3 * PerAttempt(budget) + 2 * BackoffOf(budget) <= budget
  BY <1>1, <1>2 DEF PerAttempt, RenewAttempts
<1>4. CASE PerAttempt(budget) <= 0
  <2>1. RenewBudget(ttl, interval) = [perAttempt |-> budget, attempts |-> 1, backoff |-> 0]
    BY <1>4 DEF RenewBudget, budget
  <2> QED
    BY <2>1, <1>1 DEF RenewTime
<1>5. CASE ~(PerAttempt(budget) <= 0)
  <2>1. RenewBudget(ttl, interval) =
          [perAttempt |-> PerAttempt(budget), attempts |-> 3, backoff |-> BackoffOf(budget)]
    BY <1>5 DEF RenewBudget, RenewAttempts, budget
  <2>2. RenewTime(RenewBudget(ttl, interval)) = 3 * PerAttempt(budget) + 2 * BackoffOf(budget)
    BY <2>1, <1>2, <1>3 DEF RenewTime
  <2> QED
    BY <2>2, <1>1, <1>2, <1>3
<1> QED
  BY <1>4, <1>5

-----------------------------------------------------------------------------
(* What the folds compute. *)

LEMMA LogType ==
  /\ Len(Log) \in Nat /\ Positions = 1..Len(Log)
  /\ \A n \in Positions : Log[n].seq \in Nat /\ Log[n].iid \in Iids
<1>1. Len(Log) \in Nat
  BY ConstantsOK
<1> QED BY <1>1, ConstantsOK DEF Positions, Iids

\* A join opens an interval, a leave closes one, nothing else changes the view.
LEMMA FoldCases ==
  ASSUME NEW v, NEW f
  PROVE  /\ f.type = Joined /\ ~HasOpen(v, f.iid, f.actor) =>
              Fold(v, f) = v \union {[iid |-> f.iid, agent |-> f.actor, join |-> f.seq, left |-> Open]}
         /\ f.type = Joined /\ HasOpen(v, f.iid, f.actor) => Fold(v, f) = v
         /\ f.type = Left =>
              Fold(v, f) = {IF in.iid = f.iid /\ in.agent = f.actor /\ in.left = Open
                            THEN [in EXCEPT !.left = f.seq] ELSE in : in \in v}
         /\ f.type \notin {Joined, Left} => Fold(v, f) = v
BY DEF Fold, Joined, Left

LEMMA FoldType ==
  ASSUME NEW v, v \subseteq Intervals, NEW n \in Positions
  PROVE  Fold(v, Log[n]) \subseteq Intervals
<1> PICK f : f = Log[n]
  OBVIOUS
<1>1. f.seq \in Nat /\ f.iid \in Iids /\ (f.type \in {Joined, Left} => f.actor \in Agents)
  BY LogType, ConstantsOK
<1>2. CASE f.type = Joined
  <2>1. [iid |-> f.iid, agent |-> f.actor, join |-> f.seq, left |-> Open] \in Intervals
    BY <1>1, <1>2 DEF Intervals, Open
  <2> QED BY <1>2, <2>1, FoldCases
<1>3. CASE f.type = Left
  <2>1. \A in \in v : [in EXCEPT !.left = f.seq] \in Intervals
    BY <1>1 DEF Intervals
  <2> QED BY <1>3, <2>1, FoldCases
<1>4. CASE f.type \notin {Joined, Left}
  BY <1>4, FoldCases
<1> QED BY <1>2, <1>3, <1>4

\* Folding a fact again, as after a nak, changes nothing.
LEMMA FoldAgain ==
  ASSUME NEW v, v \subseteq Intervals, NEW n \in Positions
  PROVE  Fold(Fold(v, Log[n]), Log[n]) = Fold(v, Log[n])
<1> PICK f : f = Log[n]
  OBVIOUS
<1> PICK w : w = Fold(v, f)
  OBVIOUS
<1>1. f.type # Corrupt => f.seq # Open
  BY ConstantsOK DEF Open
<1>2. CASE f.type = Joined
  <2>1. HasOpen(w, f.iid, f.actor)
    <3>1. CASE HasOpen(v, f.iid, f.actor)
      BY <1>2, <3>1, FoldCases
    <3>2. CASE ~HasOpen(v, f.iid, f.actor)
      <4>1. [iid |-> f.iid, agent |-> f.actor, join |-> f.seq, left |-> Open] \in w
        BY <1>2, <3>2, FoldCases
      <4> QED BY <4>1 DEF HasOpen
    <3> QED BY <3>1, <3>2
  <2> QED BY <1>2, <2>1, FoldCases
<1>3. CASE f.type = Left
  <2>1. f.seq # Open
    BY <1>1, <1>3 DEF Left, Corrupt
  <2>2. \A x \in v : [x EXCEPT !.left = f.seq].left = f.seq
    BY DEF Intervals
  <2>3. w = {IF in.iid = f.iid /\ in.agent = f.actor /\ in.left = Open
             THEN [in EXCEPT !.left = f.seq] ELSE in : in \in v}
    BY <1>3, FoldCases
  <2>4. \A x \in w : ~(x.iid = f.iid /\ x.agent = f.actor /\ x.left = Open)
    BY <2>1, <2>2, <2>3
  <2>5. Fold(w, f) = {IF in.iid = f.iid /\ in.agent = f.actor /\ in.left = Open
                      THEN [in EXCEPT !.left = f.seq] ELSE in : in \in w}
    BY <1>3, FoldCases
  <2> QED BY <2>4, <2>5
<1>4. CASE f.type \notin {Joined, Left}
  BY <1>4, FoldCases
<1> QED BY <1>2, <1>3, <1>4

FoldsUp(f, m, n) == \A k \in (m + 1)..n : f[k] = Fold(f[k - 1], Log[k])

\* f[k] is the fold of the facts of (lo, k], for every k up to hi.
FoldedBy(f, v, lo, hi) ==
  /\ f \in [lo..hi -> SUBSET Intervals]
  /\ f[lo] = v
  /\ FoldsUp(f, lo, hi)
  /\ \A k \in lo..hi : FoldRange(v, lo, k) = f[k]

\* Two solutions of the same fold agree.
LEMMA FoldsAgree ==
  ASSUME NEW f, NEW g, NEW m \in Int, NEW n \in Int, m <= n, f[m] = g[m],
         FoldsUp(f, m, n), FoldsUp(g, m, n)
  PROVE  f[n] = g[n]
<1> DEFINE S == {k \in m..n : f[k] = g[k]}
<1>1. m \in S /\ \A k \in (m + 1)..n : k - 1 \in S => k \in S
  BY DEF FoldsUp
<1> HIDE DEF S
<1>2. \A k \in m..n : k \in S
  BY <1>1, RangeInduction
<1> QED BY <1>2 DEF S

\* FoldRange is the value of that recursion.
LEMMA FoldRangeRecursion ==
  ASSUME NEW v, v \subseteq Intervals, NEW lo \in 0..Len(Log), NEW hi \in lo..Len(Log)
  PROVE  \E f : FoldedBy(f, v, lo, hi)
<1> PICK X : X = SUBSET Intervals
  OBVIOUS
<1> PICK step : step = [x \in X \X ((lo + 1)..hi) |-> Fold(x[1], Log[x[2]])]
  OBVIOUS
<1>1. lo \in Int /\ hi \in Int /\ lo <= hi /\ \A k \in (lo + 1)..hi : k \in Positions
  BY LogType
<1>2. v \in X /\ StepsOn(step, X, lo, hi)
  BY <1>1, FoldType DEF StepsOn
<1>3. PICK f : Solution(f, X, v, step, lo, hi)
  BY <1>1, <1>2, RecursionExists
<1>4. f \in [lo..hi -> X] /\ f[lo] = v
  BY <1>3 DEF Solution
<1>5. ASSUME NEW k \in (lo + 1)..hi
      PROVE  k - 1 \in lo..hi /\ f[k] = Fold(f[k - 1], Log[k])
  <2>1. k - 1 \in lo..hi /\ f[k - 1] \in X
    BY <1>1, <1>4
  <2>2. f[k] = step[<<f[k - 1], k>>]
    BY <1>3 DEF Solution
  <2> QED BY <2>1, <2>2
<1>6. ASSUME NEW k \in lo..hi
      PROVE  FoldRange(v, lo, k) = f[k]
  <2> DEFINE Solves(g) == g = [n \in lo..k |-> IF n = lo THEN v ELSE Fold(g[n - 1], Log[n])]
             after == CHOOSE g : Solves(g)
  <2>1. FoldRange(v, lo, k) = after[k]
    BY DEF FoldRange
  <2>2. Solves([n \in lo..k |-> f[n]])
    BY <1>1, <1>4, <1>5
  <2>3. Solves(after)
    BY <2>2
  <2> HIDE DEF after
  <2>4. after[lo] = v /\ FoldsUp(after, lo, k)
    BY <1>1, <2>3 DEF FoldsUp
  <2>5. FoldsUp(f, lo, k) /\ k \in Int /\ lo <= k
    BY <1>1, <1>5 DEF FoldsUp
  <2>6. after[k] = f[k]
    BY <1>1, <1>4, <2>4, <2>5, FoldsAgree
  <2> QED BY <2>1, <2>6
<1> QED BY <1>4, <1>5, <1>6 DEF FoldedBy, FoldsUp

LEMMA FoldRangeType ==
  ASSUME NEW v, v \subseteq Intervals, NEW lo \in 0..Len(Log), NEW hi \in lo..Len(Log)
  PROVE  FoldRange(v, lo, hi) \subseteq Intervals
<1>1. PICK f : FoldedBy(f, v, lo, hi)
  BY FoldRangeRecursion
<1>2. hi \in lo..hi
  BY LogType
<1> QED BY <1>1, <1>2 DEF FoldedBy

\* The view after the first n facts.
Folded(n) == FoldRange({}, 0, n)

LEMMA FoldedStep ==
  /\ Folded(0) = {}
  /\ \A n \in 0..Len(Log) : Folded(n) \subseteq Intervals
  /\ \A n \in Positions : Folded(n) = Fold(Folded(n - 1), Log[n])
<1>1. Len(Log) \in Nat /\ 0 \in 0..Len(Log) /\ Len(Log) \in 0..Len(Log) /\ Positions = 1..Len(Log)
  BY LogType
<1>2. PICK f : FoldedBy(f, {}, 0, Len(Log))
  BY <1>1, FoldRangeRecursion
<1>3. \A n \in 0..Len(Log) : Folded(n) = f[n] /\ f[n] \subseteq Intervals
  BY <1>2 DEF FoldedBy, Folded
<1>4. f[0] = {} /\ \A n \in 1..Len(Log) : n - 1 \in 0..Len(Log) /\ n \in 0..Len(Log) /\ f[n] = Fold(f[n - 1], Log[n])
  BY <1>1, <1>2 DEF FoldedBy, FoldsUp
<1> QED BY <1>1, <1>3, <1>4

\* A snapshot and the facts since are the fold of everything.
LEMMA FoldedFrom ==
  ASSUME NEW lo \in 0..Len(Log), NEW hi \in lo..Len(Log)
  PROVE  FoldRange(Folded(lo), lo, hi) = Folded(hi)
<1>1. Len(Log) \in Nat /\ lo \in Int /\ hi \in Int /\ lo <= hi /\ hi \in lo..hi
  BY LogType
<1>2. Folded(lo) \subseteq Intervals
  BY FoldedStep
<1>3. PICK f : FoldedBy(f, Folded(lo), lo, hi)
  BY <1>2, FoldRangeRecursion
<1> PICK g : g = [n \in lo..hi |-> Folded(n)]
  OBVIOUS
<1>4. FoldsUp(g, lo, hi) /\ g[lo] = Folded(lo) /\ g[hi] = Folded(hi)
  <2>1. \A n \in (lo + 1)..hi : n \in Positions /\ n - 1 \in lo..hi /\ n \in lo..hi
    BY <1>1, LogType
  <2> QED BY <1>1, <2>1, FoldedStep DEF FoldsUp
<1>5. FoldsUp(f, lo, hi) /\ f[lo] = Folded(lo) /\ FoldRange(Folded(lo), lo, hi) = f[hi]
  BY <1>1, <1>3 DEF FoldedBy
<1> QED BY <1>1, <1>4, <1>5, FoldsAgree

\* Facts that are no participation facts leave the fold as it is.
LEMMA FoldedQuiet ==
  ASSUME NEW m \in 0..Len(Log), NEW n \in m..Len(Log),
         \A k \in (m + 1)..n : Log[k].type \notin {Joined, Left}
  PROVE  Folded(n) = Folded(m)
<1> DEFINE S == {k \in m..n : Folded(k) = Folded(m)}
<1>1. Len(Log) \in Nat /\ m \in Int /\ n \in Int /\ m <= n
  BY LogType
<1>2. m \in S
  BY <1>1
<1>3. ASSUME NEW k \in (m + 1)..n, k - 1 \in S PROVE k \in S
  <2>1. k \in Positions /\ k \in m..n
    BY <1>1, LogType
  <2> QED BY <1>3, <2>1, FoldedStep, FoldCases
<1> HIDE DEF S
<1>4. \A k \in m..n : k \in S
  BY <1>1, <1>2, <1>3, RangeInduction
<1> QED BY <1>1, <1>4 DEF S

-----------------------------------------------------------------------------
(* The fold read off the log. *)

Joins(k, i, a) == Log[k].type = Joined /\ Log[k].iid = i /\ Log[k].actor = a
Leaves(k, i, a) == Log[k].type = Left /\ Log[k].iid = i /\ Log[k].actor = a

\* After k, up to n, the agent does not leave.
Stays(i, a, k, n) == \A j \in (k + 1)..n : ~Leaves(j, i, a)

OpenIn(n, x) ==
  \E k \in 1..n : Joins(k, x.iid, x.agent) /\ x.join = Log[k].seq /\ Stays(x.iid, x.agent, k, n)

ClosedIn(n, x) ==
  \E l \in 1..n : \E k \in 1..(l - 1) :
    /\ Joins(k, x.iid, x.agent) /\ x.join = Log[k].seq /\ Stays(x.iid, x.agent, k, l - 1)
    /\ Leaves(l, x.iid, x.agent) /\ x.left = Log[l].seq

Stands(n, i, a) == \E k \in 1..n : Joins(k, i, a) /\ Stays(i, a, k, n)

\* An open interval starts at a join the agent has not left since; a closed one
\* reaches from a join to the next leave; and who stands in has an open one.
Mirrors(n) ==
  /\ \A x \in Folded(n) : IF x.left = Open THEN OpenIn(n, x) ELSE ClosedIn(n, x)
  /\ \A i, a : Stands(n, i, a) => HasOpen(Folded(n), i, a)

LEMMA MirrorsNothing == Mirrors(0)
<1>1. \A i, a : ~Stands(0, i, a)
  BY DEF Stands
<1> QED BY <1>1, FoldedStep DEF Mirrors

\* A fact that does not close x leaves it open, and a closed one stays closed.
LEMMA IntervalStays ==
  ASSUME NEW n \in Positions, NEW x
  PROVE  /\ OpenIn(n - 1, x) /\ ~Leaves(n, x.iid, x.agent) => OpenIn(n, x)
         /\ ClosedIn(n - 1, x) => ClosedIn(n, x)
<1>1. n \in Nat /\ n - 1 \in Nat /\ \A k \in 1..(n - 1) : k \in 1..n
  BY LogType
<1>2. ASSUME NEW k \in 1..(n - 1), Stays(x.iid, x.agent, k, n - 1), ~Leaves(n, x.iid, x.agent)
      PROVE  Stays(x.iid, x.agent, k, n)
  BY <1>1, <1>2 DEF Stays
<1> QED BY <1>1, <1>2 DEF OpenIn, ClosedIn

LEMMA StandsStep ==
  ASSUME NEW n \in Positions, NEW i, NEW a, Stands(n, i, a)
  PROVE  Joins(n, i, a) \/ (Stands(n - 1, i, a) /\ ~Leaves(n, i, a))
<1>1. n \in Nat /\ n - 1 \in Nat
  BY LogType
<1>2. PICK k \in 1..n : Joins(k, i, a) /\ Stays(i, a, k, n)
  BY DEF Stands
<1>3. CASE k = n
  BY <1>2, <1>3
<1>4. CASE k # n
  <2>1. k \in 1..(n - 1) /\ n \in (k + 1)..n /\ \A j \in (k + 1)..(n - 1) : j \in (k + 1)..n
    BY <1>1, <1>4
  <2> QED BY <1>2, <2>1 DEF Stands, Stays
<1> QED BY <1>3, <1>4

LEMMA MirrorsJoin ==
  ASSUME NEW n \in Positions, Mirrors(n - 1), Log[n].type = Joined
  PROVE  Mirrors(n)
<1> PICK f : f = Log[n]
  OBVIOUS
<1> PICK v : v = Folded(n - 1)
  OBVIOUS
<1> PICK y : y = [iid |-> f.iid, agent |-> f.actor, join |-> f.seq, left |-> Open]
  OBVIOUS
<1>1. Folded(n) = Fold(v, f)
  BY FoldedStep
<1>2. v \subseteq Folded(n) /\ Folded(n) \subseteq v \union {y}
  BY <1>1, FoldCases
<1>3. HasOpen(Folded(n), f.iid, f.actor)
  <2>1. CASE HasOpen(v, f.iid, f.actor)
    BY <1>2, <2>1 DEF HasOpen
  <2>2. CASE ~HasOpen(v, f.iid, f.actor)
    <3>1. y \in Folded(n)
      BY <1>1, <2>2, FoldCases
    <3> QED BY <3>1 DEF HasOpen
  <2> QED BY <2>1, <2>2
<1>4. \A i, a : ~Leaves(n, i, a)
  BY DEF Leaves, Joined, Left
<1>5. n \in Nat /\ n \in 1..n
  BY LogType
<1>6. ASSUME NEW x \in Folded(n)
      PROVE  IF x.left = Open THEN OpenIn(n, x) ELSE ClosedIn(n, x)
  <2>1. CASE x \in v
    BY <1>4, <2>1, IntervalStays DEF Mirrors
  <2>2. CASE x = y
    <3>1. x.iid = f.iid /\ x.agent = f.actor /\ x.join = f.seq /\ x.left = Open
      BY <2>2
    <3>2. Joins(n, x.iid, x.agent) /\ Stays(x.iid, x.agent, n, n)
      BY <1>5, <3>1 DEF Joins, Stays
    <3> QED BY <1>5, <3>1, <3>2 DEF OpenIn
  <2> QED BY <1>2, <2>1, <2>2
<1>7. ASSUME NEW i, NEW a, Stands(n, i, a) PROVE HasOpen(Folded(n), i, a)
  <2>1. CASE Joins(n, i, a)
    BY <1>3, <2>1 DEF Joins
  <2>2. CASE Stands(n - 1, i, a)
    <3>1. HasOpen(v, i, a)
      BY <2>2 DEF Mirrors
    <3> QED BY <1>2, <3>1 DEF HasOpen
  <2> QED BY <1>7, <2>1, <2>2, StandsStep
<1> QED BY <1>6, <1>7 DEF Mirrors

LEMMA MirrorsLeave ==
  ASSUME NEW n \in Positions, Mirrors(n - 1), Log[n].type = Left
  PROVE  Mirrors(n)
<1> PICK f : f = Log[n]
  OBVIOUS
<1> PICK v : v = Folded(n - 1)
  OBVIOUS
<1> DEFINE Hit(x) == x.iid = f.iid /\ x.agent = f.actor /\ x.left = Open
<1>1. Folded(n) = Fold(v, f) /\ v \subseteq Intervals
  BY LogType, FoldedStep
<1>2. Folded(n) = {IF Hit(x) THEN [x EXCEPT !.left = f.seq] ELSE x : x \in v}
  BY <1>1, FoldCases
<1>3. n \in Nat /\ n \in 1..n /\ f.seq # Open
  BY LogType, ConstantsOK DEF Open, Left, Corrupt
<1>4. ASSUME NEW x \in Folded(n)
      PROVE  IF x.left = Open THEN OpenIn(n, x) ELSE ClosedIn(n, x)
  <2>1. PICK z \in v : x = IF Hit(z) THEN [z EXCEPT !.left = f.seq] ELSE z
    BY <1>2
  <2>2. CASE Hit(z)
    <3>1. /\ x.iid = z.iid /\ x.agent = z.agent /\ x.join = z.join /\ x.left = f.seq
          /\ z.iid = f.iid /\ z.agent = f.actor /\ z.left = Open
      BY <1>1, <2>1, <2>2 DEF Intervals
    <3>2. OpenIn(n - 1, z)
      BY <3>1 DEF Mirrors
    <3>3. PICK k \in 1..(n - 1) : Joins(k, z.iid, z.agent) /\ z.join = Log[k].seq /\ Stays(z.iid, z.agent, k, n - 1)
      BY <3>2 DEF OpenIn
    <3>4. Leaves(n, x.iid, x.agent)
      BY <3>1 DEF Leaves
    <3>5. ClosedIn(n, x)
      BY <1>3, <3>1, <3>3, <3>4 DEF ClosedIn
    <3> QED BY <1>3, <3>1, <3>5
  <2>3. CASE ~Hit(z)
    <3>1. x = z /\ x \in v
      BY <2>1, <2>3
    <3>2. x.left = Open => ~Leaves(n, x.iid, x.agent)
      BY <2>3, <3>1 DEF Leaves
    <3> QED BY <3>1, <3>2, IntervalStays DEF Mirrors
  <2> QED BY <2>2, <2>3
<1>5. ASSUME NEW i, NEW a, Stands(n, i, a) PROVE HasOpen(Folded(n), i, a)
  <2>1. ~Joins(n, i, a)
    BY DEF Joins, Joined, Left
  <2>2. Stands(n - 1, i, a) /\ ~Leaves(n, i, a)
    BY <1>5, <2>1, StandsStep
  <2>3. HasOpen(v, i, a)
    BY <2>2 DEF Mirrors
  <2>4. PICK z \in v : z.iid = i /\ z.agent = a /\ z.left = Open
    BY <2>3 DEF HasOpen
  <2>5. ~Hit(z)
    BY <2>2, <2>4 DEF Leaves
  <2>6. z \in Folded(n)
    BY <1>2, <2>5
  <2> QED BY <2>4, <2>6 DEF HasOpen
<1> QED BY <1>4, <1>5 DEF Mirrors

LEMMA FoldMirrors == \A n \in 0..Len(Log) : Mirrors(n)
<1> DEFINE S == {n \in 0..Len(Log) : Mirrors(n)}
<1>1. Len(Log) \in Nat /\ Positions = 1..Len(Log)
  BY LogType
<1>2. 0 \in S
  BY <1>1, MirrorsNothing
<1>3. ASSUME NEW n \in (0 + 1)..Len(Log), n - 1 \in S PROVE n \in S
  <2>1. n \in Positions /\ n \in 0..Len(Log) /\ Mirrors(n - 1)
    BY <1>1, <1>3
  <2>2. CASE Log[n].type \notin {Joined, Left}
    <3>1. Folded(n) = Folded(n - 1)
      BY <2>1, <2>2, FoldedStep, FoldCases
    <3>2. \A i, a : ~Leaves(n, i, a) /\ ~Joins(n, i, a)
      BY <2>2 DEF Leaves, Joins
    <3>3. \A i, a : Stands(n, i, a) => Stands(n - 1, i, a)
      BY <2>1, <3>2, StandsStep
    <3>4. \A x : (OpenIn(n - 1, x) => OpenIn(n, x)) /\ (ClosedIn(n - 1, x) => ClosedIn(n, x))
      BY <2>1, <3>2, IntervalStays
    <3> QED BY <2>1, <3>1, <3>3, <3>4 DEF Mirrors
  <2> QED BY <2>1, <2>2, MirrorsJoin, MirrorsLeave
<1> HIDE DEF S
<1> PICK z \in Int : z = 0
  OBVIOUS
<1> PICK last \in Int : last = Len(Log)
  BY <1>1
<1>4. z \in S /\ \A n \in (z + 1)..last : n - 1 \in S => n \in S
  BY <1>2, <1>3
<1>5. \A n \in z..last : n \in S
  BY <1>4, RangeInduction
<1> QED BY <1>5 DEF S

\* Along an interaction sequence numbers grow with the stream.
LEMMA SeqOrder ==
  ASSUME NEW m \in Positions, NEW n \in Positions, Log[m].type # Corrupt, Log[n].type # Corrupt,
         Log[m].iid = Log[n].iid
  PROVE  /\ m < n <=> Log[m].seq < Log[n].seq
         /\ m = n <=> Log[m].seq = Log[n].seq
<1>1. m \in Nat /\ n \in Nat /\ m >= 1 /\ n >= 1 /\ Log[m].seq \in Nat /\ Log[n].seq \in Nat
  BY LogType
<1>2. CASE m < n
  <2>1. m \in 1..(n - 1)
    BY <1>1, <1>2
  <2>2. Log[m].seq < Log[n].seq
    BY <2>1, ConstantsOK
  <2> QED BY <1>1, <1>2, <2>2
<1>3. CASE n < m
  <2>1. n \in 1..(m - 1)
    BY <1>1, <1>3
  <2>2. Log[n].seq < Log[m].seq
    BY <2>1, ConstantsOK
  <2> QED BY <1>1, <1>3, <2>2
<1>4. CASE m = n
  <2>1. Log[m].seq = Log[n].seq
    BY <1>4
  <2> QED BY <1>1, <1>4, <2>1
<1> QED BY <1>1, <1>2, <1>3, <1>4

\* The recipients of a fact, from the fold that includes it.
Recipients(n) == CoveredBy(Folded(n), Log[n])

LEMMA RecipientsTakePart ==
  ASSUME NEW n \in Positions, Log[n].type # Corrupt, NEW a \in Recipients(n)
  PROVE  a \in Agents /\ TakesPart(a, n)
<1> PICK i : i = Log[n].iid
  OBVIOUS
<1>1. n \in Nat /\ n \in 0..Len(Log) /\ Log[n].seq \in Nat
  BY LogType
<1>2. PICK x \in Folded(n) : /\ x.agent = a /\ x.iid = i /\ x.join <= Log[n].seq
                             /\ x.left = Open \/ Log[n].seq <= x.left
  BY DEF Recipients, CoveredBy
<1>3. x \in Intervals
  BY <1>1, FoldedStep
<1>4. CASE x.left = Open
  <2>1. PICK k \in 1..n : Joins(k, i, a) /\ Stays(i, a, k, n)
    BY <1>1, <1>2, <1>4, FoldMirrors DEF Mirrors, OpenIn
  <2>2. \A j \in (k + 1)..(n - 1) : ~Leaves(j, i, a)
    BY <1>1, <2>1 DEF Stays
  <2> QED BY <1>2, <1>3, <2>1, <2>2 DEF TakesPart, SameActor, Joins, Leaves, Intervals
<1>5. CASE x.left # Open
  <2>1. ClosedIn(n, x)
    BY <1>1, <1>2, <1>5, FoldMirrors DEF Mirrors
  <2>0. PICK l \in 1..n : \E k \in 1..(l - 1) :
          Joins(k, i, a) /\ Stays(i, a, k, l - 1) /\ Leaves(l, i, a) /\ x.left = Log[l].seq
    BY <1>2, <2>1 DEF ClosedIn
  <2>2. PICK k \in 1..(l - 1) :
          Joins(k, i, a) /\ Stays(i, a, k, l - 1) /\ Leaves(l, i, a) /\ x.left = Log[l].seq
    BY <2>0
  <2>3. l \in Positions /\ Log[l].type # Corrupt /\ Log[l].iid = Log[n].iid /\ Log[l].seq \in Nat
    BY <1>1, <2>2, LogType DEF Leaves, Left, Corrupt
  <2>4. Log[n].seq <= Log[l].seq
    BY <1>2, <1>5, <2>2
  <2>5. l = n
    BY <1>1, <2>2, <2>3, <2>4, SeqOrder
  <2>6. k \in 1..n /\ \A j \in (k + 1)..(n - 1) : ~Leaves(j, i, a)
    BY <1>1, <2>2, <2>5 DEF Stays
  <2> QED BY <1>2, <1>3, <2>2, <2>6 DEF TakesPart, SameActor, Joins, Leaves, Intervals
<1> QED BY <1>4, <1>5

LEMMA WhoTakesPartReceives ==
  ASSUME NEW n \in Positions, Log[n].type # Corrupt, NEW a \in Agents, TakesPart(a, n)
  PROVE  a \in Recipients(n)
<1> PICK f : f = Log[n]
  OBVIOUS
<1>1. n \in Nat /\ n \in 1..Len(Log) /\ n \in 0..Len(Log) /\ n - 1 \in 0..Len(Log) /\ f.seq \in Nat /\ n \in 1..n
  BY LogType
<1>2. PICK k \in 1..n : Joins(k, f.iid, a) /\ \A j \in (k + 1)..(n - 1) : ~Leaves(j, f.iid, a)
  BY DEF TakesPart, SameActor, Joins, Leaves
<1>3. ASSUME NEW m \in 0..n, NEW y \in Folded(m), y.iid = f.iid, y.agent = a, y.left = Open
      PROVE  y.join \in Nat /\ y.join <= f.seq
  <2>1. m \in 0..Len(Log)
    BY <1>1
  <2>2. OpenIn(m, y)
    BY <1>3, <2>1, FoldMirrors DEF Mirrors
  <2>3. PICK q \in 1..m : Joins(q, f.iid, a) /\ y.join = Log[q].seq
    BY <1>3, <2>2 DEF OpenIn
  <2>4. q \in Positions /\ q <= n /\ q \in Nat /\ Log[q].type # Corrupt /\ Log[q].iid = f.iid /\ Log[q].seq \in Nat
    BY <1>1, <2>3, LogType DEF Joins, Joined, Corrupt
  <2> QED BY <1>1, <2>3, <2>4, SeqOrder
<1>4. CASE Leaves(n, f.iid, a)
  <2>1. k # n
    BY <1>2, <1>4 DEF Joins, Leaves, Joined, Left
  <2>2. k \in 1..(n - 1) /\ Stays(f.iid, a, k, n - 1)
    BY <1>1, <1>2, <2>1 DEF Stays
  <2>3. HasOpen(Folded(n - 1), f.iid, a)
    BY <1>1, <1>2, <2>2, FoldMirrors DEF Mirrors, Stands
  <2>4. PICK y \in Folded(n - 1) : y.iid = f.iid /\ y.agent = a /\ y.left = Open
    BY <2>3 DEF HasOpen
  <2>5. n - 1 \in 0..n /\ y \in Intervals
    BY <1>1, FoldedStep
  <2>6. y.join <= f.seq
    BY <1>3, <2>4, <2>5
  <2> PICK z : z = [y EXCEPT !.left = f.seq]
    OBVIOUS
  <2>7. z.iid = f.iid /\ z.agent = a /\ z.join = y.join /\ z.left = f.seq
    BY <2>4, <2>5 DEF Intervals
  <2>8. z \in Folded(n)
    <3>1. f.type = Left /\ f.actor = a
      BY <1>4 DEF Leaves
    <3>2. Folded(n) = Fold(Folded(n - 1), f)
      BY FoldedStep
    <3> QED BY <2>4, <3>1, <3>2, FoldCases
  <2>9. z.join <= f.seq /\ f.seq <= z.left
    BY <1>1, <2>6, <2>7
  <2> QED BY <2>7, <2>8, <2>9 DEF Recipients, CoveredBy
<1>5. CASE ~Leaves(n, f.iid, a)
  <2>1. Stays(f.iid, a, k, n)
    BY <1>1, <1>2, <1>5 DEF Stays
  <2>2. HasOpen(Folded(n), f.iid, a)
    BY <1>1, <1>2, <2>1, FoldMirrors DEF Mirrors, Stands
  <2>3. PICK y \in Folded(n) : y.iid = f.iid /\ y.agent = a /\ y.left = Open
    BY <2>2 DEF HasOpen
  <2>4. n \in 0..n
    BY <1>1
  <2>5. y.join <= f.seq
    BY <1>3, <2>3, <2>4
  <2> QED BY <2>3, <2>5 DEF Recipients, CoveredBy
<1> QED BY <1>4, <1>5

-----------------------------------------------------------------------------
(* The shape of the state, whatever the timing. *)

Kinds == {"fact", "revoked"}
Messages == [seq : Nat, kind : Kinds]
Snapshots == [seq : Positions, view : SUBSET Intervals]

ConsumerType ==
  /\ floor \in 0..Len(Log)
  /\ cur \in (floor + 1)..(Len(Log) + 1)
  /\ count \in 0..MaxDeliver
  /\ cur \notin Positions => count = 0
  /\ phase \in {"ready", "out"}
  /\ exhausted \subseteq Positions

StoreType ==
  /\ lease \in Replicas \union {NoReplica}
  /\ snaps \in Seq(Snapshots) /\ Len(snaps) <= MaxHistory
  /\ feeds \in [Agents \X Iids -> Seq(Messages)]
  /\ dlq \subseteq Positions

\* Where the fact in process is being published, and where it is not settled.
Publishing == {"fanout", "tombstone", "settle", "ack"}
Working == Publishing \union {"failing", "dlqAck"}

\* What a replica holds at each label.
Holds(p) ==
  /\ fact[p] # 0 <=> pc[p] \in Working \union {"snapshot"}
  /\ todo[p] # {} => pc[p] \in {"fanout", "failing", "dlqAck"}
  /\ pc[p] = "tombstone" => Log[fact[p]].type = Left
  /\ pc[p] \in Publishing \union {"snapshot"} => Log[fact[p]].type # Corrupt

ReplicaType ==
  /\ pc \in [Replicas -> Labels]
  /\ fence \in [Replicas -> {"ok", "paused", "lost"}]
  /\ cancelled \in [Replicas -> BOOLEAN]
  /\ view \in [Replicas -> SUBSET Intervals]
  /\ hydrateTo \in [Replicas -> 0..Len(Log)]
  /\ fact \in [Replicas -> 0..Len(Log)]
  /\ delivered \in [Replicas -> 0..MaxDeliver]
  /\ todo \in [Replicas -> SUBSET Agents]
  /\ sinceSnap \in [Replicas -> Nat]

Shape ==
  /\ ConsumerType
  /\ StoreType
  /\ ReplicaType
  /\ \A p \in Replicas : Holds(p)
  /\ faults \in 0..MaxFaults

LEMMA FaultType ==
  ASSUME faults \in 0..MaxFaults, Fault
  PROVE  faults' \in 0..MaxFaults
BY ConstantsOK DEF Fault

\* A step of one replica.
LEMMA OneReplica ==
  ASSUME Shape, NEW p \in Replicas, ReplicaType', Holds(p)',
         \A q \in Replicas \ {p} : pc'[q] = pc[q] /\ fact'[q] = fact[q] /\ todo'[q] = todo[q]
  PROVE  \A q \in Replicas : Holds(q)'
BY DEF Shape, Holds

LEMMA ForgetType ==
  ASSUME Shape, NEW p \in Replicas, Forget(p)
  PROVE  ReplicaType' /\ \A q \in Replicas : Holds(q)'
<1>1. Len(Log) \in Nat /\ MaxDeliver \in Nat
  BY LogType, ConstantsOK
<1>2. ReplicaType'
  BY <1>1 DEF Shape, ReplicaType, Forget, Goto, Labels
<1>3. Holds(p)'
  BY <1>1 DEF Shape, ReplicaType, Forget, Goto, Holds, Working, Publishing
<1>4. \A q \in Replicas \ {p} : pc'[q] = pc[q] /\ fact'[q] = fact[q] /\ todo'[q] = todo[q]
  BY DEF Shape, ReplicaType, Forget, Goto
<1> QED BY <1>2, <1>3, <1>4, OneReplica

LEMMA LeaveType ==
  ASSUME Shape, NEW p \in Replicas, Leave(p), UNCHANGED <<snaps, feeds, dlq>>
  PROVE  ReplicaType' /\ (\A q \in Replicas : Holds(q)') /\ StoreType'
<1>1. StoreType'
  BY DEF Leave, Release, Shape, StoreType
<1> QED BY <1>1, ForgetType DEF Leave

LEMMA GotoType ==
  ASSUME Shape, NEW p \in Replicas, NEW l \in Labels, Goto(p, l), UNCHANGED workVars,
         fence' \in [Replicas -> {"ok", "paused", "lost"}], cancelled' \in [Replicas -> BOOLEAN],
         l \in Working \union {"snapshot"} <=> pc[p] \in Working \union {"snapshot"},
         todo[p] # {} => l \in {"fanout", "failing", "dlqAck"},
         l = "tombstone" => Log[fact[p]].type = Left,
         l \in Publishing \union {"snapshot"} => Log[fact[p]].type # Corrupt
  PROVE  ReplicaType' /\ \A q \in Replicas : Holds(q)'
<1>1. ReplicaType'
  BY DEF Shape, ReplicaType, Goto, workVars
<1>2. Holds(p)'
  BY DEF Shape, ReplicaType, Goto, Holds, workVars
<1>3. \A q \in Replicas \ {p} : pc'[q] = pc[q] /\ fact'[q] = fact[q] /\ todo'[q] = todo[q]
  BY DEF Shape, ReplicaType, Goto, workVars
<1> QED BY <1>1, <1>2, <1>3, OneReplica

LEMMA DoneType ==
  ASSUME Shape, NEW p \in Replicas, Done(p, "live"), UNCHANGED <<view, hydrateTo, fenceVars>>,
         sinceSnap' \in [Replicas -> Nat]
  PROVE  ReplicaType' /\ \A q \in Replicas : Holds(q)'
<1>1. Len(Log) \in Nat /\ MaxDeliver \in Nat
  BY LogType, ConstantsOK
<1>2. ReplicaType'
  <2>1. ReplicaType /\ UNCHANGED <<view, hydrateTo, fence, cancelled>>
    BY DEF Shape, fenceVars
  <2>2. pc' \in [Replicas -> Labels]
    BY <2>1 DEF ReplicaType, Done, Goto, Labels
  <2>3. fact' \in [Replicas -> 0..Len(Log)] /\ delivered' \in [Replicas -> 0..MaxDeliver]
    BY <1>1, <2>1 DEF ReplicaType, Done
  <2>4. todo' \in [Replicas -> SUBSET Agents]
    BY <2>1 DEF ReplicaType, Done
  <2> QED BY <2>1, <2>2, <2>3, <2>4 DEF ReplicaType
<1>3. Holds(p)'
  BY <1>1 DEF Shape, ReplicaType, Done, Goto, Holds, Working, Publishing
<1>4. \A q \in Replicas \ {p} : pc'[q] = pc[q] /\ fact'[q] = fact[q] /\ todo'[q] = todo[q]
  BY DEF Shape, ReplicaType, Done, Goto
<1> QED BY <1>2, <1>3, <1>4, OneReplica

LEMMA NakMsgType ==
  ASSUME Shape, NEW n, NakMsg(n)
  PROVE  ConsumerType'
BY DEF Shape, ConsumerType, NakMsg

LEMMA AckMsgType ==
  ASSUME Shape, NEW n \in Positions, AckMsg(n) \/ UNCHANGED consumerVars
  PROVE  ConsumerType'
<1>1. Len(Log) \in Nat /\ MaxDeliver \in Nat /\ n \in Nat /\ n <= Len(Log)
  BY LogType, ConstantsOK
<1>2. CASE UNCHANGED consumerVars
  BY <1>2 DEF Shape, ConsumerType, consumerVars
<1>3. CASE AckMsg(n) /\ n = cur
  <2>1. floor' = n /\ cur' = n + 1 /\ count' = 0 /\ phase' = "ready" /\ exhausted' = exhausted
    BY <1>3 DEF AckMsg
  <2>2. floor' \in 0..Len(Log) /\ cur' \in (floor' + 1)..(Len(Log) + 1) /\ count' \in 0..MaxDeliver
    BY <1>1, <2>1
  <2> QED BY <2>1, <2>2 DEF Shape, ConsumerType
<1> QED BY <1>2, <1>3 DEF AckMsg

LEMMA StoreFeeds ==
  ASSUME Shape, NEW a \in Agents, NEW n \in Positions, NEW kind \in Kinds, Store(a, n, kind)
  PROVE  feeds' \in [Agents \X Iids -> Seq(Messages)]
<1> PICK msg : msg = [seq |-> Log[n].seq, kind |-> kind]
  OBVIOUS
<1> PICK x : x = <<a, Log[n].iid>>
  OBVIOUS
<1>1. msg \in Messages /\ x \in Agents \X Iids /\ feeds \in [Agents \X Iids -> Seq(Messages)]
  BY LogType DEF Messages, Shape, StoreType
<1>2. feeds' = feeds \/ feeds' = [feeds EXCEPT ![x] = Append(feeds[x], msg)]
  BY DEF Store
<1>3. Append(feeds[x], msg) \in Seq(Messages)
  BY <1>1
<1> QED BY <1>1, <1>2, <1>3

LEMMA FactInProcess ==
  ASSUME Shape, NEW p \in Replicas, pc[p] \in Working \union {"snapshot"}
  PROVE  fact[p] \in Positions
BY LogType DEF Shape, ReplicaType, Holds

LEMMA CoveredType ==
  ASSUME NEW v, v \subseteq Intervals, NEW f
  PROVE  CoveredBy(v, f) \subseteq Agents
BY DEF CoveredBy, Intervals

\* The newest usable snapshot, or none.
LEMMA LoadMeans ==
  ASSUME snaps \in Seq(Snapshots), NEW h \in 0..Len(Log)
  PROVE  \/ Load(h).seq = 0 /\ Load(h).view = {}
         \/ \E k \in DOMAIN snaps : Load(h) = snaps[k] /\ snaps[k].seq <= h
<1> DEFINE usable == {k \in DOMAIN snaps : snaps[k].seq <= h}
           Newest(k) == \A j \in usable : j <= k
<1>1. CASE usable = {}
  <2>1. Load(h) = [seq |-> 0, view |-> {}]
    BY <1>1 DEF Load
  <2> QED BY <2>1
<1>2. CASE usable # {}
  <2>1. Len(snaps) \in Nat /\ usable \subseteq 1..Len(snaps)
    OBVIOUS
  <2> DEFINE T == {Len(snaps) - k : k \in usable}
  <2>2. T \subseteq Nat /\ T # {}
    BY <1>2, <2>1
  <2>3. PICK t \in T : \A s \in T : t <= s
    BY <2>2, LeastElement
  <2>4. PICK k \in usable : t = Len(snaps) - k
    BY <2>3
  <2>5. \A j \in usable : Len(snaps) - j \in T
    OBVIOUS
  <2> HIDE DEF T, usable
  <2>6. Newest(k)
    <3> SUFFICES ASSUME NEW j \in usable PROVE j <= k
      OBVIOUS
    <3>1. t <= Len(snaps) - j
      BY <2>3, <2>5
    <3> QED BY <2>1, <2>4, <3>1
  <2>7. Load(h) = snaps[CHOOSE l \in usable : Newest(l)]
    BY <1>2 DEF Load, usable
  <2>8. PICK l \in usable : Load(h) = snaps[l]
    <3> HIDE DEF Newest
    <3> QED BY <2>6, <2>7
  <2> QED BY <2>8 DEF usable
<1> QED BY <1>1, <1>2

LEMMA LoadType ==
  ASSUME snaps \in Seq(Snapshots), NEW h \in 0..Len(Log)
  PROVE  Load(h).seq \in 0..h /\ Load(h).view \subseteq Intervals
<1>1. Len(Log) \in Nat
  BY LogType
<1>2. \A k \in DOMAIN snaps : snaps[k].seq \in 1..Len(Log) /\ snaps[k].view \subseteq Intervals
  <2> SUFFICES ASSUME NEW k \in DOMAIN snaps
               PROVE  snaps[k].seq \in 1..Len(Log) /\ snaps[k].view \subseteq Intervals
    OBVIOUS
  <2>1. snaps[k] \in Snapshots
    OBVIOUS
  <2> QED BY <2>1, LogType DEF Snapshots
<1> QED BY <1>1, <1>2, LoadMeans

LEMMA PutType ==
  ASSUME StoreType, NEW s \in Snapshots
  PROVE  Put(s) \in Seq(Snapshots) /\ Len(Put(s)) <= MaxHistory
<1>1. MaxHistory \in Nat \ {0} /\ snaps \in Seq(Snapshots) /\ Len(snaps) <= MaxHistory /\ Len(snaps) \in Nat
  BY ConstantsOK DEF StoreType
<1>2. CASE Len(snaps) < MaxHistory
  BY <1>1, <1>2 DEF Put
<1>3. CASE ~(Len(snaps) < MaxHistory)
  <2>1. snaps # <<>>
    BY <1>1, <1>3
  <2>2. Tail(snaps) \in Seq(Snapshots) /\ Len(Tail(snaps)) = Len(snaps) - 1
    BY <1>1, <2>1
  <2> QED BY <1>1, <1>3, <2>2 DEF Put
<1> QED BY <1>2, <1>3

-----------------------------------------------------------------------------
(* Every step keeps the shape. *)

LEMMA AcquireShape ==
  ASSUME Shape, NEW p \in Replicas, Acquire(p)
  PROVE  Shape'
<1>1. /\ pc[p] = "standby" /\ lease' = p /\ Goto(p, "floor")
      /\ UNCHANGED <<consumerVars, snaps, feeds, dlq, fenceVars, workVars, faults>>
  BY DEF Acquire
<1>2. ConsumerType' /\ StoreType' /\ faults' = faults
  BY <1>1 DEF Shape, ConsumerType, StoreType, consumerVars
<1>3. ReplicaType' /\ \A q \in Replicas : Holds(q)'
  BY <1>1, GotoType DEF Shape, ReplicaType, Holds, Labels, Working, Publishing, fenceVars
<1> QED BY <1>2, <1>3 DEF Shape

\* Steps of the renewal beside the data loop.
LEMMA FenceShape ==
  ASSUME Shape, UNCHANGED <<consumerVars, storeVars, pc, workVars>>, faults' \in 0..MaxFaults,
         fence' \in [Replicas -> {"ok", "paused", "lost"}], cancelled' \in [Replicas -> BOOLEAN]
  PROVE  Shape'
<1>1. ConsumerType' /\ StoreType'
  BY DEF Shape, ConsumerType, StoreType, consumerVars, storeVars
<1>2. ReplicaType'
  BY DEF Shape, ReplicaType, workVars
<1>3. \A q \in Replicas : Holds(q)'
  BY DEF Shape, Holds, workVars
<1> QED BY <1>1, <1>2, <1>3 DEF Shape

LEMMA RenewShape ==
  ASSUME Shape, NEW p \in Replicas, RenewRetried(p) \/ RenewFails(p) \/ Shutdown(p)
  PROVE  Shape'
<1>1. UNCHANGED <<consumerVars, storeVars, pc, workVars>>
  BY DEF RenewRetried, RenewFails, Shutdown
<1>2. faults' \in 0..MaxFaults
  BY FaultType DEF Shape, RenewRetried, RenewFails, Shutdown
<1>3. fence \in [Replicas -> {"ok", "paused", "lost"}] /\ cancelled \in [Replicas -> BOOLEAN]
  BY DEF Shape, ReplicaType
<1>4. fence' \in [Replicas -> {"ok", "paused", "lost"}]
  BY <1>3 DEF RenewRetried, RenewFails, Shutdown
<1>5. cancelled' \in [Replicas -> BOOLEAN]
  BY <1>3 DEF RenewRetried, RenewFails, Shutdown
<1> QED BY <1>1, <1>2, <1>4, <1>5, FenceShape

LEMMA CrashShape ==
  ASSUME Shape, NEW p \in Replicas, Crash(p)
  PROVE  Shape'
<1>1. Fault /\ Forget(p) /\ UNCHANGED <<consumerVars, storeVars>>
  BY DEF Crash
<1>2. ConsumerType' /\ StoreType' /\ faults' \in 0..MaxFaults
  BY <1>1, FaultType DEF Shape, ConsumerType, StoreType, consumerVars, storeVars
<1> QED BY <1>1, <1>2, ForgetType DEF Shape

LEMMA LeaveShape ==
  ASSUME Shape, NEW p \in Replicas, Leave(p), UNCHANGED <<consumerVars, snaps, feeds, dlq>>,
         Fault \/ UNCHANGED faults
  PROVE  Shape'
<1>1. ConsumerType' /\ faults' \in 0..MaxFaults
  BY FaultType DEF Shape, ConsumerType, consumerVars
<1> QED BY <1>1, LeaveType DEF Shape

LEMMA ReadFloorShape ==
  ASSUME Shape, NEW p \in Replicas, ReadFloor(p)
  PROVE  Shape'
<1>1. /\ pc[p] = "floor" /\ hydrateTo' = [hydrateTo EXCEPT ![p] = floor] /\ Goto(p, "hydrate")
      /\ UNCHANGED <<consumerVars, storeVars, fenceVars, view, fact, delivered, todo, sinceSnap, faults>>
  BY DEF ReadFloor
<1>2. ConsumerType' /\ StoreType' /\ faults' = faults /\ floor \in 0..Len(Log)
  BY <1>1 DEF Shape, ConsumerType, StoreType, consumerVars, storeVars
<1>3. ReplicaType'
  BY <1>1, <1>2 DEF Shape, ReplicaType, Goto, Labels, fenceVars
<1>4. Holds(p)'
  BY <1>1 DEF Shape, ReplicaType, Holds, Goto, Working, Publishing
<1>5. \A q \in Replicas \ {p} : pc'[q] = pc[q] /\ fact'[q] = fact[q] /\ todo'[q] = todo[q]
  BY <1>1 DEF Shape, ReplicaType, Goto
<1> QED BY <1>2, <1>3, <1>4, <1>5, OneReplica DEF Shape

\* What Hydrate folds: the loaded snapshot and facts up to some hi.
LEMMA HydrateMeans ==
  ASSUME Shape, NEW p \in Replicas, Hydrate(p)
  PROVE  \E hi \in Load(hydrateTo[p]).seq..hydrateTo[p] :
           /\ view' = [view EXCEPT ![p] = FoldRange(Load(hydrateTo[p]).view, Load(hydrateTo[p]).seq, hi)]
           /\ ~SlowReplay => hi = hydrateTo[p]
<1> PICK h : h = hydrateTo[p]
  OBVIOUS
<1>1. h \in 0..Len(Log) /\ Len(Log) \in Nat
  BY LogType DEF Shape, ReplicaType
<1>2. Load(h).seq \in 0..h
  BY <1>1, LoadType DEF Shape, StoreType
<1>3. PICK hi \in (IF SlowReplay THEN Load(h).seq ELSE h)..h :
        view' = [view EXCEPT ![p] = FoldRange(Load(h).view, Load(h).seq, hi)]
  BY DEF Hydrate
<1>4. hi \in Load(h).seq..h /\ (~SlowReplay => hi = h)
  BY <1>1, <1>2
<1> QED BY <1>3, <1>4

LEMMA HydrateShape ==
  ASSUME Shape, NEW p \in Replicas, Hydrate(p)
  PROVE  Shape'
<1> PICK h : h = hydrateTo[p]
  OBVIOUS
<1>1. /\ pc[p] = "hydrate" /\ Goto(p, "live")
      /\ UNCHANGED <<consumerVars, storeVars, fenceVars, hydrateTo, fact, delivered, todo, sinceSnap, faults>>
  BY DEF Hydrate
<1>2. ConsumerType' /\ StoreType' /\ faults' = faults
  BY <1>1 DEF Shape, ConsumerType, StoreType, consumerVars, storeVars
<1>3. PICK hi \in Load(h).seq..h : view' = [view EXCEPT ![p] = FoldRange(Load(h).view, Load(h).seq, hi)]
  BY HydrateMeans
<1>4. h \in 0..Len(Log) /\ Len(Log) \in Nat /\ Load(h).seq \in 0..h /\ Load(h).view \subseteq Intervals
  BY LogType, LoadType DEF Shape, ReplicaType, StoreType
<1>5. Load(h).seq \in 0..Len(Log) /\ hi \in Load(h).seq..Len(Log)
  BY <1>4
<1>6. FoldRange(Load(h).view, Load(h).seq, hi) \subseteq Intervals
  BY <1>4, <1>5, FoldRangeType
<1>7. view' \in [Replicas -> SUBSET Intervals]
  BY <1>3, <1>6 DEF Shape, ReplicaType
<1>8. ReplicaType'
  BY <1>1, <1>7 DEF Shape, ReplicaType, Goto, Labels, fenceVars
<1>9. Holds(p)'
  BY <1>1 DEF Shape, ReplicaType, Holds, Goto, Working, Publishing
<1>10. \A q \in Replicas \ {p} : pc'[q] = pc[q] /\ fact'[q] = fact[q] /\ todo'[q] = todo[q]
  BY <1>1 DEF Shape, ReplicaType, Goto
<1> QED BY <1>2, <1>8, <1>9, <1>10, OneReplica DEF Shape

LEMMA BeginShape ==
  ASSUME Shape, NEW p \in Replicas, Begin(p)
  PROVE  Shape'
<1>1. /\ pc[p] = "live" /\ Goto(p, "fetch") /\ cancelled' = [cancelled EXCEPT ![p] = FALSE]
      /\ UNCHANGED <<consumerVars, storeVars, fence, workVars, faults>>
  BY DEF Begin
<1>2. ConsumerType' /\ StoreType' /\ faults' = faults
  BY <1>1 DEF Shape, ConsumerType, StoreType, consumerVars, storeVars
<1>3. fence' \in [Replicas -> {"ok", "paused", "lost"}] /\ cancelled' \in [Replicas -> BOOLEAN]
  BY <1>1 DEF Shape, ReplicaType
<1>4. todo[p] = {}
  BY <1>1 DEF Shape, Holds
<1>5. ReplicaType' /\ \A q \in Replicas : Holds(q)'
  BY <1>1, <1>3, <1>4, GotoType DEF Labels, Working, Publishing
<1> QED BY <1>2, <1>5 DEF Shape

LEMMA FetchEndsShape ==
  ASSUME Shape, NEW p \in Replicas, FetchEnds(p)
  PROVE  Shape'
<1>1. UNCHANGED <<consumerVars, snaps, feeds, dlq>> /\ pc[p] = "fetch"
  BY DEF FetchEnds
<1>2. CASE Fault /\ Leave(p)
  BY <1>1, <1>2, LeaveShape
<1>3. CASE Goto(p, "live") /\ UNCHANGED <<lease, fenceVars, workVars, faults>>
  <2>1. ConsumerType' /\ StoreType' /\ faults' = faults
    BY <1>1, <1>3 DEF Shape, ConsumerType, StoreType, consumerVars
  <2>2. fence' \in [Replicas -> {"ok", "paused", "lost"}] /\ cancelled' \in [Replicas -> BOOLEAN]
    BY <1>3 DEF Shape, ReplicaType, fenceVars
  <2>3. todo[p] = {}
    BY <1>1 DEF Shape, Holds
  <2>4. ReplicaType' /\ \A q \in Replicas : Holds(q)'
    BY <1>1, <1>3, <2>2, <2>3, GotoType DEF Labels, Working, Publishing
  <2> QED BY <2>1, <2>4 DEF Shape
<1> QED BY <1>2, <1>3 DEF FetchEnds

LEMMA DeliverShape ==
  ASSUME Shape, NEW p \in Replicas, Deliver(p)
  PROVE  Shape'
<1> PICK f : f = Log[cur]
  OBVIOUS
<1> PICK v : v = Fold(view[p], f)
  OBVIOUS
<1> PICK rec : rec = IF cancelled[p] THEN {} ELSE CoveredBy(v, f)
  OBVIOUS
<1>1. /\ pc[p] = "fetch" /\ count < MaxDeliver /\ cur <= Len(Log) /\ phase' = "out" /\ count' = count + 1
      /\ fact' = [fact EXCEPT ![p] = cur] /\ delivered' = [delivered EXCEPT ![p] = count + 1]
      /\ UNCHANGED <<floor, cur, exhausted, storeVars, fenceVars, hydrateTo, sinceSnap, faults>>
  BY DEF Deliver
<1>2. \/ f.type = Corrupt /\ Goto(p, "failing") /\ UNCHANGED <<view, todo>>
      \/ /\ f.type # Corrupt /\ view' = [view EXCEPT ![p] = v] /\ todo' = [todo EXCEPT ![p] = rec]
         /\ Goto(p, IF rec = {} THEN AfterFanout(p, cur) ELSE "fanout")
  BY DEF Deliver
<1>3. Len(Log) \in Nat /\ MaxDeliver \in Nat
  BY LogType, ConstantsOK
<1>4. /\ cur \in Positions /\ cur \in 0..Len(Log) /\ cur # 0 /\ count + 1 \in 0..MaxDeliver
  BY <1>1, <1>3, LogType DEF Shape, ConsumerType
<1>5. ConsumerType'
  BY <1>1, <1>4 DEF Shape, ConsumerType
<1>6. StoreType' /\ faults' = faults
  BY <1>1 DEF Shape, StoreType, storeVars
<1>7. v \subseteq Intervals /\ rec \subseteq Agents
  BY <1>4, FoldType, CoveredType DEF Shape, ReplicaType
<1> PICK l : l = pc'[p]
  OBVIOUS
<1>8. /\ pc' = [pc EXCEPT ![p] = l] /\ l \in Working /\ l \in Labels
      /\ l = "tombstone" => f.type = Left
      /\ l \in Publishing => f.type # Corrupt
      /\ todo'[p] # {} => l \in {"fanout", "failing"}
  <2>1. pc \in [Replicas -> Labels] /\ todo \in [Replicas -> SUBSET Agents]
    BY DEF Shape, ReplicaType
  <2>2. AfterFanout(p, cur) \in {"tombstone", "settle"} /\ (AfterFanout(p, cur) = "tombstone" => f.type = Left)
    BY DEF AfterFanout
  <2>3. CASE f.type = Corrupt
    BY <1>2, <2>1, <2>3 DEF Goto, Working, Publishing, Labels
  <2>4. CASE f.type # Corrupt
    <3>1. l = (IF rec = {} THEN AfterFanout(p, cur) ELSE "fanout") /\ pc' = [pc EXCEPT ![p] = l] /\ todo'[p] = rec
      BY <1>2, <2>1, <2>4 DEF Goto
    <3> QED BY <2>2, <2>4, <3>1 DEF Working, Publishing, Labels
  <2> QED BY <2>3, <2>4
<1>9. view' \in [Replicas -> SUBSET Intervals]
  BY <1>2, <1>7 DEF Shape, ReplicaType
<1>10. todo' \in [Replicas -> SUBSET Agents]
  BY <1>2, <1>7 DEF Shape, ReplicaType
<1>11. ReplicaType'
  BY <1>1, <1>4, <1>8, <1>9, <1>10 DEF Shape, ReplicaType, fenceVars
<1>12. fact'[p] = cur
  BY <1>1 DEF Shape, ReplicaType
<1>13. Holds(p)'
  BY <1>4, <1>8, <1>12 DEF Holds, Working, Publishing
<1>14. \A q \in Replicas \ {p} : pc'[q] = pc[q] /\ fact'[q] = fact[q] /\ todo'[q] = todo[q]
  BY <1>1, <1>2, <1>8 DEF Shape, ReplicaType
<1> QED BY <1>5, <1>6, <1>11, <1>13, <1>14, OneReplica DEF Shape

\* Who is published to, and what.
LEMMA StoreShape ==
  ASSUME Shape, NEW p \in Replicas,
         \/ pc[p] = "fanout" /\ \E a \in todo[p] : Store(a, fact[p], "fact")
         \/ pc[p] = "tombstone" /\ Store(Log[fact[p]].actor, fact[p], "revoked")
         \/ UNCHANGED feeds,
         UNCHANGED <<lease, snaps, dlq>>
  PROVE  StoreType'
<1>1. feeds' \in [Agents \X Iids -> Seq(Messages)]
  <2>1. CASE pc[p] = "fanout" /\ \E a \in todo[p] : Store(a, fact[p], "fact")
    <3>1. fact[p] \in Positions /\ todo[p] \subseteq Agents
      BY <2>1, FactInProcess DEF Shape, ReplicaType, Working, Publishing
    <3> QED BY <2>1, <3>1, StoreFeeds DEF Kinds
  <2>2. CASE pc[p] = "tombstone" /\ Store(Log[fact[p]].actor, fact[p], "revoked")
    <3>1. fact[p] \in Positions /\ Log[fact[p]].type = Left
      BY <2>2, FactInProcess DEF Shape, Holds, Working, Publishing
    <3>2. Log[fact[p]].actor \in Agents
      BY <3>1, ConstantsOK
    <3> QED BY <2>2, <3>1, <3>2, StoreFeeds DEF Kinds
  <2> QED BY <2>1, <2>2 DEF Shape, StoreType
<1> QED BY <1>1 DEF Shape, StoreType

LEMMA PublishShape ==
  ASSUME Shape, NEW p \in Replicas, NEW a \in Agents, Publish(p, a)
  PROVE  Shape'
<1>1. /\ pc[p] = "fanout" /\ a \in todo[p] /\ Store(a, fact[p], "fact")
      /\ todo' = [todo EXCEPT ![p] = todo[p] \ {a}]
      /\ Goto(p, IF todo[p] = {a} THEN AfterFanout(p, fact[p]) ELSE "fanout")
      /\ UNCHANGED <<consumerVars, lease, snaps, dlq, fenceVars, view, hydrateTo, fact, delivered, sinceSnap, faults>>
  BY DEF Publish
<1>2. ConsumerType' /\ StoreType' /\ faults' = faults
  BY <1>1, StoreShape DEF Shape, ConsumerType, consumerVars
<1>3. AfterFanout(p, fact[p]) \in {"tombstone", "settle"}
        /\ (AfterFanout(p, fact[p]) = "tombstone" => Log[fact[p]].type = Left)
  BY DEF AfterFanout
<1> PICK l : l = IF todo[p] = {a} THEN AfterFanout(p, fact[p]) ELSE "fanout"
  OBVIOUS
<1>4. l \in {"tombstone", "settle", "fanout"} /\ pc' = [pc EXCEPT ![p] = l]
        /\ (l = "tombstone" => Log[fact[p]].type = Left)
        /\ (l # "fanout" => todo[p] = {a})
  BY <1>1, <1>3 DEF Goto
<1>5. ReplicaType'
  BY <1>1, <1>4 DEF Shape, ReplicaType, Labels, fenceVars
<1>6. pc'[p] = l /\ todo'[p] = todo[p] \ {a} /\ fact'[p] = fact[p]
  BY <1>1, <1>4 DEF Shape, ReplicaType
<1>7. fact[p] # 0 /\ Log[fact[p]].type # Corrupt
  BY <1>1 DEF Shape, Holds, Working, Publishing
<1>8. Holds(p)'
  BY <1>4, <1>6, <1>7 DEF Holds, Working, Publishing
<1>9. \A q \in Replicas \ {p} : pc'[q] = pc[q] /\ fact'[q] = fact[q] /\ todo'[q] = todo[q]
  BY <1>1, <1>4 DEF Shape, ReplicaType
<1> QED BY <1>2, <1>5, <1>8, <1>9, OneReplica DEF Shape

\* A replica goes on to a label within the work on a fact.
LEMMA GoOnShape ==
  ASSUME Shape, NEW p \in Replicas, NEW l \in Working, pc[p] \in Working, Goto(p, l),
         UNCHANGED <<fenceVars, workVars>>,
         todo[p] # {} => l \in {"fanout", "failing", "dlqAck"},
         l \in {"failing", "dlqAck"} \/ (l \in {"settle", "ack"} /\ Log[fact[p]].type # Corrupt)
  PROVE  ReplicaType' /\ \A q \in Replicas : Holds(q)'
<1>1. l \in Labels
  BY DEF Working, Publishing, Labels
<1>2. fence' \in [Replicas -> {"ok", "paused", "lost"}] /\ cancelled' \in [Replicas -> BOOLEAN]
  BY DEF Shape, ReplicaType, fenceVars
<1>3. UNCHANGED workVars
  OBVIOUS
<1>4. l # "tombstone" /\ (l \in Publishing \union {"snapshot"} => Log[fact[p]].type # Corrupt)
  BY DEF Publishing
<1> QED BY <1>1, <1>2, <1>3, <1>4, GotoType

LEMMA TombstoneShape ==
  ASSUME Shape, NEW p \in Replicas, Tombstone(p)
  PROVE  Shape'
<1>1. /\ pc[p] = "tombstone" /\ Store(Log[fact[p]].actor, fact[p], "revoked") /\ Goto(p, "settle")
      /\ UNCHANGED <<consumerVars, lease, snaps, dlq, fenceVars, workVars, faults>>
  BY DEF Tombstone
<1>2. ConsumerType' /\ StoreType' /\ faults' = faults
  BY <1>1, StoreShape DEF Shape, ConsumerType, consumerVars
<1>3. todo[p] = {} /\ Log[fact[p]].type # Corrupt /\ pc[p] \in Working /\ "settle" \in Working
  BY <1>1 DEF Shape, Holds, Publishing, Working
<1>4. UNCHANGED <<fenceVars, workVars>>
  BY <1>1
<1>5. ReplicaType' /\ \A q \in Replicas : Holds(q)'
  BY <1>1, <1>3, <1>4, GoOnShape
<1> QED BY <1>2, <1>5 DEF Shape

LEMMA NakShape ==
  ASSUME Shape, NEW p \in Replicas, Nak(p), UNCHANGED fenceVars
  PROVE  ConsumerType' /\ ReplicaType' /\ \A q \in Replicas : Holds(q)'
<1>1. NakMsg(fact[p]) /\ Done(p, "live") /\ UNCHANGED <<view, hydrateTo, sinceSnap>>
  BY DEF Nak
<1>2. UNCHANGED <<view, hydrateTo, fenceVars>> /\ sinceSnap' \in [Replicas -> Nat]
  BY <1>1 DEF Shape, ReplicaType
<1> QED BY <1>1, <1>2, NakMsgType, DoneType

LEMMA PublishFailsShape ==
  ASSUME Shape, NEW p \in Replicas, PublishFails(p)
  PROVE  Shape'
<1>1. StoreType'
  BY StoreShape DEF PublishFails
<1>2. pc[p] \in {"fanout", "tombstone"} /\ UNCHANGED fenceVars
  BY DEF PublishFails
<1>3. CASE Nak(p) /\ UNCHANGED faults
  BY <1>1, <1>2, <1>3, NakShape DEF Shape
<1>4. CASE Fault /\ Goto(p, "failing") /\ UNCHANGED <<consumerVars, workVars>>
  <2>1. ConsumerType' /\ faults' \in 0..MaxFaults
    BY <1>4, FaultType DEF Shape, ConsumerType, consumerVars
  <2>2. pc[p] \in Working /\ "failing" \in Working /\ UNCHANGED <<fenceVars, workVars>>
    BY <1>2, <1>4 DEF Working, Publishing
  <2>3. ReplicaType' /\ \A q \in Replicas : Holds(q)'
    BY <1>4, <2>2, GoOnShape
  <2> QED BY <1>1, <2>1, <2>3 DEF Shape
<1> QED BY <1>3, <1>4 DEF PublishFails

LEMMA DlqOrNakShape ==
  ASSUME Shape, NEW p \in Replicas, DlqOrNak(p)
  PROVE  Shape'
<1>1. pc[p] = "failing" /\ UNCHANGED <<lease, snaps, feeds, fenceVars>>
  BY DEF DlqOrNak
<1>2. CASE Nak(p) /\ UNCHANGED dlq /\ (Fault \/ UNCHANGED faults)
  <2>1. StoreType' /\ faults' \in 0..MaxFaults
    BY <1>1, <1>2, FaultType DEF Shape, StoreType
  <2>2. UNCHANGED fenceVars
    BY <1>1
  <2> QED BY <1>2, <2>1, <2>2, NakShape DEF Shape
<1>3. CASE dlq' = dlq \union {fact[p]} /\ Goto(p, "dlqAck") /\ UNCHANGED <<consumerVars, workVars, faults>>
  <2>1. fact[p] \in Positions /\ pc[p] \in Working /\ "dlqAck" \in Working
    BY <1>1, FactInProcess DEF Working
  <2>2. StoreType' /\ ConsumerType' /\ faults' = faults /\ UNCHANGED <<fenceVars, workVars>>
    BY <1>1, <1>3, <2>1 DEF Shape, StoreType, ConsumerType, consumerVars
  <2>3. ReplicaType' /\ \A q \in Replicas : Holds(q)'
    BY <1>3, <2>1, <2>2, GoOnShape
  <2> QED BY <2>2, <2>3 DEF Shape
<1> QED BY <1>2, <1>3 DEF DlqOrNak

LEMMA CheckFenceShape ==
  ASSUME Shape, NEW p \in Replicas, CheckFence(p)
  PROVE  Shape'
<1>1. pc[p] = "settle" /\ UNCHANGED <<storeVars, fenceVars, faults>>
  BY DEF CheckFence
<1>2. StoreType' /\ faults' = faults /\ UNCHANGED fenceVars
  BY <1>1 DEF Shape, StoreType, storeVars
<1>3. CASE Nak(p)
  BY <1>2, <1>3, NakShape DEF Shape
<1>4. CASE Goto(p, "ack") /\ UNCHANGED <<consumerVars, workVars>>
  <2>1. todo[p] = {} /\ Log[fact[p]].type # Corrupt /\ pc[p] \in Working /\ "ack" \in Working
    BY <1>1 DEF Shape, Holds, Publishing, Working
  <2>2. ConsumerType' /\ UNCHANGED <<fenceVars, workVars>>
    BY <1>2, <1>4 DEF Shape, ConsumerType, consumerVars
  <2>3. ReplicaType' /\ \A q \in Replicas : Holds(q)'
    BY <1>4, <2>1, <2>2, GoOnShape
  <2> QED BY <1>2, <2>2, <2>3 DEF Shape
<1> QED BY <1>3, <1>4 DEF CheckFence

LEMMA AckShape ==
  ASSUME Shape, NEW p \in Replicas, Ack(p)
  PROVE  Shape'
<1>1. pc[p] \in {"ack", "dlqAck"} /\ AckMsg(fact[p]) /\ UNCHANGED <<storeVars, fenceVars, faults>>
  BY DEF Ack
<1>2. fact[p] \in Positions
  BY <1>1, FactInProcess DEF Working, Publishing
<1>3. StoreType' /\ faults' = faults /\ ConsumerType'
  BY <1>1, <1>2, AckMsgType DEF Shape, StoreType, storeVars
<1>4. CASE pc[p] = "ack"
  <2>1. Goto(p, "snapshot") /\ UNCHANGED workVars
    BY <1>4 DEF Ack
  <2>2. todo[p] = {} /\ Log[fact[p]].type # Corrupt
    BY <1>4 DEF Shape, Holds, Publishing
  <2>3. fence' \in [Replicas -> {"ok", "paused", "lost"}] /\ cancelled' \in [Replicas -> BOOLEAN]
    BY <1>1 DEF Shape, ReplicaType, fenceVars
  <2>4. ReplicaType' /\ \A q \in Replicas : Holds(q)'
    BY <1>4, <2>1, <2>2, <2>3, GotoType DEF Labels, Working, Publishing
  <2> QED BY <1>3, <2>4 DEF Shape
<1>5. CASE pc[p] # "ack"
  <2>1. Done(p, "live") /\ UNCHANGED <<view, hydrateTo, fenceVars>> /\ UNCHANGED sinceSnap
    BY <1>1, <1>5 DEF Ack
  <2>2. sinceSnap' \in [Replicas -> Nat]
    BY <2>1 DEF Shape, ReplicaType
  <2> QED BY <1>3, <2>1, <2>2, DoneType DEF Shape
<1> QED BY <1>4, <1>5

LEMMA AckFailsShape ==
  ASSUME Shape, NEW p \in Replicas, AckFails(p)
  PROVE  Shape'
<1>1. /\ pc[p] \in {"ack", "dlqAck"} /\ Fault /\ (AckMsg(fact[p]) \/ UNCHANGED consumerVars)
      /\ UNCHANGED <<snaps, feeds, dlq>>
  BY DEF AckFails
<1>2. fact[p] \in Positions
  BY <1>1, FactInProcess DEF Working, Publishing
<1>3. faults' \in 0..MaxFaults /\ ConsumerType'
  BY <1>1, <1>2, AckMsgType, FaultType DEF Shape
<1>4. CASE cancelled[p]
  <2>1. Done(p, "live") /\ UNCHANGED <<view, hydrateTo, fenceVars>> /\ UNCHANGED <<lease, sinceSnap>>
    BY <1>4 DEF AckFails
  <2>2. sinceSnap' \in [Replicas -> Nat] /\ StoreType'
    BY <1>1, <2>1 DEF Shape, ReplicaType, StoreType
  <2> QED BY <1>3, <2>1, <2>2, DoneType DEF Shape
<1>5. CASE ~cancelled[p]
  <2>1. Leave(p)
    BY <1>5 DEF AckFails
  <2> QED BY <1>1, <1>3, <2>1, LeaveType DEF Shape
<1> QED BY <1>4, <1>5

LEMMA MaybeSnapshotShape ==
  ASSUME Shape, NEW p \in Replicas, MaybeSnapshot(p)
  PROVE  Shape'
<1> PICK s : s = [seq |-> fact[p], view |-> view[p]]
  OBVIOUS
<1>1. /\ pc[p] = "snapshot" /\ Done(p, "live")
      /\ UNCHANGED <<consumerVars, lease, feeds, dlq, fenceVars, view, hydrateTo>>
      /\ snaps' = snaps \/ snaps' = Put(s)
  BY DEF MaybeSnapshot
<1>2. faults' \in 0..MaxFaults
  BY FaultType DEF MaybeSnapshot, Shape
<1>3. s \in Snapshots
  BY <1>1, FactInProcess DEF Snapshots, Shape, ReplicaType
<1>4. StoreType' /\ ConsumerType'
  BY <1>1, <1>3, PutType DEF Shape, StoreType, ConsumerType, consumerVars
<1>5. sinceSnap' \in [Replicas -> Nat]
  <2>1. sinceSnap \in [Replicas -> Nat]
    BY DEF Shape, ReplicaType
  <2>2. \/ sinceSnap' = [sinceSnap EXCEPT ![p] = sinceSnap[p] + 1]
        \/ sinceSnap' = [sinceSnap EXCEPT ![p] = 0]
    BY DEF MaybeSnapshot
  <2> QED BY <2>1, <2>2
<1>6. UNCHANGED <<view, hydrateTo, fenceVars>>
  BY <1>1
<1> QED BY <1>1, <1>2, <1>4, <1>5, <1>6, DoneType DEF Shape

\* The broker's own steps.
LEMMA BrokerShape ==
  ASSUME Shape, AckWaitExpires \/ AckWaitTooShort \/ GiveUp \/ LeaseExpires
  PROVE  Shape'
<1>1. ReplicaType' /\ (\A q \in Replicas : Holds(q)')
  <2>1. UNCHANGED <<pc, fenceVars, workVars>>
    BY DEF AckWaitExpires, AckWaitTooShort, GiveUp, LeaseExpires
  <2> QED BY <2>1 DEF Shape, ReplicaType, Holds, fenceVars, workVars
<1>2. faults' \in 0..MaxFaults
  BY FaultType DEF Shape, AckWaitExpires, AckWaitTooShort, GiveUp, LeaseExpires
<1>3. StoreType'
  BY DEF Shape, StoreType, AckWaitExpires, AckWaitTooShort, GiveUp, LeaseExpires, storeVars
<1>4. ConsumerType'
  <2>1. CASE AckWaitExpires \/ AckWaitTooShort
    BY <2>1 DEF Shape, ConsumerType, AckWaitExpires, AckWaitTooShort
  <2>2. CASE LeaseExpires
    BY <2>2 DEF Shape, ConsumerType, LeaseExpires, consumerVars
  <2>3. CASE GiveUp
    <3>1. MaxDeliver \in Nat \ {0} /\ Len(Log) \in Nat
      BY ConstantsOK, LogType
    <3>2. count = MaxDeliver /\ cur' = cur + 1 /\ count' = 0 /\ exhausted' = exhausted \union {cur}
            /\ UNCHANGED <<floor, phase>>
      BY <2>3 DEF GiveUp
    <3>3. cur \in Positions /\ cur \in 1..Len(Log)
      BY <3>1, <3>2, LogType DEF Shape, ConsumerType
    <3>4. cur' \in (floor' + 1)..(Len(Log) + 1) /\ count' \in 0..MaxDeliver
      BY <3>1, <3>2, <3>3 DEF Shape, ConsumerType
    <3> QED BY <3>2, <3>3, <3>4 DEF Shape, ConsumerType
  <2> QED BY <2>1, <2>2, <2>3
<1> QED BY <1>1, <1>2, <1>3, <1>4 DEF Shape

LEMMA InitShape == Init => Shape
<1> SUFFICES ASSUME Init PROVE Shape
  OBVIOUS
<1>1. Len(Log) \in Nat /\ MaxDeliver \in Nat \ {0} /\ MaxHistory \in Nat /\ MaxFaults \in Nat
  BY LogType, ConstantsOK
<1>2. ConsumerType
  BY <1>1 DEF Init, ConsumerType
<1>3. StoreType
  <2>1. snaps \in Seq(Snapshots) /\ Len(snaps) = 0
    BY DEF Init
  <2>2. feeds \in [Agents \X Iids -> Seq(Messages)]
    BY DEF Init
  <2> QED BY <1>1, <2>1, <2>2 DEF Init, StoreType
<1>4. ReplicaType
  BY <1>1 DEF Init, ReplicaType, Labels
<1>5. \A p \in Replicas : Holds(p)
  BY DEF Init, Holds, Working, Publishing
<1> QED BY <1>1, <1>2, <1>3, <1>4, <1>5 DEF Init, Shape

LEMMA ShapeStep == Shape /\ [Next]_vars => Shape'
<1> SUFFICES ASSUME Shape, [Next]_vars PROVE Shape'
  OBVIOUS
<1>1. CASE UNCHANGED vars
  <2>1. UNCHANGED <<consumerVars, storeVars, pc, workVars>> /\ UNCHANGED <<fence, cancelled, faults>>
    BY <1>1 DEF vars, fenceVars
  <2>2. fence' \in [Replicas -> {"ok", "paused", "lost"}] /\ cancelled' \in [Replicas -> BOOLEAN]
          /\ faults' \in 0..MaxFaults
    BY <2>1 DEF Shape, ReplicaType
  <2> QED BY <2>1, <2>2, FenceShape
<1>2. ASSUME NEW p \in Replicas, Step(p) PROVE Shape'
  <2>1. CASE Exit(p)
    <3>1. Leave(p) /\ UNCHANGED <<consumerVars, snaps, feeds, dlq>> /\ UNCHANGED faults
      BY <2>1 DEF Exit
    <3> QED BY <3>1, LeaveShape
  <2>2. CASE FetchTimesOut(p)
    BY <1>1, <2>2 DEF FetchTimesOut
  <2> QED BY <1>2, <2>1, <2>2, ReadFloorShape, HydrateShape, BeginShape, DeliverShape, PublishShape,
          TombstoneShape, DlqOrNakShape, CheckFenceShape, AckShape, MaybeSnapshotShape DEF Step
<1>3. ASSUME NEW p \in Replicas, Trouble(p) PROVE Shape'
  <2>1. CASE HydrateFails(p)
    <3>1. Leave(p) /\ UNCHANGED <<consumerVars, snaps, feeds, dlq>> /\ Fault
      BY <2>1 DEF HydrateFails
    <3> QED BY <3>1, LeaveShape
  <2> QED BY <1>3, <2>1, RenewShape, CrashShape, FetchEndsShape, PublishFailsShape, AckFailsShape
          DEF Trouble
<1> QED BY <1>1, <1>2, <1>3, AcquireShape, RenewShape, BrokerShape DEF Next

LEMMA ShapeMeansType == Shape => TypeOK
<1> SUFFICES ASSUME Shape PROVE TypeOK
  OBVIOUS
<1>1. \A k \in DOMAIN snaps : snaps[k].seq \in Positions /\ snaps[k].view \subseteq Intervals
  <2>1. \A k \in DOMAIN snaps : snaps[k] \in Snapshots
    BY DEF Shape, StoreType
  <2> QED BY <2>1 DEF Snapshots
<1>2. \A x \in Agents \X Iids : \A k \in DOMAIN feeds[x] :
        feeds[x][k].seq \in Nat /\ feeds[x][k].kind \in {"fact", "revoked"}
  <2> SUFFICES ASSUME NEW x \in Agents \X Iids, NEW k \in DOMAIN feeds[x]
               PROVE  feeds[x][k].seq \in Nat /\ feeds[x][k].kind \in {"fact", "revoked"}
    OBVIOUS
  <2>1. feeds[x] \in Seq(Messages)
    BY DEF Shape, StoreType
  <2>2. feeds[x][k] \in Messages
    BY <2>1
  <2> QED BY <2>2 DEF Messages, Kinds
<1>3. ASSUME NEW p \in Replicas
      PROVE  /\ view[p] \subseteq Intervals
             /\ hydrateTo[p] \in 0..Len(Log)
             /\ fact[p] \in 0..Len(Log)
             /\ (fact[p] # 0) = (pc[p] \in {"fanout", "tombstone", "failing", "settle", "ack", "dlqAck", "snapshot"})
             /\ delivered[p] \in 0..MaxDeliver
             /\ todo[p] \subseteq Agents
             /\ (todo[p] # {}) => pc[p] \in {"fanout", "failing", "dlqAck"}
             /\ sinceSnap[p] \in Nat
  <2>1. fact[p] # 0 <=> pc[p] \in {"fanout", "tombstone", "failing", "settle", "ack", "dlqAck", "snapshot"}
    BY DEF Shape, Holds, Working, Publishing
  <2> QED BY <2>1 DEF Shape, ReplicaType, Holds
<1> QED BY <1>1, <1>2, <1>3 DEF Shape, ConsumerType, StoreType, ReplicaType, TypeOK

\* The fan-out keeps its shape in every behaviour, whatever fails, expires or is
\* taken over, for every log: one message outstanding, no more deliveries than
\* max_deliver, a bounded snapshot history, and a fact in hand exactly while one
\* is processed (Run, process, Deliver, maybeSnapshot).
THEOREM ProjectorTypeCorrect == Spec => []TypeOK
BY InitShape, ShapeStep, ShapeMeansType, PTL DEF Spec

-----------------------------------------------------------------------------
(* Whose turn it is, when what a fenced holder has under way ends in time.  *)

\* Whoever is not in standby has the lease, or has been fenced and waits at the
\* head of its loop.
Owner == \A p \in Replicas : pc[p] # "standby" => lease = p \/ (pc[p] = "live" /\ fence[p] # "ok")

\* The fact in process is the first unsettled one, or the one just acked; the
\* floor that was read on takeover is still the floor.
InTurn(p) ==
  /\ pc[p] \in Working => fact[p] = cur
  /\ pc[p] = "snapshot" => fact[p] = floor /\ cur = floor + 1
  /\ pc[p] = "hydrate" => hydrateTo[p] = floor
  /\ pc[p] = "dlqAck" => fact[p] \in dlq

\* Between the floor and the first unsettled fact are only facts given up.
Passed == \A n \in (floor + 1)..(cur - 1) : n \in exhausted

Turn == Owner /\ (\A p \in Replicas : InTurn(p)) /\ Passed

Timely == DrainsInTime /\ ~SlowHydrate

\* Only the holder of the lease is anywhere but in standby or at the head.
LEMMA Alone ==
  ASSUME Shape, Turn, NEW p \in Replicas, pc[p] \notin {"standby", "live"}
  PROVE  lease = p /\ \A q \in Replicas \ {p} : pc[q] \in {"standby", "live"}
BY DEF Turn, Owner

\* A step of the holder that leaves lease, fence and consumer alone.
LEMMA HolderMoves ==
  ASSUME Shape, Turn, NEW p \in Replicas, lease = p, InTurn(p)', UNCHANGED <<lease, fence, floor, cur, exhausted>>,
         dlq \subseteq dlq', ReplicaType',
         \A q \in Replicas \ {p} : pc'[q] = pc[q] /\ fact'[q] = fact[q] /\ hydrateTo'[q] = hydrateTo[q]
  PROVE  Turn'
<1>1. Owner'
  BY DEF Turn, Owner
<1>2. \A q \in Replicas : InTurn(q)'
  BY DEF Turn, InTurn
<1> QED BY <1>1, <1>2 DEF Turn, Passed

\* The same where the consumer moves: nobody else is at work.
LEMMA HolderSettles ==
  ASSUME Shape, Turn, NEW p \in Replicas, pc[p] \notin {"standby", "live"}, InTurn(p)', UNCHANGED <<lease, fence>>,
         Passed', \A q \in Replicas \ {p} : pc'[q] = pc[q]
  PROVE  Turn'
<1>1. lease = p /\ \A q \in Replicas \ {p} : pc[q] \in {"standby", "live"}
  BY Alone
<1>2. Owner'
  BY <1>1 DEF Turn, Owner
<1>3. \A q \in Replicas : InTurn(q)'
  BY <1>1 DEF InTurn, Working, Publishing
<1> QED BY <1>2, <1>3 DEF Turn

LEMMA ForgetTurn ==
  ASSUME Shape, Turn, NEW p \in Replicas, Forget(p), Release(p) \/ UNCHANGED lease, dlq' = dlq, Passed',
         UNCHANGED <<floor, cur>> \/ pc[p] \notin {"standby", "live"}
  PROVE  Turn'
<1>1. /\ pc'[p] = "standby"
      /\ \A q \in Replicas \ {p} : /\ pc'[q] = pc[q] /\ fence'[q] = fence[q] /\ fact'[q] = fact[q]
                                   /\ hydrateTo'[q] = hydrateTo[q]
  BY DEF Forget, Goto, Shape, ReplicaType
<1>2. Owner'
  BY <1>1 DEF Turn, Owner, Release
<1>3. ASSUME NEW q \in Replicas PROVE InTurn(q)'
  <2>1. CASE q = p
    BY <1>1, <2>1 DEF InTurn, Working, Publishing
  <2>2. CASE q # p /\ UNCHANGED <<floor, cur>>
    BY <1>1, <2>2 DEF InTurn, Turn
  <2>3. CASE q # p /\ pc[p] \notin {"standby", "live"}
    <3>1. pc'[q] \in {"standby", "live"}
      BY <1>1, <2>3, Alone
    <3> QED BY <3>1 DEF InTurn, Working, Publishing
  <2> QED BY <2>1, <2>2, <2>3
<1> QED BY <1>2, <1>3 DEF Turn

LEMMA PassedStays ==
  ASSUME Turn, UNCHANGED <<floor, cur, exhausted>>
  PROVE  Passed'
BY DEF Turn, Passed

LEMMA AcquireTurn ==
  ASSUME Shape, Turn, NEW p \in Replicas, Acquire(p)
  PROVE  Turn'
<1>1. /\ lease = NoReplica /\ lease' = p /\ pc' = [pc EXCEPT ![p] = "floor"]
      /\ UNCHANGED <<floor, cur, exhausted, dlq, fence, fact, hydrateTo>>
  BY DEF Acquire, Goto, consumerVars, fenceVars, workVars
<1>2. lease \notin Replicas
  BY <1>1, ConstantsOK
<1>3. pc'[p] = "floor" /\ \A q \in Replicas \ {p} : pc'[q] = pc[q]
  BY <1>1 DEF Shape, ReplicaType
<1>4. Owner'
  BY <1>1, <1>2, <1>3 DEF Turn, Owner
<1>5. \A q \in Replicas : InTurn(q)'
  BY <1>1, <1>3 DEF Turn, InTurn, Working, Publishing
<1> QED BY <1>1, <1>4, <1>5, PassedStays DEF Turn

LEMMA RenewTurn ==
  ASSUME Shape, Turn, NEW p \in Replicas, RenewRetried(p) \/ RenewFails(p) \/ Shutdown(p)
  PROVE  Turn'
<1>1. UNCHANGED <<pc, lease, floor, cur, exhausted, dlq, fact, hydrateTo>>
  BY DEF RenewRetried, RenewFails, Shutdown, consumerVars, storeVars, workVars
<1>2. /\ fence'[p] # "ok" \/ lease = p
      /\ \A q \in Replicas \ {p} : fence'[q] = fence[q]
  BY DEF RenewRetried, RenewFails, Shutdown, Shape, ReplicaType
<1>3. Owner'
  BY <1>1, <1>2 DEF Turn, Owner
<1>4. \A q \in Replicas : InTurn(q)'
  BY <1>1 DEF Turn, InTurn
<1> QED BY <1>1, <1>3, <1>4, PassedStays DEF Turn

LEMMA LeaseExpiresTurn ==
  ASSUME Shape, Turn, Timely, LeaseExpires
  PROVE  Turn'
<1>1. PICK p \in Replicas : lease = p /\ Unrenewed(p) /\ lease' = NoReplica
  BY DEF LeaseExpires
<1>2. UNCHANGED <<pc, fence, floor, cur, exhausted, dlq, fact, hydrateTo>>
  BY DEF LeaseExpires, consumerVars, fenceVars, workVars
<1>3. pc[p] = "standby" \/ (pc[p] = "live" /\ fence[p] # "ok")
  BY <1>1 DEF Unrenewed, Timely
<1>4. Owner'
  BY <1>1, <1>2, <1>3 DEF Turn, Owner
<1>5. \A q \in Replicas : InTurn(q)'
  BY <1>2 DEF Turn, InTurn
<1> QED BY <1>2, <1>4, <1>5, PassedStays DEF Turn

LEMMA TimersTurn ==
  ASSUME Shape, Turn, AckWaitExpires \/ AckWaitTooShort \/ UNCHANGED vars
  PROVE  Turn'
<1>1. UNCHANGED <<pc, fence, lease, floor, cur, exhausted, dlq, fact, hydrateTo>>
  BY DEF AckWaitExpires, AckWaitTooShort, vars, consumerVars, storeVars, fenceVars, workVars
<1> QED BY <1>1, PassedStays DEF Turn, Owner, InTurn

LEMMA GiveUpTurn ==
  ASSUME Shape, Turn, GiveUp
  PROVE  Turn'
<1>1. PICK p \in Replicas : pc[p] = "fetch"
  BY DEF GiveUp
<1>2. /\ cur' = cur + 1 /\ exhausted' = exhausted \union {cur} /\ floor' = floor
      /\ UNCHANGED <<pc, fence, lease, fact, hydrateTo, dlq>>
  BY DEF GiveUp, storeVars, fenceVars, workVars
<1>3. cur \in Nat /\ floor \in Nat
  BY LogType DEF Shape, ConsumerType
<1>4. Passed'
  BY <1>2, <1>3 DEF Turn, Passed
<1>5. InTurn(p)'
  BY <1>1, <1>2 DEF InTurn, Working, Publishing
<1> QED BY <1>1, <1>2, <1>4, <1>5, HolderSettles

\* The settled fact is the first unsettled one.
LEMMA AckTurn ==
  ASSUME Shape, Turn, NEW p \in Replicas, pc[p] \in {"ack", "dlqAck"}, AckMsg(fact[p]) \/ UNCHANGED consumerVars
  PROVE  /\ fact[p] = cur /\ cur \in Positions /\ Passed'
         /\ AckMsg(fact[p]) => floor' = cur /\ cur' = cur + 1 /\ exhausted' = exhausted
<1>1. fact[p] = cur
  BY DEF Turn, InTurn, Working, Publishing
<1>2. fact[p] \in Positions
  BY FactInProcess DEF Working, Publishing
<1>3. AckMsg(fact[p]) => floor' = cur /\ cur' = cur + 1 /\ exhausted' = exhausted
  BY <1>1 DEF AckMsg
<1>4. ASSUME AckMsg(fact[p]) PROVE Passed'
  BY <1>2, <1>3, <1>4, LogType, <1>1 DEF Passed
<1>5. ASSUME UNCHANGED consumerVars PROVE Passed'
  BY <1>5, PassedStays DEF consumerVars
<1> QED BY <1>1, <1>2, <1>3, <1>4, <1>5

LEMMA SettleTurn ==
  ASSUME Shape, Turn, NEW p \in Replicas, Ack(p) \/ AckFails(p)
  PROVE  Turn'
<1>1. pc[p] \in {"ack", "dlqAck"} /\ (AckMsg(fact[p]) \/ UNCHANGED consumerVars) /\ dlq' = dlq
  BY DEF Ack, AckFails, storeVars
<1>2. /\ fact[p] = cur /\ cur \in Positions /\ Passed'
      /\ AckMsg(fact[p]) => floor' = cur /\ cur' = cur + 1 /\ exhausted' = exhausted
  BY <1>1, AckTurn
<1>3. pc[p] \notin {"standby", "live"}
  BY <1>1
<1>4. CASE Leave(p)
  BY <1>1, <1>2, <1>3, <1>4, ForgetTurn DEF Leave
<1>5. CASE Done(p, "live") /\ UNCHANGED <<lease, fence>>
  <2>1. pc'[p] = "live" /\ \A q \in Replicas \ {p} : pc'[q] = pc[q]
    BY <1>5 DEF Done, Goto, Shape, ReplicaType
  <2>2. InTurn(p)'
    BY <2>1 DEF InTurn, Working, Publishing
  <2> QED BY <1>2, <1>3, <1>5, <2>1, <2>2, HolderSettles
<1>6. CASE Goto(p, "snapshot") /\ UNCHANGED <<lease, fence, fact>> /\ AckMsg(fact[p])
  <2>1. pc'[p] = "snapshot" /\ \A q \in Replicas \ {p} : pc'[q] = pc[q]
    BY <1>6 DEF Goto, Shape, ReplicaType
  <2>2. fact'[p] = floor' /\ cur' = floor' + 1
    BY <1>2, <1>6
  <2>3. InTurn(p)'
    BY <2>1, <2>2 DEF InTurn, Working, Publishing
  <2> QED BY <1>2, <1>3, <1>6, <2>1, <2>3, HolderSettles
<1> QED BY <1>4, <1>5, <1>6 DEF Ack, AckFails, storeVars, fenceVars, workVars

\* What the remaining steps leave alone.
Beside(p) ==
  /\ UNCHANGED <<lease, fence, floor, cur, exhausted>>
  /\ dlq \subseteq dlq'
  /\ \A q \in Replicas \ {p} : pc'[q] = pc[q] /\ fact'[q] = fact[q] /\ hydrateTo'[q] = hydrateTo[q]

LEMMA NakBeside ==
  ASSUME Shape, NEW p \in Replicas, Nak(p), UNCHANGED <<lease, fence>>, dlq \subseteq dlq'
  PROVE  Beside(p) /\ pc'[p] = "live"
BY DEF Nak, NakMsg, Done, Goto, Beside, Shape, ReplicaType

LEMMA GotoBeside ==
  ASSUME Shape, NEW p \in Replicas, NEW l, Goto(p, l), UNCHANGED <<lease, fence, floor, cur, exhausted>>,
         dlq \subseteq dlq', UNCHANGED <<fact, hydrateTo>>
  PROVE  Beside(p) /\ pc'[p] = l /\ fact'[p] = fact[p]
BY DEF Goto, Beside, Shape, ReplicaType

LEMMA LoopTurn ==
  ASSUME Shape, Turn, Shape', NEW p \in Replicas,
         \/ ReadFloor(p) \/ Hydrate(p) \/ Begin(p) \/ Deliver(p) \/ Tombstone(p) \/ DlqOrNak(p)
         \/ CheckFence(p) \/ MaybeSnapshot(p) \/ PublishFails(p) \/ \E a \in Agents : Publish(p, a)
  PROVE  Turn' /\ Beside(p) /\ lease = p
<1>1. lease = p
  BY DEF ReadFloor, Hydrate, Begin, Deliver, Tombstone, DlqOrNak, CheckFence, MaybeSnapshot,
     PublishFails, Publish, Turn, Owner
<1>2. pc[p] \in Working => fact[p] = cur
  BY DEF Turn, InTurn
<1>3. ReplicaType'
  BY DEF Shape
<1> SUFFICES Beside(p) /\ InTurn(p)'
  BY <1>1, <1>3, HolderMoves DEF Beside
<1>4. CASE ReadFloor(p)
  <2>1. Beside(p) /\ pc'[p] = "hydrate" /\ hydrateTo'[p] = floor'
    BY <1>4 DEF ReadFloor, Goto, Beside, Shape, ReplicaType, consumerVars, storeVars, fenceVars
  <2> QED BY <2>1 DEF InTurn, Working, Publishing
<1>5. CASE Hydrate(p) \/ Begin(p)
  <2>1. UNCHANGED <<lease, fence, floor, cur, exhausted, dlq, fact, hydrateTo>>
          /\ (Goto(p, "live") \/ Goto(p, "fetch"))
    BY <1>5 DEF Hydrate, Begin, consumerVars, storeVars, fenceVars, workVars
  <2>2. Beside(p) /\ pc'[p] \in {"live", "fetch"}
    BY <2>1, GotoBeside
  <2> QED BY <2>2 DEF InTurn, Working, Publishing
<1>6. CASE Deliver(p)
  <2>1. /\ UNCHANGED <<lease, fence, floor, cur, exhausted, dlq, hydrateTo>>
        /\ fact' = [fact EXCEPT ![p] = cur]
        /\ \E l \in {"failing", "tombstone", "settle", "fanout"} : Goto(p, l)
    BY <1>6 DEF Deliver, AfterFanout, storeVars, fenceVars
  <2>2. Beside(p) /\ fact'[p] = cur' /\ pc'[p] \in {"failing", "tombstone", "settle", "fanout"}
    BY <2>1 DEF Beside, Goto, Shape, ReplicaType
  <2> QED BY <2>2 DEF InTurn
<1>7. CASE Nak(p) /\ UNCHANGED <<lease, fence>> /\ dlq \subseteq dlq'
  <2>1. Beside(p) /\ pc'[p] = "live"
    BY <1>7, NakBeside
  <2> QED BY <2>1 DEF InTurn, Working, Publishing
<1>8. ASSUME pc[p] \in Working, UNCHANGED <<lease, fence, floor, cur, exhausted, fact, hydrateTo>>, dlq \subseteq dlq',
             NEW l \in {"fanout", "tombstone", "settle", "ack", "failing"}, Goto(p, l)
      PROVE  Beside(p) /\ InTurn(p)'
  <2>1. Beside(p) /\ pc'[p] = l /\ fact'[p] = fact[p]
    BY <1>8, GotoBeside
  <2> QED BY <1>2, <1>8, <2>1 DEF InTurn
<1>9. CASE \E a \in Agents : Publish(p, a)
  <2>1. /\ pc[p] \in Working /\ UNCHANGED <<lease, fence, floor, cur, exhausted, dlq, fact, hydrateTo>>
        /\ \E l \in {"fanout", "tombstone", "settle"} : Goto(p, l)
    BY <1>9 DEF Publish, AfterFanout, Working, Publishing, consumerVars, fenceVars
  <2> QED BY <1>8, <2>1
<1>10. CASE Tombstone(p)
  <2>1. /\ pc[p] \in Working /\ UNCHANGED <<lease, fence, floor, cur, exhausted, dlq, fact, hydrateTo>>
        /\ Goto(p, "settle")
    BY <1>10 DEF Tombstone, Working, Publishing, consumerVars, fenceVars, workVars
  <2> QED BY <1>8, <2>1
<1>11. CASE CheckFence(p)
  <2>1. UNCHANGED <<lease, fence, dlq>> /\ pc[p] \in Working
    BY <1>11 DEF CheckFence, storeVars, fenceVars, Working, Publishing
  <2>2. Nak(p) \/ (Goto(p, "ack") /\ UNCHANGED <<floor, cur, exhausted, fact, hydrateTo>>)
    BY <1>11 DEF CheckFence, consumerVars, workVars
  <2> QED BY <1>7, <1>8, <2>1, <2>2
<1>12. CASE PublishFails(p)
  <2>1. UNCHANGED <<lease, fence, dlq>> /\ pc[p] \in Working
    BY <1>12 DEF PublishFails, fenceVars, Working, Publishing
  <2>2. Nak(p) \/ (Goto(p, "failing") /\ UNCHANGED <<floor, cur, exhausted, fact, hydrateTo>>)
    BY <1>12 DEF PublishFails, consumerVars, workVars
  <2> QED BY <1>7, <1>8, <2>1, <2>2
<1>13. CASE MaybeSnapshot(p)
  <2>1. Beside(p) /\ pc'[p] = "live"
    BY <1>13 DEF MaybeSnapshot, Done, Goto, Beside, Shape, ReplicaType, consumerVars, fenceVars
  <2> QED BY <2>1 DEF InTurn, Working, Publishing
<1>14. CASE DlqOrNak(p)
  <2>1. UNCHANGED <<lease, fence>> /\ pc[p] = "failing"
    BY <1>14 DEF DlqOrNak, fenceVars
  <2>2. CASE Nak(p) /\ dlq' = dlq
    BY <1>7, <2>1, <2>2
  <2>3. CASE Goto(p, "dlqAck") /\ dlq' = dlq \union {fact[p]} /\ UNCHANGED <<consumerVars, workVars>>
    <3>1. Beside(p) /\ pc'[p] = "dlqAck" /\ fact'[p] = fact[p]
      BY <2>1, <2>3, GotoBeside DEF consumerVars, workVars
    <3>2. fact[p] = cur /\ cur' = cur
      BY <1>2, <2>1, <2>3 DEF Working, consumerVars
    <3> QED BY <2>3, <3>1, <3>2 DEF InTurn
  <2> QED BY <1>14, <2>2, <2>3 DEF DlqOrNak
<1> QED BY <1>4, <1>5, <1>6, <1>9, <1>10, <1>11, <1>12, <1>13, <1>14

\* A replica that stops, in whatever way but a failed ack.
LEMMA StopTurn ==
  ASSUME Shape, Turn, NEW p \in Replicas, Forget(p), Release(p) \/ UNCHANGED lease,
         UNCHANGED consumerVars, UNCHANGED dlq
  PROVE  Turn'
<1>1. UNCHANGED <<floor, cur, exhausted>>
  BY DEF consumerVars
<1> QED BY <1>1, PassedStays, ForgetTurn

LEMMA FetchEndsTurn ==
  ASSUME Shape, Turn, Shape', NEW p \in Replicas, FetchEnds(p)
  PROVE  Turn'
<1>1. UNCHANGED consumerVars /\ UNCHANGED dlq /\ pc[p] = "fetch"
  BY DEF FetchEnds
<1>2. CASE Leave(p)
  BY <1>1, <1>2, StopTurn DEF Leave
<1>3. CASE Goto(p, "live") /\ UNCHANGED <<lease, fenceVars, workVars, faults>>
  <2>1. UNCHANGED <<lease, fence, floor, cur, exhausted, fact, hydrateTo>>
    BY <1>1, <1>3 DEF consumerVars, fenceVars, workVars
  <2>2. Beside(p) /\ pc'[p] = "live" /\ lease = p
    BY <1>1, <1>3, <2>1, GotoBeside, Alone
  <2>3. InTurn(p)'
    BY <2>2 DEF InTurn, Working, Publishing
  <2> QED BY <2>2, <2>3, HolderMoves DEF Beside, Shape
<1> QED BY <1>2, <1>3 DEF FetchEnds

LEMMA TurnStep == Timely /\ Shape /\ Turn /\ [Next]_vars => Turn'
<1> SUFFICES ASSUME Timely, Shape, Turn, [Next]_vars PROVE Turn'
  OBVIOUS
<1>1. Shape'
  BY ShapeStep
<1>2. ASSUME NEW p \in Replicas, Step(p) PROVE Turn'
  <2>1. CASE Exit(p)
    <3>1. Leave(p) /\ UNCHANGED consumerVars /\ UNCHANGED dlq
      BY <2>1 DEF Exit
    <3> QED BY <3>1, StopTurn DEF Leave
  <2>2. CASE FetchTimesOut(p)
    BY <2>2, TimersTurn DEF FetchTimesOut
  <2>3. CASE Ack(p)
    BY <2>3, SettleTurn
  <2> QED BY <1>1, <1>2, <2>1, <2>2, <2>3, LoopTurn DEF Step
<1>3. ASSUME NEW p \in Replicas, Trouble(p) PROVE Turn'
  <2>1. CASE HydrateFails(p)
    <3>1. Leave(p) /\ UNCHANGED consumerVars /\ UNCHANGED dlq
      BY <2>1 DEF HydrateFails
    <3> QED BY <3>1, StopTurn DEF Leave
  <2>2. CASE Crash(p)
    <3>1. Forget(p) /\ UNCHANGED consumerVars /\ UNCHANGED lease /\ UNCHANGED dlq
      BY <2>2 DEF Crash, storeVars
    <3> QED BY <3>1, StopTurn
  <2>3. CASE AckFails(p)
    BY <2>3, SettleTurn
  <2>4. CASE PublishFails(p)
    BY <1>1, <2>4, LoopTurn
  <2>5. CASE RenewFails(p) \/ Shutdown(p)
    BY <2>5, RenewTurn
  <2>6. CASE FetchEnds(p)
    BY <1>1, <2>6, FetchEndsTurn
  <2> QED BY <1>3, <2>1, <2>2, <2>3, <2>4, <2>5, <2>6 DEF Trouble
<1> QED BY <1>2, <1>3, AcquireTurn, RenewTurn, TimersTurn, GiveUpTurn, LeaseExpiresTurn DEF Next

LEMMA InitTurn == Init => Turn
BY DEF Init, Turn, Owner, InTurn, Passed, Working, Publishing

-----------------------------------------------------------------------------
(* What the holder has folded, and what the snapshots hold. *)

\* At the head of its loop the holder has folded every fact before the first
\* unsettled one, and that one too if it naked it; a fact in process is folded.
ViewOf(p) ==
  lease = p =>
    /\ pc[p] \in {"live", "fetch"} =>
         view[p] = Folded(cur - 1) \/ (cur \in Positions /\ view[p] = Folded(cur))
    /\ pc[p] \in Working \union {"snapshot"} => view[p] = Folded(fact[p])

Kept == \A k \in DOMAIN snaps : snaps[k].seq <= floor /\ snaps[k].view = Folded(snaps[k].seq)

Fed == FoldsAreFed => (\A p \in Replicas : ViewOf(p)) /\ Kept

\* A fact that was given up stays given up.
LEMMA FedBefore ==
  ASSUME exhausted \subseteq exhausted', FoldsAreFed'
  PROVE  FoldsAreFed
BY DEF FoldsAreFed

\* Where nothing is folded: a replica keeps its view, or has none to speak of.
LEMMA FedQuiet ==
  ASSUME Fed, UNCHANGED <<floor, cur, exhausted, snaps>>,
         \A q \in Replicas :
           \/ pc'[q] \in {"standby", "floor", "hydrate"}
           \/ /\ view'[q] = view[q] /\ fact'[q] = fact[q]
              /\ lease' = q => lease = q
              /\ pc'[q] = pc[q] \/ (pc[q] \in {"live", "fetch"} /\ pc'[q] \in {"live", "fetch"})
  PROVE  Fed'
<1> SUFFICES ASSUME FoldsAreFed' PROVE (\A p \in Replicas : ViewOf(p)') /\ Kept'
  BY DEF Fed
<1>1. (\A p \in Replicas : ViewOf(p)) /\ Kept
  BY FedBefore DEF Fed
<1>2. ASSUME NEW q \in Replicas PROVE ViewOf(q)'
  <2>1. CASE pc'[q] \in {"standby", "floor", "hydrate"}
    BY <2>1 DEF ViewOf, Working, Publishing
  <2>2. CASE pc'[q] \notin {"standby", "floor", "hydrate"}
    <3>1. /\ view'[q] = view[q] /\ fact'[q] = fact[q]
          /\ lease' = q => lease = q
          /\ pc'[q] = pc[q] \/ (pc[q] \in {"live", "fetch"} /\ pc'[q] \in {"live", "fetch"})
      BY <2>2
    <3>2. ViewOf(q)
      BY <1>1
    <3> QED BY <3>1, <3>2 DEF ViewOf, Working, Publishing
  <2> QED BY <2>1, <2>2
<1>3. Kept'
  BY <1>1 DEF Kept
<1> QED BY <1>2, <1>3

\* Where the holder folds or moves on, with the consumer as it is.
LEMMA FedWorks ==
  ASSUME Fed, NEW p \in Replicas, lease = p, UNCHANGED <<lease, floor, cur, exhausted, snaps>>,
         FoldsAreFed /\ ViewOf(p) => ViewOf(p)'
  PROVE  Fed'
<1> SUFFICES ASSUME FoldsAreFed' PROVE (\A q \in Replicas : ViewOf(q)') /\ Kept'
  BY DEF Fed
<1>1. FoldsAreFed /\ (\A q \in Replicas : ViewOf(q)) /\ Kept
  BY FedBefore DEF Fed
<1>2. ViewOf(p)'
  BY <1>1
<1>3. \A q \in Replicas : q # p => ViewOf(q)'
  BY DEF ViewOf
<1>4. Kept'
  BY <1>1 DEF Kept
<1> QED BY <1>2, <1>3, <1>4

\* The floor's fold is that of everything before the first unsettled fact.
LEMMA FloorFold ==
  ASSUME Shape, Turn, FoldsAreFed
  PROVE  Folded(floor) = Folded(cur - 1)
<1>1. Len(Log) \in Nat /\ floor \in 0..Len(Log) /\ cur \in (floor + 1)..(Len(Log) + 1)
  BY LogType DEF Shape, ConsumerType
<1>2. cur - 1 \in floor..Len(Log)
  BY <1>1
<1>3. \A k \in (floor + 1)..(cur - 1) : Log[k].type \notin {Joined, Left}
  BY DEF Turn, Passed, FoldsAreFed
<1> QED BY <1>1, <1>2, <1>3, FoldedQuiet

LEMMA HydrateFed ==
  ASSUME Shape, Turn, Fed, ~SlowReplay, NEW p \in Replicas, Hydrate(p)
  PROVE  Fed'
<1>1. /\ pc[p] = "hydrate" /\ Goto(p, "live")
      /\ UNCHANGED <<lease, floor, cur, exhausted, snaps>>
  BY DEF Hydrate, consumerVars, storeVars
<1>2. lease = p
  BY <1>1, Alone
<1>3. hydrateTo[p] = floor
  BY <1>1 DEF Turn, InTurn
<1>4. view' = [view EXCEPT ![p] = FoldRange(Load(floor).view, Load(floor).seq, floor)]
  BY <1>3, HydrateMeans
<1>5. pc'[p] = "live" /\ view'[p] = FoldRange(Load(floor).view, Load(floor).seq, floor)
  BY <1>1, <1>4 DEF Goto, Shape, ReplicaType
<1>6. ASSUME FoldsAreFed PROVE view'[p] = Folded(cur - 1)
  <2>1. Kept
    BY <1>6 DEF Fed
  <2>2. Len(Log) \in Nat /\ floor \in 0..Len(Log) /\ snaps \in Seq(Snapshots)
    BY LogType DEF Shape, ConsumerType, StoreType
  <2>3. Load(floor).seq \in 0..floor
    BY <2>2, LoadType
  <2>4. Load(floor).view = Folded(Load(floor).seq)
    BY <2>1, <2>2, LoadMeans, FoldedStep DEF Kept
  <2>5. Load(floor).seq \in 0..Len(Log) /\ floor \in Load(floor).seq..Len(Log)
    BY <2>2, <2>3
  <2>6. FoldRange(Load(floor).view, Load(floor).seq, floor) = Folded(floor)
    BY <2>4, <2>5, FoldedFrom
  <2> QED BY <1>5, <1>6, <2>6, FloorFold
<1>7. FoldsAreFed => ViewOf(p)'
  BY <1>1, <1>5, <1>6 DEF ViewOf, Working, Publishing
<1> QED BY <1>1, <1>2, <1>7, FedWorks

\* A fact is folded once, however often it is delivered.
LEMMA DeliverFed ==
  ASSUME Shape, Turn, Shape', Turn', Fed, NEW p \in Replicas, Deliver(p)
  PROVE  Fed' /\ (FoldsAreFed /\ Log[cur].type # Corrupt => Fold(view[p], Log[cur]) = Folded(cur))
<1>1. /\ pc[p] = "fetch" /\ cur <= Len(Log)
      /\ UNCHANGED <<lease, floor, cur, exhausted, snaps>>
      /\ fact' = [fact EXCEPT ![p] = cur]
      /\ \/ Log[cur].type = Corrupt /\ Goto(p, "failing") /\ UNCHANGED view
         \/ Log[cur].type # Corrupt /\ view' = [view EXCEPT ![p] = Fold(view[p], Log[cur])]
      /\ \E l \in {"failing", "tombstone", "settle", "fanout"} : Goto(p, l)
  BY DEF Deliver, AfterFanout, storeVars
<1>2. lease = p
  BY <1>1, Alone
<1>3. cur \in Positions
  BY <1>1, LogType DEF Shape, ConsumerType
<1>4. /\ fact'[p] = cur /\ pc'[p] \in Working
      /\ Log[cur].type = Corrupt => view'[p] = view[p]
      /\ Log[cur].type # Corrupt => view'[p] = Fold(view[p], Log[cur])
  BY <1>1 DEF Goto, Shape, ReplicaType, Working, Publishing
<1>5. ASSUME FoldsAreFed PROVE Fold(view[p], Log[cur]) = Folded(cur)
  <2>1. view[p] = Folded(cur - 1) \/ view[p] = Folded(cur)
    BY <1>1, <1>2, <1>5 DEF Fed, ViewOf
  <2>2. Folded(cur) = Fold(Folded(cur - 1), Log[cur])
    BY <1>3, FoldedStep
  <2>3. cur - 1 \in 0..Len(Log)
    BY <1>3, LogType
  <2>4. Folded(cur - 1) \subseteq Intervals
    BY <2>3, FoldedStep
  <2> QED BY <1>3, <2>1, <2>2, <2>4, FoldAgain
<1>6. Log[cur].type = Corrupt => Fold(view[p], Log[cur]) = view[p]
  BY FoldCases DEF Corrupt, Joined, Left
<1>7. FoldsAreFed => ViewOf(p)'
  BY <1>1, <1>4, <1>5, <1>6 DEF ViewOf, Working, Publishing
<1> QED BY <1>1, <1>2, <1>5, <1>7, FedWorks

\* The fact in process moves on, or is naked.
LEMMA ProcessFed ==
  ASSUME Shape, Turn, Shape', Turn', Fed, NEW p \in Replicas,
         Tombstone(p) \/ DlqOrNak(p) \/ CheckFence(p) \/ PublishFails(p) \/ \E a \in Agents : Publish(p, a)
  PROVE  Fed'
<1>1. /\ pc[p] \in Working
      /\ UNCHANGED <<lease, floor, cur, exhausted, snaps, view>>
  BY DEF Tombstone, DlqOrNak, CheckFence, PublishFails, Publish, Nak, NakMsg, Working, Publishing,
     consumerVars, storeVars, workVars
<1>2. \/ Nak(p)
      \/ UNCHANGED fact /\ \E l \in {"fanout", "tombstone", "settle", "ack", "failing", "dlqAck"} : Goto(p, l)
  BY DEF Tombstone, DlqOrNak, CheckFence, PublishFails, Publish, AfterFanout, workVars
<1>3. lease = p /\ fact[p] = cur /\ cur \in Positions
  BY <1>1, Alone, FactInProcess DEF Turn, InTurn, Working, Publishing
<1>4. pc'[p] = "live" \/ (pc'[p] \in Working /\ fact'[p] = fact[p])
  BY <1>2 DEF Nak, Done, Goto, Shape, ReplicaType, Working, Publishing
<1>5. ASSUME ViewOf(p) PROVE ViewOf(p)'
  BY <1>1, <1>3, <1>4, <1>5 DEF ViewOf, Working, Publishing
<1> QED BY <1>1, <1>3, <1>5, FedWorks

\* The ack moves the consumer by the fact that is folded.
LEMMA AckFed ==
  ASSUME Shape, Turn, Shape', Turn', Fed, NEW p \in Replicas, Ack(p) \/ AckFails(p)
  PROVE  Fed'
<1>1. /\ pc[p] \in {"ack", "dlqAck"} /\ UNCHANGED snaps
      /\ AckMsg(fact[p]) \/ UNCHANGED consumerVars
  BY DEF Ack, AckFails, storeVars
<1>2. lease = p /\ fact[p] = cur /\ cur \in Positions
  BY <1>1, Alone, AckTurn
<1>3. \/ floor' = cur /\ cur' = cur + 1 /\ exhausted' = exhausted
      \/ UNCHANGED <<floor, cur, exhausted>>
  BY <1>1, <1>2, AckTurn DEF consumerVars
<1>4. \/ lease' = NoReplica
      \/ lease' = p /\ view' = view /\ pc'[p] = "live"
      \/ lease' = p /\ view' = view /\ pc'[p] = "snapshot" /\ fact' = fact
  <2>1. CASE Ack(p)
    BY <1>2, <2>1 DEF Ack, Done, Goto, storeVars, workVars, Shape, ReplicaType
  <2>2. CASE AckFails(p)
    BY <1>2, <2>2 DEF AckFails, Leave, Release, Done, Goto, Shape, ReplicaType
  <2> QED BY <2>1, <2>2
<1> SUFFICES ASSUME FoldsAreFed' PROVE (\A q \in Replicas : ViewOf(q)') /\ Kept'
  BY DEF Fed
<1>5. ViewOf(p) /\ Kept
  BY <1>3, FedBefore DEF Fed
<1>6. view[p] = Folded(cur)
  BY <1>1, <1>2, <1>5 DEF ViewOf, Working, Publishing
<1>7. cur \in Nat /\ floor \in Nat /\ floor < cur /\ cur + 1 - 1 = cur
  BY <1>2, LogType DEF Shape, ConsumerType
<1>8. ViewOf(p)'
  BY <1>2, <1>3, <1>4, <1>6, <1>7, ConstantsOK DEF ViewOf, Working, Publishing
<1>9. \A q \in Replicas : q # p => ViewOf(q)'
  BY <1>4, ConstantsOK DEF ViewOf
<1>10. Kept'
  <2> SUFFICES ASSUME NEW k \in DOMAIN snaps
               PROVE  snaps[k].seq <= floor' /\ snaps[k].view = Folded(snaps[k].seq)
    BY <1>1 DEF Kept
  <2>1. snaps[k].seq <= floor /\ snaps[k].view = Folded(snaps[k].seq)
    BY <1>5 DEF Kept
  <2>2. snaps[k] \in Snapshots
    BY DEF Shape, StoreType
  <2>3. snaps[k].seq \in Nat
    BY <2>2, LogType DEF Snapshots
  <2> QED BY <1>3, <1>7, <2>1, <2>3
<1> QED BY <1>8, <1>9, <1>10

\* A fact that is passed over changes no fold.
LEMMA GiveUpFed ==
  ASSUME Shape, Turn, Shape', Fed, GiveUp
  PROVE  Fed'
<1>1. PICK p \in Replicas : pc[p] = "fetch"
  BY DEF GiveUp
<1>2. /\ cur' = cur + 1 /\ exhausted' = exhausted \union {cur}
      /\ UNCHANGED <<floor, pc, lease, view, snaps, fact>>
  BY DEF GiveUp, storeVars, workVars
<1>3. lease = p
  BY <1>1, Alone
<1> SUFFICES ASSUME FoldsAreFed' PROVE (\A q \in Replicas : ViewOf(q)') /\ Kept'
  BY DEF Fed
<1>4. ViewOf(p) /\ Kept
  BY <1>2, FedBefore DEF Fed
<1>5. cur \in Positions /\ Log[cur].type \notin {Joined, Left}
  BY <1>2 DEF FoldsAreFed, Shape, ConsumerType
<1>6. Folded(cur) = Folded(cur - 1)
  BY <1>5, FoldedStep, FoldCases
<1>7. cur' - 1 = cur
  BY <1>2, <1>5, LogType
<1>8. ViewOf(p)'
  <2>1. view[p] = Folded(cur)
    BY <1>1, <1>3, <1>4, <1>6 DEF ViewOf
  <2>2. pc'[p] = "fetch" /\ view'[p] = Folded(cur' - 1)
    BY <1>1, <1>2, <1>7, <2>1
  <2> QED BY <2>2 DEF ViewOf, Working, Publishing
<1>9. \A q \in Replicas : q # p => ViewOf(q)'
  BY <1>2, <1>3 DEF ViewOf
<1> QED BY <1>2, <1>4, <1>8, <1>9 DEF Kept

\* What Put stores is what was there, less the oldest, and the new one.
LEMMA PutMeans ==
  ASSUME StoreType, NEW s \in Snapshots, NEW k \in DOMAIN Put(s)
  PROVE  Put(s)[k] = s \/ \E j \in DOMAIN snaps : Put(s)[k] = snaps[j]
<1>1. MaxHistory \in Nat \ {0} /\ snaps \in Seq(Snapshots) /\ Len(snaps) \in Nat
  BY ConstantsOK DEF StoreType
<1>2. CASE Len(snaps) < MaxHistory
  BY <1>1, <1>2 DEF Put
<1>3. CASE ~(Len(snaps) < MaxHistory)
  <2>1. snaps # <<>>
    BY <1>1, <1>3
  <2>2. Tail(snaps) \in Seq(Snapshots) /\ Len(Tail(snaps)) = Len(snaps) - 1
        /\ \A j \in 1..Len(Tail(snaps)) : Tail(snaps)[j] = snaps[j + 1] /\ j + 1 \in DOMAIN snaps
    BY <1>1, <2>1
  <2>3. Put(s) = Append(Tail(snaps), s)
    BY <1>3 DEF Put
  <2>4. k \in 1..(Len(Tail(snaps)) + 1)
    BY <2>2, <2>3
  <2> QED BY <2>2, <2>3, <2>4
<1> QED BY <1>2, <1>3

LEMMA SnapshotFed ==
  ASSUME Shape, Turn, Shape', Fed, NEW p \in Replicas, MaybeSnapshot(p)
  PROVE  Fed'
<1>1. /\ pc[p] = "snapshot" /\ Goto(p, "live")
      /\ UNCHANGED <<floor, cur, exhausted, lease, view>>
      /\ snaps' = snaps \/ snaps' = Put([seq |-> fact[p], view |-> view[p]])
  BY DEF MaybeSnapshot, Done, consumerVars
<1>2. lease = p
  BY <1>1, Alone
<1>3. fact[p] = floor /\ cur = floor + 1 /\ fact[p] \in Positions
  BY <1>1, FactInProcess DEF Turn, InTurn
<1> SUFFICES ASSUME FoldsAreFed' PROVE (\A q \in Replicas : ViewOf(q)') /\ Kept'
  BY DEF Fed
<1>4. ViewOf(p) /\ Kept
  BY <1>1, FedBefore DEF Fed
<1>5. view[p] = Folded(floor)
  BY <1>1, <1>2, <1>3, <1>4 DEF ViewOf
<1>6. pc'[p] = "live" /\ cur - 1 = floor /\ floor \in Nat
  BY <1>1, <1>3, LogType DEF Goto, Shape, ReplicaType
<1>7. ViewOf(p)'
  BY <1>1, <1>5, <1>6 DEF ViewOf, Working, Publishing
<1>8. \A q \in Replicas : q # p => ViewOf(q)'
  BY <1>1, <1>2 DEF ViewOf
<1>9. CASE snaps' = Put([seq |-> fact[p], view |-> view[p]])
  <2> PICK s : s = [seq |-> fact[p], view |-> view[p]]
    OBVIOUS
  <2>1. s \in Snapshots /\ s.seq = floor /\ s.view = Folded(floor) /\ snaps' = Put(s)
    BY <1>3, <1>5, <1>9 DEF Snapshots, Shape, ReplicaType
  <2>2. \A k \in DOMAIN snaps' : snaps'[k] = s \/ \E j \in DOMAIN snaps : snaps'[k] = snaps[j]
    BY <2>1, PutMeans DEF Shape
  <2>3. Kept'
    BY <1>1, <1>4, <1>6, <2>1, <2>2 DEF Kept
  <2> QED BY <1>7, <1>8, <2>3
<1>10. CASE snaps' = snaps
  BY <1>1, <1>4, <1>7, <1>8, <1>10 DEF Kept
<1> QED BY <1>1, <1>9, <1>10

\* A replica that stops has no view to speak of.
LEMMA ForgetFed ==
  ASSUME Shape, Fed, NEW p \in Replicas, Forget(p), Release(p) \/ UNCHANGED lease,
         UNCHANGED consumerVars, UNCHANGED snaps
  PROVE  Fed'
<1>1. /\ pc'[p] = "standby"
      /\ \A q \in Replicas \ {p} : pc'[q] = pc[q] /\ view'[q] = view[q] /\ fact'[q] = fact[q]
  BY DEF Forget, Goto, Shape, ReplicaType
<1>2. \A q \in Replicas : lease' = q => lease = q
  BY ConstantsOK DEF Release
<1>3. UNCHANGED <<floor, cur, exhausted, snaps>>
  BY DEF consumerVars
<1> QED BY <1>1, <1>2, <1>3, FedQuiet

LEMMA QuietFed ==
  ASSUME Shape, Fed, NEW p \in Replicas,
         \/ Acquire(p) \/ RenewRetried(p) \/ RenewFails(p) \/ Shutdown(p) \/ ReadFloor(p) \/ Begin(p)
         \/ (FetchEnds(p) /\ ~Leave(p))
  PROVE  Fed'
<1>1. UNCHANGED <<floor, cur, exhausted, snaps, view, fact>>
  BY DEF Acquire, RenewRetried, RenewFails, Shutdown, ReadFloor, Begin, FetchEnds, consumerVars, storeVars, workVars
<1>2. CASE Acquire(p)
  <2>1. pc' = [pc EXCEPT ![p] = "floor"] /\ lease' = p
    BY <1>2 DEF Acquire, Goto
  <2>2. pc'[p] = "floor" /\ \A q \in Replicas \ {p} : pc'[q] = pc[q] /\ lease' # q
    BY <2>1 DEF Shape, ReplicaType
  <2> QED BY <1>1, <2>2, FedQuiet
<1>3. CASE RenewRetried(p) \/ RenewFails(p) \/ Shutdown(p)
  <2>1. UNCHANGED <<pc, lease>>
    BY <1>3 DEF RenewRetried, RenewFails, Shutdown, storeVars
  <2> QED BY <1>1, <2>1, FedQuiet
<1>4. CASE ReadFloor(p)
  <2>1. pc' = [pc EXCEPT ![p] = "hydrate"] /\ lease' = lease
    BY <1>4 DEF ReadFloor, Goto, storeVars
  <2>2. pc'[p] = "hydrate" /\ \A q \in Replicas \ {p} : pc'[q] = pc[q]
    BY <2>1 DEF Shape, ReplicaType
  <2> QED BY <1>1, <2>1, <2>2, FedQuiet
<1>5. CASE Begin(p) \/ (FetchEnds(p) /\ ~Leave(p))
  <2>1. pc[p] \in {"live", "fetch"} /\ lease' = lease /\ (Goto(p, "live") \/ Goto(p, "fetch"))
    BY <1>5 DEF Begin, FetchEnds, storeVars
  <2>2. pc'[p] \in {"live", "fetch"} /\ \A q \in Replicas \ {p} : pc'[q] = pc[q]
    BY <2>1 DEF Goto, Shape, ReplicaType
  <2> QED BY <1>1, <2>1, <2>2, FedQuiet
<1> QED BY <1>2, <1>3, <1>4, <1>5

LEMMA TimersFed ==
  ASSUME Shape, Fed, AckWaitExpires \/ AckWaitTooShort \/ LeaseExpires \/ UNCHANGED vars
  PROVE  Fed'
<1>1. UNCHANGED <<floor, cur, exhausted, snaps, pc, view, fact>>
  BY DEF AckWaitExpires, AckWaitTooShort, LeaseExpires, vars, consumerVars, storeVars, workVars
<1>2. lease' = NoReplica \/ lease' = lease
  BY DEF AckWaitExpires, AckWaitTooShort, LeaseExpires, vars, storeVars
<1> QED BY <1>1, <1>2, ConstantsOK, FedQuiet

LEMMA FedStep == Timely /\ ~SlowReplay /\ Shape /\ Turn /\ Fed /\ [Next]_vars => Fed'
<1> SUFFICES ASSUME Timely, ~SlowReplay, Shape, Turn, Fed, [Next]_vars PROVE Fed'
  OBVIOUS
<1>1. Shape' /\ Turn'
  BY ShapeStep, TurnStep
<1>2. ASSUME NEW p \in Replicas, Step(p) PROVE Fed'
  <2>1. CASE Exit(p)
    <3>1. Leave(p) /\ UNCHANGED consumerVars /\ UNCHANGED snaps
      BY <2>1 DEF Exit
    <3> QED BY <3>1, ForgetFed DEF Leave
  <2>2. CASE FetchTimesOut(p)
    BY <2>2, TimersFed DEF FetchTimesOut
  <2> QED BY <1>1, <1>2, <2>1, <2>2, QuietFed, HydrateFed, DeliverFed, ProcessFed, AckFed, SnapshotFed DEF Step
<1>3. ASSUME NEW p \in Replicas, Trouble(p) PROVE Fed'
  <2>1. CASE HydrateFails(p) \/ (FetchEnds(p) /\ Leave(p))
    <3>1. Leave(p) /\ UNCHANGED consumerVars /\ UNCHANGED snaps
      BY <2>1 DEF HydrateFails, FetchEnds
    <3> QED BY <3>1, ForgetFed DEF Leave
  <2>2. CASE Crash(p)
    <3>1. Forget(p) /\ UNCHANGED consumerVars /\ UNCHANGED lease /\ UNCHANGED snaps
      BY <2>2 DEF Crash, storeVars
    <3> QED BY <3>1, ForgetFed
  <2> QED BY <1>1, <1>3, <2>1, <2>2, QuietFed, ProcessFed, AckFed DEF Trouble
<1> QED BY <1>1, <1>2, <1>3, QuietFed, TimersFed, GiveUpFed DEF Next

LEMMA InitFed == Init => Fed
BY ConstantsOK DEF Init, Fed, ViewOf, Kept, Working, Publishing

\* Every snapshot in the bucket is the fold of exactly the acked facts its label
\* says, for every log, bucket size and number of failures, as long as a fenced
\* holder's work and a hydration end within the lease and a replay is not cut
\* short (maybeSnapshot, Hydrate, the fence).
THEOREM SnapshotsAreFolds == Timely /\ ~SlowReplay /\ Spec => []SnapshotIsFold
<1> SUFFICES ASSUME Timely, ~SlowReplay PROVE Spec => []SnapshotIsFold
  OBVIOUS
<1>1. Fed => SnapshotIsFold
  BY DEF Fed, Kept, SnapshotIsFold, Folded
<1>2. Shape /\ Turn /\ Fed /\ [Next]_vars => Shape' /\ Turn' /\ Fed'
  BY ShapeStep, TurnStep, FedStep
<1> QED BY <1>1, <1>2, InitShape, InitTurn, InitFed, PTL DEF Spec

-----------------------------------------------------------------------------
(* What the feeds hold. *)

Shown(n, a) == Message(n, "fact") \in Feed(a, Log[n].iid)

Marked(n) == Log[n].type = Left => Message(n, "revoked") \in Feed(Log[n].actor, Log[n].iid)

AllShown(n) == \A a \in Recipients(n) : Shown(n, a)

\* How far the publishing of the fact in process has come.
PublishedBy(p) ==
  /\ pc[p] = "fanout" =>
       /\ todo[p] \subseteq Recipients(fact[p])
       /\ \A a \in Recipients(fact[p]) \ todo[p] : Shown(fact[p], a)
  /\ pc[p] \in {"tombstone", "ack"} \/ (pc[p] = "settle" /\ ~cancelled[p]) => AllShown(fact[p])
  /\ pc[p] = "ack" \/ (pc[p] = "settle" /\ ~cancelled[p]) => Marked(fact[p])

\* The message m in the feed of a in i is that of fact n.
Source(n, a, i, m) ==
  /\ Log[n].iid = i /\ Log[n].type # Corrupt
  /\ \/ m = Message(n, "fact") /\ a \in Recipients(n)
     \/ m = Message(n, "revoked") /\ Leaves(n, i, a)

\* Every message is that of a fact up to the first unsettled one.
Sound == \A a \in Agents, i \in Iids : \A m \in Feed(a, i) : \E n \in Positions : n <= cur /\ Source(n, a, i, m)

\* A revoked marker is behind the leave it is for.
MarkedLast ==
  \A n \in Positions, a \in Agents :
    Log[n].type # Corrupt /\ a \in Recipients(n) /\ Message(n, "revoked") \in Feed(a, Log[n].iid) => Shown(n, a)

Sorted ==
  \A x \in Agents \X Iids : \A j, k \in DOMAIN feeds[x] :
    j < k => Rank(feeds[x][j]) < Rank(feeds[x][k])

Complete ==
  \A n \in (1..floor) \ (dlq \union exhausted) : Log[n].type # Corrupt => AllShown(n) /\ Marked(n)

Feeds == Sound /\ MarkedLast /\ Sorted

Published == FoldsAreFed => Feeds /\ Complete /\ \A p \in Replicas : PublishedBy(p)

\* The stream has the message, and otherwise what it had.
LEMMA StoreAdds ==
  ASSUME Shape, NEW a \in Agents, NEW n \in Positions, NEW kind \in Kinds, Store(a, n, kind)
  PROVE  /\ Message(n, kind) \in Feed(a, Log[n].iid)'
         /\ \A b \in Agents, i \in Iids : Feed(b, i) \subseteq Feed(b, i)'
         /\ \A b \in Agents, i \in Iids : \A m \in Feed(b, i)' :
              m \in Feed(b, i) \/ (b = a /\ i = Log[n].iid /\ m = Message(n, kind))
<1> PICK msg : msg = Message(n, kind)
  OBVIOUS
<1> PICK x : x = <<a, Log[n].iid>>
  OBVIOUS
<1>1. x \in Agents \X Iids /\ feeds \in [Agents \X Iids -> Seq(Messages)]
  BY LogType DEF Shape, StoreType
<1>2. feeds' = IF \E k \in DOMAIN feeds[x] : feeds[x][k] = msg THEN feeds
               ELSE [feeds EXCEPT ![x] = Append(feeds[x], msg)]
  BY DEF Store, Message
<1>3. CASE \E k \in DOMAIN feeds[x] : feeds[x][k] = msg
  BY <1>2, <1>3 DEF Feed
<1>4. CASE ~\E k \in DOMAIN feeds[x] : feeds[x][k] = msg
  <2>1. /\ feeds'[x] = Append(feeds[x], msg)
        /\ \A y \in Agents \X Iids : y # x => feeds'[y] = feeds[y]
    BY <1>1, <1>2, <1>4
  <2>2. feeds[x] \in Seq(Messages) /\ Len(feeds[x]) \in Nat
    BY <1>1
  <2>3. /\ DOMAIN feeds[x] = 1..Len(feeds[x]) /\ DOMAIN feeds'[x] = 1..(Len(feeds[x]) + 1)
        /\ feeds'[x][Len(feeds[x]) + 1] = msg
        /\ \A k \in 1..Len(feeds[x]) : feeds'[x][k] = feeds[x][k]
    BY <2>1, <2>2
  <2>4. msg \in Feed(a, Log[n].iid)'
    BY <2>2, <2>3 DEF Feed
  <2>5. ASSUME NEW b \in Agents, NEW i \in Iids
        PROVE  /\ Feed(b, i) \subseteq Feed(b, i)'
               /\ \A m \in Feed(b, i)' : m \in Feed(b, i) \/ (<<b, i>> = x /\ m = msg)
    <3>1. CASE <<b, i>> = x
      <4>1. Feed(b, i) = {feeds[x][k] : k \in 1..Len(feeds[x])}
            /\ Feed(b, i)' = {feeds'[x][k] : k \in 1..(Len(feeds[x]) + 1)}
        BY <2>3, <3>1 DEF Feed
      <4>2. \A k \in 1..(Len(feeds[x]) + 1) : k \in 1..Len(feeds[x]) \/ k = Len(feeds[x]) + 1
        BY <2>2
      <4>3. 1..Len(feeds[x]) \subseteq 1..(Len(feeds[x]) + 1)
        BY <2>2
      <4>4. Feed(b, i) \subseteq Feed(b, i)'
        BY <2>3, <4>1, <4>3
      <4>5. \A m \in Feed(b, i)' : m \in Feed(b, i) \/ m = msg
        BY <2>3, <4>1, <4>2
      <4> QED BY <3>1, <4>4, <4>5
    <3>2. CASE <<b, i>> # x
      BY <2>1, <3>2 DEF Feed
    <3> QED BY <3>1, <3>2
  <2> QED BY <2>4, <2>5
<1> QED BY <1>3, <1>4

\* A message with a higher rank than all the others goes to the end.
LEMMA StoreSorted ==
  ASSUME Shape, Sorted, NEW a \in Agents, NEW n \in Positions, NEW kind \in Kinds, Store(a, n, kind),
         \/ Message(n, kind) \in Feed(a, Log[n].iid)
         \/ \A m \in Feed(a, Log[n].iid) : Rank(m) < Rank(Message(n, kind))
  PROVE  Sorted'
<1> PICK msg : msg = Message(n, kind)
  OBVIOUS
<1> PICK x : x = <<a, Log[n].iid>>
  OBVIOUS
<1>1. x \in Agents \X Iids /\ feeds \in [Agents \X Iids -> Seq(Messages)]
  BY LogType DEF Shape, StoreType
<1>2. feeds' = IF \E k \in DOMAIN feeds[x] : feeds[x][k] = msg THEN feeds
               ELSE [feeds EXCEPT ![x] = Append(feeds[x], msg)]
  BY DEF Store, Message
<1>3. CASE \E k \in DOMAIN feeds[x] : feeds[x][k] = msg
  BY <1>2, <1>3 DEF Sorted
<1>4. CASE ~\E k \in DOMAIN feeds[x] : feeds[x][k] = msg
  <2>1. /\ feeds'[x] = Append(feeds[x], msg)
        /\ \A y \in Agents \X Iids : y # x => feeds'[y] = feeds[y]
    BY <1>1, <1>2, <1>4
  <2>2. feeds[x] \in Seq(Messages) /\ Len(feeds[x]) \in Nat
    BY <1>1
  <2>3. /\ DOMAIN feeds[x] = 1..Len(feeds[x]) /\ DOMAIN feeds'[x] = 1..(Len(feeds[x]) + 1)
        /\ feeds'[x][Len(feeds[x]) + 1] = msg
        /\ \A k \in 1..Len(feeds[x]) : feeds'[x][k] = feeds[x][k]
    BY <2>1, <2>2
  <2>4. \A k \in DOMAIN feeds[x] : Rank(feeds[x][k]) < Rank(msg)
    BY <1>4 DEF Feed
  <2>5. ASSUME NEW j \in DOMAIN feeds'[x], NEW k \in DOMAIN feeds'[x], j < k
        PROVE  Rank(feeds'[x][j]) < Rank(feeds'[x][k])
    <3>1. j \in 1..Len(feeds[x])
      BY <2>2, <2>3, <2>5
    <3>2. CASE k \in 1..Len(feeds[x])
      <4>1. Rank(feeds[x][j]) < Rank(feeds[x][k])
        BY <1>1, <2>3, <2>5, <3>1, <3>2 DEF Sorted
      <4> QED BY <2>3, <3>1, <3>2, <4>1
    <3>3. CASE k = Len(feeds[x]) + 1
      <4>1. Rank(feeds[x][j]) < Rank(msg)
        BY <2>3, <2>4, <3>1
      <4> QED BY <2>3, <3>1, <3>3, <4>1
    <3> QED BY <2>2, <2>3, <3>2, <3>3
  <2>6. ASSUME NEW y \in Agents \X Iids, y # x, NEW j \in DOMAIN feeds'[y], NEW k \in DOMAIN feeds'[y], j < k
        PROVE  Rank(feeds'[y][j]) < Rank(feeds'[y][k])
    BY <2>1, <2>6 DEF Sorted
  <2> QED BY <2>5, <2>6 DEF Sorted
<1> QED BY <1>3, <1>4

\* Of the facts up to n, those before it rank below it, marker or not.
LEMMA RankOf ==
  ASSUME NEW n \in Positions, NEW m \in Positions, Log[n].type # Corrupt, Log[m].type # Corrupt,
         Log[m].iid = Log[n].iid, m <= n, NEW k \in Kinds, NEW l \in Kinds
  PROVE  \/ Rank(Message(m, k)) < Rank(Message(n, l))
         \/ m = n /\ Message(m, k) = Message(n, l)
         \/ m = n /\ k = "revoked" /\ l = "fact"
<1>1. Log[m].seq \in Nat /\ Log[n].seq \in Nat /\ m \in Nat /\ n \in Nat
  BY LogType
<1>2. CASE m < n
  <2>1. Log[m].seq < Log[n].seq
    BY <1>2, SeqOrder
  <2> QED BY <1>1, <2>1 DEF Rank, Message, Kinds
<1>3. CASE m = n
  BY <1>1, <1>3 DEF Rank, Message, Kinds
<1> QED BY <1>1, <1>2, <1>3

\* What a publish of the first unsettled fact leaves in the feeds.
LEMMA StoreFeedsWell ==
  ASSUME Shape, Feeds, NEW a \in Agents, cur \in Positions, NEW kind \in Kinds, Store(a, cur, kind), cur' = cur,
         Log[cur].type # Corrupt,
         \/ kind = "fact" /\ a \in Recipients(cur)
         \/ kind = "revoked" /\ Leaves(cur, Log[cur].iid, a) /\ AllShown(cur)
  PROVE  Feeds'
<1> PICK n \in Positions : n = cur
  OBVIOUS
<1>0. Log[n].iid \in Iids /\ n \in Nat
  BY LogType
<1>1. /\ Message(n, kind) \in Feed(a, Log[n].iid)'
      /\ \A b \in Agents, i \in Iids : Feed(b, i) \subseteq Feed(b, i)'
      /\ \A b \in Agents, i \in Iids : \A m \in Feed(b, i)' :
           m \in Feed(b, i) \/ (b = a /\ i = Log[n].iid /\ m = Message(n, kind))
  BY StoreAdds
<1>2. Source(n, a, Log[n].iid, Message(n, kind))
  BY DEF Source
<1>3. Sound'
  <2> SUFFICES ASSUME NEW b \in Agents, NEW i \in Iids, NEW m \in Feed(b, i)'
               PROVE  \E k \in Positions : k <= cur /\ Source(k, b, i, m)
    BY DEF Sound, Source
  <2>1. CASE m \in Feed(b, i)
    BY <2>1 DEF Feeds, Sound
  <2>2. CASE b = a /\ i = Log[n].iid /\ m = Message(n, kind)
    BY <1>0, <1>2, <2>2
  <2> QED BY <1>1, <2>1, <2>2
<1>4. MarkedLast'
  <2> SUFFICES ASSUME NEW k \in Positions, NEW b \in Agents, Log[k].type # Corrupt, b \in Recipients(k),
                      Message(k, "revoked") \in Feed(b, Log[k].iid)'
               PROVE  Message(k, "fact") \in Feed(b, Log[k].iid)'
    BY DEF MarkedLast, Shown, Message, Recipients
  <2>0. Log[k].iid \in Iids
    BY LogType
  <2>1. CASE Message(k, "revoked") \in Feed(b, Log[k].iid)
    BY <1>1, <2>0, <2>1 DEF Feeds, MarkedLast, Shown
  <2>2. CASE b = a /\ Log[k].iid = Log[n].iid /\ Message(k, "revoked") = Message(n, kind)
    <3>1. kind = "revoked" /\ Log[k].seq = Log[n].seq
      BY <2>2 DEF Message
    <3>2. k = n
      BY <2>2, <3>1, SeqOrder
    <3> QED BY <1>1, <2>0, <2>2, <3>1, <3>2 DEF AllShown, Shown
  <2> QED BY <1>1, <2>0, <2>1, <2>2
<1>5. \/ Message(n, kind) \in Feed(a, Log[n].iid)
      \/ \A m \in Feed(a, Log[n].iid) : Rank(m) < Rank(Message(n, kind))
  <2> SUFFICES ASSUME Message(n, kind) \notin Feed(a, Log[n].iid), NEW m \in Feed(a, Log[n].iid)
               PROVE  Rank(m) < Rank(Message(n, kind))
    OBVIOUS
  <2>1. PICK k \in Positions : k <= cur /\ Source(k, a, Log[n].iid, m)
    BY <1>0 DEF Feeds, Sound
  <2>2. PICK l \in Kinds : m = Message(k, l)
    BY <2>1 DEF Source, Kinds
  <2>3. ~(k = n /\ l = "revoked" /\ kind = "fact")
    BY <2>2 DEF Feeds, MarkedLast, Shown
  <2>4. Log[k].iid = Log[n].iid /\ Log[k].type # Corrupt /\ k <= n
    BY <2>1 DEF Source
  <2> QED BY <2>2, <2>3, <2>4, RankOf
<1>6. Sorted'
  BY <1>5, StoreSorted DEF Feeds
<1> QED BY <1>3, <1>4, <1>6 DEF Feeds

LEMMA FeedsStay ==
  ASSUME Shape, Shape', Feeds, feeds' = feeds, cur' = cur \/ cur' = cur + 1
  PROVE  Feeds'
<1>1. cur \in Nat
  BY LogType DEF Shape, ConsumerType
<1>2. Sound'
  <2> SUFFICES ASSUME NEW a \in Agents, NEW i \in Iids, NEW m \in Feed(a, i)
               PROVE  \E n \in Positions : n <= cur' /\ Source(n, a, i, m)
    BY DEF Sound, Source, Feed
  <2>1. PICK n \in Positions : n <= cur /\ Source(n, a, i, m)
    BY DEF Feeds, Sound
  <2> QED BY <1>1, <2>1, LogType
<1>3. MarkedLast' /\ Sorted'
  BY DEF Feeds, MarkedLast, Sorted, Shown, Feed
<1> QED BY <1>2, <1>3 DEF Feeds

\* The fact that is being published is the first unsettled one, and the holder's.
LEMMA InProcess ==
  ASSUME Shape, Turn, NEW p \in Replicas, pc[p] \in Publishing
  PROVE  /\ fact[p] = cur /\ cur \in Positions /\ Log[cur].type # Corrupt
         /\ \A q \in Replicas \ {p} : pc[q] \in {"standby", "live"}
<1>1. fact[p] = cur /\ cur \in Positions
  BY FactInProcess DEF Turn, InTurn, Working
<1>2. Log[fact[p]].type # Corrupt
  BY DEF Shape, Holds
<1>3. \A q \in Replicas \ {p} : pc[q] \in {"standby", "live"}
  BY Alone DEF Publishing
<1> QED BY <1>1, <1>2, <1>3

\* A replica whose publishing stands where it was, or that publishes nothing.
LEMMA PublishedStays ==
  ASSUME NEW q, PublishedBy(q), feeds' = feeds,
         \/ pc'[q] \notin Publishing
         \/ /\ pc'[q] = pc[q] /\ fact'[q] = fact[q] /\ todo'[q] = todo[q]
            /\ cancelled[q] => cancelled'[q]
  PROVE  PublishedBy(q)'
<1>1. CASE pc'[q] \notin Publishing
  BY <1>1 DEF PublishedBy, Publishing
<1>2. CASE /\ pc'[q] = pc[q] /\ fact'[q] = fact[q] /\ todo'[q] = todo[q]
           /\ cancelled[q] => cancelled'[q]
  BY <1>2 DEF PublishedBy, AllShown, Marked, Shown, Feed
<1> QED BY <1>1, <1>2

LEMMA CompleteStays ==
  ASSUME Complete, floor' = floor, feeds' = feeds, dlq \subseteq dlq', exhausted \subseteq exhausted'
  PROVE  Complete'
BY DEF Complete, AllShown, Marked, Shown, Feed

\* Where nothing is published or settled.
LEMMA QuietPublished ==
  ASSUME Shape, Shape', Published, UNCHANGED <<feeds, floor>>, cur' = cur \/ cur' = cur + 1,
         dlq \subseteq dlq', exhausted \subseteq exhausted',
         \A q \in Replicas :
           \/ pc'[q] \notin Publishing
           \/ /\ pc'[q] = pc[q] /\ fact'[q] = fact[q] /\ todo'[q] = todo[q]
              /\ cancelled[q] => cancelled'[q]
  PROVE  Published'
<1> SUFFICES ASSUME FoldsAreFed' PROVE Feeds' /\ Complete' /\ \A p \in Replicas : PublishedBy(p)'
  BY DEF Published
<1>1. Feeds /\ Complete /\ \A p \in Replicas : PublishedBy(p)
  BY FedBefore DEF Published
<1>2. Feeds' /\ Complete'
  BY <1>1, FeedsStay, CompleteStays
<1>3. \A q \in Replicas : PublishedBy(q)'
  BY <1>1, PublishedStays
<1> QED BY <1>2, <1>3

\* Where the holder is at work, the others publish nothing.
LEMMA HolderPublished ==
  ASSUME Shape, Turn, Published, NEW p \in Replicas, pc[p] \notin {"standby", "live"},
         UNCHANGED <<floor, exhausted, dlq>>,
         \A q \in Replicas \ {p} : pc'[q] = pc[q],
         \A a \in Agents, i \in Iids : Feed(a, i) \subseteq Feed(a, i)',
         FoldsAreFed /\ Feeds /\ PublishedBy(p) => Feeds' /\ PublishedBy(p)'
  PROVE  Published'
<1> SUFFICES ASSUME FoldsAreFed' PROVE Feeds' /\ Complete' /\ \A q \in Replicas : PublishedBy(q)'
  BY DEF Published
<1>1. FoldsAreFed /\ Feeds /\ Complete /\ PublishedBy(p)
  BY FedBefore DEF Published
<1>2. ASSUME NEW q \in Replicas \ {p} PROVE PublishedBy(q)'
  <2>1. pc'[q] \in {"standby", "live"}
    BY Alone
  <2> QED BY <2>1 DEF PublishedBy
<1>3. Complete'
  <2> SUFFICES ASSUME NEW n \in (1..floor) \ (dlq \union exhausted), Log[n].type # Corrupt
               PROVE  AllShown(n)' /\ Marked(n)'
    BY DEF Complete
  <2>1. AllShown(n) /\ Marked(n)
    BY <1>1 DEF Complete
  <2>2. n \in Positions /\ Log[n].iid \in Iids
    BY LogType DEF Shape, ConsumerType
  <2>3. \A a \in Recipients(n) : a \in Agents
    BY <2>2, RecipientsTakePart
  <2>4. AllShown(n)'
    BY <2>1, <2>2, <2>3 DEF AllShown, Shown, Message, Recipients
  <2>5. Marked(n)'
    BY <2>1, <2>2, ConstantsOK DEF Marked, Message
  <2> QED BY <2>4, <2>5
<1> QED BY <1>1, <1>2, <1>3

\* The recipients are those of the fact's own fold.
LEMMA DeliverPublished ==
  ASSUME Shape, Turn, Shape', Turn', Fed, Published, NEW p \in Replicas, Deliver(p)
  PROVE  Published'
<1>1. /\ pc[p] = "fetch" /\ UNCHANGED <<feeds, floor, cur, exhausted, dlq, cancelled>>
      /\ fact' = [fact EXCEPT ![p] = cur]
      /\ \/ Log[cur].type = Corrupt /\ Goto(p, "failing")
         \/ /\ Log[cur].type # Corrupt
            /\ todo' = [todo EXCEPT ![p] = IF cancelled[p] THEN {} ELSE CoveredBy(Fold(view[p], Log[cur]), Log[cur])]
            /\ Goto(p, IF (IF cancelled[p] THEN {} ELSE CoveredBy(Fold(view[p], Log[cur]), Log[cur])) = {}
                       THEN AfterFanout(p, cur) ELSE "fanout")
  BY DEF Deliver, storeVars, fenceVars
<1>2. \A q \in Replicas \ {p} : pc'[q] = pc[q]
  BY <1>1 DEF Goto, Shape, ReplicaType
<1>3. fact'[p] = cur
  BY <1>1 DEF Shape, ReplicaType
<1>4. Feeds => Feeds'
  BY <1>1, FeedsStay
<1>5. ASSUME FoldsAreFed PROVE PublishedBy(p)'
  <2>1. CASE Log[cur].type = Corrupt
    <3>1. pc'[p] = "failing"
      BY <1>1, <2>1 DEF Goto, Shape, ReplicaType
    <3> QED BY <3>1 DEF PublishedBy
  <2>2. CASE Log[cur].type # Corrupt
    <3>1. Fold(view[p], Log[cur]) = Folded(cur)
      BY <1>5, <2>2, DeliverFed
    <3>2. /\ todo' = [todo EXCEPT ![p] = IF cancelled[p] THEN {} ELSE Recipients(cur)]
          /\ Goto(p, IF cancelled[p] \/ Recipients(cur) = {} THEN AfterFanout(p, cur) ELSE "fanout")
      BY <1>1, <2>2, <3>1 DEF Recipients
    <3>3. /\ todo'[p] = IF cancelled[p] THEN {} ELSE Recipients(cur)
          /\ pc'[p] = IF cancelled[p] \/ Recipients(cur) = {} THEN AfterFanout(p, cur) ELSE "fanout"
      BY <3>2 DEF Goto, Shape, ReplicaType
    <3>4. CASE cancelled[p]
      <4>1. pc'[p] = "settle" /\ cancelled'[p]
        BY <1>1, <3>3, <3>4 DEF AfterFanout
      <4> QED BY <4>1 DEF PublishedBy
    <3>5. CASE ~cancelled[p] /\ Recipients(cur) = {}
      <4>1. pc'[p] \in {"tombstone", "settle"} /\ (pc'[p] = "settle" => Log[cur].type # Left)
        BY <3>3, <3>5 DEF AfterFanout
      <4>2. AllShown(cur)' /\ (pc'[p] = "settle" => Marked(cur)')
        BY <1>1, <3>5, <4>1 DEF AllShown, Marked, Recipients
      <4> QED BY <1>1, <1>3, <4>1, <4>2 DEF PublishedBy, AllShown, Marked, Shown, Feed
    <3>6. CASE ~cancelled[p] /\ Recipients(cur) # {}
      <4>1. pc'[p] = "fanout" /\ todo'[p] = Recipients(cur)
        BY <3>3, <3>6
      <4> QED BY <1>1, <1>3, <4>1 DEF PublishedBy, Recipients
    <3> QED BY <3>4, <3>5, <3>6
  <2> QED BY <2>1, <2>2
<1>6. \A a \in Agents, i \in Iids : Feed(a, i) \subseteq Feed(a, i)'
  BY <1>1 DEF Feed
<1> QED BY <1>1, <1>2, <1>4, <1>5, <1>6, HolderPublished

LEMMA PublishPublished ==
  ASSUME Shape, Turn, Shape', Turn', Published, NEW p \in Replicas, NEW a \in Agents, Publish(p, a)
  PROVE  Published'
<1>1. /\ pc[p] = "fanout" /\ a \in todo[p] /\ Store(a, fact[p], "fact")
      /\ todo' = [todo EXCEPT ![p] = @ \ {a}]
      /\ Goto(p, IF todo[p] = {a} THEN AfterFanout(p, fact[p]) ELSE "fanout")
      /\ UNCHANGED <<floor, cur, exhausted, dlq, cancelled, fact>>
  BY DEF Publish, consumerVars, fenceVars
<1> PICK n : n = fact[p]
  OBVIOUS
<1>2. fact[p] = n /\ cur = n /\ n \in Positions /\ Log[n].type # Corrupt
  BY <1>1, InProcess DEF Publishing
<1>3. /\ pc'[p] = IF todo[p] = {a} THEN AfterFanout(p, n) ELSE "fanout"
      /\ todo'[p] = todo[p] \ {a}
      /\ \A q \in Replicas \ {p} : pc'[q] = pc[q]
  BY <1>1, <1>2 DEF Goto, Shape, ReplicaType
<1>4. /\ Message(n, "fact") \in Feed(a, Log[n].iid)'
      /\ \A b \in Agents, i \in Iids : Feed(b, i) \subseteq Feed(b, i)'
  BY <1>1, <1>2, StoreAdds DEF Kinds
<1>5. ASSUME Feeds, PublishedBy(p) PROVE Feeds' /\ PublishedBy(p)'
  <2>1. /\ todo[p] \subseteq Recipients(n)
        /\ \A b \in Recipients(n) \ todo[p] : Shown(n, b)
    BY <1>1, <1>2, <1>5 DEF PublishedBy
  <2>2. Feeds'
    BY <1>1, <1>2, <1>5, <2>1, StoreFeedsWell DEF Kinds
  <2>3. \A b \in Recipients(n) \ todo'[p] : Message(n, "fact") \in Feed(b, Log[n].iid)'
    <3> SUFFICES ASSUME NEW b \in Recipients(n), b \notin todo'[p]
                 PROVE  Message(n, "fact") \in Feed(b, Log[n].iid)'
      OBVIOUS
    <3>1. b \in Agents /\ Log[n].iid \in Iids
      BY <1>2, LogType, RecipientsTakePart
    <3>2. b = a \/ Shown(n, b)
      BY <1>3, <2>1
    <3> QED BY <1>4, <3>1, <3>2 DEF Shown
  <2>4. CASE todo[p] = {a}
    <3>1. pc'[p] \in {"tombstone", "settle"} /\ (pc'[p] = "settle" => cancelled[p] \/ Log[n].type # Left)
      BY <1>3, <2>4 DEF AfterFanout
    <3>2. todo'[p] = {}
      BY <1>3, <2>4
    <3>3. AllShown(n)'
      BY <1>1, <2>3, <3>2 DEF AllShown, Shown, Recipients, Message
    <3>4. AllShown(fact[p])' /\ (Log[n].type # Left => Marked(fact[p])')
      BY <1>1, <1>2, <3>3 DEF Marked
    <3> QED BY <1>1, <2>2, <3>1, <3>4 DEF PublishedBy
  <2>5. CASE todo[p] # {a}
    <3>1. pc'[p] = "fanout" /\ fact'[p] = n /\ todo'[p] \subseteq Recipients(n)
      BY <1>1, <1>2, <1>3, <2>1, <2>5
    <3> QED BY <2>2, <2>3, <3>1 DEF PublishedBy, Shown, Recipients, Message
  <2> QED BY <2>4, <2>5
<1> QED BY <1>1, <1>3, <1>4, <1>5, HolderPublished

LEMMA TombstonePublished ==
  ASSUME Shape, Turn, Shape', Turn', Published, NEW p \in Replicas, Tombstone(p)
  PROVE  Published'
<1>1. /\ pc[p] = "tombstone" /\ Store(Log[fact[p]].actor, fact[p], "revoked")
      /\ Goto(p, "settle")
      /\ UNCHANGED <<floor, cur, exhausted, dlq, cancelled, fact, todo>>
  BY DEF Tombstone, consumerVars, fenceVars, workVars
<1> PICK n : n = fact[p]
  OBVIOUS
<1>2. /\ fact[p] = n /\ cur = n /\ n \in Positions /\ Log[n].type # Corrupt
      /\ Log[n].type = Left /\ Log[n].actor \in Agents /\ Log[n].iid \in Iids
  BY <1>1, InProcess, ConstantsOK, LogType DEF Publishing, Shape, Holds
<1>3. pc'[p] = "settle" /\ fact'[p] = n /\ \A q \in Replicas \ {p} : pc'[q] = pc[q]
  BY <1>1, <1>2 DEF Goto, Shape, ReplicaType
<1>4. /\ Message(n, "revoked") \in Feed(Log[n].actor, Log[n].iid)'
      /\ \A b \in Agents, i \in Iids : Feed(b, i) \subseteq Feed(b, i)'
  BY <1>1, <1>2, StoreAdds DEF Kinds
<1>5. ASSUME Feeds, PublishedBy(p) PROVE Feeds' /\ PublishedBy(p)'
  <2>1. AllShown(n)
    BY <1>1, <1>2, <1>5 DEF PublishedBy
  <2>2. Leaves(n, Log[n].iid, Log[n].actor)
    BY <1>2 DEF Leaves
  <2>3. Feeds'
    BY <1>1, <1>2, <1>5, <2>1, <2>2, StoreFeedsWell DEF Kinds
  <2>4. \A b \in Recipients(n) : Message(n, "fact") \in Feed(b, Log[n].iid)'
    <3> SUFFICES ASSUME NEW b \in Recipients(n) PROVE Message(n, "fact") \in Feed(b, Log[n].iid)'
      OBVIOUS
    <3>1. b \in Agents
      BY <1>2, RecipientsTakePart
    <3> QED BY <1>2, <1>4, <2>1, <3>1 DEF AllShown, Shown
  <2> QED BY <1>3, <1>4, <2>3, <2>4 DEF PublishedBy, AllShown, Marked, Shown, Recipients, Message
<1> QED BY <1>1, <1>3, <1>4, <1>5, HolderPublished

\* A publish that fails may have landed.
LEMMA PublishFailsPublished ==
  ASSUME Shape, Turn, Shape', Turn', Published, NEW p \in Replicas, PublishFails(p)
  PROVE  Published'
<1>1. /\ pc[p] \in {"fanout", "tombstone"}
      /\ \/ pc[p] = "fanout" /\ \E a \in todo[p] : Store(a, fact[p], "fact")
         \/ pc[p] = "tombstone" /\ Store(Log[fact[p]].actor, fact[p], "revoked")
         \/ UNCHANGED feeds
      /\ UNCHANGED <<floor, cur, exhausted, dlq>>
      /\ Goto(p, "live") \/ Goto(p, "failing")
  BY DEF PublishFails, Nak, NakMsg, Done, consumerVars
<1>2. /\ fact[p] = cur /\ cur \in Positions /\ Log[cur].type # Corrupt /\ Log[cur].iid \in Iids
      /\ pc[p] = "tombstone" => Log[cur].type = Left /\ Log[cur].actor \in Agents
  BY <1>1, InProcess, ConstantsOK, LogType DEF Publishing, Shape, Holds
<1>3. pc'[p] \in {"live", "failing"} /\ \A q \in Replicas \ {p} : pc'[q] = pc[q]
  BY <1>1 DEF Goto, Shape, ReplicaType
<1>4. PublishedBy(p)'
  BY <1>3 DEF PublishedBy
<1>5. CASE pc[p] = "fanout" /\ \E a \in todo[p] : Store(a, fact[p], "fact")
  <2>1. PICK a \in todo[p] : Store(a, cur, "fact")
    BY <1>2, <1>5
  <2>2. a \in Agents
    BY DEF Shape, ReplicaType
  <2>3. \A b \in Agents, i \in Iids : Feed(b, i) \subseteq Feed(b, i)'
    BY <1>2, <2>1, <2>2, StoreAdds DEF Kinds
  <2>4. ASSUME Feeds, PublishedBy(p) PROVE Feeds'
    <3>1. a \in Recipients(cur)
      BY <1>2, <1>5, <2>4 DEF PublishedBy
    <3> QED BY <1>1, <1>2, <2>1, <2>2, <2>4, <3>1, StoreFeedsWell DEF Kinds
  <2> QED BY <1>1, <1>3, <1>4, <2>3, <2>4, HolderPublished
<1>6. CASE pc[p] = "tombstone" /\ Store(Log[fact[p]].actor, fact[p], "revoked")
  <2>1. Leaves(cur, Log[cur].iid, Log[cur].actor)
    BY <1>2, <1>6 DEF Leaves
  <2>2. \A b \in Agents, i \in Iids : Feed(b, i) \subseteq Feed(b, i)'
    BY <1>2, <1>6, StoreAdds DEF Kinds
  <2>3. ASSUME Feeds, PublishedBy(p) PROVE Feeds'
    <3>1. AllShown(cur)
      BY <1>2, <1>6, <2>3 DEF PublishedBy
    <3> QED BY <1>1, <1>2, <1>6, <2>1, <2>3, <3>1, StoreFeedsWell DEF Kinds
  <2> QED BY <1>1, <1>3, <1>4, <2>2, <2>3, HolderPublished
<1>7. CASE UNCHANGED feeds
  <2>1. Feeds => Feeds'
    BY <1>1, <1>7, FeedsStay
  <2>2. \A b \in Agents, i \in Iids : Feed(b, i) \subseteq Feed(b, i)'
    BY <1>7 DEF Feed
  <2> QED BY <1>1, <1>3, <1>4, <2>1, <2>2, HolderPublished
<1> QED BY <1>1, <1>5, <1>6, <1>7

\* What is acked has been published, or dead-lettered.
LEMMA AckPublished ==
  ASSUME Shape, Turn, Shape', Turn', Published, NEW p \in Replicas, Ack(p) \/ AckFails(p)
  PROVE  Published'
<1>1. /\ pc[p] \in {"ack", "dlqAck"} /\ UNCHANGED <<feeds, dlq>>
      /\ AckMsg(fact[p]) \/ UNCHANGED consumerVars
      /\ Goto(p, "live") \/ Goto(p, "snapshot") \/ Goto(p, "standby")
  BY DEF Ack, AckFails, Leave, Forget, Done, storeVars
<1>2. fact[p] = cur /\ cur \in Positions
  BY <1>1, AckTurn
<1>3. \/ floor' = cur /\ cur' = cur + 1 /\ exhausted' = exhausted
      \/ UNCHANGED <<floor, cur, exhausted>>
  BY <1>1, <1>2, AckTurn DEF consumerVars
<1>4. pc'[p] \notin Publishing /\ \A q \in Replicas \ {p} : pc'[q] = pc[q]
  BY <1>1 DEF Goto, Shape, ReplicaType, Publishing
<1>5. \A q \in Replicas : PublishedBy(q)'
  <2>1. \A q \in Replicas \ {p} : pc'[q] \in {"standby", "live"}
    BY <1>1, <1>4, Alone
  <2> QED BY <1>4, <2>1 DEF PublishedBy, Publishing
<1> SUFFICES ASSUME FoldsAreFed' PROVE Feeds' /\ Complete'
  BY <1>5 DEF Published
<1>6. Feeds /\ Complete /\ PublishedBy(p)
  BY <1>3, FedBefore DEF Published
<1>7. Feeds'
  BY <1>1, <1>3, <1>6, FeedsStay
<1>8. CASE UNCHANGED <<floor, cur, exhausted>>
  BY <1>1, <1>6, <1>7, <1>8, CompleteStays
<1>9. CASE floor' = cur /\ cur' = cur + 1 /\ exhausted' = exhausted
  <2> SUFFICES ASSUME NEW n \in 1..cur, n \notin dlq, n \notin exhausted, Log[n].type # Corrupt
               PROVE  AllShown(n) /\ Marked(n)
    BY <1>1, <1>7, <1>9 DEF Complete, AllShown, Marked, Shown, Feed
  <2>1. cur \in Nat /\ floor \in Nat /\ floor < cur
    BY <1>2, LogType DEF Shape, ConsumerType
  <2>2. n \in 1..floor \/ n \in (floor + 1)..(cur - 1) \/ n = cur
    BY <2>1
  <2>3. CASE n \in 1..floor
    BY <1>6, <2>3 DEF Complete
  <2>4. CASE n = cur
    <3>1. pc[p] # "dlqAck"
      BY <1>2, <2>4 DEF Turn, InTurn
    <3> QED BY <1>1, <1>2, <1>6, <2>4, <3>1 DEF PublishedBy
  <2> QED BY <2>2, <2>3, <2>4 DEF Turn, Passed
<1> QED BY <1>3, <1>8, <1>9

\* The check that the context still stands is what allows the ack.
LEMMA SettlePublished ==
  ASSUME Shape, Turn, Shape', Turn', Published, NEW p \in Replicas, CheckFence(p)
  PROVE  Published'
<1>1. /\ pc[p] = "settle" /\ UNCHANGED <<feeds, floor, cur, exhausted, dlq, cancelled>>
      /\ Goto(p, "live") \/ (~cancelled[p] /\ Goto(p, "ack") /\ UNCHANGED fact)
  BY DEF CheckFence, Nak, NakMsg, Done, consumerVars, storeVars, fenceVars, workVars
<1>2. /\ \A q \in Replicas \ {p} : pc'[q] = pc[q]
      /\ pc'[p] = "live" \/ (~cancelled[p] /\ pc'[p] = "ack" /\ fact'[p] = fact[p])
  BY <1>1 DEF Goto, Shape, ReplicaType
<1>3. PublishedBy(p) => PublishedBy(p)'
  BY <1>1, <1>2 DEF PublishedBy, AllShown, Marked, Shown, Feed
<1>4. Feeds => Feeds'
  BY <1>1, FeedsStay
<1>5. \A b \in Agents, i \in Iids : Feed(b, i) \subseteq Feed(b, i)'
  BY <1>1 DEF Feed
<1> QED BY <1>1, <1>2, <1>3, <1>4, <1>5, HolderPublished

\* Steps of one replica that publish nothing.
LEMMA OtherPublished ==
  ASSUME Shape, Turn, Shape', Published, NEW p \in Replicas,
         \/ Acquire(p) \/ ReadFloor(p) \/ Hydrate(p) \/ Begin(p) \/ Exit(p) \/ DlqOrNak(p) \/ MaybeSnapshot(p)
         \/ Crash(p) \/ HydrateFails(p) \/ FetchEnds(p)
  PROVE  Published'
<1>1. UNCHANGED <<feeds, floor, cur, exhausted>> /\ dlq \subseteq dlq'
  BY DEF Acquire, ReadFloor, Hydrate, Begin, Exit, DlqOrNak, MaybeSnapshot, Crash, HydrateFails, FetchEnds,
     Nak, NakMsg, consumerVars, storeVars
<1>2. /\ \E l \in {"floor", "hydrate", "live", "fetch", "standby", "dlqAck"} : Goto(p, l)
  BY DEF Acquire, ReadFloor, Hydrate, Begin, Exit, DlqOrNak, MaybeSnapshot, Crash, HydrateFails, FetchEnds,
     Leave, Forget, Nak, Done
<1>3. \A q \in Replicas \ {p} : fact'[q] = fact[q] /\ todo'[q] = todo[q] /\ cancelled'[q] = cancelled[q]
  <2>1. \/ fact' = fact /\ todo' = todo
        \/ fact' = [fact EXCEPT ![p] = 0] /\ todo' = [todo EXCEPT ![p] = {}]
    BY DEF Acquire, ReadFloor, Hydrate, Begin, Exit, DlqOrNak, MaybeSnapshot, Crash, HydrateFails, FetchEnds,
       Leave, Forget, Nak, Done, workVars
  <2>2. cancelled' = cancelled \/ cancelled' = [cancelled EXCEPT ![p] = FALSE]
    BY DEF Acquire, ReadFloor, Hydrate, Begin, Exit, DlqOrNak, MaybeSnapshot, Crash, HydrateFails, FetchEnds,
       Leave, Forget, fenceVars
  <2> QED BY <2>1, <2>2 DEF Shape, ReplicaType
<1>4. pc'[p] \notin Publishing /\ \A q \in Replicas \ {p} : pc'[q] = pc[q]
  BY <1>2 DEF Goto, Shape, ReplicaType, Publishing
<1> QED BY <1>1, <1>3, <1>4, QuietPublished

\* The fence, the broker's timers and the lease.
LEMMA TimersPublished ==
  ASSUME Shape, Shape', Published,
         \/ \E p \in Replicas : RenewRetried(p) \/ RenewFails(p) \/ Shutdown(p)
         \/ AckWaitExpires \/ AckWaitTooShort \/ GiveUp \/ LeaseExpires \/ UNCHANGED vars
  PROVE  Published'
<1>1. /\ UNCHANGED <<feeds, floor, dlq, pc, fact, todo>> /\ (cur' = cur \/ cur' = cur + 1)
      /\ exhausted \subseteq exhausted'
  BY DEF RenewRetried, RenewFails, Shutdown, AckWaitExpires, AckWaitTooShort, GiveUp, LeaseExpires, vars,
     consumerVars, storeVars, workVars
<1>2. cancelled' = cancelled \/ \E p \in Replicas : cancelled' = [cancelled EXCEPT ![p] = TRUE]
  BY DEF RenewRetried, RenewFails, Shutdown, AckWaitExpires, AckWaitTooShort, GiveUp, LeaseExpires, vars,
     fenceVars
<1>3. \A q \in Replicas : cancelled[q] => cancelled'[q]
  BY <1>2 DEF Shape, ReplicaType
<1> QED BY <1>1, <1>3, QuietPublished

LEMMA PublishedStep == Timely /\ Shape /\ Turn /\ Fed /\ Published /\ [Next]_vars => Published'
<1> SUFFICES ASSUME Timely, Shape, Turn, Fed, Published, [Next]_vars PROVE Published'
  OBVIOUS
<1>1. Shape' /\ Turn'
  BY ShapeStep, TurnStep
<1>2. ASSUME NEW p \in Replicas, Step(p) PROVE Published'
  <2>1. CASE FetchTimesOut(p)
    BY <1>1, <2>1, TimersPublished DEF FetchTimesOut
  <2> QED BY <1>1, <1>2, <2>1, OtherPublished, DeliverPublished, PublishPublished, TombstonePublished,
          SettlePublished, AckPublished DEF Step
<1>3. ASSUME NEW p \in Replicas, Trouble(p) PROVE Published'
  <2>1. CASE RenewFails(p) \/ Shutdown(p)
    BY <1>1, <2>1, TimersPublished
  <2> QED BY <1>1, <1>3, <2>1, OtherPublished, PublishFailsPublished, AckPublished DEF Trouble
<1>4. CASE AckWaitExpires \/ AckWaitTooShort \/ GiveUp \/ LeaseExpires \/ UNCHANGED vars
  BY <1>1, <1>4, TimersPublished
<1>5. ASSUME NEW p \in Replicas, Acquire(p) PROVE Published'
  BY <1>1, <1>5, OtherPublished
<1>6. ASSUME NEW p \in Replicas, RenewRetried(p) PROVE Published'
  BY <1>1, <1>6, TimersPublished
<1> QED BY <1>2, <1>3, <1>4, <1>5, <1>6 DEF Next

LEMMA InitPublished == Init => Published
<1> SUFFICES ASSUME Init PROVE Published
  OBVIOUS
<1>1. \A a \in Agents, i \in Iids : Feed(a, i) = {}
  BY DEF Init, Feed
<1>2. \A n \in Positions : Log[n].iid \in Iids
  BY LogType
<1>3. Sound /\ MarkedLast
  BY <1>1, <1>2 DEF Sound, MarkedLast
<1>4. Sorted
  BY DEF Init, Sorted
<1>5. Complete
  BY DEF Init, Complete
<1>6. \A p \in Replicas : PublishedBy(p)
  BY DEF Init, PublishedBy
<1> QED BY <1>3, <1>4, <1>5, <1>6 DEF Published, Feeds

\* The invariant of the fan-out when work ends in time.
FanoutInv == Shape /\ Turn /\ Fed /\ Published

\* It holds in every behaviour, as long as what a fenced holder has under way and
\* a hydration end within the lease, and a replay is not cut short.
THEOREM FanoutInvariance == Timely /\ ~SlowReplay /\ Spec => []FanoutInv
<1> SUFFICES ASSUME Timely, ~SlowReplay PROVE Spec => []FanoutInv
  OBVIOUS
<1>1. Init => FanoutInv
  BY InitShape, InitTurn, InitFed, InitPublished DEF FanoutInv
<1>2. FanoutInv /\ [Next]_vars => FanoutInv'
  BY ShapeStep, TurnStep, FedStep, PublishedStep DEF FanoutInv
<1> QED BY <1>1, <1>2, PTL DEF Spec

\* Below the ack floor every fact is in the feed of every agent that takes part at
\* it, a leave with its marker, unless it was dead-lettered or passed over: for
\* every log and whatever crashes, takeovers and naks came between (process, Run).
THEOREM SettledIsProjected == Timely /\ ~SlowReplay /\ Spec => []FeedComplete
<1>1. FanoutInv => FeedComplete
  <2> SUFFICES ASSUME FanoutInv, FoldsAreFed, NEW n \in (1..floor) \ (dlq \union exhausted),
                      Log[n].type # Corrupt
               PROVE  /\ \A a \in Agents : TakesPart(a, n) => Message(n, "fact") \in Feed(a, Log[n].iid)
                      /\ Log[n].type = Left => Message(n, "revoked") \in Feed(Log[n].actor, Log[n].iid)
    BY DEF FeedComplete
  <2>1. AllShown(n) /\ Marked(n)
    BY DEF FanoutInv, Published, Complete
  <2>2. n \in Positions
    BY LogType DEF FanoutInv, Shape, ConsumerType
  <2> QED BY <2>1, <2>2, WhoTakesPartReceives DEF AllShown, Marked, Shown
<1> QED BY <1>1, FanoutInvariance, PTL

\* No agent is shown a fact of an interaction it does not take part in at that
\* point, nor a marker but for its own leave (coveredBy, publishTombstone).
THEOREM FeedsArePrivate == Timely /\ ~SlowReplay /\ Spec => []OnlyParticipants
<1>1. FanoutInv => OnlyParticipants
  <2> SUFFICES ASSUME FanoutInv, FoldsAreFed, NEW a \in Agents, NEW i \in Iids, NEW m \in Feed(a, i)
               PROVE  \E n \in Positions :
                        /\ Log[n].iid = i
                        /\ m \in {Message(n, "fact"), Message(n, "revoked")}
                        /\ m.kind = "fact" => TakesPart(a, n)
                        /\ m.kind = "revoked" => Log[n].type = Left /\ Log[n].actor = a
    BY DEF OnlyParticipants
  <2>1. PICK n \in Positions : Source(n, a, i, m)
    BY DEF FanoutInv, Published, Feeds, Sound
  <2>2. CASE m = Message(n, "fact") /\ a \in Recipients(n)
    <3>1. m.kind = "fact" /\ TakesPart(a, n) /\ Log[n].iid = i
      BY <2>1, <2>2, RecipientsTakePart DEF Message, Source
    <3> QED BY <2>2, <3>1
  <2>3. CASE m = Message(n, "revoked") /\ Leaves(n, i, a)
    <3>1. m.kind = "revoked" /\ Log[n].iid = i /\ Log[n].type = Left /\ Log[n].actor = a
      BY <2>3 DEF Message, Leaves
    <3> QED BY <2>3, <3>1
  <2> QED BY <2>1, <2>2, <2>3 DEF Source
<1> QED BY <1>1, FanoutInvariance, PTL

\* A feed is in sequence order, each fact once and the marker right behind the
\* leave it is for, although facts are published again after every nak, crash and
\* takeover (the dedup ids, MaxAckPending=1, the order of fan-out and tombstone).
THEOREM FeedsAreInOrder == Timely /\ ~SlowReplay /\ Spec => []FeedInOrder
<1>1. FanoutInv => FeedInOrder
  BY DEF FanoutInv, Published, Feeds, Sorted, FeedInOrder
<1> QED BY <1>1, FanoutInvariance, PTL
=============================================================================
