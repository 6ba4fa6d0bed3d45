------------------------- MODULE InductionTheorems --------------------------
(***************************************************************************)
(* Induction over naturals, stated with sets instead of predicates, and    *)
(* what follows for functions defined by recursion over a range: they      *)
(* exist.                                                                  *)
(***************************************************************************)
EXTENDS Integers, WellFoundedInduction, TLAPS

\* A non-empty set of naturals has a least element.
LEMMA LeastElement ==
  ASSUME NEW T, T \subseteq Nat, T # {}
  PROVE  \E x \in T : \A y \in T : x <= y
<1>1. PICK R : /\ IsWellFoundedOn(R, Nat)
               /\ \A x, y \in Nat : (<<y, x>> \in R) <=> (y < x)
  <2> DEFINE R == OpToRel(<, Nat)
  <2>1. IsWellFoundedOn(R, Nat)
    BY NatLessThanWellFounded
  <2>2. \A x, y \in Nat : (<<y, x>> \in R) <=> (y < x)
    BY DEF OpToRel
  <2> HIDE DEF R
  <2> QED BY <2>1, <2>2
<1>2. \E x \in T : \A y \in T : ~(<<y, x>> \in R)
  BY <1>1, WFMin
<1>3. PICK x \in T : \A y \in T : ~(<<y, x>> \in R)
  BY <1>2
<1>4. \A y \in T : ~(y < x)
  BY <1>1, <1>3
<1> QED BY <1>4

\* A set that has the start of a range, and with a number of the range the
\* next one, has the whole range.
LEMMA RangeInduction ==
  ASSUME NEW S, NEW m \in Int, NEW n \in Int, m \in S,
         \A v \in (m + 1)..n : v - 1 \in S => v \in S
  PROVE  \A v \in m..n : v \in S
<1> SUFFICES ASSUME NEW w \in m..n, w \notin S
             PROVE  FALSE
  OBVIOUS
<1> DEFINE T == {k \in Nat : m + k <= n /\ m + k \notin S}
<1>1. w - m \in T
  OBVIOUS
<1>2. T \subseteq Nat /\ T # {}
  BY <1>1
<1>3. PICK k \in T : \A j \in T : k <= j
  BY <1>2, LeastElement
<1>4. k # 0
  BY <1>3
<1>5. k - 1 \in Nat /\ k - 1 \notin T
  BY <1>3, <1>4
<1>6. m + k - 1 \in S
  BY <1>3, <1>5
<1> QED BY <1>3, <1>4, <1>6

\* The recursion f[m] = base, f[v] = step[<<f[v - 1], v>>] up to n, with values
\* in X, and its solutions.
StepsOn(step, X, m, n) == step \in [X \X ((m + 1)..n) -> X]
Solution(f, X, base, step, m, n) ==
    /\ f \in [m..n -> X]
    /\ f[m] = base
    /\ \A v \in (m + 1)..n : f[v] = step[<<f[v - 1], v>>]

\* A recursion over a range has a solution.
LEMMA RecursionExists ==
  ASSUME NEW X, NEW base \in X, NEW m \in Int, NEW n \in Int, m <= n,
         NEW step, StepsOn(step, X, m, n)
  PROVE  \E f : Solution(f, X, base, step, m, n)
<1> DEFINE S == {k \in m..n : \E f : Solution(f, X, base, step, m, k)}
<1>1. m \in S
  <2>1. Solution([v \in m..m |-> base], X, base, step, m, m)
    BY DEF Solution
  <2> QED BY <2>1
<1>2. ASSUME NEW k \in (m + 1)..n, k - 1 \in S
      PROVE  k \in S
  <2>1. PICK f : Solution(f, X, base, step, m, k - 1)
    BY <1>2
  <2> DEFINE g == [v \in m..k |-> IF v = k THEN step[<<f[k - 1], k>>] ELSE f[v]]
  <2>2. step[<<f[k - 1], k>>] \in X
    BY <2>1 DEF Solution, StepsOn
  <2>3. g \in [m..k -> X]
    BY <2>1, <2>2 DEF Solution
  <2>4. g[k] = step[<<f[k - 1], k>>] /\ \A v \in m..(k - 1) : g[v] = f[v]
    OBVIOUS
  <2> HIDE DEF g
  <2>5. g[m] = base
    BY <2>1, <2>4 DEF Solution
  <2>6. ASSUME NEW v \in (m + 1)..k
        PROVE  g[v] = step[<<g[v - 1], v>>]
    <3>1. v - 1 \in m..(k - 1) /\ g[v - 1] = f[v - 1]
      BY <2>4
    <3>2. CASE v = k
      BY <2>4, <3>1, <3>2
    <3>3. CASE v # k
      <4>1. v \in (m + 1)..(k - 1) /\ v \in m..(k - 1)
        BY <3>3
      <4> QED BY <2>1, <2>4, <3>1, <4>1 DEF Solution
    <3> QED BY <3>2, <3>3
  <2>7. Solution(g, X, base, step, m, k)
    BY <2>3, <2>5, <2>6 DEF Solution
  <2> QED BY <2>7
<1> HIDE DEF S
<1>3. n \in S
  BY <1>1, <1>2, RangeInduction
<1> QED BY <1>3 DEF S
=============================================================================
