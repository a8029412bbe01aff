---------------------------- MODULE NodeAgentProofs ----------------------------
(***************************************************************************)
(* Evidence stays fresh through the tolerated failures, for every interval,  *)
(* timeout and lifetime that AgentAssumption admits, and the quotes that it   *)
(* rests on are genuine, for every platform and policy.                      *)
(*                                                                         *)
(* The inductive invariant bounds the age of the stored evidence by where    *)
(* the loop is: an attempt adds at most its timeout, a wait the interval, a  *)
(* failed attempt both, and a handler that was abandoned cannot store a row  *)
(* older than a timeout.                                                     *)
(*                                                                         *)
(* The checks of a quote compare sorted selections.  A list of indexes        *)
(* without duplicates has exactly one increasing rearrangement, so sorting    *)
(* is canonical, and equal digests mean equal values index by index.         *)
(***************************************************************************)
EXTENDS AgentEvidence, NaturalsInduction, WellFoundedInduction, TLAPS

\* The time that n attempts and waits take at most.
Span(n) == n * (Interval + Timeout)

\* A row in the hands of a handler is no older than the handler's context.
RowsYoung ==
    /\ pc = "handling" => row >= EvidenceTTL - (Timeout - left)
    /\ \A h \in late : h.row >= EvidenceTTL - (Timeout - h.left)

\* Evidence that was stored and kept is no older than the loop allows.
AgeBound ==
    /\ pc = "stored" => life >= EvidenceTTL - (2 * Timeout - left)
    /\ pc = "write" /\ ~failed => life >= EvidenceTTL - 2 * Timeout
    /\ failures <= Tolerated =>
        /\ pc \in Attempt => life >= EvidenceTTL - (Span(failures + 1) + 2 * Timeout - left)
        /\ pc = "write" => life >= EvidenceTTL - (Span(failures + 1) + 2 * Timeout)
        /\ pc = "wait" => life >= EvidenceTTL - (Span(failures) + 2 * Timeout + Interval - wait)

AgentInv ==
    /\ AgentTypeOK
    /\ RowsYoung
    /\ unbroken => pc # "exited" /\ AgeBound

--------------------------------------------------------------------------------
\* Each attempt and wait adds its own time.
LEMMA SpanStep == \A n \in Nat : Span(n) \in Nat /\ Span(n + 1) = Span(n) + Interval + Timeout
  BY AgentAssumption DEF Span

\* No failures, no time.
LEMMA SpanZero == Span(0) = 0
  BY AgentAssumption DEF Span

\* Fewer failures take no more time than the tolerated number.
LEMMA SpanTolerated == \A n \in Nat : n <= Tolerated => Span(n + 1) + 2 * Timeout < EvidenceTTL
<1> SUFFICES ASSUME NEW n \in Nat, n <= Tolerated
             PROVE  Span(n + 1) + 2 * Timeout < EvidenceTTL
  OBVIOUS
<1>1. Span(n + 1) <= Span(Tolerated + 1)
  <2> DEFINE p == Interval + Timeout
             d == Tolerated - n
  <2>1. p \in Nat /\ d \in Nat /\ Tolerated + 1 = (n + 1) + d
    BY AgentAssumption
  <2>2. ((n + 1) + d) * p = (n + 1) * p + d * p /\ d * p >= 0 /\ (n + 1) * p \in Nat
    BY <2>1
  <2> QED
    BY <2>1, <2>2 DEF Span
<1>2. Span(Tolerated + 1) + 2 * Timeout < EvidenceTTL
  BY AgentAssumption DEF Span
<1> QED
  BY <1>1, <1>2, SpanStep, AgentAssumption DEF EvidenceTTL

\* The accepted lifetime is a positive number that the broker's limit bounds.
LEMMA LifetimeType == EvidenceTTL \in Nat /\ EvidenceTTL <= BrokerTTL
  BY AgentAssumption DEF EvidenceTTL

--------------------------------------------------------------------------------
\* The agent's steps keep the types and the youth of rows.
LEMMA StepKeepsRows == AgentInv /\ AgentNext => AgentTypeOK' /\ RowsYoung'
<1> SUFFICES ASSUME AgentTypeOK, RowsYoung, AgentNext
             PROVE  AgentTypeOK' /\ RowsYoung'
  BY DEF AgentInv
<1> USE LifetimeType, AgentAssumption DEF AgentTypeOK, RowsYoung, Attempt, Pcs
<1>1. CASE ChallengeNodeEvidence BY <1>1 DEF ChallengeNodeEvidence
<1>2. CASE RequestChallenge BY <1>2 DEF RequestChallenge
<1>3. CASE CollectNodeEvidence BY <1>3 DEF CollectNodeEvidence
<1>4. CASE PublishNodeEvidence BY <1>4 DEF PublishNodeEvidence
<1>5. CASE PutEvidence BY <1>5 DEF PutEvidence
<1>6. CASE SubmitNodeEvidence BY <1>6, Zenon DEF SubmitNodeEvidence
<1>7. CASE AttemptFails BY <1>7 DEF AttemptFails, Abandoned
<1>8. CASE LatePut BY <1>8 DEF LatePut
<1>9. CASE WriteEvent
  <2>1. NextFailures \in 0..CountCap
    BY DEF NextFailures
  <2>2. unbroken' \in BOOLEAN
    BY <1>9, Zenon DEF WriteEvent, GivesUp
  <2>3. pc' \in Pcs /\ pc' # "handling" /\ wait' \in 0..Interval
    BY <1>9 DEF WriteEvent
  <2> QED
    BY <1>9, <2>1, <2>2, <2>3 DEF WriteEvent
<1>10. CASE WaitOver BY <1>10 DEF WaitOver
<1>11. CASE Exit
  <2>1. unbroken' \in BOOLEAN
    BY <1>11, Zenon DEF Exit
  <2> QED
    BY <1>11, <2>1 DEF Exit, Abandoned
<1>12. CASE Restart BY <1>12 DEF Restart
<1>13. CASE Outage BY <1>13 DEF Outage
<1>14. CASE EvidenceRemoved
  <2>1. unbroken' \in BOOLEAN
    BY <1>14, Zenon DEF EvidenceRemoved
  <2> QED
    BY <1>14, <2>1 DEF EvidenceRemoved
<1>15. CASE Tick
  <2>1. AgentTypeOK'
    BY <1>15 DEF Tick, Less
  <2>2. pc' = "handling" => row' >= EvidenceTTL - (Timeout - left')
    BY <1>15 DEF Tick, Less
  <2>3. \A h \in late' : h.row >= EvidenceTTL - (Timeout - h.left)
    BY <1>15 DEF Tick, Less
  <2> QED
    BY <2>1, <2>2, <2>3, Zenon
<1> QED
  BY <1>1, <1>2, <1>3, <1>4, <1>5, <1>6, <1>7, <1>8, <1>9, <1>10, <1>11, <1>12, <1>13,
     <1>14, <1>15 DEF AgentNext, AgentStep

\* The agent's steps keep the bound on the evidence's age.
LEMMA StepKeepsAge == AgentInv /\ AgentNext => (unbroken => pc # "exited" /\ AgeBound)'
<1> SUFFICES ASSUME AgentInv, AgentNext, unbroken'
             PROVE  pc' # "exited" /\ AgeBound'
  OBVIOUS
<1>0. /\ Span(failures) \in Nat /\ Span(failures + 1) = Span(failures) + Interval + Timeout
      /\ failures \in Nat
  BY SpanStep DEF AgentInv, AgentTypeOK
<1> USE LifetimeType, AgentAssumption DEF AgentInv, AgentTypeOK, RowsYoung, AgeBound, Attempt, Pcs
<1>1. CASE ChallengeNodeEvidence BY <1>0, <1>1 DEF ChallengeNodeEvidence
<1>2. CASE RequestChallenge BY <1>0, <1>2 DEF RequestChallenge
<1>3. CASE CollectNodeEvidence BY <1>0, <1>3 DEF CollectNodeEvidence
<1>4. CASE PublishNodeEvidence BY <1>0, <1>4 DEF PublishNodeEvidence
<1>5. CASE PutEvidence BY <1>0, <1>5 DEF PutEvidence
<1>6. CASE SubmitNodeEvidence BY <1>0, <1>6 DEF SubmitNodeEvidence
<1>7. CASE AttemptFails BY <1>0, <1>7 DEF AttemptFails
<1>8. CASE LatePut BY <1>0, <1>8 DEF LatePut
<1>9. CASE WriteEvent
  <2>0. /\ pc = "write" /\ pc' = "wait" /\ wait' = Interval /\ life' = life
        /\ failures' = NextFailures /\ unbroken
    <3>1. unbroken /\ ~GivesUp
      BY <1>9, Zenon DEF WriteEvent
    <3> QED
      BY <1>9, <3>1 DEF WriteEvent
  <2>1. CASE failed /\ failures < CountCap
    <3>1. failures' = failures + 1
      BY <2>0, <2>1 DEF NextFailures
    <3> QED
      BY <1>0, <2>0, <3>1
  <2>2. CASE ~failed
    <3>1. failures' = 0 /\ life >= EvidenceTTL - 2 * Timeout
      BY <2>0, <2>2 DEF NextFailures
    <3> QED
      BY <1>0, <2>0, <3>1, SpanZero
  <2>3. CASE failed /\ ~(failures < CountCap)
    <3>1. ~(failures' <= Tolerated)
      BY <1>0, <2>0, <2>3 DEF NextFailures
    <3> QED
      BY <1>0, <2>0, <3>1
  <2> QED
    BY <2>1, <2>2, <2>3
<1>10. CASE WaitOver BY <1>0, <1>10 DEF WaitOver
<1>11. CASE Exit BY <1>11 DEF Exit
<1>12. CASE Restart BY <1>12 DEF Restart
<1>13. CASE Outage BY <1>13 DEF Outage
<1>14. CASE EvidenceRemoved BY <1>14 DEF EvidenceRemoved
<1>15. CASE Tick BY <1>0, <1>15 DEF Tick, Less
<1> QED
  BY <1>1, <1>2, <1>3, <1>4, <1>5, <1>6, <1>7, <1>8, <1>9, <1>10, <1>11, <1>12, <1>13,
     <1>14, <1>15 DEF AgentNext, AgentStep

\* The bound on the age is inductive.
LEMMA AgentInductive == AgentInit /\ [][AgentNext]_agentVars => []AgentInv
<1>1. AgentInit => AgentInv
  <2> SUFFICES ASSUME AgentInit PROVE AgentInv
    OBVIOUS
  <2>0. failed \in BOOLEAN /\ unbroken \in BOOLEAN
    BY Zenon DEF AgentInit
  <2>1. AgentTypeOK
    BY <2>0, AgentAssumption DEF AgentInit, AgentTypeOK, Attempt, Pcs
  <2>2. RowsYoung /\ ~unbroken
    BY DEF AgentInit, RowsYoung
  <2> QED
    BY <2>1, <2>2 DEF AgentInv
<1>2. AgentInv /\ [AgentNext]_agentVars => AgentInv'
  <2> SUFFICES ASSUME AgentInv, [AgentNext]_agentVars PROVE AgentInv'
    OBVIOUS
  <2>1. CASE AgentNext
    BY <2>1, StepKeepsRows, StepKeepsAge DEF AgentInv
  <2>2. CASE UNCHANGED agentVars
    BY <2>2 DEF agentVars, AgentInv, AgentTypeOK, RowsYoung, AgeBound
  <2> QED
    BY <2>1, <2>2
<1> QED
  BY <1>1, <1>2, PTL

--------------------------------------------------------------------------------
\* Timers, counters and rows of the loop keep their ranges.
THEOREM AgentTypeCorrect == AgentSpec => []AgentTypeOK
<1>1. AgentInv => AgentTypeOK
  BY DEF AgentInv
<1> QED
  BY <1>1, AgentInductive, PTL DEF AgentSpec

\* Evidence that the loop stored stays fresh while at most the tolerated number
\* of attempts in a row fail, whatever the broker's answers and late handlers do.
THEOREM EvidenceStaysFresh == AgentSpec => []FreshWhileTolerable
<1>1. AgentInv => FreshWhileTolerable
  <2> SUFFICES ASSUME AgentInv, unbroken, failures <= Tolerated
               PROVE  life > 0
    BY DEF FreshWhileTolerable
  <2>1. failures \in Nat /\ Span(failures) \in Nat
        /\ Span(failures + 1) = Span(failures) + Interval + Timeout
        /\ Span(failures + 1) + 2 * Timeout < EvidenceTTL
    BY SpanStep, SpanTolerated DEF AgentInv, AgentTypeOK
  <2> QED
    BY <2>1, LifetimeType, AgentAssumption DEF AgentInv, AgentTypeOK, AgeBound, Attempt, Pcs
<1> QED
  BY <1>1, AgentInductive, PTL DEF AgentSpec

--------------------------------------------------------------------------------
(* Sorting PCR indexes *)

\* A non-empty set of naturals has a least element.
LEMMA LeastElement ==
  ASSUME NEW S, S \subseteq Nat, S # {}
  PROVE  \E x \in S : \A y \in S : x <= y
<1>1. PICK R : R = OpToRel(<, Nat)
  BY Zenon
<1>2. IsWellFoundedOn(R, Nat)
  BY <1>1, NatLessThanWellFounded, Zenon
<1>3. PICK x \in S : \A y \in S : ~(<<y, x>> \in R)
  BY <1>2, WFMin, Zenon
<1>4. \A y \in S : ~(y < x)
  BY <1>1, <1>3, Zenon DEF OpToRel
<1> QED
  BY <1>4

\* Indexes are bounded, so a non-empty set of them has a greatest element.
LEMMA GreatestElement ==
  ASSUME NEW S, S \subseteq 0..23, S # {}
  PROVE  \E x \in S : \A y \in S : y <= x
<1>1. PICK T : T = {23 - x : x \in S}
  BY Zenon
<1>2. T \subseteq Nat /\ T # {}
  <2>1. ASSUME NEW t \in T
        PROVE  t \in Nat
    BY <1>1
  <2>2. PICK x \in S : TRUE
    BY Zenon
  <2>3. 23 - x \in T
    BY <1>1
  <2> QED
    BY <2>1, <2>3
<1>3. PICK t \in T : \A u \in T : t <= u
  BY <1>2, LeastElement, Zenon
<1>4. PICK x \in S : t = 23 - x
  BY <1>1
<1>5. ASSUME NEW y \in S
      PROVE  y <= x
  <2>1. 23 - y \in T
    BY <1>1, Zenon
  <2>2. 23 - x <= 23 - y
    BY <2>1, <1>3, <1>4
  <2> QED
    BY <2>2
<1> QED
  BY <1>5

\* f lists S: every element once.
Lists(f, n, S) ==
    /\ f \in [1..n -> S]
    /\ Range(f) = S
    /\ \A i, j \in 1..n : f[i] = f[j] => i = j

\* Without its greatest element, a list is one shorter.
LEMMA ListWithout ==
  ASSUME NEW n \in Nat, NEW S, NEW f, Lists(f, n + 1, S), NEW m \in S
  PROVE  \E g : Lists(g, n, S \ {m})
<1>1. PICK k \in 1..(n + 1) : f[k] = m
  BY DEF Lists, Range
<1>2. PICK g : g = [i \in 1..n |-> IF i < k THEN f[i] ELSE f[i + 1]]
  BY Zenon
<1>3. \A i \in 1..n : g[i] \in S \ {m}
  BY <1>1, <1>2 DEF Lists
<1>4. \A i, j \in 1..n : g[i] = g[j] => i = j
  BY <1>1, <1>2 DEF Lists
<1>5. ASSUME NEW x \in S \ {m}
      PROVE  \E i \in 1..n : g[i] = x
  <2>1. PICK j \in 1..(n + 1) : f[j] = x
    BY DEF Lists, Range
  <2>2. j # k
    BY <1>1, <2>1
  <2>3. CASE j < k
    BY <2>1, <2>3, <1>1, <1>2
  <2>4. CASE j > k
    <3>1. j - 1 \in 1..n /\ ~(j - 1 < k) /\ (j - 1) + 1 = j
      BY <2>4, <1>1
    <3>2. g[j - 1] = f[j]
      BY <3>1, <1>2
    <3> QED
      BY <3>1, <3>2, <2>1
  <2> QED
    BY <2>2, <2>3, <2>4
<1>6. g \in [1..n -> S \ {m}]
  BY <1>2, <1>3
<1>7. Range(g) = S \ {m}
  BY <1>6, <1>5 DEF Range
<1> QED
  BY <1>4, <1>6, <1>7 DEF Lists

\* A greater element extends a sorted list.
LEMMA ListExtended ==
  ASSUME NEW n \in Nat, NEW S, S \subseteq Int, NEW m \in S,
         \A y \in S : y <= m,
         NEW t, Lists(t, n, S \ {m}), Increasing(t)
  PROVE  \E u : Lists(u, n + 1, S) /\ Increasing(u)
<1>1. PICK u : u = [i \in 1..(n + 1) |-> IF i = n + 1 THEN m ELSE t[i]]
  BY Zenon
<1>2. \A i \in 1..n : u[i] = t[i] /\ t[i] \in S \ {m} /\ u[i] < m
  <2> SUFFICES ASSUME NEW i \in 1..n
               PROVE  u[i] = t[i] /\ t[i] \in S \ {m} /\ u[i] < m
    OBVIOUS
  <2>1. u[i] = t[i]
    BY <1>1
  <2>2. t[i] \in S \ {m}
    BY DEF Lists
  <2>3. t[i] <= m /\ t[i] # m /\ t[i] \in Int /\ m \in Int
    BY <2>2, Zenon
  <2> QED
    BY <2>1, <2>2, <2>3
<1>3. u[n + 1] = m /\ n + 1 \in 1..(n + 1)
  BY <1>1
<1>4. u \in [1..(n + 1) -> S]
  BY <1>1, <1>2, <1>3
<1>5. Range(u) = S
  <2>1. ASSUME NEW x \in S
        PROVE  \E i \in 1..(n + 1) : u[i] = x
    <3>1. CASE x = m
      BY <1>3, <3>1
    <3>2. CASE x # m
      <4>1. PICK i \in 1..n : t[i] = x
        BY <3>2 DEF Lists, Range
      <4> QED
        BY <4>1, <1>2
    <3> QED
      BY <3>1, <3>2
  <2> QED
    BY <2>1, <1>4, Zenon DEF Range
<1>6. \A i, j \in 1..(n + 1) : i < j => u[i] < u[j]
  <2> SUFFICES ASSUME NEW i \in 1..(n + 1), NEW j \in 1..(n + 1), i < j
               PROVE  u[i] < u[j]
    OBVIOUS
  <2>1. i \in 1..n
    OBVIOUS
  <2>2. CASE j = n + 1
    BY <2>1, <2>2, <1>2, <1>3
  <2>3. CASE j \in 1..n
    <3>1. DOMAIN t = 1..n
      BY DEF Lists
    <3>2. t[i] < t[j]
      BY <2>1, <2>3, <3>1 DEF Increasing
    <3> QED
      BY <3>2, <2>1, <2>3, <1>2
  <2> QED
    BY <2>2, <2>3
<1>7. \A i, j \in 1..(n + 1) : u[i] = u[j] => i = j
  <2>1. \A i \in 1..(n + 1) : u[i] \in Int
    BY <1>4, Zenon
  <2> QED
    BY <2>1, <1>6
<1>8. Increasing(u)
  BY <1>4, <1>6 DEF Increasing
<1> QED
  BY <1>4, <1>5, <1>7, <1>8 DEF Lists

\* Every set of indexes that can be listed can be listed in order.
LEMMA SortedListExists ==
  ASSUME NEW n \in Nat, NEW S, S \subseteq 0..23, NEW f, Lists(f, n, S)
  PROVE  \E t : Lists(t, n, S) /\ Increasing(t)
<1> DEFINE Sortable(k) ==
      \A T \in SUBSET (0..23) : (\E g : Lists(g, k, T)) => \E t : Lists(t, k, T) /\ Increasing(t)
<1> SUFFICES ASSUME ~ Sortable(n)
             PROVE  FALSE
  BY Zenon
<1>1. PICK K : K = {k \in Nat : ~ Sortable(k)}
  BY Zenon
<1>2. PICK k \in K : \A j \in K : k <= j
  <2>1. K \subseteq Nat /\ K # {}
    BY <1>1
  <2> QED
    BY <2>1, LeastElement, Zenon
<1>3. k \in Nat /\ ~ Sortable(k)
  BY <1>1, <1>2
<1>4a. PICK T \in SUBSET (0..23) :
         (\E g : Lists(g, k, T)) /\ ~ \E t : Lists(t, k, T) /\ Increasing(t)
  BY <1>3
<1>4. PICK g : Lists(g, k, T) /\ ~ \E t : Lists(t, k, T) /\ Increasing(t)
  BY <1>4a
<1>5. k # 0
  <2> SUFFICES ASSUME k = 0
               PROVE  FALSE
    OBVIOUS
  <2>1. Increasing(g)
    BY <1>4 DEF Lists, Increasing
  <2> QED
    BY <2>1, <1>4
<1>6. k - 1 \in Nat /\ (k - 1) + 1 = k
  BY <1>3, <1>5
<1>7. T # {}
  <2>1. g[1] \in T
    BY <1>3, <1>4, <1>5 DEF Lists
  <2> QED
    BY <2>1
<1>8. PICK m \in T : \A y \in T : y <= m
  BY <1>4, <1>7, GreatestElement, Zenon
<1>9. PICK h : Lists(h, k - 1, T \ {m})
  BY <1>4, <1>6, <1>8, ListWithout, Zenon
<1>10. k - 1 \notin K
  BY <1>2, <1>6
<1>11. Sortable(k - 1)
  BY <1>1, <1>6, <1>10
<1>12. PICK t : Lists(t, k - 1, T \ {m}) /\ Increasing(t)
  BY <1>9, <1>11
<1>13. \E u : Lists(u, (k - 1) + 1, T) /\ Increasing(u)
  <2>1. T \subseteq Int
    BY <1>4
  <2> QED
    BY <2>1, <1>6, <1>8, <1>12, ListExtended, Zenon
<1> QED
  BY <1>4, <1>6, <1>13

\* A set of integers has one increasing list.
LEMMA SortedListUnique ==
  ASSUME NEW n \in Nat, NEW m \in Nat, NEW t \in [1..n -> Int], NEW u \in [1..m -> Int],
         Increasing(t), Increasing(u), Range(t) = Range(u)
  PROVE  n = m /\ t = u
<1>1. \A i, j \in 1..n : i < j => t[i] < t[j]
  BY DEF Increasing
<1>2. \A i, j \in 1..m : i < j => u[i] < u[j]
  BY DEF Increasing
<1>3. \A i \in 1..n : \E j \in 1..m : t[i] = u[j]
  BY Zenon DEF Range
<1>4. \A j \in 1..m : \E i \in 1..n : t[i] = u[j]
  BY Zenon DEF Range
<1>5. \A i \in (1..n) \intersect (1..m) : t[i] = u[i]
  <2> SUFFICES ASSUME NEW e \in (1..n) \intersect (1..m), t[e] # u[e]
               PROVE  FALSE
    OBVIOUS
  <2>1. PICK D : D = {i \in (1..n) \intersect (1..m) : t[i] # u[i]}
    BY Zenon
  <2>2. D \subseteq Nat /\ D # {}
    BY <2>1
  <2>3. PICK d \in D : \A i \in D : d <= i
    BY <2>2, LeastElement, Zenon
  <2>4. d \in 1..n /\ d \in 1..m /\ t[d] # u[d]
    BY <2>1
  <2>5. \A i \in 1..n : i < d => i \in 1..m /\ t[i] = u[i]
    BY <2>1, <2>3, <2>4
  <2>6. \A i \in 1..m : i < d => i \in 1..n /\ t[i] = u[i]
    BY <2>1, <2>3, <2>4
  <2>7. t[d] \in Int /\ u[d] \in Int
    BY <2>4
  <2>8. CASE t[d] < u[d]
    <3>1. PICK j \in 1..m : t[d] = u[j]
      BY <2>4, <1>3
    <3>2. CASE j < d
      <4>1. j \in 1..n /\ t[j] = t[d]
        BY <3>1, <3>2, <2>6
      <4>2. t[j] < t[d]
        BY <4>1, <3>2, <2>4, <1>1
      <4> QED
        BY <4>1, <4>2, <2>7
    <3>3. CASE j = d
      BY <3>1, <3>3, <2>4
    <3>4. CASE d < j
      <4>1. u[d] < u[j]
        BY <3>4, <2>4, <1>2
      <4> QED
        BY <4>1, <3>1, <2>7, <2>8
    <3> QED
      BY <3>2, <3>3, <3>4, <2>4
  <2>9. CASE u[d] < t[d]
    <3>1. PICK j \in 1..n : t[j] = u[d]
      BY <2>4, <1>4
    <3>2. CASE j < d
      <4>1. j \in 1..m /\ u[j] = u[d]
        BY <3>1, <3>2, <2>5
      <4>2. u[j] < u[d]
        BY <4>1, <3>2, <2>4, <1>2
      <4> QED
        BY <4>1, <4>2, <2>7
    <3>3. CASE j = d
      BY <3>1, <3>3, <2>4
    <3>4. CASE d < j
      <4>1. t[d] < t[j]
        BY <3>4, <2>4, <1>1
      <4> QED
        BY <4>1, <3>1, <2>7, <2>9
    <3> QED
      BY <3>2, <3>3, <3>4, <2>4
  <2> QED
    BY <2>4, <2>7, <2>8, <2>9
<1>6. ~(n < m)
  <2> SUFFICES ASSUME n < m
               PROVE  FALSE
    OBVIOUS
  <2>1. n + 1 \in 1..m
    OBVIOUS
  <2>2. PICK i \in 1..n : t[i] = u[n + 1]
    BY <2>1, <1>4
  <2>3. i \in 1..m /\ i < n + 1 /\ t[i] = u[i]
    BY <2>2, <1>5
  <2>4. u[i] < u[n + 1] /\ u[i] \in Int /\ u[n + 1] \in Int
    BY <2>1, <2>3, <1>2
  <2> QED
    BY <2>2, <2>3, <2>4
<1>7. ~(m < n)
  <2> SUFFICES ASSUME m < n
               PROVE  FALSE
    OBVIOUS
  <2>1. m + 1 \in 1..n
    OBVIOUS
  <2>2. PICK i \in 1..m : t[m + 1] = u[i]
    BY <2>1, <1>3
  <2>3. i \in 1..n /\ i < m + 1 /\ t[i] = u[i]
    BY <2>2, <1>5
  <2>4. t[i] < t[m + 1] /\ t[i] \in Int /\ t[m + 1] \in Int
    BY <2>1, <2>3, <1>1
  <2> QED
    BY <2>2, <2>3, <2>4
<1>8. n = m
  BY <1>6, <1>7
<1> QED
  BY <1>5, <1>8

\* What a selection that can be normalised lists.
LEMMA SortSorts ==
  ASSUME NEW s, s \in Seq(Int),
         \A i \in DOMAIN s : s[i] \in 0..23,
         \A i, j \in DOMAIN s : s[i] = s[j] => i = j
  PROVE  /\ Sort(s) \in Seq(Int)
         /\ DOMAIN Sort(s) = DOMAIN s
         /\ Increasing(Sort(s))
         /\ Range(Sort(s)) = Range(s)
<1>1. PICK n \in Nat : n = Len(s)
  OBVIOUS
<1>2. s \in [1..n -> Range(s)] /\ DOMAIN s = 1..n
  BY <1>1 DEF Range
<1>3. Range(s) \subseteq 0..23
  BY DEF Range
<1>4. Lists(s, n, Range(s))
  BY <1>2, Zenon DEF Lists
<1>5. PICK t : Lists(t, n, Range(s)) /\ Increasing(t)
  BY <1>3, <1>4, SortedListExists
<1>6. /\ t \in [DOMAIN s -> Range(s)]
      /\ Increasing(t) /\ Range(t) = Range(s)
  BY <1>2, <1>5 DEF Lists
<1>7. PICK u : u = Sort(s)
  BY Zenon
<1>8. u \in [DOMAIN s -> Range(s)] /\ Increasing(u) /\ Range(u) = Range(s)
  BY <1>6, <1>7, Zenon DEF Sort
<1>9. u \in [1..n -> Int] /\ DOMAIN u = DOMAIN s
  <2>1. PICK S : S = Range(s)
    BY Zenon
  <2>2. S \subseteq 0..23
    BY <2>1, <1>3, Zenon
  <2>3. u \in [1..n -> S] /\ DOMAIN u = DOMAIN s
    BY <2>1, <1>2, <1>8, Zenon
  <2>4. DOMAIN u = 1..n /\ u = [i \in 1..n |-> u[i]] /\ \A i \in 1..n : u[i] \in S
    BY <2>3, Zenon
  <2>4a. \A x \in S : x \in Int
    BY <2>2
  <2>5. \A i \in 1..n : u[i] \in Int
    BY <2>4, <2>4a, Zenon
  <2> QED
    BY <2>3, <2>4, <2>5, Zenon
<1>10. u \in Seq(Int)
  BY <1>9
<1> QED
  BY <1>7, <1>8, <1>9, <1>10, Zenon

\* Sorting again changes nothing, and only the indexes matter.
LEMMA SortCanonical ==
  ASSUME NEW s, s \in Seq(Int), NEW t, t \in Seq(Int),
         \A i \in DOMAIN s : s[i] \in 0..23,
         \A i, j \in DOMAIN s : s[i] = s[j] => i = j,
         Increasing(t), Range(t) = Range(s)
  PROVE  t = Sort(s)
<1>1. /\ Sort(s) \in Seq(Int)
      /\ Increasing(Sort(s))
      /\ Range(Sort(s)) = Range(s)
  BY SortSorts
<1>2. PICK n \in Nat : t \in [1..n -> Int]
  OBVIOUS
<1>3. PICK u : u = Sort(s)
  OBVIOUS
<1>4. PICK m \in Nat : u \in [1..m -> Int]
  BY <1>1, <1>3
<1>5. t = u
  BY <1>1, <1>2, <1>3, <1>4, SortedListUnique, Zenon
<1> QED
  BY <1>3, <1>5


--------------------------------------------------------------------------------
(* Selections and quotes *)

\* A selection without error is normalised to the one sorted selection of its
\* indexes.
LEMMA NormalizeFacts ==
  ASSUME NEW s, s.pcrs \in Seq(Int), Selectable(s), NEW n, n = Normalize(s)
  PROVE  /\ n.hash = "sha256" /\ HashName(n) = "sha256"
         /\ n.pcrs \in Seq(Int)
         /\ DOMAIN n.pcrs = DOMAIN s.pcrs
         /\ Increasing(n.pcrs)
         /\ Range(n.pcrs) = Range(s.pcrs)
         /\ Selectable(n)
         /\ n.pcrs = Sort(n.pcrs)
         /\ Normalize(n) = n
<1>1. PICK p : p = s.pcrs
  BY Zenon
<1>2. /\ p \in Seq(Int) /\ p # <<>>
      /\ \A i \in DOMAIN p : p[i] \in 0..23
      /\ \A i, j \in DOMAIN p : p[i] = p[j] => i = j
  BY <1>1 DEF Selectable
<1>3. PICK q : q = Sort(p)
  BY Zenon
<1>4. q \in Seq(Int) /\ DOMAIN q = DOMAIN p /\ Increasing(q) /\ Range(q) = Range(p)
  BY <1>2, <1>3, SortSorts
<1>5. n = [hash |-> "sha256", pcrs |-> q]
  BY <1>1, <1>3 DEF Normalize, Selectable
<1>6. n.hash = "sha256" /\ n.pcrs = q /\ HashName(n) = "sha256"
  BY <1>5 DEF HashName, ToLower
<1>7. \A i \in DOMAIN q : q[i] \in 0..23
  <2> TAKE i \in DOMAIN q
  <2>1. q[i] \in Range(p)
    BY <1>4, Zenon DEF Range
  <2> QED
    BY <2>1, <1>2 DEF Range
<1>8. \A i, j \in DOMAIN q : q[i] = q[j] => i = j
  <2> SUFFICES ASSUME NEW i \in DOMAIN q, NEW j \in DOMAIN q, q[i] = q[j]
               PROVE  i = j
    OBVIOUS
  <2>1. i \in Int /\ j \in Int /\ q[i] \in Int /\ q[j] \in Int
    BY <1>4
  <2>2. (i < j => q[i] < q[j]) /\ (j < i => q[j] < q[i])
    BY <1>4 DEF Increasing
  <2> QED
    BY <2>1, <2>2
<1>9. q # <<>>
  <2>1. 1 \in DOMAIN p
    BY <1>2
  <2> QED
    BY <2>1, <1>4
<1>10. Selectable(n)
  BY <1>6, <1>7, <1>8, <1>9 DEF Selectable
<1>11. q = Sort(q)
  BY <1>4, <1>7, <1>8, SortCanonical
<1>12. Normalize(n) = n
  BY <1>5, <1>6, <1>11 DEF Normalize
<1> QED
  BY <1>1, <1>4, <1>6, <1>10, <1>11, <1>12

\* Selections of the same indexes are normalised to the same selection.
LEMMA NormalizeCanonical ==
  ASSUME NEW s, s.pcrs \in Seq(Int), Selectable(s),
         NEW t, t.pcrs \in Seq(Int), Selectable(t), Range(s.pcrs) = Range(t.pcrs)
  PROVE  Normalize(s) = Normalize(t)
<1>1. PICK n, m : n = Normalize(s) /\ m = Normalize(t)
  BY Zenon
<1>2. n.pcrs \in Seq(Int) /\ Increasing(n.pcrs) /\ Range(n.pcrs) = Range(t.pcrs)
  BY <1>1, NormalizeFacts
<1>3. n.pcrs = Sort(t.pcrs)
  <2>1. PICK p : p = t.pcrs
    BY Zenon
  <2>2. /\ p \in Seq(Int)
        /\ \A i \in DOMAIN p : p[i] \in 0..23
        /\ \A i, j \in DOMAIN p : p[i] = p[j] => i = j
    BY <2>1 DEF Selectable
  <2> QED
    BY <1>2, <2>1, <2>2, SortCanonical, Zenon
<1> QED
  BY <1>1, <1>3 DEF Normalize, Selectable

\* The selections that agents quote.
LEMMA QuotableFacts ==
  ASSUME NEW s \in Quotable
  PROVE  s.pcrs \in Seq(Int) /\ Selectable(s) /\ Range(s.pcrs) \subseteq Pcrs
BY QuoteAssumption DEF Quotable, Selections

\* The fields of evidence e that was collected with these arguments.
Holds(e, ak, nonce, s, boot, later) ==
    /\ e.id = nonce /\ e.nonceHash = nonce /\ e.ak = ak
    /\ e.selection = Normalize(s)
    /\ e.values = [pcr \in Range(s.pcrs) |-> later[pcr]]
    /\ e.quote.signer = ak /\ e.quote.nonce = nonce /\ e.quote.boot = boot
    /\ e.quote.selection = Normalize(s)
    /\ e.quote.digest = ComputePCRDigest(Normalize(s), boot)

\* A quote reads in the order of the indexes, so its selection is normalised.
LEMMA CollectedFacts ==
  ASSUME NEW ak, NEW nonce, NEW s \in Quotable, NEW boot, NEW later
  PROVE  Holds(CollectQuote(ak, nonce, s, boot, later), ak, nonce, s, boot, later)
<1>0. PICK e : e = CollectQuote(ak, nonce, s, boot, later)
  BY Zenon
<1>1. PICK n : n = Normalize(s)
  BY Zenon
<1>2. n.pcrs = Sort(n.pcrs)
  BY <1>1, QuotableFacts, NormalizeFacts
<1>3. n = [hash |-> n.hash, pcrs |-> n.pcrs]
  BY <1>1 DEF Normalize
<1>4. Attest(ak, nonce, n, boot) =
        [signer |-> ak, nonce |-> nonce, selection |-> n,
         digest |-> ComputePCRDigest(n, boot), boot |-> boot]
  BY <1>2, <1>3, Zenon DEF Attest
<1>5. e = [id |-> nonce, nonceHash |-> nonce, ak |-> ak,
           quote |-> Attest(ak, nonce, n, boot), selection |-> n,
           values |-> [pcr \in Range(s.pcrs) |-> later[pcr]]]
  BY <1>0, <1>1, Zenon DEF CollectQuote, Restrict
<1>6. Holds(e, ak, nonce, s, boot, later)
  BY <1>1, <1>4, <1>5 DEF Holds
<1> QED
  BY <1>0, <1>6, Zenon


\* Collected evidence and its quote have one normalised selection.
LEMMA CollectedSelection ==
  ASSUME NEW e \in Collected
  PROVE  \E s \in Quotable :
            /\ e.selection = Normalize(s)
            /\ e.quote.selection = Normalize(s)
            /\ e.quote.digest = ComputePCRDigest(Normalize(s), e.quote.boot)
<1>1. PICK c \in Collections : e = CollectQuote(c.ak, c.nonce, c.selection, c.boot, c.later)
  BY DEF Collected
<1>2. PICK s, ak, nonce, boot, later :
        s = c.selection /\ ak = c.ak /\ nonce = c.nonce /\ boot = c.boot /\ later = c.later
  BY Zenon
<1>3. s \in Quotable
  BY <1>2 DEF Collections
<1>4. e = CollectQuote(ak, nonce, s, boot, later)
  BY <1>1, <1>2, Zenon
<1>5. /\ e.selection = Normalize(s)
      /\ e.quote.boot = boot
      /\ e.quote.selection = Normalize(s)
      /\ e.quote.digest = ComputePCRDigest(Normalize(s), boot)
  <2>1. Holds(e, ak, nonce, s, boot, later)
    BY <1>3, <1>4, CollectedFacts, Zenon
  <2> QED
    BY <2>1, Zenon DEF Holds
<1> QED
  BY <1>3, <1>5, Zenon

\* Another quote leaves the rest of the evidence as it was collected.
LEMMA CollectedFields ==
  ASSUME NEW own \in Collected, NEW q, NEW e, e = [own EXCEPT !.quote = q]
  PROVE  e.selection = own.selection /\ e.values = own.values /\ e.ak = own.ak /\ e.quote = q
<1>1. PICK c \in Collections : own = CollectQuote(c.ak, c.nonce, c.selection, c.boot, c.later)
  BY DEF Collected
<1> QED
  BY <1>1 DEF CollectQuote

\* Evidence that verifies has a quote of its own indexes, and the values it
\* carries are the quoted ones.
LEMMA VerifiedQuote ==
  ASSUME NEW s \in Quotable, NEW t \in Quotable, NEW boot, NEW nonce, NEW e,
         e.selection = Normalize(s),
         e.quote.selection = Normalize(t),
         e.quote.digest = ComputePCRDigest(Normalize(t), boot),
         VerifyQuote(e, nonce)
  PROVE  /\ Normalize(e.selection) = e.selection
         /\ e.quote.selection.pcrs = e.selection.pcrs
         /\ \A i \in DOMAIN e.selection.pcrs :
                boot[e.selection.pcrs[i]] = e.values[e.selection.pcrs[i]]
<1>1. PICK n, m : n = Normalize(s) /\ m = Normalize(t)
  BY Zenon
<1>2. Normalize(n) = n /\ Normalize(m) = m
  BY <1>1, QuotableFacts, NormalizeFacts
<1>3. m.pcrs = n.pcrs /\ ComputePCRDigest(m, boot) = ComputePCRDigest(n, e.values)
  BY <1>1, <1>2, Zenon DEF VerifyQuote, verifyAttestedPCRs, sameSelection
<1>4. ComputePCRDigest(m, boot).of = ComputePCRDigest(n, e.values).of
  BY <1>3, ZenonT(30)
<1>5. [i \in DOMAIN n.pcrs |-> boot[n.pcrs[i]]] = [i \in DOMAIN n.pcrs |-> e.values[n.pcrs[i]]]
  BY <1>3, <1>4 DEF ComputePCRDigest
<1>6. ASSUME NEW i \in DOMAIN n.pcrs
      PROVE  boot[n.pcrs[i]] = e.values[n.pcrs[i]]
  BY <1>5, Zenon
<1>7. e.selection = n /\ e.quote.selection = m
  BY <1>1
<1> QED
  BY <1>2, <1>3, <1>6, <1>7, Zenon

\* AcceptedQuotesAreGenuine, for every platform, policy and combination of
\* collected evidence: EvaluatePolicy accepts nothing but a quote of the
\* enrolled AK over this nonce, made in a boot state that meets the policy.
THEOREM QuotesAreGenuine == AcceptedQuotesAreGenuine
<1> SUFFICES ASSUME NEW policy \in Policies, NEW p \in Passing, NEW e, NEW nonce,
                    e = p[1], nonce = p[2], EvaluatePolicy(e, nonce, policy)
             PROVE  /\ e.quote.signer = policy.ak
                    /\ e.quote.nonce = nonce
                    /\ policy.mode # "measured"
                    /\ policy.mode = "secureboot" =>
                          contains(policy.pcr.selection, 7) /\ Meets(e.quote.boot, policy.pcr)
  BY Zenon DEF AcceptedQuotesAreGenuine
<1>1. e \in Mixed /\ VerifyQuote(e, nonce)
  BY DEF Passing
<1>2. PICK r \in Collected \X Collected : e = [r[1] EXCEPT !.quote = r[2].quote]
  BY <1>1, Zenon DEF Mixed
<1>3. PICK own \in Collected, other \in Collected : e = [own EXCEPT !.quote = other.quote]
  BY <1>2, Zenon
<1>4. PICK s \in Quotable : own.selection = Normalize(s)
  BY CollectedSelection
<1>5. PICK t \in Quotable : /\ other.quote.selection = Normalize(t)
                            /\ other.quote.digest = ComputePCRDigest(Normalize(t), other.quote.boot)
  BY CollectedSelection
<1>6. PICK boot : boot = other.quote.boot
  BY Zenon
<1>7. e.selection = own.selection /\ e.values = own.values /\ e.ak = own.ak /\ e.quote = other.quote
  BY <1>3, CollectedFields
<1>8. /\ e.selection = Normalize(s)
      /\ e.quote.selection = Normalize(t)
      /\ e.quote.digest = ComputePCRDigest(Normalize(t), boot)
      /\ e.quote.boot = boot
  BY <1>4, <1>5, <1>6, <1>7, ZenonT(30)
<1>9. /\ Normalize(e.selection) = e.selection
      /\ \A i \in DOMAIN e.selection.pcrs :
             boot[e.selection.pcrs[i]] = e.values[e.selection.pcrs[i]]
  BY <1>1, <1>8, VerifiedQuote, SMTT(30)
<1>10. e.quote.signer = policy.ak /\ e.quote.nonce = nonce /\ policy.mode # "measured"
  BY <1>1 DEF EvaluatePolicy, VerifyQuote, verifyAKSignature, verifyAttestation
<1>11. ASSUME policy.mode = "secureboot"
       PROVE  contains(policy.pcr.selection, 7) /\ Meets(boot, policy.pcr)
  <2>1. contains(policy.pcr.selection, 7)
    BY <1>11, Zenon DEF EvaluatePolicy, PolicyValid
  <2>2. verifySecureBootPolicy(QuoteClaims(e), policy.pcr)
    BY <1>11, SMTT(30) DEF EvaluatePolicy
  <2>3. /\ policy.pcr.selection.pcrs = e.selection.pcrs
        /\ policy.pcr.digest.of = ComputePCRDigest(e.selection, e.values).of
    BY <2>2, <1>9, SMTT(30) DEF verifySecureBootPolicy, QuoteClaims, sameSelection
  <2>4. policy.pcr.digest.of = [i \in DOMAIN e.selection.pcrs |-> e.values[e.selection.pcrs[i]]]
    BY <2>3, SMTT(30) DEF ComputePCRDigest
  <2>5. Meets(boot, policy.pcr)
    BY <2>3, <2>4, <1>9, ZenonT(30) DEF Meets
  <2> QED
    BY <2>1, <2>5
<1> QED
  BY <1>8, <1>10, <1>11, Zenon


\* A canonical selection is its own normalisation, and conversely.
LEMMA CanonicalNormalized ==
  ASSUME NEW s, s.pcrs \in Seq(Int), Selectable(s), NEW n, n = Normalize(s)
  PROVE  Canonical(s) <=> s.hash = n.hash /\ s.pcrs = n.pcrs
<1>1. n.hash = "sha256" /\ Increasing(n.pcrs)
  BY NormalizeFacts
<1>2. ASSUME Increasing(s.pcrs) PROVE s.pcrs = n.pcrs
  <2>1. PICK p : p = s.pcrs
    BY Zenon
  <2>2. /\ p \in Seq(Int) /\ Increasing(p)
        /\ \A i \in DOMAIN p : p[i] \in 0..23
        /\ \A i, j \in DOMAIN p : p[i] = p[j] => i = j
    BY <2>1, <1>2 DEF Selectable
  <2>3. p = Sort(p)
    BY <2>2, SortCanonical, Zenon
  <2> QED
    BY <2>1, <2>3 DEF Normalize
<1> QED
  BY <1>1, <1>2, Zenon DEF Canonical

\* HealthyNodesAreAccepted, for every platform, policy and order of the
\* indexes: under a policy captured from one boot state, verifyTPMNodeEvidence-
\* Submission accepts exactly the nodes that quote the policy's PCRs with the
\* captured values, and none of them if the policy is not spelled canonically.
THEOREM HealthyNodesPass == HealthyNodesAreAccepted
<1> SUFFICES ASSUME NEW ak \in AKs, NEW nonce \in Nonces, NEW good \in BootStates,
                    NEW boot \in BootStates, NEW later \in BootStates,
                    NEW s \in Quotable, NEW t \in Quotable, NEW h \in Spellings, contains(s, 7)
             PROVE  LET pcr == EnrolledPCRPolicy(s, h, good)
                        policy == [mode |-> "secureboot", ak |-> ak, pcr |-> pcr]
                    IN  /\ PolicyValid(policy)
                        /\ verifyTPMNodeEvidenceSubmission(
                              SubmissionOf(CollectQuote(ak, nonce, t, boot, later)), nonce,
                              EnrollmentOf(policy))
                           <=> /\ Canonical(s) /\ h = "sha256"
                               /\ Range(t.pcrs) = Range(s.pcrs)
                               /\ \A i \in Range(s.pcrs) : boot[i] = good[i] /\ later[i] = good[i]
  BY Zenon DEF HealthyNodesAreAccepted
<1>0. PICK e, pol, policy :
        /\ e = CollectQuote(ak, nonce, t, boot, later)
        /\ pol = EnrolledPCRPolicy(s, h, good)
        /\ policy = [mode |-> "secureboot", ak |-> ak, pcr |-> pol]
  BY Zenon
<1>1. PICK n, m : n = Normalize(s) /\ m = Normalize(t)
  BY Zenon
<1>2. /\ n.hash = "sha256" /\ HashName(n) = "sha256" /\ n.pcrs \in Seq(Int)
      /\ Range(n.pcrs) = Range(s.pcrs) /\ Selectable(n) /\ Normalize(n) = n
  BY <1>1, QuotableFacts, NormalizeFacts
<1>3. /\ m.hash = "sha256" /\ m.pcrs \in Seq(Int)
      /\ Range(m.pcrs) = Range(t.pcrs) /\ Selectable(m) /\ Normalize(m) = m
  BY <1>1, QuotableFacts, NormalizeFacts
<1>4. /\ e.id = nonce /\ e.nonceHash = nonce /\ e.ak = ak /\ e.selection = m
      /\ e.values = [pcr \in Range(t.pcrs) |-> later[pcr]]
      /\ e.quote.signer = ak /\ e.quote.nonce = nonce
      /\ e.quote.selection = m /\ e.quote.digest = ComputePCRDigest(m, boot)
  <2>1. Holds(e, ak, nonce, t, boot, later)
    BY <1>0, CollectedFacts, Zenon
  <2> QED
    BY <2>1, <1>1, Zenon DEF Holds
<1>5. /\ pol.selection = s
      /\ pol.digest = [hash |-> h, of |-> ComputePCRDigest(n, good).of]
  BY <1>0, <1>1 DEF EnrolledPCRPolicy, NewPCRPolicy
<1>6. policy.mode = "secureboot" /\ policy.ak = ak /\ policy.pcr = pol
  BY <1>0
<1>7. verifyTPMNodeEvidenceSubmission(SubmissionOf(e), nonce, EnrollmentOf(policy))
        <=> Validate(e) /\ e.id = e.id /\ EvaluatePolicy(e, nonce, policy)
  BY DEF verifyTPMNodeEvidenceSubmission, SubmissionOf, EnrollmentOf
<1>8. PolicyValid(policy)
  <2>1. ToLower(pol.digest.hash) = "sha256"
    BY <1>5 DEF Spellings, ToLower
  <2>2. Selectable(s) /\ HashName(s) = "sha256"
    BY QuotableFacts DEF Selectable
  <2> QED
    BY <2>1, <2>2, <1>5, <1>6, ZenonT(30) DEF PolicyValid, PCRPolicyValid
<1>9. Validate(e)
  <2>1. DOMAIN e.values = Range(t.pcrs)
    BY <1>4, Zenon
  <2>2. Range(t.pcrs) \subseteq 0..23 /\ Range(t.pcrs) # {}
    <3>1. PICK p : p = t.pcrs
      BY Zenon
    <3>2. p \in Seq(Int) /\ p # <<>> /\ \A i \in DOMAIN p : p[i] \in 0..23
      BY <3>1, QuotableFacts DEF Selectable
    <3>3. 1 \in DOMAIN p
      BY <3>2
    <3> QED
      BY <3>1, <3>2, <3>3, Zenon DEF Range
  <2> QED
    BY <2>1, <2>2, <1>3, <1>4, Zenon DEF Validate
<1>10. ASSUME EvaluatePolicy(e, nonce, policy)
       PROVE  /\ Canonical(s) /\ h = "sha256"
              /\ Range(t.pcrs) = Range(s.pcrs)
              /\ \A pcr \in Range(s.pcrs) : boot[pcr] = good[pcr] /\ later[pcr] = good[pcr]
  <2>1. VerifyQuote(e, nonce) /\ verifySecureBootPolicy(QuoteClaims(e), pol)
    BY <1>6, <1>10, SMTT(30) DEF EvaluatePolicy
  <2>0. pol.digest = ComputePCRDigest(m, e.values) /\ s.hash = m.hash /\ s.pcrs = m.pcrs
    BY <2>1, <1>3, <1>4, <1>5, SMTT(30) DEF verifySecureBootPolicy, QuoteClaims, sameSelection
  <2>1a. Canonical(s) /\ h = "sha256"
    <3>1. ComputePCRDigest(m, e.values).hash = "sha256"
      BY <1>3 DEF ComputePCRDigest
    <3>2. h = "sha256"
      BY <2>0, <1>5, <3>1
    <3>3. Increasing(m.pcrs)
      BY <1>1, QuotableFacts, NormalizeFacts
    <3> QED
      BY <2>0, <1>3, <3>2, <3>3 DEF Canonical
  <2>2. n.pcrs = m.pcrs /\ ComputePCRDigest(n, good).of = ComputePCRDigest(m, e.values).of
    <3>1. n.pcrs = s.pcrs
      BY <2>1a, <1>1, QuotableFacts, CanonicalNormalized
    <3>2. pol.digest.of = ComputePCRDigest(n, good).of
      BY <1>5
    <3> QED
      BY <2>0, <3>1, <3>2
  <2>3. \A i \in DOMAIN m.pcrs : boot[m.pcrs[i]] = e.values[m.pcrs[i]]
    BY <2>1, <1>1, <1>4, VerifiedQuote, SMTT(60)
  <2>4. [i \in DOMAIN m.pcrs |-> good[m.pcrs[i]]] = [i \in DOMAIN m.pcrs |-> e.values[m.pcrs[i]]]
    BY <2>2 DEF ComputePCRDigest
  <2>5. \A i \in DOMAIN m.pcrs : good[m.pcrs[i]] = e.values[m.pcrs[i]]
    BY <2>4, Zenon
  <2>6. Range(t.pcrs) = Range(s.pcrs)
    BY <2>2, <1>2, <1>3, Zenon
  <2>7. ASSUME NEW pcr \in Range(s.pcrs)
        PROVE  boot[pcr] = good[pcr] /\ later[pcr] = good[pcr]
    <3>1. pcr \in Range(m.pcrs) /\ pcr \in Range(t.pcrs)
      BY <2>6, <1>3, Zenon
    <3>2. PICK i \in DOMAIN m.pcrs : pcr = m.pcrs[i]
      BY <3>1, Zenon DEF Range
    <3>3. e.values[pcr] = later[pcr]
      BY <3>1, <1>4, Zenon
    <3> QED
      BY <3>2, <3>3, <2>3, <2>5, Zenon
  <2> QED
    BY <2>1a, <2>6, <2>7
<1>11. ASSUME Canonical(s), h = "sha256", Range(t.pcrs) = Range(s.pcrs),
              \A pcr \in Range(s.pcrs) : boot[pcr] = good[pcr] /\ later[pcr] = good[pcr]
       PROVE  EvaluatePolicy(e, nonce, policy)
  <2>1. n = m
    BY <1>1, <1>11, QuotableFacts, NormalizeCanonical
  <2>2. ASSUME NEW i \in DOMAIN m.pcrs
        PROVE  boot[m.pcrs[i]] = good[m.pcrs[i]] /\ e.values[m.pcrs[i]] = good[m.pcrs[i]]
    <3>1. m.pcrs[i] \in Range(m.pcrs)
      BY Zenon DEF Range
    <3>2. m.pcrs[i] \in Range(t.pcrs) /\ m.pcrs[i] \in Range(s.pcrs)
      BY <3>1, <1>3, <1>11, Zenon
    <3>3. PICK pcr : pcr = m.pcrs[i]
      BY Zenon
    <3>4. e.values[pcr] = later[pcr]
      BY <3>2, <3>3, <1>4, Zenon
    <3>5. boot[pcr] = good[pcr] /\ later[pcr] = good[pcr]
      BY <3>2, <3>3, <1>11, Zenon
    <3> QED
      BY <3>3, <3>4, <3>5, Zenon
  <2>3. /\ ComputePCRDigest(m, boot) = ComputePCRDigest(m, good)
        /\ ComputePCRDigest(m, e.values) = ComputePCRDigest(m, good)
    BY <2>2, Zenon DEF ComputePCRDigest
  <2>4. VerifyQuote(e, nonce)
    BY <2>3, <1>3, <1>4, <1>9, ZenonT(30)
       DEF VerifyQuote, verifyNonceHash, verifyAKSignature, verifyAttestation, verifyAttestedPCRs,
           sameSelection
  <2>5. verifySecureBootPolicy(QuoteClaims(e), pol)
    <3>1. s.hash = m.hash /\ s.pcrs = m.pcrs
      BY <2>1, <1>1, <1>11, QuotableFacts, CanonicalNormalized
    <3>2. pol.digest = ComputePCRDigest(m, good)
      BY <2>1, <1>3, <1>5, <1>11 DEF ComputePCRDigest
    <3> QED
      BY <2>3, <1>3, <1>4, <1>5, <3>1, <3>2 DEF verifySecureBootPolicy, QuoteClaims, sameSelection
  <2> QED
    BY <2>4, <2>5, <1>4, <1>6, <1>8, Zenon DEF EvaluatePolicy
<1> QED
  BY <1>0, <1>7, <1>8, <1>9, <1>10, <1>11, Zenon

--------------------------------------------------------------------------------
(* The quotes of the attempts *)

\* StoredRowsRestOnGenuineQuotes: in every state in which the broker handles an
\* attempt, the row that it may store rests on a genuine quote (EvaluatePolicy,
\* called by verifyTPMNodeEvidenceSubmission).
THEOREM StoredRowsAreGenuine == AgentSpec => []StoredRowsRestOnGenuineQuotes
<1>1. StoredRowsRestOnGenuineQuotes
  BY QuotesAreGenuine DEF StoredRowsRestOnGenuineQuotes
<1> QED
  BY <1>1, PTL

\* HealthyNodesPublish: in every such state, under a policy in canonical
\* spelling, the check accepts exactly the nodes whose PCRs have the captured
\* values, and under any other spelling none.
THEOREM HealthyNodesAlwaysPublish == AgentSpec => []HealthyNodesPublish
<1>1. HealthyNodesPublish
  BY HealthyNodesPass DEF HealthyNodesPublish
<1> QED
  BY <1>1, PTL
================================================================================
