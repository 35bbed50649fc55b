------------------------- MODULE EligibilityProofs -------------------------
(***************************************************************************)
(* Proofs about the eligibility check, for any answers, any day and any    *)
(* amounts.                                                                *)
(***************************************************************************)
EXTENDS EligibilityFlow, SequenceFacts

\* Neither an existing benefit nor the residence status brings a benefit back.
LEMMA SoftenKeepsNo ==
  ASSUME NEW a, NEW reason
  PROVE  Soften(a, Finding("NO", reason)).status = "NO"
  BY DEF Soften, Finding

\* Whoever may claim Grundsicherung im Alter, by age or by a lasting incapacity to work, is
\* told that Grundsicherungsgeld is not for them.
LEMMA RulesExclude ==
  ASSUME NEW a, NEW today
  PROVE  \/ Assess(a, "GRUNDSICHERUNGSGELD", today).status = "NO"
         \/ Assess(a, "GRUNDSICHERUNG_ALTER", today).status = "NO"
<1>1. CASE Retired(a, today)
  <2>1. AssessGrundsicherungsgeld(a, today) = Finding("NO", "retirement_age_reached")
    BY <1>1 DEF AssessGrundsicherungsgeld
  <2>2. QED BY <2>1, SoftenKeepsNo DEF Assess
<1>2. CASE ~Retired(a, today) /\ Is(a, "workCapacity", "PERMANENTLY_REDUCED")
  <2>1. AssessGrundsicherungsgeld(a, today) = Finding("NO", "permanently_unable_to_work")
    BY <1>2 DEF AssessGrundsicherungsgeld
  <2>2. QED BY <2>1, SoftenKeepsNo DEF Assess
<1>3. CASE ~Retired(a, today) /\ ~Is(a, "workCapacity", "PERMANENTLY_REDUCED")
  <2>1. AssessGrundsicherungAlter(a, today) = Finding("NO", "not_retired_nor_unable_to_work")
    BY <1>3 DEF AssessGrundsicherungAlter
  <2>2. QED BY <2>1, SoftenKeepsNo DEF Assess
<1>4. QED BY <1>1, <1>2, <1>3

\* The result never offers both kinds of Grundsicherung, whatever was answered, left over
\* from another branch or not answered at all.
THEOREM GrundsicherungExclusive == Spec => []OneGrundsicherung
<1>1. OneGrundsicherung
  BY RulesExclude DEF OneGrundsicherung, Shown
<1>2. QED BY <1>1, PTL

-----------------------------------------------------------------------------
(* The graph of the questions (store/EligibilityEngine.ts GRAPH) has no cycle:
   every edge leads to a node of a higher rank, so what is defined along the
   edges can be proved about from the results backwards. *)

Nodes == Questions \cup Results
Rank == [n \in Nodes |->
    CASE n = "household" -> 1     [] n = "children" -> 2       [] n = "birthdate" -> 3
      [] n = "germany" -> 4       [] n = "employment" -> 5     [] n = "gross-income" -> 6
      [] n = "work-capacity" -> 7 [] n = "net-income" -> 8     [] n = "warm-rent" -> 9
      [] n = "assets" -> 10       [] n = "benefits" -> 11      [] n = "citizenship" -> 12
      [] n = "residence-status" -> 13 [] n \in Results -> 14]

LEMMA Ranks ==
  /\ Rank["household"] = 1 /\ Rank["children"] = 2 /\ Rank["birthdate"] = 3 /\ Rank["germany"] = 4
  /\ Rank["employment"] = 5 /\ Rank["gross-income"] = 6 /\ Rank["work-capacity"] = 7
  /\ Rank["net-income"] = 8 /\ Rank["warm-rent"] = 9 /\ Rank["assets"] = 10 /\ Rank["benefits"] = 11
  /\ Rank["citizenship"] = 12 /\ Rank["residence-status"] = 13
  /\ \A n \in Results : Rank[n] = 14
  /\ \A n \in Nodes : Rank[n] \in 1..14
  BY DEF Rank, Nodes, Questions, Results

LEMMA RankNumbers == \A n \in Nodes : Rank[n] \in Nat /\ Rank[n] > 0
<1>1. \A n \in Nodes : Rank[n] \in 1..14
  BY Ranks
<1>2. QED BY <1>1

LEMMA Keys ==
  /\ KeyOf["household"] = "householdComposition" /\ KeyOf["children"] = "children"
  /\ KeyOf["birthdate"] = "dateOfBirth" /\ KeyOf["germany"] = "livesInGermany"
  /\ KeyOf["employment"] = "isEmployed" /\ KeyOf["gross-income"] = "monthlyGrossIncome"
  /\ KeyOf["work-capacity"] = "workCapacity" /\ KeyOf["net-income"] = "monthlyNetHouseholdIncome"
  /\ KeyOf["warm-rent"] = "monthlyWarmRent" /\ KeyOf["assets"] = "assetsBand"
  /\ KeyOf["benefits"] = "receivesBenefits" /\ KeyOf["citizenship"] = "citizenship"
  /\ KeyOf["residence-status"] = "hasSecureResidenceStatus"
  BY DEF KeyOf, Questions

\* No two questions ask for the same answer.
LEMMA KeysDiffer ==
  ASSUME NEW q \in Questions, NEW p \in Questions, KeyOf[q] = KeyOf[p]
  PROVE  q = p
  BY Keys DEF Questions

\* The edges of the graph.
LEMMA Edges ==
  ASSUME NEW a, NEW d
  PROVE  /\ NextOf("household", a, d) = IF \/ Is(a, "householdComposition", "SINGLE")
                                          \/ Is(a, "householdComposition", "COUPLE_NO_CHILDREN")
                                        THEN "birthdate" ELSE "children"
         /\ NextOf("children", a, d) = "birthdate"
         /\ NextOf("birthdate", a, d) = "germany"
         /\ NextOf("germany", a, d) = IF Is(a, "livesInGermany", "NO") THEN "result_not_eligible" ELSE "employment"
         /\ NextOf("employment", a, d) = IF Is(a, "isEmployed", "NO") THEN AfterIncome(a, d) ELSE "gross-income"
         /\ NextOf("gross-income", a, d) = AfterIncome(a, d)
         /\ NextOf("work-capacity", a, d) = "net-income"
         /\ NextOf("net-income", a, d) = "warm-rent"
         /\ NextOf("warm-rent", a, d) = "assets"
         /\ NextOf("assets", a, d) = "benefits"
         /\ NextOf("benefits", a, d) = "citizenship"
         /\ NextOf("citizenship", a, d) = IF Is(a, "citizenship", "GERMAN") \/ Is(a, "citizenship", "EU")
                                          THEN "result_eligible" ELSE "residence-status"
         /\ NextOf("residence-status", a, d) = "result_eligible"
  BY DEF NextOf

\* Every edge leads on: the graph has no cycle.
LEMMA EdgesLeadOn ==
  ASSUME NEW q \in Questions, NEW a, NEW d
  PROVE  NextOf(q, a, d) \in Nodes /\ Rank[NextOf(q, a, d)] > Rank[q]
<1>1. AfterIncome(a, d) \in {"net-income", "work-capacity"}
  BY DEF AfterIncome
<1> DEFINE On(p) == NextOf(p, a, d) \in Nodes /\ Rank[NextOf(p, a, d)] > Rank[p]
<1>2. "result_eligible" \in Results /\ "result_not_eligible" \in Results
  BY DEF Results
<1>3. Questions \subseteq Nodes /\ Results \subseteq Nodes
  BY DEF Nodes
<1>4. On("household") /\ On("children") /\ On("birthdate") /\ On("germany")
  BY <1>2, <1>3, Edges, Ranks DEF Questions
<1>5. On("employment") /\ On("gross-income") /\ On("work-capacity")
  BY <1>1, <1>3, Edges, Ranks DEF Questions
<1>6. On("net-income") /\ On("warm-rent") /\ On("assets") /\ On("benefits")
  BY <1>3, Edges, Ranks DEF Questions
<1>7. On("citizenship") /\ On("residence-status")
  BY <1>2, <1>3, Edges, Ranks DEF Questions
<1> HIDE DEF On
<1>8. On(q)
  BY <1>4, <1>5, <1>6, <1>7 DEF Questions
<1>9. QED BY <1>8 DEF On

\* What holds of a node whenever it holds of all behind it holds of every node.
LEMMA Backwards ==
  ASSUME NEW P, \A n \in Nodes : (\A m \in Nodes : Rank[m] > Rank[n] => m \in P) => n \in P
  PROVE  Nodes \subseteq P
<1>1. SUFFICES ASSUME NEW n \in Nodes, n \notin P PROVE FALSE
  OBVIOUS
<1> DEFINE T == {14 - Rank[m] : m \in Nodes \ P}
<1>2. T \subseteq Nat /\ T # {}
  BY <1>1, Ranks
<1>3. PICK t \in T : \A u \in T : t <= u
  BY <1>2, LeastElement
<1>4. PICK m \in Nodes \ P : t = 14 - Rank[m]
  BY <1>3
<1>5. ASSUME NEW k \in Nodes, Rank[k] > Rank[m] PROVE k \in P
  <2> SUFFICES ASSUME k \notin P PROVE FALSE
    OBVIOUS
  <2>1. 14 - Rank[k] \in T
    OBVIOUS
  <2> HIDE DEF T
  <2>2. t <= 14 - Rank[k]
    BY <1>3, <2>1
  <2>3. Rank[k] \in 1..14 /\ Rank[m] \in 1..14
    BY Ranks
  <2>4. QED BY <1>4, <1>5, <2>2, <2>3
<1>6. QED BY <1>4, <1>5

Descends(G) == \A k \in 1..14 : k + 1 \in G => k \in G
LEMMA Downwards ==
  ASSUME NEW G, 15 \in G, Descends(G)
  PROVE  1 \in G
<1> DEFINE T == {k \in 0..14 : 15 - k \notin G}
<1>1. ASSUME T # {} PROVE FALSE
  <2>1. T \subseteq Nat
    OBVIOUS
  <2>2. PICK t \in T : \A u \in T : t <= u
    BY <1>1, <2>1, LeastElement
  <2>3. t \in 0..14 /\ 15 - t \notin G
    OBVIOUS
  <2>4. t # 0
    BY <2>3
  <2>5. t - 1 \notin T
    <3> HIDE DEF T
    <3>1. ~(t <= t - 1)
      BY <2>3
    <3>2. QED BY <2>2, <3>1
  <2>6. 15 - (t - 1) \in G
    BY <2>3, <2>4, <2>5
  <2>7. 15 - t \in 1..14 /\ 15 - (t - 1) = (15 - t) + 1
    BY <2>3, <2>4
  <2>8. QED BY <2>3, <2>6, <2>7 DEF Descends
<1>2. 14 \notin T
  BY <1>1
<1>3. QED BY <1>2

\* The nodes from one on: what the recursion of Walk is to give.
Steps(f, a, d) == [n \in Nodes |-> IF n \in Results \/ KeyOf[n] \notin DOMAIN a THEN <<n>>
                                   ELSE <<n>> \o f[NextOf(n, a, d)]]
Counts(f, a, d) == [n \in Nodes |-> IF n \in Results THEN 0 ELSE 1 + f[NextOf(n, a, d)]]

LEMMA StepsExist == ASSUME NEW a, NEW d PROVE \E f : f = Steps(f, a, d)
<1> DEFINE Good(f, k) == \A n \in Nodes : Rank[n] >= k => f[n] = Steps(f, a, d)[n]
           G == {k \in 1..15 : \E f : Good(f, k)}
<1>1. 15 \in G
  <2>1. \A n \in Nodes : ~(Rank[n] >= 15)
    BY Ranks
  <2>2. Good(<<>>, 15)
    BY <2>1
  <2> HIDE DEF Good
  <2>3. QED BY <2>2
<1>2. ASSUME NEW k \in 1..14, k + 1 \in G PROVE k \in G
  <2>1. PICK f : Good(f, k + 1)
    BY <1>2
  <2> DEFINE g == [n \in Nodes |-> IF Rank[n] > k THEN f[n] ELSE Steps(f, a, d)[n]]
  <2>2. ASSUME NEW n \in Nodes, Rank[n] >= k PROVE g[n] = Steps(g, a, d)[n]
    <3>1. g[n] = Steps(f, a, d)[n]
      BY <2>1, Ranks
    <3>2. CASE n \in Results
      BY <3>1, <3>2 DEF Steps
    <3>3. CASE n \in Questions
      <4>1. NextOf(n, a, d) \in Nodes /\ Rank[NextOf(n, a, d)] > k
        <5>1. NextOf(n, a, d) \in Nodes /\ Rank[NextOf(n, a, d)] > Rank[n]
          BY <3>3, EdgesLeadOn
        <5>2. Rank[n] \in 1..14 /\ Rank[NextOf(n, a, d)] \in 1..14
          BY <5>1, Ranks
        <5>3. QED BY <2>2, <5>1, <5>2
      <4>2. g[NextOf(n, a, d)] = f[NextOf(n, a, d)]
        BY <4>1
      <4> HIDE DEF g
      <4>3. QED BY <3>1, <4>2 DEF Steps
    <3>4. QED BY <3>2, <3>3 DEF Nodes
  <2> HIDE DEF g
  <2>3. Good(g, k)
    BY <2>2
  <2>4. QED BY <2>3
<1> HIDE DEF Good
<1>3. 1 \in G
  <2> HIDE DEF G
  <2>1. Descends(G)
    BY <1>2 DEF Descends
  <2>2. QED BY <1>1, <2>1, Downwards
<1>4. PICK f : Good(f, 1)
  BY <1>3
<1> DEFINE g == [n \in Nodes |-> f[n]]
<1>5. \A n \in Nodes : f[n] = Steps(f, a, d)[n]
  BY <1>4, Ranks DEF Good
<1>6. Steps(g, a, d) = Steps(f, a, d)
  <2>1. \A n \in Questions : g[NextOf(n, a, d)] = f[NextOf(n, a, d)]
    BY EdgesLeadOn
  <2> HIDE DEF g
  <2>2. \A n \in Nodes : n \in Results \/ n \in Questions
    BY DEF Nodes
  <2>3. QED BY <2>1, <2>2 DEF Steps
<1>7. g = Steps(f, a, d)
  BY <1>5 DEF Steps
<1>8. QED BY <1>6, <1>7

LEMMA CountsExist == ASSUME NEW a, NEW d PROVE \E f : f = Counts(f, a, d)
<1> DEFINE Good(f, k) == \A n \in Nodes : Rank[n] >= k => f[n] = Counts(f, a, d)[n]
           G == {k \in 1..15 : \E f : Good(f, k)}
<1>1. 15 \in G
  <2>1. \A n \in Nodes : ~(Rank[n] >= 15)
    BY Ranks
  <2>2. Good(<<>>, 15)
    BY <2>1
  <2> HIDE DEF Good
  <2>3. QED BY <2>2
<1>2. ASSUME NEW k \in 1..14, k + 1 \in G PROVE k \in G
  <2>1. PICK f : Good(f, k + 1)
    BY <1>2
  <2> DEFINE g == [n \in Nodes |-> IF Rank[n] > k THEN f[n] ELSE Counts(f, a, d)[n]]
  <2>2. ASSUME NEW n \in Nodes, Rank[n] >= k PROVE g[n] = Counts(g, a, d)[n]
    <3>1. g[n] = Counts(f, a, d)[n]
      BY <2>1, Ranks
    <3>2. CASE n \in Results
      BY <3>1, <3>2 DEF Counts
    <3>3. CASE n \in Questions
      <4>1. NextOf(n, a, d) \in Nodes /\ Rank[NextOf(n, a, d)] > k
        <5>1. NextOf(n, a, d) \in Nodes /\ Rank[NextOf(n, a, d)] > Rank[n]
          BY <3>3, EdgesLeadOn
        <5>2. Rank[n] \in 1..14 /\ Rank[NextOf(n, a, d)] \in 1..14
          BY <5>1, Ranks
        <5>3. QED BY <2>2, <5>1, <5>2
      <4>2. g[NextOf(n, a, d)] = f[NextOf(n, a, d)]
        BY <4>1
      <4> HIDE DEF g
      <4>3. QED BY <3>1, <4>2 DEF Counts
    <3>4. QED BY <3>2, <3>3 DEF Nodes
  <2> HIDE DEF g
  <2>3. Good(g, k)
    BY <2>2
  <2>4. QED BY <2>3
<1> HIDE DEF Good
<1>3. 1 \in G
  <2> HIDE DEF G
  <2>1. Descends(G)
    BY <1>2 DEF Descends
  <2>2. QED BY <1>1, <2>1, Downwards
<1>4. PICK f : Good(f, 1)
  BY <1>3
<1> DEFINE g == [n \in Nodes |-> f[n]]
<1>5. \A n \in Nodes : f[n] = Counts(f, a, d)[n]
  BY <1>4, Ranks DEF Good
<1>6. Counts(g, a, d) = Counts(f, a, d)
  <2>1. \A n \in Questions : g[NextOf(n, a, d)] = f[NextOf(n, a, d)]
    BY EdgesLeadOn
  <2> HIDE DEF g
  <2>2. \A n \in Nodes : n \in Results \/ n \in Questions
    BY DEF Nodes
  <2>3. QED BY <2>1, <2>2 DEF Counts
<1>7. g = Counts(f, a, d)
  BY <1>5 DEF Counts
<1>8. QED BY <1>6, <1>7

\* A walk from a node: every step follows an edge from an answered question, and the last node
\* is a result or a question without an answer.
IsWalk(p, n, a, d) ==
  /\ p \in Seq(Nodes) /\ Len(p) >= 1 /\ p[1] = n
  /\ \A i \in 1..(Len(p) - 1) : /\ p[i] \in Questions /\ KeyOf[p[i]] \in DOMAIN a
                                /\ p[i + 1] = NextOf(p[i], a, d)
  /\ p[Len(p)] \in Results \/ KeyOf[p[Len(p)]] \notin DOMAIN a

LEMMA StepsWalk ==
  ASSUME NEW a, NEW d, NEW f, f = Steps(f, a, d)
  PROVE  \A n \in Nodes : IsWalk(f[n], n, a, d)
<1> DEFINE P == {n \in Nodes : IsWalk(f[n], n, a, d)}
<1>1. ASSUME NEW n \in Nodes, \A m \in Nodes : Rank[m] > Rank[n] => m \in P PROVE n \in P
  <2>1. CASE n \in Results \/ KeyOf[n] \notin DOMAIN a
    <3>1. f[n] = <<n>>
      BY <2>1 DEF Steps
    <3>2. <<n>> \in Seq(Nodes) /\ Len(<<n>>) = 1 /\ <<n>>[1] = n
      OBVIOUS
    <3>3. IsWalk(<<n>>, n, a, d)
      BY <2>1, <3>2 DEF IsWalk
    <3>4. QED BY <3>1, <3>3
  <2>2. CASE n \in Questions /\ KeyOf[n] \in DOMAIN a /\ n \notin Results
    <3> DEFINE m == NextOf(n, a, d)
               r == f[m]
    <3>1. m \in Nodes /\ Rank[m] > Rank[n]
      BY <2>2, EdgesLeadOn
    <3>2. IsWalk(r, m, a, d)
      BY <1>1, <3>1
    <3>3. f[n] = <<n>> \o r
      BY <2>2 DEF Steps
    <3> HIDE DEF m, r
    <3>4. r \in Seq(Nodes) /\ Len(r) \in Nat \ {0} /\ r[1] = m
      BY <3>2 DEF IsWalk
    <3> DEFINE p == <<n>> \o r
    <3>5. <<n>> \in Seq(Nodes) /\ Len(<<n>>) = 1 /\ <<n>>[1] = n
      OBVIOUS
    <3>6. p \in Seq(Nodes) /\ Len(p) = Len(r) + 1 /\ p[1] = n /\ \A i \in 1..Len(r) : p[i + 1] = r[i]
      BY <3>4, <3>5, ConcatProperties
    <3> HIDE DEF p
    <3>7. ASSUME NEW i \in 1..(Len(p) - 1)
          PROVE  p[i] \in Questions /\ KeyOf[p[i]] \in DOMAIN a /\ p[i + 1] = NextOf(p[i], a, d)
      <4>1. CASE i = 1
        <5>1. p[2] = r[1]
          <6>1. 1 \in 1..Len(r) /\ 1 + 1 = 2
            BY <3>4
          <6>2. QED BY <3>6, <6>1
        <5>2. QED BY <2>2, <3>4, <3>6, <4>1, <5>1 DEF m
      <4>2. CASE i # 1
        <5> DEFINE j == i - 1
        <5>1. j \in 1..(Len(r) - 1) /\ j + 1 = i /\ j + 1 \in 1..Len(r)
          BY <3>4, <3>6, <4>2
        <5> HIDE DEF j
        <5>2. p[i] = r[j] /\ p[i + 1] = r[j + 1]
          <6>1. j \in 1..Len(r) /\ i \in 1..Len(r)
            BY <3>4, <5>1
          <6>2. p[j + 1] = r[j] /\ p[i + 1] = r[i]
            BY <3>6, <6>1
          <6>3. QED BY <5>1, <6>2
        <5>3. QED BY <3>2, <5>1, <5>2 DEF IsWalk
      <4>3. QED BY <4>1, <4>2
    <3>8. p[Len(p)] = r[Len(r)]
      <4>1. Len(r) \in 1..Len(r)
        BY <3>4
      <4>2. QED BY <3>6, <4>1
    <3>9. IsWalk(p, n, a, d)
      <4>1. Len(p) >= 1
        BY <3>4, <3>6
      <4>2. p[Len(p)] \in Results \/ KeyOf[p[Len(p)]] \notin DOMAIN a
        BY <3>2, <3>8 DEF IsWalk
      <4>3. QED BY <3>6, <3>7, <4>1, <4>2 DEF IsWalk
    <3>10. QED BY <3>3, <3>9 DEF p
  <2>3. QED BY <2>1, <2>2 DEF Nodes
<1> HIDE DEF P
<1>2. Nodes \subseteq P
  BY <1>1, Backwards
<1>3. QED BY <1>2 DEF P

LEMMA ValidPathWalks == ASSUME NEW a, NEW d PROVE IsWalk(ValidPath(a, d), "household", a, d)
<1> DEFINE g == CHOOSE f : f = Steps(f, a, d)
<1>1. ValidPath(a, d) = g["household"]
  BY DEF ValidPath, Walk, Nodes, Steps
<1>2. g = Steps(g, a, d)
  BY StepsExist
<1> HIDE DEF g
<1>3. "household" \in Nodes
  BY DEF Nodes, Questions
<1>4. QED BY <1>1, <1>2, <1>3, StepsWalk

\* What is left from a node on.
LEMMA AheadCounts ==
  ASSUME NEW a, NEW d
  PROVE  /\ \A n \in Results : Ahead(n, a, d) = 0
         /\ \A q \in Questions : Ahead(q, a, d) = 1 + Ahead(NextOf(q, a, d), a, d)
         /\ \A n \in Nodes : Ahead(n, a, d) \in Nat
<1> DEFINE g == CHOOSE f : f = Counts(f, a, d)
<1>1. \A n : Ahead(n, a, d) = g[n]
  BY DEF Ahead, Nodes, Counts
<1>2. g = Counts(g, a, d)
  BY CountsExist
<1> HIDE DEF g
<1>3. \A n \in Results : n \in Nodes /\ g[n] = 0
  BY <1>2 DEF Counts, Nodes
<1>4. Questions \cap Results = {}
  BY DEF Questions, Results
<1>5. \A q \in Questions : q \in Nodes /\ g[q] = 1 + g[NextOf(q, a, d)]
  BY <1>2, <1>4 DEF Counts, Nodes
<1> DEFINE P == {n \in Nodes : g[n] \in Nat}
<1>6. ASSUME NEW n \in Nodes, \A m \in Nodes : Rank[m] > Rank[n] => m \in P PROVE n \in P
  <2>1. CASE n \in Results
    BY <1>3, <2>1
  <2>2. CASE n \in Questions
    <3>1. g[NextOf(n, a, d)] \in Nat
      BY <1>6, <2>2, EdgesLeadOn
    <3>2. QED BY <1>5, <2>2, <3>1
  <2>3. QED BY <2>1, <2>2 DEF Nodes
<1> HIDE DEF P
<1>7. Nodes \subseteq P
  BY <1>6, Backwards
<1>8. QED BY <1>1, <1>3, <1>5, <1>7 DEF P

LEMMA WalkIndices ==
  ASSUME NEW a, NEW d, NEW n, NEW p, IsWalk(p, n, a, d), NEW i \in 1..Len(p)
  PROVE  /\ Len(p) \in Nat \ {0} /\ i \in DOMAIN p /\ p[i] \in Nodes
         /\ i > 1 => i - 1 \in 1..Len(p) /\ p[i - 1] \in Questions /\ p[i] = NextOf(p[i - 1], a, d)
                     /\ KeyOf[p[i - 1]] \in DOMAIN a
         /\ i < Len(p) => i + 1 \in 1..Len(p) /\ p[i] \in Questions /\ p[i + 1] = NextOf(p[i], a, d)
                          /\ KeyOf[p[i]] \in DOMAIN a
<1>1. Len(p) \in Nat \ {0} /\ i \in DOMAIN p /\ p[i] \in Nodes
  BY DEF IsWalk
<1>2. ASSUME i > 1
      PROVE  i - 1 \in 1..Len(p) /\ p[i - 1] \in Questions /\ p[i] = NextOf(p[i - 1], a, d)
             /\ KeyOf[p[i - 1]] \in DOMAIN a
  <2>1. i - 1 \in 1..(Len(p) - 1) /\ (i - 1) + 1 = i /\ i - 1 \in 1..Len(p)
    BY <1>1, <1>2
  <2> DEFINE k == i - 1
  <2>2. /\ k \in 1..(Len(p) - 1) /\ k + 1 = i
        /\ \A j \in 1..(Len(p) - 1) : /\ p[j] \in Questions /\ KeyOf[p[j]] \in DOMAIN a
                                      /\ p[j + 1] = NextOf(p[j], a, d)
    BY <2>1 DEF IsWalk
  <2> HIDE DEF k
  <2>3. p[k] \in Questions /\ KeyOf[p[k]] \in DOMAIN a /\ p[i] = NextOf(p[k], a, d)
    BY <2>2
  <2>4. QED BY <2>1, <2>3 DEF k
<1>3. ASSUME i < Len(p)
      PROVE  i + 1 \in 1..Len(p) /\ p[i] \in Questions /\ p[i + 1] = NextOf(p[i], a, d)
             /\ KeyOf[p[i]] \in DOMAIN a
  <2>1. i \in 1..(Len(p) - 1) /\ i + 1 \in 1..Len(p)
    BY <1>1, <1>3
  <2>2. QED BY <2>1 DEF IsWalk
<1>4. QED BY <1>1, <1>2, <1>3

\* A walk comes by no node twice.
LEMMA Ascending ==
  ASSUME NEW a, NEW d, NEW n, NEW p, IsWalk(p, n, a, d),
         NEW i \in 1..Len(p), NEW j \in 1..Len(p), i < j
  PROVE  Rank[p[i]] < Rank[p[j]]
<1> DEFINE T == {k \in 1..Len(p) : i < k /\ ~(Rank[p[i]] < Rank[p[k]])}
<1>0. Len(p) \in Nat
  BY WalkIndices
<1>1. ASSUME T # {} PROVE FALSE
  <2>1. T \subseteq Nat
    OBVIOUS
  <2>2. PICK k \in T : \A u \in T : k <= u
    BY <1>1, <2>1, LeastElement
  <2>3. k \in 1..Len(p) /\ i < k /\ ~(Rank[p[i]] < Rank[p[k]])
    OBVIOUS
  <2>4. /\ k - 1 \in 1..Len(p) /\ p[k - 1] \in Questions /\ p[k] = NextOf(p[k - 1], a, d)
        /\ p[k] \in Nodes /\ p[i] \in Nodes /\ p[k - 1] \in Nodes
    BY <2>3, WalkIndices
  <2>5. Rank[p[k]] > Rank[p[k - 1]] /\ Rank[p[k]] \in Nat /\ Rank[p[k - 1]] \in Nat /\ Rank[p[i]] \in Nat
    BY <2>4, EdgesLeadOn, RankNumbers
  <2>6. k - 1 # i
    BY <2>3, <2>5
  <2>7. i < k - 1 /\ ~(k <= k - 1)
    BY <2>3, <2>6
  <2>8. k - 1 \notin T
    <3> HIDE DEF T
    <3>1. QED BY <2>2, <2>7
  <2>9. Rank[p[i]] < Rank[p[k - 1]]
    BY <2>4, <2>7, <2>8
  <2>10. QED BY <2>3, <2>5, <2>9
<1>2. j \notin T
  BY <1>1
<1>3. QED BY <1>2

LEMMA OncePerWalk ==
  ASSUME NEW a, NEW d, NEW n, NEW p, IsWalk(p, n, a, d),
         NEW i \in 1..Len(p), NEW j \in 1..Len(p), p[i] = p[j]
  PROVE  i = j
<1>1. Rank[p[i]] \in Nat /\ Rank[p[j]] \in Nat
  <2>1. p[i] \in Nodes /\ p[j] \in Nodes
    BY WalkIndices
  <2>2. QED BY <2>1, RankNumbers
<1>2. ~(i < j) /\ ~(j < i)
  BY <1>1, Ascending
<1>3. QED BY <1>2

\* What a question makes of the answers: its own one, and the age behind the income.
Agree(a, b, key) == (key \in DOMAIN a <=> key \in DOMAIN b) /\ (key \in DOMAIN a => a[key] = b[key])

LEMMA EdgeReads ==
  ASSUME NEW a, NEW b, NEW d, NEW q \in Questions, Agree(a, b, KeyOf[q]),
         q \in {"employment", "gross-income"} => Agree(a, b, "dateOfBirth")
  PROVE  NextOf(q, a, d) = NextOf(q, b, d)
<1>1. \A v : Is(a, KeyOf[q], v) <=> Is(b, KeyOf[q], v)
  BY DEF Is, Agree
<1>2. ASSUME q \in {"employment", "gross-income"} PROVE AfterIncome(a, d) = AfterIncome(b, d)
  <2>1. Agree(a, b, "dateOfBirth")
    BY <1>2
  <2>2. Retired(a, d) <=> Retired(b, d)
    BY <2>1 DEF Retired, Agree
  <2>3. QED BY <2>2 DEF AfterIncome
<1>3. QED BY <1>1, <1>2, Edges, Keys DEF Questions

\* Two walks go the same way as long as the edges are the same and the questions are answered.
LEMMA SamePrefix ==
  ASSUME NEW a, NEW d, NEW b, NEW e, NEW n, NEW p, NEW r, IsWalk(p, n, a, d), IsWalk(r, n, b, e),
         NEW i \in 1..Len(p),
         \A j \in 1..(i - 1) : NextOf(p[j], a, d) = NextOf(p[j], b, e) /\ KeyOf[p[j]] \in DOMAIN b
  PROVE  i <= Len(r) /\ \A j \in 1..i : r[j] = p[j]
<1>1. Len(p) \in Nat \ {0} /\ Len(r) \in Nat \ {0} /\ p[1] = n /\ r[1] = n
  BY DEF IsWalk
<1> DEFINE T == {k \in 1..i : ~(k <= Len(r) /\ r[k] = p[k])}
<1>2. ASSUME T # {} PROVE FALSE
  <2>1. T \subseteq Nat
    OBVIOUS
  <2>2. PICK k \in T : \A u \in T : k <= u
    BY <1>2, <2>1, LeastElement
  <2>3. k \in 1..i /\ ~(k <= Len(r) /\ r[k] = p[k])
    OBVIOUS
  <2>4. k # 1
    BY <1>1, <2>3
  <2>5. k - 1 \notin T
    <3> HIDE DEF T
    <3>1. ~(k <= k - 1)
      BY <2>3
    <3>2. QED BY <2>2, <3>1
  <2> DEFINE j == k - 1
  <2>6. j \in 1..(i - 1) /\ j \in 1..i /\ j + 1 = k /\ k \in 1..Len(p) /\ k > 1
    BY <1>1, <2>3, <2>4
  <2>7. j <= Len(r) /\ r[j] = p[j]
    BY <2>5, <2>6
  <2>8. p[j] \in Questions /\ p[k] = NextOf(p[j], a, d)
    BY <2>6, WalkIndices
  <2>9. NextOf(p[j], a, d) = NextOf(p[j], b, e) /\ KeyOf[p[j]] \in DOMAIN b
    BY <2>6
  <2> HIDE DEF j, T
  <2>10. j # Len(r)
    <3>1. Questions \cap Results = {}
      BY DEF Questions, Results
    <3>2. QED BY <2>7, <2>8, <2>9, <3>1 DEF IsWalk
  <2>11. j \in 1..Len(r) /\ j < Len(r) /\ k <= Len(r)
    BY <1>1, <2>6, <2>7, <2>10
  <2>12. r[k] = NextOf(r[j], b, e)
    BY <2>6, <2>11, WalkIndices
  <2>13. QED BY <2>3, <2>7, <2>8, <2>9, <2>11, <2>12
<1>3. \A k \in 1..i : k <= Len(r) /\ r[k] = p[k]
  BY <1>2
<1>4. i \in 1..i
  OBVIOUS
<1>5. QED BY <1>3, <1>4

\* The date of birth was asked for before anything behind it.
LEMMA BirthdateComesFirst ==
  ASSUME NEW a, NEW d, NEW p, IsWalk(p, "household", a, d), NEW j \in 1..Len(p), Rank[p[j]] >= 3
  PROVE  \E k \in 1..j : p[k] = "birthdate"
<1> DEFINE T == {k \in 1..j : Rank[p[k]] >= 3}
<1>1. T \subseteq Nat /\ j \in T
  OBVIOUS
<1>2. PICK k \in T : \A u \in T : k <= u
  BY <1>1, LeastElement
<1>3. k \in 1..j /\ k \in 1..Len(p) /\ Rank[p[k]] >= 3
  OBVIOUS
<1>4. k # 1
  BY <1>3, Ranks DEF IsWalk
<1>5. k - 1 \in 1..Len(p) /\ p[k - 1] \in Questions /\ p[k] = NextOf(p[k - 1], a, d) /\ p[k - 1] \in Nodes
  <2>1. k > 1
    BY <1>3, <1>4
  <2>2. QED BY <1>3, <2>1, WalkIndices
<1>6. ~(Rank[p[k - 1]] >= 3)
  <2>1. k - 1 \in 1..j /\ ~(k <= k - 1)
    BY <1>3, <1>4
  <2> DEFINE l == k - 1
  <2>2. l \notin T
    <3> HIDE DEF T, l
    <3>1. ~(k <= l)
      BY <2>1 DEF l
    <3>2. QED BY <1>2, <3>1
  <2>3. QED BY <2>1, <2>2
<1>7. p[k - 1] \in {"household", "children"}
  BY <1>5, <1>6, Ranks DEF Questions
<1>8. p[k] \in {"children", "birthdate"}
  BY <1>5, <1>7, Edges
<1>9. p[k] = "birthdate"
  BY <1>3, <1>8, Ranks
<1>10. QED BY <1>3, <1>9

\* Whoever knows less counts on at least as many questions: an open condition is routed to the
\* longer branch.
LEMMA AheadMore ==
  ASSUME NEW a, NEW b, NEW d, DOMAIN b \subseteq DOMAIN a, \A k \in DOMAIN b : b[k] = a[k]
  PROVE  \A n \in Nodes : Ahead(n, b, d) >= Ahead(n, a, d)
<1> DEFINE P == {n \in Nodes : Ahead(n, b, d) >= Ahead(n, a, d)}
<1>0. \A k, v : Is(b, k, v) => Is(a, k, v)
  BY DEF Is
<1>a. /\ \A n \in Results : Ahead(n, a, d) = 0
      /\ \A q \in Questions : Ahead(q, a, d) = 1 + Ahead(NextOf(q, a, d), a, d)
      /\ \A n \in Nodes : Ahead(n, a, d) \in Nat
  BY AheadCounts
<1>b. /\ \A n \in Results : Ahead(n, b, d) = 0
      /\ \A q \in Questions : Ahead(q, b, d) = 1 + Ahead(NextOf(q, b, d), b, d)
      /\ \A n \in Nodes : Ahead(n, b, d) \in Nat
  BY AheadCounts
<1>1. ASSUME NEW n \in Nodes, \A m \in Nodes : Rank[m] > Rank[n] => m \in P PROVE n \in P
  <2>1. CASE n \in Results
    BY <1>a, <1>b, <2>1
  <2>2. CASE n \in Questions
    <3> DEFINE x == NextOf(n, b, d)
               y == NextOf(n, a, d)
    <3>1. x \in Nodes /\ y \in Nodes /\ Rank[x] > Rank[n] /\ Rank[y] > Rank[n]
      BY <2>2, EdgesLeadOn
    <3>2. Ahead(y, b, d) >= Ahead(y, a, d)
      BY <1>1, <3>1
    <3>3. Ahead(x, b, d) >= Ahead(y, a, d)
      <4>1. CASE x = y
        BY <3>2, <4>1
      <4>2. CASE y \in Results
        BY <1>a, <1>b, <3>1, <4>2
      <4>3. CASE x # y /\ y \notin Results
        <5>1. \/ n = "household" /\ x = "children" /\ y = "birthdate"
              \/ n = "employment" /\ x = "gross-income" /\ y = AfterIncome(a, d)
              \/ n \in {"employment", "gross-income"} /\ x = AfterIncome(b, d) /\ y = AfterIncome(a, d)
          <6>1. "result_eligible" \in Results /\ "result_not_eligible" \in Results
            BY DEF Results
          <6>2. QED BY <1>0, <2>2, <4>3, <6>1, Edges DEF Questions
        <5>2. Ahead("children", b, d) = 1 + Ahead("birthdate", b, d)
          BY <1>b, Edges DEF Questions
        <5>3. Ahead("gross-income", b, d) = 1 + Ahead(AfterIncome(b, d), b, d)
          BY <1>b, Edges DEF Questions
        <5>4. Ahead("work-capacity", b, d) = 1 + Ahead("net-income", b, d)
          BY <1>b, Edges DEF Questions
        <5>5. CASE x = "children" /\ y = "birthdate"
          BY <1>a, <1>b, <3>1, <3>2, <5>2, <5>5
        <5>6. ASSUME n \in {"employment", "gross-income"}, y = AfterIncome(a, d)
              PROVE  Ahead(AfterIncome(b, d), b, d) >= Ahead(y, a, d)
          <6>1. \/ AfterIncome(b, d) = y
                \/ AfterIncome(b, d) = "work-capacity" /\ y = "net-income"
            <7>1. Retired(b, d) => Retired(a, d)
              BY DEF Retired
            <7>2. QED BY <5>6, <7>1 DEF AfterIncome
          <6>2. QED BY <1>a, <1>b, <3>1, <3>2, <5>4, <6>1
        <5>7. AfterIncome(b, d) \in Nodes
          BY DEF AfterIncome, Nodes, Questions
        <5>8. QED BY <1>a, <1>b, <3>1, <5>1, <5>3, <5>5, <5>6, <5>7
      <4>4. QED BY <4>1, <4>2, <4>3
    <3>4. Ahead(n, b, d) = 1 + Ahead(x, b, d) /\ Ahead(n, a, d) = 1 + Ahead(y, a, d)
      BY <1>a, <1>b, <2>2
    <3> HIDE DEF x, y
    <3>5. QED BY <1>a, <1>b, <3>1, <3>3, <3>4
  <2>3. QED BY <2>1, <2>2 DEF Nodes
<1> HIDE DEF P
<1>2. Nodes \subseteq P
  BY <1>1, Backwards
<1>3. QED BY <1>2 DEF P

-----------------------------------------------------------------------------
(* The progress bar: what a step counts ahead is what a guest who knows only
   the answers up to it would count. *)

\* The answers to the first questions of a path, which getProgress counts with.
AskedFor(p, j) == {KeyOf[p[k]] : k \in 1..j}
Known(a, p, j) == Restrict(a, AskedFor(p, j))

LEMMA BarCounts ==
  ASSUME NEW a, NEW d, NEW i, NEW p, p = ValidPath(a, d)
  PROVE  StepCounts(a, i, d) = [j \in 1..(i - 1) |-> Ahead(p[j], Known(a, p, j), d)]
  BY DEF StepCounts, CountRemainingQuestions, Known, AskedFor

LEMMA KnownAnswers ==
  ASSUME NEW a, NEW d, NEW p, IsWalk(p, "household", a, d), NEW j \in 1..(Len(p) - 1)
  PROVE  /\ DOMAIN Known(a, p, j) = AskedFor(p, j) /\ DOMAIN Known(a, p, j) \subseteq DOMAIN a
         /\ \A key \in DOMAIN Known(a, p, j) : Known(a, p, j)[key] = a[key]
         /\ NextOf(p[j], Known(a, p, j), d) = p[j + 1]
<1> DEFINE b == Known(a, p, j)
<1>1. /\ DOMAIN b = {KeyOf[p[k]] : k \in 1..j}
      /\ \A key \in DOMAIN b : b[key] = a[key]
  BY DEF Known, Restrict, AskedFor
<1>2. Len(p) \in Nat /\ j \in 1..Len(p) /\ \A k \in 1..j : k \in 1..(Len(p) - 1)
  BY DEF IsWalk
<1>3. \A k \in 1..j : KeyOf[p[k]] \in DOMAIN a
  BY <1>2 DEF IsWalk
<1> HIDE DEF b
<1>4. DOMAIN b \subseteq DOMAIN a
  BY <1>1, <1>3
<1>5. \A k \in 1..j : Agree(b, a, KeyOf[p[k]])
  BY <1>1, <1>3 DEF Agree
<1>6. p[j] \in Questions /\ p[j + 1] = NextOf(p[j], a, d) /\ j \in 1..j
  BY <1>2 DEF IsWalk
<1>7. ASSUME p[j] \in {"employment", "gross-income"} PROVE Agree(b, a, "dateOfBirth")
  <2>1. Rank[p[j]] >= 3
    BY <1>7, Ranks
  <2>2. PICK k \in 1..j : p[k] = "birthdate"
    BY <1>2, <2>1, BirthdateComesFirst
  <2>3. QED BY <1>5, <2>2, Keys
<1>8. NextOf(p[j], b, d) = NextOf(p[j], a, d)
  BY <1>5, <1>6, <1>7, EdgeReads
<1>9. QED BY <1>1, <1>4, <1>6, <1>8 DEF b, AskedFor

\* The bar: what it counted ahead falls from step to step, and ends with the question shown.
LEMMA BarFalls ==
  ASSUME NEW a, NEW d, NEW p, IsWalk(p, "household", a, d), NEW i \in 1..Len(p), p[i] \in Questions
  PROVE  \A j \in 1..(i - 1) :
           /\ Ahead(p[j], Known(a, p, j), d) \in Nat
           /\ Ahead(p[j], Known(a, p, j), d) >= i - j + 1
           /\ j > 1 => Ahead(p[j], Known(a, p, j), d) < Ahead(p[j - 1], Known(a, p, j - 1), d)
<1>k. ASSUME NEW j \in 1..(Len(p) - 1)
      PROVE  /\ DOMAIN Known(a, p, j) = AskedFor(p, j)
             /\ \A key \in DOMAIN Known(a, p, j) : Known(a, p, j)[key] = a[key]
             /\ NextOf(p[j], Known(a, p, j), d) = p[j + 1]
  BY KnownAnswers
<1> DEFINE C(j) == Ahead(p[j], Known(a, p, j), d)
<1>0. Len(p) \in Nat /\ i \in Nat
  BY DEF IsWalk
<1>1. ASSUME NEW j \in 1..(i - 1)
      PROVE  /\ j \in 1..(Len(p) - 1) /\ j + 1 \in 1..Len(p)
             /\ p[j] \in Questions /\ p[j + 1] \in Nodes
             /\ C(j) = 1 + Ahead(p[j + 1], Known(a, p, j), d) /\ Ahead(p[j + 1], Known(a, p, j), d) \in Nat
  <2>1. j \in 1..(Len(p) - 1) /\ j + 1 \in 1..Len(p)
    BY <1>0
  <2>2. p[j] \in Questions /\ p[j + 1] \in Nodes
    BY <2>1, WalkIndices DEF IsWalk
  <2>3. NextOf(p[j], Known(a, p, j), d) = p[j + 1]
    BY <1>k, <2>1 DEF AskedFor
  <2>4. QED BY <2>1, <2>2, <2>3, AheadCounts
<1>2. ASSUME NEW j \in 1..(i - 1), j + 1 < i PROVE C(j) > C(j + 1)
  <2> DEFINE b == Known(a, p, j)
             c == Known(a, p, j + 1)
  <2>1. j + 1 \in 1..(i - 1) /\ j \in 1..(Len(p) - 1) /\ j + 1 \in 1..(Len(p) - 1) /\ p[j + 1] \in Nodes
    <3>1. j + 1 \in 1..(i - 1)
      BY <1>0, <1>2
    <3>2. i - 1 \in 0..(Len(p) - 1)
      BY <1>0
    <3>3. QED BY <1>0, <1>1, <3>1, <3>2
  <2>2. /\ DOMAIN b = {KeyOf[p[k]] : k \in 1..j} /\ \A key \in DOMAIN b : b[key] = a[key]
    BY <1>k, <2>1 DEF AskedFor
  <2>3. /\ DOMAIN c = {KeyOf[p[k]] : k \in 1..(j + 1)} /\ \A key \in DOMAIN c : c[key] = a[key]
    BY <1>k, <2>1 DEF AskedFor
  <2>4. 1..j \subseteq 1..(j + 1)
    OBVIOUS
  <2> HIDE DEF b, c
  <2>5. DOMAIN b \subseteq DOMAIN c /\ \A key \in DOMAIN b : b[key] = c[key]
    BY <2>2, <2>3, <2>4
  <2>6. Ahead(p[j + 1], b, d) >= Ahead(p[j + 1], c, d)
    BY <2>1, <2>5, AheadMore
  <2>7. Ahead(p[j + 1], c, d) \in Nat /\ Ahead(p[j + 1], b, d) \in Nat
    BY <2>1, AheadCounts
  <2>8. C(j) = 1 + Ahead(p[j + 1], b, d) /\ C(j + 1) = Ahead(p[j + 1], c, d)
    BY <1>1 DEF b, c
  <2> HIDE DEF C
  <2>9. QED BY <2>6, <2>7, <2>8
<1>3. ASSUME NEW j \in 1..(i - 1), j + 1 = i PROVE C(j) >= 2
  <2>1. \A b : Ahead(p[i], b, d) = 1 + Ahead(NextOf(p[i], b, d), b, d) /\ Ahead(NextOf(p[i], b, d), b, d) \in Nat
    BY AheadCounts, EdgesLeadOn
  <2>2. QED BY <1>1, <1>3, <2>1
<1>4. \A j \in 1..(i - 1) : C(j) \in Nat
  BY <1>1
<1> HIDE DEF C
<1> DEFINE T == {t \in 1..(i - 1) : ~(C(i - t) >= t + 1)}
<1>5. ASSUME T # {} PROVE FALSE
  <2>1. T \subseteq Nat
    BY <1>0
  <2>2. PICK t \in T : \A u \in T : t <= u
    BY <1>5, <2>1, LeastElement
  <2>3. t \in 1..(i - 1) /\ ~(C(i - t) >= t + 1)
    OBVIOUS
  <2> DEFINE j == i - t
  <2>4. j \in 1..(i - 1) /\ j + t = i
    BY <1>0, <2>3
  <2>5. t # 1
    <3>1. t = 1 => j + 1 = i
      BY <2>4
    <3>2. t = 1 => C(j) >= 2
      BY <1>3, <2>4, <3>1
    <3>3. QED BY <2>3, <3>2
  <2>6. t - 1 \in 1..(i - 1) /\ ~(t <= t - 1) /\ i - (t - 1) = j + 1 /\ j + 1 < i /\ j + 1 \in 1..(i - 1)
    BY <1>0, <2>3, <2>4, <2>5
  <2> DEFINE u == t - 1
  <2>7. u \notin T
    <3> HIDE DEF T, u
    <3>1. ~(t <= u)
      BY <2>6 DEF u
    <3>2. QED BY <2>2, <3>1
  <2>8. C(i - u) >= u + 1
    BY <2>6, <2>7
  <2>9. C(j + 1) >= t
    BY <2>3, <2>6, <2>8
  <2>10. C(j) > C(j + 1) /\ C(j) \in Nat /\ C(j + 1) \in Nat
    BY <1>2, <1>4, <2>4, <2>6
  <2>11. C(j) >= t + 1
    <3> HIDE DEF j
    <3>1. QED BY <2>3, <2>9, <2>10
  <2>12. QED BY <2>3, <2>11
<1>6. ASSUME NEW j \in 1..(i - 1) PROVE C(j) >= i - j + 1
  <2>1. i - j \in 1..(i - 1) /\ i - (i - j) = j
    BY <1>0
  <2> DEFINE t == i - j
  <2>2. t \notin T
    BY <1>5
  <2>3. C(i - t) >= t + 1
    BY <2>1, <2>2
  <2>4. QED BY <2>1, <2>3
<1>7. ASSUME NEW j \in 1..(i - 1), j > 1 PROVE C(j) < C(j - 1)
  <2>1. j - 1 \in 1..(i - 1) /\ (j - 1) + 1 = j /\ (j - 1) + 1 < i
    BY <1>0, <1>7
  <2>2. C(j - 1) > C((j - 1) + 1)
    BY <1>2, <2>1
  <2>3. C(j) \in Nat /\ C(j - 1) \in Nat
    BY <1>4, <2>1
  <2>4. QED BY <2>1, <2>2, <2>3
<1>8. QED BY <1>4, <1>6, <1>7 DEF C

LEMMA IndexFound ==
  ASSUME NEW a, NEW d, NEW n, NEW p, IsWalk(p, n, a, d), NEW q \in OnPath(p)
  PROVE  Index(q, p) \in 1..Len(p) /\ p[Index(q, p)] = q /\ q \in Questions
<1>1. DOMAIN p = 1..Len(p)
  BY DEF IsWalk
<1>2. q \in Questions /\ \E i \in DOMAIN p : p[i] = q
  BY DEF OnPath
<1>3. QED BY <1>1, <1>2 DEF Index

\* The bar is never full while a question is shown, and moves ahead with every answer: whatever
\* is answered, and whichever questions turn up on the way.
THEOREM BarNeverFull == Spec => []BarKeepsRoom
<1>1. BarKeepsRoom
  <2> DEFINE p == ValidPath(answers, Today)
             i == Index(page, p)
  <2>1. CASE page \in Questions /\ page \in OnPath(p)
    <3>1. IsWalk(p, "household", answers, Today)
      BY ValidPathWalks
    <3>2. i \in 1..Len(p) /\ p[i] = page /\ Len(p) \in Nat /\ i \in Nat \ {0}
      <4>1. Len(p) \in Nat
        BY <3>1 DEF IsWalk
      <4>2. i \in 1..Len(p) /\ p[i] = page
        BY <2>1, <3>1, IndexFound
      <4> HIDE DEF i, p
      <4>3. QED BY <4>1, <4>2
    <3>3. Bar = [j \in 1..(i - 1) |-> Ahead(p[j], Known(answers, p, j), Today)]
      BY <2>1, BarCounts DEF Bar
    <3> HIDE DEF p, i
    <3>4. DOMAIN Bar = 1..(i - 1) /\ Len(Bar) = i - 1
      BY <3>2, <3>3
    <3>5. \A j \in 1..(i - 1) :
            /\ Bar[j] \in Nat /\ Bar[j] >= i - j + 1
            /\ j > 1 => j - 1 \in 1..(i - 1) /\ Bar[j] < Bar[j - 1]
      <4>1. ASSUME NEW j \in 1..(i - 1), j > 1 PROVE j - 1 \in 1..(i - 1)
        BY <3>2, <4>1
      <4>2. QED BY <2>1, <3>1, <3>2, <3>3, <4>1, BarFalls
    <3>6. ASSUME NEW j \in 1..(i - 1)
          PROVE  /\ Bar[j] >= (Len(Bar) + 1 - j) + 1
                 /\ j > 1 => Bar[j] < Bar[j - 1]
      <4>1. i - j + 1 = (Len(Bar) + 1 - j) + 1
        BY <3>2, <3>4
      <4>2. QED BY <3>5, <4>1
    <3>7. QED BY <3>4, <3>6 DEF BarKeepsRoom
  <2>2. CASE ~(page \in Questions /\ page \in OnPath(p))
    BY <2>2 DEF BarKeepsRoom, Bar
  <2>3. QED BY <2>1, <2>2
<1>2. QED BY <1>1, PTL

-----------------------------------------------------------------------------
(* The invariant: the store holds answers of the schema, the view remembers
   the path of these answers on this day or an earlier one, and a card that
   lets the guest go on shows the answer of the store. *)

LEMMA Bounded ==
  ASSUME NEW S, NEW n \in Nat
  PROVE  \A s : s \in BoundedSeq(S, n) <=> s \in Seq(S) /\ Len(s) <= n
<1>1. ASSUME NEW s \in BoundedSeq(S, n) PROVE s \in Seq(S) /\ Len(s) <= n
  <2>1. PICK m \in 0..n : s \in [1..m -> S]
    BY DEF BoundedSeq, SeqOf
  <2>2. QED BY <2>1
<1>2. ASSUME NEW s \in Seq(S), Len(s) <= n PROVE s \in BoundedSeq(S, n)
  <2>1. Len(s) \in 0..n /\ s \in [1..Len(s) -> S]
    BY <1>2
  <2>2. QED BY <2>1 DEF BoundedSeq, SeqOf
<1>3. QED BY <1>1, <1>2

\* What the store holds, and what a card shows of a field while it is filled in.
AnswersFit(a) ==
  /\ DOMAIN a \subseteq {KeyOf[q] : q \in Questions}
  /\ \A q \in Questions : KeyOf[q] \in DOMAIN a => a[KeyOf[q]] \in Values(q)
Rows == BoundedSeq(Options["children"] \cup {Empty, BadDate}, MaxChildren)
DraftFits(q, v) ==
  v \in IF q \notin DraftQuestions THEN {NoDraft} ELSE IF q = "children" THEN Rows ELSE Fields(q)

\* The path of the view is the one of the answers, on this day or an earlier one.
Remembered == page # "home" => \E i \in 1..day : path = ValidPath(answers, Days[i])
Shape ==
  /\ page \in Questions \cup {"home", "result"} /\ AnswersFit(answers) /\ DraftFits(page, draft)
  /\ invalid \in BOOLEAN /\ (page \in Questions => page \in OnPath(path)) /\ day \in DOMAIN Days
EInv == Shape /\ Remembered /\ DraftIsAnswer

LEMMA CardSets ==
  /\ DraftQuestions \subseteq Questions /\ NumberQuestions \subseteq DraftQuestions
  /\ "children" \in DraftQuestions /\ "birthdate" \in DraftQuestions /\ "household" \in Questions
  /\ "household" \notin DraftQuestions /\ "children" \notin NumberQuestions /\ "children" # "birthdate"
  /\ "home" \notin Questions /\ "result" \notin Questions /\ "home" # "result"
  /\ ChoiceQuestions \cap DraftQuestions = {} /\ ChoiceQuestions \subseteq Questions
  BY DEF DraftQuestions, NumberQuestions, Questions, ChoiceQuestions

LEMMA PathStarts ==
  ASSUME NEW a, NEW d
  PROVE  /\ ValidPath(a, d)[1] = "household" /\ "household" \in OnPath(ValidPath(a, d))
         /\ OnPath(ValidPath(a, d)) \subseteq Questions
<1> DEFINE p == ValidPath(a, d)
<1>1. IsWalk(p, "household", a, d)
  BY ValidPathWalks
<1> HIDE DEF p
<1>2. p[1] = "household" /\ 1 \in DOMAIN p
  BY <1>1 DEF IsWalk
<1>3. QED BY <1>2, CardSets DEF OnPath, p

LEMMA RowsWiden == Rows \subseteq BoundedSeq(Fields("children"), MaxChildren)
<1>1. ASSUME NEW s \in Rows PROVE s \in BoundedSeq(Fields("children"), MaxChildren)
  <2>1. s \in Seq(Options["children"] \cup {Empty, BadDate}) /\ Len(s) <= MaxChildren
    BY Bounded, BoundsAssumption DEF Rows
  <2>2. s \in Seq(Fields("children"))
    BY <2>1 DEF Fields
  <2>3. QED BY <2>1, <2>2, Bounded, BoundsAssumption
<1>2. QED BY <1>1

LEMMA ShapeTyped == Shape => TypeOK
<1> SUFFICES ASSUME Shape PROVE TypeOK
  OBVIOUS
<1>1. draft \in IF page \notin DraftQuestions THEN {NoDraft}
                ELSE IF page = "children" THEN BoundedSeq(Fields(page), MaxChildren) ELSE Fields(page)
  BY RowsWiden DEF Shape, DraftFits
<1>2. QED BY <1>1 DEF Shape, TypeOK, AnswersFit

\* A card that is mounted shows the answer of the store.
LEMMA MountedFits ==
  ASSUME NEW a, AnswersFit(a), NEW q \in Questions
  PROVE  /\ DraftFits(q, InitialDraft(q, a))
         /\ q \in DraftQuestions /\ KeyOf[q] \in DOMAIN a => InitialDraft(q, a) = a[KeyOf[q]]
<1>1. q \in DraftQuestions /\ KeyOf[q] \in DOMAIN a => InitialDraft(q, a) = a[KeyOf[q]]
  BY DEF InitialDraft
<1>2. CASE q \notin DraftQuestions
  BY <1>2, <1>1 DEF InitialDraft, DraftFits
<1>3. CASE q \in DraftQuestions /\ KeyOf[q] \in DOMAIN a
  <2>1. a[KeyOf[q]] \in Values(q)
    BY <1>3 DEF AnswersFit
  <2>2. ASSUME q = "children" PROVE a[KeyOf[q]] \in Rows
    <3>1. a[KeyOf[q]] \in Seq(Options["children"]) /\ Len(a[KeyOf[q]]) <= MaxChildren
      BY <2>1, <2>2, Bounded, BoundsAssumption DEF Values
    <3>2. a[KeyOf[q]] \in Seq(Options["children"] \cup {Empty, BadDate})
      BY <3>1
    <3>3. QED BY <3>1, <3>2, Bounded, BoundsAssumption DEF Rows
  <2>3. q # "children" => a[KeyOf[q]] \in Fields(q)
    BY <2>1 DEF Values, Fields
  <2>4. QED BY <1>1, <1>3, <2>2, <2>3 DEF DraftFits
<1>4. CASE q \in DraftQuestions /\ KeyOf[q] \notin DOMAIN a
  <2>1. InitialDraft(q, a) = Blank(q)
    BY <1>4 DEF InitialDraft
  <2>2. <<Empty>> \in Rows
    <3>1. <<Empty>> \in Seq(Options["children"] \cup {Empty, BadDate}) /\ Len(<<Empty>>) = 1
      OBVIOUS
    <3> DEFINE one == <<Empty>>
    <3>2. one \in Seq(Options["children"] \cup {Empty, BadDate}) /\ Len(one) <= MaxChildren
      BY <3>1, BoundsAssumption
    <3> HIDE DEF one
    <3>3. one \in Rows
      BY <3>2, Bounded, BoundsAssumption DEF Rows
    <3>4. QED BY <3>3 DEF one
  <2>3. QED BY <1>1, <1>4, <2>1, <2>2 DEF DraftFits, Blank, Fields
<1>5. QED BY <1>1, <1>2, <1>3, <1>4

LEMMA ArriveInv ==
  ASSUME EInv, NEW q, NEW i \in 1..day, NEW p, p = ValidPath(answers, Days[i]), Arrive(q, p),
         answers' = answers, invalid' = invalid, day' = day
  PROVE  EInv'
<1>1. p[1] = "household" /\ "household" \in OnPath(p) /\ OnPath(p) \subseteq Questions
  BY PathStarts
<1>2. /\ page' \in OnPath(p) /\ page' \in Questions /\ path' = p
      /\ \/ page' = page /\ draft' = draft
         \/ page' # page /\ draft' = InitialDraft(page', answers)
  BY <1>1 DEF Arrive
<1>3. DraftFits(page', draft') /\ AnswersFit(answers)
  BY <1>2, MountedFits DEF EInv, Shape
<1>4. Shape'
  BY <1>2, <1>3 DEF EInv, Shape
<1>5. Remembered'
  BY <1>2 DEF Remembered
<1>6. DraftIsAnswer'
  BY <1>2, <1>3, MountedFits DEF EInv, DraftIsAnswer, CanSubmit
<1>7. QED BY <1>4, <1>5, <1>6 DEF EInv

\* The view is left for the start page or the result.
LEMMA LeaveInv ==
  ASSUME EInv, page' \in {"home", "result"}, draft' = NoDraft, AnswersFit(answers'), day' = day,
         invalid' \in BOOLEAN, page' = "home" \/ (answers' = answers /\ path' = ValidPath(answers, Today))
  PROVE  EInv'
<1>1. page' \notin Questions /\ page' \notin DraftQuestions
  BY CardSets
<1>2. Shape'
  BY <1>1 DEF EInv, Shape, DraftFits
<1>3. day \in 1..day
  BY DaysAssumption DEF EInv, Shape
<1>4. Remembered'
  BY <1>3 DEF Remembered, Today
<1>5. QED BY <1>1, <1>2, <1>4 DEF EInv, DraftIsAnswer

LEMMA NothingFits == AnswersFit(<<>>)
  BY DEF AnswersFit

LEMMA ShowResultInv ==
  ASSUME EInv, ShowResult, draft' = NoDraft, day' = day, invalid' = (invalid /\ page' # "home")
  PROVE  EInv'
<1>1. \/ page' = "result" /\ path' = ValidPath(answers, Today) /\ answers' = answers
      \/ page' = "home" /\ answers' = <<>>
  BY DEF ShowResult
<1>2. invalid' \in BOOLEAN
  BY DEF EInv, Shape
<1>3. AnswersFit(answers')
  BY <1>1, NothingFits DEF EInv, Shape
<1>4. QED BY <1>1, <1>2, <1>3, LeaveInv

\* A value is put into the card of the question shown, and the store takes, drops or refuses it.
LEMMA ApplyInv ==
  ASSUME EInv, page \in Questions, NEW b, ApplyAnswers(b), AnswersFit(b), day' = day,
         NEW v, DraftFits(page, v), draft' = (IF page' = page THEN v ELSE NoDraft),
         page \in DraftQuestions /\ KeyOf[page] \in DOMAIN b => v = b[KeyOf[page]]
  PROVE  EInv'
<1> DEFINE p == ValidPath(b, Today)
<1>1. p[1] = "household" /\ "household" \in OnPath(p) /\ OnPath(p) \subseteq Questions
  BY PathStarts
<1>2. /\ answers' = b /\ invalid' = FALSE /\ path' = p
      /\ page' \in OnPath(p) /\ (page' = page \/ page' = "household")
  BY <1>1 DEF ApplyAnswers
<1>3. DraftFits(page', draft')
  BY <1>2, CardSets DEF DraftFits
<1>4. Shape'
  BY <1>1, <1>2, <1>3 DEF EInv, Shape
<1>5. day \in 1..day
  BY DaysAssumption DEF EInv, Shape
<1>6. Remembered'
  BY <1>2, <1>5 DEF Remembered, Today
<1>7. DraftIsAnswer'
  BY <1>2, CardSets DEF DraftIsAnswer, CanSubmit
<1>8. QED BY <1>4, <1>6, <1>7 DEF EInv

LEMMA RefuseInv ==
  ASSUME EInv, page \in Questions, invalid' = TRUE, UNCHANGED <<answers, path, page, day>>,
         NEW v, DraftFits(page, v), draft' = v
  PROVE  EInv'
<1>1. Shape' /\ Remembered'
  BY DEF EInv, Shape, Remembered
<1>2. QED BY <1>1 DEF EInv, DraftIsAnswer

LEMMA SetInv ==
  ASSUME EInv, page \in Questions, NEW v, DraftFits(page, v) \/ page \notin DraftQuestions, SetAnswer(KeyOf[page], v),
         SchemaAccepts(KeyOf[page], v) => v \in Values(page), day' = day,
         draft' = (IF page' = page THEN IF page \in DraftQuestions THEN v ELSE NoDraft ELSE NoDraft)
  PROVE  EInv'
<1> DEFINE key == KeyOf[page]
           w == IF page \in DraftQuestions THEN v ELSE NoDraft
           b == [k \in DOMAIN answers \cup {key} |-> IF k = key THEN v ELSE answers[k]]
<1>1. DraftFits(page, w)
  BY DEF DraftFits
<1>2. CASE SchemaAccepts(key, v)
  <2>1. ApplyAnswers(b)
    BY <1>2 DEF SetAnswer
  <2>2. key \in DOMAIN b /\ b[key] = v /\ DOMAIN b = DOMAIN answers \cup {key}
        /\ \A k \in DOMAIN answers : k # key => b[k] = answers[k]
    OBVIOUS
  <2>3. AnswersFit(answers) /\ v \in Values(page)
    BY <1>2 DEF EInv, Shape
  <2> HIDE DEF b
  <2>4. DOMAIN b \subseteq {KeyOf[q] : q \in Questions}
    BY <2>2, <2>3 DEF AnswersFit
  <2>5. ASSUME NEW q \in Questions, KeyOf[q] \in DOMAIN b PROVE b[KeyOf[q]] \in Values(q)
    <3>1. CASE KeyOf[q] = key
      <4>1. q = page
        BY <3>1, KeysDiffer
      <4>2. QED BY <2>2, <2>3, <4>1
    <3>2. CASE KeyOf[q] # key
      BY <2>2, <2>3, <2>5, <3>2 DEF AnswersFit
    <3>3. QED BY <3>1, <3>2
  <2>6. AnswersFit(b)
    BY <2>4, <2>5 DEF AnswersFit
  <2>7. page \in DraftQuestions /\ key \in DOMAIN b => w = b[key]
    BY <2>2
  <2>8. draft' = (IF page' = page THEN w ELSE NoDraft)
    OBVIOUS
  <2> HIDE DEF w, key
  <2>9. QED BY <1>1, <2>1, <2>6, <2>7, <2>8, ApplyInv DEF key
<1>3. CASE ~SchemaAccepts(key, v)
  <2>1. invalid' = TRUE /\ UNCHANGED <<answers, path, page, day>> /\ draft' = w
    BY <1>3 DEF SetAnswer
  <2> HIDE DEF w
  <2>2. QED BY <1>1, <2>1, RefuseInv
<1>4. QED BY <1>2, <1>3

LEMMA ClearInv ==
  ASSUME EInv, page \in Questions, NEW v, DraftFits(page, v), ClearAnswer(KeyOf[page]), day' = day,
         draft' = (IF page' = page THEN v ELSE NoDraft)
  PROVE  EInv'
<1> DEFINE b == Restrict(answers, DOMAIN answers \ {KeyOf[page]})
<1>1. ApplyAnswers(b)
  BY DEF ClearAnswer
<1>2. DOMAIN b = DOMAIN answers \ {KeyOf[page]} /\ \A k \in DOMAIN b : b[k] = answers[k]
  BY DEF Restrict
<1> HIDE DEF b
<1>3. AnswersFit(b)
  BY <1>2 DEF EInv, Shape, AnswersFit
<1>4. KeyOf[page] \notin DOMAIN b
  BY <1>2
<1>5. QED BY <1>1, <1>3, <1>4, ApplyInv

LEMMA UpdateInv ==
  ASSUME EInv, NEW next \in Rows, NEW allValid, UpdateChildren(next, allValid)
  PROVE  EInv'
<1>1. page = "children" /\ page \in Questions /\ page \in DraftQuestions /\ KeyOf[page] = "children"
  BY CardSets, Keys DEF UpdateChildren
<1>2. DraftFits(page, next) /\ day' = day /\ draft' = (IF page' = page THEN next ELSE NoDraft)
  BY <1>1 DEF UpdateChildren, DraftFits, Field
<1>3. CASE /\ SetAnswer("children", next)
           /\ \A i \in DOMAIN next : next[i] # Empty
  <2>1. ASSUME SchemaAccepts("children", next) PROVE next \in Values("children")
    <3>1. next \in Seq(Options["children"] \cup {Empty, BadDate}) /\ Len(next) <= MaxChildren
      BY Bounded, BoundsAssumption DEF Rows
    <3>2. \A i \in DOMAIN next : next[i] # BadDate
      BY <2>1 DEF SchemaAccepts, Range
    <3>3. \A i \in 1..Len(next) : next[i] \in Options["children"]
      BY <1>3, <3>1, <3>2
    <3>4. next \in Seq(Options["children"])
      BY <3>1, <3>3
    <3>5. QED BY <3>1, <3>4, Bounded, BoundsAssumption DEF Values
  <2>2. QED BY <1>1, <1>2, <1>3, <2>1, SetInv
<1>4. CASE ClearAnswer("children")
  BY <1>1, <1>2, <1>4, ClearInv
<1>5. QED BY <1>3, <1>4 DEF UpdateChildren

LEMMA EInvStep == EInv /\ [Next]_vars => EInv'
<1> SUFFICES ASSUME EInv, [Next]_vars PROVE EInv'
  OBVIOUS
<1>0. /\ day \in 1..day /\ Today = Days[day] /\ DOMAIN Days = 1..Len(Days) /\ day \in 1..Len(Days) /\ Len(Days) \in Nat
      /\ page \in Questions \cup {"home", "result"}
      /\ page \in Questions \cup {"result"} => \E i \in 1..day : path = ValidPath(answers, Days[i])
  BY CardSets, DaysAssumption DEF EInv, Shape, Remembered, Today
<1>1. CASE StartCheck
  BY <1>0, <1>1, ArriveInv DEF StartCheck
<1>2. ASSUME NEW q \in Bookmarks, OpenUrl(q) PROVE EInv'
  <2>1. CASE page \in Questions
    BY <1>0, <1>2, <2>1, ArriveInv DEF OpenUrl
  <2>2. CASE page \notin Questions
    BY <1>0, <1>2, <2>2, ArriveInv DEF OpenUrl
  <2>3. QED BY <2>1, <2>2
<1>3. CASE OpenResultUrl
  BY <1>3, ShowResultInv DEF OpenResultUrl
<1>4. CASE NavigateNext
  <2>1. page \in Questions
    BY <1>4 DEF NavigateNext, CanSubmit
  <2>2. CASE NextOf(page, answers, Today) \in Results
    BY <1>4, <2>2, ShowResultInv DEF NavigateNext
  <2>3. CASE NextOf(page, answers, Today) \notin Results
    BY <1>0, <1>4, <2>1, <2>3, ArriveInv DEF NavigateNext
  <2>4. QED BY <2>2, <2>3
<1>home. ASSUME GoHome PROVE EInv'
  BY <1>home, LeaveInv, NothingFits DEF GoHome
<1>5. CASE NavigateBack
  <2>1. page \in Questions
    BY <1>5 DEF NavigateBack
  <2>2. CASE page = path[1]
    BY <1>5, <1>home, <2>2 DEF NavigateBack
  <2>3. CASE page # path[1]
    BY <1>0, <1>5, <2>1, <2>3, ArriveInv DEF NavigateBack
  <2>4. QED BY <2>2, <2>3
<1>6. CASE BackFromResult
  BY <1>0, <1>6, ArriveInv DEF BackFromResult
<1>7. CASE StartOver
  BY <1>7, <1>home DEF StartOver
<1>8. CASE Midnight
  <2>1. /\ day < Len(Days) /\ day' = day + 1 /\ page' = page /\ answers' = answers
        /\ draft' = draft /\ invalid' = invalid /\ path' = path
    BY <1>8 DEF Midnight
  <2>2. day' \in DOMAIN Days /\ 1..day \subseteq 1..day'
    BY <1>0, <2>1
  <2>3. Shape'
    BY <2>1, <2>2 DEF EInv, Shape
  <2>4. Remembered'
    BY <2>1, <2>2 DEF EInv, Remembered
  <2>5. DraftIsAnswer'
    BY <2>1 DEF EInv, DraftIsAnswer, CanSubmit
  <2>6. QED BY <2>3, <2>4, <2>5 DEF EInv
<1>9. ASSUME NEW v, Choose(v) PROVE EInv'
  <2>1. /\ page \in Questions /\ page \notin DraftQuestions /\ v \in Options[page] /\ page # "children"
        /\ SetAnswer(KeyOf[page], v) /\ draft' = draft /\ day' = day
    BY <1>9, CardSets DEF Choose
  <2>2. draft = NoDraft /\ v \in Values(page)
    BY <2>1 DEF EInv, Shape, DraftFits, Values
  <2>3. QED BY <2>1, <2>2, SetInv
<1>10. ASSUME NEW v, TypeNumber(v) PROVE EInv'
  <2>1. /\ page \in Questions /\ page \in DraftQuestions /\ page # "children" /\ day' = day
        /\ v \in Options[page] \cup {Empty, TooBig} /\ draft' = (IF page' = page THEN v ELSE NoDraft)
    BY <1>10, CardSets DEF TypeNumber, Field
  <2>2. DraftFits(page, v)
    BY <2>1 DEF DraftFits, Fields
  <2>3. CASE v = Empty
    BY <1>10, <2>1, <2>2, <2>3, ClearInv DEF TypeNumber
  <2>4. CASE v # Empty
    <3>1. KeyOf[page] # "children"
      <4>1. "children" \in Questions /\ KeyOf["children"] = "children"
        BY CardSets, Keys
      <4>2. QED BY <2>1, <4>1, KeysDiffer
    <3>2. SchemaAccepts(KeyOf[page], v) => v \in Values(page)
      BY <2>1, <2>4, <3>1 DEF SchemaAccepts, Values
    <3>3. SetAnswer(KeyOf[page], v)
      BY <1>10, <2>4 DEF TypeNumber
    <3>4. QED BY <2>1, <2>2, <3>2, <3>3, SetInv
  <2>5. QED BY <2>3, <2>4
<1>11. ASSUME NEW v, PickDate(v) PROVE EInv'
  <2>1. /\ page = "birthdate" /\ page \in Questions /\ page \in DraftQuestions /\ page # "children" /\ day' = day
        /\ v \in Options[page] \cup {Empty, BadDate} /\ draft' = (IF page' = page THEN v ELSE NoDraft)
        /\ KeyOf[page] = "dateOfBirth"
    BY <1>11, CardSets, Keys DEF PickDate, Field
  <2>2. DraftFits(page, v)
    BY <2>1 DEF DraftFits, Fields
  <2>3. CASE v \in {Empty, BadDate}
    <3>1. ClearAnswer(KeyOf[page])
      BY <1>11, <2>1, <2>3 DEF PickDate
    <3>2. QED BY <2>1, <2>2, <3>1, ClearInv
  <2>4. CASE v \notin {Empty, BadDate}
    <3>1. SetAnswer(KeyOf[page], v)
      BY <1>11, <2>1, <2>4 DEF PickDate
    <3>2. v \in Values(page)
      BY <2>1, <2>4 DEF Values
    <3>3. QED BY <2>1, <2>2, <3>1, <3>2, SetInv
  <2>5. QED BY <2>3, <2>4
<1>rows. ASSUME page = "children"
         PROVE  /\ draft \in Seq(Options["children"] \cup {Empty, BadDate}) /\ Len(draft) <= MaxChildren
                /\ Len(draft) \in Nat /\ DOMAIN draft = 1..Len(draft)
  <2>1. draft \in Rows
    BY <1>rows, CardSets DEF EInv, Shape, DraftFits
  <2>2. QED BY <2>1, Bounded, BoundsAssumption DEF Rows
<1>in. ASSUME NEW s \in Seq(Options["children"] \cup {Empty, BadDate}), Len(s) <= MaxChildren PROVE s \in Rows
  BY <1>in, Bounded, BoundsAssumption DEF Rows
<1>12. CASE AddChild
  <2>1. page = "children" /\ Len(draft) < MaxChildren /\ UpdateChildren(Append(draft, Empty), FALSE)
    BY <1>12 DEF AddChild
  <2>2. Append(draft, Empty) \in Seq(Options["children"] \cup {Empty, BadDate}) /\ Len(Append(draft, Empty)) = Len(draft) + 1
    BY <1>rows, <2>1, AppendElements
  <2> DEFINE next == Append(draft, Empty)
  <2>3. next \in Seq(Options["children"] \cup {Empty, BadDate}) /\ Len(next) <= MaxChildren
    BY <1>rows, <2>1, <2>2, BoundsAssumption
  <2> HIDE DEF next
  <2>4. next \in Rows
    BY <1>in, <2>3
  <2>5. QED BY <2>1, <2>4, UpdateInv DEF next
<1>13. ASSUME NEW j, RemoveChild(j) PROVE EInv'
  <2>1. page = "children" /\ j \in DOMAIN draft /\ UpdateChildren(RemoveAt(draft, j), Valid(RemoveAt(draft, j)))
    BY <1>13 DEF RemoveChild
  <2>2. RemoveAt(draft, j) \in Seq(Options["children"] \cup {Empty, BadDate}) /\ Len(RemoveAt(draft, j)) = Len(draft) - 1
    BY <1>rows, <2>1, RemoveAtIndices
  <2>3. RemoveAt(draft, j) \in Rows
    BY <1>in, <1>rows, <2>1, <2>2, BoundsAssumption
  <2>4. QED BY <2>1, <2>3, UpdateInv
<1>14. ASSUME NEW j, NEW v, EditChild(j, v) PROVE EInv'
  <2> DEFINE next == [draft EXCEPT ![j] = v]
  <2>1. /\ page = "children" /\ j \in DOMAIN draft /\ v \in Options["children"] \cup {Empty, BadDate}
        /\ UpdateChildren(next, Valid(next))
    BY <1>14 DEF EditChild
  <2>2. next \in Seq(Options["children"] \cup {Empty, BadDate}) /\ Len(next) = Len(draft)
    BY <1>rows, <2>1
  <2> HIDE DEF next
  <2>3. next \in Rows
    BY <1>in, <1>rows, <2>1, <2>2
  <2>4. QED BY <2>1, <2>3, UpdateInv
<1>15. CASE UNCHANGED vars
  BY <1>15 DEF vars, EInv, Shape, Remembered, DraftIsAnswer, CanSubmit
<1>16. QED BY <1>1, <1>2, <1>3, <1>4, <1>5, <1>6, <1>7, <1>8, <1>9, <1>10, <1>11, <1>12, <1>13, <1>14, <1>15 DEF Next

LEMMA EInvInit == Init => EInv
<1> SUFFICES ASSUME Init PROVE EInv
  OBVIOUS
<1>0. 1 \in DOMAIN Days
  <2>1. Days \in Seq(Dates) /\ Days # <<>>
    BY DaysAssumption
  <2>2. Len(Days) \in Nat /\ Len(Days) # 0 /\ DOMAIN Days = 1..Len(Days)
    BY <2>1
  <2>3. QED BY <2>2
<1>1. Shape
  <2>1. page \notin Questions /\ page \notin DraftQuestions
    BY CardSets DEF Init
  <2>2. DraftFits(page, draft)
    BY <2>1 DEF Init, DraftFits
  <2>3. QED BY <1>0, <2>1, <2>2, NothingFits DEF Init, Shape
<1>2. QED BY <1>1, CardSets DEF Init, EInv, Remembered, DraftIsAnswer

\* The store holds answers of the schema only, and the view shows a question of its path.
THEOREM EligibilityTyped == Spec => []TypeOK
<1>1. EInv => TypeOK
  BY ShapeTyped DEF EInv
<1>2. QED BY <1>1, EInvInit, EInvStep, PTL DEF Spec

\* When a card lets the guest go on and shows no error, the store has what its field shows.
THEOREM DraftsAreAnswers == Spec => []DraftIsAnswer
<1>1. EInv => DraftIsAnswer
  BY DEF EInv
<1>2. QED BY <1>1, EInvInit, EInvStep, PTL DEF Spec

-----------------------------------------------------------------------------
(* Editing the question shown leaves the way to it alone. *)

\* Two sets of answers that differ in the answer to one question at most.
DifferAt(q, a, b) == \A k : k # KeyOf[q] => Agree(a, b, k)

LEMMA AskedBefore ==
  ASSUME NEW a, NEW d, NEW p, IsWalk(p, "household", a, d), NEW i \in 1..Len(p), p[i] \in Questions,
         NEW j \in 1..(i - 1)
  PROVE  /\ j \in 1..Len(p) /\ p[j] \in Questions /\ Rank[p[j]] < Rank[p[i]]
         /\ KeyOf[p[j]] # KeyOf[p[i]] /\ KeyOf[p[j]] \in DOMAIN a
<1>0. Len(p) \in Nat
  BY DEF IsWalk
<1>1. j \in 1..Len(p) /\ j < i /\ j < Len(p) /\ j # i
  BY <1>0
<1>2. p[j] \in Questions /\ KeyOf[p[j]] \in DOMAIN a
  BY <1>1, WalkIndices
<1>3. p[j] # p[i]
  BY <1>1, OncePerWalk
<1>4. KeyOf[p[j]] # KeyOf[p[i]]
  BY <1>2, <1>3, KeysDiffer
<1>5. Rank[p[j]] < Rank[p[i]]
  BY <1>1, Ascending
<1>6. QED BY <1>1, <1>2, <1>4, <1>5

LEMMA PathToQuestion ==
  ASSUME NEW a, NEW b, NEW d, NEW q \in Questions, DifferAt(q, a, b),
         NEW p, NEW r, IsWalk(p, "household", a, d), IsWalk(r, "household", b, d), NEW i \in 1..Len(p), p[i] = q
  PROVE  i \in 1..Len(r) /\ \A j \in 1..i : r[j] = p[j]
<1>0. Len(p) \in Nat /\ Len(r) \in Nat /\ i \in Nat \ {0}
  BY DEF IsWalk
<1>1. ASSUME NEW j \in 1..(i - 1)
      PROVE  /\ KeyOf[p[j]] # KeyOf[q] /\ KeyOf[p[j]] \in DOMAIN a
             /\ NextOf(p[j], a, d) = NextOf(p[j], b, d) /\ KeyOf[p[j]] \in DOMAIN b
  <2>2. /\ p[j] \in Questions /\ Rank[p[j]] < Rank[q]
        /\ KeyOf[p[j]] # KeyOf[q] /\ KeyOf[p[j]] \in DOMAIN a
    BY AskedBefore
  <2>5. ASSUME p[j] \in {"employment", "gross-income"} PROVE KeyOf[q] # "dateOfBirth"
    <3>2. Rank["birthdate"] = 3 /\ Rank[p[j]] \in {5, 6}
      BY <2>5, Ranks
    <3>3. q # "birthdate"
      BY <2>2, <3>2
    <3>4. "birthdate" \in Questions /\ KeyOf["birthdate"] = "dateOfBirth"
      BY CardSets, Keys
    <3>5. QED BY <3>3, <3>4, KeysDiffer
  <2>6. NextOf(p[j], a, d) = NextOf(p[j], b, d)
    BY <2>2, <2>5, EdgeReads DEF DifferAt
  <2>7. KeyOf[p[j]] \in DOMAIN b
    BY <2>2 DEF Agree, DifferAt
  <2>8. QED BY <2>2, <2>6, <2>7
<1>2. i <= Len(r) /\ \A j \in 1..i : r[j] = p[j]
  <2>1. \A j \in 1..(i - 1) : NextOf(p[j], a, d) = NextOf(p[j], b, d) /\ KeyOf[p[j]] \in DOMAIN b
    BY <1>1
  <2>2. QED BY <2>1, SamePrefix
<1>3. i \in 1..Len(r)
  BY <1>0, <1>2
<1>4. QED BY <1>1, <1>2, <1>3

LEMMA SameBar ==
  ASSUME NEW a, NEW b, NEW d, NEW q \in Questions, DifferAt(q, a, b),
         NEW p, NEW r, p = ValidPath(a, d), r = ValidPath(b, d), q \in OnPath(p)
  PROVE  q \in OnPath(r) /\ StepCounts(a, Index(q, p), d) = StepCounts(b, Index(q, r), d)
<1> DEFINE i == Index(q, p)
<1>1. IsWalk(p, "household", a, d) /\ IsWalk(r, "household", b, d)
  BY ValidPathWalks
<1>2. i \in 1..Len(p) /\ p[i] = q
  BY <1>1, IndexFound
<1> HIDE DEF i
<1>a. i \in 1..Len(r) /\ \A j \in 1..i : r[j] = p[j]
  BY <1>1, <1>2, PathToQuestion
<1>b. ASSUME NEW j \in 1..(i - 1) PROVE KeyOf[p[j]] # KeyOf[q] /\ KeyOf[p[j]] \in DOMAIN a
  BY <1>1, <1>2, AskedBefore
<1>3. /\ i \in 1..Len(r) /\ \A j \in 1..i : r[j] = p[j]
      /\ \A j \in 1..(i - 1) : KeyOf[p[j]] # KeyOf[q] /\ KeyOf[p[j]] \in DOMAIN a
  BY <1>a, <1>b
<1>0. Len(p) \in Nat /\ Len(r) \in Nat /\ i \in Nat \ {0} /\ DOMAIN r = 1..Len(r)
  <2>1. Len(p) \in Nat /\ Len(r) \in Nat /\ DOMAIN r = 1..Len(r)
    BY <1>1 DEF IsWalk
  <2>2. QED BY <1>2, <2>1
<1>4. r[i] = q
  BY <1>0, <1>2, <1>3
<1>5. q \in OnPath(r)
  BY <1>0, <1>3, <1>4 DEF OnPath
<1>6. Index(q, r) = i
  <2>1. Index(q, r) \in 1..Len(r) /\ r[Index(q, r)] = q
    BY <1>1, <1>5, IndexFound
  <2>2. QED BY <1>1, <1>3, <1>4, <2>1, OncePerWalk
<1>7. ASSUME NEW j \in 1..(i - 1) PROVE p[j] = r[j] /\ Known(a, p, j) = Known(b, r, j)
  <2>1. j \in 1..i /\ \A k \in 1..j : k \in 1..i /\ k \in 1..(i - 1)
    BY <1>0
  <2>2. AskedFor(p, j) = AskedFor(r, j)
    BY <1>3, <2>1 DEF AskedFor
  <2>3. \A x \in AskedFor(p, j) : a[x] = b[x]
    BY <1>3, <2>1 DEF AskedFor, Agree, DifferAt
  <2>4. QED BY <1>3, <2>1, <2>2, <2>3 DEF Known, Restrict
<1>8. StepCounts(a, i, d) = [j \in 1..(i - 1) |-> Ahead(p[j], Known(a, p, j), d)]
  BY BarCounts
<1>9. StepCounts(b, i, d) = [j \in 1..(i - 1) |-> Ahead(r[j], Known(b, r, j), d)]
  BY BarCounts
<1>10. QED BY <1>5, <1>6, <1>7, <1>8, <1>9 DEF i

\* One step in a question changes the answer to that question.
LEMMA EditsOne ==
  ASSUME EInv, Next, page' = page, answers' # answers
  PROVE  page \in Questions /\ DifferAt(page, answers, answers')
<1> USE DEF Agree, DifferAt
<1>1. ASSUME page \in Questions, NEW v, SetAnswer(KeyOf[page], v)
      PROVE  DifferAt(page, answers, answers')
  BY <1>1 DEF SetAnswer, ApplyAnswers
<1>2. ASSUME page \in Questions, ClearAnswer(KeyOf[page])
      PROVE  DifferAt(page, answers, answers')
  BY <1>2 DEF ClearAnswer, ApplyAnswers, Restrict
<1>3. CASE StartCheck \/ BackFromResult \/ Midnight \/ \E q \in Bookmarks : OpenUrl(q)
  BY <1>3 DEF StartCheck, BackFromResult, Midnight, OpenUrl
<1>4. CASE OpenResultUrl
  BY <1>4, CardSets DEF OpenResultUrl, ShowResult
<1>5. CASE NavigateNext
  BY <1>5, CardSets DEF NavigateNext, CanSubmit, ShowResult
<1>6. CASE NavigateBack \/ StartOver
  BY <1>6, CardSets DEF NavigateBack, StartOver, GoHome
<1>7. ASSUME NEW v, Choose(v) \/ TypeNumber(v) \/ PickDate(v) PROVE page \in Questions /\ DifferAt(page, answers, answers')
  <2>1. page \in Questions
    BY <1>7, CardSets DEF Choose, TypeNumber, PickDate
  <2>2. SetAnswer(KeyOf[page], v) \/ ClearAnswer(KeyOf[page])
    BY <1>7, Keys DEF Choose, TypeNumber, PickDate
  <2>3. QED BY <1>1, <1>2, <2>1, <2>2
<1>8. ASSUME NEW next, NEW ok, UpdateChildren(next, ok)
      PROVE  page \in Questions /\ DifferAt(page, answers, answers')
  <2>1. page \in Questions /\ KeyOf[page] = "children"
    BY <1>8, CardSets, Keys DEF UpdateChildren
  <2>2. SetAnswer(KeyOf[page], next) \/ ClearAnswer(KeyOf[page])
    BY <1>8, <2>1 DEF UpdateChildren
  <2>3. QED BY <1>1, <1>2, <2>1, <2>2
<1>9. CASE AddChild \/ (\E j : RemoveChild(j)) \/ (\E j, v : EditChild(j, v))
  BY <1>8, <1>9 DEF AddChild, RemoveChild, EditChild
<1> HIDE DEF Agree, DifferAt
<1>10. QED BY <1>3, <1>4, <1>5, <1>6, <1>7, <1>9 DEF Next

\* Answering, changing or clearing the question shown does not move the bar.
THEOREM EditsKeepTheBar == Spec => EditingKeepsTheBar
<1>1. ASSUME EInv, [Next]_vars PROVE page' = page /\ day' = day /\ answers' # answers => Bar' = Bar
  <2> SUFFICES ASSUME page' = page, day' = day, answers' # answers PROVE Bar' = Bar
    OBVIOUS
  <2>1. page \in Questions /\ DifferAt(page, answers, answers')
    <3>1. Next
      BY <1>1 DEF vars
    <3>2. QED BY <1>1, <3>1, EditsOne
  <2> DEFINE a == answers
             b == answers'
             d == Today
             p == ValidPath(a, d)
             r == ValidPath(b, d)
  <2>2. Today' = d
    BY DEF Today
  <2>3. Bar = IF page \in OnPath(p) THEN StepCounts(a, Index(page, p), d) ELSE <<>>
    BY <2>1 DEF Bar
  <2>4. Bar' = IF page \in OnPath(r) THEN StepCounts(b, Index(page, r), d) ELSE <<>>
    BY <2>1, <2>2 DEF Bar
  <2>5. DifferAt(page, b, a)
    BY <2>1 DEF Agree, DifferAt
  <2>6. DifferAt(page, a, b)
    BY <2>1
  <2>7. page \in OnPath(p) => page \in OnPath(r) /\ StepCounts(a, Index(page, p), d) = StepCounts(b, Index(page, r), d)
    <3> HIDE DEF a, b, d
    <3>1. QED BY <2>1, <2>6, SameBar
  <2>8. page \in OnPath(r) => page \in OnPath(p)
    <3> HIDE DEF a, b, d
    <3>1. QED BY <2>1, <2>5, SameBar
  <2> HIDE DEF a, b, d, p, r
  <2>9. QED BY <2>3, <2>4, <2>7, <2>8
<1>2. QED BY <1>1, EInvInit, EInvStep, PTL DEF Spec, EditingKeepsTheBar

-----------------------------------------------------------------------------
(* The rules: the standard need is a sum over the children. *)

\* A sum along a sequence of numbers is a number, although it is defined by recursion.
Sums(f, g, base, len) == [n \in 0..len |-> IF n = 0 THEN base ELSE f[n - 1] + g[n]]

LEMMA SumsExist == ASSUME NEW g, NEW base, NEW len \in Nat PROVE \E f : f = Sums(f, g, base, len)
<1> DEFINE Good(f, k) == \A n \in 0..k : f[n] = Sums(f, g, base, len)[n]
           T == {k \in 0..len : ~\E f : Good(f, k)}
<1>1. ASSUME T # {} PROVE FALSE
  <2>1. T \subseteq Nat
    OBVIOUS
  <2>2. PICK k \in T : \A u \in T : k <= u
    BY <1>1, <2>1, LeastElement
  <2>3. k \in 0..len /\ ~\E f : Good(f, k)
    OBVIOUS
  <2>4. k # 0
    <3> DEFINE f == [n \in {0} |-> base]
    <3>1. f[0] = Sums(f, g, base, len)[0]
      BY DEF Sums
    <3> HIDE DEF f
    <3>2. k = 0 => Good(f, k)
      BY <3>1
    <3>3. QED BY <2>3, <3>2
  <2>5. PICK f : Good(f, k - 1)
    <3> DEFINE j == k - 1
    <3>1. j \in 0..len /\ ~(k <= j)
      BY <2>3, <2>4
    <3> HIDE DEF j
    <3>2. j \notin T
      <4> HIDE DEF T
      <4>1. QED BY <2>2, <3>1
    <3>3. \E f : Good(f, j)
      BY <3>1, <3>2
    <3>4. QED BY <3>3 DEF j
  <2> DEFINE h == [n \in 0..k |-> IF n = k THEN f[k - 1] + g[k] ELSE f[n]]
  <2>6. ASSUME NEW n \in 0..k PROVE h[n] = Sums(h, g, base, len)[n]
    <3>1. n \in 0..len /\ k - 1 \in 0..k /\ k - 1 # k
      BY <2>3, <2>4
    <3>2. n # 0 => n - 1 \in 0..k /\ n - 1 # k
      BY <2>3
    <3>3. n # k => n \in 0..(k - 1)
      BY <2>3
    <3>4. n # k => f[n] = Sums(f, g, base, len)[n]
      BY <2>5, <3>3
    <3>5. n # 0 => h[n - 1] = f[n - 1]
      BY <3>2
    <3>6. h[n] = IF n = k THEN f[k - 1] + g[k] ELSE f[n]
      OBVIOUS
    <3> HIDE DEF h, T, Good
    <3>7. QED BY <2>4, <3>1, <3>4, <3>5, <3>6 DEF Sums
  <2> HIDE DEF h
  <2>7. Good(h, k)
    BY <2>6
  <2>8. QED BY <2>3, <2>7
<1>2. PICK f : Good(f, len)
  <2>1. len \in 0..len /\ len \notin T
    BY <1>1
  <2>2. QED BY <2>1
<1> DEFINE h == [n \in 0..len |-> f[n]]
<1>3. Sums(h, g, base, len) = Sums(f, g, base, len)
  <2>1. ASSUME NEW n \in 0..len, n # 0 PROVE h[n - 1] = f[n - 1]
    <3>1. n - 1 \in 0..len
      BY <2>1
    <3>2. QED BY <3>1
  <2> HIDE DEF h, T, Good
  <2>2. QED BY <2>1 DEF Sums
<1>4. h = Sums(f, g, base, len)
  BY <1>2 DEF Sums
<1>5. QED BY <1>3, <1>4

LEMMA SumsAreNumbers ==
  ASSUME NEW g, NEW base \in Int, NEW len \in Nat, \A n \in 1..len : g[n] \in Int, NEW f, f = Sums(f, g, base, len)
  PROVE  f[len] \in Int
<1> DEFINE T == {k \in 0..len : f[k] \notin Int}
<1>1. ASSUME T # {} PROVE FALSE
  <2>1. T \subseteq Nat
    OBVIOUS
  <2>2. PICK k \in T : \A u \in T : k <= u
    BY <1>1, <2>1, LeastElement
  <2>3. k \in 0..len /\ f[k] \notin Int
    OBVIOUS
  <2>4. f[k] = IF k = 0 THEN base ELSE f[k - 1] + g[k]
    BY <2>3 DEF Sums
  <2>5. k # 0
    BY <2>3, <2>4
  <2> DEFINE j == k - 1
  <2>6. j \in 0..len /\ ~(k <= j) /\ k \in 1..len
    BY <2>3, <2>5
  <2>7. f[j] \in Int
    <3> HIDE DEF j
    <3>1. j \notin T
      <4> HIDE DEF T
      <4>1. QED BY <2>2, <2>6
    <3>2. QED BY <2>6, <3>1
  <2>8. g[k] \in Int
    BY <2>6
  <2>9. QED BY <2>3, <2>4, <2>5, <2>7, <2>8
<1>2. len \in 0..len
  OBVIOUS
<1>3. QED BY <1>1, <1>2

LEMMA AgesAreNumbers == ASSUME NEW dob \in Dates, NEW today \in Dates PROVE AgeOn(dob, today) \in Int
  BY DEF AgeOn, Dates

LEMMA NeedIsNumber ==
  ASSUME NEW a, AnswersFit(a), NEW today \in Dates
  PROVE  StandardNeed(a, today) \in Int
<1> DEFINE ages == ChildAges(a, today)
           g == [n \in 1..Len(ages) |-> ChildNeed(ages[n])]
           base == IF IsCouple(a) THEN 2 * Regelbedarf.partner ELSE Regelbedarf.single
<1>1. Len(ages) \in Nat /\ \A n \in 1..Len(ages) : ages[n] \in Int
  <2>1. CASE HasChildren(a) /\ "children" \in DOMAIN a
    <3>1. a["children"] \in Values("children")
      BY <2>1, CardSets, Keys DEF AnswersFit
    <3>2. a["children"] \in Seq(Options["children"])
      BY <3>1, Bounded, BoundsAssumption DEF Values
    <3>3. a["children"] \in Seq(Dates)
      BY <3>2, OptionsAssumption
    <3> DEFINE kids == a["children"]
    <3>4. ages = [i \in DOMAIN kids |-> AgeOn(kids[i], today)]
      BY <2>1 DEF ChildAges
    <3>5. DOMAIN kids = 1..Len(kids) /\ Len(kids) \in Nat /\ \A i \in 1..Len(kids) : kids[i] \in Dates
      BY <3>3
    <3> HIDE DEF kids, ages
    <3>6. \A i \in 1..Len(kids) : ages[i] \in Int
      BY <3>4, <3>5, AgesAreNumbers
    <3>7. Len(ages) = Len(kids)
      BY <3>4, <3>5
    <3>8. QED BY <3>5, <3>6, <3>7
  <2>2. CASE ~(HasChildren(a) /\ "children" \in DOMAIN a)
    <3>1. ages = <<>>
      BY <2>2 DEF ChildAges
    <3>2. QED BY <3>1
  <2>3. QED BY <2>1, <2>2
<1>2. base \in Int
  BY DEF Regelbedarf
<1>3. \A n \in 1..Len(ages) : g[n] \in Int
  <2> HIDE DEF ages
  <2>1. \A age \in Int : ChildNeed(age) \in Int
    BY DEF ChildNeed, Regelbedarf
  <2>2. QED BY <1>1, <2>1
<1>4. PICK f : f = CHOOSE s : s = [n \in 0..Len(ages) |-> IF n = 0 THEN base ELSE s[n - 1] + ChildNeed(ages[n])]
  OBVIOUS
<1>5. StandardNeed(a, today) = f[Len(ages)]
  BY <1>4 DEF StandardNeed
<1> HIDE DEF ages, base
<1>6. \A s : [n \in 0..Len(ages) |-> IF n = 0 THEN base ELSE s[n - 1] + ChildNeed(ages[n])] = Sums(s, g, base, Len(ages))
  BY <1>1 DEF Sums
<1>7. f = Sums(f, g, base, Len(ages))
  <2>1. f = CHOOSE s : s = Sums(s, g, base, Len(ages))
    BY <1>4, <1>6
  <2> HIDE DEF g
  <2>2. QED BY <1>1, <2>1, SumsExist
<1> HIDE DEF g
<1>8. QED BY <1>1, <1>2, <1>3, <1>5, <1>7, SumsAreNumbers

LEMMA AmountsAreNumbers ==
  ASSUME NEW a, AnswersFit(a), NEW q \in NumberQuestions
  PROVE  Amount(a, KeyOf[q]) \in Nat
<1>1. q \in Questions /\ q # "children"
  BY CardSets
<1>2. KeyOf[q] \in DOMAIN a => a[KeyOf[q]] \in Nat
  BY <1>1, OptionsAssumption DEF AnswersFit, Values
<1>3. QED BY <1>2 DEF Amount

LEMMA PathFits == ASSUME NEW a, AnswersFit(a), NEW d PROVE AnswersFit(AnswersOnValidPath(a, d))
  BY DEF AnswersFit, AnswersOnValidPath, Restrict

\* Who is too poor for Wohngeld has an income below the needs, which count the rent as well.
LEMMA TooPoorIsNotCovered ==
  ASSUME NEW a, AnswersFit(a), NEW today \in Dates,
         Assess(a, "WOHNGELD", today).reason = "income_too_low_for_wohngeld", NEW b \in Benefits
  PROVE  Assess(a, b, today).reason # "income_covers_needs"
<1> DEFINE need == StandardNeed(a, today)
           rent == Amount(a, "monthlyWarmRent")
           net == Amount(a, "monthlyNetHouseholdIncome")
<1>1. need \in Int
  BY NeedIsNumber
<1>2. rent \in Nat /\ net \in Nat
  <2>1. "warm-rent" \in NumberQuestions /\ "net-income" \in NumberQuestions
    BY DEF NumberQuestions
  <2>2. QED BY <2>1, AmountsAreNumbers, Keys
<1>3. net < need
  <2>1. Assess(a, "WOHNGELD", today) = Soften(a, AssessWohngeld(a, today))
    BY DEF Assess
  <2>2. AssessWohngeld(a, today).status # "LIKELY"
    BY DEF AssessWohngeld, Finding
  <2>3. AssessWohngeld(a, today).reason = "income_too_low_for_wohngeld"
    BY <2>1, <2>2 DEF Soften
  <2>4. QED BY <2>3 DEF AssessWohngeld, Finding
<1>4. ~(net >= need + rent)
  <2> HIDE DEF need, rent, net
  <2>1. QED BY <1>1, <1>2, <1>3
<1>5. ASSUME NEW allowance PROVE MeansTest(a, today, allowance).reason # "income_covers_needs"
  BY <1>4 DEF MeansTest, Finding
<1>6. AssessGrundsicherungsgeld(a, today).reason # "income_covers_needs"
  BY <1>5 DEF AssessGrundsicherungsgeld, Finding
<1>7. AssessGrundsicherungAlter(a, today).reason # "income_covers_needs"
  BY <1>5 DEF AssessGrundsicherungAlter, Finding
<1>8. AssessWohngeld(a, today).reason # "income_covers_needs"
  BY DEF AssessWohngeld, Finding
<1>9. AssessKinderzuschlag(a, today).reason # "income_covers_needs"
  BY DEF AssessKinderzuschlag, Finding
<1>10. ASSUME NEW f, f.reason # "income_covers_needs" PROVE Soften(a, f).reason # "income_covers_needs"
  BY <1>10 DEF Soften, Finding
<1>11. QED BY <1>6, <1>7, <1>8, <1>9, <1>10 DEF Assess, Benefits

\* Nobody falls between the benefits by income, for any amounts, children, rents and days.
THEOREM NoGap == Spec => []NoGapByIncome
<1>1. ASSUME EInv PROVE NoGapByIncome
  <2>1. Today \in Dates
    BY <1>1, DaysAssumption DEF EInv, Shape, Today
  <2>2. AnswersFit(AnswersOnValidPath(answers, Today))
    BY <1>1, PathFits DEF EInv, Shape
  <2>3. QED BY <2>1, <2>2, TooPoorIsNotCovered DEF NoGapByIncome, Shown
<1>2. QED BY <1>1, EInvInit, EInvStep, PTL DEF Spec

-----------------------------------------------------------------------------
(* Answers left over from a branch that was left: what a walk to the eligible
   result comes by is decided by the answers that decide its edges. *)

\* A later day is no fewer full months from a date.
Months(y, m, by, bm, s) == (y - by) * 12 + (m - bm) - s
Grows(y, m, s, z, n, t, by, bm) ==
  /\ Months(z, n, by, bm, t) >= Months(y, m, by, bm, s)
  /\ Months(y, m, by, bm, s) \in Int /\ Months(z, n, by, bm, t) \in Int

InOrder(y, m, s, z, n, t, by, bm) ==
  /\ y \in Nat /\ z \in Nat /\ by \in Nat /\ m \in 1..12 /\ n \in 1..12 /\ bm \in 1..12
  /\ s \in {0, 1} /\ t \in {0, 1}
  /\ y <= z /\ (y = z => m <= n) /\ (y = z /\ m = n => t <= s)

LEMMA MonthsGrow ==
  ASSUME NEW y, NEW m, NEW z, NEW n, NEW by, NEW bm, NEW s, NEW t, InOrder(y, m, s, z, n, t, by, bm)
  PROVE  Grows(y, m, s, z, n, t, by, bm)
<1> USE DEF InOrder
<1>1. CASE y = z
  BY <1>1 DEF Grows, Months
<1>2. CASE y + 1 <= z
  <2>1. (z - by) * 12 >= (y - by) * 12 + 12
    BY <1>2
  <2>2. QED BY <2>1 DEF Grows, Months
<1>3. QED BY <1>1, <1>2

\* Who has reached the retirement age has reached it on every later day.
LEMMA RetirementLasts ==
  ASSUME NEW a, AnswersFit(a), NEW d \in Dates, NEW e \in Dates, ~Earlier(e, d), Retired(a, d)
  PROVE  Retired(a, e)
<1> DEFINE dob == a["dateOfBirth"]
<1>1. "dateOfBirth" \in DOMAIN a /\ dob \in Dates
  <2>1. "dateOfBirth" \in DOMAIN a
    BY DEF Retired
  <2>2. a["dateOfBirth"] \in Values("birthdate")
    BY <2>1, CardSets, Keys DEF AnswersFit
  <2>3. QED BY <2>1, <2>2, CardSets, OptionsAssumption DEF Values
<1>2. MonthsOn(dob, d) >= RetirementAgeInMonths(dob[1])
  BY DEF Retired, HasReachedRetirementAge
<1>3. MonthsOn(dob, e) >= MonthsOn(dob, d) /\ MonthsOn(dob, d) \in Int /\ MonthsOn(dob, e) \in Int
  <2> HIDE DEF dob
  <2>1. /\ d[1] \in Nat /\ d[2] \in 1..12 /\ d[3] \in 1..31
        /\ e[1] \in Nat /\ e[2] \in 1..12 /\ e[3] \in 1..31
        /\ dob[1] \in Nat /\ dob[2] \in 1..12 /\ dob[3] \in 1..31
    BY <1>1 DEF Dates
  <2>2. /\ d[1] <= e[1] /\ (d[1] = e[1] => d[2] <= e[2])
        /\ (d[1] = e[1] /\ d[2] = e[2] => d[3] <= e[3])
    BY <2>1 DEF Earlier
  <2> DEFINE Short(t) == IF t[3] < dob[3] THEN 1 ELSE 0
  <2>3. /\ MonthsOn(dob, d) = (d[1] - dob[1]) * 12 + (d[2] - dob[2]) - Short(d)
        /\ MonthsOn(dob, e) = (e[1] - dob[1]) * 12 + (e[2] - dob[2]) - Short(e)
    BY DEF MonthsOn
  <2>4. Short(d) \in {0, 1} /\ Short(e) \in {0, 1}
    OBVIOUS
  <2>5. d[1] = e[1] /\ d[2] = e[2] => Short(e) <= Short(d)
    BY <2>1, <2>2
  <2> HIDE DEF Short
  <2> DEFINE y == d[1]
             z == e[1]
             by == dob[1]
             m == d[2]
             n == e[2]
             bm == dob[2]
             s == Short(d)
             t == Short(e)
  <2>6. InOrder(y, m, s, z, n, t, by, bm)
    BY <2>1, <2>2, <2>4, <2>5 DEF InOrder
  <2>7. MonthsOn(dob, d) = Months(y, m, by, bm, s) /\ MonthsOn(dob, e) = Months(z, n, by, bm, t)
    BY <2>3 DEF Months
  <2> HIDE DEF y, z, by, m, n, bm, s, t
  <2>8. Grows(y, m, s, z, n, t, by, bm)
    BY <2>6, MonthsGrow
  <2>9. QED BY <2>7, <2>8 DEF Grows
<1>4. RetirementAgeInMonths(dob[1]) \in Int
  <2> HIDE DEF dob
  <2>1. dob[1] \in Nat
    BY <1>1 DEF Dates
  <2>2. QED BY <2>1 DEF RetirementAgeInMonths
<1>5. MonthsOn(dob, e) >= RetirementAgeInMonths(dob[1])
  <2> HIDE DEF dob
  <2>1. QED BY <1>2, <1>3, <1>4
<1>6. QED BY <1>1, <1>5 DEF Retired, HasReachedRetirementAge

\* What a walk comes by.
Passes(p) == {p[i] : i \in 1..Len(p)}

LEMMA PassesOn ==
  ASSUME NEW a, NEW d, NEW n, NEW p, IsWalk(p, n, a, d), NEW q \in Passes(p) \cap Questions,
         KeyOf[q] \in DOMAIN a
  PROVE  NextOf(q, a, d) \in Passes(p)
<1>1. PICK i \in 1..Len(p) : p[i] = q
  BY DEF Passes
<1>2. i # Len(p) /\ Len(p) \in Nat
  <2>1. Questions \cap Results = {}
    BY DEF Questions, Results
  <2>2. QED BY <1>1, <2>1 DEF IsWalk
<1>3. i + 1 \in 1..Len(p) /\ p[i + 1] = NextOf(q, a, d)
  BY <1>1, <1>2, WalkIndices
<1>4. QED BY <1>3 DEF Passes

\* What holds of the first node of a walk, and of the next one whenever it holds of one, holds of
\* all it comes by.
LEMMA Forwards ==
  ASSUME NEW a, NEW d, NEW n, NEW p, IsWalk(p, n, a, d), NEW P, n \in P,
         \A q \in Passes(p) \cap Questions : KeyOf[q] \in DOMAIN a /\ q \in P => NextOf(q, a, d) \in P
  PROVE  Passes(p) \subseteq P
<1>1. Len(p) \in Nat /\ p[1] = n
  BY DEF IsWalk
<1> DEFINE T == {k \in 1..Len(p) : p[k] \notin P}
<1>2. ASSUME T # {} PROVE FALSE
  <2>1. T \subseteq Nat
    OBVIOUS
  <2>2. PICK k \in T : \A u \in T : k <= u
    BY <1>2, <2>1, LeastElement
  <2>3. k \in 1..Len(p) /\ p[k] \notin P
    OBVIOUS
  <2>4. k # 1 /\ k > 1
    BY <1>1, <2>3
  <2> DEFINE j == k - 1
  <2>5. j \in 1..Len(p) /\ ~(k <= j)
    BY <1>1, <2>3, <2>4
  <2>6. p[j] \in Questions /\ p[k] = NextOf(p[j], a, d) /\ KeyOf[p[j]] \in DOMAIN a
    BY <2>3, <2>4, WalkIndices
  <2> HIDE DEF j
  <2>7. p[j] \in P
    <3>1. j \notin T
      <4> HIDE DEF T
      <4>1. QED BY <2>2, <2>5
    <3>2. QED BY <2>5, <3>1
  <2>8. p[j] \in Passes(p) \cap Questions
    BY <2>5, <2>6 DEF Passes
  <2>9. QED BY <2>3, <2>6, <2>7, <2>8
<1>3. QED BY <1>2 DEF Passes

LEMMA WalkStarts ==
  ASSUME NEW a, NEW d, NEW n, NEW p, IsWalk(p, n, a, d)
  PROVE  n \in Passes(p) /\ Passes(p) \subseteq Nodes /\ Len(p) \in Nat \ {0} /\ Len(p) \in 1..Len(p)
         /\ p[Len(p)] \in Passes(p)
  BY DEF IsWalk, Passes

\* A walk that came to a result has all the answers it asks for.
LEMMA AllAnswered ==
  ASSUME NEW a, NEW d, NEW n, NEW p, IsWalk(p, n, a, d), p[Len(p)] \in Results
  PROVE  /\ \A q \in Passes(p) \cap Questions : KeyOf[q] \in DOMAIN a
         /\ {p[i] : i \in 1..(Len(p) - 1)} = Passes(p) \cap Questions
<1>1. Len(p) \in Nat \ {0} /\ \A i \in 1..(Len(p) - 1) : p[i] \in Questions /\ KeyOf[p[i]] \in DOMAIN a
  BY DEF IsWalk
<1>2. Questions \cap Results = {}
  BY DEF Questions, Results
<1>3. ASSUME NEW q \in Passes(p) \cap Questions PROVE \E i \in 1..(Len(p) - 1) : p[i] = q
  <2>1. PICK i \in 1..Len(p) : p[i] = q
    BY DEF Passes
  <2>2. i # Len(p)
    BY <1>2, <2>1
  <2>3. i \in 1..(Len(p) - 1)
    BY <1>1, <2>2
  <2>4. QED BY <2>1, <2>3
<1>4. 1..(Len(p) - 1) \subseteq 1..Len(p)
  BY <1>1
<1>5. QED BY <1>1, <1>3, <1>4 DEF Passes

\* Past midnight the way to the result is the same, but for the work capacity of somebody who
\* has reached the retirement age.
LEMMA SameWayLater ==
  ASSUME NEW a, NEW d, NEW e, Retired(a, d) => Retired(a, e),
         NEW r, IsWalk(r, "household", a, d), r[Len(r)] \in Results,
         NEW p, IsWalk(p, "household", a, e)
  PROVE  /\ Passes(p) \subseteq Passes(r) /\ Passes(r) \ {"work-capacity"} \subseteq Passes(p)
         /\ Retired(a, e) \/ Passes(r) \subseteq Passes(p)
<1>1. \A q \in Passes(r) \cap Questions : KeyOf[q] \in DOMAIN a
  BY AllAnswered
<1>2. ASSUME NEW q \in Questions, NextOf(q, a, d) # NextOf(q, a, e)
      PROVE  NextOf(q, a, d) = "work-capacity" /\ NextOf(q, a, e) = "net-income" /\ Retired(a, e)
  <2>1. AfterIncome(a, d) # AfterIncome(a, e) =>
          AfterIncome(a, d) = "work-capacity" /\ AfterIncome(a, e) = "net-income" /\ Retired(a, e)
    BY DEF AfterIncome
  <2>2. QED BY <1>2, <2>1, Edges DEF Questions
<1>3. /\ NextOf("work-capacity", a, d) = "net-income" /\ NextOf("work-capacity", a, e) = "net-income"
      /\ "work-capacity" \in Questions
  BY Edges DEF Questions
<1>4. "household" \in Passes(r) /\ "household" \in Passes(p)
  BY WalkStarts
<1>5. Passes(p) \subseteq Passes(r)
  <2>1. ASSUME NEW q \in Passes(p) \cap Questions, q \in Passes(r) PROVE NextOf(q, a, e) \in Passes(r)
    <3>1. NextOf(q, a, d) \in Passes(r)
      BY <1>1, <2>1, PassesOn
    <3>2. CASE NextOf(q, a, d) = "work-capacity"
      <4>1. "net-income" \in Passes(r)
        BY <1>1, <1>3, <3>1, <3>2, PassesOn
      <4>2. QED BY <1>2, <3>1, <4>1
    <3>3. QED BY <1>2, <3>1, <3>2
  <2>2. QED BY <1>4, <2>1, Forwards
<1>6. Passes(r) \ {"work-capacity"} \subseteq Passes(p)
  <2> DEFINE P == Passes(p) \cup (IF "net-income" \in Passes(p) THEN {"work-capacity"} ELSE {})
  <2>1. ASSUME NEW q \in Passes(r) \cap Questions, q \in P PROVE NextOf(q, a, d) \in P
    <3>1. CASE q \in Passes(p)
      <4>1. NextOf(q, a, e) \in Passes(p)
        BY <1>1, <3>1, PassesOn
      <4>2. QED BY <1>2, <4>1
    <3>2. CASE q \notin Passes(p)
      BY <1>3, <2>1, <3>2
    <3>3. QED BY <3>1, <3>2
  <2>2. "household" \in P
    BY <1>4
  <2> HIDE DEF P
  <2>3. Passes(r) \subseteq P
    BY <2>1, <2>2, Forwards
  <2>4. QED BY <2>3 DEF P
<1>7. ASSUME ~Retired(a, e) PROVE Passes(r) \subseteq Passes(p)
  <2>1. ASSUME NEW q \in Passes(r) \cap Questions, q \in Passes(p) PROVE NextOf(q, a, d) \in Passes(p)
    <3>1. NextOf(q, a, e) \in Passes(p)
      BY <1>1, <2>1, PassesOn
    <3>2. QED BY <1>2, <1>7, <3>1
  <2>2. QED BY <1>4, <2>1, Forwards
<1>8. QED BY <1>5, <1>6, <1>7

\* The eligible result is reached past the citizenship, and past the residence status unless the
\* citizenship makes it idle.
LEMMA EligibleKnows ==
  ASSUME NEW a, NEW d, NEW p, IsWalk(p, "household", a, d), p[Len(p)] = "result_eligible"
  PROVE  /\ "citizenship" \in Passes(p) \cap Questions /\ "birthdate" \in Passes(p) \cap Questions
         /\ Is(a, "citizenship", "NON_EU") => "residence-status" \in Passes(p) \cap Questions
<1>0. /\ p[Len(p)] \in Results /\ "household" \in Questions /\ "household" \notin Results
      /\ "citizenship" \in Questions /\ "residence-status" \in Questions /\ "birthdate" \in Questions
      /\ "result_eligible" # "household" /\ "residence-status" # "household"
  BY DEF Results, Questions
<1>1. Len(p) \in Nat \ {0} /\ Len(p) \in 1..Len(p) /\ p[1] = "household"
  BY WalkStarts DEF IsWalk
<1>2. \A q \in Passes(p) \cap Questions : KeyOf[q] \in DOMAIN a
  BY <1>0, AllAnswered
<1>3. ASSUME NEW q \in Passes(p), q # "household"
      PROVE  \E m \in Passes(p) \cap Questions : q = NextOf(m, a, d)
  <2>1. PICK i \in 1..Len(p) : p[i] = q
    BY DEF Passes
  <2>2. i > 1
    BY <1>1, <1>3, <2>1
  <2>3. i - 1 \in 1..Len(p) /\ p[i - 1] \in Questions /\ p[i] = NextOf(p[i - 1], a, d)
    BY <2>1, <2>2, WalkIndices
  <2> DEFINE j == i - 1
  <2>4. p[j] \in Passes(p)
    BY <2>3 DEF Passes
  <2>5. QED BY <2>1, <2>3, <2>4
<1>4. AfterIncome(a, d) \in {"net-income", "work-capacity"}
  BY DEF AfterIncome
<1>5. ASSUME NEW m \in Questions, NextOf(m, a, d) = "result_eligible"
      PROVE  m \in {"citizenship", "residence-status"}
  BY <1>4, <1>5, Edges DEF Questions
<1>6. ASSUME NEW m \in Questions, NextOf(m, a, d) = "residence-status" PROVE m = "citizenship"
  BY <1>4, <1>6, Edges DEF Questions
<1>7. "citizenship" \in Passes(p)
  <2>1. "result_eligible" \in Passes(p)
    BY WalkStarts
  <2>2. PICK m \in Passes(p) \cap Questions : "result_eligible" = NextOf(m, a, d)
    BY <1>0, <1>3, <2>1
  <2>3. CASE m = "residence-status"
    BY <1>0, <1>3, <1>6, <2>3
  <2>4. QED BY <1>5, <2>2, <2>3
<1>8. ASSUME Is(a, "citizenship", "NON_EU") PROVE "residence-status" \in Passes(p)
  <2>1. NextOf("citizenship", a, d) = "residence-status"
    BY <1>8, Edges DEF Is
  <2>2. QED BY <1>0, <1>2, <1>7, <2>1, PassesOn
<1>9. "birthdate" \in Passes(p)
  <2>1. Rank[p[Len(p)]] >= 3
    BY <1>0, Ranks
  <2>2. PICK k \in 1..Len(p) : p[k] = "birthdate"
    BY <1>1, <2>1, BirthdateComesFirst
  <2>3. QED BY <2>2 DEF Passes
<1>10. QED BY <1>0, <1>7, <1>8, <1>9

\* The rules read the work capacity of somebody below the retirement age only.
LEMMA SameRules ==
  ASSUME NEW a, NEW b, NEW e, DifferAt("work-capacity", a, b),
         Agree(a, b, "workCapacity") \/ Retired(a, e),
         NEW benefit \in Benefits
  PROVE  Assess(a, benefit, e) = Assess(b, benefit, e)
<1>1. ASSUME NEW k, k # "workCapacity" PROVE Agree(a, b, k)
  BY <1>1, Keys DEF DifferAt
<1>2. /\ \A v : Is(a, "householdComposition", v) <=> Is(b, "householdComposition", v)
      /\ \A v : Is(a, "receivesBenefits", v) <=> Is(b, "receivesBenefits", v)
      /\ \A v : Is(a, "citizenship", v) <=> Is(b, "citizenship", v)
      /\ \A v : Is(a, "hasSecureResidenceStatus", v) <=> Is(b, "hasSecureResidenceStatus", v)
  BY <1>1 DEF Is, Agree
<1>3. /\ Amount(a, "monthlyWarmRent") = Amount(b, "monthlyWarmRent")
      /\ Amount(a, "monthlyNetHouseholdIncome") = Amount(b, "monthlyNetHouseholdIncome")
      /\ Amount(a, "monthlyGrossIncome") = Amount(b, "monthlyGrossIncome")
  BY <1>1 DEF Amount, Agree
<1>4. AgeOfAsker(a, e) = AgeOfAsker(b, e) /\ (Retired(a, e) <=> Retired(b, e))
  BY <1>1 DEF AgeOfAsker, Retired, Agree
<1>5. (IsCouple(a) <=> IsCouple(b)) /\ (HasChildren(a) <=> HasChildren(b)) /\ Adults(a) = Adults(b)
  BY <1>2 DEF IsCouple, HasChildren, Adults
<1>6. ChildAges(a, e) = ChildAges(b, e)
  BY <1>1, <1>5 DEF ChildAges, Agree
<1>7. StandardNeed(a, e) = StandardNeed(b, e)
  BY <1>5, <1>6 DEF StandardNeed
<1>8. \A allowance : MeansTest(a, e, allowance) = MeansTest(b, e, allowance)
  BY <1>1, <1>3, <1>7 DEF MeansTest, Agree
<1>9. \A f : Soften(a, f) = Soften(b, f)
  BY <1>2 DEF Soften, NeedsResidenceHint
<1>10. Retired(a, e) \/ \A v : Is(a, "workCapacity", v) <=> Is(b, "workCapacity", v)
  BY DEF Agree, Is
<1>11. AssessGrundsicherungsgeld(a, e) = AssessGrundsicherungsgeld(b, e)
  BY <1>4, <1>5, <1>8, <1>10 DEF AssessGrundsicherungsgeld
<1>12. AssessGrundsicherungAlter(a, e) = AssessGrundsicherungAlter(b, e)
  BY <1>4, <1>5, <1>8, <1>10 DEF AssessGrundsicherungAlter
<1>13. AssessWohngeld(a, e) = AssessWohngeld(b, e)
  BY <1>3, <1>7 DEF AssessWohngeld
<1>14. AssessKinderzuschlag(a, e) = AssessKinderzuschlag(b, e)
  BY <1>3, <1>5, <1>6 DEF AssessKinderzuschlag
<1>15. QED BY <1>9, <1>11, <1>12, <1>13, <1>14 DEF Assess, Benefits

\* The answers to the questions a walk comes by.
Given(a, p) == Restrict(a, {KeyOf[q] : q \in Passes(p) \cap Questions} \cap DOMAIN a)

LEMMA GivenAnswers ==
  ASSUME NEW a, NEW p
  PROVE  /\ \A q \in Questions : KeyOf[q] \in DOMAIN Given(a, p) <=> q \in Passes(p) /\ KeyOf[q] \in DOMAIN a
         /\ \A k \in DOMAIN Given(a, p) : Given(a, p)[k] = a[k] /\ \E q \in Questions : k = KeyOf[q]
<1>1. /\ DOMAIN Given(a, p) = {KeyOf[q] : q \in Passes(p) \cap Questions} \cap DOMAIN a
      /\ \A k \in DOMAIN Given(a, p) : Given(a, p)[k] = a[k]
  BY DEF Given, Restrict
<1>2. ASSUME NEW q \in Questions, KeyOf[q] \in DOMAIN Given(a, p) PROVE q \in Passes(p)
  <2>1. PICK m \in Passes(p) \cap Questions : KeyOf[m] = KeyOf[q]
    BY <1>1, <1>2
  <2>2. QED BY <2>1, KeysDiffer
<1>3. QED BY <1>1, <1>2

\* Answers left over from a branch that was left change neither a benefit on the result page nor
\* its hint, whatever was answered before and however many days the check runs over.
THEOREM LeftoversIgnored == Spec => []LeftoversDoNotCount
<1>1. ASSUME EInv PROVE LeftoversDoNotCount
  <2> SUFFICES ASSUME OnEligibleResult
               PROVE  LET given == Restrict(answers, {KeyOf[path[i]] : i \in 1..(Len(path) - 1)} \cap DOMAIN answers)
                      IN  /\ \A b \in Benefits : Shown(b) = Assess(given, b, Today)
                          /\ NeedsResidenceHint(answers) = NeedsResidenceHint(given)
    BY DEF LeftoversDoNotCount
  <2>1. page = "result" /\ page # "home" /\ AnswersFit(answers) /\ day \in DOMAIN Days
    BY <1>1, CardSets DEF EInv, Shape, OnEligibleResult
  <2>2. PICK i \in 1..day : path = ValidPath(answers, Days[i])
    BY <1>1, <2>1 DEF EInv, Remembered
  <2> DEFINE d == Days[i]
             e == Today
             p == ValidPath(answers, e)
             A == Given(answers, p)
             B == Given(answers, path)
  <2>3. d \in Dates /\ e \in Dates /\ (Retired(answers, d) => Retired(answers, e))
    <3>1. i \in DOMAIN Days /\ (i = day \/ i < day) /\ Days \in Seq(Dates)
      BY <2>1, DaysAssumption
    <3>2. i < day => ~Earlier(e, d)
      BY <2>1, <3>1, DaysAssumption DEF Today
    <3>3. d \in Dates /\ e \in Dates /\ (i = day => d = e)
      BY <2>1, <3>1 DEF Today
    <3> HIDE DEF d, e
    <3>4. QED BY <2>1, <3>1, <3>2, <3>3, RetirementLasts
  <2>4. IsWalk(path, "household", answers, d) /\ IsWalk(p, "household", answers, e)
    BY <2>2, ValidPathWalks
  <2> HIDE DEF d, e, p, A, B
  <2>5. path[Len(path)] = "result_eligible" /\ path[Len(path)] \in Results
    BY DEF OnEligibleResult, Last, Results
  <2>6. /\ \A q \in Passes(path) \cap Questions : KeyOf[q] \in DOMAIN answers
        /\ {path[j] : j \in 1..(Len(path) - 1)} = Passes(path) \cap Questions
    BY <2>4, <2>5, AllAnswered
  <2>7. Restrict(answers, {KeyOf[path[j]] : j \in 1..(Len(path) - 1)} \cap DOMAIN answers) = B
    <3>1. {KeyOf[path[j]] : j \in 1..(Len(path) - 1)} = {KeyOf[q] : q \in Passes(path) \cap Questions}
      BY <2>6
    <3>2. QED BY <3>1 DEF B, Given
  <2>8. AnswersOnValidPath(answers, e) = A
    <3>1. OnPath(p) = Passes(p) \cap Questions
      BY <2>4 DEF OnPath, Passes, IsWalk
    <3>2. QED BY <3>1 DEF A, p, AnswersOnValidPath, Given
  <2>9. /\ Passes(p) \subseteq Passes(path) /\ Passes(path) \ {"work-capacity"} \subseteq Passes(p)
        /\ Retired(answers, e) \/ Passes(path) \subseteq Passes(p)
    BY <2>3, <2>4, <2>5, SameWayLater
  <2>10. /\ \A q \in Questions : KeyOf[q] \in DOMAIN A <=> q \in Passes(p) /\ KeyOf[q] \in DOMAIN answers
         /\ \A k \in DOMAIN A : A[k] = answers[k] /\ \E q \in Questions : k = KeyOf[q]
    BY GivenAnswers DEF A
  <2>11. /\ \A q \in Questions : KeyOf[q] \in DOMAIN B <=> q \in Passes(path) /\ KeyOf[q] \in DOMAIN answers
         /\ \A k \in DOMAIN B : B[k] = answers[k] /\ \E q \in Questions : k = KeyOf[q]
    BY GivenAnswers DEF B
  <2>12. "work-capacity" \in Questions /\ KeyOf["work-capacity"] = "workCapacity"
    BY Keys DEF Questions
  <2>13. DifferAt("work-capacity", A, B)
    <3>1. ASSUME NEW k, k # KeyOf["work-capacity"] PROVE k \in DOMAIN A <=> k \in DOMAIN B
      BY <2>9, <2>10, <2>11, <3>1
    <3>2. QED BY <2>10, <2>11, <3>1 DEF DifferAt, Agree
  <2>14. "citizenship" \in Passes(path) \cap Questions /\ "birthdate" \in Passes(path) \cap Questions
         /\ (Is(answers, "citizenship", "NON_EU") => "residence-status" \in Passes(path) \cap Questions)
    BY <2>4, <2>5, EligibleKnows
  <2>15. Agree(A, B, "workCapacity") \/ Retired(A, e)
    <3>1. CASE Passes(path) \subseteq Passes(p)
      BY <2>9, <2>10, <2>11, <2>12, <3>1 DEF Agree
    <3>2. CASE Retired(answers, e)
      <4>1. "birthdate" \in Passes(p) /\ KeyOf["birthdate"] = "dateOfBirth" /\ "birthdate" \in Questions
        BY <2>9, <2>14, Keys
      <4>2. "dateOfBirth" \in DOMAIN A /\ A["dateOfBirth"] = answers["dateOfBirth"]
        BY <2>10, <3>2, <4>1 DEF Retired
      <4>3. QED BY <3>2, <4>2 DEF Retired
    <3>3. QED BY <2>9, <3>1, <3>2
  <2>16. \A b \in Benefits : Shown(b) = Assess(B, b, Today)
    <3>1. \A b \in Benefits : Assess(A, b, e) = Assess(B, b, e)
      BY <2>13, <2>15, SameRules
    <3>2. QED BY <2>8, <3>1 DEF Shown, e
  <2>17. NeedsResidenceHint(answers) = NeedsResidenceHint(B)
    <3>1. Is(answers, "citizenship", "NON_EU") <=> Is(B, "citizenship", "NON_EU")
      BY <2>6, <2>11, <2>14, Keys DEF Is
    <3>2. ASSUME Is(answers, "citizenship", "NON_EU")
          PROVE  Is(answers, "hasSecureResidenceStatus", "YES") <=> Is(B, "hasSecureResidenceStatus", "YES")
      BY <2>6, <2>11, <2>14, <3>2, Keys DEF Is
    <3>3. QED BY <3>1, <3>2, Zenon DEF NeedsResidenceHint
  <2>18. QED BY <2>7, <2>16, <2>17
<1>2. QED BY <1>1, EInvInit, EInvStep, PTL DEF Spec

=============================================================================
