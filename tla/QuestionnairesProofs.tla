------------------------ MODULE QuestionnairesProofs ------------------------
(***************************************************************************)
(* Proofs about a questionnaire that is open in the wallet, for any        *)
(* sections of the profile, any writes from elsewhere and any number of    *)
(* edits and saves.                                                        *)
(***************************************************************************)
EXTENDS Questionnaires, SequenceFacts

\* A section of the profile is a function of its fields; the markers of the cache are not.
IsFunction(x) == x = [f \in DOMAIN x |-> x[f]]

MarkersAreNoSections ==
    /\ ~IsFunction(NoFetch) /\ ~IsFunction(Asked) /\ NoFetch # Asked
    /\ \A v \in Views : \A s \in Stored[v] : IsFunction(s)

-----------------------------------------------------------------------------
(* The saves on their way are a sequence of records.                       *)

IsSave(s) ==
    s \in [page : {s.page}, requests : {s.requests}, at : {s.at}, to : {s.to}, jumps : {s.jumps}]
SavesOK ==
    /\ saves \in Seq({saves[i] : i \in DOMAIN saves})
    /\ \A i \in DOMAIN saves : IsSave(saves[i])

\* An applied save is on its way, or the section changed unnoticed.
Pending == unseen \/ \E i \in DOMAIN saves : saves[i].at = "applied"

\* Whoever knows of no change has the section as it is, or will have it with the next answer.
CacheKnows ==
    \/ Pending
    \/ fetch = Asked
    \/ fetch = stored
    \/ fetch = NoFetch /\ loaded = stored

IInv == SavesOK /\ IsFunction(stored) /\ CacheKnows

LEMMA Elements ==
  ASSUME NEW seq, NEW S, seq \in Seq(S)
  PROVE  seq \in Seq({seq[i] : i \in DOMAIN seq})
  OBVIOUS

LEMMA MergedIsFunction ==
  ASSUME NEW s, NEW payload
  PROVE  IsFunction(Merge(s, payload))
  BY DEF Merge, IsFunction

\* A new save changes nothing about the others.
LEMMA AppendedSaves ==
  ASSUME SavesOK, NEW s, IsSave(s), saves' = Append(saves, s)
  PROVE  /\ SavesOK'
         /\ (\E i \in DOMAIN saves : saves[i].at = "applied") =>
              \E i \in DOMAIN saves' : saves'[i].at = "applied"
<1> DEFINE S == {saves[i] : i \in DOMAIN saves} \cup {s}
<1>1. saves \in Seq(S) /\ s \in S
  BY DEF SavesOK
<1>2. /\ saves' \in Seq(S)
      /\ \A j \in DOMAIN saves' : saves'[j] = s \/ (j \in DOMAIN saves /\ saves'[j] = saves[j])
      /\ \A j \in DOMAIN saves : j \in DOMAIN saves' /\ saves'[j] = saves[j]
  BY <1>1, AppendElements
<1>3. saves' \in Seq({saves'[i] : i \in DOMAIN saves'})
  BY <1>2, Elements
<1>4. QED BY <1>2, <1>3 DEF SavesOK

\* Neither does a save that is answered.
LEMMA RemovedSaves ==
  ASSUME SavesOK, NEW i \in DOMAIN saves, saves' = RemoveAt(saves, i)
  PROVE  /\ SavesOK'
         /\ \A k \in DOMAIN saves \ {i} : saves[k].at = "applied" =>
              \E j \in DOMAIN saves' : saves'[j].at = "applied"
<1> DEFINE S == {saves[k] : k \in DOMAIN saves}
<1>1. saves \in Seq(S)
  BY DEF SavesOK
<1>2. /\ saves' \in Seq(S)
      /\ \A j \in DOMAIN saves' : \E k \in DOMAIN saves : saves'[j] = saves[k]
      /\ \A k \in DOMAIN saves \ {i} : \E j \in DOMAIN saves' : saves'[j] = saves[k]
  BY <1>1, RemoveAtElements
<1>3. saves' \in Seq({saves'[k] : k \in DOMAIN saves'})
  BY <1>2, Elements
<1>4. QED BY <1>2, <1>3 DEF SavesOK

\* One save is written anew.
LEMMA WrittenSaves ==
  ASSUME SavesOK, NEW i \in DOMAIN saves, NEW s, IsSave(s)
  PROVE  saves' = [saves EXCEPT ![i] = s] =>
            /\ SavesOK' /\ DOMAIN saves' = DOMAIN saves /\ saves'[i] = s
            /\ \A k \in DOMAIN saves \ {i} : saves'[k] = saves[k]
<1> DEFINE S == {saves[k] : k \in DOMAIN saves} \cup {s}
<1>1. saves \in Seq(S) /\ s \in S
  BY DEF SavesOK
<1>2. saves' = [saves EXCEPT ![i] = s] =>
        /\ saves' \in Seq(S) /\ DOMAIN saves' = DOMAIN saves /\ saves'[i] = s
        /\ \A k \in DOMAIN saves \ {i} : saves'[k] = saves[k]
  BY <1>1
<1> HIDE DEF S
<1>3. saves' \in Seq(S) => saves' \in Seq({saves'[k] : k \in DOMAIN saves'})
  BY Elements
<1>4. QED BY <1>2, <1>3 DEF SavesOK

LEMMA SaveIsSave ==
  ASSUME NEW p, NEW requests, NEW to
  PROVE  IsSave(Save(p, requests, to))
  BY DEF Save, IsSave

LEMMA SaveMoves ==
  ASSUME NEW s, IsSave(s), NEW at
  PROVE  IsSave([s EXCEPT !.at = at]) /\ [s EXCEPT !.at = at].at = at
  BY DEF IsSave

LEMMA SaveApplied ==
  ASSUME NEW s, IsSave(s), NEW jumps
  PROVE  /\ IsSave([s EXCEPT !.at = "applied", !.jumps = jumps])
         /\ [s EXCEPT !.at = "applied", !.jumps = jumps].at = "applied"
  BY DEF IsSave

LEMMA SaveGoesOn ==
  ASSUME NEW s, IsSave(s), NEW requests
  PROVE  IsSave([s EXCEPT !.requests = requests, !.at = "sent"])
  BY DEF IsSave

-----------------------------------------------------------------------------
(* The steps.                                                              *)

\* The user changes the form, and every save the user starts is a new one.
LEMMA UserKeeps ==
  ASSUME IInv, User
  PROVE  IInv'
<1>1. SavesOK /\ IsFunction(stored) /\ CacheKnows
  BY DEF IInv
<1>2. UNCHANGED <<stored, loaded, fetch, unseen>>
  BY DEF User, Edit, ChooseAndSave, SaveField, PressNext, Back, SavePage, server
<1>3. \/ saves' = saves
      \/ \E p, requests, to : saves' = Append(saves, Save(p, requests, to))
  BY DEF User, Edit, ChooseAndSave, SaveField, PressNext, Back, SavePage, Start
<1>4. CASE saves' = saves
  BY <1>1, <1>2, <1>4 DEF IInv, SavesOK, CacheKnows, Pending, IsFunction, IsSave
<1>5. CASE \E p, requests, to : saves' = Append(saves, Save(p, requests, to))
  <2>1. PICK p, requests, to : saves' = Append(saves, Save(p, requests, to))
    BY <1>5
  <2>2. /\ SavesOK'
        /\ (\E i \in DOMAIN saves : saves[i].at = "applied") =>
             \E i \in DOMAIN saves' : saves'[i].at = "applied"
    BY <1>1, <2>1, SaveIsSave, AppendedSaves
  <2>3. QED BY <1>1, <1>2, <2>2 DEF IInv, CacheKnows, Pending, IsFunction
<1>6. QED BY <1>3, <1>4, <1>5

\* A save that is applied is one the wallet will hear of.
LEMMA ApplyKeeps ==
  ASSUME IInv, NEW i \in DOMAIN saves, Apply(i)
  PROVE  IInv'
<1> DEFINE s == [saves[i] EXCEPT !.at = "applied", !.jumps = WizardPages(stored', saves[i].page)]
<1>1. SavesOK /\ IsSave(saves[i])
  BY DEF IInv, SavesOK
<1>2. saves' = [saves EXCEPT ![i] = s]
  BY DEF Apply
<1>3. IsSave(s) /\ s.at = "applied"
  BY <1>1, SaveApplied
<1> HIDE DEF s
<1>4. SavesOK' /\ DOMAIN saves' = DOMAIN saves /\ saves'[i] = s
  BY <1>1, <1>2, <1>3, WrittenSaves
<1>5. Pending'
  BY <1>3, <1>4 DEF Pending
<1>6. IsFunction(stored)'
  BY MergedIsFunction DEF Apply, IsFunction
<1>7. QED BY <1>4, <1>5, <1>6 DEF IInv, CacheKnows

\* A save that is refused was not applied.
LEMMA RefuseKeeps ==
  ASSUME IInv, NEW i \in DOMAIN saves, Refuse(i)
  PROVE  IInv'
<1> DEFINE s == [saves[i] EXCEPT !.at = "refused"]
<1>1. SavesOK /\ IsSave(saves[i]) /\ IsFunction(stored) /\ CacheKnows
  BY DEF IInv, SavesOK
<1>2. /\ saves' = [saves EXCEPT ![i] = s] /\ saves[i].at = "sent"
      /\ UNCHANGED <<stored, loaded, fetch, unseen>>
  BY DEF Refuse, server
<1>3. IsSave(s)
  BY <1>1, SaveMoves
<1> HIDE DEF s
<1>4. /\ SavesOK' /\ DOMAIN saves' = DOMAIN saves
      /\ \A k \in DOMAIN saves \ {i} : saves'[k] = saves[k]
  BY <1>1, <1>2, <1>3, WrittenSaves
<1>5. Pending => Pending'
  BY <1>2, <1>4 DEF Pending
<1>6. QED BY <1>1, <1>2, <1>4, <1>5 DEF IInv, CacheKnows, IsFunction

\* An answer of success asks for the profile again.
LEMMA SucceedKeeps ==
  ASSUME IInv, NEW i \in DOMAIN saves, Succeed(i)
  PROVE  IInv'
<1> DEFINE rest == Tail(saves[i].requests)
           onward == [saves[i] EXCEPT !.requests = rest, !.at = "sent"]
           verifies == Save(6, <<AboutMe!Verified(form, KnownProfile)>>, Stay)
<1>1. SavesOK /\ IsSave(saves[i]) /\ IsFunction(stored)
  BY DEF IInv, SavesOK
<1>2. \/ saves' = [saves EXCEPT ![i] = onward]
      \/ saves' = [saves EXCEPT ![i] = verifies]
      \/ saves' = RemoveAt(saves, i)
  BY DEF Succeed
<1>3. IsSave(onward) /\ IsSave(verifies)
  BY <1>1, SaveGoesOn, SaveIsSave
<1>4. fetch' = Asked /\ stored' = stored
  BY DEF Succeed, Invalidate, server
<1> HIDE DEF onward, verifies
<1>5. SavesOK'
  BY <1>1, <1>2, <1>3, WrittenSaves, RemovedSaves
<1>6. QED BY <1>1, <1>4, <1>5 DEF IInv, CacheKnows, IsFunction

\* An answer of failure is taken for what it says; the change, if there is one, goes unseen.
LEMMA FailureKeeps ==
  ASSUME IInv, NEW i \in DOMAIN saves, Fail(i) \/ CardAnswered(i)
  PROVE  IInv'
<1>1. SavesOK /\ IsFunction(stored) /\ CacheKnows
  BY DEF IInv
<1>2. /\ saves' = RemoveAt(saves, i)
      /\ UNCHANGED <<stored, loaded, fetch>>
      /\ unseen \/ saves[i].at = "applied" => unseen'
  <2>1. CASE Fail(i)
    <3>1. CASE saves[i].at = "refused" /\ UNCHANGED unseen
      BY <2>1, <3>1 DEF Fail, server
    <3>2. CASE saves[i].at = "applied" /\ unseen' = TRUE
      BY <2>1, <3>2 DEF Fail, server
    <3>3. QED BY <2>1, <3>1, <3>2 DEF Fail
  <2>2. CASE CardAnswered(i)
    <3>1. unseen \/ saves[i].at = "applied" => unseen'
      BY <2>2, Zenon DEF CardAnswered
    <3>2. QED BY <2>2, <3>1 DEF CardAnswered, server
  <2>3. QED BY <2>1, <2>2
<1>3. /\ SavesOK'
      /\ \A k \in DOMAIN saves \ {i} : saves[k].at = "applied" =>
           \E j \in DOMAIN saves' : saves'[j].at = "applied"
  BY <1>1, <1>2, RemovedSaves
<1>4. Pending => Pending'
  BY <1>2, <1>3 DEF Pending
<1>5. QED BY <1>1, <1>2, <1>3, <1>4 DEF IInv, CacheKnows, IsFunction

\* Requests for the profile: an older answer is never put into the cache after a newer one
\* was asked for.
LEMMA CacheKeeps ==
  ASSUME MarkersAreNoSections, IInv, Refetch \/ Read \/ Arrive \/ FetchFails \/ WriteElsewhere
  PROVE  IInv'
<1>1. SavesOK /\ IsFunction(stored) /\ CacheKnows
  BY DEF IInv
<1>2. saves' = saves
  BY DEF Refetch, Read, Arrive, FetchFails, WriteElsewhere
<1>3. SavesOK' /\ ((\E i \in DOMAIN saves : saves[i].at = "applied") =>
                     \E i \in DOMAIN saves' : saves'[i].at = "applied")
  BY <1>1, <1>2 DEF SavesOK, IsSave
<1>4. IsFunction(stored)'
  BY <1>1, MergedIsFunction
  DEF Refetch, Read, Arrive, FetchFails, WriteElsewhere, server, IsFunction
<1>5. CacheKnows'
  <2>1. CASE Refetch
    BY <2>1 DEF Refetch, Invalidate, CacheKnows
  <2>2. CASE Read
    BY <2>2 DEF Read, server, CacheKnows
  <2>3. CASE Arrive
    BY <1>1, <1>3, <2>3 DEF Arrive, server, CacheKnows, Pending
  <2>4. CASE FetchFails
    BY <2>4 DEF FetchFails, CacheKnows, Pending
  <2>5. CASE WriteElsewhere
    BY <2>5 DEF WriteElsewhere, CacheKnows, Pending
  <2>6. QED BY <2>1, <2>2, <2>3, <2>4, <2>5
<1>6. QED BY <1>3, <1>4, <1>5 DEF IInv

LEMMA InitiallyKnown == ASSUME MarkersAreNoSections, Init PROVE IInv
<1>1. SavesOK
  <2>1. saves = <<>>
    BY DEF Init
  <2>2. QED BY <2>1 DEF SavesOK
<1>2. IsFunction(stored)
  BY ViewsAssumption DEF Init, MarkersAreNoSections
<1>3. CacheKnows
  <2>1. CASE Mounted
    BY <2>1 DEF Mounted, CacheKnows
  <2>2. CASE CameThisFar
    BY <2>2 DEF CameThisFar, CacheKnows
  <2>3. QED BY <2>1, <2>2 DEF Init
<1>4. QED BY <1>1, <1>2, <1>3 DEF IInv

LEMMA KnownKept == ASSUME MarkersAreNoSections, IInv, [Next]_vars PROVE IInv'
<1>1. CASE User
  BY <1>1, UserKeeps
<1>2. CASE Read \/ WriteElsewhere \/ Refetch \/ Arrive \/ FetchFails
  BY <1>2, CacheKeeps
<1>3. ASSUME NEW i \in DOMAIN saves, Apply(i) \/ Refuse(i) PROVE IInv'
  BY <1>3, ApplyKeeps, RefuseKeeps
<1>4. ASSUME NEW i \in DOMAIN saves, Answer(i) PROVE IInv'
  <2>1. Succeed(i) \/ Fail(i) \/ CardAnswered(i)
    BY <1>4 DEF Answer
  <2>2. QED BY <2>1, SucceedKeeps, FailureKeeps
<1>5. CASE UNCHANGED vars
  BY <1>5 DEF vars, server, IInv, SavesOK, IsSave, CacheKnows, Pending, IsFunction
<1>6. QED BY <1>1, <1>2, <1>3, <1>4, <1>5 DEF Next, Server, Wallet

LEMMA CacheKnown == ASSUME MarkersAreNoSections, IInv PROVE CacheCatchesUp
  BY DEF IInv, CacheKnows, Pending, CacheCatchesUp, MarkersAreNoSections

\* When nothing is on its way and no change is known to be missed, the copy of the profile
\* that the wallet shows is the profile, whatever the sections hold, whoever else writes and
\* however many saves overlap: each answer of success starts a request of its own, and a
\* request that is dropped for it never fills the cache (invalidateQueries in
\* hooks/useProfile.ts).
THEOREM CacheIsCurrent ==
  ASSUME MarkersAreNoSections
  PROVE  Spec => []CacheCatchesUp
<1>1. Init => IInv
  BY InitiallyKnown
<1>2. IInv /\ [Next]_vars => IInv'
  BY KnownKept
<1>3. IInv => CacheCatchesUp
  BY CacheKnown
<1>4. QED BY <1>1, <1>2, <1>3, PTL DEF Spec

-----------------------------------------------------------------------------
(* The pages.                                                              *)

\* Every page leads on: to one that is behind it, where page 1.5 is behind page 1.
Place(p) == IF p = 15 THEN 3 ELSE 2 * p

LEMMA OverviewIsNoPage == ASSUME view \in Views PROVE Overview \notin AllPages
<1>1. CASE view = "housing"
  BY <1>1 DEF AllPages, Overview
<1>2. CASE view # "housing"
  <2>1. AllPages \in {1..6, 1..5, 1..7, 1..8}
    BY <1>2, ViewsAssumption DEF AllPages
  <2>2. QED BY <2>1 DEF Overview
<1>3. QED BY <1>1, <1>2

LEMMA PageNumbers == ASSUME view \in Views PROVE AllPages \subseteq 1..15
<1>1. CASE view = "housing"
  BY <1>1 DEF AllPages
<1>2. CASE view # "housing"
  <2>1. AllPages \in {1..6, 1..5, 1..7, 1..8}
    BY <1>2, ViewsAssumption DEF AllPages
  <2>2. QED BY <2>1
<1>3. QED BY <1>1, <1>2

LEMMA FirstPage == ASSUME view \in Views PROVE 1 \in AllPages
<1>1. CASE view = "housing"
  BY <1>1 DEF AllPages
<1>2. CASE view # "housing"
  <2>1. AllPages \in {1..6, 1..5, 1..7, 1..8}
    BY <1>2, ViewsAssumption DEF AllPages
  <2>2. QED BY <2>1
<1>3. QED BY <1>1, <1>2

LEMMA PagesLeadOn ==
  ASSUME view \in Views, NEW f, NEW p \in AllPages
  PROVE  /\ NextOf(f, p) \in AllPages \cup {Overview}
         /\ Place(NextOf(f, p)) > Place(p)
<1>1. CASE view = "aboutMe"
  <2>1. p \in 1..6 /\ AllPages = 1..6 /\ NextOf(f, p) = AboutMe!NextPage(f, p)
    BY <1>1 DEF AllPages, NextOf
  <2>2. AboutMe!NextPage(f, p) \in {99, 5, 6, p + 1} /\ AboutMe!NextPage(f, p) > p
        /\ (p = 6 => AboutMe!NextPage(f, p) = 99)
    BY <2>1 DEF AboutMe!NextPage, AboutMe!Overview
  <2>3. QED BY <2>1, <2>2 DEF Overview, Place
<1>2. CASE view = "household"
  <2>1. p \in 1..5 /\ AllPages = 1..5 /\ NextOf(f, p) = Household!NextPage(f, p)
    BY <1>2 DEF AllPages, NextOf
  <2>2. QED BY <2>1 DEF Household!NextPage, Household!Overview, Overview, Place
<1>3. CASE view = "housing"
  <2>1. p \in {1, 15} \cup 2..8 /\ AllPages = {1, 15} \cup 2..8 /\ NextOf(f, p) = Housing!NextPage(f, p)
    BY <1>3 DEF AllPages, NextOf
  <2>2. /\ Housing!NextPage(f, p) \in {99} \cup (IF p = 1 THEN {2, 15} ELSE {2, 3, 4, 5, 6, 7, 8})
        /\ p # 15 => Housing!NextPage(f, p) > p
    <3>1. CASE p = 1
      BY <3>1 DEF Housing!NextPage, Housing!Overview
    <3>2. CASE p = 15
      BY <3>2 DEF Housing!NextPage, Housing!Overview
    <3>3. CASE p = 2
      BY <3>3 DEF Housing!NextPage, Housing!Overview
    <3>4. CASE p = 3
      BY <3>4 DEF Housing!NextPage, Housing!Overview
    <3>5. CASE p = 4
      BY <3>5 DEF Housing!NextPage, Housing!Overview
    <3>6. CASE p = 5
      BY <3>6 DEF Housing!NextPage, Housing!Overview
    <3>7. CASE p = 6
      BY <3>7 DEF Housing!NextPage, Housing!Overview
    <3>8. CASE p = 7
      BY <3>8 DEF Housing!NextPage, Housing!Overview
    <3>9. CASE p = 8
      BY <3>9 DEF Housing!NextPage, Housing!Overview
    <3>10. QED BY <2>1, <3>1, <3>2, <3>3, <3>4, <3>5, <3>6, <3>7, <3>8, <3>9
  <2>3. QED BY <2>1, <2>2 DEF Overview, Place
<1>4. CASE view = "income"
  <2>1. p \in 1..7 /\ AllPages = 1..7 /\ NextOf(f, p) = Income!NextPage(f, p)
    BY <1>4 DEF AllPages, NextOf
  <2>2. QED BY <2>1 DEF Income!NextPage, Income!Overview, Overview, Place
<1>5. CASE view = "health"
  <2>1. p \in 1..8 /\ AllPages = 1..8 /\ NextOf(f, p) = Health!NextPage(f, p)
    BY <1>5 DEF AllPages, NextOf
  <2>2. Health!NextPage(f, p) \in {2, 3, 4, 5, 6, 7, 8, 99} /\ Health!NextPage(f, p) > p
    <3>1. CASE p = 1
      BY <3>1 DEF Health!NextPage, Health!Overview
    <3>2. CASE p = 2
      BY <3>2 DEF Health!NextPage, Health!Overview
    <3>3. CASE p = 3
      BY <3>3 DEF Health!NextPage, Health!Overview
    <3>4. CASE p = 4
      BY <3>4 DEF Health!NextPage, Health!Overview
    <3>5. CASE p = 5
      BY <3>5 DEF Health!NextPage, Health!Overview
    <3>6. CASE p = 6
      BY <3>6 DEF Health!NextPage, Health!Overview
    <3>7. CASE p = 7
      BY <3>7 DEF Health!NextPage, Health!Overview
    <3>8. CASE p = 8
      BY <3>8 DEF Health!NextPage, Health!Overview
    <3>9. QED BY <2>1, <3>1, <3>2, <3>3, <3>4, <3>5, <3>6, <3>7, <3>8
  <2>3. QED BY <2>1, <2>2 DEF Overview, Place
<1>6. QED BY <1>1, <1>2, <1>3, <1>4, <1>5, ViewsAssumption

\* The pages of a route, as the equation of its definition.
Follows(g) ==
  g = [p \in AllPages \cup {Overview} |-> IF p = Overview THEN {} ELSE {p} \cup g[NextOf(form, p)]]

\* A set of pages that Next does not leave.
ClosedPages(S) == S \subseteq AllPages /\ \A x \in S : NextOf(form, x) \in S \cup {Overview}
\* What is in every such set around a page.
Within(p) == {q \in AllPages : \A S \in SUBSET AllPages : ClosedPages(S) /\ p \in S => q \in S}

LEMMA WithinUnfolds ==
  ASSUME view \in Views, NEW p \in AllPages
  PROVE  Within(p) = {p} \cup (IF NextOf(form, p) = Overview THEN {} ELSE Within(NextOf(form, p)))
<1> DEFINE n == NextOf(form, p)
           T == {p} \cup (IF n = Overview THEN {} ELSE Within(n))
<1>0. n \in AllPages \cup {Overview}
  BY PagesLeadOn
<1>1. T \subseteq AllPages /\ p \in T
  BY DEF Within
<1>2. ClosedPages(T)
  <2>1. NextOf(form, p) \in T \cup {Overview}
    BY <1>0 DEF Within
  <2>2. ASSUME NEW x \in Within(n), n # Overview PROVE NextOf(form, x) \in T \cup {Overview}
    <3>1. x \in AllPages /\ NextOf(form, x) \in AllPages \cup {Overview}
      BY PagesLeadOn DEF Within
    <3>2. ASSUME NextOf(form, x) # Overview,
                 NEW S \in SUBSET AllPages, ClosedPages(S), n \in S PROVE NextOf(form, x) \in S
      <4>1. x \in S
        BY <3>2 DEF Within
      <4>2. QED BY <3>2, <4>1 DEF ClosedPages
    <3>3. NextOf(form, x) # Overview => NextOf(form, x) \in Within(n)
      BY <3>1, <3>2 DEF Within
    <3>4. QED BY <2>2, <3>3
  <2>3. QED BY <1>1, <2>1, <2>2 DEF ClosedPages
<1>3. Within(p) \subseteq T
  BY <1>1, <1>2 DEF Within
<1>4. T \subseteq Within(p)
  <2>1. p \in Within(p)
    BY DEF Within
  <2>2. ASSUME NEW q \in Within(n), n # Overview PROVE q \in Within(p)
    <3>1. ASSUME NEW S \in SUBSET AllPages, ClosedPages(S), p \in S PROVE q \in S
      <4>1. n \in S
        BY <2>2, <3>1 DEF ClosedPages
      <4>2. QED BY <3>1, <4>1 DEF Within
    <3>2. QED BY <3>1 DEF Within
  <2>3. QED BY <2>1, <2>2
<1>5. QED BY <1>3, <1>4

LEMMA RouteFollows ==
  ASSUME view \in Views
  PROVE  \E g : Follows(g) /\ Route = g[1]
<1> DEFINE g == [p \in AllPages \cup {Overview} |-> IF p = Overview THEN {} ELSE Within(p)]
<1>1. Overview \notin AllPages
  BY OverviewIsNoPage
<1>2. ASSUME NEW p \in AllPages PROVE g[p] = {p} \cup g[NextOf(form, p)]
  <2>1. NextOf(form, p) \in AllPages \cup {Overview}
    BY PagesLeadOn
  <2>2. QED BY <1>1, <2>1, WithinUnfolds
<1>3. Follows(g)
  <2> HIDE DEF g
  <2>1. \A p \in AllPages : g[p] = {p} \cup g[NextOf(form, p)]
    BY <1>2
  <2>2. DOMAIN g = AllPages \cup {Overview} /\ g[Overview] = {} /\ g = [p \in DOMAIN g |-> g[p]]
    BY DEF g
  <2>3. QED BY <1>1, <2>1, <2>2 DEF Follows
<1> HIDE DEF g
<1>4. Follows(CHOOSE h : Follows(h))
  BY <1>3
<1>5. Route = (CHOOSE h : Follows(h))[1]
  BY DEF Route, Follows
<1>6. QED BY <1>4, <1>5

\* Every page of a route is the first one or the next of another.
StartsAt(S, p) == \A q \in S : q \in AllPages /\ (q = p \/ \E x \in S : q = NextOf(form, x))

LEMMA RouteSteps ==
  ASSUME view \in Views
  PROVE  StartsAt(Route, 1)
<1>1. PICK g : Follows(g) /\ Route = g[1]
  BY RouteFollows
<1> DEFINE T == {t \in 0..198 : \E p \in AllPages : t = 198 - Place(p) /\ ~StartsAt(g[p], p)}
<1>2. \A p \in AllPages : Place(p) \in 0..198
  <2> SUFFICES ASSUME NEW p \in AllPages PROVE Place(p) \in 0..198
    OBVIOUS
  <2>1. p \in 1..15
    BY PageNumbers
  <2>2. QED BY <2>1 DEF Place
<1>3. ASSUME T # {} PROVE FALSE
  <2>0. T \subseteq Nat
    OBVIOUS
  <2>1. PICK t \in T : \A u \in T : t <= u
    <3> HIDE DEF T
    <3>1. QED BY <1>3, <2>0, LeastElement
  <2>2. PICK p \in AllPages : t = 198 - Place(p) /\ ~StartsAt(g[p], p)
    OBVIOUS
  <2> DEFINE n == NextOf(form, p)
  <2>3. n \in AllPages \cup {Overview} /\ Place(n) > Place(p)
    BY PagesLeadOn
  <2>4. g[p] = {p} \cup g[n] /\ g[Overview] = {}
    BY <1>1, <2>3, OverviewIsNoPage DEF Follows
  <2>5. n # Overview => StartsAt(g[n], n)
    <3> SUFFICES ASSUME n # Overview, ~StartsAt(g[n], n) PROVE FALSE
      OBVIOUS
    <3>1. 198 - Place(n) \in T
      BY <1>2, <2>3
    <3> HIDE DEF T, n
    <3>2. t <= 198 - Place(n)
      BY <2>1, <3>1
    <3> DEFINE b == Place(n)
               c == Place(p)
    <3>3. b \in 0..198 /\ c \in 0..198 /\ b > c /\ 198 - c <= 198 - b
      BY <1>2, <2>2, <2>3, <3>2
    <3> HIDE DEF b, c
    <3>4. QED BY <3>3
  <2>6. StartsAt(g[p], p)
    BY <2>3, <2>4, <2>5 DEF StartsAt
  <2>7. QED BY <2>2, <2>6
<1>4. 1 \in AllPages
  BY FirstPage
<1>5. StartsAt(g[1], 1)
  <2> SUFFICES ASSUME ~StartsAt(g[1], 1) PROVE FALSE
    OBVIOUS
  <2>1. 198 - Place(1) \in T
    BY <1>2, <1>4
  <2>2. QED BY <1>3, <2>1
<1>6. QED BY <1>1, <1>5

\* On the way through the pages, the last fixed address is only asked of somebody without one now.
LEMMA AboutMeLeadsBack ==
  ASSUME view \in Views, view = "aboutMe", NEW p \in Route, NextOf(form, p) # Overview
  PROVE  PrevOf(form, NextOf(form, p)) = p
<1>1. \A x : /\ NextOf(form, x) = AboutMe!NextPage(form, x)
             /\ PrevOf(form, x) = AboutMe!PrevPage(form, x)
  BY DEF NextOf, PrevOf
<1>2. \A q \in Route : q \in 1..6 /\ (q = 1 \/ \E x \in Route : q = AboutMe!NextPage(form, x))
  BY <1>1, RouteSteps DEF StartsAt, AllPages
<1>3. 5 \in Route =>
        form["noFixedAddress"] = "yes"
  BY <1>2 DEF AboutMe!NextPage, AboutMe!Overview
<1>4. AboutMe!PrevPage(form, AboutMe!NextPage(form, p)) = p
  <2>1. p \in 1..6 /\ AboutMe!NextPage(form, p) # 99
    BY <1>1, <1>2 DEF Overview
  <2>2. QED BY <2>1, <1>3 DEF AboutMe!NextPage, AboutMe!PrevPage, AboutMe!Overview
<1>5. QED BY <1>1, <1>4

\* On the way through the pages, a page of the housing is only led to by answers that lead back
\* to the one before.
LEMMA HousingLeadsBack ==
  ASSUME view \in Views, view = "housing", NEW p \in Route, NextOf(form, p) # Overview
  PROVE  PrevOf(form, NextOf(form, p)) = p
<1>1. \A x : /\ NextOf(form, x) = Housing!NextPage(form, x)
             /\ PrevOf(form, x) = Housing!PrevPage(form, x)
  BY DEF NextOf, PrevOf
<1>2. \A q \in Route : q \in {1, 15} \cup 2..8 /\ (q = 1 \/ \E x \in Route : q = Housing!NextPage(form, x))
  BY <1>1, RouteSteps DEF StartsAt, AllPages
<1>3. 15 \in Route =>
        form["noFixedAddress"] = "yes"
  BY <1>2 DEF Housing!NextPage, Housing!Overview
<1>4. 3 \in Route =>
        form["accomodationType"] = "RentalApartment"
  BY <1>2, <1>3 DEF Housing!NextPage, Housing!Overview
<1>5. 4 \in Route =>
        \/ form["accomodationType"] = "OwnHome"
        \/ (form["accomodationType"] = "RentalApartment" /\ form["tenancyStatus"] = "MainTenant")
  BY <1>2, <1>3, <1>4 DEF Housing!NextPage, Housing!Overview
<1>6. 5 \in Route =>
        \/ (form["accomodationType"] = "RentalApartment" /\ form["tenancyStatus"] = "Subtenant")
        \/ (form["accomodationType"] = "RentalApartment" /\ form["tenancyStatus"] = "MainTenant")
  BY <1>2, <1>3, <1>4, <1>5 DEF Housing!NextPage, Housing!Overview
<1>7. Housing!PrevPage(form, Housing!NextPage(form, p)) = p
  <2>1. p \in {1, 15} \cup 2..8 /\ Housing!NextPage(form, p) # 99
    BY <1>1, <1>2 DEF Overview
  <2>2. QED BY <2>1, <1>3, <1>4, <1>5, <1>6 DEF Housing!NextPage, Housing!PrevPage, Housing!Overview
<1>8. QED BY <1>1, <1>7

\* On the way through the pages, a page of the health form is only led to by answers that lead
\* back to the one before.
LEMMA HealthLeadsBack ==
  ASSUME view \in Views, view = "health", NEW p \in Route, NextOf(form, p) # Overview
  PROVE  PrevOf(form, NextOf(form, p)) = p
<1>1. \A x : /\ NextOf(form, x) = Health!NextPage(form, x)
             /\ PrevOf(form, x) = Health!PrevPage(form, x)
  BY DEF NextOf, PrevOf
<1>2. \A q \in Route : q \in 1..8 /\ (q = 1 \/ \E x \in Route : q = Health!NextPage(form, x))
  BY <1>1, RouteSteps DEF StartsAt, AllPages
<1>3. 2 \in Route =>
        form["isCareDependent"] = "yes"
  BY <1>2 DEF Health!NextPage, Health!Overview
<1>4. 3 \in Route =>
        form["isCareDependent"] = "yes" /\ form["hasInpatientFacilityAccommodation"] = "yes"
  BY <1>2, <1>3 DEF Health!NextPage, Health!Overview
<1>5. 5 \in Route =>
        form["abilityToWork"] = "TemporarilyDisabled"
  BY <1>2, <1>3, <1>4 DEF Health!NextPage, Health!Overview
<1>6. 6 \in Route =>
        form["abilityToWork"] = "PermanentlyDisabled"
  BY <1>2, <1>3, <1>4, <1>5 DEF Health!NextPage, Health!Overview
<1>7. 7 \in Route =>
        form["abilityToWork"] = "PermanentlyDisabled" /\ form["hasDisabilityId"] = "yes"
  BY <1>2, <1>3, <1>4, <1>5, <1>6 DEF Health!NextPage, Health!Overview
<1>8. Health!PrevPage(form, Health!NextPage(form, p)) = p
  <2>1. p \in 1..8 /\ Health!NextPage(form, p) # 99
    BY <1>1, <1>2 DEF Overview
  <2>2. QED BY <2>1, <1>3, <1>4, <1>5, <1>6, <1>7 DEF Health!NextPage, Health!PrevPage, Health!Overview
<1>9. QED BY <1>1, <1>8

LEMMA NextLeadsBack == ASSUME view \in Views PROVE BackRetracesNext
<1> SUFFICES ASSUME NEW p \in Route, NextOf(form, p) # Overview
             PROVE  PrevOf(form, NextOf(form, p)) = p
  BY DEF BackRetracesNext
<1>1. CASE view \in {"aboutMe", "housing", "health"}
  BY <1>1, AboutMeLeadsBack, HousingLeadsBack, HealthLeadsBack
<1>2. CASE view = "household"
  <2>1. p \in 1..5 /\ NextOf(form, p) = Household!NextPage(form, p)
    BY <1>2, RouteSteps DEF StartsAt, AllPages, NextOf
  <2>2. QED BY <1>2, <2>1 DEF PrevOf, Household!NextPage, Household!PrevPage, Household!Overview, Overview
<1>3. CASE view = "income"
  <2>1. p \in 1..7 /\ NextOf(form, p) = Income!NextPage(form, p)
    BY <1>3, RouteSteps DEF StartsAt, AllPages, NextOf
  <2>2. QED BY <1>3, <2>1 DEF PrevOf, Income!NextPage, Income!PrevPage, Income!Overview, Overview
<1>4. QED BY <1>1, <1>2, <1>3, ViewsAssumption

\* Back leads to the page that Next came from, whatever the answers are: for every form, on
\* every page that Next leads through from the first one (getNextPage and getPreviousPage,
\* handleNext and handleBack of the views).
THEOREM BackAlwaysRetraces == Spec => []BackRetracesNext
<1>1. Init => view \in Views
  BY DEF Init
<1>2. view \in Views /\ [Next]_vars => (view \in Views)'
  BY DEF Next, User, Server, Wallet, vars, Edit, ChooseAndSave, SaveField, PressNext, Back, SavePage,
         Apply, Refuse, Answer, Succeed, Fail, CardAnswered, Refetch, Read, Arrive, FetchFails,
         WriteElsewhere
<1>3. view \in Views => BackRetracesNext
  BY NextLeadsBack
<1>4. QED BY <1>1, <1>2, <1>3, PTL DEF Spec

-----------------------------------------------------------------------------
(* The shape of the state: what a page sends are fields of the section.    *)

SendsOK(v, r) == DOMAIN r \subseteq SectionFields(v)
ListOK(v, list) ==
    /\ list \in Seq({list[k] : k \in DOMAIN list}) /\ list # <<>>
    /\ \A k \in DOMAIN list : SendsOK(v, list[k])

LEMMA OneRequest == ASSUME NEW r, SendsOK(view, r) PROVE ListOK(view, <<r>>)
  BY DEF ListOK

LEMMA TwoRequests == ASSUME NEW q, NEW r, SendsOK(view, q), SendsOK(view, r) PROVE ListOK(view, <<q, r>>)
  BY DEF ListOK

\* The requests after the first one.
LEMMA RequestsLeft ==
  ASSUME NEW list, ListOK(view, list), Tail(list) # <<>>
  PROVE  ListOK(view, Tail(list))
<1> DEFINE S == {list[k] : k \in DOMAIN list}
           rest == Tail(list)
<1>1. list \in Seq(S) /\ list # <<>>
  BY DEF ListOK
<1>2. rest \in Seq(S) /\ \A k \in DOMAIN rest : k + 1 \in DOMAIN list /\ rest[k] = list[k + 1]
  BY <1>1
<1>3. rest \in Seq({rest[k] : k \in DOMAIN rest})
  BY <1>2, Elements
<1>4. ASSUME NEW k \in DOMAIN rest PROVE SendsOK(view, rest[k])
  BY <1>2 DEF ListOK
<1>5. QED BY <1>3, <1>4 DEF ListOK

LEMMA AboutMeSends ==
  ASSUME NEW f, NEW p \in 1..6
  PROVE  DOMAIN AboutMe!Payload(f, p) \subseteq AboutMe!StoredFields
  BY DEF AboutMe!Payload, AboutMe!SaveName, AboutMe!SaveBirth, AboutMe!SaveGender,
         AboutMe!SaveAddress, AboutMe!SaveAddressAlone, AboutMe!SaveLastAddress,
         AboutMe!SaveCitizenship, AboutMe!StoredFields, AboutMe!Merge, AboutMe!Restrict

LEMMA HouseholdSends ==
  ASSUME NEW f, NEW p \in 1..5
  PROVE  DOMAIN Household!Payload(f, p) \subseteq Household!StoredFields
  BY DEF Household!Payload, Household!SaveSupport, Household!SaveDisplaced,
         Household!SaveInsurance, Household!SaveCount, Household!SaveMarital,
         Household!StoredFields, Household!Restrict

LEMMA HousingSends ==
  ASSUME NEW f, NEW p \in {1, 15} \cup 2..8
  PROVE  DOMAIN Housing!Payload(f, p) \subseteq Housing!StoredFields
  BY DEF Housing!Payload, Housing!SaveAddress, Housing!SaveLastAddress, Housing!SaveTenancy,
         Housing!SentFields, Housing!StoredFields, Housing!Housing, Housing!Restrict

LEMMA HealthSends ==
  ASSUME NEW f, NEW p \in 1..8
  PROVE  DOMAIN Health!Payload(f, p) \subseteq Health!Fields
  BY DEF Health!Payload, Health!Sanitized, Health!SentFields, Health!Fields, Health!Restrict

\* The rows of a page are rows of its lines.
LEMMA RowsSent ==
  ASSUME NEW lines, NEW chosen, NEW amount
  PROVE  DOMAIN Income!IncomeRows(lines, chosen, amount) \subseteq lines
  BY DEF Income!IncomeRows

LEMMA IncomeSends ==
  ASSUME view \in Views, view = "income", NEW f, NEW p \in 1..7
  PROVE  ListOK(view, Income!Payloads(f, p))
<1>1. SectionFields(view) = Income!StoredFields
  BY DEF SectionFields
<1>2. /\ Income!PensionLines \subseteq Income!StoredFields
      /\ Income!OtherLines \subseteq Income!StoredFields
      /\ Income!WorkLines \subseteq Income!StoredFields
  BY DEF Income!StoredFields, Income!Lines
<1>3. \A S : S \subseteq Income!Shared => S \subseteq SectionFields(view)
  BY <1>1 DEF Income!StoredFields
<1>4. /\ SendsOK(view, Income!SaveAwaiting(f)) /\ SendsOK(view, Income!SavePrevious(f))
      /\ SendsOK(view, Income!SaveOneTime(f))
  <2>1. /\ DOMAIN Income!SaveAwaiting(f) \subseteq Income!Shared
        /\ DOMAIN Income!SavePrevious(f) \subseteq Income!Shared
        /\ DOMAIN Income!SaveOneTime(f) \subseteq Income!Shared
    BY DEF Income!SaveAwaiting, Income!SavePrevious, Income!SaveOneTime, Income!SaveQuestion,
           Income!Shared, Income!Details
  <2>2. QED BY <1>3, <2>1 DEF SendsOK
<1>5. SendsOK(view, Income!SavePension(f)) /\ SendsOK(view, Income!SaveOther(f))
  BY <1>1, <1>2, RowsSent DEF Income!SavePension, Income!SaveOther, SendsOK
<1>6. SendsOK(view, Income!SaveWork(f))
  BY <1>1 DEF Income!SaveWork, SendsOK, Income!StoredFields, Income!Shared
<1>7. SendsOK(view, Income!SaveWorkRows(f))
  <2>1. Income!SaveWorkRows(f) = <<>> \/ \E chosen, amount :
          Income!SaveWorkRows(f) = Income!IncomeRows(Income!WorkLines, chosen, amount)
    BY DEF Income!SaveWorkRows, Income!EmploymentRows
  <2>2. QED BY <1>1, <1>2, <2>1, RowsSent DEF SendsOK
<1>8. SendsOK(view, Income!SaveBank(f))
  BY <1>1 DEF Income!SaveBank, SendsOK, Income!Merge, Income!Restrict, Income!StoredFields,
              Income!Shared
<1>9. QED
  <2>1. \A r : SendsOK(view, r) => ListOK(view, <<r>>)
    BY OneRequest
  <2>2. ListOK(view, <<Income!SaveWork(f), Income!SaveWorkRows(f)>>)
    BY <1>6, <1>7, TwoRequests
  <2>3. QED BY <1>4, <1>5, <1>8, <2>1, <2>2 DEF Income!Payloads

\* What Next sends.
LEMMA RequestsSent ==
  ASSUME view \in Views, NEW f, NEW p \in AllPages
  PROVE  ListOK(view, Requests(f, p))
<1>1. CASE view = "income"
  BY <1>1, IncomeSends DEF AllPages, Requests
<1>2. CASE view # "income"
  <2>1. view \in {"aboutMe", "household", "housing", "health"}
    BY <1>2, ViewsAssumption
  <2>2. \E r : SendsOK(view, r) /\ Requests(f, p) = <<r>>
    <3>1. CASE view = "aboutMe"
      BY <3>1, AboutMeSends DEF AllPages, Requests, SendsOK, SectionFields
    <3>2. CASE view = "household"
      BY <3>2, HouseholdSends DEF AllPages, Requests, SendsOK, SectionFields
    <3>3. CASE view = "housing"
      BY <3>3, HousingSends DEF AllPages, Requests, SendsOK, SectionFields
    <3>4. CASE view = "health"
      BY <3>4, HealthSends DEF AllPages, Requests, SendsOK, SectionFields
    <3>5. QED BY <2>1, <3>1, <3>2, <3>3, <3>4
  <2>3. QED BY <2>2, OneRequest
<1>3. QED BY <1>1, <1>2

\* Typing into an input of the housing, or choosing free lodging.
LEMMA TypedInput ==
  ASSUME NEW f, NEW p, NEW e \in Housing!Edits(f, p)
  PROVE  DOMAIN e = DOMAIN f
<1>1. \/ e \in Housing!Typing(f, p)
      \/ e \in Housing!Choose(f, "tenancyStatus", {Housing!FreeLodging})
  BY DEF Housing!Edits
<1>2. CASE e \in Housing!Typing(f, p)
  <2>1. PICK i \in Housing!Inputs(f, p) : e \in Housing!TypeInto(f, i)
    BY <1>2 DEF Housing!Typing
  <2>2. QED BY <2>1 DEF Housing!TypeInto, Housing!Choose
<1>3. QED BY <1>1, <1>2 DEF Housing!Choose

\* What the user changes leaves the fields of the form as they are.
LEMMA EditedFields ==
  ASSUME view \in Views, NEW f, NEW p \in AllPages, NEW e \in EditsOf(f, p)
  PROVE  DOMAIN e = DOMAIN f
<1>1. CASE view = "aboutMe"
  <2>1. p \in 1..6 /\ e \in AboutMe!Edits(f, p)
    BY <1>1 DEF AllPages, EditsOf
  <2>2. QED BY <2>1 DEF AboutMe!Edits, AboutMe!Page1Name, AboutMe!Page2Birth, AboutMe!Page4Address,
              AboutMe!ToggleNoFixed, AboutMe!Page5LastAddress, AboutMe!Page6Citizenship,
              AboutMe!Choose, AboutMe!Type
<1>2. CASE view = "household"
  <2>1. p \in 1..5 /\ e \in Household!Edits(f, p)
    BY <1>2 DEF AllPages, EditsOf
  <2>2. QED BY <2>1 DEF Household!Edits, Household!SupportPage, Household!DisplacedPage,
              Household!InsurancePage, Household!ToggleInsurance, Household!ToggleNone,
              Household!CountPage, Household!MaritalPage, Household!Choose, Household!Type
<1>3. CASE view = "housing"
  <2>1. e \in Housing!Edits(f, p)
    BY <1>3 DEF EditsOf
  <2>2. QED BY <2>1, TypedInput
<1>4. CASE view = "income"
  <2>1. p \in 1..7 /\ e \in Income!Edits(f, p)
    BY <1>4 DEF AllPages, EditsOf
  <2>2. ASSUME NEW field, NEW values, e \in Income!Texts(f, field, values)
        PROVE  DOMAIN e = DOMAIN f
    BY <2>2 DEF Income!Texts
  <2>3. ASSUME NEW question, NEW details, e \in Income!QuestionStep(f, question, details)
        PROVE  DOMAIN e = DOMAIN f
    BY <2>2, <2>3 DEF Income!QuestionStep
  <2>4. ASSUME NEW chosen, e \in Income!IncomeAmountField(f, chosen) PROVE DOMAIN e = DOMAIN f
    BY <2>4 DEF Income!IncomeAmountField
  <2>5. ASSUME e \in Income!PensionStep(f) \cup Income!OtherIncomeStep(f) PROVE DOMAIN e = DOMAIN f
    BY <2>4, <2>5 DEF Income!PensionStep, Income!OtherIncomeStep
  <2>6. ASSUME e \in Income!EmploymentStep(f) \cup Income!BankDetailsStep(f)
        PROVE  DOMAIN e = DOMAIN f
    BY <2>2, <2>6 DEF Income!EmploymentStep, Income!BankDetailsStep
  <2>7. ASSUME e \in Income!OneTimePaymentsStep(f) PROVE DOMAIN e = DOMAIN f
    BY <2>2, <2>3, <2>7 DEF Income!OneTimePaymentsStep
  <2>8. \/ e \in Income!PensionStep(f) \cup Income!OtherIncomeStep(f)
        \/ e \in Income!EmploymentStep(f) \cup Income!BankDetailsStep(f)
        \/ e \in Income!OneTimePaymentsStep(f)
        \/ \E question, details : e \in Income!QuestionStep(f, question, details)
    <3>1. p \in {1, 2, 3, 4, 5, 6, 7}
      BY <2>1
    <3>2. QED BY <2>1, <3>1 DEF Income!Edits, Income!AwaitingBenefitsStep,
                                Income!PreviousBenefitsStep
  <2>9. QED BY <2>3, <2>5, <2>6, <2>7, <2>8
<1>5. CASE view = "health"
  <2>1. p \in 1..8 /\ e \in Health!Edits(f, p)
    BY <1>5 DEF AllPages, EditsOf
  <2>2. QED BY <2>1 DEF Health!Edits, Health!CarePage, Health!InpatientPage, Health!FacilityPage,
              Health!CapacityPage, Health!TemporaryPage, Health!PermanentPage,
              Health!DisabilityPage, Health!NutritionPage, Health!Choose, Health!Type
<1>6. QED BY <1>1, <1>2, <1>3, <1>4, <1>5, ViewsAssumption

LEMMA GenderFields ==
  ASSUME NEW f, NEW e \in AboutMe!Page3Gender(f)
  PROVE  DOMAIN e = DOMAIN f
  BY DEF AboutMe!Page3Gender, AboutMe!Choose

\* What the housing saves at once are fields of the section.
LEMMA ChoicesSent ==
  ASSUME view \in Views, view = "housing", NEW f, NEW p \in AllPages, NEW c \in Housing!Choices(f, p)
  PROVE  DOMAIN c.form = DOMAIN f /\ SendsOK(view, c.data)
<1>1. SectionFields(view) = Housing!StoredFields
  BY DEF SectionFields
<1>2. DOMAIN c.form = DOMAIN f /\ DOMAIN c.data \subseteq Housing!StoredFields
  BY DEF Housing!Choices, Housing!AddressChoices, Housing!AccomodationChoices,
         Housing!TenancyChoices, Housing!SubletChoices, Housing!ArrearsChoices,
         Housing!HeatingChoices, Housing!Chosen, Housing!One, Housing!Merge,
         Housing!StoredFields, Housing!Housing
<1>3. QED BY <1>1, <1>2 DEF SendsOK

LEMMA BlursSent ==
  ASSUME view \in Views, view = "housing", NEW f, NEW p \in AllPages, NEW data \in Housing!Blurs(f, p)
  PROVE  SendsOK(view, data)
<1>1. SectionFields(view) = Housing!StoredFields
  BY DEF SectionFields
<1>2. PICK i \in Housing!Inputs(f, p) :
        data = CASE i = "lastFixedAddress" -> Housing!One("state", f[i])
                 [] i = "freeHousingRightHolder" -> Housing!SaveTenancy(f)
                 [] OTHER -> Housing!One(i, f[i])
  BY DEF Housing!Blurs
<1>3. i = "lastFixedAddress" \/ i \in Housing!StoredFields
  BY DEF Housing!Inputs, Housing!StoredFields, Housing!Housing
<1>4. DOMAIN data \subseteq Housing!StoredFields
  <2>1. CASE i = "lastFixedAddress"
    BY <1>2, <2>1 DEF Housing!One, Housing!StoredFields, Housing!Housing
  <2>2. CASE i = "freeHousingRightHolder"
    BY <1>2, <2>2 DEF Housing!SaveTenancy, Housing!StoredFields, Housing!Housing
  <2>3. CASE i \notin {"lastFixedAddress", "freeHousingRightHolder"}
    BY <1>2, <1>3, <2>3 DEF Housing!One
  <2>4. QED BY <2>1, <2>2, <2>3
<1>5. QED BY <1>1, <1>4 DEF SendsOK

\* A profile fills every field of the form.
LEMMA FilledForm ==
  ASSUME view \in Views, NEW profile
  PROVE  /\ DOMAIN FirstForm(profile) = DOMAIN FormAtMount(view, extracted)
         /\ DOMAIN form = DOMAIN FormAtMount(view, extracted) =>
              DOMAIN LaterForm(profile) = DOMAIN FormAtMount(view, extracted)
<1>1. CASE view = "aboutMe"
  BY <1>1 DEF FirstForm, LaterForm, FormAtMount, AboutMe!Hydrate, AboutMe!Sync, AboutMe!EmptyForm
<1>2. CASE view = "household"
  BY <1>2 DEF FirstForm, LaterForm, FormAtMount, Household!Hydrate, Household!Sync,
              Household!EmptyForm
<1>3. CASE view = "housing"
  BY <1>3 DEF FirstForm, LaterForm, FormAtMount, Housing!Hydrate, Housing!FormAtMount
<1>4. CASE view = "income"
  BY <1>4 DEF FirstForm, LaterForm, FormAtMount, Income!Hydrate, Income!EmptyForm
<1>5. CASE view = "health"
  BY <1>5 DEF FirstForm, LaterForm, FormAtMount, Health!Hydrate, Blank
<1>6. QED BY <1>1, <1>2, <1>3, <1>4, <1>5, ViewsAssumption

\* Back and the wizard of the server lead to pages, too.
LEMMA PagesLeadBack ==
  ASSUME view \in Views, NEW f, NEW p \in AllPages
  PROVE  PrevOf(f, p) \in AllPages \cup {Intro}
<1>1. CASE view = "aboutMe"
  BY <1>1 DEF AllPages, PrevOf, AboutMe!PrevPage, Intro
<1>2. CASE view = "household"
  BY <1>2 DEF AllPages, PrevOf, Household!PrevPage, Intro
<1>3. CASE view = "housing"
  BY <1>3 DEF AllPages, PrevOf, Housing!PrevPage, Housing!Intro, Intro
<1>4. CASE view = "income"
  BY <1>4 DEF AllPages, PrevOf, Income!PrevPage, Intro
<1>5. CASE view = "health"
  BY <1>5 DEF AllPages, PrevOf, Health!PrevPage, Health!Intro, Intro
<1>6. QED BY <1>1, <1>2, <1>3, <1>4, <1>5, ViewsAssumption

LEMMA WizardLeads ==
  ASSUME view \in Views, NEW section, NEW p
  PROVE  WizardPages(section, p) \subseteq AllPages \cup {Overview}
<1>1. CASE view = "aboutMe"
  BY <1>1 DEF AllPages, WizardPages, AboutMe!WizardPages, AboutMe!FirstOpenPage, AboutMe!Intro
<1>2. CASE view = "income"
  BY <1>2 DEF AllPages, WizardPages, Income!WizardPages, Income!FirstOpenPage, Income!Overview,
              Overview
<1>3. QED BY <1>1, <1>2 DEF WizardPages

-----------------------------------------------------------------------------
(* The shape of the state.                                                 *)

SaveShape(v, pages, s) ==
    /\ s.page \in pages /\ s.to \in pages \cup {Intro, Overview, Stay}
    /\ s.jumps \subseteq pages \cup {Overview}
    /\ s.at \in {"sent", "applied", "refused"} /\ ListOK(v, s.requests)
ShapesOK(v, pages, list) == \A i \in DOMAIN list : SaveShape(v, pages, list[i])
\* In the housing form only the first save is on its way, the others wait.
QueueOK(v, list) == v = "housing" => \A i \in DOMAIN list : i > 1 => list[i].at = "sent"

ListsOK == SavesOK /\ ShapesOK(view, AllPages, saves) /\ QueueOK(view, saves)
DataOK ==
    /\ DOMAIN stored = SectionFields(view)
    /\ loaded \in {NotLoaded, LoadFailed} \/ DOMAIN loaded = SectionFields(view)
    /\ fetch \in {NoFetch, Asked} \/ DOMAIN fetch = SectionFields(view)
ScreenOK ==
    /\ page \in AllPages \cup {Intro, Overview} /\ unsaved \subseteq AllPages
    /\ DOMAIN form = DOMAIN FormAtMount(view, extracted)
Shape == view \in Views /\ ListsOK /\ DataOK /\ ScreenOK /\ touched \subseteq AllPages

LEMMA SameView == [Next]_vars => UNCHANGED <<view, extracted>>
  BY DEF Next, User, Server, Wallet, vars, Edit, ChooseAndSave, SaveField, PressNext, Back, SavePage,
         Apply, Refuse, Answer, Succeed, Fail, CardAnswered, Refetch, Read, Arrive, FetchFails,
         WriteElsewhere

\* The view stays, and with it its pages, its fields and the fields of its form.
LEMMA SamePages ==
  ASSUME UNCHANGED <<view, extracted>>
  PROVE  /\ AllPages' = AllPages
         /\ (DOMAIN FormAtMount(view, extracted))' = DOMAIN FormAtMount(view, extracted)
  BY DEF AllPages

LEMMA ShapesAppended ==
  ASSUME NEW v, NEW pages, NEW S, NEW list \in Seq(S), NEW s \in S,
         ShapesOK(v, pages, list), QueueOK(v, list), SaveShape(v, pages, s), s.at = "sent"
  PROVE  ShapesOK(v, pages, Append(list, s)) /\ QueueOK(v, Append(list, s))
  BY AppendElements DEF ShapesOK, QueueOK

LEMMA ShapesLeft ==
  ASSUME NEW v, NEW pages, NEW S, NEW list \in Seq(S), NEW i \in DOMAIN list,
         ShapesOK(v, pages, list), QueueOK(v, list), v = "housing" => i = 1
  PROVE  ShapesOK(v, pages, RemoveAt(list, i)) /\ QueueOK(v, RemoveAt(list, i))
<1> DEFINE rest == RemoveAt(list, i)
<1>1. /\ \A j \in DOMAIN rest : \E k \in DOMAIN list : rest[j] = list[k]
      /\ DOMAIN rest = 1..(Len(list) - 1)
      /\ \A j \in i..(Len(list) - 1) : rest[j] = list[j + 1]
  BY RemoveAtElements, RemoveAtIndices
<1> HIDE DEF rest
<1>2. ShapesOK(v, pages, rest)
  BY <1>1 DEF ShapesOK
<1>3. ASSUME v = "housing", NEW j \in DOMAIN rest PROVE rest[j].at = "sent"
  <2>1. j \in i..(Len(list) - 1) /\ j + 1 \in DOMAIN list /\ j + 1 > 1
    BY <1>1, <1>3
  <2>2. rest[j] = list[j + 1]
    BY <1>1, <2>1
  <2>3. QED BY <1>3, <2>1, <2>2 DEF QueueOK
<1>4. QED BY <1>2, <1>3 DEF QueueOK, rest

LEMMA ShapesWritten ==
  ASSUME NEW v, NEW pages, NEW S, NEW list \in Seq(S), NEW i \in DOMAIN list, NEW s,
         ShapesOK(v, pages, list), QueueOK(v, list), SaveShape(v, pages, s), v = "housing" => i = 1
  PROVE  ShapesOK(v, pages, [list EXCEPT ![i] = s]) /\ QueueOK(v, [list EXCEPT ![i] = s])
<1> DEFINE new == [list EXCEPT ![i] = s]
<1>1. DOMAIN new = DOMAIN list /\ new[i] = s /\ \A k \in DOMAIN list \ {i} : new[k] = list[k]
  OBVIOUS
<1> HIDE DEF new
<1>2. ShapesOK(v, pages, new)
  BY <1>1 DEF ShapesOK
<1>3. ASSUME v = "housing", NEW j \in DOMAIN new, j > 1 PROVE new[j].at = "sent"
  BY <1>1, <1>3 DEF QueueOK
<1>4. QED BY <1>2, <1>3 DEF QueueOK, new

\* A save that was answered is the first one of the housing form.
LEMMA AnsweredIsFirst ==
  ASSUME ListsOK, NEW i \in DOMAIN saves, saves[i].at # "sent"
  PROVE  view = "housing" => i = 1
<1>1. saves \in Seq({saves[k] : k \in DOMAIN saves})
  BY DEF ListsOK, SavesOK
<1>2. i \in Nat /\ i >= 1
  BY <1>1
<1>3. QED BY <1>2 DEF ListsOK, QueueOK

\* The user starts a save of a page.
LEMMA StartedSave ==
  ASSUME ListsOK, UNCHANGED view, NEW p \in AllPages, NEW requests, ListOK(view, requests),
         NEW to \in AllPages \cup {Intro, Overview, Stay}, Start(Save(p, requests, to))
  PROVE  ListsOK'
<1> DEFINE s == Save(p, requests, to)
           S == {saves[k] : k \in DOMAIN saves} \cup {s}
<1>1. IsSave(s) /\ SaveShape(view, AllPages, s) /\ s.at = "sent"
  BY SaveIsSave DEF Save, SaveShape
<1>2. saves' = Append(saves, s)
  BY DEF Start
<1>3. saves \in Seq(S) /\ s \in S
  BY DEF ListsOK, SavesOK
<1>4. AllPages' = AllPages
  BY DEF AllPages
<1> HIDE DEF s, S
<1>5. SavesOK'
  BY <1>1, <1>2, AppendedSaves DEF ListsOK
<1>6. ShapesOK(view, AllPages, saves') /\ QueueOK(view, saves')
  BY <1>1, <1>2, <1>3, ShapesAppended DEF ListsOK
<1>7. QED BY <1>4, <1>5, <1>6 DEF ListsOK

\* Typing, choosing and pressing the buttons.
LEMMA UserShape ==
  ASSUME Shape, User
  PROVE  ListsOK' /\ ScreenOK'
<1>1. view \in Views /\ ListsOK /\ ScreenOK /\ UNCHANGED <<view, extracted>>
  BY DEF Shape, User, Edit, ChooseAndSave, SaveField, PressNext, Back, SavePage
<1>2. /\ AllPages' = AllPages
      /\ (DOMAIN FormAtMount(view, extracted))' = DOMAIN FormAtMount(view, extracted)
  BY <1>1, SamePages
<1>3. page \in AllPages
  BY DEF User, Edit, ChooseAndSave, SaveField, PressNext, Back, Open
<1>4. saves' = saves => ListsOK'
  BY <1>1, <1>2 DEF ListsOK, SavesOK, IsSave
<1>5. /\ NextOf(form, page) \in AllPages \cup {Intro, Overview, Stay}
      /\ PrevOf(form, page) \in AllPages \cup {Intro, Overview, Stay}
  BY <1>1, <1>3, PagesLeadOn, PagesLeadBack
<1>6. CASE Edit
  <2>1. DOMAIN form' = DOMAIN form
    BY <1>1, <1>3, <1>6, EditedFields DEF Edit
  <2>2. QED BY <1>1, <1>2, <1>3, <1>4, <1>6, <2>1 DEF Edit, ScreenOK
<1>7. CASE ChooseAndSave
  <2>1. CASE view = "housing" /\ unsaved' \subseteq unsaved \cup {page}
    <3>1. PICK c \in Housing!Choices(form, page) :
            /\ form' = c.form /\ Start(Save(page, <<c.data>>, Stay))
            /\ unsaved' = IF Housing!BringsBack(form, c.form) THEN unsaved \cup {page} ELSE unsaved
      BY <1>7, <2>1 DEF ChooseAndSave
    <3>2. DOMAIN form' = DOMAIN form /\ ListOK(view, <<c.data>>)
      BY <1>1, <1>3, <2>1, <3>1, ChoicesSent, OneRequest
    <3>3. ListsOK'
      BY <1>1, <1>3, <3>1, <3>2, StartedSave
    <3>4. UNCHANGED <<page, touched>>
      BY <1>7, <2>1 DEF ChooseAndSave
    <3>5. QED BY <1>1, <1>2, <1>3, <2>1, <3>2, <3>3, <3>4 DEF ScreenOK
  <2>2. CASE view = "aboutMe" /\ unsaved' = unsaved \ {page}
    <3>1. PICK f \in AboutMe!Page3Gender(form) :
            form' = f /\ Start(Save(page, Requests(f, page), NextOf(f, page)))
      BY <1>7, <2>2 DEF ChooseAndSave
    <3>2. /\ DOMAIN form' = DOMAIN form /\ ListOK(view, Requests(f, page))
          /\ NextOf(f, page) \in AllPages \cup {Intro, Overview, Stay}
      BY <1>1, <1>3, <3>1, GenderFields, RequestsSent, PagesLeadOn
    <3>3. ListsOK'
      BY <1>1, <1>3, <3>1, <3>2, StartedSave
    <3>4. QED BY <1>1, <1>2, <1>7, <2>2, <3>2, <3>3 DEF ScreenOK, ChooseAndSave
  <2>3. (view = "housing" /\ unsaved' \subseteq unsaved \cup {page})
          \/ (view = "aboutMe" /\ unsaved' = unsaved \ {page})
    BY <1>7 DEF ChooseAndSave
  <2>4. QED BY <2>1, <2>2, <2>3
<1>8. CASE SaveField
  <2>1. PICK data \in Housing!Blurs(form, page) : Start(Save(page, <<data>>, Stay))
    BY <1>8 DEF SaveField
  <2>2. ListOK(view, <<data>>)
    BY <1>1, <1>3, <1>8, BlursSent, OneRequest DEF SaveField
  <2>3. ListsOK'
    BY <1>1, <1>3, <2>1, <2>2, StartedSave
  <2>4. QED BY <1>1, <1>2, <1>8, <2>3 DEF SaveField, ScreenOK, screen
<1>9. ASSUME NEW to \in AllPages \cup {Intro, Overview, Stay}, SavePage(to)
      PROVE  ListsOK' /\ ScreenOK'
  <2>1. ListsOK'
    BY <1>1, <1>3, <1>9, RequestsSent, StartedSave DEF SavePage
  <2>2. QED BY <1>1, <1>2, <1>9, <2>1 DEF SavePage, ScreenOK
<1>10. CASE view # "housing" /\ page' = PrevOf(form, page) /\ UNCHANGED <<form, saves, unsaved>>
  <2>1. PrevOf(form, page) \in AllPages \cup {Intro}
    BY <1>1, <1>3, PagesLeadBack
  <2>2. QED BY <1>1, <1>2, <1>4, <1>10, <2>1 DEF ScreenOK
<1>11. QED BY <1>5, <1>6, <1>7, <1>8, <1>9, <1>10 DEF User, PressNext, Back

\* The middleware applies a save or refuses it.
LEMMA ServedShape ==
  ASSUME Shape, NEW i \in DOMAIN saves, Apply(i) \/ Refuse(i)
  PROVE  ListsOK'
<1>1. /\ view \in Views /\ ListsOK /\ SavesOK /\ UNCHANGED view
      /\ view = "housing" => i = 1
  BY DEF Shape, ListsOK, Apply, Refuse, InFlight
<1>2. AllPages' = AllPages
  BY <1>1 DEF AllPages
<1>3. IsSave(saves[i]) /\ SaveShape(view, AllPages, saves[i])
  BY <1>1 DEF ListsOK, SavesOK, ShapesOK
<1>4. ASSUME NEW s, IsSave(s), SaveShape(view, AllPages, s), saves' = [saves EXCEPT ![i] = s]
      PROVE  ListsOK'
  <2>1. saves \in Seq({saves[k] : k \in DOMAIN saves})
    BY <1>1 DEF SavesOK
  <2>2. ShapesOK(view, AllPages, saves') /\ QueueOK(view, saves')
    BY <1>1, <1>4, <2>1, ShapesWritten DEF ListsOK
  <2>3. SavesOK'
    BY <1>1, <1>4, WrittenSaves
  <2>4. QED BY <1>1, <1>2, <2>2, <2>3 DEF ListsOK
<1>5. CASE Apply(i)
  <2> DEFINE s == [saves[i] EXCEPT !.at = "applied",
                                   !.jumps = WizardPages(stored', saves[i].page)]
  <2>1. IsSave(s)
    BY <1>3, SaveApplied
  <2>2. s.at = "applied" /\ s.jumps = WizardPages(stored', saves[i].page)
        /\ s.page = saves[i].page /\ s.to = saves[i].to /\ s.requests = saves[i].requests
    BY <1>3 DEF IsSave
  <2>3. s.jumps \subseteq AllPages \cup {Overview}
    BY <1>1, <2>2, WizardLeads
  <2>4. saves' = [saves EXCEPT ![i] = s]
    BY <1>5 DEF Apply
  <2> HIDE DEF s
  <2>5. SaveShape(view, AllPages, s)
    BY <1>3, <2>2, <2>3 DEF SaveShape
  <2>6. QED BY <1>4, <2>1, <2>4, <2>5
<1>6. CASE Refuse(i)
  <2> DEFINE s == [saves[i] EXCEPT !.at = "refused"]
  <2>1. IsSave(s)
    BY <1>3, SaveMoves
  <2>2. s.at = "refused" /\ s.jumps = saves[i].jumps
        /\ s.page = saves[i].page /\ s.to = saves[i].to /\ s.requests = saves[i].requests
    BY <1>3 DEF IsSave
  <2>3. saves' = [saves EXCEPT ![i] = s]
    BY <1>6 DEF Refuse
  <2> HIDE DEF s
  <2>4. SaveShape(view, AllPages, s)
    BY <1>3, <2>2 DEF SaveShape
  <2>5. QED BY <1>4, <2>1, <2>3, <2>4
<1>7. QED BY <1>5, <1>6

LEMMA CardSent ==
  ASSUME view \in Views, view = "aboutMe", NEW f, NEW known
  PROVE  ListOK(view, <<AboutMe!Verified(f, known)>>)
<1>1. DOMAIN AboutMe!Verified(f, known) \subseteq AboutMe!StoredFields
  BY DEF AboutMe!Verified, AboutMe!Restrict, AboutMe!StoredFields
<1>2. QED BY <1>1, OneRequest DEF SendsOK, SectionFields

\* An answer arrives: the save is over or goes on, and the page that is shown is a page.
LEMMA AnsweredShape ==
  ASSUME Shape, NEW i \in DOMAIN saves, Answer(i)
  PROVE  ListsOK' /\ ScreenOK'
<1>1. /\ view \in Views /\ ListsOK /\ SavesOK /\ ScreenOK /\ UNCHANGED <<view, extracted>>
      /\ saves[i].at # "sent"
  BY DEF Shape, ListsOK, Answer, Succeed, Fail, CardAnswered
<1>2. /\ AllPages' = AllPages
      /\ (DOMAIN FormAtMount(view, extracted))' = DOMAIN FormAtMount(view, extracted)
  BY <1>1, SamePages
<1>3. IsSave(saves[i]) /\ SaveShape(view, AllPages, saves[i])
  BY <1>1 DEF ListsOK, SavesOK, ShapesOK
<1>4. view = "housing" => i = 1
  BY <1>1, AnsweredIsFirst
<1>5. saves \in Seq({saves[k] : k \in DOMAIN saves})
  BY <1>1 DEF SavesOK
<1>6. ASSUME NEW s, IsSave(s), SaveShape(view, AllPages, s), saves' = [saves EXCEPT ![i] = s]
      PROVE  ListsOK'
  <2>1. ShapesOK(view, AllPages, saves') /\ QueueOK(view, saves')
    BY <1>1, <1>4, <1>5, <1>6, ShapesWritten DEF ListsOK
  <2>2. SavesOK'
    BY <1>1, <1>6, WrittenSaves
  <2>3. QED BY <1>1, <1>2, <2>1, <2>2 DEF ListsOK
<1>7. saves' = RemoveAt(saves, i) => ListsOK'
  <2> SUFFICES ASSUME saves' = RemoveAt(saves, i) PROVE ListsOK'
    OBVIOUS
  <2>1. ShapesOK(view, AllPages, saves') /\ QueueOK(view, saves')
    BY <1>1, <1>4, <1>5, ShapesLeft DEF ListsOK
  <2>2. SavesOK'
    BY <1>1, RemovedSaves
  <2>3. QED BY <1>1, <1>2, <2>1, <2>2 DEF ListsOK
<1>8. ASSUME NEW to \in AllPages \cup {Intro, Overview, Stay}, GoTo(to)
      PROVE  page' \in AllPages \cup {Intro, Overview}
  BY <1>1, <1>8 DEF ScreenOK, GoTo
<1>9. CASE Succeed(i)
  <2> DEFINE rest == Tail(saves[i].requests)
             onward == [saves[i] EXCEPT !.requests = rest, !.at = "sent"]
             verifies == Save(6, <<AboutMe!Verified(form, KnownProfile)>>, Stay)
  <2>1. UNCHANGED <<form, unsaved>>
    BY <1>9 DEF Succeed
  <2>2. CASE rest # <<>> /\ saves' = [saves EXCEPT ![i] = onward] /\ UNCHANGED page
    <3>1. IsSave(onward)
      BY <1>3, SaveGoesOn
    <3>2. /\ onward.at = "sent" /\ onward.requests = rest /\ onward.page = saves[i].page
          /\ onward.to = saves[i].to /\ onward.jumps = saves[i].jumps
      BY <1>3 DEF IsSave
    <3>3. ListOK(view, rest)
      BY <1>3, <2>2, RequestsLeft DEF SaveShape
    <3> HIDE DEF onward, rest
    <3>4. SaveShape(view, AllPages, onward)
      BY <1>3, <3>2, <3>3 DEF SaveShape
    <3>5. QED BY <1>1, <1>2, <1>6, <2>1, <2>2, <3>1, <3>4 DEF ScreenOK
  <2>3. CASE VerifiesCard(saves[i]) /\ saves' = [saves EXCEPT ![i] = verifies] /\ UNCHANGED page
    <3>1. view = "aboutMe" /\ 6 \in AllPages
      BY <2>3 DEF VerifiesCard, AllPages
    <3>2. IsSave(verifies) /\ SaveShape(view, AllPages, verifies)
      BY <1>1, <3>1, CardSent, SaveIsSave DEF Save, SaveShape
    <3> HIDE DEF verifies
    <3>3. QED BY <1>1, <1>2, <1>6, <2>1, <2>3, <3>2 DEF ScreenOK
  <2>4. CASE saves' = RemoveAt(saves, i) /\ \E to \in {saves[i].to} \cup saves[i].jumps : GoTo(to)
    <3>1. PICK to \in {saves[i].to} \cup saves[i].jumps : GoTo(to)
      BY <2>4
    <3>2. to \in AllPages \cup {Intro, Overview, Stay}
      BY <1>3 DEF SaveShape
    <3>3. page' \in AllPages \cup {Intro, Overview}
      BY <1>8, <3>1, <3>2
    <3>4. QED BY <1>1, <1>2, <1>7, <2>1, <2>4, <3>3 DEF ScreenOK
  <2>5. QED BY <1>9, <2>2, <2>3, <2>4 DEF Succeed
<1>10. CASE Fail(i)
  <2>1. /\ saves' = RemoveAt(saves, i) /\ unsaved' = unsaved \cup {saves[i].page}
        /\ UNCHANGED <<page, form>>
    BY <1>10 DEF Fail
  <2>2. saves[i].page \in AllPages
    BY <1>3 DEF SaveShape
  <2>3. QED BY <1>1, <1>2, <1>7, <2>1, <2>2 DEF ScreenOK
<1>11. CASE CardAnswered(i)
  <2>1. saves' = RemoveAt(saves, i) /\ GoTo(Overview) /\ UNCHANGED <<form, unsaved>>
    BY <1>11 DEF CardAnswered
  <2>2. QED BY <1>1, <1>2, <1>7, <1>8, <2>1 DEF ScreenOK
<1>12. QED BY <1>9, <1>10, <1>11 DEF Answer

\* A profile that arrives, and a request for one that fails.
LEMMA CacheShape ==
  ASSUME Shape, Refetch \/ Read \/ Arrive \/ FetchFails \/ WriteElsewhere
  PROVE  ListsOK' /\ ScreenOK'
<1>1. /\ view \in Views /\ ListsOK /\ ScreenOK /\ UNCHANGED <<view, extracted, saves, page>>
  BY DEF Shape, Refetch, Read, Arrive, FetchFails, WriteElsewhere, screen
<1>2. /\ AllPages' = AllPages
      /\ (DOMAIN FormAtMount(view, extracted))' = DOMAIN FormAtMount(view, extracted)
  BY <1>1, SamePages
<1>3. ListsOK'
  BY <1>1, <1>2 DEF ListsOK, SavesOK, IsSave
<1>4. CASE Arrive
  <2>1. DOMAIN form' = DOMAIN FormAtMount(view, extracted)
    BY <1>1, <1>4, FilledForm DEF Arrive, ScreenOK
  <2>2. unsaved' \subseteq AllPages
    <3>1. PagesOfDocument \subseteq AllPages
      BY DEF PagesOfDocument, AllPages
    <3>2. \A f, profile : Guessed(f, profile) \subseteq AllPages
      BY DEF Guessed
    <3>3. unsaved' \subseteq unsaved \cup PagesOfDocument \cup AllPages
      <4>1. CASE HasProfile
        <5>1. NewlyGuessed(form', fetch) \subseteq AllPages
          BY <3>2 DEF NewlyGuessed
        <5>2. QED BY <1>4, <4>1, <5>1 DEF Arrive
      <4>2. CASE ~HasProfile
        BY <1>4, <3>2, <4>2 DEF Arrive, FromDocument
      <4>3. QED BY <4>1, <4>2
    <3>4. QED BY <1>1, <3>1, <3>3 DEF ScreenOK
  <2>3. QED BY <1>1, <1>2, <1>3, <2>1, <2>2 DEF ScreenOK
<1>5. CASE Refetch \/ Read \/ FetchFails \/ WriteElsewhere
  <2>1. UNCHANGED <<form, unsaved>>
    BY <1>5 DEF Refetch, Read, FetchFails, WriteElsewhere, screen
  <2>2. QED BY <1>1, <1>2, <1>3, <2>1 DEF ScreenOK
<1>6. QED BY <1>4, <1>5

\* The section and the copies of it.
LEMMA DataShape ==
  ASSUME Shape, [Next]_vars
  PROVE  DataOK'
<1>1. view \in Views /\ ListsOK /\ DataOK /\ view' = view
  BY SameView DEF Shape
<1>2. CASE UNCHANGED <<stored, loaded, fetch>>
  BY <1>1, <1>2 DEF DataOK
<1>3. ASSUME NEW i \in DOMAIN saves, Apply(i) PROVE DataOK'
  <2>1. ListOK(view, saves[i].requests)
    BY <1>1 DEF ListsOK, ShapesOK, SaveShape
  <2>2. SendsOK(view, Head(saves[i].requests))
    BY <2>1 DEF ListOK
  <2>3. DOMAIN Merge(stored, Head(saves[i].requests))
          = DOMAIN stored \cup DOMAIN Head(saves[i].requests)
    BY DEF Merge
  <2>4. QED BY <1>1, <1>3, <2>2, <2>3 DEF Apply, DataOK, SendsOK
<1>4. CASE WriteElsewhere
  <2>1. PICK w \in Elsewhere[view] : stored' = Merge(stored, w)
    BY <1>4 DEF WriteElsewhere
  <2>2. DOMAIN Merge(stored, w) = DOMAIN stored \cup DOMAIN w /\ DOMAIN w \subseteq SectionFields(view)
    BY <1>1, SectionsAssumption DEF Merge
  <2>3. QED BY <1>1, <1>4, <2>1, <2>2 DEF WriteElsewhere, DataOK
<1>5. CASE Read
  BY <1>1, <1>5 DEF Read, server, DataOK
<1>6. CASE Arrive
  BY <1>1, <1>6 DEF Arrive, server, DataOK
<1>7. CASE FetchFails
  BY <1>1, <1>7 DEF FetchFails, server, DataOK
<1>8. (Refetch \/ \E i \in DOMAIN saves : Succeed(i)) => DataOK'
  BY <1>1 DEF Refetch, Succeed, Invalidate, server, DataOK
<1>9. (\E i \in DOMAIN saves : Refuse(i) \/ Fail(i) \/ CardAnswered(i)) => UNCHANGED <<stored, loaded, fetch>>
  BY DEF Refuse, Fail, CardAnswered, server
<1>10. User \/ UNCHANGED vars => UNCHANGED <<stored, loaded, fetch>>
  BY DEF User, Edit, ChooseAndSave, SaveField, PressNext, Back, SavePage, server, vars
<1>11. QED
  BY <1>2, <1>3, <1>4, <1>5, <1>6, <1>7, <1>8, <1>9, <1>10 DEF Next, Server, Wallet, Answer

LEMMA TouchedShape == ASSUME Shape, [Next]_vars PROVE touched' \subseteq AllPages'
<1>1. touched \subseteq AllPages /\ UNCHANGED <<view, AllPages>>
  BY SameView, SamePages DEF Shape
<1>2. \A f, profile : Guessed(f, profile) \subseteq AllPages
  BY DEF Guessed
<1>3. ASSUME NEW pages, pages \subseteq AllPages, Touch(pages) PROVE touched' \subseteq AllPages
  BY <1>1, <1>3 DEF Touch
<1>4. CASE Edit \/ ChooseAndSave
  <2>1. touched' = touched \/ Touch({page})
    BY <1>4 DEF Edit, ChooseAndSave
  <2>2. page \in AllPages
    BY <1>4 DEF Edit, ChooseAndSave, Open
  <2>3. QED BY <1>1, <1>3, <2>1, <2>2
<1>5. CASE Arrive
  <2>1. PICK pages : pages \subseteq AllPages /\ Touch(pages)
    BY <1>2, <1>5 DEF Arrive
  <2>2. QED BY <1>1, <1>3, <2>1
<1>6. CASE SaveField \/ PressNext \/ Back
  BY <1>1, <1>6 DEF SaveField, PressNext, Back, SavePage, screen
<1>7. CASE Read \/ WriteElsewhere \/ Refetch \/ FetchFails \/ UNCHANGED vars
  BY <1>1, <1>7 DEF Read, WriteElsewhere, Refetch, FetchFails, screen, vars
<1>8. CASE \E i \in DOMAIN saves : Apply(i) \/ Refuse(i) \/ Answer(i)
  BY <1>1, <1>8 DEF Apply, Refuse, Answer, Succeed, Fail, CardAnswered, screen
<1>9. QED BY <1>1, <1>4, <1>5, <1>6, <1>7, <1>8 DEF Next, User, Server, Wallet

LEMMA InitialShape == Init => Shape
<1> SUFFICES ASSUME Init PROVE Shape
  OBVIOUS
<1>1. view \in Views /\ saves = <<>> /\ unsaved = {} /\ touched = {} /\ stored \in Stored[view]
  BY DEF Init
<1>2. ListsOK
  BY <1>1 DEF ListsOK, SavesOK, ShapesOK, QueueOK
<1>3. DOMAIN stored = SectionFields(view)
  BY <1>1, SectionsAssumption
<1>4. CASE Mounted
  BY <1>1, <1>2, <1>3, <1>4, FirstPage DEF Mounted, Shape, DataOK, ScreenOK
<1>5. CASE CameThisFar
  <2>1. page \in AllPages /\ form = FirstForm(stored)
    BY <1>1, <1>5, RouteSteps DEF CameThisFar, StartsAt
  <2>2. DOMAIN form = DOMAIN FormAtMount(view, extracted)
    BY <1>1, <2>1, FilledForm
  <2>3. loaded = stored /\ fetch = NoFetch
    BY <1>5 DEF CameThisFar
  <2>4. QED BY <1>1, <1>2, <1>3, <2>1, <2>2, <2>3 DEF Shape, DataOK, ScreenOK
<1>6. QED BY <1>4, <1>5 DEF Init

LEMMA ShapeKept == Shape /\ [Next]_vars => Shape'
<1> SUFFICES ASSUME Shape, [Next]_vars PROVE Shape'
  OBVIOUS
<1>1. view \in Views /\ UNCHANGED <<view, extracted>>
  BY SameView DEF Shape
<1>2. DataOK'
  BY DataShape
<1>3. ListsOK' /\ ScreenOK'
  <2>1. CASE User
    BY <2>1, UserShape
  <2>2. CASE Read \/ WriteElsewhere \/ Refetch \/ Arrive \/ FetchFails
    BY <2>2, CacheShape
  <2>3. ASSUME NEW i \in DOMAIN saves, Apply(i) \/ Refuse(i) PROVE ListsOK' /\ ScreenOK'
    <3>1. ListsOK'
      BY <2>3, ServedShape
    <3>2. UNCHANGED screen /\ ScreenOK
      BY <2>3 DEF Apply, Refuse, Shape
    <3>3. QED BY <1>1, <3>1, <3>2, SamePages DEF ScreenOK, screen
  <2>4. ASSUME NEW i \in DOMAIN saves, Answer(i) PROVE ListsOK' /\ ScreenOK'
    BY <2>4, AnsweredShape
  <2>5. CASE UNCHANGED vars
    <3>1. UNCHANGED <<saves, page, form, unsaved>> /\ ListsOK /\ ScreenOK
      BY <2>5 DEF vars, Shape
    <3>2. QED BY <1>1, <3>1, SamePages DEF ListsOK, SavesOK, IsSave, ScreenOK
  <2>6. QED BY <2>1, <2>2, <2>3, <2>4, <2>5 DEF Next, Server, Wallet
<1>4. QED BY <1>1, <1>2, <1>3, TouchedShape DEF Shape

LEMMA ShapeIsTypeOK == Shape => TypeOK
<1> SUFFICES ASSUME Shape PROVE TypeOK
  OBVIOUS
<1>1. ASSUME NEW i \in DOMAIN saves
      PROVE  /\ saves[i].at \in {"sent", "applied", "refused"} /\ saves[i].requests # <<>>
             /\ UNION {DOMAIN r : r \in ToSet(saves[i].requests)} \subseteq DOMAIN stored
             /\ view = "housing" /\ i > 1 => saves[i].at = "sent"
  <2>1. SaveShape(view, AllPages, saves[i]) /\ DOMAIN stored = SectionFields(view)
    BY DEF Shape, ListsOK, ShapesOK, DataOK
  <2>2. ListOK(view, saves[i].requests)
    BY <2>1 DEF SaveShape
  <2>3. \A r \in ToSet(saves[i].requests) : DOMAIN r \subseteq DOMAIN stored
    BY <2>1, <2>2 DEF ToSet, ListOK, SendsOK
  <2>4. UNION {DOMAIN r : r \in ToSet(saves[i].requests)} \subseteq DOMAIN stored
    <3> HIDE DEF ToSet
    <3>1. QED BY <2>3
  <2>5. QED BY <2>1, <2>2, <2>4 DEF SaveShape, ListOK, Shape, ListsOK, QueueOK
<1>2. /\ view \in Views /\ page \in AllPages \cup {Intro, Overview}
      /\ unsaved \cup touched \subseteq AllPages
      /\ DOMAIN stored = SectionFields(view)
      /\ loaded \in {NotLoaded, LoadFailed} \/ DOMAIN loaded = DOMAIN stored
      /\ fetch \in {NoFetch, Asked} \/ DOMAIN fetch = DOMAIN stored
      /\ DOMAIN form = DOMAIN FormAtMount(view, extracted)
  BY DEF Shape, DataOK, ScreenOK
<1>3. QED BY <1>1, <1>2 DEF TypeOK

\* The state stays well formed, whatever the sections hold and whoever writes: a page only
\* sends fields of its section, the profile fills every field of the form, an answer leads to
\* a page of the view, and the housing form waits for one save at a time (enqueueSave).
THEOREM QuestionnairesTyped == Spec => []TypeOK
<1>1. Shape => TypeOK
  BY ShapeIsTypeOK
<1>2. QED BY <1>1, InitialShape, ShapeKept, PTL DEF Spec

-----------------------------------------------------------------------------
(* What the saves of the housing form will have stored.                    *)

\* A save that is still to be applied sends the field.
Sends(s, f) == s.at = "sent" /\ f \in DOMAIN Head(s.requests)
\* The field ends with the value: the last of these saves has it, or there is none and the
\* section has it now.
EndsWith(list, section, f, v) ==
    \/ \E i \in DOMAIN list : /\ Sends(list[i], f) /\ Head(list[i].requests)[f] = v
                              /\ \A j \in DOMAIN list : j > i => ~Sends(list[j], f)
    \/ (\A i \in DOMAIN list : ~Sends(list[i], f)) /\ section[f] = v

LEMMA EndsAppended ==
  ASSUME NEW S, NEW list \in Seq(S), NEW s \in S, NEW section, NEW f, NEW v,
         EndsWith(Append(list, s), section, f, v)
  PROVE  IF Sends(s, f) THEN v = Head(s.requests)[f] ELSE EndsWith(list, section, f, v)
<1> DEFINE new == Append(list, s)
           n == Len(list) + 1
<1>1. /\ \A j \in DOMAIN list : j \in DOMAIN new /\ new[j] = list[j]
      /\ \A j \in DOMAIN new : j = n \/ j \in DOMAIN list
      /\ n \in DOMAIN new /\ new[n] = s /\ n \in Nat
      /\ \A j \in DOMAIN list : j \in Nat /\ n > j
  OBVIOUS
<1> HIDE DEF new, n
<1>2. EndsWith(new, section, f, v)
  BY DEF new
<1>3. CASE Sends(s, f)
  <2>1. PICK i \in DOMAIN new : /\ Sends(new[i], f) /\ Head(new[i].requests)[f] = v
                                /\ \A j \in DOMAIN new : j > i => ~Sends(new[j], f)
    BY <1>1, <1>2, <1>3 DEF EndsWith
  <2>2. i = n
    BY <1>1, <1>3, <2>1
  <2>3. QED BY <1>1, <1>3, <2>1, <2>2
<1>4. CASE ~Sends(s, f)
  <2>1. EndsWith(list, section, f, v)
    <3>1. CASE \E i \in DOMAIN new : /\ Sends(new[i], f) /\ Head(new[i].requests)[f] = v
                                     /\ \A j \in DOMAIN new : j > i => ~Sends(new[j], f)
      <4>1. PICK i \in DOMAIN new : /\ Sends(new[i], f) /\ Head(new[i].requests)[f] = v
                                    /\ \A j \in DOMAIN new : j > i => ~Sends(new[j], f)
        BY <3>1
      <4>2. i \in DOMAIN list
        BY <1>1, <1>4, <4>1
      <4>3. QED BY <1>1, <4>1, <4>2 DEF EndsWith
    <3>2. CASE (\A i \in DOMAIN new : ~Sends(new[i], f)) /\ section[f] = v
      BY <1>1, <3>2 DEF EndsWith
    <3>3. QED BY <1>2, <3>1, <3>2 DEF EndsWith
  <2>2. QED BY <1>4, <2>1
<1>5. QED BY <1>3, <1>4

\* The first save is applied: the fields end as they would have.
LEMMA EndsApplied ==
  ASSUME NEW S, NEW list \in Seq(S), 1 \in DOMAIN list, list[1].at = "sent", NEW s, s.at # "sent",
         NEW section, NEW f, f \in DOMAIN section, NEW v,
         EndsWith([list EXCEPT ![1] = s], Merge(section, Head(list[1].requests)), f, v)
  PROVE  EndsWith(list, section, f, v)
<1> DEFINE new == [list EXCEPT ![1] = s]
           r == Head(list[1].requests)
           after == Merge(section, r)
<1>1. /\ DOMAIN new = DOMAIN list /\ new[1] = s
      /\ \A j \in DOMAIN list : j \in Nat /\ (j # 1 => new[j] = list[j] /\ j > 1)
  OBVIOUS
<1>2. after[f] = IF f \in DOMAIN r THEN r[f] ELSE section[f]
  BY DEF Merge
<1> HIDE DEF new, after
<1>3. EndsWith(new, after, f, v) /\ ~Sends(s, f)
  BY DEF new, after, Sends
<1>4. CASE \E i \in DOMAIN new : /\ Sends(new[i], f) /\ Head(new[i].requests)[f] = v
                                 /\ \A j \in DOMAIN new : j > i => ~Sends(new[j], f)
  <2>1. PICK i \in DOMAIN new : /\ Sends(new[i], f) /\ Head(new[i].requests)[f] = v
                                /\ \A j \in DOMAIN new : j > i => ~Sends(new[j], f)
    BY <1>4
  <2>2. i # 1 /\ i > 1
    BY <1>1, <1>3, <2>1
  <2>3. \A j \in DOMAIN list : j > i => j # 1
    BY <1>1, <2>2
  <2>4. QED BY <1>1, <2>1, <2>2, <2>3 DEF EndsWith
<1>5. CASE (\A i \in DOMAIN new : ~Sends(new[i], f)) /\ after[f] = v
  <2>1. \A j \in DOMAIN list : j > 1 => ~Sends(list[j], f)
    BY <1>1, <1>5
  <2>2. CASE f \in DOMAIN r
    BY <1>2, <1>5, <2>1, <2>2 DEF EndsWith, Sends
  <2>3. CASE f \notin DOMAIN r
    <3>1. \A j \in DOMAIN list : ~Sends(list[j], f)
      BY <1>1, <2>1, <2>3 DEF Sends
    <3>2. QED BY <1>2, <1>5, <2>3, <3>1 DEF EndsWith
  <2>4. QED BY <2>2, <2>3
<1>6. QED BY <1>3, <1>4, <1>5 DEF EndsWith

\* The first save is refused: what it does not send ends as it would have.
LEMMA EndsRefused ==
  ASSUME NEW S, NEW list \in Seq(S), 1 \in DOMAIN list, NEW s, s.at # "sent",
         NEW section, NEW f, f \notin DOMAIN Head(list[1].requests), NEW v,
         EndsWith([list EXCEPT ![1] = s], section, f, v)
  PROVE  EndsWith(list, section, f, v)
<1> DEFINE new == [list EXCEPT ![1] = s]
<1>1. /\ DOMAIN new = DOMAIN list /\ new[1] = s
      /\ \A j \in DOMAIN list : j # 1 => new[j] = list[j]
  OBVIOUS
<1> HIDE DEF new
<1>2. EndsWith(new, section, f, v) /\ ~Sends(s, f) /\ ~Sends(list[1], f)
  BY DEF new, Sends
<1>3. \A j \in DOMAIN list : Sends(new[j], f) <=> Sends(list[j], f)
  BY <1>1, <1>2
<1>4. \A j \in DOMAIN list : Sends(list[j], f) => new[j] = list[j]
  BY <1>1, <1>2
<1>5. CASE \E i \in DOMAIN new : /\ Sends(new[i], f) /\ Head(new[i].requests)[f] = v
                                 /\ \A j \in DOMAIN new : j > i => ~Sends(new[j], f)
  <2>1. PICK i \in DOMAIN new : /\ Sends(new[i], f) /\ Head(new[i].requests)[f] = v
                                /\ \A j \in DOMAIN new : j > i => ~Sends(new[j], f)
    BY <1>5
  <2>2. QED BY <1>1, <1>3, <1>4, <2>1 DEF EndsWith
<1>6. CASE (\A i \in DOMAIN new : ~Sends(new[i], f)) /\ section[f] = v
  BY <1>1, <1>3, <1>6 DEF EndsWith
<1>7. QED BY <1>2, <1>5, <1>6 DEF EndsWith

\* The first save is answered and taken out.
LEMMA EndsLeft ==
  ASSUME NEW S, NEW list \in Seq(S), 1 \in DOMAIN list, list[1].at # "sent",
         NEW section, NEW f, NEW v, EndsWith(RemoveAt(list, 1), section, f, v)
  PROVE  EndsWith(list, section, f, v)
<1> DEFINE rest == RemoveAt(list, 1)
<1>1. /\ DOMAIN rest = 1..(Len(list) - 1) /\ DOMAIN list = 1..Len(list) /\ Len(list) \in Nat
      /\ \A j \in 1..(Len(list) - 1) : rest[j] = list[j + 1]
  <2>1. /\ DOMAIN rest = 1..(Len(list) - 1)
        /\ \A j \in 1..(Len(list) - 1) : rest[j] = list[j + 1]
    BY RemoveAtIndices
  <2>2. QED BY <2>1
<1>2. EndsWith(rest, section, f, v)
  OBVIOUS
<1>7. ~Sends(list[1], f)
  BY DEF Sends
<1> HIDE DEF rest
<1>3. ASSUME NEW j \in DOMAIN list, j # 1
      PROVE  j \in Nat /\ j - 1 \in DOMAIN rest /\ rest[j - 1] = list[j]
  <2>1. j \in Nat /\ j - 1 \in 1..(Len(list) - 1) /\ (j - 1) + 1 = j
    BY <1>1, <1>3
  <2>2. QED BY <1>1, <2>1
<1>4. CASE \E i \in DOMAIN rest : /\ Sends(rest[i], f) /\ Head(rest[i].requests)[f] = v
                                  /\ \A j \in DOMAIN rest : j > i => ~Sends(rest[j], f)
  <2>1. PICK i \in DOMAIN rest : /\ Sends(rest[i], f) /\ Head(rest[i].requests)[f] = v
                                 /\ \A j \in DOMAIN rest : j > i => ~Sends(rest[j], f)
    BY <1>4
  <2> DEFINE k == i + 1
  <2>2. i \in Nat /\ k \in DOMAIN list /\ list[k] = rest[i]
    BY <1>1
  <2>3. ASSUME NEW j \in DOMAIN list, j > k PROVE ~Sends(list[j], f)
    <3>1. j # 1 /\ j \in Nat
      BY <1>1, <2>2, <2>3
    <3>2. j - 1 > i
      BY <2>2, <2>3, <3>1
    <3>3. QED BY <1>3, <2>1, <3>1, <3>2
  <2> HIDE DEF k
  <2>4. QED BY <2>1, <2>2, <2>3 DEF EndsWith
<1>5. CASE (\A i \in DOMAIN rest : ~Sends(rest[i], f)) /\ section[f] = v
  <2>1. \A j \in DOMAIN list : ~Sends(list[j], f)
    BY <1>7, <1>3, <1>5
  <2>2. QED BY <1>5, <2>1 DEF EndsWith
<1>6. QED BY <1>2, <1>4, <1>5 DEF EndsWith

-----------------------------------------------------------------------------
(* The housing form: what a page shows is what it sends.                   *)

Tenancy  == "tenancyStatus"
Landlord == "landlordName"
Holder   == "freeHousingRightHolder"
\* The answers of the housing; the rest of the section a page computes.
Kept == {"street", "place"} \cup Housing!Housing
PageOf(f) ==
    CASE f \in {"street", "place"} -> 1 [] f = "accomodationType" -> 2
      [] f \in {Tenancy, Landlord, Holder} -> 3
      [] f \in {"subletRoomCount", "subletRentIncome"} -> 4 [] f = "rentPaidUntil" -> 5
      [] f = "costs" -> 6 [] f = "area" -> 7 [] f = "heatingType" -> 8

\* The answer on the screen, as it is stored.
Lodges(g) == g[Tenancy] = Housing!FreeLodging
Shown(g, f) ==
    CASE f = "street" -> IF g["noFixedAddress"] = "yes" THEN Housing!NoAddress ELSE g[f]
      [] f \in {Tenancy, Landlord} -> IF Lodges(g) THEN Unset ELSE g[f]
      [] f = Holder -> IF Lodges(g) THEN g[f] ELSE Unset
      [] OTHER -> g[f]
\* Where the screen fills in for a blank: nobody without an address is asked for the place, and
\* two answers have a default.
FillsIn(g, f) ==
    \/ f = "place" /\ g["noFixedAddress"] = "yes"
    \/ f = "accomodationType" /\ g[f] = "RentalApartment"
    \/ f = Tenancy /\ g[f] = "MainTenant"
Reads(g, f, v) == Shown(g, f) = v \/ (v = Unset /\ FillsIn(g, f))
\* What a page sends of an answer.
Given(g, f) == IF f = "place" /\ g["noFixedAddress"] = "yes" THEN Unset ELSE Shown(g, f)

\* A save sends answers of its page only, free lodging by its holder.
SentBy(p, r) == \A f \in DOMAIN r : /\ f \in Kept => PageOf(f) = p
                                    /\ f = Tenancy => r[f] # Housing!FreeLodging
\* Nobody has a landlord, or is a tenant, and lodges for free.
LodgingSent(r) ==
    Holder \in DOMAIN r => /\ Tenancy \in DOMAIN r
                           /\ r[Holder] # Unset => /\ r[Tenancy] = Unset /\ Landlord \in DOMAIN r
                                                   /\ r[Landlord] = Unset

HousingPages == {1, 15} \cup 2..8

LEMMA KeptFields ==
  /\ Kept = Housing!StoredFields \ {"state"} /\ Kept \subseteq Housing!Fields
  /\ Tenancy \in Kept /\ Landlord \in Kept /\ Holder \in Kept
  /\ \A f \in Kept : PageOf(f) \in 1..8
  BY DEF Kept, Housing!StoredFields, Housing!Fields, Housing!Housing, Tenancy, Landlord, Holder, PageOf

\* What a page sends is what it shows, all of it.
LEMMA SentAsShown ==
  ASSUME NEW g, NEW p \in HousingPages
  PROVE  /\ SentBy(p, Housing!Payload(g, p)) /\ LodgingSent(Housing!Payload(g, p))
         /\ \A f \in Kept : PageOf(f) = p =>
              /\ f \in DOMAIN Housing!Payload(g, p)
              /\ Housing!Payload(g, p)[f] = Given(g, f)
<1> DEFINE r == Housing!Payload(g, p)
<1>1. CASE p = 1
  <2>1. r = Housing!SaveAddress(g)
    BY <1>1 DEF Housing!Payload
  <2>2. /\ DOMAIN r = {"street", "place", "state"}
        /\ r["street"] = IF g["noFixedAddress"] = "yes" THEN Housing!NoAddress ELSE g["street"]
        /\ r["place"] = IF g["noFixedAddress"] = "yes" THEN Unset ELSE g["place"]
    BY <2>1 DEF Housing!SaveAddress, Unset, Housing!Unset
  <2> HIDE DEF r
  <2>3. SentBy(p, r) /\ LodgingSent(r)
    BY <1>1, <2>2 DEF SentBy, LodgingSent, Kept, Housing!Housing, PageOf, Tenancy, Landlord, Holder
  <2>4. \A f \in Kept : PageOf(f) = p <=> f \in {"street", "place"}
    BY <1>1 DEF Kept, Housing!Housing, PageOf, Tenancy, Landlord, Holder
  <2>5. r["street"] = Given(g, "street") /\ r["place"] = Given(g, "place")
    BY <2>2 DEF Given, Shown, Tenancy, Landlord, Holder
  <2>6. QED BY <2>2, <2>3, <2>4, <2>5 DEF r
<1>2. CASE p = 15
  BY <1>2 DEF Housing!Payload, Housing!SaveLastAddress, SentBy, LodgingSent, Kept, Housing!Housing, PageOf,
     Given, Shown, Unset, Housing!Unset, Tenancy, Landlord, Holder
<1>3. CASE p = 3
  <2>1. r = Housing!SaveTenancy(g)
    BY <1>3 DEF Housing!Payload
  <2>2. /\ DOMAIN r = {Tenancy, Landlord, Holder}
        /\ r[Holder] = IF Lodges(g) THEN g[Holder] ELSE Unset
        /\ r[Tenancy] = IF Lodges(g) THEN Unset ELSE g[Tenancy]
        /\ r[Landlord] = IF Lodges(g) THEN Unset ELSE g[Landlord]
    <3>1. /\ DOMAIN r = {Tenancy, Landlord, Holder}
          /\ \A f \in DOMAIN r : r[f] = IF (f = Holder) = Lodges(g) THEN g[f] ELSE Unset
      BY <2>1, Zenon DEF Housing!SaveTenancy, Lodges, Tenancy, Landlord, Holder, Housing!Unset, Unset
    <3>2. Tenancy # Holder /\ Landlord # Holder
      BY DEF Tenancy, Landlord, Holder
    <3> HIDE DEF r
    <3>3. CASE Lodges(g)
      BY <3>1, <3>2, <3>3
    <3>4. CASE ~Lodges(g)
      BY <3>1, <3>2, <3>4 DEF Lodges
    <3>5. QED BY <3>3, <3>4
  <2>3. /\ \A f \in Kept : PageOf(f) = 3 <=> f \in {Tenancy, Landlord, Holder}
        /\ Tenancy # Landlord /\ Tenancy # Holder /\ Landlord # Holder
    BY DEF Kept, Housing!Housing, PageOf, Tenancy, Landlord, Holder
  <2>4. /\ Given(g, Tenancy) = r[Tenancy] /\ Given(g, Landlord) = r[Landlord]
        /\ Given(g, Holder) = r[Holder]
    BY <2>2 DEF Given, Shown, Tenancy, Landlord, Holder
  <2>5. r[Tenancy] # Housing!FreeLodging
    BY <2>2 DEF Lodges, Housing!FreeLodging, Unset
  <2> HIDE DEF r
  <2>6. SentBy(p, r) /\ LodgingSent(r)
    BY <1>3, <2>2, <2>3, <2>5 DEF SentBy, LodgingSent
  <2>7. \A f \in Kept : PageOf(f) = p => f \in DOMAIN r /\ r[f] = Given(g, f)
    BY <1>3, <2>2, <2>3, <2>4
  <2>8. QED BY <2>6, <2>7 DEF r
<1>4. CASE p \in {2, 4, 5, 6, 7, 8}
  <2>1. r = Housing!Restrict(g, Housing!SentFields(p))
    BY <1>4 DEF Housing!Payload
  <2>2. DOMAIN r = Housing!SentFields(p) /\ \A f \in DOMAIN r : r[f] = g[f]
    BY <2>1 DEF Housing!Restrict
  <2>3. /\ \A f \in Kept : f \in Housing!SentFields(p) <=> PageOf(f) = p
        /\ \A f \in Housing!SentFields(p) : Given(g, f) = g[f]
        /\ Tenancy \notin Housing!SentFields(p) /\ Holder \notin Housing!SentFields(p)
    BY <1>4 DEF Housing!SentFields, Kept, Housing!Housing, PageOf, Given, Shown, Tenancy, Landlord, Holder
  <2> HIDE DEF r
  <2>4. SentBy(p, r) /\ LodgingSent(r)
    BY <2>2, <2>3 DEF SentBy, LodgingSent
  <2>5. \A f \in Kept : PageOf(f) = p => f \in DOMAIN r /\ r[f] = Given(g, f)
    BY <2>2, <2>3
  <2>6. QED BY <2>4, <2>5 DEF r
<1>5. QED BY <1>1, <1>2, <1>3, <1>4 DEF HousingPages

\* What is sent while the form turns from g into h: answers of the page, and nothing changes on
\* the others.
SameShown(g, h, f) == Shown(h, f) = Shown(g, f) /\ (FillsIn(h, f) <=> FillsIn(g, f))
Saving(g, h, p, r) ==
    /\ SentBy(p, r) /\ LodgingSent(r)
    /\ Holder \notin DOMAIN r => /\ Tenancy \notin DOMAIN r
                                 /\ Landlord \in DOMAIN r => g[Tenancy] = "Subtenant"
                                 /\ h[Tenancy] = "Subtenant" => g[Tenancy] = "Subtenant"
    /\ Holder \in DOMAIN r => (h[Tenancy] = "Subtenant" => r[Holder] = Unset)
    /\ \A f \in Kept : PageOf(f) # p => SameShown(g, h, f)
\* The page shows what was sent of it, and of the rest what it did.
Keeping(g, h, p, r) ==
    \A f \in Kept : PageOf(f) = p =>
        IF f \in DOMAIN r THEN Reads(h, f, r[f]) ELSE \A v : Reads(g, f, v) => Reads(h, f, v)

\* An input, or a choice, of the page.
OwnInput(i, p) == \/ i = "lastFixedAddress"
                  \/ i = "noFixedAddress" /\ p = 1
                  \/ i \in Kept /\ PageOf(i) = p

SameBut(g, e, i) == \A x \in Housing!Fields : x # i => e[x] = g[x]
LEMMA ChangedOne ==
  ASSUME NEW p, NEW i, OwnInput(i, p), NEW g, NEW e, SameBut(g, e, i), NEW f \in Kept, PageOf(f) # p
  PROVE  SameShown(g, e, f)
<1>1. \A x \in Housing!Fields : x # i => e[x] = g[x]
  BY DEF SameBut
<1>2. i # f /\ (f \in {"street", "place"} => i # "noFixedAddress")
            /\ (f \in {Tenancy, Landlord, Holder} => i # Tenancy)
  BY DEF OwnInput, Kept, Housing!Housing, PageOf, Tenancy, Landlord, Holder
<1>3. f \in Housing!Fields /\ Tenancy \in Housing!Fields /\ "noFixedAddress" \in Housing!Fields
  BY KeptFields DEF Housing!Fields
<1>4. e[f] = g[f]
  BY <1>1, <1>2, <1>3
<1>5. CASE f \in {"street", "place"}
  BY <1>1, <1>2, <1>3, <1>4, <1>5 DEF SameShown, FillsIn, Shown, Tenancy, Landlord, Holder
<1>6. CASE f \in {Tenancy, Landlord, Holder}
  BY <1>1, <1>2, <1>3, <1>4, <1>6 DEF SameShown, FillsIn, Shown, Lodges, Tenancy, Landlord, Holder
<1>7. CASE f \notin {"street", "place", Tenancy, Landlord, Holder}
  <2>1. ASSUME NEW x
        PROVE  Shown(x, f) = x[f] /\ (FillsIn(x, f) <=> f = "accomodationType" /\ x[f] = "RentalApartment")
    BY <1>7 DEF Shown, FillsIn
  <2>2. QED BY <1>4, <2>1 DEF SameShown
<1>8. QED BY <1>5, <1>6, <1>7

LEMMA InputsOwn ==
  ASSUME NEW g, NEW p \in HousingPages, NEW i \in Housing!Inputs(g, p)
  PROVE  OwnInput(i, p) /\ i # Tenancy
  BY DEF HousingPages, Housing!Inputs, OwnInput, Kept, Housing!Housing, PageOf, Tenancy, Landlord, Holder

\* Typing changes answers of the page only.
LEMMA EditedShown ==
  ASSUME NEW g, DOMAIN g = Housing!Fields, NEW p \in HousingPages, NEW e \in Housing!Edits(g, p)
  PROVE  /\ \A f \in Kept : PageOf(f) # p => SameShown(g, e, f)
         /\ p # 3 => e[Tenancy] = g[Tenancy]
<1>1. \/ e \in Housing!Typing(g, p)
      \/ p = 3 /\ e \in Housing!Choose(g, Tenancy, {Housing!FreeLodging})
  BY DEF Housing!Edits, Tenancy
<1>2. \E i, o : OwnInput(i, p) /\ (p # 3 => i # Tenancy) /\ e = [g EXCEPT ![i] = o]
  <2>1. CASE e \in Housing!Typing(g, p)
    <3>1. PICK i \in Housing!Inputs(g, p) : e \in Housing!TypeInto(g, i)
      BY <2>1 DEF Housing!Typing
    <3>2. \E o : e = [g EXCEPT ![i] = o]
      BY <3>1 DEF Housing!TypeInto, Housing!Choose
    <3>3. QED BY <3>2, InputsOwn
  <2>2. CASE p = 3 /\ e \in Housing!Choose(g, Tenancy, {Housing!FreeLodging})
    <3>1. e = [g EXCEPT ![Tenancy] = Housing!FreeLodging]
      BY <2>2 DEF Housing!Choose
    <3>2. OwnInput(Tenancy, p)
      BY <2>2 DEF OwnInput, Kept, Housing!Housing, PageOf, Tenancy, Landlord, Holder
    <3>3. QED BY <2>2, <3>1, <3>2
  <2>3. QED BY <1>1, <2>1, <2>2
<1>3. PICK i, o : OwnInput(i, p) /\ (p # 3 => i # Tenancy) /\ e = [g EXCEPT ![i] = o]
  BY <1>2
<1>4. ASSUME NEW f \in Kept, PageOf(f) # p PROVE SameShown(g, e, f)
  <2>1. OwnInput(i, p) /\ SameBut(g, e, i)
    BY <1>3 DEF SameBut
  <2>2. QED BY <1>4, <2>1, ChangedOne
<1>5. p # 3 => e[Tenancy] = g[Tenancy]
  BY <1>3, KeptFields
<1>6. QED BY <1>4, <1>5

\* Next and Back send the page as it is shown.
LEMMA PageSaves ==
  ASSUME NEW g, NEW p \in HousingPages
  PROVE  /\ Saving(g, g, p, Housing!Payload(g, p)) /\ Keeping(g, g, p, Housing!Payload(g, p))
         /\ \A f \in Kept : PageOf(f) = p => f \in DOMAIN Housing!Payload(g, p)
<1> DEFINE r == Housing!Payload(g, p)
<1>1. /\ SentBy(p, r) /\ LodgingSent(r)
      /\ \A f \in Kept : PageOf(f) = p => f \in DOMAIN r /\ r[f] = Given(g, f)
  BY SentAsShown
<1> HIDE DEF r
<1>2. \A f \in Kept : f \in DOMAIN r => PageOf(f) = p /\ r[f] = Given(g, f)
  BY <1>1 DEF SentBy
<1>3. /\ {Tenancy, Landlord, Holder} \subseteq Kept
      /\ PageOf(Tenancy) = 3 /\ PageOf(Landlord) = 3 /\ PageOf(Holder) = 3
  BY KeptFields DEF PageOf, Tenancy, Landlord, Holder
<1>4. Holder \notin DOMAIN r => Tenancy \notin DOMAIN r /\ Landlord \notin DOMAIN r
  BY <1>1, <1>2, <1>3
<1>5. g[Tenancy] = "Subtenant" => Given(g, Holder) = Unset
  BY DEF Given, Shown, Lodges, Housing!FreeLodging, Tenancy, Landlord, Holder
<1>6. \A f : SameShown(g, g, f) /\ Reads(g, f, Given(g, f))
  BY DEF SameShown, Reads, Given, FillsIn
<1>7. Saving(g, g, p, r)
  BY <1>1, <1>2, <1>3, <1>4, <1>5, <1>6 DEF Saving
<1>8. Keeping(g, g, p, r)
  BY <1>1, <1>6 DEF Keeping
<1>9. QED BY <1>1, <1>7, <1>8 DEF r

\* Leaving an input sends what it shows.
LEMMA BlurSaves ==
  ASSUME NEW g, NEW p \in HousingPages, NEW r \in Housing!Blurs(g, p)
  PROVE  Saving(g, g, p, r) /\ Keeping(g, g, p, r)
<1>1. PICK i \in Housing!Inputs(g, p) :
        r = CASE i = "lastFixedAddress" -> Housing!One("state", g[i])
              [] i = Holder -> Housing!SaveTenancy(g)
              [] OTHER -> Housing!One(i, g[i])
  BY DEF Housing!Blurs, Holder
<1>0. \A f : SameShown(g, g, f)
  BY DEF SameShown
<1>2. CASE i = "lastFixedAddress"
  <2>1. DOMAIN r = {"state"}
    BY <1>1, <1>2 DEF Housing!One, Holder
  <2>2. "state" \notin Kept /\ Tenancy \in Kept /\ Landlord \in Kept /\ Holder \in Kept
    BY KeptFields
  <2>3. QED BY <1>0, <2>1, <2>2 DEF Saving, Keeping, SentBy, LodgingSent
<1>3. CASE i = Holder
  <2>1. p = 3
    BY <1>3 DEF HousingPages, Housing!Inputs, Holder
  <2>2. r = Housing!Payload(g, p)
    BY <1>1, <1>3, <2>1 DEF Housing!Payload, Holder
  <2>3. QED BY <2>2, PageSaves
<1>4. CASE i \in Kept \ {Holder}
  <2>1. DOMAIN r = {i} /\ r[i] = g[i]
    BY <1>1, <1>4 DEF Housing!One, Kept, Housing!Housing
  <2>2. OwnInput(i, p) /\ i # Tenancy
    BY InputsOwn
  <2>3. PageOf(i) = p
    BY <1>4, <2>2 DEF OwnInput, Kept, Housing!Housing
  <2>4. (i = Landlord => g[Tenancy] = "Subtenant") /\ (i = "street" => g["noFixedAddress"] # "yes")
    BY DEF HousingPages, Housing!Inputs, Tenancy, Landlord
  <2>5. Shown(g, i) = g[i]
    BY <1>4, <2>2, <2>4 DEF Shown, Lodges, Housing!FreeLodging, Tenancy, Landlord, Holder
  <2>6. Keeping(g, g, p, r)
    BY <2>1, <2>5 DEF Keeping, Reads
  <2>7. QED BY <1>0, <1>4, <2>1, <2>2, <2>3, <2>4, <2>6 DEF Saving, SentBy, LodgingSent
<1>5. QED BY <1>2, <1>3, <1>4, InputsOwn DEF OwnInput, HousingPages, Housing!Inputs

\* One answer is chosen and sent.
LEMMA OptionSaves ==
  ASSUME NEW p, NEW f \in Kept \ {"street", "place", Tenancy, Landlord, Holder}, PageOf(f) = p,
         NEW g, NEW h, SameBut(g, h, f), NEW r, DOMAIN r = {f}, h[f] = r[f]
  PROVE  Saving(g, h, p, r) /\ Keeping(g, h, p, r)
<1>1. OwnInput(f, p)
  BY DEF OwnInput
<1>2. h[Tenancy] = g[Tenancy]
  BY KeptFields DEF SameBut
<1>3. \A x \in Kept : PageOf(x) # p => SameShown(g, h, x)
  BY <1>1, ChangedOne
<1>4. SentBy(p, r) /\ LodgingSent(r)
  BY DEF SentBy, LodgingSent
<1>5. Saving(g, h, p, r)
  BY <1>2, <1>3, <1>4 DEF Saving
<1>6. Reads(h, f, r[f])
  BY DEF Reads, Shown
<1>7. ASSUME NEW x \in Kept, PageOf(x) = p, x # f, NEW v, Reads(g, x, v) PROVE Reads(h, x, v)
  <2>1. x \in {"subletRoomCount", "subletRentIncome"}
    BY <1>7 DEF PageOf, Kept, Housing!Housing, Tenancy, Landlord, Holder
  <2>2. h[x] = g[x]
    BY <1>7, KeptFields DEF SameBut
  <2>3. \A y : Shown(y, x) = y[x] /\ ~FillsIn(y, x)
    BY <2>1 DEF Shown, FillsIn, Tenancy, Landlord, Holder
  <2>4. QED BY <1>7, <2>2, <2>3 DEF Reads
<1>8. Keeping(g, h, p, r)
  BY <1>6, <1>7 DEF Keeping
<1>9. QED BY <1>5, <1>8

\* A choice is saved with the answer it replaces.
LEMMA ChoiceSaves ==
  ASSUME NEW g, DOMAIN g = Housing!Fields, NEW p \in HousingPages, NEW c \in Housing!Choices(g, p)
  PROVE  Saving(g, c.form, p, c.data) /\ (Housing!BringsBack(g, c.form) \/ Keeping(g, c.form, p, c.data))
<1> DEFINE h == c.form
           r == c.data
<1>1. CASE p = 3
  <2>1. c \in Housing!TenancyChoices(g)
    BY <1>1 DEF Housing!Choices
  <2>2. PICK s \in {"MainTenant", "Subtenant"} :
          /\ h = [g EXCEPT !["tenancyStatus"] = s]
          /\ r = Housing!Merge(Housing!One("tenancyStatus", s),
                               Housing!One("freeHousingRightHolder", Housing!Unset))
    <3>1. PICK s \in {"MainTenant", "Subtenant"} :
            c = Housing!Chosen(g, "tenancyStatus", s,
                               Housing!Merge(Housing!One("tenancyStatus", s),
                                             Housing!One("freeHousingRightHolder", Housing!Unset)))
      BY <2>1 DEF Housing!TenancyChoices
    <3>2. QED BY <3>1 DEF Housing!Chosen
  <2>3. DOMAIN r = {Tenancy, Holder} /\ r[Tenancy] = s /\ r[Holder] = Unset
    BY <2>2 DEF Housing!Merge, Housing!One, Tenancy, Holder, Unset, Housing!Unset
  <2>4. SameBut(g, h, Tenancy) /\ h[Tenancy] = s
    BY <2>2, KeptFields DEF SameBut, Tenancy
  <2>5. ~Housing!BringsBack(g, h) => (Lodges(g) => g[Landlord] = Unset)
    BY <2>4 DEF Housing!BringsBack, Lodges, Tenancy, Landlord, Unset, Housing!Unset, Housing!FreeLodging
  <2> HIDE DEF h, r
  <2>6. /\ Tenancy # Holder /\ Landlord # Tenancy /\ Landlord # Holder
        /\ PageOf(Tenancy) = 3 /\ PageOf(Holder) = 3 /\ PageOf(Landlord) = 3
        /\ OwnInput(Tenancy, 3) /\ s # Housing!FreeLodging
    BY KeptFields DEF Tenancy, Landlord, Holder, PageOf, OwnInput, Housing!FreeLodging
  <2>7. SentBy(p, r) /\ LodgingSent(r)
    BY <1>1, <2>3, <2>6 DEF SentBy, LodgingSent
  <2>8. \A f \in Kept : PageOf(f) # p => SameShown(g, h, f)
    BY <1>1, <2>4, <2>6, ChangedOne
  <2>9. Saving(g, h, p, r)
    BY <2>3, <2>7, <2>8 DEF Saving
  <2>10. h[Landlord] = g[Landlord]
    BY <2>4, <2>6, KeptFields DEF SameBut
  <2>11. Shown(h, Tenancy) = s /\ Shown(h, Holder) = Unset /\ Shown(h, Landlord) = g[Landlord]
    BY <2>4, <2>6, <2>10 DEF Shown, Lodges, Tenancy, Landlord, Holder
  <2>12. /\ \A f \in Kept : PageOf(f) = 3 <=> f \in {Tenancy, Landlord, Holder}
         /\ ~FillsIn(g, Landlord)
    BY DEF Kept, Housing!Housing, PageOf, FillsIn, Tenancy, Landlord, Holder
  <2>13. (Lodges(g) => g[Landlord] = Unset) => Shown(g, Landlord) = g[Landlord]
    BY DEF Shown, Tenancy, Landlord, Holder
  <2>14. (Lodges(g) => g[Landlord] = Unset) => Keeping(g, h, p, r)
    BY <1>1, <2>3, <2>6, <2>11, <2>12, <2>13 DEF Keeping, Reads
  <2>15. QED BY <2>5, <2>9, <2>14 DEF h, r
<1>2. CASE p = 1
  <2>1. c = IF g["noFixedAddress"] = "yes"
            THEN Housing!Chosen(g, "noFixedAddress", "no", Housing!One("street", Housing!Unset))
            ELSE Housing!Chosen(g, "noFixedAddress", "yes", Housing!One("street", Housing!NoAddress))
    BY <1>2 DEF Housing!Choices, Housing!AddressChoices
  <2> DEFINE o == IF g["noFixedAddress"] = "yes" THEN "no" ELSE "yes"
  <2>2. /\ h = [g EXCEPT !["noFixedAddress"] = o]
        /\ r = Housing!One("street", IF o = "yes" THEN Housing!NoAddress ELSE Unset)
    BY <2>1 DEF Housing!Chosen, Unset, Housing!Unset
  <2>3. DOMAIN r = {"street"} /\ r["street"] = IF o = "yes" THEN Housing!NoAddress ELSE Unset
    BY <2>2 DEF Housing!One
  <2>4. SameBut(g, h, "noFixedAddress") /\ h["noFixedAddress"] = o
    BY <2>2 DEF SameBut, Housing!Fields
  <2>5. ~Housing!BringsBack(g, h) /\ o = "no" => g["street"] = Unset /\ g["place"] = Unset
    BY <2>4 DEF Housing!BringsBack, Unset, Housing!Unset
  <2> HIDE DEF h, r
  <2>6. /\ OwnInput("noFixedAddress", p) /\ "noFixedAddress" # Tenancy
        /\ PageOf("street") = p /\ "street" \in Kept
        /\ Tenancy # "street" /\ Holder # "street" /\ Landlord # "street"
    BY <1>2 DEF OwnInput, Kept, PageOf, Tenancy, Landlord, Holder
  <2>7. h["street"] = g["street"] /\ h["place"] = g["place"] /\ h[Tenancy] = g[Tenancy]
    BY <2>4, <2>6, KeptFields DEF SameBut, Housing!Fields
  <2>8. SentBy(p, r) /\ LodgingSent(r)
    BY <2>3, <2>6 DEF SentBy, LodgingSent
  <2>9. \A f \in Kept : PageOf(f) # p => SameShown(g, h, f)
    BY <2>4, <2>6, ChangedOne
  <2>10. Saving(g, h, p, r)
    BY <2>3, <2>6, <2>7, <2>8, <2>9 DEF Saving
  <2>11. \A f \in Kept : PageOf(f) = p <=> f \in {"street", "place"}
    BY <1>2 DEF Kept, Housing!Housing, PageOf, Tenancy, Landlord, Holder
  <2>12. ~Housing!BringsBack(g, h) => Reads(h, "street", r["street"])
    BY <2>3, <2>4, <2>5, <2>7 DEF Reads, Shown, Tenancy, Landlord, Holder
  <2>13. ~Housing!BringsBack(g, h) => \A v : Reads(g, "place", v) => Reads(h, "place", v)
    BY <2>4, <2>5, <2>7 DEF Reads, Shown, FillsIn, Tenancy, Landlord, Holder
  <2>14. ~Housing!BringsBack(g, h) => Keeping(g, h, p, r)
    BY <2>3, <2>11, <2>12, <2>13 DEF Keeping
  <2>15. QED BY <2>10, <2>14 DEF h, r
<1>3. CASE p \in {2, 4, 5, 8}
  <2>1. ASSUME NEW f \in Housing!Housing \ {Tenancy, Landlord, Holder}, PageOf(f) = p,
               NEW o, c = Housing!Chosen(g, f, o, Housing!One(f, o))
        PROVE  Saving(g, h, p, r) /\ Keeping(g, h, p, r)
    <3>1. h = [g EXCEPT ![f] = o] /\ r = Housing!One(f, o)
      BY <2>1 DEF Housing!Chosen
    <3>2. DOMAIN r = {f} /\ r[f] = o
      BY <3>1 DEF Housing!One
    <3>3. f \in Kept /\ f \in Housing!Fields /\ f \notin {"street", "place"}
      BY <2>1 DEF Kept, Housing!Housing, Housing!Fields
    <3>4. SameBut(g, h, f) /\ h[f] = o
      BY <3>1, <3>3 DEF SameBut
    <3> HIDE DEF h, r
    <3>5. QED BY <2>1, <3>2, <3>3, <3>4, OptionSaves
  <2>2. CASE p = 2
    <3>1. "accomodationType" \in Housing!Housing \ {Tenancy, Landlord, Holder} /\ PageOf("accomodationType") = p
      BY <2>2 DEF Housing!Housing, PageOf, Tenancy, Landlord, Holder
    <3>2. c \in Housing!AccomodationChoices(g)
      BY <2>2 DEF Housing!Choices
    <3>3. \E o : c = Housing!Chosen(g, "accomodationType", o, Housing!One("accomodationType", o))
      BY <3>2 DEF Housing!AccomodationChoices
    <3>4. QED BY <2>1, <3>1, <3>3
  <2>3. CASE p = 4
    <3>1. "subletRoomCount" \in Housing!Housing \ {Tenancy, Landlord, Holder} /\ PageOf("subletRoomCount") = p
      BY <2>3 DEF Housing!Housing, PageOf, Tenancy, Landlord, Holder
    <3>2. c \in Housing!SubletChoices(g)
      BY <2>3 DEF Housing!Choices
    <3>3. \E o : c = Housing!Chosen(g, "subletRoomCount", o, Housing!One("subletRoomCount", o))
      BY <3>2 DEF Housing!SubletChoices
    <3>4. QED BY <2>1, <3>1, <3>3
  <2>4. CASE p = 5
    <3>1. "rentPaidUntil" \in Housing!Housing \ {Tenancy, Landlord, Holder} /\ PageOf("rentPaidUntil") = p
      BY <2>4 DEF Housing!Housing, PageOf, Tenancy, Landlord, Holder
    <3>2. c \in Housing!ArrearsChoices(g)
      BY <2>4 DEF Housing!Choices
    <3>3. \E o : c = Housing!Chosen(g, "rentPaidUntil", o, Housing!One("rentPaidUntil", o))
      BY <3>2 DEF Housing!ArrearsChoices
    <3>4. QED BY <2>1, <3>1, <3>3
  <2>5. CASE p = 8
    <3>1. "heatingType" \in Housing!Housing \ {Tenancy, Landlord, Holder} /\ PageOf("heatingType") = p
      BY <2>5 DEF Housing!Housing, PageOf, Tenancy, Landlord, Holder
    <3>2. c \in Housing!HeatingChoices(g)
      BY <2>5 DEF Housing!Choices
    <3>3. \E o : c = Housing!Chosen(g, "heatingType", o, Housing!One("heatingType", o))
      BY <3>2 DEF Housing!HeatingChoices
    <3>4. QED BY <2>1, <3>1, <3>3
  <2>6. QED BY <1>3, <2>2, <2>3, <2>4, <2>5
<1>4. CASE p \notin {1, 2, 3, 4, 5, 8}
  BY <1>4 DEF Housing!Choices
<1>5. QED BY <1>1, <1>2, <1>3, <1>4

\* The profile fills the form with the answers it has.
Tenanted(section) == Housing!NoOrphans(section) /\ section[Tenancy] # Housing!FreeLodging
LEMMA HydratedShown ==
  ASSUME NEW section, Tenanted(section)
  PROVE  /\ \A f \in Kept : Reads(Housing!Hydrate(section), f, section[f])
         /\ Housing!Hydrate(section)[Tenancy] = "Subtenant" => section[Holder] = Unset
<1> DEFINE g == Housing!Hydrate(section)
<1>1. /\ section[Holder] # Unset => section[Tenancy] = Unset /\ section[Landlord] = Unset
      /\ section[Tenancy] # Housing!FreeLodging
  BY DEF Tenanted, Housing!NoOrphans, Tenancy, Landlord, Holder, Unset, Housing!Unset
<1>2. /\ g[Tenancy] = IF section[Holder] # Unset THEN Housing!FreeLodging
                      ELSE IF section[Tenancy] = Unset THEN "MainTenant" ELSE section[Tenancy]
      /\ g[Holder] = section[Holder] /\ g[Landlord] = section[Landlord]
  BY DEF Housing!Hydrate, Housing!Fields, Housing!Housing, Housing!OrDefault, Tenancy, Landlord, Holder,
         Unset, Housing!Unset
<1>3. /\ g["noFixedAddress"] = IF section["street"] = Housing!NoAddress THEN "yes" ELSE "no"
      /\ section["street"] # Housing!NoAddress => g["street"] = section["street"]
      /\ g["place"] = section["place"]
  BY DEF Housing!Hydrate, Housing!Fields, Housing!Housing
<1>4. /\ g["accomodationType"] = IF section["accomodationType"] = Unset THEN "RentalApartment"
                                 ELSE section["accomodationType"]
      /\ \A f \in Housing!Housing \ {"accomodationType", Tenancy, Landlord, Holder} : g[f] = section[f]
  BY DEF Housing!Hydrate, Housing!Fields, Housing!Housing, Housing!OrDefault, Tenancy, Landlord, Holder,
         Unset, Housing!Unset
<1> HIDE DEF g
<1>5. Lodges(g) <=> section[Holder] # Unset
  BY <1>1, <1>2 DEF Lodges, Housing!FreeLodging
<1>6. ASSUME NEW f \in Kept PROVE Reads(g, f, section[f])
  <2>1. CASE f \in {"street", "place"}
    BY <1>3, <2>1 DEF Reads, Shown, Tenancy, Landlord, Holder
  <2>2. CASE f = Tenancy
    BY <1>1, <1>2, <1>5, <2>2 DEF Reads, FillsIn, Shown, Tenancy, Landlord, Holder
  <2>3. CASE f \in {Landlord, Holder}
    BY <1>1, <1>2, <1>5, <2>3 DEF Reads, Shown, Tenancy, Landlord, Holder
  <2>4. CASE f \notin {"street", "place", Tenancy, Landlord, Holder}
    <3>1. Shown(g, f) = g[f]
      BY <2>4 DEF Shown
    <3>2. CASE f = "accomodationType"
      BY <1>4, <3>1, <3>2 DEF Reads, FillsIn
    <3>3. CASE f # "accomodationType"
      BY <1>4, <2>4, <3>1, <3>3 DEF Kept, Reads
    <3>4. QED BY <3>2, <3>3
  <2>5. QED BY <2>1, <2>2, <2>3, <2>4
<1>7. g[Tenancy] = "Subtenant" => section[Holder] = Unset
  BY <1>5 DEF Lodges, Housing!FreeLodging
<1>8. QED BY <1>6, <1>7 DEF g

-----------------------------------------------------------------------------
(* What the housing form shows and what it will have stored.               *)

\* The answers of the page may be lost: it was edited, or a save of it was refused.
IsMissing(p, list, open) ==
    p \in open \/ \E i \in DOMAIN list : list[i].at = "refused" /\ list[i].page = p
\* Whoever ends up lodging for free has no landlord then, and a subtenant on the screen has no
\* holder, since leaving the landlord's name sends the name alone.
LodgingOK(list, section, g) ==
    /\ \A v : EndsWith(list, section, Holder, v) /\ v # Unset =>
         \A u : EndsWith(list, section, Tenancy, u) \/ EndsWith(list, section, Landlord, u) => u = Unset
    /\ g[Tenancy] = "Subtenant" => \A v : EndsWith(list, section, Holder, v) => v = Unset
ShownOK(list, section, g, f) == \A v : EndsWith(list, section, f, v) => Reads(g, f, v)

LodgesFit(list, section, g, open) == IsMissing(3, list, open) \/ LodgingOK(list, section, g)
ShowsFit(list, section, g, open) ==
    \A f \in Kept : IsMissing(PageOf(f), list, open) \/ ShownOK(list, section, g, f)

\* Every field ends as before, but those of the pages that are missing.
Carries(list, section, open, new, after, left) ==
    /\ \A q : IsMissing(q, list, open) => IsMissing(q, new, left)
    /\ \A f \in Kept : \A v : ~IsMissing(PageOf(f), new, left) /\ EndsWith(new, after, f, v) =>
                                EndsWith(list, section, f, v)

LEMMA FitsCarried ==
  ASSUME NEW list, NEW section, NEW open, NEW new, NEW after, NEW left, NEW g,
         Carries(list, section, open, new, after, left)
  PROVE  /\ LodgesFit(list, section, g, open) => LodgesFit(new, after, g, left)
         /\ ShowsFit(list, section, g, open) => ShowsFit(new, after, g, left)
<1>1. /\ \A q : IsMissing(q, list, open) => IsMissing(q, new, left)
      /\ \A f \in Kept : \A v : ~IsMissing(PageOf(f), new, left) /\ EndsWith(new, after, f, v) =>
                                  EndsWith(list, section, f, v)
  BY DEF Carries
<1>2. /\ Tenancy \in Kept /\ Landlord \in Kept /\ Holder \in Kept
      /\ PageOf(Tenancy) = 3 /\ PageOf(Landlord) = 3 /\ PageOf(Holder) = 3
  BY KeptFields DEF PageOf, Tenancy, Landlord, Holder
<1>3. ASSUME LodgesFit(list, section, g, open), ~IsMissing(3, new, left)
      PROVE  LodgingOK(new, after, g)
  <2>1. LodgingOK(list, section, g)
    BY <1>1, <1>3 DEF LodgesFit
  <2>2. \A v : /\ EndsWith(new, after, Holder, v) => EndsWith(list, section, Holder, v)
               /\ EndsWith(new, after, Tenancy, v) => EndsWith(list, section, Tenancy, v)
               /\ EndsWith(new, after, Landlord, v) => EndsWith(list, section, Landlord, v)
    BY <1>1, <1>2, <1>3
  <2>3. QED BY <2>1, <2>2 DEF LodgingOK
<1>4. ASSUME ShowsFit(list, section, g, open), NEW f \in Kept, ~IsMissing(PageOf(f), new, left)
      PROVE  ShownOK(new, after, g, f)
  <2>1. ShownOK(list, section, g, f)
    BY <1>1, <1>4 DEF ShowsFit
  <2>2. QED BY <1>1, <1>4, <2>1 DEF ShownOK
<1>5. QED BY <1>3, <1>4 DEF LodgesFit, ShowsFit

\* A save is appended while the form turns from g into h.
LEMMA FitsSaved ==
  ASSUME NEW S, NEW list \in Seq(S), NEW s \in S, NEW section, NEW g, NEW h, NEW p, NEW r,
         s.at = "sent", Head(s.requests) = r, Saving(g, h, p, r), NEW open, NEW left,
         \/ left = open \cup {p}
         \/ left = open /\ Keeping(g, h, p, r)
         \/ /\ left = open \ {p} /\ Keeping(g, h, p, r)
            /\ \A f \in Kept : PageOf(f) = p => f \in DOMAIN r
  PROVE  /\ LodgesFit(list, section, g, open) => LodgesFit(Append(list, s), section, h, left)
         /\ ShowsFit(list, section, g, open) => ShowsFit(Append(list, s), section, h, left)
<1> DEFINE new == Append(list, s)
<1>1. /\ \A j \in DOMAIN list : j \in DOMAIN new /\ new[j] = list[j]
  OBVIOUS
<1>2. \A f, v : EndsWith(new, section, f, v) =>
         IF f \in DOMAIN r THEN v = r[f] ELSE EndsWith(list, section, f, v)
  BY EndsAppended DEF Sends
<1> HIDE DEF new
<1>3. \A q : IsMissing(q, list, open) /\ (q # p \/ open \subseteq left) => IsMissing(q, new, left)
  BY <1>1 DEF IsMissing
<1>4. /\ Tenancy \in Kept /\ Landlord \in Kept /\ Holder \in Kept
      /\ PageOf(Tenancy) = 3 /\ PageOf(Landlord) = 3 /\ PageOf(Holder) = 3
  BY KeptFields DEF PageOf, Tenancy, Landlord, Holder
<1>5. ASSUME LodgesFit(list, section, g, open), ~IsMissing(3, new, left)
      PROVE  LodgingOK(new, section, h)
  <2>1. CASE Holder \in DOMAIN r
    <3>1. \A v : EndsWith(new, section, Holder, v) => v = r[Holder]
      BY <1>2, <2>1
    <3>2. r[Holder] # Unset => \A u : EndsWith(new, section, Tenancy, u) \/ EndsWith(new, section, Landlord, u)
                                        => u = Unset
      BY <1>2, <2>1 DEF Saving, LodgingSent
    <3>3. QED BY <2>1, <3>1, <3>2 DEF LodgingOK, Saving
  <2>2. CASE Holder \notin DOMAIN r
    <3>1. LodgingOK(list, section, g)
      BY <1>3, <1>4, <1>5, <2>2 DEF LodgesFit
    <3>2. \A v : EndsWith(new, section, Holder, v) => EndsWith(list, section, Holder, v)
      BY <1>2, <2>2
    <3>3. \A v : EndsWith(new, section, Tenancy, v) => EndsWith(list, section, Tenancy, v)
      BY <1>2, <2>2 DEF Saving
    <3>4. CASE Landlord \in DOMAIN r
      <4>1. \A v : EndsWith(list, section, Holder, v) => v = Unset
        BY <2>2, <3>1, <3>4 DEF Saving, LodgingOK
      <4>2. QED BY <3>2, <4>1 DEF LodgingOK
    <3>5. CASE Landlord \notin DOMAIN r
      <4>1. \A v : EndsWith(new, section, Landlord, v) => EndsWith(list, section, Landlord, v)
        BY <1>2, <3>5
      <4>2. h[Tenancy] = "Subtenant" => g[Tenancy] = "Subtenant"
        BY <2>2 DEF Saving
      <4>3. QED BY <3>1, <3>2, <3>3, <4>1, <4>2 DEF LodgingOK
    <3>6. QED BY <3>4, <3>5
  <2>3. QED BY <2>1, <2>2
<1>6. ASSUME ShowsFit(list, section, g, open), NEW f \in Kept, ~IsMissing(PageOf(f), new, left)
      PROVE  ShownOK(new, section, h, f)
  <2>1. CASE f \in DOMAIN r
    <3>1. PageOf(f) = p
      BY <2>1 DEF Saving, SentBy
    <3>2. Keeping(g, h, p, r)
      BY <1>6, <3>1 DEF IsMissing
    <3>3. QED BY <1>2, <2>1, <3>1, <3>2 DEF ShownOK, Keeping
  <2>2. CASE f \notin DOMAIN r
    <3>1. ShownOK(list, section, g, f)
      BY <1>3, <1>6, <2>2 DEF ShowsFit
    <3>2. \A v : Reads(g, f, v) => Reads(h, f, v)
      <4>1. CASE PageOf(f) # p
        BY <4>1 DEF Saving, SameShown, Reads
      <4>2. CASE PageOf(f) = p
        <5>1. Keeping(g, h, p, r)
          BY <1>6, <4>2 DEF IsMissing
        <5>2. QED BY <2>2, <4>2, <5>1 DEF Keeping
      <4>3. QED BY <4>1, <4>2
    <3>3. QED BY <1>2, <2>2, <3>1, <3>2 DEF ShownOK
  <2>3. QED BY <2>1, <2>2
<1>7. QED BY <1>5, <1>6 DEF LodgesFit, ShowsFit, new

\* The first save is applied, refused or answered.
LEMMA CarriedApplied ==
  ASSUME NEW S, NEW list \in Seq(S), 1 \in DOMAIN list, list[1].at = "sent",
         NEW s, s.at = "applied", NEW section, Kept \subseteq DOMAIN section, NEW open
  PROVE  Carries(list, section, open, [list EXCEPT ![1] = s],
                 Merge(section, Head(list[1].requests)), open)
<1> DEFINE new == [list EXCEPT ![1] = s]
           after == Merge(section, Head(list[1].requests))
<1>1. DOMAIN new = DOMAIN list /\ \A j \in DOMAIN list : j # 1 => new[j] = list[j]
  OBVIOUS
<1>2. \A f \in Kept : \A v : EndsWith(new, after, f, v) => EndsWith(list, section, f, v)
  BY EndsApplied
<1> HIDE DEF new, after
<1>3. \A q : IsMissing(q, list, open) => IsMissing(q, new, open)
  BY <1>1 DEF IsMissing
<1>4. Carries(list, section, open, new, after, open)
  BY <1>2, <1>3 DEF Carries
<1>5. QED BY <1>4 DEF new, after

LEMMA CarriedRefused ==
  ASSUME NEW S, NEW list \in Seq(S), 1 \in DOMAIN list, list[1].at = "sent",
         NEW s, s.at = "refused", s.page = list[1].page, SentBy(s.page, Head(list[1].requests)),
         NEW section, NEW open
  PROVE  Carries(list, section, open, [list EXCEPT ![1] = s], section, open)
<1> DEFINE new == [list EXCEPT ![1] = s]
<1>1. DOMAIN new = DOMAIN list /\ new[1] = s /\ \A j \in DOMAIN list : j # 1 => new[j] = list[j]
  OBVIOUS
<1>2. \A f, v : f \notin DOMAIN Head(list[1].requests) /\ EndsWith(new, section, f, v) =>
                  EndsWith(list, section, f, v)
  BY EndsRefused
<1> HIDE DEF new
<1>3. \A q : IsMissing(q, list, open) => IsMissing(q, new, open)
  BY <1>1 DEF IsMissing
<1>4. IsMissing(s.page, new, open)
  BY <1>1 DEF IsMissing
<1>5. \A f \in Kept : ~IsMissing(PageOf(f), new, open) => f \notin DOMAIN Head(list[1].requests)
  BY <1>4 DEF SentBy
<1>6. Carries(list, section, open, new, section, open)
  BY <1>2, <1>3, <1>5 DEF Carries
<1>7. QED BY <1>6 DEF new

LEMMA CarriedLeft ==
  ASSUME NEW S, NEW list \in Seq(S), 1 \in DOMAIN list, list[1].at # "sent", NEW section,
         NEW open, NEW left, open \subseteq left, list[1].at = "refused" => list[1].page \in left
  PROVE  Carries(list, section, open, RemoveAt(list, 1), section, left)
<1> DEFINE new == RemoveAt(list, 1)
<1>1. /\ DOMAIN new = 1..(Len(list) - 1) /\ DOMAIN list = 1..Len(list) /\ Len(list) \in Nat
      /\ \A j \in 1..(Len(list) - 1) : new[j] = list[j + 1]
  <2>1. /\ DOMAIN new = 1..(Len(list) - 1)
        /\ \A j \in 1..(Len(list) - 1) : new[j] = list[j + 1]
    BY RemoveAtIndices
  <2>2. QED BY <2>1
<1>2. \A f, v : EndsWith(new, section, f, v) => EndsWith(list, section, f, v)
  BY EndsLeft
<1> HIDE DEF new
<1>3. ASSUME NEW i \in DOMAIN list, i # 1 PROVE \E j \in DOMAIN new : new[j] = list[i]
  <2>1. i - 1 \in 1..(Len(list) - 1) /\ (i - 1) + 1 = i
    BY <1>1, <1>3
  <2>2. QED BY <1>1, <2>1
<1>4. \A q : IsMissing(q, list, open) => IsMissing(q, new, left)
  BY <1>3 DEF IsMissing
<1>5. Carries(list, section, open, new, section, left)
  BY <1>2, <1>4 DEF Carries
<1>6. QED BY <1>5 DEF new

\* A housing save sends one request, with answers of its page.
OneSend(s) == Tail(s.requests) = <<>> /\ SentBy(s.page, Head(s.requests))
SendsOne(list) == \A i \in DOMAIN list : OneSend(list[i])
HousingFits ==
    view = "housing" =>
        /\ SendsOne(saves)
        /\ ~behind => /\ stored[Tenancy] # Housing!FreeLodging
                      /\ LodgesFit(saves, stored, form, unsaved)
                      /\ HasProfile => ShowsFit(saves, stored, form, unsaved)

\* The profile fills the form while nothing is on its way.
LEMMA HydratedFits ==
  ASSUME NEW section, Tenanted(section), NEW list, list = <<>>, NEW open
  PROVE  /\ LodgesFit(list, section, Housing!Hydrate(section), open)
         /\ ShowsFit(list, section, Housing!Hydrate(section), open)
<1> DEFINE g == Housing!Hydrate(section)
<1>1. \A f, v : EndsWith(list, section, f, v) <=> section[f] = v
  BY DEF EndsWith
<1>2. /\ \A f \in Kept : Reads(g, f, section[f])
      /\ g[Tenancy] = "Subtenant" => section[Holder] = Unset
  BY HydratedShown
<1>3. section[Holder] # Unset => section[Tenancy] = Unset /\ section[Landlord] = Unset
  BY DEF Tenanted, Housing!NoOrphans, Tenancy, Landlord, Holder, Unset, Housing!Unset
<1> HIDE DEF g
<1>4. LodgingOK(list, section, g) /\ \A f \in Kept : ShownOK(list, section, g, f)
  BY <1>1, <1>2, <1>3 DEF LodgingOK, ShownOK
<1>5. QED BY <1>4 DEF LodgesFit, ShowsFit, g

\* The user starts a save of the page while the form turns into another.
LEMMA SavedFits ==
  ASSUME Shape, HousingFits, view = "housing", UNCHANGED <<view, stored, loaded, behind>>,
         NEW r, Saving(form, form', page, r), NEW to, Start(Save(page, <<r>>, to)),
         \/ unsaved' = unsaved \cup {page}
         \/ UNCHANGED unsaved /\ Keeping(form, form', page, r)
         \/ /\ unsaved' = unsaved \ {page} /\ Keeping(form, form', page, r)
            /\ \A f \in Kept : PageOf(f) = page => f \in DOMAIN r
  PROVE  HousingFits'
<1> DEFINE s == Save(page, <<r>>, to)
           S == {saves[k] : k \in DOMAIN saves} \cup {s}
           new == Append(saves, s)
<1>1. saves \in Seq(S) /\ s \in S
  BY DEF Shape, ListsOK, SavesOK
<1>2. /\ s.at = "sent" /\ s.page = page /\ s.requests = <<r>>
      /\ Head(s.requests) = r /\ Tail(s.requests) = <<>>
  BY DEF Save
<1>3. saves' = new
  BY DEF Start
<1>4. \A j \in DOMAIN new : new[j] = s \/ (j \in DOMAIN saves /\ new[j] = saves[j])
  BY <1>1
<1> HIDE DEF S
<1>5. /\ LodgesFit(saves, stored, form, unsaved) => LodgesFit(new, stored, form', unsaved')
      /\ ShowsFit(saves, stored, form, unsaved) => ShowsFit(new, stored, form', unsaved')
  BY <1>1, <1>2, FitsSaved
<1> HIDE DEF s, new
<1>6. SentBy(page, r)
  BY DEF Saving
<1>7. SendsOne(new)
  BY <1>2, <1>4, <1>6 DEF SendsOne, OneSend, HousingFits
<1>8. QED BY <1>3, <1>5, <1>7 DEF HousingFits, HasProfile

\* Typing, choosing and pressing the buttons.
LEMMA UserFits ==
  ASSUME Shape, HousingFits, view = "housing", User
  PROVE  HousingFits'
<1>1. /\ view \in Views /\ ScreenOK /\ UNCHANGED <<view, stored, loaded, behind>>
  BY DEF Shape, User, Edit, ChooseAndSave, SaveField, PressNext, Back, SavePage, server
<1>2. page \in HousingPages
  BY DEF User, Edit, ChooseAndSave, SaveField, PressNext, Back, Open, AllPages, HousingPages
<1>3. DOMAIN form = Housing!Fields
  BY <1>1 DEF ScreenOK, FormAtMount, Housing!FormAtMount
<1>4. CASE Edit
  <2>1. /\ form' \in Housing!Edits(form, page) /\ unsaved' = unsaved \cup {page} /\ saves' = saves
    BY <1>4 DEF Edit, EditsOf
  <2>2. /\ \A f \in Kept : PageOf(f) # page => SameShown(form, form', f)
        /\ page # 3 => form'[Tenancy] = form[Tenancy]
    BY <1>2, <1>3, <2>1, EditedShown
  <2>3. \A q : IsMissing(q, saves, unsaved) \/ q = page => IsMissing(q, saves, unsaved')
    BY <2>1 DEF IsMissing
  <2>4. LodgesFit(saves, stored, form, unsaved) => LodgesFit(saves, stored, form', unsaved')
    BY <2>2, <2>3 DEF LodgesFit, LodgingOK
  <2>5. ShowsFit(saves, stored, form, unsaved) => ShowsFit(saves, stored, form', unsaved')
    BY <2>2, <2>3 DEF ShowsFit, ShownOK, SameShown, Reads
  <2>6. QED BY <1>1, <2>1, <2>4, <2>5 DEF HousingFits, HasProfile
<1>5. CASE ChooseAndSave
  <2>1. PICK c \in Housing!Choices(form, page) :
          /\ form' = c.form /\ Start(Save(page, <<c.data>>, Stay))
          /\ unsaved' = IF Housing!BringsBack(form, c.form) THEN unsaved \cup {page} ELSE unsaved
    BY <1>5 DEF ChooseAndSave
  <2>2. /\ Saving(form, form', page, c.data)
        /\ Housing!BringsBack(form, form') \/ Keeping(form, form', page, c.data)
    BY <1>2, <1>3, <2>1, ChoiceSaves
  <2>3. QED BY <1>1, <2>1, <2>2, SavedFits
<1>6. CASE SaveField
  <2>1. PICK data \in Housing!Blurs(form, page) : Start(Save(page, <<data>>, Stay))
    BY <1>6 DEF SaveField
  <2>2. UNCHANGED <<form, unsaved>>
    BY <1>6 DEF SaveField, screen
  <2>3. Saving(form, form', page, data) /\ Keeping(form, form', page, data)
    BY <1>2, <2>2, BlurSaves
  <2>4. QED BY <1>1, <2>1, <2>2, <2>3, SavedFits
<1>7. ASSUME NEW to, SavePage(to) PROVE HousingFits'
  <2> DEFINE r == Housing!Payload(form, page)
  <2>1. Start(Save(page, <<r>>, to)) /\ unsaved' = unsaved \ {page} /\ UNCHANGED form
    BY <1>7 DEF SavePage, Requests
  <2>2. /\ Saving(form, form', page, r) /\ Keeping(form, form', page, r)
        /\ \A f \in Kept : PageOf(f) = page => f \in DOMAIN r
    BY <1>2, <2>1, PageSaves
  <2> HIDE DEF r
  <2>3. QED BY <1>1, <2>1, <2>2, SavedFits
<1>8. QED BY <1>4, <1>5, <1>6, <1>7 DEF User, PressNext, Back

\* The first save is applied or refused.
LEMMA ServedFits ==
  ASSUME Shape, HousingFits, view = "housing", NEW i \in DOMAIN saves, Apply(i) \/ Refuse(i)
  PROVE  HousingFits'
<1> DEFINE S == {saves[k] : k \in DOMAIN saves}
<1>1. /\ i = 1 /\ saves[1].at = "sent" /\ UNCHANGED <<view, loaded, form, unsaved, behind>>
      /\ IsSave(saves[1]) /\ saves \in Seq(S) /\ OneSend(saves[1])
  BY DEF Apply, Refuse, InFlight, screen, Shape, ListsOK, SavesOK, HousingFits, SendsOne
<1>2. Kept \subseteq DOMAIN stored
  BY KeptFields DEF Shape, DataOK, SectionFields
<1> HIDE DEF S
<1>3. ASSUME NEW s, s.requests = saves[1].requests, s.page = saves[1].page,
             saves' = [saves EXCEPT ![1] = s]
      PROVE  SendsOne(saves')
  <2>1. OneSend(s)
    BY <1>1, <1>3 DEF OneSend
  <2>2. DOMAIN saves' = DOMAIN saves /\ saves'[1] = s /\ \A k \in DOMAIN saves : k # 1 => saves'[k] = saves[k]
    BY <1>1, <1>3
  <2>3. QED BY <2>1, <2>2 DEF HousingFits, SendsOne
<1>4. CASE Apply(i)
  <2> DEFINE s == [saves[1] EXCEPT !.at = "applied", !.jumps = WizardPages(stored', saves[1].page)]
  <2>1. s.at = "applied" /\ s.requests = saves[1].requests /\ s.page = saves[1].page
    BY <1>1 DEF IsSave
  <2>2. saves' = [saves EXCEPT ![1] = s] /\ stored' = Merge(stored, Head(saves[1].requests))
    BY <1>1, <1>4 DEF Apply
  <2> HIDE DEF s
  <2>3. Carries(saves, stored, unsaved, saves', stored', unsaved)
    BY <1>1, <1>2, <2>1, <2>2, CarriedApplied
  <2>4. stored[Tenancy] # Housing!FreeLodging => stored'[Tenancy] # Housing!FreeLodging
    <3>1. Tenancy \in DOMAIN stored
      BY <1>2, KeptFields
    <3>2. SentBy(saves[1].page, Head(saves[1].requests))
      BY <1>1 DEF OneSend
    <3>3. QED BY <2>2, <3>1, <3>2 DEF Merge, SentBy
  <2>5. SendsOne(saves')
    BY <1>3, <2>1, <2>2
  <2>6. QED BY <1>1, <2>3, <2>4, <2>5, FitsCarried DEF HousingFits, HasProfile
<1>5. CASE Refuse(i)
  <2> DEFINE s == [saves[1] EXCEPT !.at = "refused"]
  <2>1. s.at = "refused" /\ s.requests = saves[1].requests /\ s.page = saves[1].page
    BY <1>1 DEF IsSave
  <2>2. saves' = [saves EXCEPT ![1] = s] /\ UNCHANGED stored
    BY <1>1, <1>5 DEF Refuse, server
  <2> HIDE DEF s
  <2>3. Carries(saves, stored, unsaved, saves', stored, unsaved)
    BY <1>1, <2>1, <2>2, CarriedRefused DEF OneSend
  <2>4. SendsOne(saves')
    BY <1>3, <2>1, <2>2
  <2>5. QED BY <1>1, <2>2, <2>3, <2>4, FitsCarried DEF HousingFits, HasProfile
<1>6. QED BY <1>4, <1>5

\* The first save is answered.
LEMMA AnsweredFits ==
  ASSUME Shape, HousingFits, view = "housing", NEW i \in DOMAIN saves, Answer(i)
  PROVE  HousingFits'
<1> DEFINE S == {saves[k] : k \in DOMAIN saves}
<1>1. Succeed(i) \/ Fail(i)
  BY DEF Answer
<1>2. i = 1 /\ saves[1].at # "sent"
  BY <1>1, AnsweredIsFirst DEF Shape, Succeed, Fail
<1>3. /\ saves \in Seq(S) /\ 1 \in DOMAIN saves /\ OneSend(saves[1])
      /\ UNCHANGED <<view, stored, loaded, form, behind>>
  BY <1>1, <1>2 DEF Shape, ListsOK, SavesOK, HousingFits, SendsOne, Succeed, Fail, server
<1> HIDE DEF S
<1>4. /\ saves' = RemoveAt(saves, 1) /\ unsaved \subseteq unsaved'
      /\ saves[1].at = "refused" => saves[1].page \in unsaved'
  <2>1. CASE Succeed(i)
    BY <1>2, <1>3, <2>1 DEF Succeed, VerifiesCard, OneSend
  <2>2. CASE Fail(i)
    BY <1>2, <2>2 DEF Fail
  <2>3. QED BY <1>1, <2>1, <2>2
<1>5. Carries(saves, stored, unsaved, saves', stored, unsaved')
  BY <1>2, <1>3, <1>4, CarriedLeft
<1>6. SendsOne(saves')
  <2>1. \A j \in DOMAIN saves' : \E k \in DOMAIN saves : saves'[j] = saves[k]
    BY <1>3, <1>4, RemoveAtElements
  <2>2. QED BY <2>1 DEF HousingFits, SendsOne
<1>7. QED BY <1>3, <1>5, <1>6, FitsCarried DEF HousingFits, HasProfile

\* The profile arrives, or a request for it fails, or somebody else writes.
LEMMA CacheFits ==
  ASSUME Shape, HousingFits, view = "housing",
         Refetch \/ Read \/ Arrive \/ FetchFails \/ WriteElsewhere
  PROVE  HousingFits'
<1>1. UNCHANGED <<view, saves>>
  BY DEF Refetch, Read, Arrive, FetchFails, WriteElsewhere
<1>2. CASE WriteElsewhere
  BY <1>1, <1>2 DEF WriteElsewhere, HousingFits
<1>3. CASE Refetch \/ Read \/ FetchFails
  <2>1. UNCHANGED <<stored, form, unsaved, behind>> /\ (HasProfile' => HasProfile)
    BY <1>3 DEF Refetch, Read, FetchFails, server, screen, HasProfile
  <2>2. QED BY <1>1, <2>1 DEF HousingFits
<1>4. CASE Arrive /\ HasProfile
  <2>1. UNCHANGED <<stored, form, unsaved, behind>>
    <3>1. \A f, profile : NewlyGuessed(f, profile) = {}
      BY DEF NewlyGuessed, Guessed, Merging
    <3>2. QED BY <1>4, <3>1 DEF Arrive, server, LaterForm
  <2>2. QED BY <1>1, <1>4, <2>1 DEF HousingFits
<1>5. CASE Arrive /\ ~HasProfile
  <2>1. /\ UNCHANGED stored /\ form' = Housing!Hydrate(fetch)
        /\ behind' = (behind \/ saves # <<>> \/ fetch # stored \/ unsaved # {})
    BY <1>5 DEF Arrive, server, FirstForm
  <2>2. CASE ~behind'
    <3>1. ~behind /\ saves = <<>> /\ fetch = stored /\ unsaved = {}
      BY <2>1, <2>2
    <3>2. \A f, v : EndsWith(saves, stored, f, v) <=> stored[f] = v
      BY <3>1 DEF EndsWith
    <3>3. ~IsMissing(3, saves, unsaved)
      BY <3>1 DEF IsMissing
    <3>4. stored[Tenancy] # Housing!FreeLodging /\ LodgingOK(saves, stored, form)
      BY <3>1, <3>3 DEF HousingFits, LodgesFit
    <3>5. Tenanted(stored)
      BY <3>2, <3>4 DEF LodgingOK, Tenanted, Housing!NoOrphans, Tenancy, Landlord, Holder, Unset,
                        Housing!Unset
    <3>6. /\ LodgesFit(saves, stored, form', unsaved') /\ ShowsFit(saves, stored, form', unsaved')
      BY <2>1, <3>1, <3>5, HydratedFits
    <3>7. QED BY <1>1, <2>1, <3>4, <3>6 DEF HousingFits
  <2>3. QED BY <1>1, <2>2 DEF HousingFits
<1>6. QED BY <1>2, <1>3, <1>4, <1>5

\* The housing sections a profile may hold when the view is opened name a tenant or a holder.
SectionsTenanted == "housing" \in Views => \A s \in Stored["housing"] : Tenanted(s)

LEMMA InitialFits == ASSUME SectionsTenanted, Init PROVE HousingFits
<1> SUFFICES ASSUME view = "housing" PROVE HousingFits
  BY DEF HousingFits
<1>1. view \in Views /\ stored \in Stored[view] /\ saves = <<>> /\ unsaved = {} /\ ~behind
  BY DEF Init
<1>2. Tenanted(stored) /\ SendsOne(saves)
  BY <1>1 DEF SectionsTenanted, SendsOne
<1>3. \A f, v : EndsWith(saves, stored, f, v) <=> stored[f] = v
  BY <1>1 DEF EndsWith
<1>4. CASE Mounted
  <2>1. ~HasProfile /\ form[Tenancy] = "MainTenant"
    BY <1>4 DEF Mounted, HasProfile, FormAtMount, Housing!FormAtMount, Housing!Fields, Housing!Housing, Tenancy
  <2>2. LodgingOK(saves, stored, form)
    BY <1>2, <1>3, <2>1 DEF LodgingOK, Tenanted, Housing!NoOrphans, Tenancy, Landlord, Holder, Unset,
                            Housing!Unset
  <2>3. QED BY <1>2, <2>1, <2>2 DEF HousingFits, LodgesFit, Tenanted
<1>5. CASE CameThisFar
  <2>1. form = Housing!Hydrate(stored)
    BY <1>5 DEF CameThisFar, FirstForm
  <2>2. QED BY <1>1, <1>2, <2>1, HydratedFits DEF HousingFits, Tenanted
<1>6. QED BY <1>4, <1>5 DEF Init

LEMMA FitsKept == ASSUME Shape, HousingFits, [Next]_vars PROVE HousingFits'
<1>1. UNCHANGED view
  BY SameView
<1>2. CASE view # "housing"
  BY <1>1, <1>2 DEF HousingFits
<1>3. CASE view = "housing"
  <2>1. CASE UNCHANGED vars
    BY <2>1 DEF vars, HousingFits, HasProfile
  <2>2. QED BY <1>3, <2>1, UserFits, ServedFits, AnsweredFits, CacheFits DEF Next, Server, Wallet
<1>4. QED BY <1>2, <1>3

LEMMA FitsStored == ASSUME Shape, HousingFits PROVE LatestChoiceStoredLast
<1> SUFFICES ASSUME view = "housing", HasProfile, saves = <<>>, ~behind,
                    NEW p \in Route \ unsaved, NEW sends \in ToSet(Requests(form, p)),
                    NEW f \in DOMAIN sends \ Housing!FilledIn(form, stored)
             PROVE  sends[f] = stored[f]
  BY DEF LatestChoiceStoredLast
<1>1. p \in HousingPages
  BY RouteSteps DEF Shape, StartsAt, AllPages, HousingPages
<1>2. sends = Housing!Payload(form, p)
  BY DEF Requests, ToSet
<1>3. f \in Kept
  BY <1>1, <1>2, HousingSends, KeptFields DEF Housing!FilledIn, HousingPages
<1>4. PageOf(f) = p /\ sends[f] = Given(form, f)
  BY <1>1, <1>2, <1>3, SentAsShown DEF SentBy
<1>5. ShownOK(saves, stored, form, f)
  BY <1>3, <1>4 DEF HousingFits, ShowsFit, IsMissing
<1>6. Reads(form, f, stored[f])
  BY <1>5 DEF ShownOK, EndsWith
<1>7. /\ f = "place" => form["noFixedAddress"] # "yes"
      /\ f = "accomodationType" => stored[f] # Unset \/ form[f] # "RentalApartment"
      /\ f = Tenancy => stored[f] # Unset \/ form[f] # "MainTenant"
  BY DEF Housing!FilledIn, Housing!FormAtMount, Housing!Fields, Housing!Housing, Tenancy, Unset,
         Housing!Unset
<1>8. QED BY <1>4, <1>6, <1>7 DEF Reads, FillsIn, Given

\* Whatever is chosen while saves are on their way, refused or lost: once they are answered, what
\* a page of the housing form sends is what the section has, a blank included, but for what it
\* fills in (FilledIn) and for pages that are unsaved (enqueueSave and savePageData).
THEOREM LatestChoiceStays == ASSUME SectionsTenanted PROVE Spec => []LatestChoiceStoredLast
<1>1. Init => Shape /\ HousingFits
  BY InitialShape, InitialFits
<1>2. Shape /\ HousingFits /\ [Next]_vars => (Shape /\ HousingFits)'
  BY ShapeKept, FitsKept
<1>3. Shape /\ HousingFits => LatestChoiceStoredLast
  BY FitsStored
<1>4. QED BY <1>1, <1>2, <1>3, PTL DEF Spec

-----------------------------------------------------------------------------
(* No detail without the answer it belongs to.                             *)

Citizenships == {Unset, "german", "eu_5", "permit"}
Whole(v, s) ==
    /\ v = "household" => Household!NoOrphans(s)
    /\ v = "income" => Income!NoOrphans(s)
    /\ v = "aboutMe" => AboutMe!CitizenshipFits(s) /\ s["citizenship"] \in Citizenships
\* A request that is applied to any section that is whole leaves it whole,
KeepsWhole(v, r) == \A s : DOMAIN s = SectionFields(v) /\ Whole(v, s) => Whole(v, Merge(s, r))
\* or leaves no last fixed address with somebody who has an address.
KeepsAddress(r) ==
    \A s : DOMAIN s = AboutMe!StoredFields /\ AboutMe!AddressFits(s) => AboutMe!AddressFits(Merge(s, r))
ListKeeps(v, list) == \A k \in DOMAIN list : KeepsWhole(v, list[k])

LEMMA MergedField ==
  ASSUME NEW s, NEW r, NEW f, f \in DOMAIN s
  PROVE  Merge(s, r)[f] = IF f \in DOMAIN r THEN r[f] ELSE s[f]
  BY DEF Merge

LEMMA HouseholdKeeps ==
  ASSUME NEW f, NEW p \in 1..5, Household!Ready(f, p), f["displacedStatus"] # "none"
  PROVE  KeepsWhole("household", Household!Payload(f, p))
<1> DEFINE r == Household!Payload(f, p)
<1>1. CASE p = 2
  <2>1. /\ DOMAIN r = {"displacedStatus", "displacedIssued"}
        /\ r["displacedStatus"] \in {Unset, "none"} => r["displacedIssued"] = Unset
    <3>1. r = Household!SaveDisplaced(f)
      BY <1>1 DEF Household!Payload
    <3>2. CASE f["displacedOption"] = "yes"
      <4>1. f["displacedStatus"] # Unset
        <5>1. Household!Filled(f, {"displacedStatus", "displacedIssued"})
          BY <1>1, <3>2 DEF Household!Ready
        <5>2. QED BY <5>1 DEF Household!Filled, Unset, Household!Unset
      <4>2. r = Household!Restrict(f, {"displacedStatus", "displacedIssued"})
        BY <3>1, <3>2 DEF Household!SaveDisplaced
      <4>3. /\ DOMAIN r = {"displacedStatus", "displacedIssued"}
            /\ r["displacedStatus"] = f["displacedStatus"]
        BY <4>2 DEF Household!Restrict
      <4>4. QED BY <4>1, <4>3
    <3>3. CASE f["displacedOption"] # "yes"
      BY <3>1, <3>3 DEF Household!SaveDisplaced, Unset, Household!Unset
    <3>4. QED BY <3>2, <3>3
  <2> HIDE DEF r
  <2>2. ASSUME NEW s, DOMAIN s = SectionFields("household"), Whole("household", s)
        PROVE  Whole("household", Merge(s, r))
    <3>1. /\ Merge(s, r)["displacedStatus"] = r["displacedStatus"]
          /\ Merge(s, r)["displacedIssued"] = r["displacedIssued"]
          /\ Merge(s, r)["maritalStatus"] = s["maritalStatus"]
          /\ Merge(s, r)["marriedSince"] = s["marriedSince"]
      BY <2>1, <2>2, MergedField DEF SectionFields, Household!StoredFields
    <3>2. QED BY <2>1, <2>2, <3>1 DEF Whole, Household!NoOrphans, Unset, Household!Unset
  <2>3. QED BY <2>2 DEF KeepsWhole, r
<1>2. CASE p = 5
  <2>1. /\ DOMAIN r = {"maritalStatus", "marriedSince"}
        /\ r["maritalStatus"] # "Married" => r["marriedSince"] = Unset
    <3>1. r = Household!SaveMarital(f)
      BY <1>2 DEF Household!Payload
    <3>2. QED BY <3>1 DEF Household!SaveMarital, Unset, Household!Unset
  <2> HIDE DEF r
  <2>2. ASSUME NEW s, DOMAIN s = SectionFields("household"), Whole("household", s)
        PROVE  Whole("household", Merge(s, r))
    <3>1. /\ Merge(s, r)["displacedStatus"] = s["displacedStatus"]
          /\ Merge(s, r)["displacedIssued"] = s["displacedIssued"]
          /\ Merge(s, r)["maritalStatus"] = r["maritalStatus"]
          /\ Merge(s, r)["marriedSince"] = r["marriedSince"]
      BY <2>1, <2>2, MergedField DEF SectionFields, Household!StoredFields
    <3>2. QED BY <2>1, <2>2, <3>1 DEF Whole, Household!NoOrphans, Unset, Household!Unset
  <2>3. QED BY <2>2 DEF KeepsWhole, r
<1>3. CASE p \in {1, 3, 4}
  <2>1. DOMAIN r \subseteq {"support", "socialSecurityType", "healthInsuranceStatus", "personsInHouseholdCount"}
    BY <1>3 DEF Household!Payload, Household!SaveSupport, Household!SaveInsurance,
                Household!SaveCount, Household!Restrict
  <2> HIDE DEF r
  <2>2. ASSUME NEW s, DOMAIN s = SectionFields("household"), Whole("household", s)
        PROVE  Whole("household", Merge(s, r))
    <3>1. /\ Merge(s, r)["displacedStatus"] = s["displacedStatus"]
          /\ Merge(s, r)["displacedIssued"] = s["displacedIssued"]
          /\ Merge(s, r)["maritalStatus"] = s["maritalStatus"]
          /\ Merge(s, r)["marriedSince"] = s["marriedSince"]
      BY <2>1, <2>2, MergedField DEF SectionFields, Household!StoredFields
    <3>2. QED BY <2>2, <3>1 DEF Whole, Household!NoOrphans
  <2>3. QED BY <2>2 DEF KeepsWhole, r
<1>4. QED BY <1>1, <1>2, <1>3

\* The pages of the first view: only the last one touches the citizenship.
LEMMA AboutMeKeeps ==
  ASSUME NEW f, NEW p \in 1..6, AboutMe!Ready(f, p), f["citizenship"] \in Citizenships
  PROVE  KeepsWhole("aboutMe", AboutMe!Payload(f, p)) /\ KeepsAddress(AboutMe!Payload(f, p))
<1> DEFINE r == AboutMe!Payload(f, p)
<1>1. CASE p = 6
  <2>1. /\ DOMAIN r = {"citizenship", "nationality"}
        /\ r["citizenship"] = f["citizenship"]
        /\ r["citizenship"] # Unset /\ r["nationality"] # Unset
        /\ r["citizenship"] = "german" => r["nationality"] = "DE"
    <3>1. r = AboutMe!SaveCitizenship(f)
      BY <1>1 DEF AboutMe!Payload
    <3>2. f["citizenship"] \in {"german", "eu_5", "permit"}
      BY <1>1 DEF AboutMe!Ready, Citizenships, Unset, AboutMe!Unset
    <3>3. CASE f["citizenship"] = "german"
      BY <3>1, <3>3 DEF AboutMe!SaveCitizenship, Unset, AboutMe!Unset
    <3>4. CASE f["citizenship"] # "german"
      <4>1. f["nationality"] # Unset
        BY <1>1, <3>2, <3>4 DEF AboutMe!Ready, Unset, AboutMe!Unset
      <4>2. QED BY <3>1, <3>2, <3>4, <4>1 DEF AboutMe!SaveCitizenship, Unset, AboutMe!Unset
    <3>5. QED BY <3>3, <3>4
  <2> HIDE DEF r
  <2>2. ASSUME NEW s, DOMAIN s = SectionFields("aboutMe"), Whole("aboutMe", s)
        PROVE  Whole("aboutMe", Merge(s, r))
    <3>1. /\ Merge(s, r)["citizenship"] = r["citizenship"]
          /\ Merge(s, r)["nationality"] = r["nationality"]
      BY <2>1, <2>2, MergedField DEF SectionFields, AboutMe!StoredFields
    <3>2. QED BY <2>1, <3>1 DEF Whole, AboutMe!CitizenshipFits, Unset, AboutMe!Unset
  <2>3. ASSUME NEW s, DOMAIN s = AboutMe!StoredFields, AboutMe!AddressFits(s)
        PROVE  AboutMe!AddressFits(Merge(s, r))
    <3>1. /\ Merge(s, r)["state"] = s["state"]
          /\ Merge(s, r)["street"] = s["street"]
      BY <2>1, <2>3, MergedField DEF AboutMe!StoredFields
    <3>2. QED BY <2>3, <3>1 DEF AboutMe!AddressFits
  <2>4. QED BY <2>2, <2>3 DEF KeepsWhole, KeepsAddress, r
<1>2. CASE p \in 1..5
  <2>1. /\ DOMAIN r \subseteq {"name", "birth", "legalGender", "street", "place", "state"}
        /\ \/ "state" \notin DOMAIN r /\ "street" \notin DOMAIN r
           \/ "street" \in DOMAIN r /\ r["street"] = AboutMe!NoAddress
           \/ "state" \in DOMAIN r /\ r["state"] = Unset
    <3>1. CASE p \in {1, 2, 3}
      BY <3>1 DEF AboutMe!Payload, AboutMe!SaveName, AboutMe!SaveBirth, AboutMe!SaveGender, AboutMe!Restrict
    <3>2. CASE p = 4
      BY <3>2 DEF AboutMe!Payload, AboutMe!SaveAddress, AboutMe!SaveAddressAlone, AboutMe!Merge,
                  Unset, AboutMe!Unset
    <3>3. CASE p = 5
      BY <3>3 DEF AboutMe!Payload, AboutMe!SaveLastAddress
    <3>4. QED BY <1>2, <3>1, <3>2, <3>3
  <2> HIDE DEF r
  <2>2. ASSUME NEW s, DOMAIN s = SectionFields("aboutMe"), Whole("aboutMe", s)
        PROVE  Whole("aboutMe", Merge(s, r))
    <3>1. /\ Merge(s, r)["citizenship"] = s["citizenship"]
          /\ Merge(s, r)["nationality"] = s["nationality"]
      BY <2>1, <2>2, MergedField DEF SectionFields, AboutMe!StoredFields
    <3>2. QED BY <2>2, <3>1 DEF Whole, AboutMe!CitizenshipFits
  <2>3. ASSUME NEW s, DOMAIN s = AboutMe!StoredFields, AboutMe!AddressFits(s)
        PROVE  AboutMe!AddressFits(Merge(s, r))
    <3>1. /\ Merge(s, r)["state"] = IF "state" \in DOMAIN r THEN r["state"] ELSE s["state"]
          /\ Merge(s, r)["street"] = IF "street" \in DOMAIN r THEN r["street"] ELSE s["street"]
      BY <2>3, MergedField DEF AboutMe!StoredFields
    <3>2. QED BY <2>1, <2>3, <3>1 DEF AboutMe!AddressFits, Unset, AboutMe!Unset
  <2>4. QED BY <2>2, <2>3 DEF KeepsWhole, KeepsAddress, r
<1>3. QED BY <1>1, <1>2

\* The verification of a card does not touch the citizenship either.
LEMMA CardKeeps ==
  ASSUME NEW f, NEW known
  PROVE  KeepsWhole("aboutMe", AboutMe!Verified(f, known))
<1> DEFINE r == AboutMe!Verified(f, known)
<1>1. DOMAIN r \subseteq {"name", "birth", "legalGender", "street", "place"}
  BY DEF AboutMe!Verified, AboutMe!Restrict
<1> HIDE DEF r
<1>2. ASSUME NEW s, DOMAIN s = SectionFields("aboutMe"), Whole("aboutMe", s)
      PROVE  Whole("aboutMe", Merge(s, r))
  <2>1. /\ Merge(s, r)["citizenship"] = s["citizenship"]
        /\ Merge(s, r)["nationality"] = s["nationality"]
    BY <1>1, <1>2, MergedField DEF SectionFields, AboutMe!StoredFields
  <2>2. QED BY <1>2, <2>1 DEF Whole, AboutMe!CitizenshipFits
<1>3. QED BY <1>2 DEF KeepsWhole, r

\* A question and its details are sent together, the details only with a yes, and of the
\* lines of work one at most earns.
Together(r, q, details) ==
    \/ \A f \in {q} \cup details : f \notin DOMAIN r
    \/ /\ \A f \in {q} \cup details : f \in DOMAIN r
       /\ r[q] # "yes" => \A f \in details : r[f] = Unset
OneEarns(r) ==
    \/ \A l \in Income!WorkLines : l \notin DOMAIN r
    \/ /\ \A l \in Income!WorkLines : l \in DOMAIN r
       /\ \E l \in Income!WorkLines : r[l] \in {Unset, "0"}
Consistent(r) ==
    /\ Together(r, "awaiting", {"awaitingDetails"})
    /\ Together(r, "previous", {"previousDetails"})
    /\ Together(r, "oneTime", {"oneTimeDetails", "oneTimeAmount"})
    /\ Together(r, "isCurrentlyEmployed", {"employer"})
    /\ OneEarns(r)

LEMMA TogetherKeeps ==
  ASSUME NEW s, NEW r, NEW q, NEW details, Together(r, q, details),
         \A f \in {q} \cup details : f \in DOMAIN s,
         s[q] # "yes" => \A f \in details : s[f] = Unset
  PROVE  Merge(s, r)[q] # "yes" => \A f \in details : Merge(s, r)[f] = Unset
<1>1. \A f \in {q} \cup details : Merge(s, r)[f] = IF f \in DOMAIN r THEN r[f] ELSE s[f]
  BY MergedField
<1>2. QED BY <1>1 DEF Together

LEMMA ConsistentKeeps ==
  ASSUME NEW r, Consistent(r)
  PROVE  KeepsWhole("income", r)
<1> SUFFICES ASSUME NEW s, DOMAIN s = Income!StoredFields, Income!NoOrphans(s)
             PROVE  Income!NoOrphans(Merge(s, r))
  BY DEF KeepsWhole, Whole, SectionFields
<1> DEFINE m == Merge(s, r)
<1>1. {"awaiting", "previous", "oneTime", "isCurrentlyEmployed", "awaitingDetails", "previousDetails",
       "oneTimeDetails", "oneTimeAmount", "employer"} \cup Income!WorkLines \subseteq DOMAIN s
  BY DEF Income!StoredFields, Income!Shared, Income!Details, Income!Lines
<1>2. m["awaiting"] # "yes" => \A f \in {"awaitingDetails"} : m[f] = Unset
  <2>1. s["awaiting"] # "yes" => \A f \in {"awaitingDetails"} : s[f] = Unset
    BY DEF Income!NoOrphans, Unset, Income!Unset
  <2>2. QED BY <1>1, <2>1, TogetherKeeps DEF Consistent
<1>3. m["previous"] # "yes" => \A f \in {"previousDetails"} : m[f] = Unset
  <2>1. s["previous"] # "yes" => \A f \in {"previousDetails"} : s[f] = Unset
    BY DEF Income!NoOrphans, Unset, Income!Unset
  <2>2. QED BY <1>1, <2>1, TogetherKeeps DEF Consistent
<1>4. m["oneTime"] # "yes" => \A f \in {"oneTimeDetails", "oneTimeAmount"} : m[f] = Unset
  <2>1. s["oneTime"] # "yes" => \A f \in {"oneTimeDetails", "oneTimeAmount"} : s[f] = Unset
    BY DEF Income!NoOrphans, Unset, Income!Unset
  <2>2. QED BY <1>1, <2>1, TogetherKeeps DEF Consistent
<1>5. m["isCurrentlyEmployed"] # "yes" => \A f \in {"employer"} : m[f] = Unset
  <2>1. s["isCurrentlyEmployed"] # "yes" => \A f \in {"employer"} : s[f] = Unset
    BY DEF Income!NoOrphans, Unset, Income!Unset
  <2>2. QED BY <1>1, <2>1, TogetherKeeps DEF Consistent
<1>6. \E l \in Income!WorkLines : m[l] \in {Unset, "0"}
  <2>1. \A l \in Income!WorkLines : m[l] = IF l \in DOMAIN r THEN r[l] ELSE s[l]
    BY <1>1, MergedField
  <2>2. \E l \in Income!WorkLines : s[l] \in {Unset, "0"}
    BY DEF Income!NoOrphans, Unset, Income!Unset
  <2>3. OneEarns(r)
    BY DEF Consistent
  <2> HIDE DEF m
  <2>4. QED BY <2>1, <2>2, <2>3 DEF OneEarns
<1> HIDE DEF m
<1>7. Income!NoOrphans(m)
  BY <1>2, <1>3, <1>4, <1>5, <1>6 DEF Income!NoOrphans, Unset, Income!Unset
<1>8. QED BY <1>7 DEF m

LEMMA QuestionSent ==
  ASSUME NEW f, NEW q, NEW details, q \notin details
  PROVE  /\ DOMAIN Income!SaveQuestion(f, q, details) = {q} \cup details
         /\ Together(Income!SaveQuestion(f, q, details), q, details)
<1> DEFINE r == Income!SaveQuestion(f, q, details)
<1>1. DOMAIN r = {q} \cup details
  BY DEF Income!SaveQuestion
<1>2. \A d \in details : r[d] = IF f.texts[q] = "yes" THEN f.texts[d] ELSE Unset
  BY DEF Income!SaveQuestion, Unset, Income!Unset
<1>3. r[q] = f.texts[q]
  BY DEF Income!SaveQuestion
<1> HIDE DEF r
<1>4. Together(r, q, details)
  BY <1>1, <1>2, <1>3 DEF Together
<1>5. QED BY <1>1, <1>4 DEF r

\* What a page of the income sends has no detail without its answer.
LEMMA IncomeKeeps ==
  ASSUME NEW f, NEW p \in 1..7, NEW k \in DOMAIN Income!Payloads(f, p)
  PROVE  KeepsWhole("income", Income!Payloads(f, p)[k])
<1> DEFINE all == {"awaiting", "awaitingDetails", "previous", "previousDetails", "oneTime", "oneTimeDetails",
                   "oneTimeAmount", "isCurrentlyEmployed", "employer"} \cup Income!WorkLines
<1>1. ASSUME NEW r, \A g \in all : g \notin DOMAIN r PROVE Consistent(r)
  BY <1>1 DEF Consistent, Together, OneEarns
<1>2. CASE p = 1
  <2>1. Consistent(Income!SaveAwaiting(f))
    <3> DEFINE r == Income!SaveAwaiting(f)
    <3>1. DOMAIN r = {"awaiting"} \cup {"awaitingDetails"} /\ Together(r, "awaiting", {"awaitingDetails"})
      BY QuestionSent DEF Income!SaveAwaiting
    <3> HIDE DEF r
    <3>2. Consistent(r)
      BY <3>1 DEF Consistent, Together, OneEarns, Income!WorkLines
    <3>3. QED BY <3>2 DEF r
  <2>2. Income!Payloads(f, p) = <<Income!SaveAwaiting(f)>>
    BY <1>2 DEF Income!Payloads
  <2>3. QED BY <2>1, <2>2, ConsistentKeeps
<1>3. CASE p = 2
  <2>1. Consistent(Income!SavePrevious(f))
    <3> DEFINE r == Income!SavePrevious(f)
    <3>1. DOMAIN r = {"previous"} \cup {"previousDetails"} /\ Together(r, "previous", {"previousDetails"})
      BY QuestionSent DEF Income!SavePrevious
    <3> HIDE DEF r
    <3>2. Consistent(r)
      BY <3>1 DEF Consistent, Together, OneEarns, Income!WorkLines
    <3>3. QED BY <3>2 DEF r
  <2>2. Income!Payloads(f, p) = <<Income!SavePrevious(f)>>
    BY <1>3 DEF Income!Payloads
  <2>3. QED BY <2>1, <2>2, ConsistentKeeps
<1>4. CASE p = 6
  <2>1. Consistent(Income!SaveOneTime(f))
    <3> DEFINE r == Income!SaveOneTime(f)
    <3>1. DOMAIN r = {"oneTime"} \cup {"oneTimeDetails", "oneTimeAmount"} /\ Together(r, "oneTime", {"oneTimeDetails", "oneTimeAmount"})
      BY QuestionSent DEF Income!SaveOneTime
    <3> HIDE DEF r
    <3>2. Consistent(r)
      BY <3>1 DEF Consistent, Together, OneEarns, Income!WorkLines
    <3>3. QED BY <3>2 DEF r
  <2>2. Income!Payloads(f, p) = <<Income!SaveOneTime(f)>>
    BY <1>4 DEF Income!Payloads
  <2>3. QED BY <2>1, <2>2, ConsistentKeeps
<1>5. CASE p \in {3, 5, 7}
  <2>1. PICK r : /\ Income!Payloads(f, p) = <<r>>
                 /\ r \in {Income!SavePension(f), Income!SaveOther(f), Income!SaveBank(f)}
    BY <1>5 DEF Income!Payloads
  <2>2. DOMAIN r \subseteq Income!PensionLines \cup Income!OtherLines \cup {"bank", "iban", "monthlyIncome"}
    <3>1. DOMAIN Income!SavePension(f) \subseteq Income!PensionLines
      BY RowsSent DEF Income!SavePension
    <3>2. DOMAIN Income!SaveOther(f) \subseteq Income!OtherLines
      BY RowsSent DEF Income!SaveOther
    <3>3. DOMAIN Income!SaveBank(f) \subseteq {"bank", "iban", "monthlyIncome"}
      BY DEF Income!SaveBank, Income!Restrict, Income!Merge
    <3>4. QED BY <2>1, <3>1, <3>2, <3>3
  <2>3. \A g \in all : g \notin DOMAIN r
    BY <2>2 DEF Income!PensionLines, Income!OtherLines, Income!WorkLines
  <2>4. QED BY <1>1, <2>1, <2>3, ConsistentKeeps
<1>6. CASE p = 4
  <2>1. Income!Payloads(f, p) = <<Income!SaveWork(f), Income!SaveWorkRows(f)>>
    BY <1>6 DEF Income!Payloads
  <2>2. Consistent(Income!SaveWork(f))
    <3> DEFINE r == Income!SaveWork(f)
    <3>1. /\ DOMAIN r = {"isCurrentlyEmployed", "employer"}
          /\ r["isCurrentlyEmployed"] # "yes" => r["employer"] = Unset
      BY DEF Income!SaveWork, Unset, Income!Unset
    <3> HIDE DEF r
    <3>2. Consistent(r)
      BY <3>1 DEF Consistent, Together, OneEarns, Income!WorkLines
    <3>3. QED BY <3>2 DEF r
  <2>3. Consistent(Income!SaveWorkRows(f))
    <3> DEFINE r == Income!SaveWorkRows(f)
    <3>1. \/ r = <<>>
          \/ DOMAIN r = Income!WorkLines /\ \E l \in Income!WorkLines : r[l] = "0"
      <4>1. PICK type, amount : r = Income!EmploymentRows(type, amount)
        BY DEF Income!SaveWorkRows
      <4>2. CASE r = <<>>
        BY <4>2
      <4>3. CASE r # <<>>
        <5>1. PICK line, amounts : r = Income!IncomeRows(Income!WorkLines, {line}, amounts)
          BY <4>1, <4>3 DEF Income!EmploymentRows, Income!WorkLines
        <5>2. r = [l \in Income!WorkLines |-> IF l \in {line} THEN Income!ToRow(amounts[l]) ELSE "0"]
          BY <5>1 DEF Income!IncomeRows
        <5>3. QED BY <5>2 DEF Income!WorkLines
      <4>4. QED BY <4>2, <4>3
    <3> HIDE DEF r
    <3>2. CASE r = <<>>
      <4>1. DOMAIN r = {}
        BY <3>2
      <4>2. QED BY <1>1, <4>1 DEF r
    <3>3. CASE DOMAIN r = Income!WorkLines /\ \E l \in Income!WorkLines : r[l] = "0"
      <4>1. Consistent(r)
        BY <3>3 DEF Consistent, Together, OneEarns, Income!WorkLines
      <4>2. QED BY <4>1 DEF r
    <3>4. QED BY <3>1, <3>2, <3>3
  <2>4. QED BY <2>1, <2>2, <2>3, ConsistentKeeps
<1>7. p \in {1, 2, 3, 4, 5, 6, 7}
  OBVIOUS
<1>8. QED BY <1>2, <1>3, <1>4, <1>5, <1>6, <1>7

\* The answers of the form that no edit and no profile may turn into something else.
FitForm(v, f) ==
    /\ v = "household" => f["displacedStatus"] # "none"
    /\ v = "aboutMe" => f["citizenship"] \in Citizenships

LEMMA NothingToKeep == ASSUME NEW v, v \in {"housing", "health"}, NEW r PROVE KeepsWhole(v, r)
  BY DEF KeepsWhole, Whole

LEMMA RequestsKeep ==
  ASSUME view \in Views, NEW f, FitForm(view, f), NEW p \in AllPages, IsReady(f, p)
  PROVE  /\ ListKeeps(view, Requests(f, p))
         /\ view = "aboutMe" => \A k \in DOMAIN Requests(f, p) : KeepsAddress(Requests(f, p)[k])
<1>1. CASE view = "income"
  <2>1. p \in 1..7 /\ Requests(f, p) = Income!Payloads(f, p)
    BY <1>1 DEF AllPages, Requests
  <2>2. QED BY <1>1, <2>1, IncomeKeeps DEF ListKeeps
<1>2. CASE view # "income"
  <2>1. PICK r : /\ Requests(f, p) = <<r>>
                 /\ view = "aboutMe" => r = AboutMe!Payload(f, p)
                 /\ view = "household" => r = Household!Payload(f, p)
    BY <1>2, ViewsAssumption DEF Requests
  <2>2. CASE view = "aboutMe"
    <3>1. p \in 1..6 /\ AboutMe!Ready(f, p) /\ f["citizenship"] \in Citizenships
      BY <2>2 DEF AllPages, IsReady, FitForm
    <3>2. KeepsWhole(view, r) /\ KeepsAddress(r)
      BY <2>1, <2>2, <3>1, AboutMeKeeps
    <3>3. QED BY <2>1, <3>2 DEF ListKeeps
  <2>3. CASE view = "household"
    <3>1. p \in 1..5 /\ Household!Ready(f, p) /\ f["displacedStatus"] # "none"
      BY <2>3 DEF AllPages, IsReady, FitForm
    <3>2. KeepsWhole(view, r)
      BY <2>1, <2>3, <3>1, HouseholdKeeps
    <3>3. QED BY <2>1, <2>3, <3>2 DEF ListKeeps
  <2>4. CASE view \in {"housing", "health"}
    BY <2>1, <2>4, NothingToKeep DEF ListKeeps
  <2>5. QED BY <1>2, <2>2, <2>3, <2>4, ViewsAssumption
<1>3. QED BY <1>1, <1>2

LEMMA EditedFits ==
  ASSUME view \in Views, NEW f, DOMAIN f = DOMAIN FormAtMount(view, extracted), FitForm(view, f),
         NEW p \in AllPages, NEW e \in EditsOf(f, p)
  PROVE  FitForm(view, e)
<1>1. CASE view = "aboutMe"
  <2>1. /\ p \in 1..6 /\ e \in AboutMe!Edits(f, p) /\ f["citizenship"] \in Citizenships
        /\ "citizenship" \in DOMAIN f /\ "nationality" \in DOMAIN f
    BY <1>1 DEF AllPages, EditsOf, FitForm, FormAtMount, AboutMe!EmptyForm, AboutMe!Fields
  <2>2. CASE p = 6
    <3>1. \/ \E c \in {"german", "eu_5", "permit"} : \E n :
               e = [f EXCEPT !["citizenship"] = c, !["nationality"] = n]
          \/ e \in AboutMe!Choose(f, "nationality", {AboutMe!Unset, "FR"})
      BY <2>1, <2>2 DEF AboutMe!Edits, AboutMe!Page6Citizenship
    <3>2. e["citizenship"] \in Citizenships
      BY <2>1, <3>1 DEF AboutMe!Choose, Citizenships
    <3>3. QED BY <1>1, <3>2 DEF FitForm
  <2>3. CASE p \in 1..5
    <3>1. e["citizenship"] = f["citizenship"]
      BY <2>1, <2>3 DEF AboutMe!Edits, AboutMe!Page1Name, AboutMe!Page2Birth, AboutMe!Page4Address,
              AboutMe!ToggleNoFixed, AboutMe!Page5LastAddress, AboutMe!Choose, AboutMe!Type
    <3>2. QED BY <1>1, <2>1, <3>1 DEF FitForm
  <2>4. QED BY <2>1, <2>2, <2>3
<1>2. CASE view = "household"
  <2>1. /\ p \in 1..5 /\ e \in Household!Edits(f, p) /\ f["displacedStatus"] # "none"
        /\ "displacedStatus" \in DOMAIN f
    BY <1>2 DEF AllPages, EditsOf, FitForm, FormAtMount, Household!EmptyForm, Household!Fields,
                Household!StoredFields
  <2>2. CASE p = 2
    <3>1. e["displacedStatus"] \in {f["displacedStatus"], Household!Unset, "LateResettler"}
      BY <2>1, <2>2 DEF Household!Edits, Household!DisplacedPage, Household!Choose, Household!Type
    <3>2. QED BY <1>2, <2>1, <3>1 DEF FitForm, Household!Unset
  <2>3. CASE p = 3
    <3>1. e["displacedStatus"] = f["displacedStatus"]
      BY <2>1, <2>3 DEF Household!Edits, Household!InsurancePage, Household!ToggleInsurance,
              Household!ToggleNone, Household!Choose
    <3>2. QED BY <1>2, <2>1, <3>1 DEF FitForm
  <2>4. CASE p \in {1, 4, 5}
    <3>1. e["displacedStatus"] = f["displacedStatus"]
      BY <2>1, <2>4 DEF Household!Edits, Household!SupportPage, Household!CountPage,
              Household!MaritalPage, Household!Choose, Household!Type
    <3>2. QED BY <1>2, <2>1, <3>1 DEF FitForm
  <2>5. QED BY <2>1, <2>2, <2>3, <2>4
<1>3. QED BY <1>1, <1>2 DEF FitForm

\* A profile that is whole leaves such a form.
LEMMA FilledFits ==
  ASSUME view \in Views, NEW profile, Whole(view, profile)
  PROVE  /\ FitForm(view, FirstForm(profile))
         /\ FitForm(view, form) => FitForm(view, LaterForm(profile))
<1>1. CASE view = "aboutMe"
  <2>1. AboutMe!Synced(profile, extracted, "citizenship") \in Citizenships
    <3>1. profile["citizenship"] \in Citizenships
      BY <1>1 DEF Whole
    <3>2. AboutMe!Synced(profile, extracted, "citizenship")
            = AboutMe!StatusOption(profile["citizenship"], AboutMe!IsGerman(profile, extracted))
      BY DEF AboutMe!Synced
    <3>3. QED BY <3>1, <3>2 DEF AboutMe!StatusOption, Citizenships
  <2>2. /\ FirstForm(profile)["citizenship"] = AboutMe!Synced(profile, extracted, "citizenship")
    BY <1>1 DEF FirstForm, AboutMe!Hydrate, AboutMe!Keeps, AboutMe!Fields
  <2>3. LaterForm(profile)["citizenship"] \in
          {form["citizenship"], AboutMe!Synced(profile, extracted, "citizenship")}
    BY <1>1 DEF LaterForm, AboutMe!Sync, AboutMe!Fields
  <2>4. QED BY <1>1, <2>1, <2>2, <2>3 DEF FitForm
<1>2. CASE view = "household"
  <2>1. Household!ServerSays(profile)["displacedStatus"] = profile["displacedStatus"]
    BY DEF Household!ServerSays, Household!Fields, Household!StoredFields
  <2>2. FirstForm(profile)["displacedStatus"] # "none"
    <3>1. FirstForm(profile)["displacedStatus"]
            = IF Household!Keeps("displacedStatus", profile) THEN Household!Unset
              ELSE Household!Shown("displacedStatus", profile["displacedStatus"])
      BY <1>2, <2>1 DEF FirstForm, Household!Hydrate, Household!Fields, Household!StoredFields
    <3>2. QED BY <3>1 DEF Household!Keeps, Household!Shown, Household!Unset
  <2>3. form["displacedStatus"] # "none" => LaterForm(profile)["displacedStatus"] # "none"
    <3>1. \/ LaterForm(profile)["displacedStatus"] = form["displacedStatus"]
          \/ /\ ~Household!Keeps("displacedStatus", profile)
             /\ LaterForm(profile)["displacedStatus"]
                  = Household!Shown("displacedStatus", profile["displacedStatus"])
      BY <1>2, <2>1 DEF LaterForm, Household!Sync, Household!Fields, Household!StoredFields
    <3>2. QED BY <3>1 DEF Household!Keeps, Household!Shown, Household!Unset
  <2>4. QED BY <1>2, <2>2, <2>3 DEF FitForm
<1>3. QED BY <1>1, <1>2 DEF FitForm

\* A save on its way keeps the section whole, and the address of the first view.
Careful(v, s) ==
    /\ ListKeeps(v, s.requests)
    /\ v = "aboutMe" /\ s.to # Stay => \A k \in DOMAIN s.requests : KeepsAddress(s.requests[k])
AllCareful(v, list) == \A i \in DOMAIN list : Careful(v, list[i])
SectionFits ==
    /\ Whole(view, stored)
    /\ view = "aboutMe" /\ card # "verified" => AboutMe!AddressFits(stored)
CopiesFit ==
    /\ HasProfile => Whole(view, loaded)
    /\ fetch \notin {NoFetch, Asked} => Whole(view, fetch)
DetailsFit == FitForm(view, form) /\ AllCareful(view, saves) /\ SectionFits /\ CopiesFit

\* The sections a view is opened with, and what somebody else writes, are whole themselves.
SectionsWhole ==
    \A v \in Views :
        /\ \A s \in Stored[v] : Whole(v, s) /\ (v = "aboutMe" => AboutMe!AddressFits(s))
        /\ \A w \in Elsewhere[v] : KeepsWhole(v, w) /\ (v = "aboutMe" => KeepsAddress(w))

LEMMA CarefulAppended ==
  ASSUME NEW v, NEW S, NEW list \in Seq(S), NEW s \in S, AllCareful(v, list), Careful(v, s)
  PROVE  AllCareful(v, Append(list, s))
  BY AppendElements DEF AllCareful

LEMMA CarefulLeft ==
  ASSUME NEW v, NEW S, NEW list \in Seq(S), NEW i \in DOMAIN list, AllCareful(v, list)
  PROVE  AllCareful(v, RemoveAt(list, i))
<1>1. \A j \in DOMAIN RemoveAt(list, i) : \E k \in DOMAIN list : RemoveAt(list, i)[j] = list[k]
  BY RemoveAtElements
<1>2. QED BY <1>1 DEF AllCareful

LEMMA CarefulWritten ==
  ASSUME NEW v, NEW S, NEW list \in Seq(S), NEW i \in DOMAIN list, NEW s,
         AllCareful(v, list), Careful(v, s)
  PROVE  AllCareful(v, [list EXCEPT ![i] = s])
<1> DEFINE new == [list EXCEPT ![i] = s]
<1>1. DOMAIN new = DOMAIN list /\ new[i] = s /\ \A k \in DOMAIN list \ {i} : new[k] = list[k]
  OBVIOUS
<1> HIDE DEF new
<1>2. AllCareful(v, new)
  BY <1>1 DEF AllCareful
<1>3. QED BY <1>2 DEF new

LEMMA CarefulStarted ==
  ASSUME Shape, AllCareful(view, saves), NEW p, NEW requests, NEW to, ListKeeps(view, requests),
         view = "aboutMe" => \A k \in DOMAIN requests : KeepsAddress(requests[k]),
         Start(Save(p, requests, to))
  PROVE  AllCareful(view, saves')
<1> DEFINE s == Save(p, requests, to)
           S == {saves[k] : k \in DOMAIN saves} \cup {s}
<1>1. Careful(view, s)
  BY DEF Careful, Save
<1>2. saves' = Append(saves, s)
  BY DEF Start
<1>3. saves \in Seq(S) /\ s \in S
  BY DEF Shape, ListsOK, SavesOK
<1> HIDE DEF s, S
<1>4. QED BY <1>1, <1>2, <1>3, CarefulAppended

LEMMA UserCareful ==
  ASSUME Shape, DetailsFit, User
  PROVE  DetailsFit'
<1>1. /\ view \in Views /\ UNCHANGED <<view, extracted, server, loaded, fetch>>
      /\ DOMAIN form = DOMAIN FormAtMount(view, extracted)
      /\ FitForm(view, form) /\ AllCareful(view, saves) /\ page \in AllPages
  BY DEF Shape, ScreenOK, DetailsFit, User, Edit, ChooseAndSave, SaveField, PressNext, Back, SavePage, Open
<1>2. SectionFits' /\ CopiesFit'
  BY <1>1 DEF DetailsFit, SectionFits, CopiesFit, server, HasProfile
<1>3. FitForm(view, form') /\ AllCareful(view, saves')
  <2>1. CASE Edit
    <3>1. form' \in EditsOf(form, page) /\ saves' = saves
      BY <2>1 DEF Edit
    <3>2. FitForm(view, form')
      BY <1>1, <3>1, EditedFits
    <3>3. QED BY <1>1, <3>1, <3>2
  <2>2. CASE ChooseAndSave
    <3>1. CASE view = "housing"
      <4>1. PICK c : form' = c.form /\ Start(Save(page, <<c.data>>, Stay))
        BY <2>2, <3>1 DEF ChooseAndSave
      <4>2. ListKeeps(view, <<c.data>>)
        BY <3>1, NothingToKeep DEF ListKeeps
      <4>3. AllCareful(view, saves')
        BY <1>1, <3>1, <4>1, <4>2, CarefulStarted
      <4>4. QED BY <3>1, <4>3 DEF FitForm
    <3>2. CASE view = "aboutMe" /\ page = 3
      <4>1. PICK f \in AboutMe!Page3Gender(form) :
              form' = f /\ Start(Save(page, Requests(f, page), NextOf(f, page)))
        BY <2>2, <3>2 DEF ChooseAndSave
      <4>2. FitForm(view, f)
        <5>1. "citizenship" \in DOMAIN form
          BY <1>1, <3>2 DEF FormAtMount, AboutMe!EmptyForm, AboutMe!Fields
        <5>2. f["citizenship"] = form["citizenship"]
          BY <4>1, <5>1 DEF AboutMe!Page3Gender, AboutMe!Choose
        <5>3. QED BY <1>1, <3>2, <5>2 DEF FitForm
      <4>3. IsReady(f, page)
        BY <3>2 DEF IsReady, AboutMe!Ready
      <4>4. AllCareful(view, saves')
        BY <1>1, <4>1, <4>2, <4>3, RequestsKeep, CarefulStarted
      <4>5. QED BY <4>1, <4>2, <4>4
    <3>3. QED BY <2>2, <3>1, <3>2 DEF ChooseAndSave
  <2>3. CASE SaveField
    <3>1. PICK data : Start(Save(page, <<data>>, Stay))
      BY <2>3 DEF SaveField
    <3>2. ListKeeps(view, <<data>>) /\ view = "housing" /\ form' = form
      BY <2>3, NothingToKeep DEF ListKeeps, SaveField, screen
    <3>3. QED BY <1>1, <3>1, <3>2, CarefulStarted
  <2>4. ASSUME NEW to, SavePage(to) PROVE FitForm(view, form') /\ AllCareful(view, saves')
    <3>1. IsReady(form, page) /\ Start(Save(page, Requests(form, page), to)) /\ form' = form
      BY <2>4 DEF SavePage
    <3>2. QED BY <1>1, <3>1, RequestsKeep, CarefulStarted
  <2>5. QED BY <1>1, <2>1, <2>2, <2>3, <2>4 DEF User, PressNext, Back
<1>4. QED BY <1>1, <1>2, <1>3 DEF DetailsFit

\* The middleware applies a save or refuses it.
LEMMA ServedCareful ==
  ASSUME Shape, DetailsFit, NEW i \in DOMAIN saves, Apply(i) \/ Refuse(i)
  PROVE  DetailsFit'
<1>1. /\ UNCHANGED <<view, loaded, fetch, form>> /\ SavesOK
      /\ IsSave(saves[i]) /\ Careful(view, saves[i]) /\ ListOK(view, saves[i].requests)
  BY DEF Shape, ListsOK, SavesOK, ShapesOK, SaveShape, DetailsFit, AllCareful, Apply, Refuse, screen
<1>2. FitForm(view, form)' /\ CopiesFit'
  BY <1>1 DEF DetailsFit, CopiesFit, HasProfile
<1>3. saves \in Seq({saves[k] : k \in DOMAIN saves}) /\ AllCareful(view, saves)
  BY <1>1 DEF SavesOK, DetailsFit
<1>4. CASE Apply(i)
  <2> DEFINE s == [saves[i] EXCEPT !.at = "applied", !.jumps = WizardPages(stored', saves[i].page)]
             r == Head(saves[i].requests)
  <2>1. s.to = saves[i].to /\ s.requests = saves[i].requests
    BY <1>1 DEF IsSave
  <2>2. saves' = [saves EXCEPT ![i] = s]
    BY <1>4 DEF Apply
  <2>3. 1 \in DOMAIN saves[i].requests /\ r = saves[i].requests[1]
    BY <1>1 DEF ListOK
  <2>4. stored' = Merge(stored, r) /\ DOMAIN stored = SectionFields(view)
    BY <1>4 DEF Apply, Shape, DataOK
  <2>5. view = "aboutMe" /\ card' # "verified" => card # "verified" /\ saves[i].to # Stay
    BY <1>4 DEF Apply
  <2> HIDE DEF s, r
  <2>6. AllCareful(view, saves')
    <3>1. Careful(view, s)
      BY <1>1, <2>1 DEF Careful
    <3>2. QED BY <1>3, <2>2, <3>1, CarefulWritten
  <2>7. Whole(view, stored')
    <3>1. KeepsWhole(view, r)
      BY <1>1, <2>3 DEF Careful, ListKeeps
    <3>2. Whole(view, stored)
      BY DEF DetailsFit, SectionFits
    <3>3. QED BY <2>4, <3>1, <3>2 DEF KeepsWhole
  <2>8. view = "aboutMe" /\ card' # "verified" => AboutMe!AddressFits(stored')
    <3> SUFFICES ASSUME view = "aboutMe", card' # "verified" PROVE AboutMe!AddressFits(stored')
      OBVIOUS
    <3>1. KeepsAddress(r)
      BY <1>1, <2>3, <2>5 DEF Careful
    <3>2. AboutMe!AddressFits(stored) /\ DOMAIN stored = AboutMe!StoredFields
      BY <2>4, <2>5 DEF DetailsFit, SectionFits, SectionFields
    <3>3. QED BY <2>4, <3>1, <3>2 DEF KeepsAddress
  <2>9. SectionFits'
    BY <1>1, <2>7, <2>8 DEF SectionFits
  <2>10. QED BY <1>1, <1>2, <2>6, <2>9 DEF DetailsFit
<1>5. CASE Refuse(i)
  <2> DEFINE s == [saves[i] EXCEPT !.at = "refused"]
  <2>1. s.to = saves[i].to /\ s.requests = saves[i].requests
    BY <1>1 DEF IsSave
  <2>2. saves' = [saves EXCEPT ![i] = s]
    BY <1>5 DEF Refuse
  <2> HIDE DEF s
  <2>3. Careful(view, s)
    BY <1>1, <2>1 DEF Careful
  <2>4. AllCareful(view, saves')
    BY <1>3, <2>2, <2>3, CarefulWritten
  <2>5. SectionFits'
    BY <1>1, <1>5 DEF Refuse, server, DetailsFit, SectionFits
  <2>6. QED BY <1>1, <1>2, <2>4, <2>5 DEF DetailsFit
<1>6. QED BY <1>4, <1>5

\* An answer arrives.
LEMMA AnsweredCareful ==
  ASSUME Shape, DetailsFit, NEW i \in DOMAIN saves, Answer(i)
  PROVE  DetailsFit'
<1>1. /\ UNCHANGED <<view, stored, card, loaded, form>> /\ fetch' \in {fetch, Asked} /\ SavesOK
      /\ IsSave(saves[i]) /\ Careful(view, saves[i]) /\ ListOK(view, saves[i].requests)
  BY DEF Shape, ListsOK, SavesOK, ShapesOK, SaveShape, DetailsFit, AllCareful, Answer, Succeed, Fail,
         CardAnswered, server, Invalidate
<1>2. FitForm(view, form)' /\ SectionFits' /\ CopiesFit'
  BY <1>1 DEF DetailsFit, SectionFits, CopiesFit, HasProfile
<1>3. saves \in Seq({saves[k] : k \in DOMAIN saves}) /\ AllCareful(view, saves)
  BY <1>1 DEF SavesOK, DetailsFit
<1>4. saves' = RemoveAt(saves, i) => AllCareful(view, saves')
  BY <1>3, CarefulLeft
<1>5. CASE Succeed(i)
  <2> DEFINE rest == Tail(saves[i].requests)
             onward == [saves[i] EXCEPT !.requests = rest, !.at = "sent"]
             verifies == Save(6, <<AboutMe!Verified(form, KnownProfile)>>, Stay)
  <2>1. CASE saves' = [saves EXCEPT ![i] = onward]
    <3>1. onward.requests = rest /\ onward.to = saves[i].to
      BY <1>1 DEF IsSave
    <3>2. \A k \in DOMAIN rest : \E j \in DOMAIN saves[i].requests : rest[k] = saves[i].requests[j]
      <4>1. \A k \in DOMAIN rest : k + 1 \in DOMAIN saves[i].requests /\ rest[k] = saves[i].requests[k + 1]
        BY <1>1 DEF ListOK
      <4>2. QED BY <4>1
    <3> HIDE DEF onward, rest
    <3>3. Careful(view, onward)
      BY <1>1, <3>1, <3>2 DEF Careful, ListKeeps
    <3>4. QED BY <1>1, <1>2, <1>3, <2>1, <3>3, CarefulWritten DEF DetailsFit
  <2>2. CASE VerifiesCard(saves[i]) /\ saves' = [saves EXCEPT ![i] = verifies]
    <3>1. view = "aboutMe" /\ KeepsWhole(view, AboutMe!Verified(form, KnownProfile))
      BY <2>2, CardKeeps DEF VerifiesCard
    <3>2. verifies.to = Stay /\ verifies.requests = <<AboutMe!Verified(form, KnownProfile)>>
      BY DEF Save
    <3> HIDE DEF verifies
    <3>3. Careful(view, verifies)
      BY <3>1, <3>2 DEF Careful, ListKeeps
    <3>4. QED BY <1>1, <1>2, <1>3, <2>2, <3>3, CarefulWritten DEF DetailsFit
  <2>3. CASE saves' = RemoveAt(saves, i)
    BY <1>1, <1>2, <1>4, <2>3 DEF DetailsFit
  <2>4. QED BY <1>5, <2>1, <2>2, <2>3 DEF Succeed
<1>6. CASE Fail(i) \/ CardAnswered(i)
  BY <1>1, <1>2, <1>4, <1>6 DEF DetailsFit, Fail, CardAnswered
<1>7. QED BY <1>5, <1>6 DEF Answer

\* The copies of the profile, and what is written elsewhere.
LEMMA CopiesCareful ==
  ASSUME SectionsWhole, Shape, DetailsFit, Refetch \/ Read \/ Arrive \/ FetchFails \/ WriteElsewhere
  PROVE  DetailsFit'
<1>1. UNCHANGED <<view, extracted, saves, card>> /\ view \in Views
  BY DEF Refetch, Read, Arrive, FetchFails, WriteElsewhere, server, Shape
<1>2. AllCareful(view, saves)'
  BY <1>1 DEF DetailsFit
<1>3. CASE Arrive
  <2>1. loaded' = fetch /\ fetch' = NoFetch /\ stored' = stored /\ Whole(view, fetch)
    BY <1>3 DEF Arrive, server, DetailsFit, CopiesFit
  <2>2. FitForm(view, form')
    BY <1>1, <1>3, <2>1, FilledFits DEF Arrive, DetailsFit
  <2>3. QED BY <1>1, <1>2, <2>1, <2>2 DEF DetailsFit, SectionFits, CopiesFit
<1>4. CASE Read
  BY <1>1, <1>2, <1>4 DEF Read, server, screen, DetailsFit, SectionFits, CopiesFit, HasProfile
<1>5. CASE Refetch
  BY <1>1, <1>2, <1>5 DEF Refetch, Invalidate, server, screen, DetailsFit, SectionFits, CopiesFit, HasProfile
<1>6. CASE FetchFails
  <2>1. loaded' \in {loaded, LoadFailed} /\ fetch' = NoFetch /\ UNCHANGED <<form, stored>>
    BY <1>6 DEF FetchFails, server, screen
  <2>2. QED BY <1>1, <1>2, <2>1 DEF DetailsFit, SectionFits, CopiesFit, HasProfile
<1>7. CASE WriteElsewhere
  <2>1. PICK w \in Elsewhere[view] : stored' = Merge(stored, w)
    BY <1>7 DEF WriteElsewhere
  <2>2. KeepsWhole(view, w) /\ (view = "aboutMe" => KeepsAddress(w))
    BY <1>1 DEF SectionsWhole
  <2>3. DOMAIN stored = SectionFields(view) /\ Whole(view, stored)
    BY DEF Shape, DataOK, DetailsFit, SectionFits
  <2>4. Whole(view, stored')
    BY <2>1, <2>2, <2>3 DEF KeepsWhole
  <2>5. view = "aboutMe" /\ card # "verified" => AboutMe!AddressFits(stored')
    BY <2>1, <2>2, <2>3 DEF KeepsAddress, SectionFields, DetailsFit, SectionFits
  <2>6. UNCHANGED <<loaded, fetch, form>>
    BY <1>7 DEF WriteElsewhere, screen
  <2>7. QED BY <1>1, <1>2, <2>4, <2>5, <2>6 DEF DetailsFit, SectionFits, CopiesFit, HasProfile
<1>8. QED BY <1>3, <1>4, <1>5, <1>6, <1>7

LEMMA InitialCareful == ASSUME SectionsWhole, Init PROVE DetailsFit
<1>1. /\ view \in Views /\ stored \in Stored[view] /\ saves = <<>>
  BY DEF Init
<1>2. Whole(view, stored) /\ SectionFits
  BY <1>1 DEF SectionsWhole, SectionFits
<1>3. AllCareful(view, saves)
  BY <1>1 DEF AllCareful
<1>4. CASE Mounted
  <2>1. CopiesFit /\ form = FormAtMount(view, extracted)
    BY <1>4 DEF Mounted, CopiesFit, HasProfile
  <2>2. FitForm(view, form)
    BY <2>1 DEF FitForm, FormAtMount, AboutMe!EmptyForm, AboutMe!Fields, Household!EmptyForm,
                Household!Fields, Household!StoredFields, Citizenships, Unset, AboutMe!Unset,
                Household!Unset
  <2>3. QED BY <1>2, <1>3, <2>1, <2>2 DEF DetailsFit
<1>5. CASE CameThisFar
  <2>1. form = FirstForm(stored) /\ loaded = stored /\ fetch = NoFetch
    BY <1>5 DEF CameThisFar
  <2>2. FitForm(view, form)
    BY <1>1, <1>2, <2>1, FilledFits
  <2>3. QED BY <1>2, <1>3, <2>1, <2>2 DEF DetailsFit, CopiesFit
<1>6. QED BY <1>4, <1>5 DEF Init

LEMMA CarefulKept == ASSUME SectionsWhole, Shape, DetailsFit, [Next]_vars PROVE DetailsFit'
<1>1. CASE UNCHANGED vars
  BY <1>1 DEF vars, server, DetailsFit, SectionFits, CopiesFit, HasProfile
<1>2. QED BY <1>1, UserCareful, ServedCareful, AnsweredCareful, CopiesCareful DEF Next, Server, Wallet

LEMMA NothingOrphaned == ASSUME Shape, HousingFits, DetailsFit PROVE NoOrphanedDetails
<1>1. Whole(view, stored) /\ (view = "aboutMe" /\ card # "verified" => AboutMe!AddressFits(stored))
  BY DEF DetailsFit, SectionFits
<1>2. ASSUME view = "housing", ~behind, saves = <<>>, 3 \notin unsaved PROVE Housing!NoOrphans(stored)
  <2>1. LodgingOK(saves, stored, form)
    BY <1>2 DEF HousingFits, LodgesFit, IsMissing
  <2>2. \A f, v : stored[f] = v => EndsWith(saves, stored, f, v)
    BY <1>2 DEF EndsWith
  <2>3. stored[Holder] # Unset => stored[Tenancy] = Unset /\ stored[Landlord] = Unset
    BY <2>1, <2>2 DEF LodgingOK
  <2>4. QED BY <2>3 DEF Housing!NoOrphans, Tenancy, Landlord, Holder, Unset, Housing!Unset
<1>3. QED BY <1>1, <1>2 DEF NoOrphanedDetails, Whole

\* Whatever is edited, saved, refused, verified and loaded in between: no detail outlives the
\* answer it belongs to (the payloads of the views, autoVerifyIdCard, savePageData).
THEOREM DetailsFollowAnswers ==
  ASSUME SectionsWhole, SectionsTenanted
  PROVE  Spec => []NoOrphanedDetails
<1>1. Init => Shape /\ HousingFits /\ DetailsFit
  BY InitialShape, InitialFits, InitialCareful
<1>2. Shape /\ HousingFits /\ DetailsFit /\ [Next]_vars => (Shape /\ HousingFits /\ DetailsFit)'
  BY ShapeKept, FitsKept, CarefulKept
<1>3. Shape /\ HousingFits /\ DetailsFit => NoOrphanedDetails
  BY NothingOrphaned
<1>4. QED BY <1>1, <1>2, <1>3, PTL DEF Spec

-----------------------------------------------------------------------------
(* The pages nobody touched.                                               *)

\* An edit of a page leaves the inputs of the others alone.
LEMMA OtherInputsStay ==
  ASSUME Merging, NEW f, DOMAIN f = DOMAIN FormAtMount(view, extracted),
         NEW p \in AllPages, NEW e,
         e \in EditsOf(f, p) \/ (view = "aboutMe" /\ p = 3 /\ e \in AboutMe!Page3Gender(f)),
         NEW q \in AllPages, q # p, NEW i \in InputsOf(q)
  PROVE  e[i] = f[i]
<1>1. CASE view = "aboutMe"
  <2>1. /\ p \in 1..6 /\ q \in 1..6 /\ i \in AboutMe!Inputs(q)
        /\ e \in AboutMe!Edits(f, p) \/ (p = 3 /\ e \in AboutMe!Page3Gender(f))
        /\ DOMAIN f = AboutMe!Fields
    BY <1>1 DEF AllPages, InputsOf, EditsOf, FormAtMount, AboutMe!EmptyForm
  <2>2. \/ q = 1 /\ i = "name"
        \/ q = 2 /\ i = "birth"
        \/ q = 3 /\ i = "legalGender"
        \/ q = 4 /\ i \in {"addressInput", "noFixedAddress"}
        \/ q = 6 /\ i \in {"citizenship", "nationality"}
    BY <2>1 DEF AboutMe!Inputs
  <2>0. i \in DOMAIN f
    BY <2>1, <2>2 DEF AboutMe!Fields
  <2>3. CASE p = 6
    <3>1. \/ \E c, n : e = [f EXCEPT !["citizenship"] = c, !["nationality"] = n]
          \/ e \in AboutMe!Choose(f, "nationality", {AboutMe!Unset, "FR"})
      BY <2>1, <2>3 DEF AboutMe!Edits, AboutMe!Page6Citizenship
    <3>2. i \notin {"citizenship", "nationality"}
      BY <2>1, <2>2, <2>3
    <3>3. QED BY <2>0, <3>1, <3>2 DEF AboutMe!Choose
  <2>4. CASE p = 4
    <3>1. i \notin {"addressInput", "noFixedAddress", "street", "place"}
      BY <2>1, <2>2, <2>4
    <3>2. QED BY <2>0, <2>1, <2>4, <3>1 DEF AboutMe!Edits, AboutMe!Page4Address, AboutMe!ToggleNoFixed,
                                      AboutMe!Choose
  <2>5. CASE p \in {1, 2, 5}
    <3>1. \E o : e = [f EXCEPT ![CASE p = 1 -> "name" [] p = 2 -> "birth" [] p = 5 -> "lastFixedAddress"] = o]
      BY <2>1, <2>5 DEF AboutMe!Edits, AboutMe!Page1Name, AboutMe!Page2Birth, AboutMe!Page5LastAddress,
                        AboutMe!Choose, AboutMe!Type
    <3>2. QED BY <2>1, <2>2, <2>5, <3>1
  <2>6. CASE p = 3
    <3>1. \E o : e = [f EXCEPT !["legalGender"] = o]
      BY <2>1, <2>6 DEF AboutMe!Edits, AboutMe!Page3Gender, AboutMe!Choose
    <3>2. QED BY <2>1, <2>2, <2>6, <3>1
  <2>7. QED BY <2>1, <2>3, <2>4, <2>5, <2>6
<1>2. CASE view = "household"
  <2>1. /\ p \in 1..5 /\ q \in 1..5 /\ i \in Household!Inputs(q) /\ e \in Household!Edits(f, p)
        /\ DOMAIN f = Household!Fields
    BY <1>2 DEF AllPages, InputsOf, EditsOf, FormAtMount, Household!EmptyForm
  <2>2. \/ q = 1 /\ i = "support"
        \/ q = 2 /\ i \in {"displacedOption", "displacedIssued"}
        \/ q = 3 /\ i \in {"checkSocial", "checkHealth", "checkNone", "socialSecurityType",
                           "healthInsuranceStatus"}
        \/ q = 4 /\ i = "personsInHouseholdCount"
        \/ q = 5 /\ i \in {"maritalStatus", "marriedSince"}
    BY <2>1 DEF Household!Inputs
  <2>0. i \in DOMAIN f
    BY <2>1, <2>2 DEF Household!Fields, Household!StoredFields
  <2>3. CASE p = 2
    <3>1. i \notin {"displacedOption", "displacedIssued", "displacedStatus"}
      BY <2>1, <2>2, <2>3
    <3>2. QED BY <2>0, <2>1, <2>3, <3>1 DEF Household!Edits, Household!DisplacedPage, Household!Choose, Household!Type
  <2>4. CASE p = 3
    <3>1. i \notin {"checkSocial", "checkHealth", "checkNone", "socialSecurityType", "healthInsuranceStatus"}
      BY <2>1, <2>2, <2>4
    <3>2. QED BY <2>0, <2>1, <2>4, <3>1 DEF Household!Edits, Household!InsurancePage, Household!ToggleInsurance,
                                      Household!ToggleNone, Household!Choose
  <2>5. CASE p \in {1, 4, 5}
    <3>1. \E x, o : /\ e = [f EXCEPT ![x] = o]
                   /\ \/ p = 1 /\ x = "support"
                      \/ p = 4 /\ x = "personsInHouseholdCount"
                      \/ p = 5 /\ x \in {"maritalStatus", "marriedSince"}
      BY <2>1, <2>5 DEF Household!Edits, Household!SupportPage, Household!CountPage,
                 Household!MaritalPage, Household!Choose, Household!Type
    <3>2. QED BY <2>1, <2>2, <2>5, <3>1
  <2>6. QED BY <2>1, <2>3, <2>4, <2>5
<1>3. QED BY <1>1, <1>2 DEF Merging

LEMMA GuessedBy ==
  ASSUME Merging, NEW n, NEW x, NEW p \in AllPages, IsReady(n, p), NEW r, Requests(n, p) = <<r>>,
         NEW f \in DOMAIN r, x[f] = Unset, r[f] # Unset
  PROVE  p \in Guessed(n, x)
<1>1. ToSet(<<r>>) = {r}
  BY DEF ToSet
<1>2. QED BY <1>1 DEF Guessed

LEMMA NotGuessedBy ==
  ASSUME NEW n, NEW x, NEW p, NEW r, Requests(n, p) = <<r>>,
         \A f \in DOMAIN r : x[f] = Unset => r[f] = Unset
  PROVE  p \notin Guessed(n, x)
<1>1. ToSet(<<r>>) = {r}
  BY DEF ToSet
<1>2. QED BY <1>1 DEF Guessed

\* Where a page does not show the profile, it shows a default or a guess.
LEMMA HouseholdShown ==
  ASSUME view = "household", NEW n, NEW x, NEW p \in AllPages, NEW f \in InputsOf(p),
         n[f] \in {Household!ServerSays(x)[f], Household!Shown(f, Household!ServerSays(x)[f])}
  PROVE  p \in Guessed(n, x) \/ n[f] = Says(x, f)
<1> DEFINE count == "personsInHouseholdCount"
<1>1. Says(x, f) = Household!ServerSays(x)[f]
  BY DEF Says
<1>2. CASE ~(f = count /\ Household!ServerSays(x)[f] = Household!Unset)
  BY <1>1, <1>2 DEF Household!Shown
<1>3. CASE f = count /\ Household!ServerSays(x)[f] = Household!Unset
  <2>1. p = 4
    BY <1>3 DEF AllPages, InputsOf, Household!Inputs
  <2>2. x[count] = Unset
    BY <1>3 DEF Household!ServerSays, Household!Fields, Household!StoredFields, Household!Unset, Unset
  <2>3. CASE n[f] = "1"
    <3>1. Requests(n, p) = <<Household!SaveCount(n)>> /\ IsReady(n, p) /\ Merging
      BY <2>1 DEF Requests, Household!Payload, IsReady, Household!Ready, Merging
    <3>2. DOMAIN Household!SaveCount(n) = {count} /\ Household!SaveCount(n)[count] = n[count]
      BY DEF Household!SaveCount, Household!Restrict
    <3> HIDE DEF count
    <3>3. p \in Guessed(n, x)
      BY <1>3, <2>2, <2>3, <3>1, <3>2, GuessedBy DEF Unset
    <3>4. QED BY <3>3
  <2>4. QED BY <1>1, <1>3, <2>3 DEF Household!Shown
<1>4. QED BY <1>2, <1>3

LEMMA AboutMeShown ==
  ASSUME view = "aboutMe", NEW n, NEW x, AboutMe!CitizenshipFits(x), NEW p \in AllPages,
         \A i \in InputsOf(p) :
            \/ n[i] = AboutMe!Synced(x, extracted, i)
            \/ i \in {"name", "birth", "legalGender"} /\ n[i] = x[i],
         NEW f \in InputsOf(p)
  PROVE  p \in Guessed(n, x) \/ n[f] = Says(x, f)
<1> USE DEF AboutMe!Unset
<1>0. /\ Requests(n, p) = <<AboutMe!Payload(n, p)>> /\ Merging /\ Says(x, f) = AboutMe!Compared(x, f)
      /\ (IsReady(n, p) <=> AboutMe!Ready(n, p)) /\ p \in 1..6 /\ f \in AboutMe!Inputs(p)
      /\ InputsOf(p) = AboutMe!Inputs(p)
  BY DEF Requests, Merging, Says, IsReady, AllPages, InputsOf
<1>1. CASE p \in {1, 2, 3}
  <2>1. f = (CASE p = 1 -> "name" [] p = 2 -> "birth" [] p = 3 -> "legalGender")
    BY <1>0, <1>1 DEF AboutMe!Inputs
  <2>2. Says(x, f) = x[f]
    BY <1>0, <1>1, <2>1 DEF AboutMe!Compared
  <2>3. CASE n[f] # x[f]
    <3>1. n[f] = AboutMe!Or(x[f], AboutMe!Ocr(extracted, f))
      BY <1>0, <1>1, <2>1, <2>3 DEF AboutMe!Synced
    <3>2. x[f] = Unset /\ n[f] # Unset
      BY <2>3, <3>1 DEF AboutMe!Or, Unset
    <3>3. AboutMe!Payload(n, p) = AboutMe!Restrict(n, {f})
      <4>1. CASE p = 1
        BY <2>1, <4>1 DEF AboutMe!Payload, AboutMe!SaveName
      <4>2. CASE p = 2
        BY <2>1, <4>2 DEF AboutMe!Payload, AboutMe!SaveBirth
      <4>3. CASE p = 3
        <5>1. f = "legalGender"
          BY <2>1, <4>3
        <5>4. {i \in {"legalGender"} : n[i] # AboutMe!Unset} = {"legalGender"}
          BY <3>2, <5>1 DEF Unset
        <5>2. AboutMe!Payload(n, p) = AboutMe!SaveGender(n)
          BY <4>3 DEF AboutMe!Payload
        <5>3. QED BY <5>1, <5>2, <5>4 DEF AboutMe!SaveGender
      <4>4. QED BY <1>1, <4>1, <4>2, <4>3
    <3>4. DOMAIN AboutMe!Restrict(n, {f}) = {f} /\ AboutMe!Restrict(n, {f})[f] = n[f]
      BY DEF AboutMe!Restrict
    <3>5. IsReady(n, p)
      <4>1. p # 6
        BY <1>1
      <4>2. QED BY <1>0, <4>1 DEF AboutMe!Ready
    <3>6. QED BY <1>0, <3>2, <3>3, <3>4, <3>5, GuessedBy
  <2>4. QED BY <2>2, <2>3
<1>2. CASE p = 4
  <2> DEFINE street == AboutMe!Or(x["street"], AboutMe!Ocr(extracted, "street"))
             place  == AboutMe!Or(x["place"], AboutMe!Ocr(extracted, "place"))
             r      == AboutMe!Payload(n, 4)
  <2>1. /\ "addressInput" \in AboutMe!Inputs(4) /\ "noFixedAddress" \in AboutMe!Inputs(4)
        /\ f \in {"addressInput", "noFixedAddress"}
    BY <1>0, <1>2 DEF AboutMe!Inputs
  <2>2. /\ n["addressInput"] = AboutMe!FullAddress(street, place)
        /\ n["noFixedAddress"] = IF street = AboutMe!NoAddress THEN "yes" ELSE "no"
    BY <1>0, <1>2, <2>1 DEF AboutMe!Synced
  <2>3. /\ AboutMe!Compared(x, "addressInput") = AboutMe!FullAddress(x["street"], x["place"])
        /\ AboutMe!Compared(x, "noFixedAddress") = IF x["street"] = AboutMe!NoAddress THEN "yes" ELSE "no"
    BY DEF AboutMe!Compared
  <2>4. /\ IsReady(n, p) /\ {"street", "place"} \subseteq DOMAIN r
        /\ n["noFixedAddress"] = "no" =>
             /\ r["street"] = AboutMe!ParsedStreet(n["addressInput"])
             /\ r["place"] = AboutMe!ParsedPlace(n["addressInput"])
    <3>1. IsReady(n, p)
      BY <1>0, <1>2 DEF AboutMe!Ready
    <3>2. r = AboutMe!SaveAddress(n)
      BY DEF AboutMe!Payload
    <3>3. DOMAIN AboutMe!SaveAddressAlone(n) = {"street", "place"}
      BY DEF AboutMe!SaveAddressAlone
    <3>4. {"street", "place"} \subseteq DOMAIN r
      BY <3>2, <3>3 DEF AboutMe!SaveAddress, AboutMe!Merge
    <3>5. n["noFixedAddress"] = "no" =>
             /\ r["street"] = AboutMe!SaveAddressAlone(n)["street"]
             /\ r["place"] = AboutMe!SaveAddressAlone(n)["place"]
      BY <3>2, <3>3 DEF AboutMe!SaveAddress, AboutMe!Merge
    <3> HIDE DEF r
    <3>6. QED BY <3>1, <3>4, <3>5 DEF AboutMe!SaveAddressAlone
  <2>5. CASE x["street"] = Unset /\ extracted
    <3>1. street = "read" /\ place # Unset
      BY <2>5 DEF AboutMe!Or, AboutMe!Ocr, Unset
    <3>2. n["addressInput"] = "read" /\ n["noFixedAddress"] = "no"
      BY <2>2, <3>1 DEF AboutMe!FullAddress, AboutMe!NoAddress, Unset
    <3>3. r["street"] # Unset
      BY <2>4, <3>2 DEF AboutMe!ParsedStreet, Unset
    <3> HIDE DEF r
    <3>4. QED BY <1>0, <1>2, <2>4, <2>5, <3>3, GuessedBy DEF r
  <2>6. CASE x["street"] \notin {Unset, AboutMe!NoAddress} /\ x["place"] = Unset /\ extracted
    <3>1. street = x["street"] /\ place = "read"
      BY <2>6 DEF AboutMe!Or, AboutMe!Ocr, Unset
    <3>2. n["addressInput"] = x["street"] /\ n["noFixedAddress"] = "no"
      BY <2>2, <2>6, <3>1 DEF AboutMe!FullAddress, AboutMe!NoAddress, Unset
    <3>3. CASE x["street"] = "streetOnly"
      BY <1>0, <2>1, <2>2, <2>3, <2>6, <3>1, <3>2, <3>3 DEF AboutMe!FullAddress, Unset
    <3>4. CASE x["street"] # "streetOnly"
      <4>1. r["place"] # Unset
        BY <2>4, <2>6, <3>2, <3>4 DEF AboutMe!ParsedPlace, Unset
      <4> HIDE DEF r
      <4>2. QED BY <1>0, <1>2, <2>4, <2>6, <4>1, GuessedBy DEF r
    <3>5. QED BY <3>3, <3>4
  <2>7. CASE ~extracted \/ x["street"] = AboutMe!NoAddress
             \/ (x["street"] # Unset /\ x["place"] # Unset)
    <3>1. street = x["street"]
      BY <2>7 DEF AboutMe!Or, AboutMe!Ocr, AboutMe!NoAddress, Unset
    <3>4. street \notin {Unset, AboutMe!NoAddress} => place = x["place"]
      BY <2>7, <3>1 DEF AboutMe!Or, AboutMe!Ocr, Unset
    <3>2. AboutMe!FullAddress(street, place) = AboutMe!FullAddress(x["street"], x["place"])
      BY <3>1, <3>4 DEF AboutMe!FullAddress, Unset
    <3>3. QED BY <1>0, <2>1, <2>2, <2>3, <3>1, <3>2
  <2>8. QED BY <2>5, <2>6, <2>7
<1>3. CASE p = 6
  <2> DEFINE status == AboutMe!StatusOption(x["citizenship"], AboutMe!IsGerman(x, extracted))
             r      == AboutMe!Payload(n, 6)
  <2>1. /\ "citizenship" \in AboutMe!Inputs(6) /\ "nationality" \in AboutMe!Inputs(6)
        /\ f \in {"citizenship", "nationality"}
    BY <1>0, <1>3 DEF AboutMe!Inputs
  <2>2. /\ n["citizenship"] = status
        /\ n["nationality"] = AboutMe!Or(x["nationality"], IF status = "german" THEN "DE" ELSE Unset)
    BY <1>0, <1>3, <2>1 DEF AboutMe!Synced, Unset
  <2>3. /\ AboutMe!Compared(x, "citizenship") = x["citizenship"]
        /\ AboutMe!Compared(x, "nationality") =
              AboutMe!Or(x["nationality"], IF x["citizenship"] = "german" THEN "DE" ELSE Unset)
    BY DEF AboutMe!Compared, Unset
  <2>4. CASE x["citizenship"] = Unset /\ status = "german"
    <3>0. r = AboutMe!SaveCitizenship(n) /\ n["citizenship"] = "german"
      BY <2>2, <2>4 DEF AboutMe!Payload
    <3>1. "citizenship" \in DOMAIN r /\ r["citizenship"] = "german"
      BY <3>0 DEF AboutMe!SaveCitizenship
    <3>3. IsReady(n, p)
      BY <1>0, <1>3, <3>0 DEF AboutMe!Ready, Unset
    <3> HIDE DEF r
    <3>2. QED BY <1>0, <1>3, <2>4, <3>1, <3>3, GuessedBy DEF r, Unset
  <2>5. CASE ~(x["citizenship"] = Unset /\ status = "german")
    <3>1. status = x["citizenship"]
      BY <2>5 DEF AboutMe!StatusOption, Unset
    <3>2. QED BY <1>0, <2>1, <2>2, <2>3, <3>1 DEF AboutMe!CitizenshipFits, AboutMe!Or, Unset
  <2>6. QED BY <2>4, <2>5
<1>4. CASE p = 5
  BY <1>0, <1>4 DEF AboutMe!Inputs
<1>5. QED BY <1>0, <1>1, <1>2, <1>3, <1>4

\* What the next profile leaves of an input that showed the one before.
LEMMA HouseholdArrives ==
  ASSUME view = "household", NEW n, NEW x, NEW p \in AllPages, NEW f \in InputsOf(p),
         \/ n = Household!Hydrate(x)
         \/ \E g, l : n = Household!Sync(g, l, x) /\ g[f] = Says(l, f)
  PROVE  p \in Guessed(n, x) \/ n[f] = Says(x, f)
<1>1. f \in Household!Fields /\ f # "displacedStatus"
  BY DEF InputsOf, Household!Inputs, AllPages, Household!Fields, Household!StoredFields
<1>2. ~Household!Keeps(f, x)
  BY <1>1 DEF Household!Keeps
<1>3. CASE n = Household!Hydrate(x)
  <2>1. n[f] = Household!Shown(f, Household!ServerSays(x)[f])
    BY <1>1, <1>2, <1>3 DEF Household!Hydrate
  <2>2. QED BY <2>1, HouseholdShown
<1>4. CASE \E g, l : n = Household!Sync(g, l, x) /\ g[f] = Says(l, f)
  <2>1. PICK g, l : n = Household!Sync(g, l, x) /\ g[f] = Says(l, f)
    BY <1>4
  <2>2. g[f] = Household!ServerSays(l)[f]
    BY <2>1 DEF Says
  <2>3. n[f] = IF Household!ShouldUpdate(g[f], Household!ServerSays(l)[f], Household!ServerSays(x)[f])
               THEN Household!Shown(f, Household!ServerSays(x)[f]) ELSE g[f]
    BY <1>1, <1>2, <2>1 DEF Household!Sync
  <2>4. n[f] \in {Household!ServerSays(x)[f], Household!Shown(f, Household!ServerSays(x)[f])}
    BY <2>2, <2>3 DEF Household!ShouldUpdate
  <2>5. QED BY <2>4, HouseholdShown
<1>5. QED BY <1>3, <1>4

LEMMA AboutMeArrives ==
  ASSUME view = "aboutMe", NEW n, NEW x, AboutMe!CitizenshipFits(x), NEW p \in AllPages, NEW f \in InputsOf(p),
         \/ n = AboutMe!Hydrate(x, extracted)
         \/ \E g, l : /\ n = AboutMe!Sync(g, l, x, extracted)
                      /\ \A i \in InputsOf(p) : g[i] = Says(l, i)
  PROVE  p \in Guessed(n, x) \/ n[f] = Says(x, f)
<1> USE DEF AboutMe!Unset
<1>1. \A i \in InputsOf(p) : /\ i \in AboutMe!Fields /\ i # "lastFixedAddress"
                             /\ i \in {"name", "birth", "legalGender", "addressInput", "noFixedAddress",
                                       "citizenship", "nationality"}
  BY DEF InputsOf, AboutMe!Inputs, AllPages, AboutMe!Fields
<1>2. \A i \in InputsOf(p) : ~AboutMe!Keeps(x, i)
  BY <1>1 DEF AboutMe!Keeps
<1>3. \A i \in InputsOf(p) : \/ n[i] = AboutMe!Synced(x, extracted, i)
                             \/ i \in {"name", "birth", "legalGender"} /\ n[i] = x[i]
  <2> SUFFICES ASSUME NEW i \in InputsOf(p)
               PROVE  \/ n[i] = AboutMe!Synced(x, extracted, i)
                      \/ i \in {"name", "birth", "legalGender"} /\ n[i] = x[i]
    OBVIOUS
  <2>1. CASE n = AboutMe!Hydrate(x, extracted)
    BY <1>1, <1>2, <2>1 DEF AboutMe!Hydrate
  <2>2. CASE \E g, l : /\ n = AboutMe!Sync(g, l, x, extracted)
                       /\ \A j \in InputsOf(p) : g[j] = Says(l, j)
    <3>1. PICK g, l : /\ n = AboutMe!Sync(g, l, x, extracted)
                      /\ \A j \in InputsOf(p) : g[j] = Says(l, j)
      BY <2>2
    <3>2. g[i] = AboutMe!Compared(l, i)
      BY <3>1 DEF Says
    <3>3. n[i] = IF AboutMe!ShouldUpdate(g[i], AboutMe!Compared(l, i), AboutMe!ComparedNow(x, extracted, i))
                 THEN AboutMe!Synced(x, extracted, i) ELSE g[i]
      BY <1>1, <1>2, <3>1 DEF AboutMe!Sync
    <3>4. n[i] \in {AboutMe!Synced(x, extracted, i), AboutMe!ComparedNow(x, extracted, i)}
      BY <3>2, <3>3 DEF AboutMe!ShouldUpdate
    <3>5. CASE i \in {"name", "birth", "legalGender"}
      <4>1. AboutMe!ComparedNow(x, extracted, i) = x[i]
        BY <3>5 DEF AboutMe!ComparedNow, AboutMe!Compared
      <4>2. QED BY <3>4, <3>5, <4>1
    <3>6. CASE i \in {"addressInput", "noFixedAddress", "citizenship", "nationality"}
      <4>1. AboutMe!ComparedNow(x, extracted, i) = AboutMe!Synced(x, extracted, i)
        BY <3>6 DEF AboutMe!ComparedNow
      <4>2. QED BY <3>4, <4>1
    <3>7. QED BY <1>1, <3>5, <3>6
  <2>3. QED BY <2>1, <2>2
<1>4. QED BY <1>3, AboutMeShown

LEMMA ArrivedShown ==
  ASSUME Shape, DetailsFit, UntouchedPagesShowTheProfile, Arrive
  PROVE  UntouchedPagesShowTheProfile'
<1>1. UNCHANGED <<view, extracted>> /\ AllPages' = AllPages /\ (Merging <=> Merging')
  BY SameView, SamePages DEF Arrive, Merging
<1> SUFFICES ASSUME Merging, NEW p \in AllPages \ touched', NEW f \in InputsOf(p)
             PROVE  form'[f] = Says(loaded', f)
  BY <1>1 DEF UntouchedPagesShowTheProfile, Says, InputsOf
<1>3. loaded' = fetch /\ Whole(view, fetch) /\ p \notin Guessed(form', fetch)
  <2>1. loaded' = fetch /\ Whole(view, fetch)
    BY DEF Arrive, DetailsFit, CopiesFit
  <2>2. Guessed(form', fetch) \subseteq touched'
    BY DEF Arrive, Touch
  <2>3. QED BY <2>1, <2>2
<1>4. CASE HasProfile
  <2>1. form' = LaterForm(fetch) /\ p \notin touched
    BY <1>4 DEF Arrive, Touch
  <2>2. \A i \in InputsOf(p) : form[i] = Says(loaded, i)
    BY <1>4, <2>1 DEF UntouchedPagesShowTheProfile
  <2>3. CASE view = "household"
    <3>1. form' = Household!Sync(form, loaded, fetch)
      BY <2>1, <2>3 DEF LaterForm
    <3>2. QED BY <1>3, <2>2, <2>3, <3>1, HouseholdArrives
  <2>4. CASE view = "aboutMe"
    <3>1. form' = AboutMe!Sync(form, loaded, fetch, extracted) /\ AboutMe!CitizenshipFits(fetch)
      BY <1>3, <2>1, <2>4 DEF LaterForm, Whole
    <3>2. QED BY <1>3, <2>2, <2>4, <3>1, AboutMeArrives
  <2>5. QED BY <2>3, <2>4 DEF Merging
<1>5. CASE ~HasProfile
  <2>1. form' = FirstForm(fetch)
    BY <1>5 DEF Arrive
  <2>2. CASE view = "household"
    <3>1. form' = Household!Hydrate(fetch)
      BY <2>1, <2>2 DEF FirstForm
    <3>2. QED BY <1>3, <2>2, <3>1, HouseholdArrives
  <2>3. CASE view = "aboutMe"
    <3>1. form' = AboutMe!Hydrate(fetch, extracted) /\ AboutMe!CitizenshipFits(fetch)
      BY <1>3, <2>1, <2>3 DEF FirstForm, Whole
    <3>2. QED BY <1>3, <2>3, <3>1, AboutMeArrives
  <2>4. QED BY <2>2, <2>3 DEF Merging
<1>6. QED BY <1>4, <1>5

LEMMA UntouchedKept ==
  ASSUME Shape, DetailsFit, UntouchedPagesShowTheProfile, [Next]_vars
  PROVE  UntouchedPagesShowTheProfile'
<1>1. UNCHANGED <<view, extracted>> /\ AllPages' = AllPages /\ (Merging <=> Merging')
  BY SameView, SamePages DEF Merging
<1>2. CASE HasProfile' => HasProfile /\ UNCHANGED <<loaded, form, touched>>
  BY <1>1, <1>2 DEF UntouchedPagesShowTheProfile, Says, InputsOf
<1>3. ASSUME NEW e, form' = e,
             \/ e \in EditsOf(form, page)
             \/ view = "aboutMe" /\ page = 3 /\ e \in AboutMe!Page3Gender(form),
             page \in AllPages, Touch({page}), UNCHANGED loaded
      PROVE  UntouchedPagesShowTheProfile'
  <2> SUFFICES ASSUME Merging, HasProfile, NEW q \in AllPages \ touched', NEW i \in InputsOf(q)
               PROVE  form'[i] = Says(loaded, i)
    BY <1>1, <1>3 DEF UntouchedPagesShowTheProfile, Says, InputsOf, HasProfile
  <2>1. q \notin touched /\ q # page
    BY <1>3 DEF Touch
  <2>2. DOMAIN form = DOMAIN FormAtMount(view, extracted)
    BY DEF Shape, ScreenOK
  <2>3. e[i] = form[i]
    BY <1>3, <2>1, <2>2, OtherInputsStay
  <2>4. QED BY <1>3, <2>1, <2>3 DEF UntouchedPagesShowTheProfile
<1>4. CASE Edit
  <2>1. PICK e \in EditsOf(form, page) : form' = e
    BY <1>4 DEF Edit
  <2>2. page \in AllPages /\ Touch({page}) /\ UNCHANGED loaded
    BY <1>4 DEF Edit, Open
  <2>3. QED BY <1>3, <2>1, <2>2
<1>5. CASE ChooseAndSave
  <2>1. CASE view = "housing"
    BY <1>1, <2>1 DEF UntouchedPagesShowTheProfile, Merging
  <2>2. CASE view = "aboutMe" /\ page = 3
    <3>1. PICK e \in AboutMe!Page3Gender(form) : form' = e
      BY <1>5, <2>2 DEF ChooseAndSave
    <3>2. page \in AllPages /\ Touch({page}) /\ UNCHANGED loaded
      BY <1>5, <2>2 DEF ChooseAndSave, Open
    <3>3. QED BY <1>3, <2>2, <3>1, <3>2
  <2>3. QED BY <1>5, <2>1, <2>2 DEF ChooseAndSave
<1>6. CASE SaveField \/ PressNext \/ Back
  BY <1>2, <1>6 DEF SaveField, PressNext, Back, SavePage, screen, HasProfile
<1>7. CASE Read \/ WriteElsewhere \/ Refetch \/ FetchFails \/ UNCHANGED vars
  BY <1>2, <1>7 DEF Read, WriteElsewhere, Refetch, FetchFails, screen, vars, HasProfile
<1>8. CASE \E i \in DOMAIN saves : Apply(i) \/ Refuse(i) \/ Answer(i)
  BY <1>2, <1>8 DEF Apply, Refuse, Answer, Succeed, Fail, CardAnswered, screen, HasProfile
<1>9. CASE Arrive
  BY <1>9, ArrivedShown
<1>10. QED BY <1>4, <1>5, <1>6, <1>7, <1>8, <1>9 DEF Next, User, Server, Wallet

\* Next leads through every page of these views, but for the last fixed address.
LEMMA PagesOnTheWay ==
  ASSUME view \in Views, Merging, NEW p \in AllPages, view = "aboutMe" => p # 5
  PROVE  p \in Route
<1>1. PICK g : Follows(g) /\ Route = g[1]
  BY RouteFollows
<1>2. \A q \in AllPages : g[q] = {q} \cup g[NextOf(form, q)]
  BY <1>1, OverviewIsNoPage, Zenon DEF Follows
<1>3. CASE view = "household"
  <2>1. AllPages = 1..5 /\ \A q \in 1..4 : NextOf(form, q) = q + 1
    BY <1>3 DEF AllPages, NextOf, Household!NextPage
  <2>2. /\ g[1] = {1} \cup g[2] /\ g[2] = {2} \cup g[3] /\ g[3] = {3} \cup g[4]
        /\ g[4] = {4} \cup g[5] /\ 5 \in g[5]
    BY <1>2, <2>1
  <2>3. p \in {1, 2, 3, 4, 5}
    BY <2>1
  <2>4. QED BY <1>1, <2>2, <2>3
<1>4. CASE view = "aboutMe"
  <2>1. /\ AllPages = 1..6 /\ \A q \in {1, 2, 3, 5} : NextOf(form, q) = q + 1
        /\ NextOf(form, 4) \in {5, 6}
    BY <1>4 DEF AllPages, NextOf, AboutMe!NextPage
  <2>2. /\ g[1] = {1} \cup g[2] /\ g[2] = {2} \cup g[3] /\ g[3] = {3} \cup g[4] /\ 4 \in g[4]
        /\ g[4] = {4} \cup g[NextOf(form, 4)] /\ g[5] = {5} \cup g[6] /\ 6 \in g[6]
    BY <1>2, <2>1
  <2>3. 6 \in g[NextOf(form, 4)]
    BY <2>1, <2>2
  <2>4. p \in {1, 2, 3, 4, 6}
    BY <1>4, <2>1
  <2>5. QED BY <1>1, <2>2, <2>3, <2>4
<1>5. QED BY <1>3, <1>4 DEF Merging

\* Whoever has saved every page so far sees no guess.
LEMMA NothingGuessed ==
  ASSUME view \in Views, Merging, CameThisFar, DOMAIN stored = SectionFields(view),
         NEW p \in AllPages, view = "aboutMe" => p # 5
  PROVE  p \notin Guessed(form, stored)
<1>1. p \in Route
  BY PagesOnTheWay
<1>2. PICK r : Requests(form, p) = <<r>>
  BY DEF Merging, Requests
<1>3. ToSet(<<r>>) = {r}
  BY DEF ToSet
<1>4. Merge(stored, r) = stored
  BY <1>1, <1>2, <1>3 DEF CameThisFar
<1>5. \A f \in DOMAIN r : r[f] = stored[f]
  <2> SUFFICES ASSUME NEW f \in DOMAIN r PROVE r[f] = stored[f]
    OBVIOUS
  <2>1. Merge(stored, r)[f] = r[f]
    BY DEF Merge
  <2>2. QED BY <1>4, <2>1
<1>6. QED BY <1>2, <1>5, NotGuessedBy

LEMMA InitiallyUntouched == ASSUME SectionsWhole, Init PROVE UntouchedPagesShowTheProfile
<1>1. view \in Views /\ stored \in Stored[view] /\ Whole(view, stored) /\ DOMAIN stored = SectionFields(view)
  BY SectionsAssumption DEF Init, SectionsWhole
<1>2. CASE Mounted
  BY <1>2 DEF Mounted, HasProfile, UntouchedPagesShowTheProfile
<1>3. CASE CameThisFar
  <2> SUFFICES ASSUME Merging, NEW p \in AllPages, NEW f \in InputsOf(p)
               PROVE  form[f] = Says(loaded, f)
    BY DEF UntouchedPagesShowTheProfile
  <2>1. form = FirstForm(stored) /\ loaded = stored
    BY <1>3 DEF CameThisFar
  <2>2. p \notin Guessed(form, stored)
    <3>1. view = "aboutMe" => p # 5
      BY DEF InputsOf, AboutMe!Inputs
    <3>2. QED BY <1>1, <1>3, <3>1, NothingGuessed
  <2>3. CASE view = "household"
    <3>1. form = Household!Hydrate(stored)
      BY <2>1, <2>3 DEF FirstForm
    <3>2. QED BY <2>1, <2>2, <2>3, <3>1, HouseholdArrives
  <2>4. CASE view = "aboutMe"
    <3>1. form = AboutMe!Hydrate(stored, extracted) /\ AboutMe!CitizenshipFits(stored)
      BY <1>1, <2>1, <2>4 DEF FirstForm, Whole
    <3>2. QED BY <2>1, <2>2, <2>4, <3>1, AboutMeArrives
  <2>5. QED BY <2>3, <2>4 DEF Merging
<1>4. QED BY <1>2, <1>3 DEF Init

\* Whatever is saved, written elsewhere, read late or lost: an input of a page nobody touched
\* is not left at an older profile, nor replaced by what no profile says (shouldUpdate).
THEOREM UntouchedPagesAreCurrent ==
  ASSUME SectionsWhole
  PROVE  Spec => []UntouchedPagesShowTheProfile
<1>1. Init => Shape /\ DetailsFit /\ UntouchedPagesShowTheProfile
  BY InitialShape, InitialCareful, InitiallyUntouched
<1>2. Shape /\ DetailsFit /\ UntouchedPagesShowTheProfile /\ [Next]_vars
        => (Shape /\ DetailsFit /\ UntouchedPagesShowTheProfile)'
  BY ShapeKept, CarefulKept, UntouchedKept
<1>3. QED BY <1>1, <1>2, PTL DEF Spec

-----------------------------------------------------------------------------
(* What the profile will have once the save on its way is through.         *)

\* The fields a page writes.
IncomeFields(p) ==
    CASE p = 1 -> {"awaiting", "awaitingDetails"} [] p = 2 -> {"previous", "previousDetails"}
      [] p = 3 -> Income!PensionLines
      [] p = 4 -> {"isCurrentlyEmployed", "employer"} \cup Income!WorkLines
      [] p = 5 -> Income!OtherLines [] p = 6 -> {"oneTime", "oneTimeDetails", "oneTimeAmount"}
      [] p = 7 -> {"bank", "iban", "monthlyIncome"}
HouseholdFields(p) ==
    CASE p = 1 -> {"support"} [] p = 2 -> {"displacedStatus", "displacedIssued"}
      [] p = 3 -> {"socialSecurityType", "healthInsuranceStatus"}
      [] p = 4 -> {"personsInHouseholdCount"} [] p = 5 -> {"maritalStatus", "marriedSince"}
AboutMeFields(p) ==
    CASE p = 1 -> {"name"} [] p = 2 -> {"birth"} [] p = 3 -> {"legalGender"}
      [] p = 4 -> {"street", "place", "state"} [] p = 5 -> {"street", "state"}
      [] p = 6 -> {"citizenship", "nationality"}
PageFields(v, p) ==
    CASE v = "income" -> IncomeFields(p) [] v = "health" -> Health!SentFields(p)
      [] v = "household" -> HouseholdFields(p) [] v = "aboutMe" -> AboutMeFields(p)

\* The requests of a page: one, or two for the work.
OwnRequests(v, p, list) ==
    \/ \E r : list = <<r>> /\ DOMAIN r \subseteq PageFields(v, p)
    \/ \E q, r : /\ list = <<q, r>>
                 /\ DOMAIN q \subseteq PageFields(v, p) /\ DOMAIN r \subseteq PageFields(v, p)
Applied(section, list) ==
    IF list = <<>> THEN section
    ELSE IF Tail(list) = <<>> THEN Merge(section, list[1]) ELSE Merge(Merge(section, list[1]), list[2])

\* The requests that the profile does not have yet, unless the save was refused, and the
\* section they leave.
Ahead(list) ==
    IF list = <<>> THEN <<>>
    ELSE IF list[1].to = Stay \/ list[1].at = "refused" THEN <<>>
    ELSE IF list[1].at = "sent" THEN list[1].requests ELSE Tail(list[1].requests)
Target == Applied(stored, Ahead(saves))
\* The pages whose answers the profile will not have.
RefusedPage(list, p) == list # <<>> /\ list[1].to # Stay /\ list[1].at = "refused" /\ list[1].page = p
Missing == {p \in AllPages : p \in unsaved \/ RefusedPage(saves, p)}

\* A form that does not queue its saves has one at a time while they do not overlap, and
\* only the view with the card sends one that is not a page's.
OneSave ==
    \/ saves = <<>>
    \/ \E s : /\ saves = <<s>>
              /\ IF s.to = Stay THEN view = "aboutMe" ELSE OwnRequests(view, s.page, s.requests)

\* The profile that a section leads to changes where pages are missing only.
Drifts(v, t, u, open, more) ==
    /\ open \subseteq more
    /\ \A f \in SectionFields(v) : u[f] = t[f] \/ \E p \in more : f \in PageFields(v, p)


LEMMA AppliedFields ==
  ASSUME NEW v, NEW s, DOMAIN s = SectionFields(v), NEW p, NEW list, OwnRequests(v, p, list),
         NEW f \in SectionFields(v)
  PROVE  f \in PageFields(v, p) \/ Applied(s, list)[f] = s[f]
<1>1. CASE \E r : list = <<r>> /\ DOMAIN r \subseteq PageFields(v, p)
  <2>1. PICK r : list = <<r>> /\ DOMAIN r \subseteq PageFields(v, p)
    BY <1>1
  <2>2. Applied(s, list) = Merge(s, r)
    BY <2>1 DEF Applied
  <2>3. QED BY <2>1, <2>2 DEF Merge
<1>2. CASE \E q, r : /\ list = <<q, r>>
                     /\ DOMAIN q \subseteq PageFields(v, p) /\ DOMAIN r \subseteq PageFields(v, p)
  <2>1. PICK q, r : /\ list = <<q, r>>
                    /\ DOMAIN q \subseteq PageFields(v, p) /\ DOMAIN r \subseteq PageFields(v, p)
    BY <1>2
  <2>2. Applied(s, list) = Merge(Merge(s, q), r)
    BY <2>1 DEF Applied
  <2>3. QED BY <2>1, <2>2 DEF Merge
<1>3. QED BY <1>1, <1>2 DEF OwnRequests

\* The first request is applied and the next one sent.
LEMMA RequestsGoOn ==
  ASSUME NEW v, NEW p, NEW list, OwnRequests(v, p, list), Tail(list) # <<>>
  PROVE  OwnRequests(v, p, Tail(list))
<1>1. PICK q, r : /\ list = <<q, r>>
                  /\ DOMAIN q \subseteq PageFields(v, p) /\ DOMAIN r \subseteq PageFields(v, p)
  <2>1. \A r : list = <<r>> => Tail(list) = <<>>
    OBVIOUS
  <2>2. QED BY <2>1 DEF OwnRequests
<1>2. Tail(list) = <<r>>
  BY <1>1
<1>3. QED BY <1>1, <1>2 DEF OwnRequests

LEMMA AppliedNext ==
  ASSUME NEW v, NEW p, NEW s, NEW list, OwnRequests(v, p, list), NEW u, u = Merge(s, Head(list))
  PROVE  Applied(u, Tail(list)) = Applied(s, list)
<1>1. CASE \E r : list = <<r>>
  <2>1. PICK r : list = <<r>>
    BY <1>1
  <2>2. Head(list) = r /\ Tail(list) = <<>>
    BY <2>1
  <2>3. QED BY <2>1, <2>2 DEF Applied
<1>2. CASE \E q, r : list = <<q, r>>
  <2>1. PICK q, r : list = <<q, r>>
    BY <1>2
  <2>2. Head(list) = q /\ Tail(list) = <<r>> /\ Tail(<<r>>) = <<>> /\ list[1] = q /\ list[2] = r
    BY <2>1
  <2>3. Applied(u, <<r>>) = Merge(u, r)
    BY <2>2 DEF Applied
  <2>4. Applied(s, list) = Merge(u, r)
    BY <2>1, <2>2 DEF Applied
  <2>5. QED BY <2>2, <2>3, <2>4
<1>3. QED BY <1>1, <1>2 DEF OwnRequests

LEMMA RequestsOwn ==
  ASSUME view \in Views, view # "housing", NEW f, NEW p \in AllPages
  PROVE  OwnRequests(view, p, Requests(f, p))
<1>1. CASE view = "income"
  <2>1. p \in 1..7 /\ Requests(f, p) = Income!Payloads(f, p) /\ PageFields(view, p) = IncomeFields(p)
    BY <1>1 DEF AllPages, Requests, PageFields
  <2>2. CASE p = 4
    <3>1. Requests(f, p) = <<Income!SaveWork(f), Income!SaveWorkRows(f)>>
      BY <2>1, <2>2 DEF Income!Payloads
    <3>2. DOMAIN Income!SaveWork(f) \subseteq PageFields(view, p)
      BY <2>1, <2>2 DEF Income!SaveWork, IncomeFields
    <3>3. DOMAIN Income!SaveWorkRows(f) \subseteq PageFields(view, p)
      <4>1. Income!SaveWorkRows(f) = <<>> \/ \E chosen, amount :
              Income!SaveWorkRows(f) = Income!IncomeRows(Income!WorkLines, chosen, amount)
        BY DEF Income!SaveWorkRows, Income!EmploymentRows
      <4>2. DOMAIN Income!SaveWorkRows(f) \subseteq Income!WorkLines
        BY <4>1, RowsSent
      <4>3. QED BY <2>1, <2>2, <4>2 DEF IncomeFields
    <3>4. QED BY <3>1, <3>2, <3>3 DEF OwnRequests
  <2>3. CASE p # 4
    <3>1. PICK r : /\ Requests(f, p) = <<r>>
                   /\ p = 1 => r = Income!SaveAwaiting(f) 
                   /\ p = 2 => r = Income!SavePrevious(f)
                   /\ p = 3 => r = Income!SavePension(f)
                   /\ p = 5 => r = Income!SaveOther(f)
                   /\ p = 6 => r = Income!SaveOneTime(f)
                   /\ p = 7 => r = Income!SaveBank(f)
      BY <2>1, <2>3 DEF Income!Payloads
    <3>2. DOMAIN r \subseteq IncomeFields(p)
      <4>1. CASE p \in {1, 2, 6}
        BY <2>1, <3>1, <4>1 DEF Income!SaveAwaiting, Income!SavePrevious, Income!SaveOneTime,
                                Income!SaveQuestion, IncomeFields
      <4>2. CASE p \in {3, 5}
        BY <2>1, <3>1, <4>2, RowsSent DEF Income!SavePension, Income!SaveOther, IncomeFields
      <4>3. CASE p = 7
        BY <2>1, <3>1, <4>3 DEF Income!SaveBank, Income!Merge, Income!Restrict, IncomeFields
      <4>4. QED BY <2>1, <2>3, <4>1, <4>2, <4>3
    <3>3. QED BY <2>1, <3>1, <3>2 DEF OwnRequests
  <2>4. QED BY <2>2, <2>3
<1>2. CASE view \in {"aboutMe", "household", "health"}
  <2>1. PICK r : /\ Requests(f, p) = <<r>>
                 /\ view = "aboutMe" => r = AboutMe!Payload(f, p)
                 /\ view = "household" => r = Household!Payload(f, p)
                 /\ view = "health" => r = Health!Payload(f, p)
    BY <1>2 DEF Requests
  <2>2. DOMAIN r \subseteq PageFields(view, p)
    <3>1. CASE view = "aboutMe"
      <4>1. p \in 1..6 /\ r = AboutMe!Payload(f, p) /\ PageFields(view, p) = AboutMeFields(p)
        BY <2>1, <3>1 DEF AllPages, PageFields
      <4>2. QED BY <4>1 DEF AboutMe!Payload, AboutMe!SaveName, AboutMe!SaveBirth, AboutMe!SaveGender,
              AboutMe!SaveAddress, AboutMe!SaveAddressAlone, AboutMe!SaveLastAddress,
              AboutMe!SaveCitizenship, AboutMeFields, AboutMe!Merge, AboutMe!Restrict
    <3>2. CASE view = "household"
      <4>1. p \in 1..5 /\ r = Household!Payload(f, p) /\ PageFields(view, p) = HouseholdFields(p)
        BY <2>1, <3>2 DEF AllPages, PageFields
      <4>2. QED BY <4>1 DEF Household!Payload, Household!SaveSupport, Household!SaveDisplaced,
              Household!SaveInsurance, Household!SaveCount, Household!SaveMarital,
              HouseholdFields, Household!Restrict
    <3>3. CASE view = "health"
      <4>1. r = Health!Payload(f, p) /\ PageFields(view, p) = Health!SentFields(p)
        BY <2>1, <3>3 DEF PageFields
      <4>2. QED BY <4>1 DEF Health!Payload, Health!Sanitized, Health!Restrict
    <3>4. QED BY <1>2, <3>1, <3>2, <3>3
  <2>3. QED BY <2>1, <2>2 DEF OwnRequests
<1>3. QED BY <1>1, <1>2, ViewsAssumption

\* Nothing was mixed up so far: the states that ResavingKeepsAnswers speaks of.
Quiet == view # "housing" /\ ~overlapped /\ card # "verified"

LEMMA QuietBefore == ASSUME [Next]_vars, Quiet' PROVE Quiet
<1>1. UNCHANGED view
  BY SameView
<1>2. overlapped => overlapped'
  BY DEF Next, User, Server, Wallet, vars, Edit, ChooseAndSave, SaveField, PressNext, Back, SavePage,
         Start, Apply, Refuse, Answer, Succeed, Fail, CardAnswered, Refetch, Read, Arrive, FetchFails,
         WriteElsewhere
<1>3. card = "verified" => card' = "verified"
  BY DEF Next, User, Server, Wallet, vars, Edit, ChooseAndSave, SaveField, PressNext, Back, SavePage,
         Start, Apply, Refuse, Answer, Succeed, Fail, CardAnswered, Refetch, Read, Arrive, FetchFails,
         WriteElsewhere, server
<1>4. QED BY <1>1, <1>2, <1>3 DEF Quiet

LEMMA NothingDrifts ==
  ASSUME NEW v, NEW t, NEW open, NEW more, open \subseteq more
  PROVE  Drifts(v, t, t, open, more)
  BY DEF Drifts

\* The only save is written anew, or leaves.
LEMMA OnlySave ==
  ASSUME SavesOK, OneSave, NEW i \in DOMAIN saves
  PROVE  /\ i = 1 /\ saves = <<saves[1]>> /\ IsSave(saves[1])
         /\ IF saves[1].to = Stay THEN view = "aboutMe"
            ELSE OwnRequests(view, saves[1].page, saves[1].requests)
<1>1. PICK s : /\ saves = <<s>>
               /\ IF s.to = Stay THEN view = "aboutMe" ELSE OwnRequests(view, s.page, s.requests)
  BY DEF OneSave
<1>2. i = 1 /\ saves[1] = s
  BY <1>1
<1>3. IsSave(saves[1])
  BY <1>2 DEF SavesOK
<1>4. QED BY <1>1, <1>2, <1>3

LEMMA OnlyRemoved == ASSUME NEW s PROVE RemoveAt(<<s>>, 1) = <<>>
  BY DEF RemoveAt

\* A new save.
LEMMA SaveStarts ==
  ASSUME OneSave, UNCHANGED <<view, stored>>, NEW p \in AllPages, NEW requests,
         OwnRequests(view, p, requests), NEW to, to # Stay, Start(Save(p, requests, to)),
         ~overlapped', unsaved' = unsaved \ {p}
  PROVE  /\ OneSave' /\ Target = stored /\ Target' = Applied(stored, requests)
         /\ Missing' = Missing \ {p}
<1> DEFINE s == Save(p, requests, to)
<1>1. saves = <<>> /\ saves' = Append(<<>>, s) /\ AllPages' = AllPages
  BY DEF Start, AllPages
<1>2. s.page = p /\ s.requests = requests /\ s.to = to /\ s.at = "sent"
  BY DEF Save
<1> HIDE DEF s
<1>3. saves' = <<s>> /\ saves'[1] = s /\ saves' # <<>>
  BY <1>1
<1>4. OneSave'
  BY <1>2, <1>3 DEF OneSave
<1>5. Ahead(saves) = <<>> /\ Ahead(saves') = requests
  BY <1>1, <1>2, <1>3 DEF Ahead
<1>6. Target = stored /\ Target' = Applied(stored, requests)
  BY <1>5 DEF Target, Applied
<1>7. \A q : ~RefusedPage(saves, q) /\ ~RefusedPage(saves', q)
  BY <1>1, <1>2, <1>3 DEF RefusedPage
<1>8. QED BY <1>1, <1>4, <1>6, <1>7 DEF Missing

\* What the middleware and its answers make of a save.
LEMMA SaveServed ==
  ASSUME ListsOK, DataOK, OneSave, [Next]_vars, Quiet', NEW i \in DOMAIN saves,
         Apply(i) \/ Refuse(i) \/ Answer(i)
  PROVE  /\ OneSave' /\ Drifts(view, Target, Target', Missing, Missing')
         /\ UNCHANGED <<form, loaded, behind>>
<1> DEFINE s == saves[1]
<1>1. /\ i = 1 /\ saves = <<s>> /\ IsSave(s) /\ saves # <<>>
      /\ IF s.to = Stay THEN view = "aboutMe" ELSE OwnRequests(view, s.page, s.requests)
  BY OnlySave DEF ListsOK
<1>2. s.page \in AllPages
  BY <1>1 DEF ListsOK, ShapesOK, SaveShape
<1>3. UNCHANGED view /\ AllPages' = AllPages /\ UNCHANGED <<form, loaded, behind>>
  <2>1. UNCHANGED <<form, loaded, behind>>
    BY DEF Apply, Refuse, Answer, Succeed, Fail, CardAnswered, screen
  <2>2. QED BY <2>1, SameView, SamePages
<1> HIDE DEF s
<1>4. \A q : RefusedPage(saves, q) <=> s.to # Stay /\ s.at = "refused" /\ s.page = q
  BY <1>1 DEF RefusedPage, s
<1>5. Ahead(saves) = IF s.to = Stay \/ s.at = "refused" THEN <<>>
                     ELSE IF s.at = "sent" THEN s.requests ELSE Tail(s.requests)
  BY <1>1 DEF Ahead, s
<1>6. ASSUME NEW n, saves' = <<n>>
      PROVE  /\ \A q : RefusedPage(saves', q) <=> n.to # Stay /\ n.at = "refused" /\ n.page = q
             /\ Ahead(saves') = IF n.to = Stay \/ n.at = "refused" THEN <<>>
                                ELSE IF n.at = "sent" THEN n.requests ELSE Tail(n.requests)
             /\ (IF n.to = Stay THEN view = "aboutMe" ELSE OwnRequests(view, n.page, n.requests))
                => OneSave'
  <2>1. saves'[1] = n /\ saves' # <<>>
    BY <1>6
  <2>2. (IF n.to = Stay THEN view = "aboutMe" ELSE OwnRequests(view, n.page, n.requests))
        => OneSave'
    BY <1>3, <1>6 DEF OneSave
  <2>3. QED BY <2>1, <2>2 DEF RefusedPage, Ahead
<1>7. ASSUME saves' = <<>>
      PROVE  (\A q : ~RefusedPage(saves', q)) /\ Ahead(saves') = <<>> /\ OneSave'
  BY <1>7 DEF RefusedPage, Ahead, OneSave
<1>8. ASSUME NEW n PROVE [saves EXCEPT ![1] = n] = <<n>>
  BY <1>1
<1>9. CASE Apply(i)
  <2> DEFINE n == [s EXCEPT !.at = "applied", !.jumps = WizardPages(stored', s.page)]
  <2>1. /\ s.at = "sent" /\ stored' = Merge(stored, Head(s.requests)) /\ unsaved' = unsaved
        /\ saves' = [saves EXCEPT ![1] = n]
        /\ s.to = Stay /\ view = "aboutMe" => card' = "verified"
    BY <1>1, <1>9 DEF Apply, screen, s
  <2>2. s.to # Stay /\ OwnRequests(view, s.page, s.requests)
    BY <1>1, <1>3, <2>1 DEF Quiet
  <2>3. n.at = "applied" /\ n.page = s.page /\ n.requests = s.requests /\ n.to = s.to
    BY <1>1 DEF IsSave
  <2> HIDE DEF n
  <2>4. saves' = <<n>>
    BY <1>8, <2>1
  <2>5. OneSave' /\ Ahead(saves') = Tail(s.requests) /\ \A q : ~RefusedPage(saves', q)
    BY <1>6, <2>2, <2>3, <2>4
  <2>6. Ahead(saves) = s.requests /\ \A q : ~RefusedPage(saves, q)
    BY <1>4, <1>5, <2>1, <2>2
  <2>7. Target' = Target
    <3>1. Target = Applied(stored, s.requests) /\ Target' = Applied(stored', Tail(s.requests))
      BY <2>5, <2>6 DEF Target
    <3>2. Applied(stored', Tail(s.requests)) = Applied(stored, s.requests)
      BY <2>1, <2>2, AppliedNext
    <3>3. QED BY <2>1, <3>1, <3>2
  <2>8. Missing' = Missing
    BY <1>3, <2>1, <2>5, <2>6 DEF Missing
  <2>9. QED BY <1>3, <2>5, <2>7, <2>8, NothingDrifts
<1>10. CASE Refuse(i)
  <2> DEFINE n == [s EXCEPT !.at = "refused"]
  <2>1. s.at = "sent" /\ UNCHANGED <<stored, unsaved>> /\ saves' = [saves EXCEPT ![1] = n]
    BY <1>1, <1>10 DEF Refuse, screen, server, s
  <2>2. n.at = "refused" /\ n.page = s.page /\ n.requests = s.requests /\ n.to = s.to
    BY <1>1 DEF IsSave
  <2> HIDE DEF n
  <2>3. saves' = <<n>>
    BY <1>8, <2>1
  <2>4. /\ OneSave' /\ Ahead(saves') = <<>>
        /\ \A q : RefusedPage(saves', q) <=> s.to # Stay /\ s.page = q
    BY <1>1, <1>6, <2>2, <2>3
  <2>5. Target' = stored
    BY <2>1, <2>4 DEF Target, Applied
  <2>6. Missing \subseteq Missing'
    BY <1>3, <1>4, <2>1, <2>4 DEF Missing
  <2>7. CASE s.to = Stay
    <3>1. Target = stored
      BY <1>5, <2>7 DEF Target, Applied
    <3>2. QED BY <1>3, <2>4, <2>5, <2>6, <3>1, NothingDrifts
  <2>8. CASE s.to # Stay
    <3>1. Target = Applied(stored, s.requests) /\ OwnRequests(view, s.page, s.requests)
      BY <1>1, <1>5, <2>1, <2>8 DEF Target
    <3>2. s.page \in Missing'
      BY <1>2, <1>3, <2>4, <2>8 DEF Missing
    <3>3. QED BY <1>3, <2>4, <2>5, <2>6, <3>1, <3>2, AppliedFields DEF Drifts, DataOK
  <2>9. QED BY <2>7, <2>8
<1>11. CASE Answer(i)
  <2>1. CASE s.to = Stay
    <3>1. CardAnswered(i)
      BY <1>1, <1>11, <2>1 DEF Answer, s
    <3>2. saves' = <<>> /\ UNCHANGED <<stored, unsaved>>
      BY <1>1, <3>1, OnlyRemoved DEF CardAnswered, server
    <3>3. Target' = stored /\ Target = stored
      BY <1>5, <1>7, <2>1, <3>2 DEF Target, Applied
    <3>4. Missing' = Missing
      BY <1>3, <1>4, <1>7, <2>1, <3>2 DEF Missing
    <3>5. QED BY <1>3, <1>7, <3>2, <3>3, <3>4, NothingDrifts
  <2>2. CASE s.to # Stay /\ Succeed(i)
    <3> DEFINE onward == [s EXCEPT !.requests = Tail(s.requests), !.at = "sent"]
               verifies == Save(6, <<AboutMe!Verified(form, KnownProfile)>>, Stay)
    <3>1. /\ s.at = "applied" /\ UNCHANGED <<stored, unsaved>>
          /\ \/ Tail(s.requests) # <<>> /\ saves' = [saves EXCEPT ![1] = onward]
             \/ Tail(s.requests) = <<>> /\ view = "aboutMe" /\ saves' = [saves EXCEPT ![1] = verifies]
             \/ Tail(s.requests) = <<>> /\ saves' = RemoveAt(saves, 1)
      <4> DEFINE old == saves[i]
                 next == [old EXCEPT !.requests = Tail(old.requests), !.at = "sent"]
      <4>1. /\ old.at = "applied" /\ UNCHANGED <<stored, unsaved>>
            /\ \/ Tail(old.requests) # <<>> /\ saves' = [saves EXCEPT ![i] = next]
               \/ /\ Tail(old.requests) = <<>> /\ view = "aboutMe"
                  /\ saves' = [saves EXCEPT ![i] = verifies]
               \/ Tail(old.requests) = <<>> /\ saves' = RemoveAt(saves, i)
        BY <2>2 DEF Succeed, VerifiesCard, server
      <4>2. old = s
        BY <1>1 DEF s
      <4> HIDE DEF old, verifies
      <4>3. QED BY <1>1, <4>1, <4>2
    <3>2. /\ onward.at = "sent" /\ onward.page = s.page /\ onward.requests = Tail(s.requests)
          /\ onward.to = s.to /\ verifies.to = Stay
      BY <1>1 DEF IsSave, Save
    <3> HIDE DEF onward, verifies
    <3>3. Ahead(saves) = Tail(s.requests) /\ \A q : ~RefusedPage(saves, q)
      BY <1>4, <1>5, <2>2, <3>1
    <3>4. OneSave' /\ Ahead(saves') = Tail(s.requests) /\ \A q : ~RefusedPage(saves', q)
      <4>1. CASE Tail(s.requests) # <<>> /\ saves' = [saves EXCEPT ![1] = onward]
        <5>1. saves' = <<onward>> /\ OwnRequests(view, s.page, Tail(s.requests))
          BY <1>1, <1>8, <2>2, <4>1, RequestsGoOn
        <5>2. QED BY <1>6, <2>2, <3>2, <5>1
      <4>2. CASE Tail(s.requests) = <<>> /\ view = "aboutMe" /\ saves' = [saves EXCEPT ![1] = verifies]
        <5>1. saves' = <<verifies>>
          BY <1>8, <4>2
        <5>2. QED BY <1>6, <3>2, <4>2, <5>1
      <4>3. CASE Tail(s.requests) = <<>> /\ saves' = RemoveAt(saves, 1)
        BY <1>1, <1>7, <4>3, OnlyRemoved
      <4>4. QED BY <3>1, <4>1, <4>2, <4>3
    <3>5. Target' = Target /\ Missing' = Missing
      BY <1>3, <3>1, <3>3, <3>4 DEF Target, Missing
    <3>6. QED BY <1>3, <3>4, <3>5, NothingDrifts
  <2>3. CASE s.to # Stay /\ Fail(i)
    <3>1. /\ s.at \in {"applied", "refused"} /\ saves' = RemoveAt(saves, 1) /\ UNCHANGED stored
          /\ unsaved' = unsaved \cup {s.page}
      BY <1>1, <2>3 DEF Fail, server, s
    <3>2. OneSave' /\ Ahead(saves') = <<>> /\ \A q : ~RefusedPage(saves', q)
      BY <1>1, <1>7, <3>1, OnlyRemoved
    <3>3. Target' = stored
      BY <3>1, <3>2 DEF Target, Applied
    <3>4. Missing \subseteq Missing' /\ s.page \in Missing'
      BY <1>2, <1>3, <1>4, <3>1 DEF Missing
    <3>5. CASE s.at = "refused" \/ Tail(s.requests) = <<>>
      <4>1. Ahead(saves) = <<>>
        BY <1>5, <3>1, <3>5
      <4>2. Target = stored
        BY <4>1 DEF Target, Applied
      <4>3. QED BY <1>3, <3>2, <3>3, <3>4, <4>2, NothingDrifts
    <3>6. CASE s.at = "applied" /\ Tail(s.requests) # <<>>
      <4>1. Target = Applied(stored, Tail(s.requests)) /\ OwnRequests(view, s.page, Tail(s.requests))
        BY <1>1, <1>5, <2>3, <3>6, RequestsGoOn DEF Target
      <4>2. QED BY <1>3, <3>2, <3>3, <3>4, <4>1, AppliedFields DEF Drifts, DataOK
    <3>7. QED BY <3>1, <3>5, <3>6
  <2>4. QED BY <1>1, <1>11, <2>1, <2>2, <2>3 DEF Answer
<1>12. QED BY <1>9, <1>10, <1>11

-----------------------------------------------------------------------------
(* What a page sends when it is saved once more.                           *)

\* An income is only stored with work, or with no answer to the question.
WorkFits(s) ==
    s["isCurrentlyEmployed"] \in {Unset, "yes"} \/ \A l \in Income!WorkLines : s[l] \in {Unset, "0"}

\* The pages of the income repeat the section t, but for what they compute.
Exempt(t) == {"monthlyIncome"} \cup IF Income!WorksForNothing(t) THEN Income!WorkLines ELSE {}
Repeats(r, t) == \A f \in DOMAIN r \ Exempt(t) : t[f] # Unset => r[f] = t[f]
IncomeAgain(t, g, p) ==
    Income!Ready(g, p) => \A k \in DOMAIN Income!Payloads(g, p) : Repeats(Income!Payloads(g, p)[k], t)
IncomeFits(t, g, open) == \A p \in 1..7 : p \in open \/ IncomeAgain(t, g, p)

\* The fields of the health show the section, or nothing where nothing is not sent.
HealthAgain(t, g, f) == t[f] = Unset \/ g[f] = t[f] \/ (f = "merkzeichen" /\ g[f] = Unset)
SentOpen(f, open) == \E p \in 1..8 : f \in Health!SentFields(p) /\ p \in open
HealthFits(t, g, open) == \A f \in Health!Fields : SentOpen(f, open) \/ HealthAgain(t, g, f)

\* An input of the household shows what the section t has, or what the profile l had that was
\* loaded last.
Agrees(t, g, l, f) == g[f] = t[f] \/ g[f] = l[f]
MaritalAgain(t, g, l) ==
    /\ Agrees(t, g, l, "maritalStatus")
    /\ t["maritalStatus"] = "Married" => Agrees(t, g, l, "marriedSince")
Ticked(g, l, c, answer) == g[c] = answer \/ g[c] = Household!ServerSays(l)[c]
Unticked(g, l, c, answer) == g[c] # answer \/ g[c] = Household!ServerSays(l)[c]
HealthInsured(t, g, l) ==
    t["healthInsuranceStatus"] # Unset =>
        /\ Unticked(g, l, "checkHealth", "no") /\ Unticked(g, l, "checkNone", "yes")
        /\ Agrees(t, g, l, "healthInsuranceStatus")
SociallyInsured(t, g, l) ==
    t["socialSecurityType"] \notin {Unset, "None"} =>
        /\ Unticked(g, l, "checkSocial", "no") /\ Unticked(g, l, "checkNone", "yes")
        /\ Agrees(t, g, l, "socialSecurityType")
Uninsured(t, g, l) ==
    t["socialSecurityType"] = "None" =>
        \/ Ticked(g, l, "checkSocial", "no")
        \/ Agrees(t, g, l, "socialSecurityType")
        \/ t["healthInsuranceStatus"] = Unset /\ Ticked(g, l, "checkNone", "yes")
InsuranceAgain(t, g, l) == HealthInsured(t, g, l) /\ SociallyInsured(t, g, l) /\ Uninsured(t, g, l)
HouseholdFits(t, g, l, open, alone) ==
    /\ 1 \in open \/ Agrees(t, g, l, "support")
    /\ 4 \in open \/ Agrees(t, g, l, "personsInHouseholdCount")
    /\ alone => 5 \in open \/ MaritalAgain(t, g, l)
    /\ alone => 3 \in open \/ InsuranceAgain(t, g, l)

\* The inputs about the user, of whom no gender is not sent.
CitizenAgain(t, g, l) ==
    /\ Agrees(t, g, l, "citizenship")
    /\ t["citizenship"] \notin {"german", Unset} => Agrees(t, g, l, "nationality")
AboutMeFits(t, g, l, open, alone) ==
    /\ 1 \in open \/ Agrees(t, g, l, "name")
    /\ 2 \in open \/ Agrees(t, g, l, "birth")
    /\ 3 \in open \/ Agrees(t, g, l, "legalGender") \/ g["legalGender"] = Unset
    /\ alone => 6 \in open \/ CitizenAgain(t, g, l)

AgainFits(v, t, g, l, open, alone) ==
    /\ v = "income" /\ alone => IncomeFits(t, g, open)
    /\ v = "health" /\ alone => HealthFits(t, g, open)
    /\ v = "household" => HouseholdFits(t, g, l, open, alone)
    /\ v = "aboutMe" => AboutMeFits(t, g, l, open, alone)

-----------------------------------------------------------------------------
(* The health.                                                             *)

LEMMA HealthDrifts ==
  ASSUME NEW t, NEW u, NEW g, NEW open, NEW more, more \subseteq 1..8,
         Drifts("health", t, u, open, more), HealthFits(t, g, open)
  PROVE  HealthFits(u, g, more)
<1> SUFFICES ASSUME NEW f \in Health!Fields PROVE SentOpen(f, more) \/ HealthAgain(u, g, f)
  BY DEF HealthFits
<1>1. SentOpen(f, open) => SentOpen(f, more)
  BY DEF Drifts, SentOpen
<1>2. u[f] = t[f] \/ SentOpen(f, more)
  BY DEF Drifts, SectionFields, PageFields, SentOpen
<1>3. QED BY <1>1, <1>2 DEF HealthFits, HealthAgain

LEMMA HealthEdited ==
  ASSUME NEW t, NEW g, DOMAIN g = Health!Fields, NEW open, NEW p \in 1..8, NEW e \in Health!Edits(g, p),
         HealthFits(t, g, open)
  PROVE  HealthFits(t, e, open \cup {p})
<1> SUFFICES ASSUME NEW f \in Health!Fields, f \notin Health!SentFields(p)
             PROVE  SentOpen(f, open \cup {p}) \/ HealthAgain(t, e, f)
  BY DEF HealthFits, SentOpen
<1>1. PICK x \in Health!SentFields(p) : \E o : e = [g EXCEPT ![x] = o]
  <2>1. p \in {1, 2, 3, 4, 5, 6, 7, 8}
    OBVIOUS
  <2>2. QED BY <2>1 DEF Health!SentFields, Health!Edits, Health!CarePage, Health!InpatientPage,
          Health!FacilityPage, Health!CapacityPage, Health!TemporaryPage, Health!PermanentPage,
          Health!DisabilityPage, Health!NutritionPage, Health!Choose, Health!Type
<1>2. e[f] = g[f]
  BY <1>1
<1>3. QED BY <1>2 DEF HealthFits, SentOpen, HealthAgain

\* The page that is saved is what it sent.
LEMMA HealthSaved ==
  ASSUME NEW s, DOMAIN s = Health!Fields, NEW g, NEW open, open \subseteq 1..8, NEW p \in 1..8,
         NEW t, t = Merge(s, Health!Payload(g, p)), HealthFits(t, g, open \cup {p})
  PROVE  HealthFits(t, g, open \ {p})
<1> SUFFICES ASSUME NEW f \in Health!Fields PROVE SentOpen(f, open \ {p}) \/ HealthAgain(t, g, f)
  BY DEF HealthFits
<1>1. CASE f \notin Health!SentFields(p)
  BY <1>1 DEF HealthFits, SentOpen
<1>2. CASE f \in Health!SentFields(p)
  <2> DEFINE r == Health!Payload(g, p)
  <2>1. /\ f \in DOMAIN r \/ (f = "merkzeichen" /\ g[f] = Unset)
        /\ \A x \in DOMAIN r : r[x] = g[x]
    BY <1>2 DEF Health!Payload, Health!Sanitized, Health!Restrict, Unset, Health!Unset
  <2> HIDE DEF r
  <2>2. f \in DOMAIN r => t[f] = r[f]
    BY DEF Merge, r
  <2>3. QED BY <2>1, <2>2 DEF HealthAgain
<1>3. QED BY <1>1, <1>2

LEMMA HealthHydrated ==
  ASSUME NEW x, NEW open
  PROVE  HealthFits(x, Health!Hydrate(x), open)
  BY DEF Health!Hydrate, HealthFits, HealthAgain

LEMMA HealthSettles ==
  ASSUME view = "health", HealthFits(stored, form, {})
  PROVE  ScreenIsStored(AllPages)
<1> SUFFICES ASSUME NEW p \in AllPages, NEW sends \in ToSet(Requests(form, p)), NEW f \in DOMAIN sends,
                    stored[f] # Unset
             PROVE  sends[f] = stored[f]
  BY DEF ScreenIsStored
<1>1. Requests(form, p) = <<Health!Payload(form, p)>>
  BY DEF Requests
<1>2. sends = Health!Payload(form, p)
  BY <1>1 DEF ToSet
<1>3. p \in 1..8
  BY DEF AllPages
<1>4. /\ f \in Health!SentFields(p) /\ sends[f] = form[f]
      /\ f = "merkzeichen" => form[f] # Unset
  BY <1>2 DEF Health!Payload, Health!Sanitized, Health!Restrict, Unset, Health!Unset
<1>5. f \in Health!Fields
  <2>1. p \in {1, 2, 3, 4, 5, 6, 7, 8}
    BY <1>3
  <2>2. QED BY <1>4, <2>1 DEF Health!SentFields, Health!Fields
<1>6. HealthAgain(stored, form, f)
  BY <1>5 DEF HealthFits, SentOpen
<1>7. QED BY <1>4, <1>6 DEF HealthAgain

-----------------------------------------------------------------------------
(* The household.                                                          *)

LEMMA HouseholdDrifts ==
  ASSUME view = "household", NEW t, NEW u, NEW g, NEW l, NEW open, NEW more, more \subseteq AllPages,
         NEW alone \in BOOLEAN, Drifts(view, t, u, open, more), HouseholdFits(t, g, l, open, alone)
  PROVE  HouseholdFits(u, g, l, more, alone)
<1>0. more \subseteq 1..5 /\ Drifts("household", t, u, open, more)
  BY DEF AllPages
<1>1. ASSUME NEW p \in 1..5, p \notin more, NEW f \in HouseholdFields(p) PROVE u[f] = t[f]
  <2>1. f \in SectionFields("household")
    BY <1>1 DEF HouseholdFields, SectionFields, Household!StoredFields
  <2>2. ASSUME NEW q \in more, f \in HouseholdFields(q) PROVE q = p
    BY <1>0, <1>1, <2>2 DEF HouseholdFields
  <2>3. QED BY <1>0, <1>1, <2>1, <2>2 DEF Drifts, PageFields
<1>2. open \subseteq more
  BY DEF Drifts
<1>3. 1 \in more \/ Agrees(u, g, l, "support")
  BY <1>1, <1>2 DEF HouseholdFits, Agrees, HouseholdFields
<1>4. 4 \in more \/ Agrees(u, g, l, "personsInHouseholdCount")
  BY <1>1, <1>2 DEF HouseholdFits, Agrees, HouseholdFields
<1>5. alone => 5 \in more \/ MaritalAgain(u, g, l)
  <2>1. 5 \notin more => u["maritalStatus"] = t["maritalStatus"] /\ u["marriedSince"] = t["marriedSince"]
    BY <1>1 DEF HouseholdFields
  <2>2. QED BY <1>2, <2>1 DEF HouseholdFits, MaritalAgain, Agrees
<1>6. alone => 3 \in more \/ InsuranceAgain(u, g, l)
  <2>1. 3 \notin more => /\ u["socialSecurityType"] = t["socialSecurityType"]
                         /\ u["healthInsuranceStatus"] = t["healthInsuranceStatus"]
    BY <1>1 DEF HouseholdFields
  <2>2. QED BY <1>2, <2>1 DEF HouseholdFits, InsuranceAgain, HealthInsured, SociallyInsured, Uninsured, Agrees
<1>7. QED BY <1>3, <1>4, <1>5, <1>6 DEF HouseholdFits

LEMMA HouseholdEdited ==
  ASSUME view = "household", NEW t, NEW g, DOMAIN g = DOMAIN FormAtMount(view, extracted), NEW l, NEW open,
         NEW alone \in BOOLEAN, NEW p \in AllPages, NEW e \in EditsOf(g, p),
         HouseholdFits(t, g, l, open, alone)
  PROVE  HouseholdFits(t, e, l, open \cup {p}, alone)
<1>0. AllPages = 1..5 /\ Merging /\ \A q : InputsOf(q) = Household!Inputs(q)
  BY DEF AllPages, Merging, InputsOf
<1>1. ASSUME NEW q \in 1..5, q \notin open \cup {p}, NEW i \in Household!Inputs(q) PROVE e[i] = g[i]
  BY <1>0, <1>1, OtherInputsStay
<1>2. 1 \in open \cup {p} \/ Agrees(t, e, l, "support")
  BY <1>1 DEF HouseholdFits, Agrees, Household!Inputs
<1>3. 4 \in open \cup {p} \/ Agrees(t, e, l, "personsInHouseholdCount")
  BY <1>1 DEF HouseholdFits, Agrees, Household!Inputs
<1>4. alone => 5 \in open \cup {p} \/ MaritalAgain(t, e, l)
  <2>1. 5 \notin open \cup {p} => e["maritalStatus"] = g["maritalStatus"] /\ e["marriedSince"] = g["marriedSince"]
    BY <1>1 DEF Household!Inputs
  <2>2. QED BY <2>1 DEF HouseholdFits, MaritalAgain, Agrees
<1>5. alone => 3 \in open \cup {p} \/ InsuranceAgain(t, e, l)
  <2>1. 3 \notin open \cup {p} =>
            /\ e["checkSocial"] = g["checkSocial"] /\ e["checkHealth"] = g["checkHealth"]
            /\ e["checkNone"] = g["checkNone"] /\ e["socialSecurityType"] = g["socialSecurityType"]
            /\ e["healthInsuranceStatus"] = g["healthInsuranceStatus"]
    BY <1>1 DEF Household!Inputs
  <2>2. 3 \notin open \cup {p} /\ InsuranceAgain(t, g, l) => InsuranceAgain(t, e, l)
    BY <2>1 DEF InsuranceAgain, HealthInsured, SociallyInsured, Uninsured, Agrees, Ticked, Unticked
  <2>3. QED BY <2>2 DEF HouseholdFits
<1>6. QED BY <1>2, <1>3, <1>4, <1>5 DEF HouseholdFits

LEMMA HouseholdSaved ==
  ASSUME view = "household", NEW s, NEW g, NEW l, NEW more, NEW p \in AllPages, NEW less, less = more \ {p},
         NEW alone \in BOOLEAN, NEW t, t = Merge(s, Household!Payload(g, p)), HouseholdFits(t, g, l, more, alone)
  PROVE  HouseholdFits(t, g, l, less, alone)
<1> USE DEF Unset, Household!Unset
<1> DEFINE r == Household!Payload(g, p)
<1>0. p \in 1..5
  BY DEF AllPages
<1>1. \A f \in DOMAIN r : t[f] = r[f]
  BY DEF Merge
<1>2. p = 1 => Agrees(t, g, l, "support")
  BY <1>1 DEF Household!Payload, Household!SaveSupport, Agrees
<1>3. p = 4 => Agrees(t, g, l, "personsInHouseholdCount")
  <2>1. p = 4 => DOMAIN r = {"personsInHouseholdCount"} /\ r["personsInHouseholdCount"] = g["personsInHouseholdCount"]
    BY DEF Household!Payload, Household!SaveCount, Household!Restrict
  <2>2. QED BY <1>1, <2>1 DEF Agrees
<1>4. p = 5 => MaritalAgain(t, g, l)
  <2> SUFFICES ASSUME p = 5 PROVE MaritalAgain(t, g, l)
    OBVIOUS
  <2>1. /\ r["maritalStatus"] = g["maritalStatus"]
        /\ g["maritalStatus"] = "Married" => r["marriedSince"] = g["marriedSince"]
        /\ DOMAIN r = {"maritalStatus", "marriedSince"}
    <3>1. r = Household!SaveMarital(g)
      BY DEF Household!Payload
    <3> HIDE DEF r
    <3>2. QED BY <3>1 DEF Household!SaveMarital
  <2> HIDE DEF r
  <2>2. QED BY <1>1, <2>1 DEF MaritalAgain, Agrees
<1>5. p = 3 => InsuranceAgain(t, g, l)
  <2> SUFFICES ASSUME p = 3 PROVE InsuranceAgain(t, g, l)
    OBVIOUS
  <2>1. /\ r["socialSecurityType"] = IF g["checkNone"] = "yes" \/ g["checkSocial"] = "no" THEN "None"
                                     ELSE g["socialSecurityType"]
        /\ r["healthInsuranceStatus"] = IF g["checkNone"] = "yes" \/ g["checkHealth"] = "no" THEN Unset
                                        ELSE g["healthInsuranceStatus"]
        /\ DOMAIN r = {"socialSecurityType", "healthInsuranceStatus"}
    <3>1. r = Household!SaveInsurance(g)
      BY DEF Household!Payload
    <3> HIDE DEF r
    <3>2. QED BY <3>1 DEF Household!SaveInsurance
  <2> HIDE DEF r
  <2>2. /\ t["socialSecurityType"] = r["socialSecurityType"]
        /\ t["healthInsuranceStatus"] = r["healthInsuranceStatus"]
    BY <1>1, <2>1
  <2>3. HealthInsured(t, g, l)
    BY <2>1, <2>2 DEF HealthInsured, Unticked, Agrees
  <2>4. SociallyInsured(t, g, l)
    BY <2>1, <2>2 DEF SociallyInsured, Unticked, Agrees
  <2>5. Uninsured(t, g, l)
    BY <2>1, <2>2 DEF Uninsured, Ticked, Agrees
  <2>6. QED BY <2>3, <2>4, <2>5 DEF InsuranceAgain
<1> HIDE DEF r
<1>6. QED BY <1>0, <1>2, <1>3, <1>4, <1>5 DEF HouseholdFits

\* The first profile.
LEMMA HouseholdHydrated ==
  ASSUME view = "household", NEW t, NEW x, NEW g, g = Household!Hydrate(x), NEW alone \in BOOLEAN
  PROVE  HouseholdFits(t, g, x, Guessed(g, x), alone)
<1> DEFINE says == Household!ServerSays(x)
<1>1. \A f \in Household!Fields : f \notin {"displacedStatus", "personsInHouseholdCount"} => g[f] = says[f]
  BY DEF Household!Hydrate, Household!Keeps, Household!Shown
<1>2. says["personsInHouseholdCount"] = x["personsInHouseholdCount"]
      /\ \A f \in Household!StoredFields : says[f] = x[f]
  BY DEF Household!ServerSays, Household!Fields, Household!StoredFields
<1> HIDE DEF says
<1>3. /\ Agrees(t, g, x, "support") /\ Agrees(t, g, x, "maritalStatus") /\ Agrees(t, g, x, "marriedSince")
      /\ Agrees(t, g, x, "socialSecurityType") /\ Agrees(t, g, x, "healthInsuranceStatus")
  BY <1>1, <1>2 DEF Agrees, Household!Fields, Household!StoredFields
<1>4. \A c \in {"checkSocial", "checkHealth", "checkNone"} : g[c] = says[c]
  BY <1>1 DEF Household!Fields, Household!StoredFields
<1>5. \A a : \A c \in {"checkSocial", "checkHealth", "checkNone"} : Unticked(g, x, c, a) /\ Ticked(g, x, c, a)
  BY <1>4 DEF Unticked, Ticked, says
<1>6. 4 \in Guessed(g, x) \/ Agrees(t, g, x, "personsInHouseholdCount")
  <2>1. 4 \in AllPages /\ "personsInHouseholdCount" \in InputsOf(4)
    BY DEF AllPages, InputsOf, Household!Inputs
  <2>2. 4 \in Guessed(g, x) \/ g["personsInHouseholdCount"] = Says(x, "personsInHouseholdCount")
    BY <2>1, HouseholdArrives
  <2>3. QED BY <1>2, <2>2 DEF Says, Agrees, says
<1>7. QED BY <1>3, <1>5, <1>6 DEF HouseholdFits, MaritalAgain, InsuranceAgain, HealthInsured,
                                 SociallyInsured, Uninsured

\* The next profile replaces an input that showed the one before.
LEMMA InputSynced ==
  ASSUME NEW g, NEW l, NEW x, NEW n, n = Household!Sync(g, l, x), NEW f \in Household!Fields,
         f \notin {"displacedStatus", "personsInHouseholdCount"}
  PROVE  /\ n[f] = g[f] \/ n[f] = Household!ServerSays(x)[f]
         /\ g[f] = Household!ServerSays(l)[f] => n[f] = Household!ServerSays(x)[f]
  BY DEF Household!Sync, Household!ShouldUpdate, Household!Keeps, Household!Shown

LEMMA HouseholdSynced ==
  ASSUME view = "household", NEW t, NEW x, NEW alone \in BOOLEAN, NEW open,
         NEW n, n = Household!Sync(form, loaded, x), HouseholdFits(t, form, loaded, open, alone)
  PROVE  HouseholdFits(t, n, x, open \cup NewlyGuessed(n, x), alone)
<1> USE DEF Unset, Household!Unset
<1>1. \A y : \A f \in Household!StoredFields : Household!ServerSays(y)[f] = y[f]
  BY DEF Household!ServerSays, Household!Fields, Household!StoredFields
<1>2. ASSUME NEW f \in {"support", "maritalStatus", "marriedSince", "socialSecurityType",
                        "healthInsuranceStatus"}, Agrees(t, form, loaded, f)
      PROVE  Agrees(t, n, x, f)
  <2>1. f \in Household!StoredFields /\ f \in Household!Fields
        /\ f \notin {"displacedStatus", "personsInHouseholdCount"}
    BY DEF Household!StoredFields, Household!Fields
  <2>2. QED BY <1>1, <1>2, <2>1, InputSynced DEF Agrees
<1>3. ASSUME NEW c \in {"checkSocial", "checkHealth", "checkNone"}
      PROVE  /\ n[c] = form[c] \/ n[c] = Household!ServerSays(x)[c]
             /\ form[c] = Household!ServerSays(loaded)[c] => n[c] = Household!ServerSays(x)[c]
  <2>1. c \in Household!Fields /\ c \notin {"displacedStatus", "personsInHouseholdCount"}
    BY DEF Household!StoredFields, Household!Fields
  <2>2. QED BY <2>1, InputSynced
<1>4. \A c \in {"checkSocial", "checkHealth", "checkNone"} : \A a :
         /\ Unticked(form, loaded, c, a) => Unticked(n, x, c, a)
         /\ Ticked(form, loaded, c, a) => Ticked(n, x, c, a)
  BY <1>3 DEF Ticked, Unticked
<1>5. 4 \in open \cup NewlyGuessed(n, x) \/ Agrees(t, n, x, "personsInHouseholdCount")
  <2> DEFINE count == "personsInHouseholdCount"
  <2>0. count \in Household!Fields /\ count \in Household!StoredFields
    BY DEF Household!Fields, Household!StoredFields
  <2>1. n[count] = IF x[count] # loaded[count] /\ form[count] \in {loaded[count], x[count]}
                   THEN IF x[count] = Unset THEN "1" ELSE x[count] ELSE form[count]
    BY <1>1, <2>0 DEF Household!Sync, Household!ShouldUpdate, Household!Keeps, Household!Shown
  <2> HIDE DEF count
  <2>2. SUFFICES ASSUME 4 \notin open, ~Agrees(t, n, x, count) PROVE 4 \in NewlyGuessed(n, x)
    BY DEF count
  <2>3. form[count] = t[count] \/ form[count] = loaded[count]
    BY <2>2 DEF HouseholdFits, Agrees, count
  <2>4. x[count] # loaded[count] /\ x[count] = Unset /\ n[count] = "1"
    BY <2>1, <2>2, <2>3 DEF Agrees
  <2>5. \A h : /\ Requests(h, 4) = <<Household!SaveCount(h)>> /\ IsReady(h, 4)
               /\ DOMAIN Household!SaveCount(h) = {count} /\ Household!SaveCount(h)[count] = h[count]
    BY DEF Requests, Household!Payload, Household!SaveCount, Household!Restrict, IsReady, Household!Ready, count
  <2>6. 4 \in AllPages /\ Merging
    BY DEF AllPages, Merging
  <2>7. 4 \in Guessed(n, x)
    BY <2>4, <2>5, <2>6, GuessedBy
  <2>8. 4 \notin Guessed(form, loaded)
    <3>1. \A f \in DOMAIN Household!SaveCount(form) :
              loaded[f] = Unset => Household!SaveCount(form)[f] = Unset
      <4>1. x[count] # loaded[count] /\ x[count] = Unset /\ DOMAIN Household!SaveCount(form) = {count}
        BY <2>4, <2>5
      <4>2. QED BY <4>1
    <3>2. QED BY <2>5, <3>1, NotGuessedBy
  <2>9. QED BY <2>7, <2>8 DEF NewlyGuessed
<1>6. MaritalAgain(t, form, loaded) => MaritalAgain(t, n, x)
  BY <1>2 DEF MaritalAgain
<1>7. InsuranceAgain(t, form, loaded) => InsuranceAgain(t, n, x)
  <2>1. HealthInsured(t, form, loaded) => HealthInsured(t, n, x)
    BY <1>2, <1>4 DEF HealthInsured
  <2>2. SociallyInsured(t, form, loaded) => SociallyInsured(t, n, x)
    BY <1>2, <1>4 DEF SociallyInsured
  <2>3. Uninsured(t, form, loaded) => Uninsured(t, n, x)
    BY <1>2, <1>4 DEF Uninsured
  <2>4. QED BY <2>1, <2>2, <2>3 DEF InsuranceAgain
<1>8. QED BY <1>2, <1>5, <1>6, <1>7 DEF HouseholdFits

\* Somebody else writes: what was loaded last is all that is known.
LEMMA HouseholdChanged ==
  ASSUME NEW t, NEW g, NEW l, NEW open, NEW alone \in BOOLEAN, HouseholdFits(l, g, l, open, alone)
  PROVE  HouseholdFits(t, g, l, open, FALSE)
  BY DEF HouseholdFits, Agrees

LEMMA HouseholdRepeats ==
  ASSUME NEW s, NEW g, NEW alone \in BOOLEAN, Household!NoOrphans(s), HouseholdFits(s, g, s, {}, alone),
         NEW p, p \in {1, 4} \/ (p \in {3, 5} /\ alone)
  PROVE  \A f \in DOMAIN Household!Payload(g, p) : s[f] # Unset => Household!Payload(g, p)[f] = s[f]
<1> USE DEF Unset, Household!Unset
<1> DEFINE r == Household!Payload(g, p)
<1>1. CASE p = 1
  <2>1. r = Household!SaveSupport(g) /\ g["support"] = s["support"]
    BY <1>1 DEF Household!Payload, HouseholdFits, Agrees
  <2>2. QED BY <2>1 DEF Household!SaveSupport
<1>2. CASE p = 4
  <2>1. r = Household!SaveCount(g) /\ g["personsInHouseholdCount"] = s["personsInHouseholdCount"]
    BY <1>2 DEF Household!Payload, HouseholdFits, Agrees
  <2>2. QED BY <2>1 DEF Household!SaveCount, Household!Restrict
<1>3. CASE p = 5
  <2>1. MaritalAgain(s, g, s)
    BY <1>3 DEF HouseholdFits
  <2>2. r = Household!SaveMarital(g)
    BY <1>3 DEF Household!Payload
  <2> HIDE DEF r
  <2>3. /\ DOMAIN r = {"maritalStatus", "marriedSince"} /\ r["maritalStatus"] = s["maritalStatus"]
        /\ s["maritalStatus"] = "Married" => r["marriedSince"] = s["marriedSince"]
    BY <2>1, <2>2 DEF Household!SaveMarital, MaritalAgain, Agrees
  <2>4. s["maritalStatus"] # "Married" => s["marriedSince"] = Unset
    BY DEF Household!NoOrphans
  <2>5. QED BY <2>3, <2>4 DEF r
<1>4. CASE p = 3
  <2>1. HealthInsured(s, g, s) /\ SociallyInsured(s, g, s) /\ Uninsured(s, g, s)
    BY <1>4 DEF HouseholdFits, InsuranceAgain
  <2>2. r = Household!SaveInsurance(g)
    BY <1>4 DEF Household!Payload
  <2> HIDE DEF r
  <2>3. /\ DOMAIN r = {"socialSecurityType", "healthInsuranceStatus"}
        /\ r["socialSecurityType"] =
             IF g["checkNone"] = "yes" \/ g["checkSocial"] = "no" THEN "None" ELSE g["socialSecurityType"]
        /\ r["healthInsuranceStatus"] =
             IF g["checkNone"] = "yes" \/ g["checkHealth"] = "no" THEN Unset ELSE g["healthInsuranceStatus"]
    BY <2>2 DEF Household!SaveInsurance
  <2> DEFINE says == Household!ServerSays(s)
  <2>4. /\ s["healthInsuranceStatus"] # Unset => says["checkHealth"] = "yes" /\ says["checkNone"] = "no"
        /\ s["socialSecurityType"] \notin {Unset, "None"} => says["checkSocial"] = "yes" /\ says["checkNone"] = "no"
        /\ s["socialSecurityType"] = "None" => says["checkSocial"] = "no"
        /\ s["socialSecurityType"] = "None" /\ s["healthInsuranceStatus"] = Unset => says["checkNone"] = "yes"
    BY DEF Household!ServerSays, Household!Fields, Household!StoredFields, Household!IsSet
  <2> HIDE DEF says
  <2>5. s["healthInsuranceStatus"] # Unset =>
          g["checkHealth"] # "no" /\ g["checkNone"] # "yes" /\ g["healthInsuranceStatus"] = s["healthInsuranceStatus"]
    BY <2>1, <2>4 DEF HealthInsured, Unticked, Agrees, says
  <2>6. s["socialSecurityType"] \notin {Unset, "None"} =>
          g["checkSocial"] # "no" /\ g["checkNone"] # "yes" /\ g["socialSecurityType"] = s["socialSecurityType"]
    BY <2>1, <2>4 DEF SociallyInsured, Unticked, Agrees, says
  <2>7. s["socialSecurityType"] = "None" =>
          g["checkSocial"] = "no" \/ g["checkNone"] = "yes" \/ g["socialSecurityType"] = "None"
    BY <2>1, <2>4 DEF Uninsured, Ticked, Agrees, says
  <2>8. /\ s["healthInsuranceStatus"] # Unset => r["healthInsuranceStatus"] = s["healthInsuranceStatus"]
        /\ s["socialSecurityType"] # Unset => r["socialSecurityType"] = s["socialSecurityType"]
    BY <2>3, <2>5, <2>6, <2>7
  <2>9. QED BY <2>3, <2>8 DEF r
<1>5. QED BY <1>1, <1>2, <1>3, <1>4

LEMMA HouseholdSettles ==
  ASSUME view = "household", NEW s, s = stored, NEW g, g = form, NEW alone \in BOOLEAN, ~behind => alone,
         Household!NoOrphans(s), HouseholdFits(s, g, s, {}, alone)
  PROVE  ScreenIsStored(AgreeingPages)
<1>1. ASSUME NEW p \in AgreeingPages
      PROVE  \A f \in DOMAIN Household!Payload(g, p) : s[f] # Unset => Household!Payload(g, p)[f] = s[f]
  <2>1. p \in {1, 4} \/ (p \in {3, 5} /\ alone)
    BY <1>1 DEF AgreeingPages
  <2>2. QED BY <2>1, HouseholdRepeats
<1>2. \A p : ToSet(Requests(form, p)) = {Household!Payload(g, p)}
  <2> SUFFICES ASSUME NEW p PROVE ToSet(Requests(form, p)) = {Household!Payload(g, p)}
    OBVIOUS
  <2>1. Requests(form, p) = <<Household!Payload(g, p)>>
    BY DEF Requests
  <2>2. QED BY <2>1 DEF ToSet
<1>3. QED BY <1>1, <1>2 DEF ScreenIsStored

-----------------------------------------------------------------------------
(* About the user.                                                         *)

LEMMA AboutMeDrifts ==
  ASSUME view = "aboutMe", NEW t, NEW u, NEW g, NEW l, NEW open, NEW more, more \subseteq AllPages,
         NEW alone \in BOOLEAN, Drifts(view, t, u, open, more), AboutMeFits(t, g, l, open, alone)
  PROVE  AboutMeFits(u, g, l, more, alone)
<1>0. more \subseteq 1..6 /\ Drifts("aboutMe", t, u, open, more)
  BY DEF AllPages
<1>1. ASSUME NEW p \in {1, 2, 3, 6}, p \notin more, NEW f \in AboutMeFields(p) PROVE u[f] = t[f]
  <2>1. f \in SectionFields("aboutMe")
    BY <1>1 DEF AboutMeFields, SectionFields, AboutMe!StoredFields
  <2>2. ASSUME NEW q \in more, f \in AboutMeFields(q) PROVE q = p
    <3>1. q \in {1, 2, 3, 4, 5, 6}
      BY <1>0, <2>2
    <3>2. QED BY <1>1, <2>2, <3>1 DEF AboutMeFields
  <2>3. QED BY <1>0, <1>1, <2>1, <2>2 DEF Drifts, PageFields
<1>2. open \subseteq more
  BY DEF Drifts
<1>3. 1 \in more \/ Agrees(u, g, l, "name")
  BY <1>1, <1>2 DEF AboutMeFits, Agrees, AboutMeFields
<1>4. 2 \in more \/ Agrees(u, g, l, "birth")
  BY <1>1, <1>2 DEF AboutMeFits, Agrees, AboutMeFields
<1>5. 3 \in more \/ Agrees(u, g, l, "legalGender") \/ g["legalGender"] = Unset
  BY <1>1, <1>2 DEF AboutMeFits, Agrees, AboutMeFields
<1>6. alone => 6 \in more \/ CitizenAgain(u, g, l)
  <2>1. 6 \notin more => u["citizenship"] = t["citizenship"] /\ u["nationality"] = t["nationality"]
    BY <1>1 DEF AboutMeFields
  <2>2. QED BY <1>2, <2>1 DEF AboutMeFits, CitizenAgain, Agrees
<1>7. QED BY <1>3, <1>4, <1>5, <1>6 DEF AboutMeFits

LEMMA AboutMeEdited ==
  ASSUME view = "aboutMe", NEW t, NEW g, DOMAIN g = DOMAIN FormAtMount(view, extracted), NEW l, NEW open,
         NEW alone \in BOOLEAN, NEW p \in AllPages, NEW e,
         e \in EditsOf(g, p) \/ (p = 3 /\ e \in AboutMe!Page3Gender(g)),
         AboutMeFits(t, g, l, open, alone)
  PROVE  AboutMeFits(t, e, l, open \cup {p}, alone)
<1>0. AllPages = 1..6 /\ Merging /\ \A q : InputsOf(q) = AboutMe!Inputs(q)
  BY DEF AllPages, Merging, InputsOf
<1>1. ASSUME NEW q \in 1..6, q \notin open \cup {p}, NEW i \in AboutMe!Inputs(q) PROVE e[i] = g[i]
  BY <1>0, <1>1, OtherInputsStay
<1>2. 1 \in open \cup {p} \/ Agrees(t, e, l, "name")
  BY <1>1 DEF AboutMeFits, Agrees, AboutMe!Inputs
<1>3. 2 \in open \cup {p} \/ Agrees(t, e, l, "birth")
  BY <1>1 DEF AboutMeFits, Agrees, AboutMe!Inputs
<1>4. 3 \in open \cup {p} \/ Agrees(t, e, l, "legalGender") \/ e["legalGender"] = Unset
  BY <1>1 DEF AboutMeFits, Agrees, AboutMe!Inputs
<1>5. alone => 6 \in open \cup {p} \/ CitizenAgain(t, e, l)
  <2>1. 6 \notin open \cup {p} => e["citizenship"] = g["citizenship"] /\ e["nationality"] = g["nationality"]
    BY <1>1 DEF AboutMe!Inputs
  <2>2. QED BY <2>1 DEF AboutMeFits, CitizenAgain, Agrees
<1>6. QED BY <1>2, <1>3, <1>4, <1>5 DEF AboutMeFits

LEMMA AboutMeSaved ==
  ASSUME view = "aboutMe", NEW s, NEW g, NEW l, NEW more, NEW p \in AllPages, NEW less, less = more \ {p},
         NEW alone \in BOOLEAN, NEW t, t = Merge(s, AboutMe!Payload(g, p)), AboutMeFits(t, g, l, more, alone)
  PROVE  AboutMeFits(t, g, l, less, alone)
<1> USE DEF Unset, AboutMe!Unset
<1> DEFINE r == AboutMe!Payload(g, p)
<1>0. p \in 1..6
  BY DEF AllPages
<1>1. \A f \in DOMAIN r : t[f] = r[f]
  BY DEF Merge
<1>2. p = 1 => Agrees(t, g, l, "name")
  <2>1. p = 1 => r = AboutMe!SaveName(g)
    BY DEF AboutMe!Payload
  <2> HIDE DEF r
  <2>2. p = 1 => DOMAIN r = {"name"} /\ r["name"] = g["name"]
    BY <2>1 DEF AboutMe!SaveName, AboutMe!Restrict
  <2>3. QED BY <1>1, <2>2 DEF Agrees
<1>3. p = 2 => Agrees(t, g, l, "birth")
  <2>1. p = 2 => r = AboutMe!SaveBirth(g)
    BY DEF AboutMe!Payload
  <2> HIDE DEF r
  <2>2. p = 2 => DOMAIN r = {"birth"} /\ r["birth"] = g["birth"]
    BY <2>1 DEF AboutMe!SaveBirth, AboutMe!Restrict
  <2>3. QED BY <1>1, <2>2 DEF Agrees
<1>4. p = 3 => Agrees(t, g, l, "legalGender") \/ g["legalGender"] = Unset
  <2>1. p = 3 => r = AboutMe!SaveGender(g)
    BY DEF AboutMe!Payload
  <2> HIDE DEF r
  <2>2. p = 3 /\ g["legalGender"] # Unset => "legalGender" \in DOMAIN r /\ r["legalGender"] = g["legalGender"]
    BY <2>1 DEF AboutMe!SaveGender, AboutMe!Restrict
  <2>3. QED BY <1>1, <2>2 DEF Agrees
<1>5. p = 6 => CitizenAgain(t, g, l)
  <2>1. p = 6 => r = AboutMe!SaveCitizenship(g)
    BY DEF AboutMe!Payload
  <2> HIDE DEF r
  <2>2. p = 6 => /\ DOMAIN r = {"citizenship", "nationality"} /\ r["citizenship"] = g["citizenship"]
                 /\ g["citizenship"] \notin {"german", Unset} => r["nationality"] = g["nationality"]
    BY <2>1 DEF AboutMe!SaveCitizenship
  <2>3. QED BY <1>1, <2>2 DEF CitizenAgain, Agrees
<1> HIDE DEF r
<1>6. QED BY <1>0, <1>2, <1>3, <1>4, <1>5 DEF AboutMeFits

\* The first profile.
LEMMA AboutMeHydrated ==
  ASSUME view = "aboutMe", NEW t, NEW x, AboutMe!CitizenshipFits(x), NEW g, g = AboutMe!Hydrate(x, extracted),
         NEW alone \in BOOLEAN
  PROVE  AboutMeFits(t, g, x, Guessed(g, x), alone)
<1>1. ASSUME NEW p \in {1, 2, 3, 6}, NEW f \in AboutMe!Inputs(p) PROVE p \in Guessed(g, x) \/ g[f] = Says(x, f)
  <2>1. p \in AllPages /\ f \in InputsOf(p)
    BY <1>1 DEF AllPages, InputsOf
  <2>2. QED BY <2>1, AboutMeArrives
<1>2. \A f \in {"name", "birth", "legalGender", "citizenship", "nationality"} : Says(x, f) = x[f]
  BY DEF Says, AboutMe!Compared, AboutMe!CitizenshipFits, AboutMe!Or
<1>3. /\ 1 \in Guessed(g, x) \/ g["name"] = x["name"]
      /\ 2 \in Guessed(g, x) \/ g["birth"] = x["birth"]
      /\ 3 \in Guessed(g, x) \/ g["legalGender"] = x["legalGender"]
      /\ 6 \in Guessed(g, x) \/ g["citizenship"] = x["citizenship"] 
      /\ 6 \in Guessed(g, x) \/ g["nationality"] = x["nationality"] 
  BY <1>1, <1>2 DEF AboutMe!Inputs
<1>4. QED BY <1>3 DEF AboutMeFits, CitizenAgain, Agrees

\* Only the page of the citizenship asks for answers.
LEMMA PersonReady ==
  ASSUME NEW h, NEW p, p # 6
  PROVE  AboutMe!Ready(h, p)
BY DEF AboutMe!Ready

\* The name, the birth and the gender as the next profile has them.
LEMMA PersonPage ==
  ASSUME view = "aboutMe", NEW p \in {1, 2, 3}, NEW f,
         f = (CASE p = 1 -> "name" [] p = 2 -> "birth" [] p = 3 -> "legalGender"), NEW h
  PROVE  \E r : /\ Requests(h, p) = <<r>> /\ DOMAIN r \subseteq {f}
                /\ h[f] # Unset => f \in DOMAIN r /\ r[f] = h[f]
<1> USE DEF Unset, AboutMe!Unset
<1> DEFINE r == AboutMe!Payload(h, p)
<1>1. Requests(h, p) = <<r>>
  BY DEF Requests
<1>2. CASE p \in {1, 2}
  <2>1. r = AboutMe!Restrict(h, {f})
    BY <1>2 DEF AboutMe!Payload, AboutMe!SaveName, AboutMe!SaveBirth
  <2> HIDE DEF r
  <2>2. DOMAIN r = {f} /\ r[f] = h[f]
    BY <2>1 DEF AboutMe!Restrict
  <2>3. QED BY <1>1, <2>2
<1>3. CASE p = 3
  <2>1. r = AboutMe!SaveGender(h) /\ f = "legalGender"
    BY <1>3 DEF AboutMe!Payload
  <2> HIDE DEF r
  <2>2. /\ DOMAIN r \subseteq {f}
        /\ h[f] # Unset => f \in DOMAIN r /\ r[f] = h[f]
    BY <2>1 DEF AboutMe!SaveGender, AboutMe!Restrict
  <2>3. QED BY <1>1, <2>2
<1>4. QED BY <1>2, <1>3

LEMMA PersonSynced ==
  ASSUME view = "aboutMe", NEW t, NEW x, NEW g, g = form, NEW l, l = loaded,
         NEW n, n = AboutMe!Sync(g, l, x, extracted),
         NEW p \in {1, 2, 3}, NEW f, f = (CASE p = 1 -> "name" [] p = 2 -> "birth" [] p = 3 -> "legalGender"),
         Agrees(t, g, l, f) \/ (p = 3 /\ g[f] = Unset),
         p \notin NewlyGuessed(n, x)
  PROVE  Agrees(t, n, x, f) \/ (p = 3 /\ n[f] = Unset)
<1> USE DEF AboutMe!Unset
<1>0. f \in {"name", "birth", "legalGender"} /\ f \in AboutMe!Fields
  BY DEF AboutMe!Fields
<1>1. n[f] = IF x[f] # l[f] /\ g[f] \in {l[f], x[f]}
             THEN AboutMe!Or(x[f], AboutMe!Ocr(extracted, f)) ELSE g[f]
  <2>1. /\ ~AboutMe!Keeps(x, f) /\ AboutMe!Compared(l, f) = l[f] /\ AboutMe!ComparedNow(x, extracted, f) = x[f]
        /\ AboutMe!Synced(x, extracted, f) = AboutMe!Or(x[f], AboutMe!Ocr(extracted, f))
    <3>1. ~AboutMe!Keeps(x, f)
      BY <1>0 DEF AboutMe!Keeps
    <3>2. \A y : AboutMe!Compared(y, f) = y[f]
      BY <1>0 DEF AboutMe!Compared
    <3>3. AboutMe!ComparedNow(x, extracted, f) = x[f]
      BY <1>0, <3>2 DEF AboutMe!ComparedNow
    <3>4. AboutMe!Synced(x, extracted, f) = AboutMe!Or(x[f], AboutMe!Ocr(extracted, f))
      BY <1>0 DEF AboutMe!Synced
    <3>5. QED BY <3>1, <3>2, <3>3, <3>4
  <2>2. n[f] = IF ~AboutMe!Keeps(x, f) /\ AboutMe!ShouldUpdate(g[f], AboutMe!Compared(l, f), AboutMe!ComparedNow(x, extracted, f))
               THEN AboutMe!Synced(x, extracted, f) ELSE g[f]
    BY <1>0 DEF AboutMe!Sync
  <2>3. QED BY <2>1, <2>2 DEF AboutMe!ShouldUpdate
<1>2. CASE x[f] # l[f] /\ g[f] \in {l[f], x[f]} /\ x[f] = Unset /\ n[f] # Unset
  <2>1. p \in AllPages /\ Merging
    BY DEF AllPages, Merging
  <2>2. IsReady(n, p)
    <3>1. AboutMe!Ready(n, p)
      <4>1. p # 6
        OBVIOUS
      <4>2. QED BY <4>1, PersonReady
    <3>2. QED BY <3>1 DEF IsReady
  <2>3. p \in Guessed(n, x)
    <3>1. PICK r : Requests(n, p) = <<r>> /\ f \in DOMAIN r /\ r[f] = n[f]
      BY <1>2, PersonPage
    <3>2. QED BY <1>2, <2>1, <2>2, <3>1, GuessedBy
  <2>4. p \notin Guessed(g, l)
    <3>1. PICK r : Requests(g, p) = <<r>> /\ DOMAIN r \subseteq {f}
      BY PersonPage
    <3>2. \A i \in DOMAIN r : l[i] = Unset => r[i] = Unset
      BY <1>2, <3>1
    <3>3. QED BY <3>1, <3>2, NotGuessedBy
  <2>5. QED BY <2>3, <2>4 DEF NewlyGuessed
<1>3. CASE ~(x[f] # l[f] /\ g[f] \in {l[f], x[f]} /\ x[f] = Unset /\ n[f] # Unset)
  BY <1>1, <1>3 DEF Agrees, AboutMe!Or, Unset
<1>4. QED BY <1>2, <1>3

\* What the page of the citizenship sends.
LEMMA CitizenPage ==
  ASSUME view = "aboutMe", NEW h
  PROVE  \E r : /\ Requests(h, 6) = <<r>> /\ DOMAIN r = {"citizenship", "nationality"}
                /\ r["citizenship"] = h["citizenship"]
                /\ h["citizenship"] = "german" => r["nationality"] = "DE"
                /\ h["citizenship"] = Unset => r["nationality"] = Unset
                /\ h["citizenship"] \notin {"german", Unset} => r["nationality"] = h["nationality"]
<1> USE DEF Unset, AboutMe!Unset
<1> DEFINE r == AboutMe!SaveCitizenship(h)
<1>1. Requests(h, 6) = <<r>>
  BY DEF Requests, AboutMe!Payload
<1>2. DOMAIN r = {"citizenship", "nationality"} /\ r["citizenship"] = h["citizenship"]
  BY DEF AboutMe!SaveCitizenship
<1>3. h["citizenship"] = "german" => r["nationality"] = "DE"
  BY DEF AboutMe!SaveCitizenship
<1>4. h["citizenship"] = Unset => r["nationality"] = Unset
  BY DEF AboutMe!SaveCitizenship
<1>5. h["citizenship"] \notin {"german", Unset} => r["nationality"] = h["nationality"]
  BY DEF AboutMe!SaveCitizenship
<1> HIDE DEF r
<1>6. QED BY <1>1, <1>2, <1>3, <1>4, <1>5

\* The page of the citizenship: without an answer in the next profile it is guessed, and the
\* nationality with it.
LEMMA CitizenSynced ==
  ASSUME view = "aboutMe", NEW t, NEW x, AboutMe!CitizenshipFits(x),
         NEW g, g = form, g["citizenship"] \in Citizenships, NEW l, l = loaded, AboutMe!CitizenshipFits(l),
         NEW n, n = AboutMe!Sync(g, l, x, extracted),
         CitizenAgain(t, g, l), 6 \notin NewlyGuessed(n, x)
  PROVE  CitizenAgain(t, n, x)
<1> USE DEF Unset, AboutMe!Unset
<1> DEFINE cit == "citizenship"
           nat == "nationality"
           status == AboutMe!StatusOption(x[cit], AboutMe!IsGerman(x, extracted))
           value == AboutMe!Or(x[nat], IF status = "german" THEN "DE" ELSE Unset)
<1>1. /\ (l[cit] = Unset <=> l[nat] = Unset) /\ (l[cit] = "german" => l[nat] = "DE")
      /\ (x[cit] = Unset <=> x[nat] = Unset) /\ (x[cit] = "german" => x[nat] = "DE")
  BY DEF AboutMe!CitizenshipFits
<1>2. /\ n[cit] = IF status # l[cit] /\ g[cit] \in {l[cit], status} THEN status ELSE g[cit]
      /\ n[nat] = IF value # l[nat] /\ g[nat] \in {l[nat], value} THEN value ELSE g[nat]
  <2>1. cit \in AboutMe!Fields /\ nat \in AboutMe!Fields /\ ~AboutMe!Keeps(x, cit) /\ ~AboutMe!Keeps(x, nat)
    BY DEF AboutMe!Fields, AboutMe!Keeps
  <2>2. AboutMe!Compared(l, cit) = l[cit] /\ AboutMe!Compared(l, nat) = l[nat]
    BY <1>1 DEF AboutMe!Compared, AboutMe!Or
  <2>3. /\ AboutMe!ComparedNow(x, extracted, cit) = status /\ AboutMe!Synced(x, extracted, cit) = status
        /\ AboutMe!ComparedNow(x, extracted, nat) = value /\ AboutMe!Synced(x, extracted, nat) = value
    BY DEF AboutMe!ComparedNow, AboutMe!Synced
  <2> HIDE DEF status, value, cit, nat
  <2>4. \A f \in AboutMe!Fields : ~AboutMe!Keeps(x, f) =>
          n[f] = IF AboutMe!ShouldUpdate(g[f], AboutMe!Compared(l, f), AboutMe!ComparedNow(x, extracted, f))
                 THEN AboutMe!Synced(x, extracted, f) ELSE g[f]
    BY DEF AboutMe!Sync
  <2>5. QED BY <2>1, <2>2, <2>3, <2>4 DEF AboutMe!ShouldUpdate
<1>3. /\ status = IF x[cit] = Unset /\ status = "german" THEN "german" ELSE x[cit]
      /\ value = IF x[nat] # Unset THEN x[nat] ELSE IF status = "german" THEN "DE" ELSE Unset
  BY DEF AboutMe!StatusOption, AboutMe!Or
<1>4. /\ g[cit] = t[cit] \/ g[cit] = l[cit]
      /\ t[cit] \notin {"german", Unset} => g[nat] = t[nat] \/ g[nat] = l[nat]
  BY DEF CitizenAgain, Agrees
<1>5. ASSUME NEW h
      PROVE  \E r : /\ Requests(h, 6) = <<r>> /\ DOMAIN r = {cit, nat} /\ r[cit] = h[cit]
                    /\ h[cit] = "german" => r[nat] = "DE"
                    /\ h[cit] = Unset => r[nat] = Unset
                    /\ h[cit] \notin {"german", Unset} => r[nat] = h[nat]
  BY CitizenPage
<1> HIDE DEF status, value, cit, nat
\* What is guessed is on the screen.
<1>6. ASSUME x[cit] = Unset, n[cit] = "german" \/ (n[cit] \in {"eu_5", "permit"} /\ n[nat] # Unset)
      PROVE  6 \in Guessed(n, x)
  <2>1. AboutMe!Ready(n, 6)
    BY <1>6 DEF AboutMe!Ready, cit, nat
  <2>2. 6 \in AllPages /\ Merging
    BY DEF AllPages, Merging
  <2>3. IsReady(n, 6)
    BY <2>1 DEF IsReady
  <2>4. PICK r : Requests(n, 6) = <<r>> /\ cit \in DOMAIN r /\ r[cit] = n[cit]
    BY <1>5
  <2>5. n[cit] # Unset
    BY <1>6
  <2>6. QED BY <1>6, <2>2, <2>3, <2>4, <2>5, GuessedBy
<1>7. 6 \in Guessed(n, x) => 6 \in Guessed(g, l) /\ Requests(n, 6) = Requests(g, 6)
  BY DEF NewlyGuessed
<1>8. l[cit] # Unset => 6 \notin Guessed(g, l)
  <2> SUFFICES ASSUME l[cit] # Unset PROVE 6 \notin Guessed(g, l)
    OBVIOUS
  <2>1. PICK r : Requests(g, 6) = <<r>> /\ DOMAIN r = {cit, nat}
    BY <1>5
  <2>2. \A i \in DOMAIN r : l[i] = Unset => r[i] = Unset
    BY <1>1, <2>1
  <2>3. QED BY <2>1, <2>2, NotGuessedBy
<1>9. g[cit] \in Citizenships /\ (n[cit] = g[cit] \/ n[cit] = status)
  BY <1>2 DEF cit
<1>10. CASE status = x[cit] /\ value = x[nat]
  <2>1. n[cit] = t[cit] \/ n[cit] = x[cit]
    BY <1>2, <1>4, <1>10
  <2>2. t[cit] \notin {"german", Unset} => n[nat] = t[nat] \/ n[nat] = x[nat]
    BY <1>2, <1>4, <1>10
  <2>3. QED BY <2>1, <2>2 DEF CitizenAgain, Agrees, cit, nat
<1>11. CASE x[cit] = Unset /\ x[nat] = Unset /\ status = "german" /\ value = "DE"
  <2>1. g[cit] \in {Unset, "german", "eu_5", "permit"}
    BY DEF Citizenships, cit
  <2>2. PICK q : /\ Requests(n, 6) = <<q>> /\ q[cit] = n[cit]
                 /\ n[cit] = "german" => q[nat] = "DE"
                 /\ n[cit] = Unset => q[nat] = Unset
                 /\ n[cit] \notin {"german", Unset} => q[nat] = n[nat]
    BY <1>5
  <2>3. PICK r : /\ Requests(g, 6) = <<r>> /\ r[cit] = g[cit]
                 /\ g[cit] = "german" => r[nat] = "DE"
                 /\ g[cit] = Unset => r[nat] = Unset
                 /\ g[cit] \notin {"german", Unset} => r[nat] = g[nat]
    BY <1>5
  <2>4. 6 \in Guessed(n, x) => l[cit] = Unset /\ n[cit] = g[cit] /\ q[nat] = r[nat]
    <3> HAVE 6 \in Guessed(n, x)
    <3>1. 6 \in Guessed(g, l) /\ Requests(n, 6) = Requests(g, 6)
      BY <1>7
    <3>2. <<q>> = <<r>>
      BY <2>2, <2>3, <3>1
    <3>3. q = r
      BY <3>2
    <3>4. QED BY <1>8, <2>2, <2>3, <3>1, <3>3
  <2>5. n[cit] = "german" => g[cit] = "german" /\ l[cit] = Unset
    BY <1>6, <1>11, <2>4
  <2>6. n[cit] = t[cit] \/ n[cit] = x[cit]
    BY <1>2, <1>4, <1>11, <2>5
  <2>7. ASSUME t[cit] \notin {"german", Unset} PROVE n[nat] = t[nat] \/ n[nat] = x[nat]
    <3>1. CASE n[cit] = Unset
      \* It stays unanswered only where a profile had another answer before.
      BY <1>1, <1>2, <1>4, <1>11, <2>1, <2>5, <2>7, <3>1
    <3>2. CASE n[cit] \in {"eu_5", "permit"} /\ n[nat] # Unset
      <4>1. l[cit] = Unset /\ n[cit] = g[cit] /\ q[nat] = r[nat]
        BY <1>6, <1>11, <2>4, <3>2
      <4>2. n[nat] = g[nat] /\ l[nat] = Unset
        BY <1>1, <2>2, <2>3, <3>2, <4>1
      <4>3. QED BY <1>4, <1>11, <2>7, <3>2, <4>2
    <3>3. CASE n[cit] \in {"eu_5", "permit"} /\ n[nat] = Unset
      BY <1>11, <3>3
    <3>4. CASE n[cit] = "german"
      BY <1>2, <1>4, <1>11, <2>5, <2>6, <2>7, <3>4
    <3>5. QED BY <1>9, <1>11, <2>1, <3>1, <3>2, <3>3, <3>4
  <2>8. QED BY <2>6, <2>7 DEF CitizenAgain, Agrees, cit, nat
<1>12. QED BY <1>1, <1>3, <1>10, <1>11

LEMMA AboutMeSynced ==
  ASSUME view = "aboutMe", NEW t, NEW x, AboutMe!CitizenshipFits(x), NEW alone \in BOOLEAN, NEW open,
         NEW g, g = form, g["citizenship"] \in Citizenships, NEW l, l = loaded, AboutMe!CitizenshipFits(l),
         NEW n, n = AboutMe!Sync(g, l, x, extracted), AboutMeFits(t, g, l, open, alone)
  PROVE  AboutMeFits(t, n, x, open \cup NewlyGuessed(n, x), alone)
<1>1. ASSUME NEW p \in {1, 2, 3}, NEW f,
             f = (CASE p = 1 -> "name" [] p = 2 -> "birth" [] p = 3 -> "legalGender"),
             Agrees(t, g, l, f) \/ (p = 3 /\ g[f] = Unset),
             p \notin NewlyGuessed(n, x)
      PROVE  Agrees(t, n, x, f) \/ (p = 3 /\ n[f] = Unset)
  BY <1>1, PersonSynced
<1>2. 1 \in open \cup NewlyGuessed(n, x) \/ Agrees(t, n, x, "name")
  <2> SUFFICES ASSUME NEW p, p = 1, NEW f, f = "name", p \notin open, p \notin NewlyGuessed(n, x)
               PROVE  Agrees(t, n, x, f)
    OBVIOUS
  <2>1. f = (CASE p = 1 -> "name" [] p = 2 -> "birth" [] p = 3 -> "legalGender")
    OBVIOUS
  <2>2. Agrees(t, g, l, f)
    BY DEF AboutMeFits
  <2>3. QED BY <1>1, <2>1, <2>2
<1>3. 2 \in open \cup NewlyGuessed(n, x) \/ Agrees(t, n, x, "birth")
  <2> SUFFICES ASSUME NEW p, p = 2, NEW f, f = "birth", p \notin open, p \notin NewlyGuessed(n, x)
               PROVE  Agrees(t, n, x, f)
    OBVIOUS
  <2>1. f = (CASE p = 1 -> "name" [] p = 2 -> "birth" [] p = 3 -> "legalGender")
    OBVIOUS
  <2>2. Agrees(t, g, l, f)
    BY DEF AboutMeFits
  <2>3. QED BY <1>1, <2>1, <2>2
<1>4. 3 \in open \cup NewlyGuessed(n, x) \/ Agrees(t, n, x, "legalGender") \/ n["legalGender"] = Unset
  <2> SUFFICES ASSUME NEW p, p = 3, NEW f, f = "legalGender", p \notin open, p \notin NewlyGuessed(n, x)
               PROVE  Agrees(t, n, x, f) \/ n[f] = Unset
    OBVIOUS
  <2>1. f = (CASE p = 1 -> "name" [] p = 2 -> "birth" [] p = 3 -> "legalGender")
    OBVIOUS
  <2>2. Agrees(t, g, l, f) \/ g[f] = Unset
    BY DEF AboutMeFits
  <2>3. QED BY <1>1, <2>1, <2>2
<1>5. ASSUME CitizenAgain(t, g, l), 6 \notin NewlyGuessed(n, x) PROVE CitizenAgain(t, n, x)
  BY <1>5, CitizenSynced
<1>6. alone => 6 \in open \cup NewlyGuessed(n, x) \/ CitizenAgain(t, n, x)
  BY <1>5 DEF AboutMeFits
<1>7. QED BY <1>2, <1>3, <1>4, <1>6 DEF AboutMeFits

LEMMA AboutMeChanged ==
  ASSUME NEW t, NEW g, NEW l, NEW open, NEW alone \in BOOLEAN, AboutMeFits(l, g, l, open, alone)
  PROVE  AboutMeFits(t, g, l, open, FALSE)
  BY DEF AboutMeFits, Agrees

LEMMA AboutMeRepeats ==
  ASSUME NEW s, NEW g, NEW alone \in BOOLEAN, AboutMe!CitizenshipFits(s), AboutMeFits(s, g, s, {}, alone),
         NEW p, p \in {1, 2, 3} \/ (p = 6 /\ alone)
  PROVE  \A f \in DOMAIN AboutMe!Payload(g, p) : s[f] # Unset => AboutMe!Payload(g, p)[f] = s[f]
<1> USE DEF Unset, AboutMe!Unset
<1> DEFINE r == AboutMe!Payload(g, p)
<1>1. CASE p = 1
  <2>1. r = AboutMe!SaveName(g)
    BY <1>1 DEF AboutMe!Payload
  <2> HIDE DEF r
  <2>2. g["name"] = s["name"]
    BY <1>1 DEF AboutMeFits, Agrees
  <2>3. DOMAIN r \subseteq {"name"} /\ (\A f \in DOMAIN r : r[f] = g[f])
    BY <2>1 DEF AboutMe!SaveName, AboutMe!Restrict
  <2>4. QED BY <2>2, <2>3 DEF r
<1>2. CASE p = 2
  <2>1. r = AboutMe!SaveBirth(g)
    BY <1>2 DEF AboutMe!Payload
  <2> HIDE DEF r
  <2>2. g["birth"] = s["birth"]
    BY <1>2 DEF AboutMeFits, Agrees
  <2>3. DOMAIN r \subseteq {"birth"} /\ (\A f \in DOMAIN r : r[f] = g[f])
    BY <2>1 DEF AboutMe!SaveBirth, AboutMe!Restrict
  <2>4. QED BY <2>2, <2>3 DEF r
<1>3. CASE p = 3
  <2>1. r = AboutMe!SaveGender(g)
    BY <1>3 DEF AboutMe!Payload
  <2> HIDE DEF r
  <2>2. g["legalGender"] = s["legalGender"] \/ g["legalGender"] = Unset
    BY <1>3 DEF AboutMeFits, Agrees
  <2>3. DOMAIN r \subseteq {"legalGender"} /\ (\A f \in DOMAIN r : r[f] = g[f]) /\ ("legalGender" \in DOMAIN r => g["legalGender"] # Unset)
    BY <2>1 DEF AboutMe!SaveGender, AboutMe!Restrict
  <2>4. QED BY <2>2, <2>3 DEF r
<1>4. CASE p = 6
  <2>1. CitizenAgain(s, g, s)
    <3>1. alone
      BY <1>4
    <3>2. QED BY <3>1 DEF AboutMeFits
  <2>2. r = AboutMe!SaveCitizenship(g)
    BY <1>4 DEF AboutMe!Payload
  <2> HIDE DEF r
  <2>3. DOMAIN r = {"citizenship", "nationality"} /\ r["citizenship"] = g["citizenship"]
    BY <2>2 DEF AboutMe!SaveCitizenship
  <2>4. g["citizenship"] = "german" => r["nationality"] = "DE"
    BY <2>2 DEF AboutMe!SaveCitizenship
  <2>5. g["citizenship"] \notin {"german", Unset} => r["nationality"] = g["nationality"]
    BY <2>2 DEF AboutMe!SaveCitizenship
  <2>6. /\ s["citizenship"] = Unset => s["nationality"] = Unset
        /\ s["citizenship"] = "german" => s["nationality"] = "DE"
    BY DEF AboutMe!CitizenshipFits
  <2>7. /\ g["citizenship"] = s["citizenship"]
        /\ s["citizenship"] \notin {"german", Unset} => g["nationality"] = s["nationality"]
    BY <2>1 DEF CitizenAgain, Agrees
  <2>8. s["nationality"] # Unset => r["nationality"] = s["nationality"]
    BY <2>4, <2>5, <2>6, <2>7
  <2>9. QED BY <2>3, <2>7, <2>8 DEF r
<1>5. QED BY <1>1, <1>2, <1>3, <1>4

LEMMA AboutMeSettles ==
  ASSUME view = "aboutMe", NEW s, s = stored, NEW g, g = form, NEW alone \in BOOLEAN, ~behind => alone,
         AboutMe!CitizenshipFits(s), AboutMeFits(s, g, s, {}, alone)
  PROVE  ScreenIsStored(AgreeingPages)
<1>1. ASSUME NEW p \in AgreeingPages
      PROVE  \A f \in DOMAIN AboutMe!Payload(g, p) : s[f] # Unset => AboutMe!Payload(g, p)[f] = s[f]
  <2>1. p \in {1, 2, 3} \/ (p = 6 /\ alone)
    BY <1>1 DEF AgreeingPages
  <2>2. QED BY <2>1, AboutMeRepeats
<1>2. \A p : ToSet(Requests(form, p)) = {AboutMe!Payload(g, p)}
  <2> SUFFICES ASSUME NEW p PROVE ToSet(Requests(form, p)) = {AboutMe!Payload(g, p)}
    OBVIOUS
  <2>1. Requests(form, p) = <<AboutMe!Payload(g, p)>>
    BY DEF Requests
  <2>2. QED BY <2>1 DEF ToSet
<1>3. QED BY <1>1, <1>2 DEF ScreenIsStored

-----------------------------------------------------------------------------
(* The income.                                                             *)

\* The fields of the form, and the options chosen on its two pages.
IncomeForm(g) ==
    /\ DOMAIN g = {"texts", "pensions", "others", "amounts"}
    /\ DOMAIN g.texts = Income!Shared \cup {"employmentType", "employmentAmount"}
    /\ DOMAIN g.amounts = Income!PensionLines \cup Income!OtherLines
    /\ g.pensions \subseteq Income!PensionLines \cup {"none"}
    /\ g.others \subseteq Income!OtherLines \cup {"none"}

\* What a page shows.
PageTexts(p) ==
    CASE p = 1 -> {"awaiting", "awaitingDetails"} [] p = 2 -> {"previous", "previousDetails"}
      [] p = 4 -> {"employmentType", "employmentAmount", "employer"}
      [] p = 6 -> {"oneTime", "oneTimeDetails", "oneTimeAmount"} [] p = 7 -> {"bank", "iban"}
      [] OTHER -> {}
SameLines(e, g, lines) == \A l \in lines : e.amounts[l] = g.amounts[l]
SamePage(e, g, p) ==
    /\ \A f \in PageTexts(p) : e.texts[f] = g.texts[f]
    /\ p = 3 => e.pensions = g.pensions /\ SameLines(e, g, Income!PensionLines)
    /\ p = 5 => e.others = g.others /\ SameLines(e, g, Income!OtherLines)

TypesInto(e, g, field) == \E values : e \in Income!Texts(g, field, values)

LEMMA TextEdited ==
  ASSUME NEW g, IncomeForm(g), NEW field, field \in DOMAIN g.texts, NEW values,
         NEW e, e \in Income!Texts(g, field, values)
  PROVE  /\ IncomeForm(e)
         /\ \A p \in 1..7 : field \notin PageTexts(p) => SamePage(e, g, p)
<1>1. PICK v : e = [g EXCEPT !.texts[field] = v]
  BY DEF Income!Texts
<1>2. /\ DOMAIN e = DOMAIN g /\ e.pensions = g.pensions /\ e.others = g.others /\ e.amounts = g.amounts
      /\ e.texts = [g.texts EXCEPT ![field] = v]
  BY <1>1 DEF IncomeForm
<1>3. IncomeForm(e)
  BY <1>2 DEF IncomeForm
<1>4. \A f \in DOMAIN g.texts : f # field => e.texts[f] = g.texts[f]
  BY <1>2
<1>5. ASSUME NEW p \in 1..7, field \notin PageTexts(p) PROVE SamePage(e, g, p)
  <2>1. PageTexts(p) \subseteq DOMAIN g.texts
    <3>1. p \in {1, 2, 3, 4, 5, 6, 7}
      OBVIOUS
    <3>2. DOMAIN g.texts = Income!Shared \cup {"employmentType", "employmentAmount"}
      BY DEF IncomeForm
    <3>3. QED BY <3>1, <3>2 DEF PageTexts, Income!Shared, Income!Details
  <2>2. \A f \in PageTexts(p) : e.texts[f] = g.texts[f]
    BY <1>4, <1>5, <2>1
  <2>3. QED BY <1>2, <2>2 DEF SamePage, SameLines
<1>6. QED BY <1>3, <1>5

LEMMA AmountEdited ==
  ASSUME NEW g, IncomeForm(g), NEW chosen, NEW lines, NEW p,
         \/ (p = 3 /\ chosen = g.pensions /\ lines = Income!PensionLines)
         \/ (p = 5 /\ chosen = g.others /\ lines = Income!OtherLines),
         NEW e, e \in Income!IncomeAmountField(g, chosen)
  PROVE  /\ IncomeForm(e)
         /\ \A q \in 1..7 : q # p => SamePage(e, g, q)
<1>1. PICK l, a : l \in chosen \ {"none"} /\ e = [g EXCEPT !.amounts[l] = a]
  BY DEF Income!IncomeAmountField
<1>2. /\ DOMAIN e = DOMAIN g /\ e.pensions = g.pensions /\ e.others = g.others /\ e.texts = g.texts
      /\ e.amounts = [g.amounts EXCEPT ![l] = a]
  BY <1>1 DEF IncomeForm
<1>3. l \in lines /\ l \in DOMAIN g.amounts
  BY <1>1 DEF IncomeForm
<1>4. IncomeForm(e)
  BY <1>2, <1>3 DEF IncomeForm
<1>5. \A i \in DOMAIN g.amounts : i # l => e.amounts[i] = g.amounts[i]
  BY <1>2
<1>6. /\ p # 3 => SameLines(e, g, Income!PensionLines)
      /\ p # 5 => SameLines(e, g, Income!OtherLines)
  <2>1. p # 3 => \A i \in Income!PensionLines : i # l /\ i \in DOMAIN g.amounts
    BY <1>3 DEF IncomeForm, Income!PensionLines, Income!OtherLines
  <2>2. p # 5 => \A i \in Income!OtherLines : i # l /\ i \in DOMAIN g.amounts
    BY <1>3 DEF IncomeForm, Income!PensionLines, Income!OtherLines
  <2>3. QED BY <1>5, <2>1, <2>2 DEF SameLines
<1>7. ASSUME NEW q \in 1..7, q # p PROVE SamePage(e, g, q)
  BY <1>2, <1>6, <1>7 DEF SamePage
<1>8. QED BY <1>4, <1>7

LEMMA OptionToggled ==
  ASSUME NEW chosen, NEW lines, chosen \subseteq lines \cup {"none"}, NEW o \in lines \cup {"none"}
  PROVE  Income!ToggleOption(chosen, o) \subseteq lines \cup {"none"}
  BY DEF Income!ToggleOption

\* An edit of a page changes what that page shows.
LEMMA IncomeChanges ==
  ASSUME NEW g, IncomeForm(g), NEW p \in 1..7, NEW e \in Income!Edits(g, p)
  PROVE  /\ IncomeForm(e)
         /\ \A q \in 1..7 : q # p => SamePage(e, g, q)
<1>0. DOMAIN g.texts = Income!Shared \cup {"employmentType", "employmentAmount"}
  BY DEF IncomeForm
<1>1. ASSUME NEW field \in PageTexts(p), TypesInto(e, g, field)
      PROVE  IncomeForm(e) /\ \A q \in 1..7 : q # p => SamePage(e, g, q)
  <2>1. p \in {1, 2, 3, 4, 5, 6, 7}
    OBVIOUS
  <2>2. field \in DOMAIN g.texts
    BY <1>0, <1>1, <2>1 DEF PageTexts, Income!Shared, Income!Details
  <2>3. \A q \in 1..7 : q # p => field \notin PageTexts(q)
    <3> SUFFICES ASSUME NEW q \in 1..7, q # p PROVE field \notin PageTexts(q)
      OBVIOUS
    <3>1. q \in {1, 2, 3, 4, 5, 6, 7}
      OBVIOUS
    <3>2. QED BY <1>1, <2>1, <3>1 DEF PageTexts
  <2>4. PICK values : e \in Income!Texts(g, field, values)
    BY <1>1 DEF TypesInto
  <2>5. QED BY <2>2, <2>3, <2>4, TextEdited
<1>2. CASE p = 3
  <2>1. \/ \E o \in Income!PensionLines \cup {"none"} :
             e = [g EXCEPT !.pensions = Income!ToggleOption(g.pensions, o)]
        \/ e \in Income!IncomeAmountField(g, g.pensions)
    BY <1>2 DEF Income!Edits, Income!PensionStep
  <2>2. ASSUME NEW o \in Income!PensionLines \cup {"none"},
               e = [g EXCEPT !.pensions = Income!ToggleOption(g.pensions, o)]
        PROVE  IncomeForm(e) /\ \A q \in 1..7 : q # p => SamePage(e, g, q)
    <3>1. /\ DOMAIN e = DOMAIN g /\ e.others = g.others /\ e.texts = g.texts /\ e.amounts = g.amounts
          /\ e.pensions = Income!ToggleOption(g.pensions, o)
      BY <2>2 DEF IncomeForm
    <3>2. e.pensions \subseteq Income!PensionLines \cup {"none"}
      <4>1. g.pensions \subseteq Income!PensionLines \cup {"none"}
        BY DEF IncomeForm
      <4>2. QED BY <2>2, <3>1, <4>1, OptionToggled
    <3>3. QED BY <1>2, <3>1, <3>2 DEF IncomeForm, SamePage, SameLines
  <2>3. CASE e \in Income!IncomeAmountField(g, g.pensions)
    BY <1>2, <2>3, AmountEdited
  <2>4. QED BY <2>1, <2>2, <2>3
<1>3. CASE p = 5
  <2>1. \/ \E o \in Income!OtherLines \cup {"none"} :
             e = [g EXCEPT !.others = Income!ToggleOption(g.others, o)]
        \/ e \in Income!IncomeAmountField(g, g.others)
    BY <1>3 DEF Income!Edits, Income!OtherIncomeStep
  <2>2. ASSUME NEW o \in Income!OtherLines \cup {"none"},
               e = [g EXCEPT !.others = Income!ToggleOption(g.others, o)]
        PROVE  IncomeForm(e) /\ \A q \in 1..7 : q # p => SamePage(e, g, q)
    <3>1. /\ DOMAIN e = DOMAIN g /\ e.pensions = g.pensions /\ e.texts = g.texts /\ e.amounts = g.amounts
          /\ e.others = Income!ToggleOption(g.others, o)
      BY <2>2 DEF IncomeForm
    <3>2. e.others \subseteq Income!OtherLines \cup {"none"}
      <4>1. g.others \subseteq Income!OtherLines \cup {"none"}
        BY DEF IncomeForm
      <4>2. QED BY <2>2, <3>1, <4>1, OptionToggled
    <3>3. QED BY <1>3, <3>1, <3>2 DEF IncomeForm, SamePage, SameLines
  <2>3. CASE e \in Income!IncomeAmountField(g, g.others)
    BY <1>3, <2>3, AmountEdited
  <2>4. QED BY <2>1, <2>2, <2>3
<1>4. CASE p \in {1, 2, 4, 6, 7}
  <2> SUFFICES \E field \in PageTexts(p) : TypesInto(e, g, field)
    BY <1>1
  <2>1. ASSUME NEW question, NEW details, question \in PageTexts(p), details \in PageTexts(p),
               e \in Income!QuestionStep(g, question, details)
        PROVE  \E field \in PageTexts(p) : TypesInto(e, g, field)
    <3>1. TypesInto(e, g, question) \/ TypesInto(e, g, details)
      BY <2>1 DEF Income!QuestionStep, TypesInto
    <3>2. QED BY <2>1, <3>1
  <2>2. CASE p = 1
    <3>1. e \in Income!QuestionStep(g, "awaiting", "awaitingDetails")
      BY <2>2 DEF Income!Edits, Income!AwaitingBenefitsStep
    <3>2. "awaiting" \in PageTexts(p) /\ "awaitingDetails" \in PageTexts(p)
      BY <2>2 DEF PageTexts
    <3>3. QED BY <2>1, <3>1, <3>2
  <2>3. CASE p = 2
    <3>1. e \in Income!QuestionStep(g, "previous", "previousDetails")
      BY <2>3 DEF Income!Edits, Income!PreviousBenefitsStep
    <3>2. "previous" \in PageTexts(p) /\ "previousDetails" \in PageTexts(p)
      BY <2>3 DEF PageTexts
    <3>3. QED BY <2>1, <3>1, <3>2
  <2>4. CASE p = 4
    <3>1. \E field \in {"employmentType", "employmentAmount", "employer"} : TypesInto(e, g, field)
      BY <2>4 DEF Income!Edits, Income!EmploymentStep, TypesInto
    <3>2. PageTexts(p) = {"employmentType", "employmentAmount", "employer"}
      BY <2>4 DEF PageTexts
    <3>3. QED BY <3>1, <3>2
  <2>5. CASE p = 6
    <3>1. e \in Income!QuestionStep(g, "oneTime", "oneTimeDetails")
          \/ TypesInto(e, g, "oneTimeAmount")
      BY <2>5 DEF Income!Edits, Income!OneTimePaymentsStep, TypesInto
    <3>2. {"oneTime", "oneTimeDetails", "oneTimeAmount"} \subseteq PageTexts(p)
      BY <2>5 DEF PageTexts
    <3>3. QED BY <2>1, <3>1, <3>2
  <2>6. CASE p = 7
    <3>1. \E field \in {"bank", "iban"} : TypesInto(e, g, field)
      BY <2>6 DEF Income!Edits, Income!BankDetailsStep, TypesInto
    <3>2. PageTexts(p) = {"bank", "iban"}
      BY <2>6 DEF PageTexts
    <3>3. QED BY <3>1, <3>2
  <2>7. QED BY <1>4, <2>2, <2>3, <2>4, <2>5, <2>6
<1>5. QED BY <1>2, <1>3, <1>4

\* What the pages send, of which only the work is sent in two requests.
OnlyPayload(g, p) ==
    CASE p = 1 -> Income!SaveAwaiting(g) [] p = 2 -> Income!SavePrevious(g)
      [] p = 3 -> Income!SavePension(g)  [] p = 5 -> Income!SaveOther(g)
      [] p = 6 -> Income!SaveOneTime(g)  [] p = 7 -> Income!SaveBank(g)

LEMMA OnePayload ==
  ASSUME NEW g, NEW p \in 1..7, p # 4
  PROVE  Income!Payloads(g, p) = <<OnlyPayload(g, p)>>
<1>1. p \in {1, 2, 3, 5, 6, 7}
  OBVIOUS
<1>2. QED BY <1>1 DEF Income!Payloads, OnlyPayload

LEMMA TwoPayloads ==
  ASSUME NEW g
  PROVE  Income!Payloads(g, 4) = <<Income!SaveWork(g), Income!SaveWorkRows(g)>>
  BY DEF Income!Payloads

LEMMA AgainByOne ==
  ASSUME NEW t, NEW g, NEW p \in 1..7, p # 4
  PROVE  IncomeAgain(t, g, p) <=> (Income!Ready(g, p) => Repeats(OnlyPayload(g, p), t))
<1> DEFINE list == Income!Payloads(g, p)
<1>1. DOMAIN list = {1} /\ list[1] = OnlyPayload(g, p)
  BY OnePayload
<1> HIDE DEF list
<1>2. (\A k \in DOMAIN list : Repeats(list[k], t)) <=> Repeats(OnlyPayload(g, p), t)
  BY <1>1
<1>3. QED BY <1>2 DEF IncomeAgain, list

LEMMA AgainByTwo ==
  ASSUME NEW t, NEW g
  PROVE  IncomeAgain(t, g, 4) <=>
           (Income!Ready(g, 4) => Repeats(Income!SaveWork(g), t) /\ Repeats(Income!SaveWorkRows(g), t))
<1> DEFINE list == Income!Payloads(g, 4)
<1>1. DOMAIN list = {1, 2} /\ list[1] = Income!SaveWork(g) /\ list[2] = Income!SaveWorkRows(g)
  BY TwoPayloads
<1> HIDE DEF list
<1>2. (\A k \in DOMAIN list : Repeats(list[k], t)) <=>
         Repeats(Income!SaveWork(g), t) /\ Repeats(Income!SaveWorkRows(g), t)
  BY <1>1
<1>3. QED BY <1>2 DEF IncomeAgain, list

\* The fields of a page.
LEMMA WorkFields ==
  ASSUME NEW g
  PROVE  /\ DOMAIN Income!SaveWork(g) = {"isCurrentlyEmployed", "employer"}
         /\ DOMAIN Income!SaveWorkRows(g) \subseteq Income!WorkLines
<1>1. DOMAIN Income!SaveWork(g) = {"isCurrentlyEmployed", "employer"}
  BY DEF Income!SaveWork
<1>2. DOMAIN Income!SaveWorkRows(g) \subseteq Income!WorkLines
  <2>1. Income!SaveWorkRows(g) = <<>> \/ \E chosen, amount :
            Income!SaveWorkRows(g) = Income!IncomeRows(Income!WorkLines, chosen, amount)
    BY DEF Income!SaveWorkRows, Income!EmploymentRows
  <2>2. QED BY <2>1, RowsSent
<1>3. QED BY <1>1, <1>2

LEMMA PageOwns ==
  ASSUME NEW g, NEW p \in 1..7, p # 4
  PROVE  DOMAIN OnlyPayload(g, p) \subseteq IncomeFields(p)
<1> DEFINE r == OnlyPayload(g, p)
<1>1. CASE p = 1
  <2>1. r = Income!SaveQuestion(g, "awaiting", {"awaitingDetails"})
    BY <1>1 DEF OnlyPayload, Income!SaveAwaiting
  <2> HIDE DEF r
  <2>2. DOMAIN r = {"awaiting"} \cup {"awaitingDetails"}
    BY <2>1 DEF Income!SaveQuestion
  <2>3. IncomeFields(p) = {"awaiting", "awaitingDetails"}
    BY <1>1 DEF IncomeFields
  <2>4. DOMAIN r \subseteq IncomeFields(p)
    BY <2>2, <2>3
  <2>5. QED BY <2>4 DEF r
<1>2. CASE p = 2
  <2>1. r = Income!SaveQuestion(g, "previous", {"previousDetails"})
    BY <1>2 DEF OnlyPayload, Income!SavePrevious
  <2> HIDE DEF r
  <2>2. DOMAIN r = {"previous"} \cup {"previousDetails"}
    BY <2>1 DEF Income!SaveQuestion
  <2>3. IncomeFields(p) = {"previous", "previousDetails"}
    BY <1>2 DEF IncomeFields
  <2>4. DOMAIN r \subseteq IncomeFields(p)
    BY <2>2, <2>3
  <2>5. QED BY <2>4 DEF r
<1>3. CASE p = 3
  <2>1. r = Income!IncomeRows(Income!PensionLines, g.pensions, g.amounts)
    BY <1>3 DEF OnlyPayload, Income!SavePension
  <2> HIDE DEF r
  <2>2. QED BY <1>3, <2>1, RowsSent DEF IncomeFields, r
<1>4. CASE p = 5
  <2>1. r = Income!IncomeRows(Income!OtherLines, g.others, g.amounts)
    BY <1>4 DEF OnlyPayload, Income!SaveOther
  <2> HIDE DEF r
  <2>2. QED BY <1>4, <2>1, RowsSent DEF IncomeFields, r
<1>5. CASE p = 6
  <2>1. r = Income!SaveQuestion(g, "oneTime", {"oneTimeDetails", "oneTimeAmount"})
    BY <1>5 DEF OnlyPayload, Income!SaveOneTime
  <2> HIDE DEF r
  <2>2. DOMAIN r = {"oneTime"} \cup {"oneTimeDetails", "oneTimeAmount"}
    BY <2>1 DEF Income!SaveQuestion
  <2>3. IncomeFields(p) = {"oneTime", "oneTimeDetails", "oneTimeAmount"}
    BY <1>5 DEF IncomeFields
  <2>4. DOMAIN r \subseteq IncomeFields(p)
    BY <2>2, <2>3
  <2>5. QED BY <2>4 DEF r
<1>6. CASE p = 7
  <2>1. r = Income!SaveBank(g)
    BY <1>6 DEF OnlyPayload
  <2> HIDE DEF r
  <2>2. DOMAIN r \subseteq {"bank", "iban", "monthlyIncome"}
    BY <2>1 DEF Income!SaveBank, Income!Merge, Income!Restrict
  <2>3. QED BY <1>6, <2>2 DEF IncomeFields, r
<1>7. QED BY <1>1, <1>2, <1>3, <1>4, <1>5, <1>6

\* The pages write different fields.
LEMMA FieldsApart ==
  ASSUME NEW p \in 1..7, NEW q \in 1..7, NEW f, f \in IncomeFields(p), f \in IncomeFields(q)
  PROVE  p = q
<1>1. p \in {1, 2, 3, 4, 5, 6, 7} /\ q \in {1, 2, 3, 4, 5, 6, 7}
  OBVIOUS
<1>2. QED BY <1>1 DEF IncomeFields, Income!PensionLines, Income!OtherLines, Income!WorkLines

LEMMA FieldsStored ==
  ASSUME NEW p \in 1..7, NEW f \in IncomeFields(p)
  PROVE  f \in Income!StoredFields
<1>1. p \in {1, 2, 3, 4, 5, 6, 7}
  OBVIOUS
<1>2. QED BY <1>1 DEF IncomeFields, Income!StoredFields, Income!Shared, Income!Details, Income!Lines

LEMMA RepeatsOn ==
  ASSUME NEW t, NEW u, NEW p \in 1..7, \A f \in IncomeFields(p) : u[f] = t[f],
         NEW r, DOMAIN r \subseteq IncomeFields(p), Repeats(r, t)
  PROVE  Repeats(r, u)
<1> SUFFICES ASSUME NEW f \in DOMAIN r, f \notin Exempt(u), u[f] # Unset PROVE r[f] = u[f]
  BY DEF Repeats
<1>1. f \in IncomeFields(p) /\ u[f] = t[f]
  OBVIOUS
<1>2. f \notin Exempt(t)
  <2>1. f # "monthlyIncome"
    BY DEF Exempt
  <2>2. CASE f \notin Income!WorkLines
    BY <2>1, <2>2 DEF Exempt
  <2>3. CASE f \in Income!WorkLines
    <3>1. f \in IncomeFields(4)
      BY <2>3 DEF IncomeFields
    <3>2. p = 4
      BY <1>1, <3>1, FieldsApart
    <3>3. "isCurrentlyEmployed" \in IncomeFields(p) /\ Income!WorkLines \subseteq IncomeFields(p)
      BY <3>2 DEF IncomeFields
    <3>4. Income!WorksForNothing(t) => Income!WorksForNothing(u)
      BY <3>3 DEF Income!WorksForNothing
    <3>5. QED BY <2>1, <2>3, <3>4 DEF Exempt
  <2>4. QED BY <2>2, <2>3
<1>3. QED BY <1>1, <1>2 DEF Repeats

LEMMA IncomeDrifts ==
  ASSUME NEW t, NEW u, NEW g, NEW open, NEW more, more \subseteq 1..7,
         Drifts("income", t, u, open, more), IncomeFits(t, g, open)
  PROVE  IncomeFits(u, g, more)
<1> SUFFICES ASSUME NEW p \in 1..7, p \notin more PROVE IncomeAgain(u, g, p)
  BY DEF IncomeFits
<1>1. IncomeAgain(t, g, p)
  BY DEF IncomeFits, Drifts
<1>2. ASSUME NEW f \in IncomeFields(p) PROVE u[f] = t[f]
  <2>1. f \in SectionFields("income")
    BY <1>2, FieldsStored DEF SectionFields
  <2>2. u[f] = t[f] \/ \E q \in more : f \in IncomeFields(q)
    BY <2>1 DEF Drifts, PageFields
  <2>3. QED BY <1>2, <2>2, FieldsApart
<1>3. CASE p # 4
  BY <1>1, <1>2, <1>3, AgainByOne, PageOwns, RepeatsOn
<1>4. CASE p = 4
  <2>1. /\ DOMAIN Income!SaveWork(g) \subseteq IncomeFields(4)
        /\ DOMAIN Income!SaveWorkRows(g) \subseteq IncomeFields(4)
    BY WorkFields DEF IncomeFields
  <2>2. QED BY <1>1, <1>2, <1>4, <2>1, AgainByTwo, RepeatsOn
<1>5. QED BY <1>3, <1>4

\* What another page shows is what it sends, but for the total.
SendsAlike(r, q) == \A f \in DOMAIN r \ {"monthlyIncome"} : f \in DOMAIN q /\ r[f] = q[f]

LEMMA AlikeRepeats ==
  ASSUME NEW r, NEW q, NEW t, SendsAlike(r, q), Repeats(q, t)
  PROVE  Repeats(r, t)
  BY DEF SendsAlike, Repeats, Exempt

LEMMA RowsAlike ==
  ASSUME NEW lines, NEW chosen, NEW some, NEW other, \A l \in lines : some[l] = other[l]
  PROVE  SendsAlike(Income!IncomeRows(lines, chosen, some), Income!IncomeRows(lines, chosen, other))
  BY DEF SendsAlike, Income!IncomeRows

LEMMA QuestionAlike ==
  ASSUME NEW e, NEW g, NEW q, NEW details, \A f \in {q} \cup details : e.texts[f] = g.texts[f]
  PROVE  SendsAlike(Income!SaveQuestion(e, q, details), Income!SaveQuestion(g, q, details))
  BY DEF SendsAlike, Income!SaveQuestion

LEMMA PageAlike ==
  ASSUME NEW e, NEW g, NEW p \in 1..7, p # 4, SamePage(e, g, p)
  PROVE  SendsAlike(OnlyPayload(e, p), OnlyPayload(g, p))
<1>1. CASE p = 1
  <2>1. \A h : OnlyPayload(h, p) = Income!SaveQuestion(h, "awaiting", {"awaitingDetails"})
    BY <1>1 DEF OnlyPayload, Income!SaveAwaiting
  <2>2. \A f \in {"awaiting"} \cup {"awaitingDetails"} : e.texts[f] = g.texts[f]
    BY <1>1 DEF SamePage, PageTexts
  <2>3. QED BY <2>1, <2>2, QuestionAlike
<1>2. CASE p = 2
  <2>1. \A h : OnlyPayload(h, p) = Income!SaveQuestion(h, "previous", {"previousDetails"})
    BY <1>2 DEF OnlyPayload, Income!SavePrevious
  <2>2. \A f \in {"previous"} \cup {"previousDetails"} : e.texts[f] = g.texts[f]
    BY <1>2 DEF SamePage, PageTexts
  <2>3. QED BY <2>1, <2>2, QuestionAlike
<1>3. CASE p = 6
  <2>1. \A h : OnlyPayload(h, p) = Income!SaveQuestion(h, "oneTime", {"oneTimeDetails", "oneTimeAmount"})
    BY <1>3 DEF OnlyPayload, Income!SaveOneTime
  <2>2. \A f \in {"oneTime"} \cup {"oneTimeDetails", "oneTimeAmount"} : e.texts[f] = g.texts[f]
    BY <1>3 DEF SamePage, PageTexts
  <2>3. QED BY <2>1, <2>2, QuestionAlike
<1>4. CASE p = 3
  <2>1. \A h : OnlyPayload(h, p) = Income!IncomeRows(Income!PensionLines, h.pensions, h.amounts)
    BY <1>4 DEF OnlyPayload, Income!SavePension
  <2>2. e.pensions = g.pensions /\ \A l \in Income!PensionLines : e.amounts[l] = g.amounts[l]
    BY <1>4 DEF SamePage, SameLines
  <2>3. QED BY <2>1, <2>2, RowsAlike
<1>5. CASE p = 5
  <2>1. \A h : OnlyPayload(h, p) = Income!IncomeRows(Income!OtherLines, h.others, h.amounts)
    BY <1>5 DEF OnlyPayload, Income!SaveOther
  <2>2. e.others = g.others /\ \A l \in Income!OtherLines : e.amounts[l] = g.amounts[l]
    BY <1>5 DEF SamePage, SameLines
  <2>3. QED BY <2>1, <2>2, RowsAlike
<1>6. CASE p = 7
  <2>1. \A h : OnlyPayload(h, p) = Income!SaveBank(h)
    BY <1>6 DEF OnlyPayload
  <2>2. e.texts["bank"] = g.texts["bank"] /\ e.texts["iban"] = g.texts["iban"]
    BY <1>6 DEF SamePage, PageTexts
  <2>3. \A h : /\ DOMAIN Income!SaveBank(h) \subseteq {"bank", "iban", "monthlyIncome"}
               /\ {"bank", "iban"} \subseteq DOMAIN Income!SaveBank(h)
    BY DEF Income!SaveBank, Income!Merge, Income!Restrict
  <2>4. \A h : Income!SaveBank(h)["bank"] = h.texts["bank"] /\ Income!SaveBank(h)["iban"] = h.texts["iban"]
    BY DEF Income!SaveBank, Income!Merge, Income!Restrict
  <2>5. QED BY <2>1, <2>2, <2>3, <2>4 DEF SendsAlike
<1>7. QED BY <1>1, <1>2, <1>3, <1>4, <1>5, <1>6

LEMMA WorkAlike ==
  ASSUME NEW e, NEW g, SamePage(e, g, 4)
  PROVE  Income!SaveWork(e) = Income!SaveWork(g) /\ Income!SaveWorkRows(e) = Income!SaveWorkRows(g)
<1>1. /\ e.texts["employmentType"] = g.texts["employmentType"]
      /\ e.texts["employmentAmount"] = g.texts["employmentAmount"]
      /\ e.texts["employer"] = g.texts["employer"]
  BY DEF SamePage, PageTexts
<1>2. QED BY <1>1 DEF Income!SaveWork, Income!SaveWorkRows

LEMMA ReadyAlike ==
  ASSUME NEW e, NEW g, IncomeForm(g), NEW p \in 1..7, SamePage(e, g, p), Income!Ready(e, p)
  PROVE  Income!Ready(g, p)
<1>1. CASE p \in {1, 2}
  BY <1>1 DEF Income!Ready
<1>2. CASE p = 3
  BY <1>2 DEF Income!Ready, Income!ValidAmounts, SamePage, SameLines, IncomeForm
<1>3. CASE p = 4
  BY <1>3 DEF Income!Ready, SamePage, PageTexts
<1>4. CASE p = 5
  BY <1>4 DEF Income!Ready, Income!ValidAmounts, SamePage, SameLines, IncomeForm
<1>5. CASE p = 6
  BY <1>5 DEF Income!Ready, SamePage, PageTexts
<1>6. CASE p = 7
  BY <1>6 DEF Income!Ready, Income!Filled, SamePage, PageTexts
<1>7. QED BY <1>1, <1>2, <1>3, <1>4, <1>5, <1>6

LEMMA IncomeEdited ==
  ASSUME NEW t, NEW g, IncomeForm(g), NEW open, NEW p \in 1..7, NEW e \in Income!Edits(g, p),
         IncomeFits(t, g, open)
  PROVE  IncomeFits(t, e, open \cup {p})
<1> SUFFICES ASSUME NEW q \in 1..7, q # p, q \notin open PROVE IncomeAgain(t, e, q)
  BY DEF IncomeFits
<1>1. IncomeAgain(t, g, q) /\ SamePage(e, g, q)
  BY IncomeChanges DEF IncomeFits
<1>2. Income!Ready(e, q) => Income!Ready(g, q)
  BY <1>1, ReadyAlike
<1>3. CASE q # 4
  BY <1>1, <1>2, <1>3, AgainByOne, PageAlike, AlikeRepeats
<1>4. CASE q = 4
  BY <1>1, <1>2, <1>4, AgainByTwo, WorkAlike
<1>5. QED BY <1>3, <1>4

\* The page that is saved is what it sent.
LEMMA IncomeSaved ==
  ASSUME NEW s, NEW g, NEW open, open \subseteq 1..7, NEW p \in 1..7,
         NEW t, t = Applied(s, Income!Payloads(g, p)), IncomeFits(t, g, open \cup {p})
  PROVE  IncomeFits(t, g, open \ {p})
<1> SUFFICES IncomeAgain(t, g, p)
  BY DEF IncomeFits
<1>1. CASE p # 4
  <2> DEFINE r == OnlyPayload(g, p)
  <2>1. t = Merge(s, r)
    <3>1. Income!Payloads(g, p) = <<r>>
      BY <1>1, OnePayload
    <3>2. <<r>> # <<>> /\ Tail(<<r>>) = <<>> /\ <<r>>[1] = r
      OBVIOUS
    <3>3. QED BY <3>1, <3>2 DEF Applied
  <2> HIDE DEF r
  <2>2. \A f \in DOMAIN r : t[f] = r[f]
    BY <2>1 DEF Merge
  <2>3. Repeats(r, t)
    BY <2>2 DEF Repeats
  <2>4. QED BY <1>1, <2>3, AgainByOne DEF r
<1>2. CASE p = 4
  <2> DEFINE q == Income!SaveWork(g)
             r == Income!SaveWorkRows(g)
  <2>1. t = Merge(Merge(s, q), r)
    <3>1. Income!Payloads(g, p) = <<q, r>>
      BY <1>2, TwoPayloads
    <3>2. <<q, r>> # <<>> /\ Tail(<<q, r>>) # <<>> /\ <<q, r>>[1] = q /\ <<q, r>>[2] = r
      OBVIOUS
    <3>3. QED BY <3>1, <3>2 DEF Applied
  <2>2. \A f \in DOMAIN q : f \notin DOMAIN r
    BY WorkFields DEF Income!WorkLines
  <2> HIDE DEF q, r
  <2>3. \A f \in DOMAIN r : t[f] = r[f]
    BY <2>1 DEF Merge
  <2>4. \A f \in DOMAIN q : t[f] = q[f]
    BY <2>1, <2>2 DEF Merge
  <2>5. Repeats(q, t) /\ Repeats(r, t)
    BY <2>3, <2>4 DEF Repeats
  <2>6. QED BY <1>2, <2>5, AgainByTwo DEF q, r
<1>3. QED BY <1>1, <1>2

LEMMA WorkAnswered ==
  ASSUME NEW g, NEW p \in 1..7, p = 4, Income!Ready(g, p)
  PROVE  g.texts["employmentType"] # Income!Unset
  BY DEF Income!Ready

\* Whoever saves the page of the work has an income with work only.
LEMMA WorkSaved ==
  ASSUME NEW s, NEW g, NEW p \in 1..7, p = 4, Income!Ready(g, p), NEW t, t = Applied(s, Income!Payloads(g, p))
  PROVE  WorkFits(t)
<1> USE DEF Unset, Income!Unset
<1> DEFINE q == Income!SaveWork(g)
           r == Income!SaveWorkRows(g)
           type == g.texts["employmentType"]
<1>1. t = Merge(Merge(s, q), r)
  <2>1. Income!Payloads(g, p) = <<q, r>>
    BY TwoPayloads
  <2>2. <<q, r>> # <<>> /\ Tail(<<q, r>>) # <<>> /\ <<q, r>>[1] = q /\ <<q, r>>[2] = r
    OBVIOUS
  <2>3. QED BY <2>1, <2>2 DEF Applied
<1>2. type # Unset
  BY WorkAnswered
<1>3. DOMAIN q = {"isCurrentlyEmployed", "employer"} /\ DOMAIN r \subseteq Income!WorkLines
  <2>1. DOMAIN q = {"isCurrentlyEmployed", "employer"}
    BY DEF Income!SaveWork
  <2>2. DOMAIN r \subseteq Income!WorkLines
    BY WorkFields
  <2>3. QED BY <2>1, <2>2
<1>4. "isCurrentlyEmployed" \notin Income!WorkLines
  BY DEF Income!WorkLines
<1>5. CASE Income!WithoutWork(type)
  <2>1. r = Income!EmploymentRows(type, g.texts["employmentAmount"])
    BY DEF Income!SaveWorkRows
  <2>2. DOMAIN r = Income!WorkLines /\ \A l \in Income!WorkLines : r[l] = "0"
    BY <1>2, <1>5, <2>1 DEF Income!EmploymentRows, Income!IncomeRows, Income!WorkLines
  <2> HIDE DEF q, r
  <2>3. \A l \in Income!WorkLines : t[l] = "0"
    BY <1>1, <2>2 DEF Merge
  <2>4. QED BY <2>3 DEF WorkFits
<1>6. CASE ~Income!WithoutWork(type)
  <2>1. q["isCurrentlyEmployed"] = "yes"
    BY <1>2, <1>6 DEF Income!SaveWork
  <2> HIDE DEF q, r
  <2>2. t["isCurrentlyEmployed"] = "yes"
    BY <1>1, <1>3, <1>4, <2>1 DEF Merge
  <2>3. QED BY <2>2 DEF WorkFits
<1>7. QED BY <1>5, <1>6

\* The first profile.
LEMMA QuestionShown ==
  ASSUME NEW x, NEW g, NEW q, NEW details, q \notin details, \A f \in {q} \cup details : g.texts[f] = x[f],
         x[q] # "yes" => \A d \in details : x[d] = Unset
  PROVE  Repeats(Income!SaveQuestion(g, q, details), x)
<1> DEFINE r == Income!SaveQuestion(g, q, details)
<1>1. DOMAIN r = {q} \cup details /\ r[q] = g.texts[q]
  BY DEF Income!SaveQuestion
<1>2. \A d \in details : g.texts[q] = "yes" => r[d] = g.texts[d]
  BY DEF Income!SaveQuestion
<1> HIDE DEF r
<1>3. \A f \in DOMAIN r : x[f] # Unset => r[f] = x[f]
  BY <1>1, <1>2
<1>4. Repeats(r, x)
  BY <1>3 DEF Repeats
<1>5. QED BY <1>4 DEF r

LEMMA RowShown ==
  ASSUME NEW row, row # Unset, row # "0"
  PROVE  Income!ToRow(Income!ToText(row)) = row
  BY DEF Income!ToRow, Income!ToText, Income!Unset, Unset, Income!Open

LEMMA LinesShown ==
  ASSUME NEW x, NEW lines, "none" \notin lines, NEW amount, \A l \in lines : amount[l] = Income!ToText(x[l])
  PROVE  Repeats(Income!IncomeRows(lines, Income!StoredOptions(lines, x), amount), x)
<1> USE DEF Unset, Income!Unset
<1> DEFINE chosen == Income!StoredOptions(lines, x)
           r == Income!IncomeRows(lines, chosen, amount)
<1>1. \A l \in lines : x[l] # Unset => (l \in chosen <=> x[l] # "0")
  BY DEF Income!StoredOptions
<1> HIDE DEF chosen
<1>2. DOMAIN r \subseteq lines /\ \A l \in DOMAIN r : r[l] = IF l \in chosen THEN Income!ToRow(amount[l]) ELSE "0"
  BY DEF Income!IncomeRows
<1> HIDE DEF r
<1>3. \A l \in DOMAIN r : x[l] # Unset => r[l] = x[l]
  BY <1>1, <1>2, RowShown
<1>4. Repeats(r, x)
  BY <1>3 DEF Repeats
<1>5. QED BY <1>4 DEF r, chosen

LEMMA WorkShown ==
  ASSUME NEW x, Income!NoOrphans(x), WorkFits(x), NEW g, g.texts["employmentType"] = Income!StoredWork(x),
         g.texts["employmentAmount"] = Income!StoredWorkAmount(x), g.texts["employer"] = x["employer"],
         NEW p \in 1..7, p = 4, Income!Ready(g, p)
  PROVE  Repeats(Income!SaveWork(g), x) /\ Repeats(Income!SaveWorkRows(g), x)
<1> USE DEF Unset, Income!Unset
<1> DEFINE q == Income!SaveWork(g)
           r == Income!SaveWorkRows(g)
           type == g.texts["employmentType"]
           amount == g.texts["employmentAmount"]
           ice == "isCurrentlyEmployed"
           alone == "self_employed" \in Income!StoredOptions(Income!WorkLines, x)
<1>1. DOMAIN q = {ice, "employer"} /\ DOMAIN r \subseteq Income!WorkLines
  <2>1. DOMAIN q = {ice, "employer"}
    BY DEF Income!SaveWork
  <2>2. DOMAIN r \subseteq Income!WorkLines
    BY WorkFields
  <2>3. QED BY <2>1, <2>2
<1>2. Income!WorkLines = {"employed", "self_employed"}
  BY DEF Income!WorkLines
<1>3. alone <=> x["self_employed"] \notin {Unset, "0"}
  BY <1>2 DEF Income!StoredOptions
<1>4. type # Unset
  BY WorkAnswered
<1>5. r = Income!EmploymentRows(type, amount)
  BY DEF Income!SaveWorkRows
<1>6. CASE alone
  <2>1. type = "self_employed" /\ amount = Income!ToText(x["self_employed"])
    BY <1>6 DEF Income!StoredWork, Income!StoredWorkAmount
  <2>2. q[ice] = "yes" /\ q["employer"] = x["employer"]
    BY <1>4, <2>1 DEF Income!SaveWork, Income!WithoutWork
  <2>3. \A l \in DOMAIN r : r[l] = IF l = "self_employed" THEN Income!ToRow(amount) ELSE "0"
    BY <1>2, <1>5, <2>1 DEF Income!EmploymentRows, Income!IncomeRows, Income!WithoutWork
  <2> HIDE DEF q, r, type, amount, alone
  <2>4. x[ice] \in {Unset, "yes"}
    BY <1>2, <1>3, <1>6 DEF WorkFits, ice
  <2>5. x["employed"] \in {Unset, "0"}
    BY <1>2, <1>3, <1>6 DEF Income!NoOrphans
  <2>6. Repeats(q, x)
    BY <1>1, <2>2, <2>4 DEF Repeats, ice
  <2>7. Repeats(r, x)
    BY <1>1, <1>2, <1>3, <1>6, <2>1, <2>3, <2>5, RowShown DEF Repeats
  <2>8. QED BY <2>6, <2>7 DEF q, r
<1>7. CASE ~alone /\ x[ice] = "yes"
  <2>1. type = "employed" /\ amount = Income!ToText(x["employed"])
    BY <1>7 DEF Income!StoredWork, Income!StoredWorkByAnswer, Income!StoredWorkAmount
  <2>2. q[ice] = "yes" /\ q["employer"] = x["employer"]
    BY <1>4, <2>1 DEF Income!SaveWork, Income!WithoutWork
  <2>3. \A l \in DOMAIN r : r[l] = IF l = "employed" THEN Income!ToRow(amount) ELSE "0"
    BY <1>2, <1>5, <2>1 DEF Income!EmploymentRows, Income!IncomeRows, Income!WithoutWork
  <2>4. x["employed"] \in {Unset, "0"} => Income!WorksForNothing(x)
    BY <1>2, <1>3, <1>7 DEF Income!WorksForNothing
  <2> HIDE DEF q, r, type, amount, alone
  <2>5. Repeats(q, x)
    BY <1>1, <1>7, <2>2 DEF Repeats, ice
  <2>6. Repeats(r, x)
    <3>1. CASE x["employed"] \in {Unset, "0"}
      <4>1. Income!WorkLines \subseteq Exempt(x)
        BY <2>4, <3>1 DEF Exempt
      <4>2. QED BY <1>1, <4>1 DEF Repeats
    <3>2. CASE x["employed"] \notin {Unset, "0"}
      <4>1. \A l \in DOMAIN r : x[l] # Unset => r[l] = x[l]
        BY <1>1, <1>2, <1>3, <1>7, <2>1, <2>3, <3>2, RowShown
      <4>2. QED BY <4>1 DEF Repeats
    <3>3. QED BY <3>1, <3>2
  <2>7. QED BY <2>5, <2>6 DEF q, r
<1>8. CASE ~alone /\ x[ice] # "yes"
  <2>1. type = "unemployed" /\ x[ice] = "no"
    BY <1>4, <1>8 DEF Income!StoredWork, Income!StoredWorkByAnswer
  <2>2. q[ice] = "no"
    BY <2>1 DEF Income!SaveWork, Income!WithoutWork
  <2>3. \A l \in DOMAIN r : r[l] = "0"
    BY <1>2, <1>5, <2>1 DEF Income!EmploymentRows, Income!IncomeRows, Income!WithoutWork
  <2> HIDE DEF q, r, type, amount, alone
  <2>4. x["employer"] = Unset
    BY <2>1 DEF Income!NoOrphans, ice
  <2>5. \A l \in Income!WorkLines : x[l] \in {Unset, "0"}
    BY <2>1 DEF WorkFits, ice
  <2>6. Repeats(q, x) /\ Repeats(r, x)
    BY <1>1, <2>1, <2>2, <2>3, <2>4, <2>5 DEF Repeats, ice
  <2>7. QED BY <2>6 DEF q, r
<1>9. QED BY <1>6, <1>7, <1>8

LEMMA IncomeFilled ==
  ASSUME NEW x, NEW read \in BOOLEAN, NEW g, g = Income!Hydrate(x, read)
  PROVE  IncomeForm(g)
<1>1. /\ DOMAIN g = {"texts", "pensions", "others", "amounts"}
      /\ DOMAIN g.texts = Income!Shared \cup {"employmentType", "employmentAmount"}
      /\ DOMAIN g.amounts = Income!PensionLines \cup Income!OtherLines
  BY DEF Income!Hydrate, Income!EmptyForm
<1>2. /\ g.pensions \in {{"retirement"}, Income!StoredOptions(Income!PensionLines, x)}
      /\ g.others = Income!StoredOptions(Income!OtherLines, x)
  BY DEF Income!Hydrate
<1>3. \A lines : Income!StoredOptions(lines, x) \subseteq lines \cup {"none"}
  BY DEF Income!StoredOptions
<1>4. "retirement" \in Income!PensionLines
  BY DEF Income!PensionLines
<1>5. QED BY <1>1, <1>2, <1>3, <1>4 DEF IncomeForm

LEMMA IncomeHydrated ==
  ASSUME NEW x, Income!NoOrphans(x), WorkFits(x), NEW read \in BOOLEAN, NEW g, g = Income!Hydrate(x, read),
         NEW open, read => {3, 7} \subseteq open
  PROVE  IncomeForm(g) /\ IncomeFits(x, g, open)
<1> USE DEF Unset, Income!Unset
<1> DEFINE fields == Income!Shared \cup {"employmentType", "employmentAmount"}
<1>1. /\ DOMAIN g = {"texts", "pensions", "others", "amounts"} /\ DOMAIN g.texts = fields
      /\ DOMAIN g.amounts = Income!PensionLines \cup Income!OtherLines
  BY DEF Income!Hydrate, Income!EmptyForm
<1>2. g.pensions = IF read /\ Income!StoredOptions(Income!PensionLines, x) = {} THEN {"retirement"}
                   ELSE Income!StoredOptions(Income!PensionLines, x)
  BY DEF Income!Hydrate
<1>3. g.others = Income!StoredOptions(Income!OtherLines, x)
  BY DEF Income!Hydrate
<1>5. IncomeForm(g)
  BY IncomeFilled
<1>6. \A f \in fields : /\ f = "employmentType" => g.texts[f] = Income!StoredWork(x)
                        /\ f = "employmentAmount" => g.texts[f] = Income!StoredWorkAmount(x)
                        /\ f \notin {"employmentType", "employmentAmount", "bank", "iban"} => g.texts[f] = x[f]
                        /\ f \in {"bank", "iban"} /\ ~read => g.texts[f] = x[f]
  BY DEF Income!Hydrate, Income!EmptyForm
<1>7. \A l \in Income!PensionLines \cup Income!OtherLines :
         (read /\ l = "retirement") \/ g.amounts[l] = Income!ToText(x[l])
  BY DEF Income!Hydrate
<1> HIDE DEF fields
<1>8. {"awaiting", "awaitingDetails", "previous", "previousDetails", "oneTime", "oneTimeDetails",
       "oneTimeAmount", "employer", "bank", "iban", "employmentType", "employmentAmount"} \subseteq fields
  BY DEF fields, Income!Shared, Income!Details
<1> SUFFICES ASSUME NEW p \in 1..7, p \notin open PROVE IncomeAgain(x, g, p)
  BY <1>5 DEF IncomeFits
<1>9. CASE p = 1
  <2>1. \A f \in {"awaiting"} \cup {"awaitingDetails"} : g.texts[f] = x[f]
    BY <1>6, <1>8
  <2>2. x["awaiting"] # "yes" => \A d \in {"awaitingDetails"} : x[d] = Unset
    BY DEF Income!NoOrphans
  <2>3. OnlyPayload(g, p) = Income!SaveQuestion(g, "awaiting", {"awaitingDetails"})
    BY <1>9 DEF OnlyPayload, Income!SaveAwaiting
  <2>4. "awaiting" \notin {"awaitingDetails"}
    OBVIOUS
  <2>5. Repeats(Income!SaveQuestion(g, "awaiting", {"awaitingDetails"}), x)
    BY <2>1, <2>2, <2>4, QuestionShown
  <2>6. QED BY <1>9, <2>3, <2>5, AgainByOne
<1>10. CASE p = 2
  <2>1. \A f \in {"previous"} \cup {"previousDetails"} : g.texts[f] = x[f]
    BY <1>6, <1>8
  <2>2. x["previous"] # "yes" => \A d \in {"previousDetails"} : x[d] = Unset
    BY DEF Income!NoOrphans
  <2>3. OnlyPayload(g, p) = Income!SaveQuestion(g, "previous", {"previousDetails"})
    BY <1>10 DEF OnlyPayload, Income!SavePrevious
  <2>4. "previous" \notin {"previousDetails"}
    OBVIOUS
  <2>5. Repeats(Income!SaveQuestion(g, "previous", {"previousDetails"}), x)
    BY <2>1, <2>2, <2>4, QuestionShown
  <2>6. QED BY <1>10, <2>3, <2>5, AgainByOne
<1>11. CASE p = 6
  <2>1. \A f \in {"oneTime"} \cup {"oneTimeDetails", "oneTimeAmount"} : g.texts[f] = x[f]
    BY <1>6, <1>8
  <2>2. x["oneTime"] # "yes" => \A d \in {"oneTimeDetails", "oneTimeAmount"} : x[d] = Unset
    BY DEF Income!NoOrphans
  <2>3. OnlyPayload(g, p) = Income!SaveQuestion(g, "oneTime", {"oneTimeDetails", "oneTimeAmount"})
    BY <1>11 DEF OnlyPayload, Income!SaveOneTime
  <2>4. "oneTime" \notin {"oneTimeDetails", "oneTimeAmount"}
    OBVIOUS
  <2>5. Repeats(Income!SaveQuestion(g, "oneTime", {"oneTimeDetails", "oneTimeAmount"}), x)
    BY <2>1, <2>2, <2>4, QuestionShown
  <2>6. QED BY <1>11, <2>3, <2>5, AgainByOne
<1>12. CASE p = 3
  <2>1. ~read /\ "none" \notin Income!PensionLines
    BY <1>12 DEF Income!PensionLines
  <2>2. \A l \in Income!PensionLines : g.amounts[l] = Income!ToText(x[l])
    BY <1>7, <2>1
  <2>3. OnlyPayload(g, p) = Income!IncomeRows(Income!PensionLines, Income!StoredOptions(Income!PensionLines, x), g.amounts)
    BY <1>2, <1>12, <2>1 DEF OnlyPayload, Income!SavePension
  <2>4. QED BY <1>12, <2>1, <2>2, <2>3, LinesShown, AgainByOne
<1>13. CASE p = 5
  <2>1. "none" \notin Income!OtherLines /\ "retirement" \notin Income!OtherLines
    BY DEF Income!OtherLines
  <2>2. \A l \in Income!OtherLines : g.amounts[l] = Income!ToText(x[l])
    BY <1>7, <2>1
  <2>3. OnlyPayload(g, p) = Income!IncomeRows(Income!OtherLines, Income!StoredOptions(Income!OtherLines, x), g.amounts)
    BY <1>3, <1>13 DEF OnlyPayload, Income!SaveOther
  <2>4. QED BY <1>13, <2>1, <2>2, <2>3, LinesShown, AgainByOne
<1>14. CASE p = 7
  <2>1. g.texts["bank"] = x["bank"] /\ g.texts["iban"] = x["iban"]
    BY <1>6, <1>8, <1>14
  <2>2. OnlyPayload(g, p) = Income!SaveBank(g)
    BY <1>14 DEF OnlyPayload
  <2>3. DOMAIN Income!SaveBank(g) \subseteq {"bank", "iban", "monthlyIncome"}
    BY DEF Income!SaveBank, Income!Merge, Income!Restrict
  <2>4. Income!SaveBank(g)["bank"] = g.texts["bank"] /\ Income!SaveBank(g)["iban"] = g.texts["iban"]
    BY DEF Income!SaveBank, Income!Merge, Income!Restrict
  <2>5. Repeats(Income!SaveBank(g), x)
    BY <2>1, <2>3, <2>4 DEF Repeats, Exempt
  <2>6. QED BY <1>14, <2>2, <2>5, AgainByOne
<1>15. CASE p = 4
  <2>1. /\ g.texts["employmentType"] = Income!StoredWork(x)
        /\ g.texts["employmentAmount"] = Income!StoredWorkAmount(x) /\ g.texts["employer"] = x["employer"]
    BY <1>6, <1>8
  <2>2. QED BY <1>15, <2>1, WorkShown, AgainByTwo
<1>16. QED BY <1>9, <1>10, <1>11, <1>12, <1>13, <1>14, <1>15

LEMMA IncomeSettles ==
  ASSUME view = "income", NEW s, s = stored, NEW g, g = form, IncomeFits(s, g, {})
  PROVE  ScreenIsStored(AllPages)
<1>1. ASSUME NEW p \in AllPages, IsReady(g, p), NEW sends \in ToSet(Requests(g, p))
      PROVE  Repeats(sends, s)
  <2>1. p \in 1..7 /\ Requests(g, p) = Income!Payloads(g, p)
    BY DEF AllPages, Requests
  <2>2. Income!Ready(g, p)
    BY <1>1 DEF IsReady
  <2>3. PICK k \in DOMAIN Income!Payloads(g, p) : sends = Income!Payloads(g, p)[k]
    BY <1>1, <2>1 DEF ToSet
  <2>4. IncomeAgain(s, g, p)
    BY <2>1 DEF IncomeFits
  <2>5. QED BY <2>2, <2>3, <2>4 DEF IncomeAgain
<1>2. Exempt(s) \subseteq Computed
  BY DEF Exempt, Computed
<1>3. ASSUME NEW p \in AllPages, IsReady(form, p), NEW sends \in ToSet(Requests(form, p)),
             NEW f \in DOMAIN sends, f \notin Computed, stored[f] # Unset
      PROVE  sends[f] = stored[f]
  <2>1. Repeats(sends, s)
    BY <1>1, <1>3
  <2>2. f \notin Exempt(s)
    BY <1>2, <1>3
  <2>3. QED BY <1>3, <2>1, <2>2 DEF Repeats
<1>4. QED BY <1>3 DEF ScreenIsStored

-----------------------------------------------------------------------------
(* Saving a page again.                                                    *)

LEMMA AgainDrifts ==
  ASSUME view \in Views, NEW t, NEW u, NEW g, NEW l, NEW open, NEW more, more \subseteq AllPages,
         NEW alone \in BOOLEAN, Drifts(view, t, u, open, more), AgainFits(view, t, g, l, open, alone)
  PROVE  AgainFits(view, u, g, l, more, alone)
<1>1. CASE view = "income"
  <2>1. more \subseteq 1..7
    BY <1>1 DEF AllPages
  <2>2. alone => IncomeFits(t, g, open)
    BY <1>1 DEF AgainFits
  <2>3. alone => IncomeFits(u, g, more)
    BY <1>1, <2>1, <2>2, IncomeDrifts
  <2>4. QED BY <1>1, <2>3 DEF AgainFits
<1>2. CASE view = "health"
  <2>1. more \subseteq 1..8
    BY <1>2 DEF AllPages
  <2>2. alone => HealthFits(t, g, open)
    BY <1>2 DEF AgainFits
  <2>3. alone => HealthFits(u, g, more)
    BY <1>2, <2>1, <2>2, HealthDrifts
  <2>4. QED BY <1>2, <2>3 DEF AgainFits
<1>3. CASE view = "household"
  <2>1. HouseholdFits(t, g, l, open, alone)
    BY <1>3 DEF AgainFits
  <2>2. HouseholdFits(u, g, l, more, alone)
    BY <1>3, <2>1, HouseholdDrifts
  <2>3. QED BY <1>3, <2>2 DEF AgainFits
<1>4. CASE view = "aboutMe"
  <2>1. AboutMeFits(t, g, l, open, alone)
    BY <1>4 DEF AgainFits
  <2>2. AboutMeFits(u, g, l, more, alone)
    BY <1>4, <2>1, AboutMeDrifts
  <2>3. QED BY <1>4, <2>2 DEF AgainFits
<1>5. CASE view = "housing"
  BY <1>5 DEF AgainFits
<1>6. QED BY <1>1, <1>2, <1>3, <1>4, <1>5, ViewsAssumption

LEMMA WorkDrifts ==
  ASSUME NEW t, NEW u, NEW open, NEW more, more \subseteq 1..7, 4 \notin more,
         Drifts("income", t, u, open, more), WorkFits(t)
  PROVE  WorkFits(u)
<1>1. ASSUME NEW f \in IncomeFields(4) PROVE u[f] = t[f]
  <2>1. f \in SectionFields("income")
    BY <1>1, FieldsStored DEF SectionFields
  <2>2. u[f] = t[f] \/ \E q \in more : f \in IncomeFields(q)
    BY <2>1 DEF Drifts, PageFields
  <2>3. \A q \in more : f \notin IncomeFields(q)
    <3> SUFFICES ASSUME NEW q \in more, f \in IncomeFields(q) PROVE FALSE
      OBVIOUS
    <3>1. q \in 1..7 /\ 4 \in 1..7 /\ q # 4
      OBVIOUS
    <3>2. QED BY <1>1, <3>1, FieldsApart
  <2>4. QED BY <2>2, <2>3
<1>2. "isCurrentlyEmployed" \in IncomeFields(4) /\ Income!WorkLines \subseteq IncomeFields(4)
  BY DEF IncomeFields
<1>3. QED BY <1>1, <1>2 DEF WorkFits

LEMMA AgainEdited ==
  ASSUME view \in Views, NEW t, NEW g, DOMAIN g = DOMAIN FormAtMount(view, extracted),
         view = "income" => IncomeForm(g), NEW l, NEW open, NEW alone \in BOOLEAN, NEW p \in AllPages, NEW e,
         e \in EditsOf(g, p) \/ (view = "aboutMe" /\ p = 3 /\ e \in AboutMe!Page3Gender(g)),
         AgainFits(view, t, g, l, open, alone)
  PROVE  AgainFits(view, t, e, l, open \cup {p}, alone)
<1>1. CASE view = "income"
  <2>1. p \in 1..7 /\ e \in Income!Edits(g, p)
    BY <1>1 DEF AllPages, EditsOf
  <2>2. alone => IncomeFits(t, g, open)
    BY <1>1 DEF AgainFits
  <2>3. alone => IncomeFits(t, e, open \cup {p})
    BY <1>1, <2>1, <2>2, IncomeEdited
  <2>4. QED BY <1>1, <2>3 DEF AgainFits
<1>2. CASE view = "health"
  <2>1. p \in 1..8 /\ e \in Health!Edits(g, p)
    BY <1>2 DEF AllPages, EditsOf
  <2>2. alone => HealthFits(t, g, open)
    BY <1>2 DEF AgainFits
  <2>3. DOMAIN g = Health!Fields
    BY <1>2 DEF FormAtMount, Blank
  <2>4. alone => HealthFits(t, e, open \cup {p})
    BY <1>2, <2>1, <2>2, <2>3, HealthEdited
  <2>5. QED BY <1>2, <2>4 DEF AgainFits
<1>3. CASE view = "household"
  <2>1. e \in EditsOf(g, p) /\ HouseholdFits(t, g, l, open, alone)
    BY <1>3 DEF AgainFits
  <2>2. HouseholdFits(t, e, l, open \cup {p}, alone)
    BY <1>3, <2>1, HouseholdEdited
  <2>3. QED BY <1>3, <2>2 DEF AgainFits
<1>4. CASE view = "aboutMe"
  <2>1. AboutMeFits(t, g, l, open, alone)
    BY <1>4 DEF AgainFits
  <2>2. AboutMeFits(t, e, l, open \cup {p}, alone)
    BY <1>4, <2>1, AboutMeEdited
  <2>3. QED BY <1>4, <2>2 DEF AgainFits
<1>5. CASE view = "housing"
  BY <1>5 DEF AgainFits
<1>6. QED BY <1>1, <1>2, <1>3, <1>4, <1>5, ViewsAssumption

\* The section as a save of the page p leaves it.
LEMMA AgainSaved ==
  ASSUME view \in Views, view # "housing", NEW s, DOMAIN s = SectionFields(view), NEW g, NEW l, NEW open,
         open \subseteq AllPages, NEW alone \in BOOLEAN, NEW p \in AllPages,
         NEW t, t = Applied(s, Requests(g, p)), AgainFits(view, s, g, l, open, alone)
  PROVE  AgainFits(view, t, g, l, open \ {p}, alone)
<1> DEFINE more == open \cup {p}
<1>1. Drifts(view, s, t, open, more)
  <2>1. OwnRequests(view, p, Requests(g, p))
    BY RequestsOwn
  <2>2. \A f \in SectionFields(view) : f \in PageFields(view, p) \/ t[f] = s[f]
    BY <2>1, AppliedFields
  <2>3. QED BY <2>2 DEF Drifts
<1>2. AgainFits(view, t, g, l, more, alone)
  <2>1. more \subseteq AllPages
    OBVIOUS
  <2> HIDE DEF more
  <2>2. QED BY <1>1, <2>1, AgainDrifts
<1>3. ASSUME NEW r, Requests(g, p) = <<r>> PROVE t = Merge(s, r)
  <2>1. <<r>> # <<>> /\ Tail(<<r>>) = <<>> /\ <<r>>[1] = r
    OBVIOUS
  <2>2. QED BY <1>3, <2>1 DEF Applied
<1>4. CASE view = "income"
  <2>1. p \in 1..7 /\ open \subseteq 1..7 /\ t = Applied(s, Income!Payloads(g, p))
    BY <1>4 DEF AllPages, Requests
  <2>2. alone => IncomeFits(t, g, open \cup {p})
    BY <1>2, <1>4 DEF AgainFits
  <2>3. alone => IncomeFits(t, g, open \ {p})
    BY <2>1, <2>2, IncomeSaved
  <2>4. QED BY <1>4, <2>3 DEF AgainFits
<1>5. CASE view = "health"
  <2>1. p \in 1..8 /\ open \subseteq 1..8 /\ DOMAIN s = Health!Fields
    BY <1>5 DEF AllPages, SectionFields
  <2>2. t = Merge(s, Health!Payload(g, p))
    BY <1>3, <1>5 DEF Requests
  <2>3. alone => HealthFits(t, g, open \cup {p})
    BY <1>2, <1>5 DEF AgainFits
  <2>4. alone => HealthFits(t, g, open \ {p})
    BY <2>1, <2>2, <2>3, HealthSaved
  <2>5. QED BY <1>5, <2>4 DEF AgainFits
<1>6. CASE view = "household"
  <2>1. t = Merge(s, Household!Payload(g, p))
    BY <1>3, <1>6 DEF Requests
  <2>2. HouseholdFits(t, g, l, more, alone)
    BY <1>2, <1>6 DEF AgainFits
  <2> DEFINE less == more \ {p}
  <2>3. less = open \ {p}
    OBVIOUS
  <2>4. HouseholdFits(t, g, l, less, alone)
    <3>1. less = more \ {p}
      OBVIOUS
    <3> HIDE DEF less, more
    <3>2. QED BY <1>6, <2>1, <2>2, <3>1, HouseholdSaved
  <2>5. QED BY <1>6, <2>3, <2>4 DEF AgainFits
<1>7. CASE view = "aboutMe"
  <2>1. t = Merge(s, AboutMe!Payload(g, p))
    BY <1>3, <1>7 DEF Requests
  <2>2. AboutMeFits(t, g, l, more, alone)
    BY <1>2, <1>7 DEF AgainFits
  <2> DEFINE less == more \ {p}
  <2>3. less = open \ {p}
    OBVIOUS
  <2>4. AboutMeFits(t, g, l, less, alone)
    <3>1. less = more \ {p}
      OBVIOUS
    <3> HIDE DEF less, more
    <3>2. QED BY <1>7, <2>1, <2>2, <3>1, AboutMeSaved
  <2>5. QED BY <1>7, <2>3, <2>4 DEF AgainFits
<1>8. QED BY <1>4, <1>5, <1>6, <1>7, ViewsAssumption

-----------------------------------------------------------------------------
(* What a page sends again, in every state.                                *)

\* Nobody works for an income that is not there, until somebody else writes.
WorkKnown == view = "income" /\ ~behind => 4 \in Missing \/ WorkFits(Target)
\* The pages that are not missing repeat the profile, those of several inputs as long as
\* nobody else writes.
PagesAgain ==
    \A alone \in BOOLEAN : (alone => ~behind) => AgainFits(view, Target, form, loaded, Missing, alone)
AgainInv ==
    /\ extracted \in BOOLEAN
    /\ view = "income" => IncomeForm(form)
    /\ Quiet => OneSave /\ WorkKnown /\ (HasProfile => PagesAgain)

LEMMA MissingPages == Missing \subseteq AllPages
  BY DEF Missing

\* The profile, or the saves that lead to it, change on missing pages only.
LEMMA DriftedOn ==
  ASSUME Shape, AgainInv, Quiet, [Next]_vars, UNCHANGED <<form, behind>>,
         HasProfile' => HasProfile /\ UNCHANGED loaded, OneSave',
         Drifts(view, Target, Target', Missing, Missing')
  PROVE  AgainInv'
<1>1. UNCHANGED <<view, extracted>> /\ AllPages' = AllPages /\ view \in Views
  BY SameView, SamePages DEF Shape
<1>2. Missing' \subseteq AllPages
  BY <1>1 DEF Missing
<1>3. HasProfile' => PagesAgain'
  <2> SUFFICES ASSUME HasProfile', NEW alone \in BOOLEAN, alone => ~behind
               PROVE  AgainFits(view, Target', form, loaded, Missing', alone)
    BY <1>1 DEF PagesAgain
  <2>1. AgainFits(view, Target, form, loaded, Missing, alone)
    BY DEF AgainInv, PagesAgain
  <2>2. QED BY <1>1, <1>2, <2>1, AgainDrifts
<1>4. WorkKnown'
  <2> SUFFICES ASSUME view = "income", ~behind, 4 \notin Missing' PROVE WorkFits(Target')
    BY <1>1 DEF WorkKnown
  <2>1. Missing \subseteq Missing'
    BY DEF Drifts
  <2>2. WorkFits(Target)
    BY <2>1 DEF AgainInv, WorkKnown
  <2>3. Missing' \subseteq 1..7 /\ Drifts("income", Target, Target', Missing, Missing')
    BY <1>2 DEF AllPages
  <2>4. QED BY <2>2, <2>3, WorkDrifts
<1>5. QED BY <1>1, <1>3, <1>4 DEF AgainInv

LEMMA Untargeted ==
  ASSUME UNCHANGED <<view, extracted, stored, saves, unsaved>>
  PROVE  /\ Target' = Target /\ Missing' = Missing /\ OneSave = OneSave'
         /\ Drifts(view, Target, Target', Missing, Missing')
<1>1. AllPages' = AllPages
  BY SamePages
<1>2. Target' = Target /\ Missing' = Missing /\ OneSave = OneSave'
  BY <1>1 DEF Target, Missing, OneSave
<1>3. QED BY <1>2, NothingDrifts

\* The steps that do not touch the form.
LEMMA ServedAgain ==
  ASSUME Shape, AgainInv, [Next]_vars, Quiet',
         \/ \E i \in DOMAIN saves : Apply(i) \/ Refuse(i) \/ Answer(i)
         \/ Read \/ Refetch \/ FetchFails
         \/ UNCHANGED <<view, extracted, stored, saves, unsaved, form, loaded, behind>>
  PROVE  AgainInv'
<1>1. Quiet /\ OneSave
  BY QuietBefore DEF AgainInv
<1>2. CASE \E i \in DOMAIN saves : Apply(i) \/ Refuse(i) \/ Answer(i)
  <2>1. PICK i \in DOMAIN saves : Apply(i) \/ Refuse(i) \/ Answer(i)
    BY <1>2
  <2>2. /\ OneSave' /\ Drifts(view, Target, Target', Missing, Missing')
        /\ UNCHANGED <<form, loaded, behind>>
    BY <1>1, <2>1, SaveServed DEF Shape
  <2>3. QED BY <1>1, <2>2, DriftedOn DEF HasProfile
<1>3. CASE \/ Read \/ Refetch \/ FetchFails
           \/ UNCHANGED <<view, extracted, stored, saves, unsaved, form, loaded, behind>>
  <2>1. /\ UNCHANGED <<view, extracted, stored, saves, unsaved, form, behind>>
        /\ HasProfile' => HasProfile /\ UNCHANGED loaded
    BY <1>3 DEF Read, Refetch, FetchFails, server, screen, HasProfile
  <2>2. OneSave' /\ Drifts(view, Target, Target', Missing, Missing')
    BY <1>1, <2>1, Untargeted
  <2>3. QED BY <1>1, <2>1, <2>2, DriftedOn
<1>4. QED BY <1>2, <1>3

-----------------------------------------------------------------------------
(* The steps of the user.                                                  *)

LEMMA UnfilledStays ==
  ASSUME [Next]_vars, AgainInv, ~Quiet',
         UNCHANGED form \/ view # "income"
  PROVE  AgainInv'
  BY SameView DEF AgainInv

LEMMA EditedAgain ==
  ASSUME Shape, AgainInv, Edit
  PROVE  AgainInv'
<1>1. PICK e \in EditsOf(form, page) : form' = e
  BY DEF Edit
<1>2. /\ page \in AllPages /\ unsaved' = unsaved \cup {page}
      /\ UNCHANGED <<view, extracted, stored, saves, loaded, behind, card, overlapped>>
  BY DEF Edit, Open, server
<1>3. AllPages' = AllPages /\ view \in Views /\ DOMAIN form = DOMAIN FormAtMount(view, extracted)
  BY <1>2, SamePages DEF Shape, ScreenOK
<1>4. /\ Target' = Target /\ Missing' = Missing \cup {page} /\ (OneSave <=> OneSave')
      /\ (Quiet <=> Quiet') /\ (HasProfile <=> HasProfile')
  BY <1>2, <1>3 DEF Target, Missing, OneSave, Quiet, HasProfile
<1>5. view = "income" => IncomeForm(e)
  <2> SUFFICES ASSUME view = "income" PROVE IncomeForm(e)
    OBVIOUS
  <2>1. page \in 1..7 /\ e \in Income!Edits(form, page) /\ IncomeForm(form)
    BY <1>1, <1>2 DEF AllPages, EditsOf, AgainInv
  <2>2. QED BY <2>1, IncomeChanges
<1>6. ASSUME Quiet, HasProfile PROVE PagesAgain'
  <2> SUFFICES ASSUME NEW alone \in BOOLEAN, alone => ~behind
               PROVE  AgainFits(view, Target, e, loaded, Missing \cup {page}, alone)
    BY <1>1, <1>2, <1>4 DEF PagesAgain
  <2>1. AgainFits(view, Target, form, loaded, Missing, alone)
    BY <1>6 DEF AgainInv, PagesAgain
  <2>2. view = "income" => IncomeForm(form)
    BY DEF AgainInv
  <2>3. QED BY <1>1, <1>2, <1>3, <2>1, <2>2, AgainEdited
<1>7. Quiet => WorkKnown'
  BY <1>2, <1>4 DEF AgainInv, WorkKnown
<1>8. QED BY <1>1, <1>2, <1>4, <1>5, <1>6, <1>7 DEF AgainInv

\* A page that is shown as the form g has it is saved.
LEMMA SavedAgain ==
  ASSUME Shape, AgainInv, [Next]_vars, Quiet', UNCHANGED <<stored, loaded, behind>>,
         NEW g, form' = g, view = "income" => IncomeForm(g),
         NEW p \in AllPages, IsReady(g, p), NEW to, to # Stay, Start(Save(p, Requests(g, p), to)),
         unsaved' = unsaved \ {p},
         HasProfile => \A alone \in BOOLEAN : (alone => ~behind) =>
                          AgainFits(view, Target, g, loaded, Missing \cup {p}, alone)
  PROVE  AgainInv'
<1> DEFINE list == Requests(g, p)
<1>1. UNCHANGED <<view, extracted>> /\ view \in Views /\ view # "housing" /\ Quiet /\ OneSave /\ ~overlapped'
  BY SameView, QuietBefore DEF Shape, Quiet, AgainInv
<1>2. OwnRequests(view, p, list)
  BY <1>1, RequestsOwn
<1>3. /\ OneSave' /\ Target = stored /\ Target' = Applied(stored, list) /\ Missing' = Missing \ {p}
  <2> HIDE DEF list
  <2>1. Start(Save(p, list, to))
    BY DEF list
  <2>2. QED BY <1>1, <1>2, <2>1, SaveStarts
<1>4. DOMAIN stored = SectionFields(view)
  BY DEF Shape, DataOK
<1>5. HasProfile' => PagesAgain'
  <2> SUFFICES ASSUME HasProfile', NEW alone \in BOOLEAN, alone => ~behind
               PROVE  AgainFits(view, Target', g, loaded, Missing', alone)
    BY <1>1 DEF PagesAgain
  <2> DEFINE more == Missing \cup {p}
  <2>1. AgainFits(view, stored, g, loaded, more, alone)
    BY <1>3 DEF HasProfile
  <2>2. more \subseteq AllPages
    BY MissingPages
  <2>3. AgainFits(view, Target', g, loaded, more \ {p}, alone)
    <3> HIDE DEF more
    <3>1. QED BY <1>1, <1>3, <1>4, <2>1, <2>2, AgainSaved DEF list
  <2>4. more \ {p} = Missing'
    BY <1>3
  <2>5. QED BY <2>3, <2>4
<1>6. WorkKnown'
  <2> SUFFICES ASSUME view = "income", ~behind, 4 \notin Missing' PROVE WorkFits(Target')
    BY <1>1 DEF WorkKnown
  <2>1. p \in 1..7 /\ list = Income!Payloads(g, p) /\ Income!Ready(g, p)
    BY DEF AllPages, Requests, IsReady
  <2>2. CASE p = 4
    BY <1>3, <2>1, <2>2, WorkSaved
  <2>3. CASE p # 4
    <3>1. 4 \notin Missing
      BY <1>3, <2>3
    <3>2. WorkFits(stored)
      BY <1>1, <1>3, <3>1 DEF AgainInv, WorkKnown
    <3>3. Drifts("income", stored, Target', Missing, Missing \cup {p})
      <4>1. \A f \in SectionFields(view) : f \in PageFields(view, p) \/ Target'[f] = stored[f]
        BY <1>2, <1>3, <1>4, AppliedFields
      <4>2. QED BY <4>1 DEF Drifts
    <3> DEFINE more == Missing \cup {p}
    <3>4. more \subseteq 1..7 /\ 4 \notin more
      BY <2>3, <3>1, MissingPages DEF AllPages
    <3> HIDE DEF more
    <3>5. QED BY <3>2, <3>3, <3>4, WorkDrifts DEF more
  <2>4. QED BY <2>2, <2>3
<1>7. QED BY <1>1, <1>3, <1>5, <1>6 DEF AgainInv

LEMMA NextAgain ==
  ASSUME Shape, AgainInv, PressNext, Quiet'
  PROVE  AgainInv'
<1> DEFINE to == NextOf(form, page)
<1>0. [Next]_vars
  BY DEF Next, User
<1>1. /\ page \in AllPages /\ IsReady(form, page) /\ Start(Save(page, Requests(form, page), to))
      /\ unsaved' = unsaved \ {page} /\ UNCHANGED <<stored, loaded, behind, form>>
  BY DEF PressNext, SavePage, Open, server
<1>2. to # Stay
  <2>1. to \in AllPages \cup {Overview} /\ AllPages \subseteq 1..15
    BY <1>1, PagesLeadOn, PageNumbers DEF Shape
  <2>2. QED BY <2>1 DEF Stay, Overview
<1>3. Quiet /\ view \in Views
  BY <1>0, QuietBefore DEF Shape
<1>4. HasProfile => \A alone \in BOOLEAN : (alone => ~behind) =>
                       AgainFits(view, Target, form, loaded, Missing \cup {page}, alone)
  <2> SUFFICES ASSUME HasProfile, NEW alone \in BOOLEAN, alone => ~behind
               PROVE  AgainFits(view, Target, form, loaded, Missing \cup {page}, alone)
    OBVIOUS
  <2>1. AgainFits(view, Target, form, loaded, Missing, alone)
    BY <1>3 DEF AgainInv, PagesAgain
  <2> DEFINE more == Missing \cup {page}
  <2>2. more \subseteq AllPages /\ Drifts(view, Target, Target, Missing, more)
    BY <1>1, MissingPages, NothingDrifts
  <2> HIDE DEF more
  <2>3. QED BY <1>3, <2>1, <2>2, AgainDrifts DEF more
<1>5. view = "income" => IncomeForm(form)
  BY DEF AgainInv
<1> HIDE DEF to
<1>6. QED BY <1>0, <1>1, <1>2, <1>4, <1>5, SavedAgain

LEMMA ChosenAgain ==
  ASSUME Shape, AgainInv, ChooseAndSave, Quiet'
  PROVE  AgainInv'
<1>0. [Next]_vars
  BY DEF Next, User
<1>1. Quiet /\ view \in Views /\ view # "housing"
  BY <1>0, QuietBefore DEF Shape, Quiet
<1>2. PICK g \in AboutMe!Page3Gender(form) :
        form' = g /\ Start(Save(page, Requests(g, page), NextOf(g, page)))
  BY <1>1 DEF ChooseAndSave
<1>3. /\ view = "aboutMe" /\ page = 3 /\ page \in AllPages
      /\ unsaved' = unsaved \ {page} /\ UNCHANGED <<stored, loaded, behind>>
  BY <1>1 DEF ChooseAndSave, Open, server
<1> DEFINE to == NextOf(g, page)
<1>4. to # Stay
  <2>1. to \in AllPages \cup {Overview} /\ AllPages \subseteq 1..15
    BY <1>1, <1>3, PagesLeadOn, PageNumbers
  <2>2. QED BY <2>1 DEF Stay, Overview
<1>5. HasProfile => \A alone \in BOOLEAN : (alone => ~behind) =>
                       AgainFits(view, Target, g, loaded, Missing \cup {page}, alone)
  <2> SUFFICES ASSUME HasProfile, NEW alone \in BOOLEAN, alone => ~behind
               PROVE  AgainFits(view, Target, g, loaded, Missing \cup {page}, alone)
    OBVIOUS
  <2>1. AgainFits(view, Target, form, loaded, Missing, alone)
    BY <1>1 DEF AgainInv, PagesAgain
  <2>2. DOMAIN form = DOMAIN FormAtMount(view, extracted) /\ view # "income"
    BY <1>3 DEF Shape, ScreenOK
  <2>3. QED BY <1>1, <1>2, <1>3, <2>1, <2>2, AgainEdited
<1>6. IsReady(g, page)
  BY <1>3 DEF IsReady, AboutMe!Ready
<1> HIDE DEF to
<1>7. Start(Save(page, Requests(g, page), to)) /\ form' = g
  BY <1>2 DEF to
<1>8. view # "income"
  BY <1>3
<1>9. QED BY <1>0, <1>3, <1>4, <1>5, <1>6, <1>7, <1>8, SavedAgain

-----------------------------------------------------------------------------
(* Other writes, the next profile, and the theorem.                        *)

LEMMA WrittenAgain ==
  ASSUME Shape, AgainInv, WriteElsewhere, Quiet'
  PROVE  AgainInv'
<1>0. [Next]_vars
  BY DEF Next, Server
<1>1. /\ behind' = TRUE /\ UNCHANGED <<view, extracted, form, loaded, saves, unsaved>>
      /\ overlapped' = (overlapped \/ saves # <<>> \/ loaded # stored)
  BY DEF WriteElsewhere, screen
<1>2. Quiet /\ view \in Views /\ view # "housing"
  BY <1>0, QuietBefore DEF Shape, Quiet
<1>3. saves = <<>> /\ loaded = stored
  BY <1>1, Zenon DEF Quiet
<1>4. Target = stored /\ AllPages' = AllPages
  BY <1>1, <1>3, SamePages DEF Target, Ahead, Applied
<1>5. Missing' = Missing /\ OneSave' /\ WorkKnown' /\ (HasProfile' <=> HasProfile)
  BY <1>1, <1>3, <1>4 DEF Missing, OneSave, WorkKnown, HasProfile
<1>6. HasProfile' => PagesAgain'
  <2> SUFFICES ASSUME HasProfile PROVE AgainFits(view, Target', form, loaded, Missing, FALSE)
    BY <1>1, <1>5 DEF PagesAgain
  <2>1. AgainFits(view, loaded, form, loaded, Missing, FALSE)
    BY <1>2, <1>3, <1>4 DEF AgainInv, PagesAgain
  <2> DEFINE t == Target'
  <2> HIDE DEF t
  <2>2. AgainFits(view, t, form, loaded, Missing, FALSE)
    <3>1. CASE view = "household"
      <4>1. HouseholdFits(loaded, form, loaded, Missing, FALSE)
        BY <2>1, <3>1 DEF AgainFits
      <4>2. HouseholdFits(t, form, loaded, Missing, FALSE)
        BY <4>1, HouseholdChanged
      <4>3. QED BY <3>1, <4>2 DEF AgainFits
    <3>2. CASE view = "aboutMe"
      <4>1. AboutMeFits(loaded, form, loaded, Missing, FALSE)
        BY <2>1, <3>2 DEF AgainFits
      <4>2. AboutMeFits(t, form, loaded, Missing, FALSE)
        BY <4>1, AboutMeChanged
      <4>3. QED BY <3>2, <4>2 DEF AgainFits
    <3>3. QED BY <3>1, <3>2 DEF AgainFits
  <2>3. QED BY <2>2 DEF t
<1>7. QED BY <1>1, <1>5, <1>6 DEF AgainInv

\* A form that is filled with the profile x shows it, but for what is guessed or read from a
\* document.
LEMMA FilledAgain ==
  ASSUME view \in Views, extracted \in BOOLEAN, NEW t, NEW x, Whole(view, x), NEW g, g = FirstForm(x),
         NEW open, open \subseteq AllPages, Guessed(g, x) \cup FromDocument \subseteq open,
         NEW alone \in BOOLEAN, view \in {"income", "health"} /\ alone => t = x,
         view = "income" /\ alone => WorkFits(x)
  PROVE  AgainFits(view, t, g, x, open, alone)
<1>1. CASE view = "household"
  <2>1. g = Household!Hydrate(x)
    BY <1>1 DEF FirstForm
  <2>2. HouseholdFits(t, g, x, Guessed(g, x), alone)
    BY <1>1, <2>1, HouseholdHydrated
  <2>3. Drifts(view, t, t, Guessed(g, x), open)
    BY NothingDrifts
  <2>4. HouseholdFits(t, g, x, open, alone)
    BY <1>1, <2>2, <2>3, HouseholdDrifts
  <2>5. QED BY <1>1, <2>4 DEF AgainFits
<1>2. CASE view = "aboutMe"
  <2>1. g = AboutMe!Hydrate(x, extracted) /\ AboutMe!CitizenshipFits(x)
    BY <1>2 DEF FirstForm, Whole
  <2>2. AboutMeFits(t, g, x, Guessed(g, x), alone)
    BY <1>2, <2>1, AboutMeHydrated
  <2>3. Drifts(view, t, t, Guessed(g, x), open)
    BY NothingDrifts
  <2>4. AboutMeFits(t, g, x, open, alone)
    BY <1>2, <2>2, <2>3, AboutMeDrifts
  <2>5. QED BY <1>2, <2>4 DEF AgainFits
<1>3. CASE view = "income"
  <2>1. g = Income!Hydrate(x, extracted) /\ Income!NoOrphans(x) /\ (extracted => {3, 7} \subseteq open)
    BY <1>3 DEF FirstForm, Whole, FromDocument, PagesOfDocument
  <2>2. alone => IncomeFits(x, g, open)
    BY <1>3, <2>1, IncomeHydrated
  <2>3. alone => t = x
    BY <1>3
  <2>4. QED BY <1>3, <2>2, <2>3 DEF AgainFits
<1>4. CASE view = "health"
  <2>1. g = Health!Hydrate(x) /\ (alone => t = x)
    BY <1>4 DEF FirstForm
  <2>2. HealthFits(x, g, open)
    BY <2>1, HealthHydrated
  <2>3. QED BY <1>4, <2>1, <2>2 DEF AgainFits
<1>5. CASE view = "housing"
  BY <1>5 DEF AgainFits
<1>6. QED BY <1>1, <1>2, <1>3, <1>4, <1>5, ViewsAssumption

LEMMA FilledIncome ==
  ASSUME view = "income", extracted \in BOOLEAN, NEW x
  PROVE  IncomeForm(FirstForm(x))
<1>1. FirstForm(x) = Income!Hydrate(x, extracted)
  BY DEF FirstForm
<1>2. QED BY <1>1, IncomeFilled

\* The next profile is merged.
LEMMA MergedAgain ==
  ASSUME view \in Views, NEW t, NEW x, Whole(view, x), NEW g, g = form, FitForm(view, g),
         NEW l, l = loaded, Whole(view, l), NEW n, n = LaterForm(x), NEW open, NEW alone \in BOOLEAN,
         AgainFits(view, t, g, l, open, alone)
  PROVE  AgainFits(view, t, n, x, open \cup NewlyGuessed(n, x), alone)
<1>1. CASE view = "household"
  <2>1. n = Household!Sync(form, loaded, x)
    BY <1>1 DEF LaterForm
  <2>2. HouseholdFits(t, form, loaded, open, alone)
    BY <1>1 DEF AgainFits
  <2>3. HouseholdFits(t, n, x, open \cup NewlyGuessed(n, x), alone)
    BY <1>1, <2>1, <2>2, HouseholdSynced
  <2>4. QED BY <1>1, <2>3 DEF AgainFits
<1>2. CASE view = "aboutMe"
  <2>1. n = AboutMe!Sync(g, l, x, extracted)
    BY <1>2 DEF LaterForm
  <2>2. AboutMe!CitizenshipFits(x) /\ AboutMe!CitizenshipFits(l) /\ g["citizenship"] \in Citizenships
    BY <1>2 DEF Whole, FitForm
  <2>3. AboutMeFits(t, g, l, open, alone)
    BY <1>2 DEF AgainFits
  <2>4. AboutMeFits(t, n, x, open \cup NewlyGuessed(n, x), alone)
    BY <1>2, <2>1, <2>2, <2>3, AboutMeSynced
  <2>5. QED BY <1>2, <2>4 DEF AgainFits
<1>3. CASE view \notin {"household", "aboutMe"}
  <2>1. n = g
    <3>1. view \in {"housing", "income", "health"}
      BY <1>3, ViewsAssumption
    <3>2. QED BY <3>1 DEF LaterForm
  <2>2. NewlyGuessed(n, x) = {}
    BY <1>3 DEF NewlyGuessed, Guessed, Merging
  <2>3. open \cup NewlyGuessed(n, x) = open
    BY <2>2
  <2>4. QED BY <1>3, <2>1, <2>3 DEF AgainFits
<1>4. QED BY <1>1, <1>2, <1>3

LEMMA ArrivedAgain ==
  ASSUME Shape, DetailsFit, AgainInv, Arrive, Quiet'
  PROVE  AgainInv'
<1>0. [Next]_vars
  BY DEF Next, Wallet
<1>1. /\ UNCHANGED <<view, extracted, stored, saves>> /\ loaded' = fetch /\ fetch \notin {NoFetch, Asked}
      /\ view \in Views /\ AllPages' = AllPages /\ Quiet
  BY <1>0, SamePages, QuietBefore DEF Arrive, server, Shape
<1>2. Target' = Target /\ OneSave' /\ OneSave /\ extracted \in BOOLEAN
  BY <1>1 DEF Target, OneSave, AgainInv
<1>3. Whole(view, fetch) /\ FitForm(view, form)
  BY <1>1 DEF DetailsFit, CopiesFit
<1>4. CASE HasProfile
  <2>1. form' = LaterForm(fetch) /\ UNCHANGED behind /\ unsaved' = unsaved \cup NewlyGuessed(form', fetch)
    BY <1>4 DEF Arrive
  <2>2. NewlyGuessed(form', fetch) \subseteq AllPages
    BY DEF NewlyGuessed, Guessed
  <2>3. Missing' = Missing \cup NewlyGuessed(form', fetch)
    BY <1>1, <2>1, <2>2 DEF Missing
  <2>4. PagesAgain'
    <3> SUFFICES ASSUME NEW alone \in BOOLEAN, alone => ~behind
                 PROVE  AgainFits(view, Target, form', fetch, Missing', alone)
      BY <1>1, <1>2, <2>1 DEF PagesAgain
    <3>1. AgainFits(view, Target, form, loaded, Missing, alone)
      BY <1>1, <1>4 DEF AgainInv, PagesAgain
    <3>2. Whole(view, loaded)
      BY <1>4 DEF DetailsFit, CopiesFit
    <3>3. AgainFits(view, Target, form', fetch, Missing \cup NewlyGuessed(form', fetch), alone)
      BY <1>1, <1>3, <2>1, <3>1, <3>2, MergedAgain
    <3>4. QED BY <2>3, <3>3
  <2>5. WorkKnown'
    BY <1>1, <1>2, <2>1, <2>3 DEF AgainInv, WorkKnown
  <2>6. view = "income" => IncomeForm(form')
    BY <2>1 DEF AgainInv, LaterForm
  <2>7. QED BY <1>1, <1>2, <2>4, <2>5, <2>6 DEF AgainInv
<1>5. CASE ~HasProfile
  <2>1. /\ form' = FirstForm(fetch) /\ unsaved' = Guessed(form', fetch) \cup FromDocument
        /\ behind' = (behind \/ saves # <<>> \/ fetch # stored \/ unsaved # {})
    BY <1>5 DEF Arrive
  <2>2. ~behind' => ~behind /\ saves = <<>> /\ fetch = stored /\ unsaved = {}
    BY <2>1, Zenon
  <2>3. ~behind' => Target = fetch /\ Missing = {}
    BY <2>2 DEF Target, Ahead, Applied, Missing, RefusedPage
  <2>4. view = "income" /\ ~behind' => WorkFits(Target) /\ WorkFits(fetch)
    BY <1>1, <2>2, <2>3 DEF AgainInv, WorkKnown
  <2>5. Missing' \subseteq AllPages /\ Guessed(form', fetch) \cup FromDocument \subseteq Missing'
    <3>1. Guessed(form', fetch) \subseteq AllPages
      BY DEF Guessed
    <3>2. FromDocument \subseteq AllPages
      BY <1>1, ViewsAssumption DEF FromDocument, PagesOfDocument, AllPages
    <3>3. QED BY <1>1, <2>1, <3>1, <3>2 DEF Missing
  <2>6. PagesAgain'
    <3> SUFFICES ASSUME NEW alone \in BOOLEAN, alone => ~behind'
                 PROVE  AgainFits(view, Target, form', fetch, Missing', alone)
      BY <1>1, <1>2 DEF PagesAgain
    <3>1. alone => Target = fetch
      BY <2>3
    <3>2. view = "income" /\ alone => WorkFits(fetch)
      BY <2>4
    <3>3. QED BY <1>1, <1>2, <1>3, <2>1, <2>5, <3>1, <3>2, FilledAgain
  <2>7. WorkKnown'
    BY <1>1, <1>2, <2>4 DEF WorkKnown
  <2>8. view = "income" => IncomeForm(form')
    BY <1>2, <2>1, FilledIncome
  <2>9. QED BY <1>1, <1>2, <2>6, <2>7, <2>8 DEF AgainInv
<1>6. QED BY <1>4, <1>5

LEMMA AgainKept ==
  ASSUME Shape, DetailsFit, AgainInv, [Next]_vars
  PROVE  AgainInv'
<1>1. CASE Edit
  BY <1>1, EditedAgain
<1>2. CASE ~Edit /\ ~Arrive
  <2>1. CASE ~Quiet'
    <3>1. UNCHANGED form \/ view # "income"
      BY <1>2 DEF Next, User, Server, Wallet, vars, ChooseAndSave, SaveField, PressNext, Back, SavePage,
                  Apply, Refuse, Answer, Succeed, Fail, CardAnswered, Refetch, Read, FetchFails,
                  WriteElsewhere, screen
    <3>2. QED BY <2>1, <3>1, UnfilledStays
  <2>2. CASE Quiet'
    <3>0. view # "housing"
      BY <2>2, QuietBefore DEF Quiet
    <3>1. CASE ChooseAndSave
      BY <2>2, <3>1, ChosenAgain
    <3>2. CASE PressNext
      BY <2>2, <3>2, NextAgain
    <3>3. CASE SaveField
      BY <3>0, <3>3 DEF SaveField
    <3>4. CASE WriteElsewhere
      BY <2>2, <3>4, WrittenAgain
    <3>5. CASE \E i \in DOMAIN saves : Apply(i) \/ Refuse(i) \/ Answer(i)
      BY <2>2, <3>5, ServedAgain
    <3>6. CASE Read \/ Refetch \/ FetchFails
      BY <2>2, <3>6, ServedAgain
    <3>7. CASE Back \/ UNCHANGED vars
      <4>1. UNCHANGED <<view, extracted, stored, saves, unsaved, form, loaded, behind>>
        BY <3>0, <3>7 DEF Back, vars, server
      <4>2. QED BY <2>2, <4>1, ServedAgain
    <3>8. QED BY <1>2, <3>1, <3>2, <3>3, <3>4, <3>5, <3>6, <3>7 DEF Next, User, Server, Wallet
  <2>3. QED BY <2>1, <2>2
<1>3. CASE Arrive
  <2>1. CASE Quiet'
    BY <1>3, <2>1, ArrivedAgain
  <2>2. CASE ~Quiet'
    <3>1. view = "income" => IncomeForm(form')
      <4>1. form' = FirstForm(fetch) \/ form' = LaterForm(fetch)
        BY <1>3 DEF Arrive
      <4>2. view = "income" => IncomeForm(FirstForm(fetch)) /\ IncomeForm(LaterForm(fetch))
        BY FilledIncome DEF AgainInv, LaterForm
      <4>3. QED BY <4>1, <4>2
    <3>2. QED BY <2>2, <3>1, SameView DEF AgainInv
  <2>3. QED BY <2>1, <2>2
<1>4. QED BY <1>1, <1>2, <1>3

\* The work a view is opened with is one that its page can write.
WorkWhole == "income" \in Views => \A s \in Stored["income"] : WorkFits(s)

LEMMA InitiallyAgain == ASSUME SectionsWhole, WorkWhole, Init PROVE AgainInv
<1>1. /\ view \in Views /\ stored \in Stored[view] /\ saves = <<>> /\ unsaved = {} /\ extracted \in BOOLEAN
  BY DEF Init
<1>2. Whole(view, stored) /\ DOMAIN stored = SectionFields(view)
  BY <1>1, SectionsAssumption DEF SectionsWhole
<1>3. Target = stored /\ Missing = {} /\ OneSave
  BY <1>1 DEF Target, Ahead, Applied, Missing, RefusedPage, OneSave
<1>4. view = "income" => WorkFits(stored)
  BY <1>1 DEF WorkWhole
<1>5. WorkKnown
  BY <1>3, <1>4 DEF WorkKnown
<1>6. CASE Mounted
  <2>1. ~HasProfile
    BY <1>6 DEF Mounted, HasProfile
  <2>2. view = "income" => IncomeForm(form)
    BY <1>6 DEF Mounted, FormAtMount, IncomeForm, Income!EmptyForm
  <2>3. QED BY <1>1, <1>3, <1>5, <2>1, <2>2 DEF AgainInv
<1>7. CASE CameThisFar
  <2>1. form = FirstForm(stored) /\ loaded = stored /\ ~extracted
    BY <1>7 DEF CameThisFar
  <2>2. view = "income" => IncomeForm(form)
    BY <1>1, <2>1, FilledIncome
  <2>3. Guessed(form, stored) \subseteq AllPages /\ FromDocument = {}
    BY <2>1 DEF Guessed, FromDocument
  <2>4. ASSUME NEW p \in Guessed(form, stored) PROVE view = "aboutMe" /\ p = 5
    <3>1. Merging
      BY <2>4 DEF Guessed
    <3>2. QED BY <1>1, <1>2, <1>7, <2>3, <2>4, <3>1, NothingGuessed
  <2>5. PagesAgain
    <3> SUFFICES ASSUME NEW alone \in BOOLEAN PROVE AgainFits(view, stored, form, stored, {}, alone)
      BY <1>3, <2>1 DEF PagesAgain
    <3> DEFINE open == Guessed(form, stored)
    <3>1. open \subseteq AllPages /\ Guessed(form, stored) \cup FromDocument \subseteq open
      BY <2>3
    <3>2. \A q \in open : view = "aboutMe" /\ q = 5
      BY <2>4
    <3> HIDE DEF open
    <3>3. AgainFits(view, stored, form, stored, open, alone)
      BY <1>1, <1>2, <1>4, <2>1, <3>1, FilledAgain
    <3>4. CASE view = "aboutMe"
      <4>1. AboutMeFits(stored, form, stored, open, alone)
        BY <3>3, <3>4 DEF AgainFits
      <4>2. 1 \notin open /\ 2 \notin open /\ 3 \notin open /\ 6 \notin open
        BY <3>2
      <4>3. AboutMeFits(stored, form, stored, {}, alone)
        BY <4>1, <4>2 DEF AboutMeFits
      <4>4. QED BY <3>4, <4>3 DEF AgainFits
    <3>5. CASE view # "aboutMe"
      <4>1. open = {}
        BY <3>2, <3>5
      <4>2. QED BY <3>3, <4>1
    <3>6. QED BY <3>4, <3>5
  <2>6. QED BY <1>1, <1>3, <1>5, <2>2, <2>5 DEF AgainInv
<1>8. QED BY <1>6, <1>7 DEF Init

LEMMA SettledAgain ==
  ASSUME MarkersAreNoSections, Shape, IInv, DetailsFit, AgainInv
  PROVE  ResavingKeepsAnswers
<1> SUFFICES ASSUME view # "housing", Settled, card # "verified", ~overlapped, Merging \/ ~behind
             PROVE  ScreenIsStored(AgreeingPages)
  BY DEF ResavingKeepsAnswers
<1>1. saves = <<>> /\ unsaved = {} /\ HasProfile /\ fetch = NoFetch /\ ~unseen
  BY DEF Settled
<1>2. loaded = stored
  BY <1>1, CacheKnown DEF CacheCatchesUp
<1>3. Target = stored /\ Missing = {}
  BY <1>1 DEF Target, Ahead, Applied, Missing, RefusedPage
<1>4. Whole(view, stored) /\ view \in Views
  BY DEF DetailsFit, SectionFits, Shape
<1>5. PICK alone \in BOOLEAN : alone <=> ~behind
  OBVIOUS
<1>6. AgainFits(view, stored, form, stored, {}, alone)
  <2>1. Quiet
    BY DEF Quiet
  <2>2. AgainFits(view, Target, form, loaded, Missing, alone)
    BY <1>1, <1>5, <2>1 DEF AgainInv, PagesAgain
  <2>3. QED BY <1>2, <1>3, <2>2
<1>7. ~behind => alone
  BY <1>5
<1>8. CASE view = "household"
  <2>1. Household!NoOrphans(stored) /\ HouseholdFits(stored, form, stored, {}, alone)
    BY <1>4, <1>6, <1>8 DEF Whole, AgainFits
  <2>2. QED BY <1>7, <1>8, <2>1, HouseholdSettles
<1>9. CASE view = "aboutMe"
  <2>1. AboutMe!CitizenshipFits(stored) /\ AboutMeFits(stored, form, stored, {}, alone)
    BY <1>4, <1>6, <1>9 DEF Whole, AgainFits
  <2>2. QED BY <1>7, <1>9, <2>1, AboutMeSettles
<1>10. CASE view = "income"
  <2>1. alone /\ AgreeingPages = AllPages
    BY <1>7, <1>10 DEF Merging, AgreeingPages
  <2>2. IncomeFits(stored, form, {})
    BY <1>6, <1>10, <2>1 DEF AgainFits
  <2>3. QED BY <1>10, <2>1, <2>2, IncomeSettles
<1>11. CASE view = "health"
  <2>1. alone /\ AgreeingPages = AllPages
    BY <1>7, <1>11 DEF Merging, AgreeingPages
  <2>2. HealthFits(stored, form, {})
    BY <1>6, <1>11, <2>1 DEF AgainFits
  <2>3. QED BY <1>11, <2>1, <2>2, HealthSettles
<1>12. QED BY <1>4, <1>8, <1>9, <1>10, <1>11, ViewsAssumption

\* Whatever is edited, saved, refused, half saved, lost, read late or written elsewhere: once
\* nothing is on its way, a page that is saved again as it is shown keeps every answer the
\* profile has (the payloads and the initial values of the views, shouldUpdate).
THEOREM SavingAgainKeepsAnswers ==
  ASSUME MarkersAreNoSections, SectionsWhole, WorkWhole
  PROVE  Spec => []ResavingKeepsAnswers
<1> DEFINE Inv == Shape /\ IInv /\ DetailsFit /\ AgainInv
<1>1. Init => Inv
  BY InitialShape, InitiallyKnown, InitialCareful, InitiallyAgain
<1>2. Inv /\ [Next]_vars => Inv'
  BY ShapeKept, KnownKept, CarefulKept, AgainKept
<1>3. Inv => ResavingKeepsAnswers
  BY SettledAgain
<1>4. QED BY <1>1, <1>2, <1>3, PTL DEF Spec
=============================================================================
