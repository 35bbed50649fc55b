-------------------------- MODULE EligibilityFlow --------------------------
(***************************************************************************)
(* The eligibility check of a guest: store/EligibilityEngine.ts decides    *)
(* the questions, store/useEligibilityStore.ts keeps the answers, and      *)
(* views/EligibilityStart, EligibilityFlow and EligibilityResult show      *)
(* them.  The address bar may ask for any question at any time.            *)
(***************************************************************************)
EXTENDS BenefitRules, FiniteSets, Functions

CONSTANTS
    Options,    \* the values of a question that this instance offers
    BadDate,    \* a date the input refuses: out of range or incomplete
    TooBig,     \* digits beyond the safe integers, which the schema refuses
    Bookmarks,  \* questions asked for by their address
    Days,       \* the days the check may run over, a sequence of dates
    Empty,      \* an empty field
    NoDraft,    \* a card that keeps no draft
    MaxChildren \* bound on the rows of the children card

Questions == {"household", "children", "birthdate", "germany", "employment", "gross-income",
              "work-capacity", "net-income", "warm-rent", "assets", "benefits",
              "citizenship", "residence-status"}
Results == {"result_eligible", "result_not_eligible"}

ASSUME BoundsAssumption == Bookmarks \subseteq Questions /\ MaxChildren \in Nat \ {0}

\* GRAPH: the answer a node asks for, the kind of its card and where it leads.
KeyOf == [q \in Questions |->
    CASE q = "household"      -> "householdComposition" [] q = "children"   -> "children"
      [] q = "birthdate"      -> "dateOfBirth"          [] q = "germany"    -> "livesInGermany"
      [] q = "employment"     -> "isEmployed"           [] q = "gross-income" -> "monthlyGrossIncome"
      [] q = "work-capacity"  -> "workCapacity"         [] q = "net-income" -> "monthlyNetHouseholdIncome"
      [] q = "warm-rent"      -> "monthlyWarmRent"      [] q = "assets"     -> "assetsBand"
      [] q = "benefits"       -> "receivesBenefits"     [] q = "citizenship" -> "citizenship"
      [] q = "residence-status" -> "hasSecureResidenceStatus"]
NumberQuestions == {"gross-income", "net-income", "warm-rent"}
Dates == Nat \X (1..12) \X (1..31)
Earlier(d, e) == \/ d[1] < e[1]
                 \/ d[1] = e[1] /\ d[2] < e[2]
                 \/ d[1] = e[1] /\ d[2] = e[2] /\ d[3] < e[3]

\* EligibilityCheckSchema: an amount is a whole number and at least 0.
ASSUME OptionsAssumption ==
    /\ Questions \subseteq DOMAIN Options
    /\ \A q \in NumberQuestions : Options[q] \subseteq Nat
    /\ Options["birthdate"] \subseteq Dates /\ Options["children"] \subseteq Dates
\* The clock of the browser is not set back.
ASSUME DaysAssumption ==
    /\ Days \in Seq(Dates) /\ Days # <<>>
    /\ \A i, j \in DOMAIN Days : i < j => ~Earlier(Days[j], Days[i])
DraftQuestions == NumberQuestions \cup {"birthdate", "children"}
ChoiceQuestions == Questions \ DraftQuestions

AfterIncome(a, day) == IF Retired(a, day) THEN "net-income" ELSE "work-capacity"

\* An open condition leads down its longer branch.
NextOf(q, a, day) ==
    CASE q = "household" ->
            IF \/ Is(a, "householdComposition", "SINGLE")
               \/ Is(a, "householdComposition", "COUPLE_NO_CHILDREN")
            THEN "birthdate" ELSE "children"
      [] q = "children"      -> "birthdate"
      [] q = "birthdate"     -> "germany"
      [] q = "germany"       -> IF Is(a, "livesInGermany", "NO")
                                THEN "result_not_eligible" ELSE "employment"
      [] q = "employment"    -> IF Is(a, "isEmployed", "NO")
                                THEN AfterIncome(a, day) ELSE "gross-income"
      [] q = "gross-income"  -> AfterIncome(a, day)
      [] q = "work-capacity" -> "net-income"
      [] q = "net-income"    -> "warm-rent"
      [] q = "warm-rent"     -> "assets"
      [] q = "assets"        -> "benefits"
      [] q = "benefits"      -> "citizenship"
      [] q = "citizenship"   ->
            IF Is(a, "citizenship", "GERMAN") \/ Is(a, "citizenship", "EU")
            THEN "result_eligible" ELSE "residence-status"
      [] q = "residence-status" -> "result_eligible"

\* The nodes from one on, up to a result or a node to stop at.
Walk(from, Stop(_), a, day) ==
    LET walk[n \in Questions \cup Results] ==
            IF n \in Results \/ Stop(n) THEN <<n>> ELSE <<n>> \o walk[NextOf(n, a, day)]
    IN  walk[from]

ValidPath(a, day) == Walk("household", LAMBDA q : KeyOf[q] \notin DOMAIN a, a, day)
OnPath(path) == {path[i] : i \in DOMAIN path} \cap Questions

\* answersOnValidPath as it would be without its filter.
AnswersAsStored(a, day) == a
AnswersOnValidPath(a, day) ==
    Restrict(a, {KeyOf[q] : q \in OnPath(ValidPath(a, day))} \cap DOMAIN a)

\* The questions from one to the result.
Ahead(from, a, day) ==
    LET ahead[n \in Questions \cup Results] ==
            IF n \in Results THEN 0 ELSE 1 + ahead[NextOf(n, a, day)]
    IN  ahead[from]

\* countRemainingQuestions, with the conditions it does not know yet decided the short way.
CountIgnoringOpenConditions(from, a, day) ==
    LET full == [k \in DOMAIN a \cup {"householdComposition", "citizenship"} |->
                   IF k \in DOMAIN a THEN a[k]
                   ELSE IF k = "citizenship" THEN "GERMAN" ELSE "SINGLE"]
    IN  Ahead(from, full, day)
CountRemainingQuestions(from, a, day) == Ahead(from, a, day)

\* getProgress: the questions it counts ahead of each step before the i-th of the path.  The
\* bar moves by one over that count of what is left, so it is full at the first count of 1.
StepCountsWithAllAnswers(a, i, day) ==
    LET path == ValidPath(a, day)
    IN  [j \in 1..(i - 1) |-> CountRemainingQuestions(path[j], a, day)]
StepCounts(a, i, day) ==
    LET path == ValidPath(a, day)
        Known(j) == Restrict(a, {KeyOf[path[k]] : k \in 1..j})
    IN  [j \in 1..(i - 1) |-> CountRemainingQuestions(path[j], Known(j), day)]

VARIABLES
    page,       \* "home", "result" or the question shown
    answers,    \* answers of the store, kept in the session storage
    draft,      \* what the mounted card shows, NoDraft for a choice
    invalid,    \* validationError is set
    path,       \* validPath, memoised by the view until the answers change
    day         \* index of today in Days

vars == <<page, answers, draft, invalid, path, day>>

Today == Days[day]

\* The children card opens with one empty row, the other cards with an empty field.
Blank(q) == IF q = "children" THEN <<Empty>> ELSE Empty
InitialDraft(q, a) ==
    IF q \notin DraftQuestions THEN NoDraft
    ELSE IF KeyOf[q] \in DOMAIN a THEN a[KeyOf[q]] ELSE Blank(q)

Init == /\ page = "home" /\ answers = <<>> /\ draft = NoDraft
        /\ invalid = FALSE /\ path = <<"household">> /\ day = 1

(***************************************************************************)
(* Arriving at the address of q: the flow shows it when the path it        *)
(* remembers has it, the first question otherwise.  A card is mounted anew *)
(* whenever another question is shown.                                     *)
(***************************************************************************)
Arrive(q, remembered) ==
    LET shown == IF q \in OnPath(remembered) THEN q ELSE remembered[1]
    IN  /\ page' = shown
        /\ draft' = IF shown = page THEN draft ELSE InitialDraft(shown, answers)
        /\ path' = remembered
ShowResult ==
    LET fresh == ValidPath(answers, Today)
    IN  IF Last(fresh) \in Results
        THEN page' = "result" /\ path' = fresh /\ UNCHANGED answers
        ELSE page' = "home" /\ answers' = <<>> /\ UNCHANGED path

\* EligibilityStart: mounting the start page empties the store.
GoHome == /\ page' = "home" /\ answers' = <<>> /\ invalid' = FALSE
          /\ draft' = NoDraft /\ UNCHANGED <<path, day>>

StartCheck ==
    /\ page = "home"
    /\ Arrive("household", ValidPath(answers, Today))
    /\ UNCHANGED <<answers, invalid, day>>

\* A typed address, a bookmark or the history of the browser.
OpenUrl(q) ==
    /\ q # page
    /\ Arrive(q, IF page \in Questions THEN path ELSE ValidPath(answers, Today))
    /\ UNCHANGED <<answers, invalid, day>>
OpenResultUrl ==
    /\ page \in Questions
    /\ ShowResult
    /\ invalid' = (invalid /\ page' # "home")
    /\ draft' = NoDraft
    /\ UNCHANGED day

\* Past midnight the new path may pass the question by: the view starts over.
ApplyAnswers(a) == /\ answers' = a /\ invalid' = FALSE /\ path' = ValidPath(a, Today)
                   /\ page' = IF page \in OnPath(path') THEN page ELSE path'[1]
\* The card shows what was put in, unless the view has started over with the first question.
Field(v) == draft' = IF page' = page THEN v ELSE NoDraft
\* EligibilityCheckSchema, as far as the cards can disagree with it.
SchemaAcceptsAll(key, v) == TRUE
SchemaAccepts(key, v) ==
    IF key = "children" THEN BadDate \notin Range(v) ELSE v \notin {TooBig, BadDate}
SetAnswer(key, v) ==
    IF ~SchemaAccepts(key, v) THEN invalid' = TRUE /\ UNCHANGED <<answers, path, page>>
    ELSE ApplyAnswers([k \in DOMAIN answers \cup {key} |-> IF k = key THEN v ELSE answers[k]])
\* clearAnswer as it would be if it kept the answer and only dropped the error.
ClearErrorOnly(key) == invalid' = FALSE /\ UNCHANGED <<answers, path, page>>
ClearAnswer(key) == ApplyAnswers(Restrict(answers, DOMAIN answers \ {key}))

Choose(v) ==
    /\ page \in ChoiceQuestions
    /\ v \in Options[page]
    /\ SetAnswer(KeyOf[page], v)
    /\ UNCHANGED <<draft, day>>

TypeNumber(v) ==
    /\ page \in NumberQuestions
    /\ v \in Options[page] \cup {Empty, TooBig}
    /\ IF v = Empty THEN ClearAnswer(KeyOf[page]) ELSE SetAnswer(KeyOf[page], v)
    /\ Field(v)
    /\ UNCHANGED day

PickDate(v) ==
    /\ page = "birthdate"
    /\ v \in Options["birthdate"] \cup {Empty, BadDate}
    /\ IF v \in {Empty, BadDate} THEN ClearAnswer("dateOfBirth") ELSE SetAnswer("dateOfBirth", v)
    /\ Field(v)
    /\ UNCHANGED day

\* update of the children card: only a list of valid dates is an answer.
UpdateChildren(next, allValid) ==
    /\ page = "children"
    /\ IF allValid /\ Len(next) > 0 /\ \A i \in DOMAIN next : next[i] # Empty
       THEN SetAnswer("children", next) ELSE ClearAnswer("children")
    /\ Field(next)
    /\ UNCHANGED day
Valid(dates) == \A i \in DOMAIN dates : dates[i] # BadDate
AddChild == page = "children" /\ Len(draft) < MaxChildren
            /\ UpdateChildren(Append(draft, Empty), FALSE)
EditChild(i, v) ==
    /\ page = "children" /\ i \in DOMAIN draft
    /\ v \in Options["children"] \cup {Empty, BadDate}
    /\ LET next == [draft EXCEPT ![i] = v] IN UpdateChildren(next, Valid(next))
RemoveChild(i) ==
    /\ page = "children" /\ i \in DOMAIN draft /\ Len(draft) > 1
    /\ LET next == RemoveAt(draft, i) IN UpdateChildren(next, Valid(next))

\* canSubmit of every card, then navigateNext.
CanSubmit == page \in Questions /\ KeyOf[page] \in DOMAIN answers
NavigateNext ==
    /\ CanSubmit
    /\ LET next == NextOf(page, answers, Today)
       IN  IF next \in Results
           THEN ShowResult /\ draft' = NoDraft /\ invalid' = (invalid /\ page' # "home")
           ELSE Arrive(next, path) /\ UNCHANGED <<answers, invalid>>
    /\ UNCHANGED day

Before(q) == path[(CHOOSE i \in DOMAIN path : path[i] = q) - 1]
NavigateBack ==
    /\ page \in Questions
    /\ IF page = path[1] THEN GoHome
       ELSE Arrive(Before(page), path) /\ UNCHANGED <<answers, invalid, day>>
BackFromResult ==
    /\ page = "result"
    /\ Arrive(path[Len(path) - 1], ValidPath(answers, Today))
    /\ UNCHANGED <<answers, invalid, day>>
StartOver == page = "result" /\ GoHome

Midnight == day < Len(Days) /\ day' = day + 1 /\ UNCHANGED <<page, answers, draft, invalid, path>>

Next ==
    \/ StartCheck \/ OpenResultUrl \/ NavigateNext \/ NavigateBack
    \/ BackFromResult \/ StartOver \/ Midnight
    \/ \E q \in Bookmarks : OpenUrl(q)
    \/ page \in Questions /\ \E v \in Options[page] : Choose(v)
    \/ page \in Questions /\ \E v \in Options[page] \cup {Empty, TooBig} : TypeNumber(v)
    \/ \E v \in Options["birthdate"] \cup {Empty, BadDate} : PickDate(v)
    \/ AddChild
    \/ \E i \in 1..MaxChildren :
          \/ RemoveChild(i)
          \/ \E v \in Options["children"] \cup {Empty, BadDate} : EditChild(i, v)

Spec == Init /\ [][Next]_vars

-----------------------------------------------------------------------------
(* Properties *)

Fields(q) == Options[q] \cup {Empty, BadDate, TooBig}
Values(q) == IF q = "children" THEN BoundedSeq(Options[q], MaxChildren) ELSE Options[q]

\* The store holds answers of the schema only, the view shows a question of its path.
TypeOK ==
    /\ page \in Questions \cup {"home", "result"}
    /\ DOMAIN answers \subseteq {KeyOf[q] : q \in Questions}
    /\ \A q \in Questions : KeyOf[q] \in DOMAIN answers => answers[KeyOf[q]] \in Values(q)
    /\ draft \in IF page \notin DraftQuestions THEN {NoDraft}
                 ELSE IF page = "children" THEN BoundedSeq(Fields(page), MaxChildren)
                 ELSE Fields(page)
    /\ invalid \in BOOLEAN
    /\ page \in Questions => page \in OnPath(path)
    /\ day \in DOMAIN Days

Index(q, p) == CHOOSE i \in DOMAIN p : p[i] = q
Bar == LET fresh == ValidPath(answers, Today)
       IN  IF page \in Questions /\ page \in OnPath(fresh)
           THEN StepCounts(answers, Index(page, fresh), Today) ELSE <<>>

(* GRAPH "must route an unanswered condition to the longer branch": every    *)
(* step counted on at least the questions that did come up after it, so the  *)
(* bar (getProgress) is never full while a question is shown, and a question *)
(* that turns up never makes a later step count on more than an earlier one. *)
BarKeepsRoom ==
    LET bar == Bar
    IN  \A j \in DOMAIN bar : /\ bar[j] >= (Len(bar) + 1 - j) + 1
                              /\ j > 1 => bar[j] < bar[j - 1]

(* Answering, changing or clearing the question shown does not move the bar: *)
(* getProgress looks at the answers of the earlier questions only.           *)
EditingKeepsTheBar == [][page' = page /\ day' = day /\ answers' # answers => Bar' = Bar]_vars

(* When a card with a field of its own lets the guest go on and no error is  *)
(* shown, the store has what the field shows (NumberCard, DateOfBirthCard,   *)
(* ChildrenCard keep a draft beside the answer).                             *)
DraftIsAnswer ==
    page \in DraftQuestions /\ CanSubmit /\ ~invalid => draft = answers[KeyOf[page]]

Shown(b) == Assess(AnswersOnValidPath(answers, Today), b, Today)
OnEligibleResult == page = "result" /\ Last(path) = "result_eligible"

(* Answers left over from a branch that was left (a gross income typed       *)
(* before saying that nobody works, a residence status before a German       *)
(* passport) change neither a benefit on the result page nor its hint,       *)
(* although the hint is computed from all the answers.                       *)
LeftoversDoNotCount ==
    OnEligibleResult =>
        LET given == Restrict(answers, {KeyOf[path[i]] : i \in 1..(Len(path) - 1)}
                                          \cap DOMAIN answers)
        IN  /\ \A b \in Benefits : Shown(b) = Assess(given, b, Today)
            /\ NeedsResidenceHint(answers) = NeedsResidenceHint(given)

(* Grundsicherungsgeld and Grundsicherung im Alter exclude each other: no    *)
(* result offers both, whatever the age, the work capacity and the day.      *)
OneGrundsicherung ==
    OnEligibleResult => ~(/\ Shown("GRUNDSICHERUNGSGELD").status # "NO"
                          /\ Shown("GRUNDSICHERUNG_ALTER").status # "NO")

(* Nobody falls between the benefits by income: a household that is too poor *)
(* for Wohngeld is never told that its income covers its needs.              *)
NoGapByIncome ==
    OnEligibleResult /\ Shown("WOHNGELD").reason = "income_too_low_for_wohngeld" =>
        \A b \in Benefits : Shown(b).reason # "income_covers_needs"

=============================================================================
