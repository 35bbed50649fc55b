-------------------------- MODULE Questionnaires --------------------------
(***************************************************************************)
(* A questionnaire of the application that is open in the wallet: the page *)
(* it shows, the form on the screen, the saves on their way to the         *)
(* middleware and the copy of the profile that hooks/useProfile.ts loads   *)
(* again after each of them.  One of the five views is open; it decides    *)
(* the pages, the payloads and how a loaded profile reaches the form.      *)
(***************************************************************************)
EXTENDS FormFields, SequencesExt

CONSTANTS
    Views,      \* the views of this instance
    Stored,     \* sections the profile may hold when a view is opened
    Elsewhere,  \* what a document or another device may write meanwhile
    NotLoaded, LoadFailed, \* no copy of the profile yet
    NoFetch, Asked,        \* no request for the profile, one the server has not read for
    MaxEdits,   \* bounds, per view, on the edits that are not saved at once
    MaxSaves    \* and on the saves

AboutMe   == INSTANCE AboutMeSection
Household == INSTANCE HouseholdSection
Housing   == INSTANCE HousingSection
Income    == INSTANCE IncomeSection
Health    == INSTANCE HealthSection

ASSUME ViewsAssumption ==
    /\ Views \subseteq {"aboutMe", "household", "housing", "income", "health"}
    /\ Views \subseteq DOMAIN Stored /\ Views \subseteq DOMAIN Elsewhere
\* The fields of a view's section of the profile.
SectionFields(v) ==
    CASE v = "aboutMe"  -> AboutMe!StoredFields   [] v = "household" -> Household!StoredFields
      [] v = "housing"   -> Housing!StoredFields   [] v = "income"    -> Income!StoredFields
      [] v = "health"    -> Health!Fields
ASSUME SectionsAssumption ==
    \A v \in Views : /\ \A s \in Stored[v] : DOMAIN s = SectionFields(v)
                     /\ \A w \in Elsewhere[v] : DOMAIN w \subseteq SectionFields(v)
ASSUME BoundsAssumption == MaxEdits \in [Views -> Nat] /\ MaxSaves \in [Views -> Nat]

VARIABLES
    view,       \* the view that is open
    stored,     \* its section of the profile in the database
    loaded,     \* the copy of it in the query cache
    fetch,      \* the request for the profile: NoFetch, Asked or what the server read
    page,       \* currentPage, Intro or Overview once the view is left
    form,       \* the fields on the screen
    saves,      \* saves whose answer the view waits for, oldest first
    card,       \* "review" while an identity card waits for review, "verified" after that
    extracted,  \* the view was opened with what a document said
    \* what happened, to state the properties with
    unsaved,    \* pages edited since they were last saved, or filled with a guess, a default or
                \* an answer that came back
    touched,    \* pages that were ever edited or filled so, in the views that compare
    overlapped, \* a save was started, or somebody else wrote, while a change was on its way
    behind,     \* the section changed in a way a form that is filled once does not learn of
    unseen,     \* the section changed and no request for the profile was started for it
    edits, sent \* counters of the bounds

server == <<stored, card>>
screen == <<page, form, unsaved, touched>>
vars == <<view, stored, loaded, fetch, page, form, saves, card, extracted,
          unsaved, touched, overlapped, behind, unseen, edits, sent>>

(***************************************************************************)
(* The view that is open.                                                  *)
(***************************************************************************)
AllPages == IF view = "housing" THEN {1, 15} \cup 2..8
            ELSE 1..(CASE view = "aboutMe" -> 6 [] view = "household" -> 5
                       [] view = "income" -> 7   [] view = "health" -> 8)

FormAtMount(v, read) ==
    CASE v = "aboutMe"  -> AboutMe!EmptyForm [] v = "household" -> Household!EmptyForm
      [] v = "housing"   -> Housing!FormAtMount(read)
      [] v = "income"    -> Income!EmptyForm  [] v = "health"    -> Blank(Health!Fields)

\* The first profile fills the form; a later one reaches it in two of the views only.
Merging == view \in {"aboutMe", "household"}
FirstForm(profile) ==
    CASE view = "aboutMe"  -> AboutMe!Hydrate(profile, extracted)
      [] view = "household" -> Household!Hydrate(profile)
      [] view = "housing"   -> Housing!Hydrate(profile)
      [] view = "income"    -> Income!Hydrate(profile, extracted)
      [] view = "health"    -> Health!Hydrate(profile)
LaterForm(profile) ==
    CASE view = "aboutMe"  -> AboutMe!Sync(form, loaded, profile, extracted)
      [] view = "household" -> Household!Sync(form, loaded, profile)
      [] OTHER -> form

NextOf(f, p) ==
    CASE view = "aboutMe" -> AboutMe!NextPage(f, p) [] view = "household" -> Household!NextPage(f, p)
      [] view = "housing"  -> Housing!NextPage(f, p) [] view = "income"    -> Income!NextPage(f, p)
      [] view = "health"   -> Health!NextPage(f, p)
PrevOf(f, p) ==
    CASE view = "aboutMe" -> AboutMe!PrevPage(f, p) [] view = "household" -> Household!PrevPage(f, p)
      [] view = "housing"  -> Housing!PrevPage(f, p) [] view = "income"    -> Income!PrevPage(f, p)
      [] view = "health"   -> Health!PrevPage(f, p)
IsReady(f, p) ==
    CASE view = "aboutMe" -> AboutMe!Ready(f, p) [] view = "household" -> Household!Ready(f, p)
      [] view = "housing"  -> Housing!Ready(f, p) [] view = "income"    -> Income!Ready(f, p)
      [] view = "health"   -> Health!Ready(f, p)
\* What Next sends, one request after the other.
Requests(f, p) ==
    CASE view = "aboutMe"  -> <<AboutMe!Payload(f, p)>>
      [] view = "household" -> <<Household!Payload(f, p)>>
      [] view = "housing"   -> <<Housing!Payload(f, p)>>
      [] view = "income"    -> Income!Payloads(f, p)
      [] view = "health"    -> <<Health!Payload(f, p)>>
\* Where the wizard of the server may send the user instead.
WizardPages(section, p) ==
    CASE view = "aboutMe" -> AboutMe!WizardPages(section, p)
      [] view = "income"   -> Income!WizardPages(section, p)
      [] OTHER -> {}
EditsOf(f, p) ==
    CASE view = "aboutMe" -> AboutMe!Edits(f, p) [] view = "household" -> Household!Edits(f, p)
      [] view = "housing"  -> Housing!Edits(f, p) [] view = "income"    -> Income!Edits(f, p)
      [] view = "health"   -> Health!Edits(f, p)

\* A view shows a spinner until a profile, or the failure to load one, is there.
Open == loaded # NotLoaded /\ page \in AllPages
HasProfile == loaded \notin {NotLoaded, LoadFailed}

(***************************************************************************)
(* The saves.  A save is at "sent", then "applied" or "refused", until its *)
(* answer arrives.  Only one view queues its saves.                        *)
(***************************************************************************)
Stay == -1
Save(p, requests, to) ==
    [page |-> p, requests |-> requests, at |-> "sent", to |-> to, jumps |-> {}]
\* enqueueSave with a queue that is not kept waiting.
InFlightUnqueued == DOMAIN saves
InFlight == IF view = "housing" THEN DOMAIN saves \cap {1} ELSE DOMAIN saves

\* The pages Next leads through from the first one when every answer is as the form has it.
Route ==
    LET from[p \in AllPages \cup {Overview}] ==
            IF p = Overview THEN {} ELSE {p} \cup from[NextOf(form, p)]
    IN  from[1]

\* The view is mounted and asks for the profile,
Mounted ==
    /\ page = 1 /\ form = FormAtMount(view, extracted)
    /\ loaded = NotLoaded /\ fetch = Asked /\ sent = 0
\* or the user has come further and saved every page as it was shown; that counts as a save.
CameThisFar ==
    /\ ~extracted /\ form = FirstForm(stored)
    /\ \A p \in Route : /\ IsReady(form, p)
                        /\ \A sends \in ToSet(Requests(form, p)) : Merge(stored, sends) = stored
    /\ page \in Route \ {1}
    /\ loaded = stored /\ fetch = NoFetch /\ sent = 1

Init ==
    /\ view \in Views
    /\ stored \in Stored[view]
    /\ extracted \in IF view \in {"aboutMe", "housing", "income"} THEN BOOLEAN ELSE {FALSE}
    /\ card \in IF view = "aboutMe" THEN {"none", "review"} ELSE {"none"}
    /\ saves = <<>> /\ unsaved = {} /\ touched = {} /\ edits = 0
    /\ overlapped = FALSE /\ behind = FALSE /\ unseen = FALSE
    /\ Mounted \/ CameThisFar

Touch(pages) == touched' = IF Merging THEN touched \cup pages ELSE {}

\* Typing, and the choices that are not saved at once.
Edit ==
    /\ Open /\ edits < MaxEdits[view] /\ edits' = edits + 1
    /\ form' \in EditsOf(form, page) \ {form}
    /\ unsaved' = unsaved \cup {page} /\ Touch({page})
    /\ UNCHANGED <<view, server, loaded, fetch, page, saves, extracted, overlapped, behind, unseen, sent>>

Start(save) ==
    /\ sent < MaxSaves[view] /\ sent' = sent + 1
    /\ saves' = Append(saves, save)
    /\ overlapped' = (overlapped \/ saves # <<>>)

\* An option that is saved as it is chosen: fields of the housing, the gender.
ChooseAndSave ==
    /\ Open /\ edits < MaxEdits[view] /\ edits' = edits + 1
    /\ \/ /\ view = "housing"
          /\ \E c \in Housing!Choices(form, page) :
                /\ form' = c.form /\ Start(Save(page, <<c.data>>, Stay))
                /\ unsaved' = IF Housing!BringsBack(form, c.form) THEN unsaved \cup {page} ELSE unsaved
          /\ UNCHANGED touched
       \/ /\ view = "aboutMe" /\ page = 3
          /\ \E f \in AboutMe!Page3Gender(form) :
                form' = f /\ Start(Save(page, Requests(f, page), NextOf(f, page)))
          /\ unsaved' = unsaved \ {page} /\ Touch({page})
    /\ UNCHANGED <<view, server, loaded, fetch, page, extracted, behind, unseen>>

\* The view saves an input of the housing when it is left.
SaveField ==
    /\ Open /\ view = "housing"
    /\ \E data \in Housing!Blurs(form, page) : Start(Save(page, <<data>>, Stay))
    /\ UNCHANGED <<view, server, loaded, fetch, screen, extracted, behind, unseen, edits>>

\* Next saves the page; in the housing Back does, too.
SavePage(to) ==
    /\ IsReady(form, page)
    /\ Start(Save(page, Requests(form, page), to))
    /\ unsaved' = unsaved \ {page}
    /\ UNCHANGED <<view, server, loaded, fetch, page, form, touched, extracted, behind, unseen, edits>>
PressNext == Open /\ SavePage(NextOf(form, page))
Back ==
    /\ Open
    /\ \/ view = "housing" /\ SavePage(PrevOf(form, page))
       \/ /\ view # "housing" /\ page' = PrevOf(form, page)
          /\ UNCHANGED <<view, server, loaded, fetch, form, saves, extracted,
                         unsaved, touched, overlapped, behind, unseen, edits, sent>>

(***************************************************************************)
(* The middleware, which writes the fields before it asks the rules.       *)
(***************************************************************************)
\* What an answer is told of the next page when the rules are asked.
Apply(i) ==
    /\ i \in InFlight /\ saves[i].at = "sent"
    /\ Sendable(Head(saves[i].requests))
    /\ stored' = Merge(stored, Head(saves[i].requests))
    /\ saves' = [saves EXCEPT ![i].at = "applied",
                              ![i].jumps = WizardPages(stored', saves[i].page)]
    /\ card' = IF saves[i].to = Stay /\ view = "aboutMe" THEN "verified" ELSE card
    /\ UNCHANGED <<view, loaded, fetch, screen, extracted, overlapped, behind, unseen, edits, sent>>

\* Refused before anything is written, by the schema, the middleware or the network.
Refuse(i) ==
    /\ i \in InFlight /\ saves[i].at = "sent"
    /\ saves' = [saves EXCEPT ![i].at = "refused"]
    /\ UNCHANGED <<view, server, loaded, fetch, screen, extracted, overlapped, behind, unseen, edits, sent>>

\* A document that is verified, or another device, writes fields of the section.
WriteElsewhere ==
    /\ ~behind
    /\ \E w \in Elsewhere[view] : stored' = Merge(stored, w) /\ stored' # stored
    /\ behind' = TRUE /\ unseen' = TRUE
    /\ overlapped' = (overlapped \/ saves # <<>> \/ loaded # stored)
    /\ UNCHANGED <<view, card, loaded, fetch, screen, saves, extracted, edits, sent>>

(***************************************************************************)
(* The answers.                                                            *)
(***************************************************************************)
GoTo(to) == page' = IF to = Stay \/ page \notin AllPages THEN page ELSE to

\* profileData, or nothing while no profile is there.
KnownProfile == IF HasProfile THEN loaded ELSE Blank(AboutMe!StoredFields)
\* The last page of the first view verifies an identity card before it leaves.
VerifiesCard(save) == view = "aboutMe" /\ save.page = 6 /\ save.to # Stay /\ card = "review"

\* invalidateQueries: a request on its way is dropped for a new one.
InvalidateOrJoin == fetch' = IF fetch = NoFetch THEN Asked ELSE fetch
Invalidate == fetch' = Asked

Succeed(i) ==
    LET save == saves[i]
        rest == Tail(save.requests)
    IN  /\ save.at = "applied"
        /\ CASE rest # <<>> ->
                  saves' = [saves EXCEPT ![i].requests = rest, ![i].at = "sent"] /\ UNCHANGED page
             [] rest = <<>> /\ VerifiesCard(save) ->
                  /\ saves' = [saves EXCEPT ![i] =
                        Save(6, <<AboutMe!Verified(form, KnownProfile)>>, Stay)]
                  /\ UNCHANGED page
             [] OTHER -> /\ saves' = RemoveAt(saves, i)
                         /\ \E to \in {save.to} \cup save.jumps : GoTo(to)
        /\ Invalidate
        /\ UNCHANGED <<view, server, loaded, form, extracted, unsaved, touched, overlapped, behind,
                       unseen, edits, sent>>

\* enqueueSave with a failed save left in front of the ones that wait.
FailUncaught(i) ==
    /\ saves[i].at \in {"applied", "refused"}
    /\ unsaved' = unsaved \cup {saves[i].page}
    /\ UNCHANGED <<view, server, loaded, fetch, page, form, saves, touched, extracted, overlapped,
                   behind, unseen, edits, sent>>
\* The write is known to have failed, or its answer is: the page stays as it is.
Fail(i) ==
    /\ \/ saves[i].at = "refused" /\ UNCHANGED unseen
       \/ saves[i].at = "applied" /\ unseen' = TRUE
    /\ saves' = RemoveAt(saves, i)
    /\ unsaved' = unsaved \cup {saves[i].page}
    /\ UNCHANGED <<view, server, loaded, fetch, page, form, touched, extracted, overlapped, behind,
                   edits, sent>>

\* The verification of the card is not waited for in vain: whatever its answer, the view is left.
CardAnswered(i) ==
    /\ saves[i].at \in {"applied", "refused"}
    /\ saves' = RemoveAt(saves, i)
    /\ GoTo(Overview)
    /\ unseen' = (unseen \/ saves[i].at = "applied")
    /\ UNCHANGED <<view, server, loaded, fetch, form, extracted, unsaved, touched, overlapped,
                   behind, edits, sent>>

Answer(i) ==
    IF view = "aboutMe" /\ saves[i].to = Stay THEN CardAnswered(i) ELSE Succeed(i) \/ Fail(i)

(***************************************************************************)
(* The profile in the query cache.                                         *)
(***************************************************************************)
\* A focus of the window, a mount of another view, the interval while documents are processed.
Refetch ==
    /\ fetch = NoFetch /\ Invalidate
    /\ UNCHANGED <<view, server, loaded, screen, saves, extracted, overlapped, behind, unseen, edits, sent>>

Read ==
    /\ fetch = Asked /\ fetch' = stored
    /\ unseen' = FALSE
    /\ UNCHANGED <<view, server, loaded, screen, saves, extracted, overlapped, behind, edits, sent>>

\* The pages on which a default or a guess stands where the profile has no answer, in the
\* views that compare it with the next profile.
Guessed(f, profile) ==
    {p \in AllPages : /\ Merging /\ IsReady(f, p)
                      /\ \E sends \in ToSet(Requests(f, p)) : \E g \in DOMAIN sends :
                            profile[g] = Unset /\ sends[g] # Unset}
\* Those on which that happens as the next profile arrives.
NewlyGuessed(new, profile) ==
    {p \in Guessed(new, profile) : Requests(new, p) # Requests(form, p) \/ p \notin Guessed(form, loaded)}
PagesOfDocument == CASE view = "aboutMe" -> {1, 2, 3, 4, 6} [] view = "income" -> {3, 7} [] OTHER -> {}
FromDocument == IF extracted THEN PagesOfDocument ELSE {}
Arrive ==
    /\ fetch \notin {NoFetch, Asked}
    /\ fetch' = NoFetch /\ loaded' = fetch
    /\ IF HasProfile
       THEN /\ form' = LaterForm(fetch) /\ UNCHANGED behind
            /\ unsaved' = unsaved \cup NewlyGuessed(form', fetch)
       ELSE \* what was edited before a profile was there is replaced, too
            /\ form' = FirstForm(fetch)
            /\ unsaved' = Guessed(form', fetch) \cup FromDocument
            /\ behind' = (behind \/ saves # <<>> \/ fetch # stored \/ unsaved # {})
    /\ Touch(Guessed(form', fetch))
    /\ UNCHANGED <<view, server, page, saves, extracted, overlapped, unseen, edits, sent>>

\* A request for the profile that fails leaves the copy that is there.
FetchFails ==
    /\ fetch # NoFetch /\ fetch' = NoFetch
    /\ loaded' = IF loaded = NotLoaded THEN LoadFailed ELSE loaded
    /\ unseen' = TRUE
    /\ UNCHANGED <<view, server, screen, saves, extracted, overlapped, behind, edits, sent>>

User   == Edit \/ ChooseAndSave \/ SaveField \/ PressNext \/ Back
Server == Read \/ WriteElsewhere \/ \E i \in DOMAIN saves : Apply(i) \/ Refuse(i)
Wallet == Refetch \/ Arrive \/ FetchFails \/ \E i \in DOMAIN saves : Answer(i)

Next == User \/ Server \/ Wallet

\* A request is answered, by its time limit at the latest.
Fairness == /\ WF_vars(\E i \in DOMAIN saves : Apply(i) \/ Refuse(i))
            /\ WF_vars(\E i \in DOMAIN saves : Answer(i))
Spec == Init /\ [][Next]_vars /\ Fairness

(***************************************************************************)
(* Properties.                                                             *)
(***************************************************************************)
\* The state is well formed, and only the housing form waits for one save at a time.
TypeOK ==
    /\ view \in Views /\ page \in AllPages \cup {Intro, Overview}
    /\ DOMAIN stored = SectionFields(view)
    /\ loaded \in {NotLoaded, LoadFailed} \/ DOMAIN loaded = DOMAIN stored
    /\ fetch \in {NoFetch, Asked} \/ DOMAIN fetch = DOMAIN stored
    /\ DOMAIN form = DOMAIN FormAtMount(view, extracted)
    /\ unsaved \cup touched \subseteq AllPages
    /\ \A i \in DOMAIN saves :
          /\ saves[i].at \in {"sent", "applied", "refused"} /\ saves[i].requests # <<>>
          /\ UNION {DOMAIN r : r \in ToSet(saves[i].requests)} \subseteq DOMAIN stored
          /\ view = "housing" /\ i > 1 => saves[i].at = "sent"

\* Back leads to the page that Next came from: the two switches of every view over the
\* same answers agree (getNextPage and getPreviousPage, handleNext and handleBack).
BackRetracesNext ==
    \A p \in Route : NextOf(form, p) # Overview => PrevOf(form, NextOf(form, p)) = p

\* No answer of the section is left behind by a change of the answer it belongs to,
\* whatever was saved, verified and loaded in between.  In the housing form a refused choice
\* stays on the screen, and an input that is left after it is stored beside the answer the
\* choice was to replace, until the page is saved.
NoOrphanedDetails ==
    /\ view = "household" => Household!NoOrphans(stored)
    /\ view = "income" => Income!NoOrphans(stored)
    /\ view = "housing" /\ ~behind /\ saves = <<>> /\ 3 \notin unsaved => Housing!NoOrphans(stored)
    /\ view = "aboutMe" => /\ AboutMe!CitizenshipFits(stored)
                            /\ card # "verified" => AboutMe!AddressFits(stored)

\* Nothing is on its way, and the screen shows no answer that was not saved.
Settled == HasProfile /\ saves = <<>> /\ fetch = NoFetch /\ ~unseen /\ unsaved = {}

\* The fields a page computes, rather than shows: the state for an address in Berlin, the total
\* of the income.
Computed ==
    {"state", "monthlyIncome"}
    \cup (IF view = "income" /\ Income!WorksForNothing(stored) THEN Income!WorkLines ELSE {})
\* Saving these pages again as they are shown keeps every answer the profile has.
ScreenIsStored(pages) ==
    \A p \in Route \cap pages : IsReady(form, p) =>
        \A sends \in ToSet(Requests(form, p)) : \A f \in DOMAIN sends \ Computed :
            stored[f] # Unset => sends[f] = stored[f]

\* The views that compare merge a later profile input by input.  A page with one input agrees
\* with it in the end, a page with several as long as nobody else writes.  Pages are left out
\* on which an input keeps what it shows (Keeps), or two pages write the same answer.
AgreeingPages ==
    CASE view = "household" -> {1, 4} \cup (IF behind THEN {} ELSE {3, 5})
      [] view = "aboutMe"   -> {1, 2, 3} \cup (IF behind THEN {} ELSE {6})
      [] OTHER -> AllPages

\* Saving a page again that nobody touched keeps every answer the profile has: what a page
\* sends is what the loaded profile put on it, and no default or guess replaces an answer.
\* A form that is filled once (behind) is compared until somebody else writes, and a form
\* whose saves are not queued while they do not overlap.
ResavingKeepsAnswers ==
    /\ view # "housing" /\ Settled /\ card # "verified"
    /\ ~overlapped /\ (Merging \/ ~behind)
    => ScreenIsStored(AgreeingPages)

InputsOf(p) == CASE view = "household" -> Household!Inputs(p) [] view = "aboutMe" -> AboutMe!Inputs(p)
Says(profile, f) == CASE view = "household" -> Household!ServerSays(profile)[f]
                      [] view = "aboutMe"   -> AboutMe!Compared(profile, f)
\* A page that was never edited, and was filled with no guess, shows the profile that was
\* loaded last, in the views that compare: whatever is saved, written elsewhere, lost or
\* answered late, no input stays at an older profile.
UntouchedPagesShowTheProfile ==
    Merging /\ HasProfile =>
        \A p \in AllPages \ touched : \A f \in InputsOf(p) : form[f] = Says(loaded, f)

\* The housing form saves every choice at once, in a queue: whatever was chosen while saves
\* were on their way, and whichever of them failed, what a page shows in the end is what is
\* stored, a blank included, but for what the page fills in (FilledIn).  Left out are pages that
\* are unsaved: typed into, with a failed save, or with a street or a landlord that came back
\* (BringsBack), which the profile lacks until the page is saved.
LatestChoiceStoredLast ==
    view = "housing" /\ HasProfile /\ saves = <<>> /\ ~behind =>
        \A p \in Route \ unsaved : IsReady(form, p) =>
            \A sends \in ToSet(Requests(form, p)) :
                \A f \in DOMAIN sends \ Housing!FilledIn(form, stored) : sends[f] = stored[f]

\* When nothing is on its way and no change is known to be missed, the copy of the profile
\* that the wallet shows is the profile: no answer of an older read is put into the cache last.
CacheCatchesUp ==
    HasProfile /\ fetch = NoFetch /\ saves = <<>> /\ ~unseen => loaded = stored

\* A save never blocks the ones after it: every save is answered, whether it was applied,
\* refused or thrown away by the schema.
EverySaveIsAnswered == saves # <<>> ~> saves = <<>>
=============================================================================
