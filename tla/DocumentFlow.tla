---------------------------- MODULE DocumentFlow ----------------------------
(***************************************************************************)
(* The documents of the account in one open wallet: the list in the query  *)
(* cache (hooks/useProfile.ts) with its polling and its socket, the upload *)
(* screen (DocumentDropzone.tsx), the two places that verify a document    *)
(* without asking (DocumentDropzone.tsx, hooks/useAutoVerification.ts),    *)
(* the review of what was read from it (DocumentReviewView.tsx), its       *)
(* deletion, and the toast of a processed document (App.tsx).              *)
(***************************************************************************)
EXTENDS Naturals, SequencesExt

CONSTANTS
    Docs,           \* documents, of which
    Uploaded,       \* these are there when the wallet is opened,
    AtOpening,      \* in one of these statuses
    IdCards,        \* and these are identity cards
    NoDoc,
    NoFetch, Asked, \* no request for the list, one the server has not read for
    MaxFaults,      \* bound on requests that fail
    MaxVisits       \* bound on the screens the user opens and the documents he deletes

ASSUME DocsAssumption ==
    /\ Uploaded \subseteq Docs /\ IdCards \subseteq Docs /\ NoDoc \notin Docs
    /\ AtOpening \subseteq {"processing", "ready", "failed", "verified"}
    /\ IsFiniteSet(Docs) /\ Docs \cap {"none", "application", "file"} = {}
ASSUME BoundsAssumption == MaxFaults \in Nat /\ MaxVisits \in Nat

Statuses == {"none", "processing", "ready", "failed", "verified"}
ASSUME MarkersAssumption ==
    /\ NoFetch # Asked
    /\ NoFetch \notin [Docs -> Statuses] /\ Asked \notin [Docs -> Statuses]

VARIABLES
    server,   \* the status of a document in the database
    text,     \* what the database holds of it: nothing, read by "ocr", or put right by the "user"
    list,     \* the status of a document in the query cache
    fetch,    \* the request for the list: NoFetch, Asked or what the server read
    notes,    \* documents whose message is on its way through the socket
    toast,    \* the document of the toast that is shown
    view,     \* the screen
    drop,     \* the upload screen
    strays,   \* uploads that were aborted on their way
    review,   \* the review of a document
    calls,    \* verifications whose answers are awaited
    dels,     \* where the deletion of a document is
    before,   \* the list an optimistic deletion goes back to
    blacklist,\* failed_autoverify_ in the storage of the session
    \* what happened, to state the properties with
    corrected,\* documents the user put right
    raced,    \* while a verification with the older text was on its way
    missed,   \* the list on the screen is known to be older than the last change
    faults, visits

screens == <<view, drop, strays, review>>
cache == <<list, fetch, missed>>
deletions == <<dels, before>>
database == <<server, text, corrected, raced>>
socket == <<notes, toast>>
bounds == <<faults, visits>>
vars == <<database, cache, socket, screens, calls, deletions, blacklist, bounds>>

\* GET /files
Listed == [d \in Docs |-> IF server[d] = "deleted" THEN "none" ELSE server[d]]

Views == {"documents", "overview", "questionnaire", "dropzone", "review", "success"}

\* A dropzone that was just mounted.
EmptyDrop(origin) ==
    [origin |-> origin, status |-> "IDLE", file |-> FALSE, request |-> "none",
     doc |-> NoDoc, timers |-> {}]
ReviewOf(d, origin) ==
    [doc |-> d, origin |-> origin, data |-> "loading", editing |-> FALSE, submitting |-> FALSE]
NoReview == [ReviewOf(NoDoc, "hub") EXCEPT !.data = "none"]
Idle == [at |-> "none", exit |-> "stay"]

\* getTargetExitRoute: the page of the documents or of the category, or back to the wizard.
ExitRoute(origin) == IF origin = "wizard" THEN "overview" ELSE "documents"

Init ==
    /\ server \in [Docs -> {"none"} \cup AtOpening]
    /\ \A d \in Docs : server[d] = "none" <=> d \notin Uploaded
    /\ text = [d \in Docs |-> IF server[d] \in {"ready", "verified"} THEN "ocr" ELSE "empty"]
    /\ list = Listed /\ fetch = NoFetch /\ missed = FALSE
    /\ notes = {} /\ toast = NoDoc
    /\ view = "documents" /\ drop = EmptyDrop("hub") /\ strays = 0 /\ review = NoReview
    /\ calls = <<>> /\ blacklist = {}
    /\ dels = [d \in Docs |-> Idle] /\ before = [d \in Docs |-> NoFetch]
    /\ corrected = {} /\ raced = {} /\ faults = 0 /\ visits = 0

Fault == faults < MaxFaults /\ faults' = faults + 1 /\ UNCHANGED visits
NoFault == UNCHANGED bounds

(***************************************************************************)
(* What the screens do when the list or the route changes: the effect of   *)
(* the dropzone on documents, the effect of useAutoVerification.           *)
(***************************************************************************)
DropSeesKeepingTimer(d, l) ==
    IF d.status = "PROCESSING" /\ l[d.doc] = "ready"
    THEN [d EXCEPT !.status = "SUCCESS", !.timers = @ \cup {"success"}] ELSE d
DropSees(d, l) ==
    CASE d.status = "PROCESSING" /\ l[d.doc] = "ready" ->
            [d EXCEPT !.status = "SUCCESS", !.timers = (@ \ {"processing"}) \cup {"success"}]
      [] d.status = "PROCESSING" /\ l[d.doc] = "failed" ->
            [d EXCEPT !.status = "ERROR", !.timers = @ \ {"processing"}]
      [] OTHER -> d

\* pendingDocs of the two views that use the hook; the second one names id_card.
Pending(l, v) ==
    {d \in Docs \ blacklist : l[d] = "ready" /\ (v = "questionnaire" => d \in IdCards)}
Call(by, docs, at, data, meant) ==
    [by |-> by, docs |-> docs, at |-> at, data |-> data, meant |-> meant, live |-> TRUE]
RunAutoVerify(l, v) ==
    IF v \notin {"overview", "questionnaire"} \/ Pending(l, v) = {} THEN <<>>
    ELSE <<Call("hook", SetToSeq(Pending(l, v)), "extract", "ocr", FALSE)>>
\* The cleanup of an effect or of a screen.
Stop(cs, by) == [i \in DOMAIN cs |-> [cs[i] EXCEPT !.live = @ /\ cs[i].by # by]]

\* The cache holds l; cs are the calls that go on.
Show(l, cs) ==
    /\ list' = l
    /\ drop' = DropSees(drop, l)
    /\ calls' = IF l = list THEN cs ELSE Stop(cs, "hook") \o RunAutoVerify(l, view)

\* navigate: the screen that is left is unmounted, which clears its timers and aborts its upload.
Go(v, d, origin, cs) ==
    /\ view' = v
    /\ review' = IF v = "review" THEN ReviewOf(d, origin) ELSE NoReview
    /\ drop' = EmptyDrop(IF v = "dropzone" THEN origin ELSE "hub")
    /\ strays' = strays + (IF drop.request = "file" THEN 1 ELSE 0)
    /\ calls' = Stop(Stop(cs, "hook"), "review") \o RunAutoVerify(list, v)

(***************************************************************************)
(* The list.                                                               *)
(***************************************************************************)
Invalidate == fetch' = Asked /\ UNCHANGED <<list, missed>>

\* refetchInterval, while a document of the list is processed.
HasProcessingInDropzone == view = "dropzone" /\ \E d \in Docs : list[d] = "processing"
HasProcessing == \E d \in Docs : list[d] = "processing"
Poll ==
    /\ HasProcessing /\ fetch = NoFetch /\ Invalidate
    /\ UNCHANGED <<database, socket, screens, calls, deletions, blacklist, bounds>>

\* The documents view asks anew when it is mounted (refetchOnMount "always"); the others
\* take a copy that was not invalidated for five minutes (staleTime) as it is.
Mount(v) ==
    /\ fetch' = IF v = "documents" /\ fetch = NoFetch THEN Asked ELSE fetch
    /\ UNCHANGED <<list, missed>>

\* FileService.getFiles answers a failure with an empty list.
Read ==
    /\ fetch = Asked
    /\ \/ fetch' = Listed /\ NoFault
       \/ fetch' = [d \in Docs |-> "none"] /\ Fault
    /\ missed' = FALSE
    /\ UNCHANGED <<list, database, socket, screens, calls, deletions, blacklist>>

Arrive ==
    /\ fetch \notin {NoFetch, Asked}
    /\ Show(fetch, calls) /\ fetch' = NoFetch
    /\ UNCHANGED <<missed, database, socket, view, strays, review, deletions, blacklist, bounds>>

\* getProfile fails, and with it the request for both: the list stays.
FetchFails ==
    /\ fetch # NoFetch /\ fetch' = NoFetch /\ missed' = TRUE /\ Fault
    /\ UNCHANGED <<list, database, socket, screens, calls, deletions, blacklist>>

(***************************************************************************)
(* The worker, and the socket it reports through.                          *)
(***************************************************************************)
\* A socket that is not open, for the five seconds before it connects again or for good, loses
\* the message.
Process(d) ==
    /\ server[d] = "processing"
    /\ \/ server' = [server EXCEPT ![d] = "ready"] /\ text' = [text EXCEPT ![d] = "ocr"]
       \/ server' = [server EXCEPT ![d] = "failed"] /\ UNCHANGED text
    /\ notes' \in {notes, notes \cup {d}}
    /\ UNCHANGED <<toast, corrected, raced, cache, screens, calls, deletions, blacklist, bounds>>

\* onmessage; the toast goes by the copy in the cache, which may not know yet.
Notify(d) ==
    /\ d \in notes /\ notes' = notes \ {d} /\ Invalidate
    /\ toast' = IF review.doc # d /\ list[d] \in {"ready", "failed"} THEN d ELSE toast
    /\ UNCHANGED <<database, screens, calls, deletions, blacklist, bounds>>

(***************************************************************************)
(* The user goes from screen to screen.                                    *)
(***************************************************************************)
UserAsks == visits < MaxVisits /\ visits' = visits + 1 /\ UNCHANGED faults
Visit(v, d, origin) ==
    /\ UserAsks
    /\ Go(v, d, origin, calls) /\ Mount(v)
    /\ UNCHANGED <<database, notes, deletions, blacklist>>
Leave ==
    /\ \E v \in {"documents", "overview", "questionnaire"} \ {view} : Visit(v, NoDoc, "hub")
    /\ UNCHANGED toast
OpenDropzone ==
    /\ \/ view = "documents" /\ Visit("dropzone", NoDoc, "hub")
       \/ view \in {"overview", "questionnaire"} /\ Visit("dropzone", NoDoc, "wizard")
    /\ UNCHANGED toast
\* handleClick of the items of DocumentStatusList, and the button of the unsorted ones.
OpenReview ==
    /\ view = "documents"
    /\ \E d \in Docs : list[d] \in {"ready", "failed"} /\ Visit("review", d, "hub")
    /\ UNCHANGED toast

\* The toast is there on every screen; the pages of the application are under /dashboard.
HandleToastClick ==
    /\ toast # NoDoc /\ toast' = NoDoc
    /\ \E origin \in {IF view \in {"overview", "questionnaire"} THEN "wizard" ELSE "hub"} :
          Visit("review", toast, origin)
HideToast ==
    /\ toast # NoDoc /\ toast' = NoDoc
    /\ UNCHANGED <<database, cache, notes, screens, calls, deletions, blacklist, bounds>>

(***************************************************************************)
(* The upload screen.                                                      *)
(***************************************************************************)
Dropzone(d) == view = "dropzone" /\ drop' = d
OnlyDrop == UNCHANGED <<cache, socket, view, review, calls, deletions, blacklist>>

PickFile ==
    /\ drop.status \in {"IDLE", "ERROR"}
    /\ \/ Dropzone([drop EXCEPT !.file = TRUE, !.status = "IDLE"])
       \/ Dropzone([drop EXCEPT !.status = "ERROR"])    \* validateDocumentFile refuses it
    /\ drop' # drop
    /\ OnlyDrop /\ NoFault /\ UNCHANGED <<database, strays>>
RemoveFile ==
    /\ drop.status \in {"IDLE", "ERROR"} /\ drop.file
    /\ Dropzone([drop EXCEPT !.file = FALSE, !.status = "IDLE"])
    /\ OnlyDrop /\ NoFault /\ UNCHANGED <<database, strays>>

HandleUpload ==
    /\ drop.status \in {"IDLE", "ERROR"} /\ drop.file
    /\ Dropzone([drop EXCEPT !.status = "UPLOADING", !.request = "application"])
    /\ OnlyDrop /\ NoFault /\ UNCHANGED <<database, strays>>

UploadError == [drop EXCEPT !.status = "ERROR", !.request = "none"]
ApplicationEnsured ==
    /\ drop.request = "application"
    /\ \/ Dropzone([drop EXCEPT !.request = "file"]) /\ NoFault
       \/ Dropzone(UploadError) /\ Fault
    /\ OnlyDrop /\ UNCHANGED <<database, strays>>

Free == {d \in Docs : server[d] = "none"}
Store(d) == server' = [server EXCEPT ![d] = "processing"] /\ UNCHANGED <<text, corrected, raced>>
StoreUpload ==
    /\ drop.request = "file"
    /\ \E d \in Free : Store(d) /\ Dropzone([drop EXCEPT !.request = d])
    /\ OnlyDrop /\ NoFault /\ UNCHANGED strays
\* Refused, or the document is stored and its answer is lost.
UploadFails ==
    /\ drop.request \in {"file"} \cup Docs
    /\ Dropzone(UploadError)
    /\ OnlyDrop /\ UNCHANGED <<database, strays>>
    /\ IF drop.request = "file" /\ Free = {} THEN NoFault ELSE Fault

UploadedWithoutTimer ==
    DropSees([drop EXCEPT !.status = "PROCESSING", !.request = "none", !.doc = drop.request], list)
UploadedDrop ==
    DropSees([drop EXCEPT !.status = "PROCESSING", !.request = "none", !.doc = drop.request,
                          !.timers = @ \cup {"processing"}], list)
UploadAnswered ==
    /\ drop.request \in Docs
    /\ Invalidate /\ Dropzone(UploadedDrop)
    /\ UNCHANGED <<database, socket, view, strays, review, calls, deletions, blacklist, bounds>>

\* An aborted upload may have reached the server.
StraySettles ==
    /\ strays > 0 /\ strays' = strays - 1
    /\ \/ \E d \in Free : Store(d)
       \/ UNCHANGED database
    /\ UNCHANGED <<cache, socket, view, drop, review, calls, deletions, blacklist, bounds>>

\* After 30 seconds the user is told that the processing goes on, and sent back.
ProcessingTimeout ==
    /\ "processing" \in drop.timers
    /\ \E v \in {ExitRoute(drop.origin)} :
          Go(v, NoDoc, "hub", calls) /\ Mount(v)
    /\ toast' = NoDoc   \* another toast takes its place
    /\ UNCHANGED <<database, notes, deletions, blacklist, bounds>>

\* After the moment that shows the success.
SuccessTimeout ==
    /\ "success" \in drop.timers
    /\ IF drop.origin = "hub"
       THEN Go("review", drop.doc, "hub", calls)
       ELSE /\ drop' = [drop EXCEPT !.timers = @ \ {"success"}]
            /\ calls' = Append(calls, Call("dropzone", <<drop.doc>>, "extract", "ocr", FALSE))
            /\ UNCHANGED <<view, strays, review>>
    /\ UNCHANGED <<database, cache, socket, deletions, blacklist, bounds>>

(***************************************************************************)
(* The review.                                                             *)
(***************************************************************************)
Reviewing(r) ==
    /\ view = "review" /\ review' = r
    /\ UNCHANGED <<database, cache, socket, view, drop, strays, deletions, blacklist>>

\* A load that fails shows no fields, and can be confirmed like one that shows them.
ExtractionsLoaded ==
    /\ review.data = "loading"
    /\ \/ server[review.doc] # "deleted" /\ Reviewing([review EXCEPT !.data = text[review.doc]]) /\ NoFault
       \/ server[review.doc] = "deleted" /\ Reviewing([review EXCEPT !.data = "empty"]) /\ NoFault
       \/ Reviewing([review EXCEPT !.data = "empty"]) /\ Fault
    /\ UNCHANGED calls
StartEditing ==
    /\ review.data \in {"ocr", "user"} /\ ~review.editing
    /\ Reviewing([review EXCEPT !.editing = TRUE]) /\ NoFault /\ UNCHANGED calls
SaveInlineEdit ==
    /\ review.editing
    /\ Reviewing([review EXCEPT !.editing = FALSE, !.data = "user"]) /\ NoFault /\ UNCHANGED calls
CancelEdit ==
    /\ review.editing
    /\ Reviewing([review EXCEPT !.editing = FALSE]) /\ NoFault /\ UNCHANGED calls

\* The field that is still being edited is sent as it was typed.
PayloadDataWithoutBuffer(r) == r.data
PayloadData(r) == IF r.editing THEN "user" ELSE r.data
HandleConfirmAll ==
    /\ review.data # "loading" /\ ~review.submitting
    /\ Reviewing([review EXCEPT !.submitting = TRUE]) /\ NoFault
    /\ calls' = Append(calls, Call("review", <<review.doc>>, "verify", PayloadData(review),
                                   review.editing \/ review.data = "user"))

(***************************************************************************)
(* The verifications: extractions, then verify, then the answer.           *)
(***************************************************************************)
DocOf(i) == Head(calls[i].docs)
Without(i) == RemoveAt(calls, i)
\* The loop of the hook goes on with the next document that has not failed before.
GoOn(i, black) ==
    LET docs == calls[i].docs
        open == {j \in 2..Len(docs) : docs[j] \notin black}
    IN  IF open = {} THEN Without(i)
        ELSE [calls EXCEPT ![i] = [@ EXCEPT !.docs = SubSeq(docs, Min(open), Len(docs)),
                                            !.at = "extract"]]

\* The call failed at the document: the hook remembers it and goes on, although its view may
\* be gone; the dropzone hands over to the wizard; the review shows the error.
CallFails(i) ==
    CASE calls[i].by = "hook" ->
            /\ blacklist' = blacklist \cup {DocOf(i)} /\ calls' = GoOn(i, blacklist')
            /\ UNCHANGED screens
      [] calls[i].by = "dropzone" ->
            /\ \E v \in {"questionnaire", "overview"} : Go(v, NoDoc, "hub", Without(i))
            /\ UNCHANGED blacklist
      [] calls[i].by = "review" ->
            /\ calls' = Without(i)
            /\ review' = IF calls[i].live THEN [review EXCEPT !.submitting = FALSE] ELSE review
            /\ UNCHANGED <<view, drop, strays, blacklist>>

ExtractOk(i) ==
    /\ server[DocOf(i)] # "deleted"
    /\ calls' = IF calls[i].by = "hook" /\ ~calls[i].live THEN Without(i)
                ELSE [calls EXCEPT ![i].at = "verify", ![i].data = text[DocOf(i)]]
    /\ NoFault /\ UNCHANGED <<screens, blacklist>>
Extract(i) ==
    /\ calls[i].at = "extract"
    /\ \/ ExtractOk(i)
       \/ CallFails(i) /\ (IF server[DocOf(i)] = "deleted" THEN NoFault ELSE Fault)
    /\ UNCHANGED <<database, cache, socket, deletions>>

\* verify_document: the fields that are sent are put over those that are there.
Verify(i) ==
    LET d == DocOf(i)
        older == \E j \in DOMAIN calls \ {i} :
                    DocOf(j) = d /\ calls[j].by # "review" /\ calls[j].at = "verify"
    IN  /\ calls[i].at = "verify"
        /\ \/ /\ server[d] # "deleted" /\ NoFault
              /\ server' = [server EXCEPT ![d] = "verified"]
              /\ text' = IF calls[i].data = "empty" THEN text ELSE [text EXCEPT ![d] = calls[i].data]
              /\ calls' = [calls EXCEPT ![i].at = "applied"]
              /\ IF calls[i].by = "review"
                 THEN /\ corrected' = IF calls[i].meant THEN corrected \cup {d} ELSE corrected \ {d}
                      /\ raced' = IF older THEN raced \cup {d} ELSE raced \ {d}
                 ELSE UNCHANGED <<corrected, raced>>
           \/ /\ calls' = [calls EXCEPT ![i].at = "refused"]
              /\ IF server[d] = "deleted" THEN NoFault ELSE Fault
              /\ UNCHANGED database
        /\ UNCHANGED <<cache, socket, screens, deletions, blacklist>>

VerifyOk(i) ==
    /\ calls[i].at = "applied" /\ NoFault /\ UNCHANGED blacklist
    /\ CASE calls[i].by = "hook" ->
              /\ IF calls[i].live THEN calls' = GoOn(i, blacklist) /\ Invalidate
                 ELSE calls' = Without(i) /\ UNCHANGED cache
              /\ UNCHANGED screens
         [] calls[i].by = "dropzone" ->
              \E v \in {"questionnaire", "overview"} : Go(v, NoDoc, "hub", Without(i)) /\ Invalidate
         [] calls[i].by = "review" -> Go("success", DocOf(i), "hub", Without(i)) /\ Invalidate
VerifyFails(i) ==
    /\ \/ calls[i].at = "refused" /\ NoFault
       \/ calls[i].at = "applied" /\ Fault
    /\ CallFails(i) /\ UNCHANGED cache
VerifyAnswered(i) ==
    /\ VerifyOk(i) \/ VerifyFails(i)
    /\ UNCHANGED <<database, socket, deletions>>

(***************************************************************************)
(* Deletions.                                                              *)
(***************************************************************************)
\* onMutate: the request for the list is cancelled, the document taken out of the list.
Delete(d) ==
    /\ dels[d].at = "none"
    /\ (view = "documents" /\ list[d] # "none") \/ (view = "review" /\ review.doc = d)
    /\ \E exit \in {IF view = "review" THEN ExitRoute(review.origin) ELSE "stay"} :
          dels' = [dels EXCEPT ![d] = [at |-> "sent", exit |-> exit]]
    /\ before' = [before EXCEPT ![d] = list]
    /\ fetch' = NoFetch /\ Show([list EXCEPT ![d] = "none"], calls)
    /\ UserAsks
    /\ UNCHANGED <<missed, database, socket, view, strays, review, blacklist>>
DeleteDocument(d) ==
    /\ dels[d].at = "sent"
    /\ \/ /\ server[d] # "deleted" /\ NoFault
          /\ server' = [server EXCEPT ![d] = "deleted"] /\ dels' = [dels EXCEPT ![d].at = "gone"]
       \/ /\ dels' = [dels EXCEPT ![d].at = "refused"] /\ UNCHANGED server
          /\ IF server[d] = "deleted" THEN NoFault ELSE Fault
    /\ UNCHANGED <<text, corrected, raced, cache, socket, screens, calls, before, blacklist>>

\* The review leads out of itself, although the user may have left it.
Deleted(d) ==
    /\ dels[d].at = "gone"
    /\ dels' = [dels EXCEPT ![d] = Idle] /\ before' = [before EXCEPT ![d] = NoFetch]
    /\ IF dels[d].exit = "stay" THEN UNCHANGED <<screens, calls>>
       ELSE Go(dels[d].exit, NoDoc, "hub", calls)
    /\ UNCHANGED <<database, socket, blacklist, bounds>>
DeleteOkQuietly(d) == Deleted(d) /\ Mount(dels[d].exit)
DeleteOk(d) == Deleted(d) /\ Invalidate    \* which the mount of the page joins
\* onError: the list is what it was, also when the server deleted the document and its answer was
\* lost; nothing is asked for.
DeleteFails(d) ==
    /\ \/ dels[d].at = "refused" /\ NoFault
       \/ dels[d].at = "gone" /\ Fault
    /\ dels' = [dels EXCEPT ![d] = Idle] /\ before' = [before EXCEPT ![d] = NoFetch]
    /\ Show(before[d], calls)
    /\ missed' = (missed \/ \E x \in Docs :
                     server[x] = "deleted" /\ (x = d \/ before[d][x] # "none"))
    /\ UNCHANGED <<fetch, database, socket, view, strays, review, blacklist>>

UserStep ==
    \/ Leave \/ OpenDropzone \/ OpenReview \/ HandleToastClick \/ HideToast
    \/ PickFile \/ RemoveFile \/ HandleUpload
    \/ StartEditing \/ SaveInlineEdit \/ CancelEdit \/ HandleConfirmAll
    \/ \E d \in Docs : Delete(d)
UploadStep == ApplicationEnsured \/ StoreUpload \/ UploadFails \/ UploadAnswered
Timer == ProcessingTimeout \/ SuccessTimeout
CallStep == \E i \in DOMAIN calls : Extract(i) \/ Verify(i) \/ VerifyAnswered(i)
Next ==
    \/ UserStep \/ UploadStep \/ StraySettles \/ Timer \/ ExtractionsLoaded \/ CallStep
    \/ Poll \/ Read \/ Arrive \/ FetchFails
    \/ \E d \in Docs :
          Process(d) \/ Notify(d) \/ DeleteDocument(d) \/ DeleteOk(d) \/ DeleteFails(d)

\* Requests are answered and timers fire; nothing says when a document is processed, or that
\* the socket reports it.
Fairness == WF_vars(UploadStep \/ Timer \/ CallStep) /\ WF_vars(Poll \/ Read \/ Arrive)
Spec == Init /\ [][Next]_vars /\ Fairness

(***************************************************************************)
(* Properties.                                                             *)
(***************************************************************************)
\* The state is well formed; a timer runs only on the upload screen and only in the state it
\* belongs to, whatever was answered, shown or left in between (DocumentDropzone.tsx).
TypeOK ==
    /\ server \in [Docs -> Statuses \cup {"deleted"}] /\ text \in [Docs -> {"empty", "ocr", "user"}]
    /\ list \in [Docs -> Statuses] /\ fetch \in {NoFetch, Asked} \cup [Docs -> Statuses]
    /\ view \in Views /\ notes \subseteq Docs /\ toast \in Docs \cup {NoDoc} /\ strays \in Nat
    /\ drop.status \in {"IDLE", "UPLOADING", "PROCESSING", "SUCCESS", "ERROR"}
    /\ drop.status = "UPLOADING" <=> drop.request # "none"
    /\ drop.status # "IDLE" \/ drop.file => view = "dropzone"
    /\ drop.status = "PROCESSING" <=> "processing" \in drop.timers
    /\ "success" \in drop.timers => drop.status = "SUCCESS"
    /\ review.submitting <=> \E i \in DOMAIN calls : calls[i].by = "review" /\ calls[i].live
    /\ \A i, j \in DOMAIN calls :
          calls[i].by = calls[j].by /\ calls[i].by # "dropzone" /\ calls[i].live /\ calls[j].live
          => i = j

\* An upload that the screen waits for comes to an end: the user is sent on, or shown an error,
\* although the worker may never finish and the socket may never report (30 second timer).
Waiting == drop.status \in {"UPLOADING", "PROCESSING", "SUCCESS"}
UploadEnds == Waiting ~> ~Waiting

\* A document that is no longer processed is not shown as being processed for ever, although
\* the message that says so may be lost (refetchInterval).
ProcessingIsNoticed ==
    \A d \in Docs : server[d] # "processing" ~> list[d] # "processing"

\* What the user corrected and confirmed, the field that was still open included, stays: an
\* automatic verification that starts later reads it before it verifies.  One that had read
\* the older text before the correction was stored is not covered (raced).
CorrectionsKept == \A d \in corrected \ raced : text[d] = "user"

\* When no deletion is under way, a deleted document is not in the list: no answer of a read
\* that is older than the deletion is shown last, wherever it was deleted from.  Two cases are
\* left out (missed), until the next read: the reads after it failed; or a deletion that was
\* taken for failed put back the list it had started from, with a document that another
\* deletion has removed, or with its own, which the server deleted before the answer was lost.
DeletedStaysAway ==
    fetch = NoFetch /\ ~missed /\ (\A d \in Docs : dels[d].at = "none")
    => \A d \in Docs : server[d] = "deleted" => list[d] = "none"
=============================================================================
