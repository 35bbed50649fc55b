------------------------- MODULE DocumentLifecycle -------------------------
(***************************************************************************)
(* The life of an uploaded document in the orchestration middleware: the   *)
(* upload handler stores a blob, commits a row and publishes a message;    *)
(* the Pub/Sub worker asks the document intelligence service (DIS) and     *)
(* writes the answer under an optimistic lock; the user verifies or        *)
(* deletes the document; two reconciliation sweeps, run by other requests  *)
(* of the same user, fail documents that are stuck or lost their blob.     *)
(*                                                                         *)
(* Blob store, database and Pub/Sub share no transaction.  Every handler   *)
(* is split at the points where another actor can run: between a read and  *)
(* the write that uses it, and between two side effects.  A database       *)
(* transaction is one step, at its COMMIT.                                 *)
(***************************************************************************)
EXTENDS Naturals, FiniteSets

CONSTANTS
  Docs,         (* documents, one upload request each                       *)
  Workers,      (* threads of the Pub/Sub worker                            *)
  Verifiers,    (* concurrent POST /documents/{id}/verify requests          *)
  Erasers,      (* concurrent DELETE /documents/{id} requests               *)
  StaleSweeps,  (* concurrent GET /profile requests                         *)
  BlobSweeps,   (* concurrent background blob reconciliations               *)
  MaxAttempts,  (* max_delivery_attempts of the subscription                *)
  SlotToDis,    (* slot id |-> DIS type, SLOT_ID_TO_DIS_TYPE                *)
  DisToSlot,    (* raw type |-> slot id, DIS_TO_SLOT_ID_MAP                 *)
  NamedTypes,   (* document types a client names on upload or verification  *)
  RawTypes,     (* types the classifier may answer                          *)
  NoDoc,        (* no document                                              *)
  Faults        (* which failures the environment may inject                *)

FaultKinds == {"crash", "db", "gcs", "publish", "dis", "ttl"}

\* What the stored document_type column may hold.
DocTypes == {"tbd", "OTHER"} \cup NamedTypes \cup {DisToSlot[t] : t \in DOMAIN DisToSlot}

ASSUME MaxAttemptsAssumption == MaxAttempts \in Nat \ {0}
ASSUME NoDocAssumption == NoDoc \notin Docs
ASSUME FaultsAssumption == Faults \subseteq FaultKinds
ASSUME FiniteActors == IsFiniteSet(Docs)

VARIABLES
  row,      (* user_documents                                               *)
  blob,     (* the object in the bucket exists                              *)
  profile,  (* documents whose values were synced to the user's record      *)
  old,      (* created more than five minutes ago                           *)
  upload,   (* where the upload request of the document is                  *)
  msg,      (* the Pub/Sub message of the document                          *)
  attempts, (* how often that message was delivered                         *)
  worker,   (* what each worker thread is doing                             *)
  notified, (* internal notifications sent for the document                 *)
  verify, eraser, stale, scrub   (* what each request is doing              *)

uploadVars  == <<upload>>
queueVars   == <<msg, attempts>>
requestVars == <<verify, eraser, stale, scrub>>
vars == <<row, blob, profile, old, upload, msg, attempts, worker, notified,
          verify, eraser, stale, scrub>>

-----------------------------------------------------------------------------
(* Rows.  raw_data is NULL (the empty set) or a JSON object, which holds   *)
(* what DIS extracted and the corrections of the verify requests.          *)

Statuses == {"absent", "processing", "ready_for_review", "verified", "failed"}
Contents == {"object", "extracted"} \cup Verifiers
Errors   == {"none", "warning", "DIS_INVOCATION_FAILED", "PUBLISH_FAILED",
             "PROCESSING_TIMEOUT", "GCS_BLOB_MISSING"}

Row == [status : Statuses, type : DocTypes, data : SUBSET Contents, error : Errors]

NoRow == [status |-> "absent", type |-> "tbd", data |-> {}, error |-> "none"]

Exists(d) == row[d].status # "absent"

\* UPDATE ... SET status, user_error_code by primary key, whatever the row holds now
Fail(d, code) == [row[d] EXCEPT !.status = "failed", !.error = code]

-----------------------------------------------------------------------------
(* What a thread or a request holds between two of its steps.              *)

IdleWorker == [pc |-> "idle", doc |-> NoDoc, type |-> "tbd"]
IdleVerify == [pc |-> "idle", doc |-> NoDoc, seen |-> NoRow]
IdleEraser == [pc |-> "idle", doc |-> NoDoc]
IdleSweep  == [pc |-> "idle", docs |-> {}]

UploadStates == {"new", "stored", "rollback", "saved", "deferred", "publish_failed",
                 "done", "refused", "not_owned", "cleaned", "leaked", "crashed"}

WorkerStates ==
  {IdleWorker} \cup
  [pc : {"received", "calling", "answered", "unanswered", "unrecorded", "notifying", "acking"},
   doc : Docs, type : DocTypes]

TypeOK ==
  /\ row \in [Docs -> Row]
  /\ blob \in [Docs -> BOOLEAN]
  /\ profile \subseteq Docs
  /\ old \in [Docs -> BOOLEAN]
  /\ upload \in [Docs -> UploadStates]
  /\ msg \in [Docs -> {"none", "pending", "acked", "dead"}]
  /\ attempts \in [Docs -> 0..MaxAttempts]
  /\ worker \in [Workers -> WorkerStates]
  /\ notified \in [Docs -> Nat]
  /\ verify \in [Verifiers -> {IdleVerify} \cup [pc : {"validating"}, doc : Docs, seen : Row]]
  /\ eraser \in [Erasers -> {IdleEraser} \cup [pc : {"loaded", "erased"}, doc : Docs]]
  /\ stale \in [StaleSweeps -> {IdleSweep} \cup [pc : {"selected"}, docs : SUBSET Docs]]
  /\ scrub \in [BlobSweeps -> {IdleSweep} \cup
                              [pc : {"selected", "checked"}, docs : SUBSET Docs]]

Init ==
  /\ row = [d \in Docs |-> NoRow]
  /\ blob = [d \in Docs |-> FALSE]
  /\ profile = {}
  /\ old = [d \in Docs |-> FALSE]
  /\ upload = [d \in Docs |-> "new"]
  /\ msg = [d \in Docs |-> "none"]
  /\ attempts = [d \in Docs |-> 0]
  /\ worker = [w \in Workers |-> IdleWorker]
  /\ notified = [d \in Docs |-> 0]
  /\ verify = [v \in Verifiers |-> IdleVerify]
  /\ eraser = [e \in Erasers |-> IdleEraser]
  /\ stale = [s \in StaleSweeps |-> IdleSweep]
  /\ scrub = [g \in BlobSweeps |-> IdleSweep]

-----------------------------------------------------------------------------
(* Upload: blob, then row, then message (_upload_file_impl).               *)

UploadMoves(d, from, to) ==
  /\ upload[d] = from
  /\ upload' = [upload EXCEPT ![d] = to]
  /\ UNCHANGED <<profile, old, attempts, worker, notified, requestVars>>

\* Size or type check, or the upload to the bucket, fails: nothing was stored.
RefuseUpload(d) ==
  /\ UploadMoves(d, "new", "refused")
  /\ UNCHANGED <<row, blob, msg>>

StoreBlob(d) ==
  /\ UploadMoves(d, "new", "stored")
  /\ blob' = [blob EXCEPT ![d] = TRUE]
  /\ UNCHANGED <<row, msg>>

\* The client may name the slot the document is for; otherwise it is "tbd".
SaveRow(d) ==
  /\ UploadMoves(d, "stored", "saved")
  /\ \E t \in NamedTypes \cup {"tbd"} :
       row' = [row EXCEPT ![d] = [NoRow EXCEPT !.status = "processing", !.type = t]]
  /\ UNCHANGED <<blob, msg>>

\* get_user_application raises HTTPException(404): rollback, the blob stays.
ApplicationNotOwned(d) ==
  /\ UploadMoves(d, "stored", "not_owned")
  /\ UNCHANGED <<row, blob, msg>>

\* Any other exception: rollback, then a best-effort erasure of the blob.
SaveRowFails(d) ==
  /\ "db" \in Faults
  /\ UploadMoves(d, "stored", "rollback")
  /\ UNCHANGED <<row, blob, msg>>

CleanUpBlob(d) ==
  /\ UploadMoves(d, "rollback", "cleaned")
  /\ blob' = [blob EXCEPT ![d] = FALSE]
  /\ UNCHANGED <<row, msg>>

CleanUpBlobFails(d) ==
  /\ "gcs" \in Faults
  /\ UploadMoves(d, "rollback", "leaked")
  /\ UNCHANGED <<row, blob, msg>>

\* /upload answers the client first and publishes in a background task ...
DeferPublish(d) ==
  /\ UploadMoves(d, "saved", "deferred")
  /\ UNCHANGED <<row, blob, msg>>

\* ... /bulk-upload publishes before it answers.
Publish(d) ==
  /\ UploadMoves(d, "saved", "done") \/ UploadMoves(d, "deferred", "done")
  /\ msg' = [msg EXCEPT ![d] = "pending"]
  /\ UNCHANGED <<row, blob>>

\* publish() raises.  An error raised on the way back hides a message that was
\* accepted.  A background task has nobody to tell.
PublishFails(d) ==
  /\ "publish" \in Faults
  /\ UploadMoves(d, "saved", "publish_failed") \/ UploadMoves(d, "deferred", "done")
  /\ \E m \in {"none", "pending"} : msg' = [msg EXCEPT ![d] = m]
  /\ UNCHANGED <<row, blob>>

\* An UPDATE of a row that is gone raises StaleDataError and changes nothing.
RecordPublishFailure(d) ==
  /\ UploadMoves(d, "publish_failed", "done")
  /\ row' = IF Exists(d) THEN [row EXCEPT ![d] = Fail(d, "PUBLISH_FAILED")] ELSE row
  /\ UNCHANGED <<blob, msg>>

\* The instance is stopped before the handler, or its background task, is through.
UploadCrash(d) ==
  /\ "crash" \in Faults
  /\ \/ \E from \in {"stored", "rollback"} : UploadMoves(d, from, "crashed")
     \/ \E from \in {"saved", "deferred", "publish_failed"} : UploadMoves(d, from, "done")
  /\ UNCHANGED <<row, blob, msg>>

-----------------------------------------------------------------------------
(* Pub/Sub: at-least-once delivery with a dead-letter policy.              *)

Holders(d) == {w \in Workers : worker[w].doc = d}

\* Mutant of Receive: one delivery more than the dead-letter policy allows.
ReceiveOnceMore(w, d) ==
  /\ worker[w] = IdleWorker
  /\ msg[d] = "pending"
  /\ attempts[d] <= MaxAttempts
  /\ attempts' = [attempts EXCEPT ![d] = @ + 1]
  /\ worker' = [worker EXCEPT ![w] = [pc |-> "received", doc |-> d, type |-> "tbd"]]
  /\ UNCHANGED <<row, blob, profile, old, upload, msg, notified, requestVars>>

\* The message stays with the subscription until somebody acknowledges it, so
\* it may reach a second thread while a first one still works on it.
Receive(w, d) ==
  /\ worker[w] = IdleWorker
  /\ msg[d] = "pending"
  /\ attempts[d] < MaxAttempts
  /\ attempts' = [attempts EXCEPT ![d] = @ + 1]
  /\ worker' = [worker EXCEPT ![w] = [pc |-> "received", doc |-> d, type |-> "tbd"]]
  /\ UNCHANGED <<row, blob, profile, old, upload, msg, notified, requestVars>>

DeadLetter(d) ==
  /\ msg[d] = "pending"
  /\ attempts[d] = MaxAttempts
  /\ Holders(d) = {}
  /\ msg' = [msg EXCEPT ![d] = "dead"]
  /\ UNCHANGED <<row, blob, profile, old, upload, attempts, worker, notified, requestVars>>

-----------------------------------------------------------------------------
(* The worker (process_message).                                           *)

WorkerMoves(w, from, to) ==
  /\ worker[w].pc = from
  /\ worker' = [worker EXCEPT ![w].pc = to]
  /\ UNCHANGED <<blob, profile, old, uploadVars, attempts, requestVars>>

AckAndStop(w) ==
  /\ worker' = [worker EXCEPT ![w] = IdleWorker]
  /\ msg' = [msg EXCEPT ![worker[w].doc] = "acked"]
  /\ UNCHANGED <<row, blob, profile, old, upload, attempts, notified, requestVars>>

\* Mutant of SkipMessage: only a deleted row is recognised; a thread that finds any
\* other status keeps its message.
SkipOnlyDeleted(w) ==
  /\ worker[w].pc = "received"
  /\ ~Exists(worker[w].doc)
  /\ AckAndStop(w)

\* The row is gone, or somebody already decided about it: nothing left to do.
SkipMessage(w) ==
  /\ worker[w].pc = "received"
  /\ row[worker[w].doc].status # "processing"
  /\ AckAndStop(w)

\* Mutant of CallDis: the message is acknowledged on receipt.
AckOnReceipt(w) ==
  LET d == worker[w].doc IN
  /\ worker[w].pc = "received"
  /\ row[d].status = "processing"
  /\ worker' = [worker EXCEPT ![w] = [pc |-> "calling", doc |-> d, type |-> row[d].type]]
  /\ msg' = [msg EXCEPT ![d] = "acked"]
  /\ UNCHANGED <<row, blob, profile, old, upload, attempts, notified, requestVars>>

\* The row waits for an answer: DIS is asked, for up to 300 seconds, with no lock held.
CallDis(w) ==
  LET d == worker[w].doc IN
  /\ worker[w].pc = "received"
  /\ row[d].status = "processing"
  /\ worker' = [worker EXCEPT ![w] = [pc |-> "calling", doc |-> d, type |-> row[d].type]]
  /\ UNCHANGED <<row, blob, profile, old, upload, queueVars, notified, requestVars>>

SlotOf(raw) == IF raw \in DOMAIN DisToSlot THEN DisToSlot[raw] ELSE "OTHER"

\* A slot the user named, and DIS knows, is extracted as such; everything else
\* is classified, which may answer any type.
AnswerTypes(selected) ==
  IF selected # "tbd" /\ selected \in DOMAIN SlotToDis
  THEN {SlotOf(selected)}
  ELSE {SlotOf(raw) : raw \in RawTypes}

DisAnswers(w) ==
  /\ worker[w].pc = "calling"
  /\ \E t \in AnswerTypes(worker[w].type) :
       worker' = [worker EXCEPT ![w] = [@ EXCEPT !.pc = "answered", !.type = t]]
  /\ UNCHANGED <<row, blob, profile, old, upload, queueVars, notified, requestVars>>

\* No 200, an error in the body, a timeout, a network failure.
DisFails(w) ==
  /\ "dis" \in Faults
  /\ WorkerMoves(w, "calling", "unanswered")
  /\ UNCHANGED <<row, msg, notified>>

\* Mutant of Locked: the UPDATE of the worker filters on the key alone.
LockedByKey(d) == Exists(d)

\* UPDATE ... WHERE document_id = :doc_id AND status = 'processing'
Locked(d) == row[d].status = "processing"

SaveAnswer(w) ==
  LET d == worker[w].doc IN
  /\ \/ /\ WorkerMoves(w, "answered", "notifying")
        /\ Locked(d)
        /\ \E warning \in {"none", "warning"} :
             row' = [row EXCEPT ![d] =
                       [status |-> "ready_for_review", type |-> worker[w].type,
                        data |-> {"object", "extracted"}, error |-> warning]]
     \/ /\ WorkerMoves(w, "answered", "acking")
        /\ ~Locked(d)
        /\ UNCHANGED row
  /\ UNCHANGED <<msg, notified>>

\* _update_db_failed; an exception of its own is logged and swallowed.
SaveFailure(w) ==
  LET d == worker[w].doc IN
  /\ WorkerMoves(w, "unanswered", "acking")
  /\ row' = IF Locked(d)
            THEN [row EXCEPT ![d] = [@ EXCEPT !.status = "failed", !.data = {"object"},
                                              !.error = "DIS_INVOCATION_FAILED"]]
            ELSE row
  /\ UNCHANGED <<msg, notified>>

SaveFailureFails(w) ==
  /\ "db" \in Faults
  /\ WorkerMoves(w, "unanswered", "unrecorded")
  /\ UNCHANGED <<row, msg, notified>>

\* The notification is sent once and its failure is only logged.
Notify(w) ==
  LET d == worker[w].doc IN
  /\ WorkerMoves(w, "notifying", "acking")
  /\ \/ notified' = [notified EXCEPT ![d] = @ + 1]
     \/ UNCHANGED notified
  /\ UNCHANGED <<row, msg>>

Ack(w) == worker[w].pc \in {"acking", "unrecorded"} /\ AckAndStop(w)

\* The thread gives the message back: a database error raised by the SELECT or by
\* the UPDATE of the answer nacks it, a crash lets its lease expire.
Release(w) ==
  /\ \/ "db" \in Faults /\ worker[w].pc \in {"received", "answered"}
     \/ "crash" \in Faults /\ worker[w] # IdleWorker
  /\ worker' = [worker EXCEPT ![w] = IdleWorker]
  /\ UNCHANGED <<row, blob, profile, old, upload, queueVars, notified, requestVars>>

-----------------------------------------------------------------------------
(* The user verifies (verify_document).                                    *)

otherThanVerify == <<old, upload, queueVars, worker, notified, blob, eraser, stale, scrub>>

\* Mutant of LoadForVerify: the user's record is written before the rules engine agrees.
EagerProfileSync(v, d) ==
  /\ verify[v] = IdleVerify
  /\ Exists(d)
  /\ verify' = [verify EXCEPT ![v] = [pc |-> "validating", doc |-> d, seen |-> row[d]]]
  /\ profile' = profile \cup {d}
  /\ UNCHANGED <<row, otherThanVerify>>

\* Loads the row, merges the corrections into a local copy and asks the rules
\* engine; no lock is held meanwhile.
LoadForVerify(v, d) ==
  /\ verify[v] = IdleVerify
  /\ Exists(d)
  /\ verify' = [verify EXCEPT ![v] = [pc |-> "validating", doc |-> d, seen |-> row[d]]]
  /\ UNCHANGED <<row, profile, otherThanVerify>>

\* 422 or 502, a crash, or StaleDataError because the row is gone by now: no effect.
VerifyRefused(v) ==
  /\ verify[v].pc = "validating"
  /\ verify' = [verify EXCEPT ![v] = IdleVerify]
  /\ UNCHANGED <<row, profile, otherThanVerify>>

\* The ORM writes the columns whose value differs from the one it loaded.
Dirty(seen, new, now) == IF new = seen THEN now ELSE new

VerifyCommit(v) ==
  LET d    == verify[v].doc
      seen == verify[v].seen
  IN
  /\ verify[v].pc = "validating"
  /\ \/ /\ Exists(d)
        /\ \E corrections \in SUBSET {v}, t \in NamedTypes \cup {seen.type} :
             row' = [row EXCEPT ![d] =
               [status |-> Dirty(seen.status, "verified", @.status),
                type   |-> Dirty(seen.type, t, @.type),
                data   |-> Dirty(seen.data, seen.data \cup {"object"} \cup corrections, @.data),
                error  |-> @.error]]
     \* a repeated verification that changes no column does not notice that the row is gone
     \/ /\ ~Exists(d) /\ seen.status = "verified" /\ "object" \in seen.data
        /\ UNCHANGED row
  /\ profile' \in {profile, profile \cup {d}}
  /\ verify' = [verify EXCEPT ![v] = IdleVerify]
  /\ UNCHANGED otherThanVerify

-----------------------------------------------------------------------------
(* The user deletes (delete_user_document): blob first, then the rows.     *)

otherThanErase == <<profile, old, upload, queueVars, worker, notified, verify, stale, scrub>>

LoadForErase(e, d) ==
  /\ eraser[e] = IdleEraser
  /\ Exists(d)
  /\ eraser' = [eraser EXCEPT ![e] = [pc |-> "loaded", doc |-> d]]
  /\ UNCHANGED <<row, blob, otherThanErase>>

EraseBlob(e) ==
  /\ eraser[e].pc = "loaded"
  /\ blob' = [blob EXCEPT ![eraser[e].doc] = FALSE]
  /\ eraser' = [eraser EXCEPT ![e].pc = "erased"]
  /\ UNCHANGED <<row, otherThanErase>>

\* Mutant of EraseBlobFails: the storage error is logged and the row is deleted all the same.
EraseDespiteFailure(e) ==
  /\ "gcs" \in Faults
  /\ eraser[e].pc = "loaded"
  /\ eraser' = [eraser EXCEPT ![e].pc = "erased"]
  /\ UNCHANGED <<row, blob, otherThanErase>>

\* Storage failure: 500 before the database is touched.
EraseBlobFails(e) ==
  /\ "gcs" \in Faults
  /\ eraser[e].pc = "loaded"
  /\ eraser' = [eraser EXCEPT ![e] = IdleEraser]
  /\ UNCHANGED <<row, blob, otherThanErase>>

\* Deleting a row that is already gone only warns.
EraseRow(e) ==
  /\ eraser[e].pc = "erased"
  /\ row' = [row EXCEPT ![eraser[e].doc] = NoRow]
  /\ eraser' = [eraser EXCEPT ![e] = IdleEraser]
  /\ UNCHANGED <<blob, otherThanErase>>

\* "Metadata delete failed after GCS erasure", or the instance is stopped.
EraseRowFails(e) ==
  /\ Faults \cap {"db", "crash"} # {}
  /\ eraser[e].pc = "erased"
  /\ eraser' = [eraser EXCEPT ![e] = IdleEraser]
  /\ UNCHANGED <<row, blob, otherThanErase>>

-----------------------------------------------------------------------------
(* The sweeps of UserService.  Both load the rows they will change, and    *)
(* write them by primary key: an UPDATE of several rows of which one is    *)
(* gone raises StaleDataError and rolls everything back.                   *)

\* Mutant of FailAll: an upsert where the code updates.
UpsertAll(D, code) == row' = [d \in Docs |-> IF d \in D THEN Fail(d, code) ELSE row[d]]

FailAll(D, code) ==
  row' = IF \A d \in D : Exists(d)
         THEN [d \in Docs |-> IF d \in D THEN Fail(d, code) ELSE row[d]]
         ELSE row

otherThanSweep == <<blob, profile, old, upload, queueVars, worker, notified, verify, eraser>>

\* Mutant of StaleDocs: created_at compared the wrong way round.
YoungDocs == {d \in Docs : row[d].status = "processing" /\ ~old[d]}

StaleDocs == {d \in Docs : row[d].status = "processing" /\ old[d]}

\* cleanup_stale_documents
SelectStale(s) ==
  /\ stale[s] = IdleSweep
  /\ StaleDocs # {}
  /\ stale' = [stale EXCEPT ![s] = [pc |-> "selected", docs |-> StaleDocs]]
  /\ UNCHANGED <<row, scrub, otherThanSweep>>

FailStale(s) ==
  /\ stale[s].pc = "selected"
  /\ FailAll(stale[s].docs, "PROCESSING_TIMEOUT")
  /\ stale' = [stale EXCEPT ![s] = IdleSweep]
  /\ UNCHANGED <<scrub, otherThanSweep>>

\* cleanup_missing_gcs_files
SelectVerified(g) ==
  LET D == {d \in Docs : row[d].status = "verified"} IN
  /\ scrub[g] = IdleSweep
  /\ D # {}
  /\ scrub' = [scrub EXCEPT ![g] = [pc |-> "selected", docs |-> D]]
  /\ UNCHANGED <<row, stale, otherThanSweep>>

\* Mutant of CheckBlobs: a failed existence check counts as a missing blob.
ErrorMeansMissing(g) ==
  /\ scrub[g].pc = "selected"
  /\ \E skipped \in SUBSET scrub[g].docs :
       /\ skipped # {} => "gcs" \in Faults
       /\ LET missing == {d \in scrub[g].docs : ~blob[d]} \cup skipped IN
          scrub' = [scrub EXCEPT ![g] = IF missing = {} THEN IdleSweep
                                        ELSE [pc |-> "checked", docs |-> missing]]
  /\ UNCHANGED <<row, stale, otherThanSweep>>

\* Mutant of CheckBlobs: one missing blob condemns every document of the user.
OneMissingFailsAll(g) ==
  /\ scrub[g].pc = "selected"
  /\ scrub' = [scrub EXCEPT ![g] = IF \A d \in scrub[g].docs : blob[d] THEN IdleSweep
                                   ELSE [pc |-> "checked", docs |-> scrub[g].docs]]
  /\ UNCHANGED <<row, stale, otherThanSweep>>

\* An error of one existence check skips that document.
CheckBlobs(g) ==
  /\ scrub[g].pc = "selected"
  /\ \E skipped \in SUBSET scrub[g].docs :
       /\ skipped # {} => "gcs" \in Faults
       /\ LET missing == {d \in scrub[g].docs \ skipped : ~blob[d]} IN
          scrub' = [scrub EXCEPT ![g] = IF missing = {} THEN IdleSweep
                                        ELSE [pc |-> "checked", docs |-> missing]]
  /\ UNCHANGED <<row, stale, otherThanSweep>>

FailScrubbed(g) ==
  /\ scrub[g].pc = "checked"
  /\ FailAll(scrub[g].docs, "GCS_BLOB_MISSING")
  /\ scrub' = [scrub EXCEPT ![g] = IdleSweep]
  /\ UNCHANGED <<stale, otherThanSweep>>

-----------------------------------------------------------------------------
(* Time and the bucket's retention rule.                                   *)

Age(d) ==
  /\ Exists(d) /\ ~old[d]
  /\ old' = [old EXCEPT ![d] = TRUE]
  /\ UNCHANGED <<row, blob, profile, upload, queueVars, worker, notified, requestVars>>

BlobExpires(d) ==
  /\ "ttl" \in Faults
  /\ blob[d] /\ old[d]
  /\ blob' = [blob EXCEPT ![d] = FALSE]
  /\ UNCHANGED <<row, profile, old, upload, queueVars, worker, notified, requestVars>>

-----------------------------------------------------------------------------
UploadStep(d) ==
  \/ RefuseUpload(d) \/ StoreBlob(d) \/ SaveRow(d) \/ ApplicationNotOwned(d)
  \/ SaveRowFails(d) \/ CleanUpBlob(d) \/ CleanUpBlobFails(d)
  \/ DeferPublish(d) \/ Publish(d) \/ PublishFails(d)
  \/ RecordPublishFailure(d) \/ UploadCrash(d)

ProcessMessage(w) ==
  \/ SkipMessage(w) \/ CallDis(w) \/ DisAnswers(w) \/ DisFails(w)
  \/ SaveAnswer(w) \/ SaveFailure(w) \/ SaveFailureFails(w)
  \/ Notify(w) \/ Ack(w)

WorkerStep(w) == ProcessMessage(w) \/ Release(w)

VerifyStep(v) == (\E d \in Docs : LoadForVerify(v, d)) \/ VerifyRefused(v) \/ VerifyCommit(v)

EraseStep(e) ==
  \/ \E d \in Docs : LoadForErase(e, d)
  \/ EraseBlob(e) \/ EraseBlobFails(e) \/ EraseRow(e) \/ EraseRowFails(e)

StaleStep(s) == SelectStale(s) \/ FailStale(s)

ScrubStep(g) == SelectVerified(g) \/ CheckBlobs(g) \/ FailScrubbed(g)

Next ==
  \/ \E d \in Docs : UploadStep(d) \/ DeadLetter(d) \/ Age(d) \/ BlobExpires(d)
  \/ \E w \in Workers, d \in Docs : Receive(w, d)
  \/ \E w \in Workers : WorkerStep(w)
  \/ \E v \in Verifiers : VerifyStep(v)
  \/ \E e \in Erasers : EraseStep(e)
  \/ \E s \in StaleSweeps : StaleStep(s)
  \/ \E g \in BlobSweeps : ScrubStep(g)

Spec == Init /\ [][Next]_vars

\* Threads that hold a message go on, and the subscription keeps delivering.  Nothing makes
\* a thread crash or give its message back.
WorkerFairness ==
  /\ \A w \in Workers : WF_vars(ProcessMessage(w))
  /\ \A d \in Docs : WF_vars(\E w \in Workers : Receive(w, d)) /\ WF_vars(DeadLetter(d))

\* Time passes, and the user opens the profile again and again.
SweepFairness ==
  /\ \A d \in Docs : WF_vars(Age(d))
  /\ \A s \in StaleSweeps : WF_vars(StaleStep(s))

FairSpec == Spec /\ WorkerFairness /\ SweepFairness

-----------------------------------------------------------------------------
(* The status column as its readers see it over time: a row that is gone   *)
(* differs from one that never was.                                        *)

\* The upload request got as far as committing the row.
Committed(d) == upload[d] \in {"saved", "deferred", "publish_failed", "done"}

StatusOf(d) ==
  IF Exists(d) THEN row[d].status ELSE IF Committed(d) THEN "deleted" ELSE "none"

StatusModule == INSTANCE DocumentStatus WITH status <- [d \in Docs |-> StatusOf(d)]

\* Uploads, the worker, users and sweeps together keep the promise of the status column:
\* no late write brings a document back to processing or to review, none revives a row.
StatusRefinement == StatusModule!Spec

-----------------------------------------------------------------------------
(* What must hold.                                                         *)

\* A blob without a row is the leftover of an upload that did not commit: deleting a
\* document never leaves the file behind, because delete_user_document erases the blob
\* before the row and keeps the row when the storage refuses.
BlobAccounted ==
  \A d \in Docs : blob[d] /\ ~Exists(d) =>
    upload[d] \in {"stored", "rollback", "not_owned", "leaked", "crashed"}

\* Redelivery, duplicate delivery and crashes notify the user at most once about a
\* document: process_message notifies only the thread whose guarded UPDATE hit the row.
NotifiedOnce == \A d \in Docs : notified[d] <= 1

\* Values reach the user's record only together with the verification of the document they
\* come from: a document still to be reviewed has contributed nothing (verify_document).
ProfileFromVerified ==
  \A d \in profile : Exists(d) => row[d].status \in {"verified", "failed"}

\* A document is reported as having lost its file only if the file is gone, although
\* cleanup_missing_gcs_files decides on what it read before the check.
MissingBlobIsMissing ==
  \A d \in Docs : row[d].error = "GCS_BLOB_MISSING" => ~blob[d]

\* What a verify request corrected stays in raw_data: no late worker answer, sweep or
\* repeated verification takes it out.  Only deletion does, or a verify request that had
\* loaded the row before the correction was committed (verify_document takes no lock).
CorrectionsSurvive ==
  [][\A d \in Docs, v \in Verifiers :
       v \in row[d].data /\ v \notin row'[d].data =>
         \/ ~Exists(d)'
         \/ \E u \in Verifiers : /\ verify[u].doc = d /\ v \notin verify[u].seen.data
                                /\ VerifyCommit(u)]_vars

\* A committed document does not stay in processing for ever, whatever is lost or fails,
\* as long as its owner keeps opening the profile (cleanup_stale_documents).
DocumentsSettle ==
  \A d \in Docs : (row[d].status = "processing") ~> (row[d].status # "processing")

\* A message the subscription accepted does not circulate for ever: however often threads
\* crash or give it back, it is acknowledged or ends on the dead-letter topic.
MessagesEnd == \A d \in Docs : (msg[d] = "pending") ~> (msg[d] \in {"acked", "dead"})

\* The worker acknowledges a message only when its document is decided, by itself or by
\* somebody else, however threads crash and deliveries overlap; the one exception is the
\* failure that could not be recorded, since _update_db_failed swallows its own exception.
AckedIsSettled ==
  [][\A d \in Docs :
       msg[d] # "acked" /\ msg'[d] = "acked" =>
         \/ row[d].status # "processing"
         \/ \E w \in Workers : worker[w].doc = d /\ worker[w].pc = "unrecorded"]_vars

\* A slot the user named on upload is the type the document is reviewed as: test_worker.py
\* expects doc_type "stmt3" for a document uploaded as "stmt3".
NamedSlotIsKept ==
  [][\A d \in Docs :
       /\ row[d].type \in DOMAIN SlotToDis
       /\ row[d].status = "processing" /\ row'[d].status = "ready_for_review"
       => row'[d].type = row[d].type]_vars

\* cleanup_stale_documents: "Finds documents in 'processing' state for too long and marks
\* them as 'failed'", that is, only those.
TimeoutOnlyWhileProcessing ==
  [][\A d \in Docs :
       row'[d].error = "PROCESSING_TIMEOUT" /\ row[d].error # "PROCESSING_TIMEOUT"
         => row[d].status = "processing"]_vars

\* _upload_file_impl: "Clean up GCS blob if database transaction fails before commit".
\* A handler that was neither stopped nor refused by the storage leaves no blob behind.
FailedUploadLeavesNoBlob ==
  \A d \in Docs : upload[d] \in {"refused", "not_owned", "cleaned"} => ~blob[d]
=============================================================================
