---------------------- MODULE DocumentLifecycleProofs ----------------------
(***************************************************************************)
(* Proofs about DocumentLifecycle, for any number of documents, threads    *)
(* and concurrent requests, any tables and any combination of failures.    *)
(***************************************************************************)
EXTENDS DocumentLifecycle, TLAPS

-----------------------------------------------------------------------------
(* Type correctness.                                                       *)

BusyWorker ==
  [pc : {"received", "calling", "answered", "unanswered", "unrecorded", "notifying", "acking"},
   doc : Docs, type : DocTypes]

\* A thread that is not idle holds a document.
LEMMA BusyHasDoc ==
  ASSUME TypeOK, NEW w \in Workers, worker[w].pc # "idle"
  PROVE  worker[w] \in BusyWorker
  BY DEF TypeOK, WorkerStates, IdleWorker, BusyWorker

LEMMA NoRowTyped == NoRow \in Row
  BY DEF NoRow, Row, Statuses, DocTypes, Errors

\* Every answer of DIS is translated to a type the column may hold.
LEMMA AnswersTyped ==
  ASSUME NEW selected, NEW t \in AnswerTypes(selected)
  PROVE  t \in DocTypes
  BY DEF AnswerTypes, SlotOf, DocTypes

LEMMA RowUpdates ==
  ASSUME NEW r \in Row, NEW s \in Statuses, NEW t \in DocTypes
  PROVE  [r EXCEPT !.status = s, !.type = t] \in Row
  BY DEF Row

LEMMA WorkerUpdates ==
  ASSUME NEW j \in BusyWorker, NEW t \in DocTypes
  PROVE  [j EXCEPT !.pc = "answered", !.type = t] \in BusyWorker
  BY DEF BusyWorker

LEMMA FailTyped ==
  ASSUME TypeOK, NEW d \in Docs, NEW code \in Errors
  PROVE  Fail(d, code) \in Row
<1>1. row[d] \in Row             BY DEF TypeOK
<1>2. "failed" \in Statuses      BY DEF Statuses
<1>3. QED                        BY <1>1, <1>2 DEF Fail, Row

LEMMA FailAllTyped ==
  ASSUME TypeOK, NEW D \in SUBSET Docs, NEW code \in Errors, FailAll(D, code)
  PROVE  row' \in [Docs -> Row]
  BY FailTyped DEF TypeOK, FailAll

LEMMA UploadTyped ==
  ASSUME TypeOK, NEW d \in Docs, UploadStep(d)
  PROVE  TypeOK'
<1> USE NoRowTyped DEF TypeOK, UploadMoves, UploadStates, requestVars
<1>1. CASE RefuseUpload(d)         BY <1>1 DEF RefuseUpload
<1>2. CASE StoreBlob(d)            BY <1>2 DEF StoreBlob
<1>3. CASE SaveRow(d)
  <2>1. \A t \in NamedTypes \cup {"tbd"} :
          [NoRow EXCEPT !.status = "processing", !.type = t] \in Row
    <3>1. "processing" \in Statuses                       BY DEF Statuses
    <3>2. NamedTypes \cup {"tbd"} \subseteq DocTypes       BY DEF DocTypes
    <3>3. QED                                             BY <3>1, <3>2, RowUpdates
  <2>2. PICK t \in NamedTypes \cup {"tbd"} :
          row' = [row EXCEPT ![d] = [NoRow EXCEPT !.status = "processing", !.type = t]]
    BY <1>3 DEF SaveRow
  <2>3. row' \in [Docs -> Row]
    BY <2>1, <2>2
  <2>4. QED BY <1>3, <2>3 DEF SaveRow
<1>4. CASE ApplicationNotOwned(d)  BY <1>4 DEF ApplicationNotOwned
<1>5. CASE SaveRowFails(d)         BY <1>5 DEF SaveRowFails
<1>6. CASE CleanUpBlob(d)          BY <1>6 DEF CleanUpBlob
<1>7. CASE CleanUpBlobFails(d)     BY <1>7 DEF CleanUpBlobFails
<1>8. CASE DeferPublish(d)         BY <1>8 DEF DeferPublish
<1>9. CASE Publish(d)              BY <1>9 DEF Publish
<1>10. CASE PublishFails(d)        BY <1>10 DEF PublishFails
<1>11. CASE RecordPublishFailure(d)
  <2>1. Fail(d, "PUBLISH_FAILED") \in Row
    BY FailTyped DEF Errors
  <2>2. row' \in [Docs -> Row]
    BY <1>11, <2>1 DEF RecordPublishFailure
  <2>3. QED BY <1>11, <2>2 DEF RecordPublishFailure
<1>12. CASE UploadCrash(d)         BY <1>12 DEF UploadCrash
<1>13. QED
  BY <1>1, <1>2, <1>3, <1>4, <1>5, <1>6, <1>7, <1>8, <1>9, <1>10, <1>11, <1>12 DEF UploadStep

LEMMA ReceiveTyped ==
  ASSUME TypeOK, NEW w \in Workers, NEW d \in Docs, Receive(w, d)
  PROVE  TypeOK'
<1>1. [pc |-> "received", doc |-> d, type |-> "tbd"] \in WorkerStates
  BY DEF WorkerStates, DocTypes
<1>2. attempts' \in [Docs -> 0..MaxAttempts]
  BY MaxAttemptsAssumption DEF TypeOK, Receive
<1>3. QED
  BY <1>1, <1>2 DEF TypeOK, Receive, requestVars

LEMMA WorkerTyped ==
  ASSUME TypeOK, NEW w \in Workers, WorkerStep(w)
  PROVE  TypeOK'
<1> USE DEF TypeOK, requestVars, queueVars, uploadVars
<1>1. CASE SkipMessage(w)
  BY <1>1, BusyHasDoc DEF SkipMessage, AckAndStop, WorkerStates, BusyWorker
<1>2. CASE CallDis(w)
  <2>1. worker[w] \in BusyWorker
    BY <1>2, BusyHasDoc DEF CallDis
  <2>2. row[worker[w].doc].type \in DocTypes
    BY <2>1 DEF BusyWorker, Row
  <2>3. worker' \in [Workers -> WorkerStates]
    BY <1>2, <2>1, <2>2 DEF CallDis, WorkerStates, BusyWorker
  <2>4. QED BY <1>2, <2>3 DEF CallDis
<1>3. CASE DisAnswers(w)
  <2>1. worker[w] \in BusyWorker
    BY <1>3, BusyHasDoc DEF DisAnswers
  <2>2. \A t \in DocTypes : [worker[w] EXCEPT !.pc = "answered", !.type = t] \in WorkerStates
    <3>1. \A t \in DocTypes : [worker[w] EXCEPT !.pc = "answered", !.type = t] \in BusyWorker
      BY <2>1, WorkerUpdates
    <3>2. QED BY <3>1 DEF WorkerStates, BusyWorker
  <2>3. PICK t \in AnswerTypes(worker[w].type) :
          worker' = [worker EXCEPT ![w] = [@ EXCEPT !.pc = "answered", !.type = t]]
    BY <1>3 DEF DisAnswers
  <2>4. t \in DocTypes
    BY AnswersTyped
  <2>5. worker' \in [Workers -> WorkerStates]
    BY <2>2, <2>3, <2>4
  <2>6. QED BY <1>3, <2>5 DEF DisAnswers
<1>moves. ASSUME NEW from \in {"calling", "answered", "unanswered", "notifying"},
                 NEW to \in {"unanswered", "unrecorded", "notifying", "acking"}, WorkerMoves(w, from, to)
          PROVE  worker' \in [Workers -> WorkerStates] /\ worker[w] \in BusyWorker
  <2>1. worker[w] \in BusyWorker
    BY <1>moves, BusyHasDoc DEF WorkerMoves
  <2>2. [worker[w] EXCEPT !.pc = to] \in WorkerStates
    BY <2>1 DEF BusyWorker, WorkerStates
  <2>3. QED BY <1>moves, <2>1, <2>2 DEF WorkerMoves
<1>4. CASE DisFails(w)
  BY <1>4, <1>moves DEF DisFails, WorkerMoves
<1>5. CASE SaveAnswer(w)
  <2>1. worker' \in [Workers -> WorkerStates] /\ worker[w] \in BusyWorker
    BY <1>5, <1>moves DEF SaveAnswer
  <2>2. ASSUME NEW warning \in {"none", "warning"}
        PROVE  [status |-> "ready_for_review", type |-> worker[w].type,
                data |-> {"object", "extracted"}, error |-> warning] \in Row
    BY <2>1 DEF Row, BusyWorker, Statuses, Contents, Errors
  <2>3. row' \in [Docs -> Row]
    BY <1>5, <2>2 DEF SaveAnswer
  <2>4. QED BY <1>5, <2>1, <2>3 DEF SaveAnswer, WorkerMoves
<1>6. CASE SaveFailure(w)
  <2>1. worker' \in [Workers -> WorkerStates] /\ worker[w] \in BusyWorker
    BY <1>6, <1>moves DEF SaveFailure
  <2>2. row[worker[w].doc] \in Row
    BY <2>1 DEF BusyWorker
  <2>3. [row[worker[w].doc] EXCEPT !.status = "failed", !.data = {"object"},
                                   !.error = "DIS_INVOCATION_FAILED"] \in Row
    BY <2>2 DEF Row, Statuses, Contents, Errors
  <2>4. row' \in [Docs -> Row]
    BY <1>6, <2>3 DEF SaveFailure
  <2>5. QED BY <1>6, <2>1, <2>4 DEF SaveFailure, WorkerMoves
<1>7. CASE SaveFailureFails(w)
  BY <1>7, <1>moves DEF SaveFailureFails, WorkerMoves
<1>8. CASE Notify(w)
  <2>1. worker' \in [Workers -> WorkerStates]
    BY <1>8, <1>moves DEF Notify
  <2>2. notified' \in [Docs -> Nat]
    BY <1>8 DEF Notify
  <2>3. QED BY <1>8, <2>1, <2>2 DEF Notify, WorkerMoves
<1>9. CASE Ack(w)
  BY <1>9, BusyHasDoc DEF Ack, AckAndStop, WorkerStates, BusyWorker
<1>10. CASE Release(w)
  BY <1>10 DEF Release, WorkerStates
<1>11. QED
  BY <1>1, <1>2, <1>3, <1>4, <1>5, <1>6, <1>7, <1>8, <1>9, <1>10 DEF WorkerStep, ProcessMessage

LEMMA VerifyTyped ==
  ASSUME TypeOK, NEW v \in Verifiers, VerifyStep(v)
  PROVE  TypeOK'
<1> USE DEF TypeOK, otherThanVerify, queueVars
<1>1. CASE \E d \in Docs : LoadForVerify(v, d)
  BY <1>1 DEF LoadForVerify
<1>2. CASE VerifyRefused(v)
  BY <1>2 DEF VerifyRefused
<1>3. CASE VerifyCommit(v)
  <2> DEFINE d == verify[v].doc
             seen == verify[v].seen
  <2>1. d \in Docs /\ seen \in Row /\ row[d] \in Row
    BY <1>3 DEF VerifyCommit, IdleVerify
  <2>2. ASSUME NEW corrections \in SUBSET {v}, NEW t \in NamedTypes \cup {seen.type},
               row' = [row EXCEPT ![d] =
                 [status |-> Dirty(seen.status, "verified", @.status),
                  type   |-> Dirty(seen.type, t, @.type),
                  data   |-> Dirty(seen.data, seen.data \cup {"object"} \cup corrections, @.data),
                  error  |-> @.error]]
        PROVE  row' \in [Docs -> Row]
    <3>1. /\ Dirty(seen.status, "verified", row[d].status) \in Statuses
          /\ Dirty(seen.type, t, row[d].type) \in DocTypes
          /\ Dirty(seen.data, seen.data \cup {"object"} \cup corrections, row[d].data)
               \in SUBSET Contents
          /\ row[d].error \in Errors
      BY <2>1 DEF Dirty, Row, Statuses, DocTypes, Contents
    <3>2. QED BY <2>1, <2>2, <3>1 DEF Row
  <2>3. row' \in [Docs -> Row]
    BY <1>3, <2>2 DEF VerifyCommit
  <2>4. profile' \subseteq Docs
    BY <1>3, <2>1 DEF VerifyCommit
  <2>5. QED BY <1>3, <2>3, <2>4 DEF VerifyCommit
<1>4. QED BY <1>1, <1>2, <1>3 DEF VerifyStep

LEMMA EraseTyped ==
  ASSUME TypeOK, NEW e \in Erasers, EraseStep(e)
  PROVE  TypeOK'
<1> USE DEF TypeOK, otherThanErase, queueVars, IdleEraser
<1>1. CASE \E d \in Docs : LoadForErase(e, d)
  BY <1>1 DEF LoadForErase
<1>2. CASE EraseBlob(e)
  BY <1>2 DEF EraseBlob
<1>3. CASE EraseBlobFails(e)
  BY <1>3 DEF EraseBlobFails
<1>4. CASE EraseRow(e)
  BY <1>4, NoRowTyped DEF EraseRow
<1>5. CASE EraseRowFails(e)
  BY <1>5 DEF EraseRowFails
<1>6. QED BY <1>1, <1>2, <1>3, <1>4, <1>5 DEF EraseStep

LEMMA StaleTyped ==
  ASSUME TypeOK, NEW s \in StaleSweeps, StaleStep(s)
  PROVE  TypeOK'
<1> USE DEF TypeOK, otherThanSweep, queueVars
<1>1. CASE SelectStale(s)
  BY <1>1 DEF SelectStale, StaleDocs
<1>2. CASE FailStale(s)
  <2>1. stale[s].docs \in SUBSET Docs
    BY <1>2 DEF FailStale, IdleSweep
  <2>2. row' \in [Docs -> Row]
    BY <1>2, <2>1, FailAllTyped DEF FailStale, Errors
  <2>3. QED BY <1>2, <2>2 DEF FailStale
<1>3. QED BY <1>1, <1>2 DEF StaleStep

LEMMA ScrubTyped ==
  ASSUME TypeOK, NEW g \in BlobSweeps, ScrubStep(g)
  PROVE  TypeOK'
<1> USE DEF TypeOK, otherThanSweep, queueVars
<1>1. CASE SelectVerified(g)
  BY <1>1 DEF SelectVerified
<1>2. CASE CheckBlobs(g)
  <2>1. scrub[g].docs \in SUBSET Docs
    BY <1>2 DEF CheckBlobs, IdleSweep
  <2>2. QED BY <1>2, <2>1 DEF CheckBlobs
<1>3. CASE FailScrubbed(g)
  <2>1. scrub[g].docs \in SUBSET Docs
    BY <1>3 DEF FailScrubbed, IdleSweep
  <2>2. row' \in [Docs -> Row]
    BY <1>3, <2>1, FailAllTyped DEF FailScrubbed, Errors
  <2>3. QED BY <1>3, <2>2 DEF FailScrubbed
<1>4. QED BY <1>1, <1>2, <1>3 DEF ScrubStep

LEMMA TypeCorrectStep ==
  ASSUME TypeOK, [Next]_vars
  PROVE  TypeOK'
<1>1. ASSUME NEW d \in Docs, UploadStep(d) PROVE TypeOK'
  BY <1>1, UploadTyped
<1>2. ASSUME NEW d \in Docs, DeadLetter(d) PROVE TypeOK'
  BY <1>2 DEF DeadLetter, TypeOK, requestVars
<1>3. ASSUME NEW d \in Docs, Age(d) PROVE TypeOK'
  BY <1>3 DEF Age, TypeOK, requestVars, queueVars
<1>4. ASSUME NEW d \in Docs, BlobExpires(d) PROVE TypeOK'
  BY <1>4 DEF BlobExpires, TypeOK, requestVars, queueVars
<1>5. ASSUME NEW w \in Workers, NEW d \in Docs, Receive(w, d) PROVE TypeOK'
  BY <1>5, ReceiveTyped
<1>6. ASSUME NEW w \in Workers, WorkerStep(w) PROVE TypeOK'
  BY <1>6, WorkerTyped
<1>7. ASSUME NEW v \in Verifiers, VerifyStep(v) PROVE TypeOK'
  BY <1>7, VerifyTyped
<1>8. ASSUME NEW e \in Erasers, EraseStep(e) PROVE TypeOK'
  BY <1>8, EraseTyped
<1>9. ASSUME NEW s \in StaleSweeps, StaleStep(s) PROVE TypeOK'
  BY <1>9, StaleTyped
<1>10. ASSUME NEW g \in BlobSweeps, ScrubStep(g) PROVE TypeOK'
  BY <1>10, ScrubTyped
<1>11. CASE UNCHANGED vars
  BY <1>11 DEF vars, TypeOK
<1>12. QED
  BY <1>1, <1>2, <1>3, <1>4, <1>5, <1>6, <1>7, <1>8, <1>9, <1>10, <1>11 DEF Next

\* Every variable of the lifecycle keeps its type, whatever happens.
THEOREM TypeCorrect == Spec => []TypeOK
<1>1. Init => TypeOK
  BY NoRowTyped, MaxAttemptsAssumption
  DEF Init, TypeOK, UploadStates, WorkerStates
<1>2. TypeOK /\ [Next]_vars => TypeOK'
  BY TypeCorrectStep
<1>3. QED BY <1>1, <1>2, PTL DEF Spec

-----------------------------------------------------------------------------
(* The inductive invariant.                                                *)

\* Nobody works on, was told about, or contributed values from a document whose row was
\* never committed.  Committed is stable, so whoever holds a document holds one that an
\* upload handler will not create again.
Bookkeeping ==
  /\ \A d \in Docs : Exists(d) => Committed(d)
  /\ \A d \in Docs : msg[d] # "none" => Committed(d)
  /\ \A d \in Docs : notified[d] # 0 => Committed(d)
  /\ \A d \in profile : Committed(d)
  /\ \A w \in Workers : worker[w] \in BusyWorker => Committed(worker[w].doc)
  /\ \A v \in Verifiers : verify[v].pc = "validating" => Committed(verify[v].doc)
  /\ \A e \in Erasers : eraser[e].pc # "idle" => Committed(eraser[e].doc)
  /\ \A s \in StaleSweeps : \A d \in stale[s].docs : Committed(d)
  /\ \A g \in BlobSweeps : \A d \in scrub[g].docs : Committed(d)

\* Whoever is about to write that a blob is gone, or to delete the row for it, is right.
BlobKnowledge ==
  /\ \A e \in Erasers : eraser[e].pc = "erased" => ~blob[eraser[e].doc]
  /\ \A g \in BlobSweeps : scrub[g].pc = "checked" => \A d \in scrub[g].docs : ~blob[d]

LEMMA InitBookkeeping == Init => Bookkeeping /\ BlobKnowledge /\ BlobAccounted
  BY NoDocAssumption
  DEF Init, Bookkeeping, BlobKnowledge, BlobAccounted, BusyWorker, Exists, NoRow,
      IdleWorker, IdleVerify, IdleEraser, IdleSweep

\* Only upload handlers move an upload.
LEMMA UploadFrame ==
  ASSUME [Next]_vars
  PROVE  (\E d \in Docs : UploadStep(d)) \/ UNCHANGED upload
<1> USE DEF requestVars, queueVars, uploadVars
<1>1. ASSUME NEW d \in Docs, DeadLetter(d) \/ Age(d) \/ BlobExpires(d) PROVE UNCHANGED upload
  BY <1>1 DEF DeadLetter, Age, BlobExpires
<1>2. ASSUME NEW w \in Workers, NEW d \in Docs, Receive(w, d) PROVE UNCHANGED upload
  BY <1>2 DEF Receive
<1>3. ASSUME NEW w \in Workers, WorkerStep(w) PROVE UNCHANGED upload
  BY <1>3 DEF WorkerStep, ProcessMessage, SkipMessage, AckAndStop, CallDis, DisAnswers,
         DisFails, SaveAnswer,
              SaveFailure, SaveFailureFails, Notify, Ack, Release, WorkerMoves
<1>4. ASSUME NEW v \in Verifiers, VerifyStep(v) PROVE UNCHANGED upload
  BY <1>4 DEF VerifyStep, LoadForVerify, VerifyRefused, VerifyCommit, otherThanVerify
<1>5. ASSUME NEW e \in Erasers, EraseStep(e) PROVE UNCHANGED upload
  BY <1>5 DEF EraseStep, LoadForErase, EraseBlob, EraseBlobFails, EraseRow, EraseRowFails,
              otherThanErase
<1>6. ASSUME NEW s \in StaleSweeps, StaleStep(s) PROVE UNCHANGED upload
  BY <1>6 DEF StaleStep, SelectStale, FailStale, otherThanSweep
<1>7. ASSUME NEW g \in BlobSweeps, ScrubStep(g) PROVE UNCHANGED upload
  BY <1>7 DEF ScrubStep, SelectVerified, CheckBlobs, FailScrubbed, otherThanSweep
<1>8. CASE UNCHANGED vars
  BY <1>8 DEF vars
<1>9. QED
  BY <1>1, <1>2, <1>3, <1>4, <1>5, <1>6, <1>7, <1>8 DEF Next

\* A handler moves its own upload only, and commits once, by saving the row.
LEMMA UploadEdge ==
  ASSUME TypeOK, NEW d \in Docs, UploadStep(d)
  PROVE  /\ \A c \in Docs \ {d} : upload'[c] = upload[c]
         /\ Committed(d) => Committed(d)'
         /\ Committed(d)' => Committed(d) \/ SaveRow(d)
<1>1. ASSUME NEW from, NEW to, UploadMoves(d, from, to)
      PROVE  /\ \A c \in Docs \ {d} : upload'[c] = upload[c]
             /\ upload[d] = from /\ upload'[d] = to
  BY <1>1 DEF UploadMoves, TypeOK
<1>2. CASE RefuseUpload(d) \/ StoreBlob(d)
  BY <1>1, <1>2 DEF RefuseUpload, StoreBlob, Committed
<1>3. CASE SaveRow(d)
  BY <1>1, <1>3 DEF SaveRow, Committed
<1>4. CASE ApplicationNotOwned(d) \/ SaveRowFails(d) \/ CleanUpBlob(d) \/ CleanUpBlobFails(d)
  BY <1>1, <1>4 DEF ApplicationNotOwned, SaveRowFails, CleanUpBlob, CleanUpBlobFails, Committed
<1>5. CASE DeferPublish(d) \/ Publish(d) \/ PublishFails(d) \/ RecordPublishFailure(d)
  BY <1>1, <1>5 DEF DeferPublish, Publish, PublishFails, RecordPublishFailure, Committed
<1>6. CASE UploadCrash(d)
  BY <1>1, <1>6 DEF UploadCrash, Committed
<1>7. QED BY <1>2, <1>3, <1>4, <1>5, <1>6 DEF UploadStep

LEMMA CommittedStays ==
  ASSUME TypeOK, [Next]_vars, NEW c \in Docs, Committed(c)
  PROVE  Committed(c)'
<1>1. ASSUME NEW d \in Docs, UploadStep(d) PROVE Committed(c)'
  BY <1>1, UploadEdge DEF Committed
<1>2. CASE UNCHANGED upload
  BY <1>2 DEF Committed
<1>3. QED BY <1>1, <1>2, UploadFrame

LEMMA UploadBookkeeping ==
  ASSUME TypeOK, Bookkeeping, NEW c \in Docs, UploadStep(c)
  PROVE  Bookkeeping'
<1>1. \A d \in Docs : Committed(d) => Committed(d)'
  <2>1. [Next]_vars
    BY DEF Next
  <2>2. QED BY <2>1, CommittedStays
<1>2. UNCHANGED <<profile, worker, notified, verify, eraser, stale, scrub>>
  BY DEF UploadStep, UploadMoves, RefuseUpload, StoreBlob, SaveRow, ApplicationNotOwned,
         SaveRowFails, CleanUpBlob, CleanUpBlobFails, DeferPublish, Publish, PublishFails,
         RecordPublishFailure, UploadCrash, requestVars
<1>3. \A d \in Docs : Exists(d)' => Committed(d)'
  <2>1. CASE SaveRow(c)
    BY <2>1, <1>1 DEF SaveRow, UploadMoves, TypeOK, Bookkeeping, Exists, Committed, UploadStates
  <2>2. CASE RecordPublishFailure(c)
    BY <2>2, <1>1 DEF RecordPublishFailure, UploadMoves, TypeOK, Bookkeeping, Exists, Fail
  <2>3. CASE UNCHANGED row
    BY <2>3, <1>1 DEF Bookkeeping, Exists
  <2>4. QED
    BY <2>1, <2>2, <2>3 DEF UploadStep, RefuseUpload, StoreBlob, ApplicationNotOwned,
         SaveRowFails, CleanUpBlob, CleanUpBlobFails, DeferPublish, Publish, PublishFails,
         UploadCrash
<1>4. \A d \in Docs : msg'[d] # "none" => Committed(d)'
  <2>1. CASE Publish(c)
    BY <2>1, <1>1 DEF Publish, UploadMoves, TypeOK, Bookkeeping, Committed
  <2>2. CASE PublishFails(c)
    BY <2>2, <1>1 DEF PublishFails, UploadMoves, TypeOK, Bookkeeping, Committed
  <2>3. CASE UNCHANGED msg
    BY <2>3, <1>1 DEF Bookkeeping
  <2>4. QED
    BY <2>1, <2>2, <2>3 DEF UploadStep, RefuseUpload, StoreBlob, SaveRow, ApplicationNotOwned,
         SaveRowFails, CleanUpBlob, CleanUpBlobFails, DeferPublish, RecordPublishFailure,
         UploadCrash
<1>5. ASSUME NEW w \in Workers, worker[w] \in BusyWorker PROVE worker[w].doc \in Docs
  BY <1>5 DEF BusyWorker
<1>6. ASSUME NEW v \in Verifiers, verify[v].pc = "validating" PROVE verify[v].doc \in Docs
  BY <1>6 DEF TypeOK, IdleVerify
<1>7. ASSUME NEW e \in Erasers, eraser[e].pc # "idle" PROVE eraser[e].doc \in Docs
  BY <1>7 DEF TypeOK, IdleEraser
<1>8. ASSUME NEW s \in StaleSweeps PROVE stale[s].docs \subseteq Docs
  BY <1>8 DEF TypeOK, IdleSweep
<1>9. ASSUME NEW g \in BlobSweeps PROVE scrub[g].docs \subseteq Docs
  BY <1>9 DEF TypeOK, IdleSweep
<1>10. profile \subseteq Docs
  BY DEF TypeOK
<1>11. QED
  BY <1>1, <1>2, <1>3, <1>4, <1>5, <1>6, <1>7, <1>8, <1>9, <1>10 DEF Bookkeeping, BusyWorker

\* A sweep does not bring a deleted row back.
LEMMA FailAllKeepsAbsent ==
  ASSUME NEW D, NEW code, FailAll(D, code)
  PROVE  \A c \in Docs : Exists(c)' => Exists(c)
<1>1. CASE \A d \in D : Exists(d)
  BY <1>1 DEF FailAll, Exists
<1>2. CASE ~(\A d \in D : Exists(d))
  BY <1>2 DEF FailAll, Exists
<1>3. QED BY <1>1, <1>2

\* A thread keeps its document until it becomes idle.
LEMMA WorkerKeepsDoc ==
  ASSUME TypeOK, NEW w \in Workers, WorkerStep(w), worker[w] \in BusyWorker
  PROVE  /\ \A u \in Workers : worker'[u] \in BusyWorker =>
              worker[u] \in BusyWorker /\ worker'[u].doc = worker[u].doc
         /\ \A u \in Workers \ {w} : worker'[u] = worker[u]
<1>1. /\ \A u \in Workers \ {w} : worker'[u] = worker[u]
      /\ worker'[w] = IdleWorker \/ worker'[w].doc = worker[w].doc
  <2> USE DEF TypeOK
  <2>1. CASE SkipMessage(w) \/ Ack(w) \/ Release(w)
    BY <2>1 DEF SkipMessage, Ack, Release, AckAndStop
  <2>2. CASE CallDis(w)
    BY <2>2 DEF CallDis
  <2>3. CASE DisAnswers(w)
    BY <2>3 DEF DisAnswers, BusyWorker
  <2>4. ASSUME NEW from, NEW to, WorkerMoves(w, from, to)
        PROVE  /\ \A u \in Workers \ {w} : worker'[u] = worker[u]
               /\ worker'[w].doc = worker[w].doc
    BY <2>4 DEF WorkerMoves, BusyWorker
  <2>5. CASE DisFails(w) \/ SaveAnswer(w) \/ SaveFailure(w) \/ SaveFailureFails(w) \/ Notify(w)
    BY <2>4, <2>5 DEF DisFails, SaveAnswer, SaveFailure, SaveFailureFails, Notify
  <2>6. QED BY <2>1, <2>2, <2>3, <2>5 DEF WorkerStep, ProcessMessage
<1>2. IdleWorker \notin BusyWorker
  BY DEF IdleWorker, BusyWorker
<1>3. QED BY <1>1, <1>2 DEF TypeOK

\* Steps of everybody else leave uploads alone, so Committed does not change.
LEMMA OtherBookkeeping ==
  ASSUME TypeOK, Bookkeeping, [Next]_vars, UNCHANGED upload
  PROVE  Bookkeeping'
<1> USE DEF requestVars, queueVars, uploadVars
<1>0. \A d \in Docs : Committed(d)' <=> Committed(d)
  BY DEF Committed
<1>1. ASSUME NEW d \in Docs, UploadStep(d) PROVE Bookkeeping'
  BY <1>1, UploadBookkeeping
<1>2. ASSUME NEW d \in Docs, DeadLetter(d) PROVE Bookkeeping'
  BY <1>2, <1>0 DEF DeadLetter, TypeOK, Bookkeeping, Exists, Committed
<1>3. ASSUME NEW d \in Docs, Age(d) \/ BlobExpires(d) PROVE Bookkeeping'
  BY <1>3, <1>0 DEF Age, BlobExpires, Bookkeeping, Exists, Committed
<1>4. ASSUME NEW w \in Workers, NEW d \in Docs, Receive(w, d) PROVE Bookkeeping'
  BY <1>4, <1>0 DEF Receive, TypeOK, Bookkeeping, Exists, Committed, BusyWorker
<1>5. ASSUME NEW w \in Workers, WorkerStep(w) PROVE Bookkeeping'
  <2>1. worker[w] \in BusyWorker
    BY <1>5, BusyHasDoc
    DEF WorkerStep, ProcessMessage, SkipMessage, CallDis, DisAnswers, DisFails, SaveAnswer,
        SaveFailure,
        SaveFailureFails, Notify, Ack, Release, WorkerMoves, IdleWorker, TypeOK, WorkerStates
  <2>2. worker[w].doc \in Docs /\ Committed(worker[w].doc)
    BY <2>1 DEF Bookkeeping, BusyWorker
  <2>3. \A c \in Docs : Exists(c)' => Exists(c)
    BY <1>5, <2>2
    DEF TypeOK, Exists, Row, WorkerStep, ProcessMessage, SkipMessage, AckAndStop, CallDis,
        DisAnswers, DisFails,
        SaveAnswer, SaveFailure, SaveFailureFails, Notify, Ack, Release, Locked
  <2>4. \A c \in Docs : msg'[c] # "none" => msg[c] # "none" \/ c = worker[w].doc
    BY <1>5
    DEF TypeOK, WorkerStep, ProcessMessage, SkipMessage, AckAndStop, CallDis, DisAnswers,
        DisFails,
        SaveAnswer, SaveFailure, SaveFailureFails, Notify, Ack, Release
  <2>5. \A c \in Docs : notified'[c] # 0 => notified[c] # 0 \/ c = worker[w].doc
    BY <1>5
    DEF TypeOK, WorkerStep, ProcessMessage, SkipMessage, AckAndStop, CallDis, DisAnswers,
        DisFails,
        SaveAnswer, SaveFailure, SaveFailureFails, Notify, Ack, Release
  <2>6. \A u \in Workers : worker'[u] \in BusyWorker =>
          worker[u] \in BusyWorker /\ worker'[u].doc = worker[u].doc
    BY <1>5, <2>1, WorkerKeepsDoc
  <2>7. UNCHANGED <<profile, verify, eraser, stale, scrub>>
    BY <1>5
    DEF WorkerStep, ProcessMessage, SkipMessage, AckAndStop, CallDis, DisAnswers, DisFails,
        WorkerMoves,
        SaveAnswer, SaveFailure, SaveFailureFails, Notify, Ack, Release
  <2>8. QED
    BY <1>0, <2>2, <2>3, <2>4, <2>5, <2>6, <2>7 DEF Bookkeeping, Committed
<1>6. ASSUME NEW v \in Verifiers, VerifyStep(v) PROVE Bookkeeping'
  <2>1. \A c \in Docs : Exists(c)' => Exists(c)
    BY <1>6 DEF TypeOK, Exists, VerifyStep, LoadForVerify, VerifyRefused, VerifyCommit
  <2>2. \A u \in Verifiers : verify'[u].pc = "validating" =>
          \/ verify[u].pc = "validating" /\ verify'[u].doc = verify[u].doc
          \/ Exists(verify'[u].doc) /\ verify'[u].doc \in Docs
    BY <1>6 DEF TypeOK, VerifyStep, LoadForVerify, VerifyRefused, VerifyCommit, IdleVerify
  <2>3. \A c \in profile' : c \in profile \/ (c \in Docs /\ Committed(c))
    <3>1. CASE VerifyCommit(v)
      <4>1. verify[v].doc \in Docs /\ Committed(verify[v].doc)
        BY <3>1 DEF VerifyCommit, TypeOK, IdleVerify, Bookkeeping
      <4>2. profile' = profile \/ profile' = profile \cup {verify[v].doc}
        BY <3>1 DEF VerifyCommit
      <4>3. QED BY <4>1, <4>2
    <3>2. QED BY <1>6, <3>1 DEF VerifyStep, LoadForVerify, VerifyRefused
  <2>4. UNCHANGED <<msg, worker, notified, eraser, stale, scrub>>
    BY <1>6 DEF VerifyStep, LoadForVerify, VerifyRefused, VerifyCommit, otherThanVerify
  <2>5. QED
    BY <1>0, <2>1, <2>2, <2>3, <2>4 DEF Bookkeeping, Committed
<1>7. ASSUME NEW e \in Erasers, EraseStep(e) PROVE Bookkeeping'
  <2>1. \A c \in Docs : Exists(c)' => Exists(c)
    BY <1>7 DEF TypeOK, Exists, NoRow, EraseStep, LoadForErase, EraseBlob, EraseBlobFails,
                EraseRow, EraseRowFails
  <2>2. \A u \in Erasers : eraser'[u].pc # "idle" =>
          \/ eraser[u].pc # "idle" /\ eraser'[u].doc = eraser[u].doc
          \/ Exists(eraser'[u].doc) /\ eraser'[u].doc \in Docs
    BY <1>7 DEF TypeOK, IdleEraser, EraseStep, LoadForErase, EraseBlob, EraseBlobFails,
                EraseRow, EraseRowFails
  <2>3. UNCHANGED <<profile, msg, worker, notified, verify, stale, scrub>>
    BY <1>7 DEF EraseStep, LoadForErase, EraseBlob, EraseBlobFails, EraseRow, EraseRowFails,
                otherThanErase, queueVars
  <2>4. QED
    BY <1>0, <2>1, <2>2, <2>3 DEF Bookkeeping, Committed
<1>8. ASSUME NEW s \in StaleSweeps, StaleStep(s) PROVE Bookkeeping'
  <2>1. \A c \in Docs : Exists(c)' => Exists(c)
    BY <1>8, FailAllKeepsAbsent DEF Exists, StaleStep, SelectStale, FailStale
  <2>2. \A u \in StaleSweeps : \A c \in stale'[u].docs :
          c \in stale[u].docs \/ (c \in Docs /\ Exists(c))
    BY <1>8 DEF TypeOK, Exists, StaleStep, SelectStale, FailStale, StaleDocs, IdleSweep
  <2>3. UNCHANGED <<profile, msg, worker, notified, verify, eraser, scrub>>
    BY <1>8 DEF StaleStep, SelectStale, FailStale, otherThanSweep
  <2>4. QED
    BY <1>0, <2>1, <2>2, <2>3 DEF Bookkeeping, Committed
<1>9. ASSUME NEW g \in BlobSweeps, ScrubStep(g) PROVE Bookkeeping'
  <2>1. \A c \in Docs : Exists(c)' => Exists(c)
    BY <1>9, FailAllKeepsAbsent DEF Exists, ScrubStep, SelectVerified, CheckBlobs, FailScrubbed
  <2>2. \A u \in BlobSweeps : \A c \in scrub'[u].docs :
          c \in scrub[u].docs \/ (c \in Docs /\ Exists(c))
    BY <1>9 DEF TypeOK, Exists, ScrubStep, SelectVerified, CheckBlobs, FailScrubbed, IdleSweep
  <2>3. UNCHANGED <<profile, msg, worker, notified, verify, eraser, stale>>
    BY <1>9 DEF ScrubStep, SelectVerified, CheckBlobs, FailScrubbed, otherThanSweep
  <2>4. QED
    BY <1>0, <2>1, <2>2, <2>3 DEF Bookkeeping, Committed
<1>10. CASE UNCHANGED vars
  BY <1>10 DEF vars, Bookkeeping, Exists, Committed
<1>11. QED
  BY <1>1, <1>2, <1>3, <1>4, <1>5, <1>6, <1>7, <1>8, <1>9, <1>10 DEF Next

LEMMA BookkeepingStep ==
  ASSUME TypeOK, Bookkeeping, [Next]_vars
  PROVE  Bookkeeping'
  BY UploadFrame, UploadBookkeeping, OtherBookkeeping

\* A blob appears only while its upload is new.
LEMMA BlobFrame ==
  ASSUME TypeOK, [Next]_vars, NEW c \in Docs, blob'[c], ~blob[c]
  PROVE  upload[c] = "new" /\ upload'[c] = "stored"
<1> USE DEF TypeOK, requestVars, queueVars, uploadVars
<1>1. ASSUME NEW d \in Docs, UploadStep(d)
      PROVE  upload[c] = "new" /\ upload'[c] = "stored"
  BY <1>1 DEF UploadStep, UploadMoves, RefuseUpload, StoreBlob, SaveRow, ApplicationNotOwned,
       SaveRowFails, CleanUpBlob, CleanUpBlobFails, DeferPublish, Publish, PublishFails,
       RecordPublishFailure, UploadCrash
<1>2. ASSUME NEW d \in Docs, DeadLetter(d) \/ Age(d) \/ BlobExpires(d) PROVE FALSE
  BY <1>2 DEF DeadLetter, Age, BlobExpires
<1>3. ASSUME NEW w \in Workers, NEW d \in Docs, Receive(w, d) PROVE FALSE
  BY <1>3 DEF Receive
<1>4. ASSUME NEW w \in Workers, WorkerStep(w) PROVE FALSE
  BY <1>4 DEF WorkerStep, ProcessMessage, SkipMessage, AckAndStop, CallDis, DisAnswers,
         DisFails, SaveAnswer,
              SaveFailure, SaveFailureFails, Notify, Ack, Release, WorkerMoves
<1>5. ASSUME NEW v \in Verifiers, VerifyStep(v) PROVE FALSE
  BY <1>5 DEF VerifyStep, LoadForVerify, VerifyRefused, VerifyCommit, otherThanVerify
<1>6. ASSUME NEW e \in Erasers, EraseStep(e) PROVE FALSE
  BY <1>6 DEF EraseStep, LoadForErase, EraseBlob, EraseBlobFails, EraseRow, EraseRowFails
<1>7. ASSUME NEW s \in StaleSweeps, StaleStep(s) PROVE FALSE
  BY <1>7 DEF StaleStep, SelectStale, FailStale, otherThanSweep
<1>8. ASSUME NEW g \in BlobSweeps, ScrubStep(g) PROVE FALSE
  BY <1>8 DEF ScrubStep, SelectVerified, CheckBlobs, FailScrubbed, otherThanSweep
<1>9. CASE UNCHANGED vars
  BY <1>9 DEF vars
<1>10. QED
  BY <1>1, <1>2, <1>3, <1>4, <1>5, <1>6, <1>7, <1>8, <1>9 DEF Next

LEMMA BlobKnowledgeStep ==
  ASSUME TypeOK, Bookkeeping, BlobKnowledge, [Next]_vars
  PROVE  BlobKnowledge'
<1>0. \A c \in Docs : Committed(c) /\ ~blob[c] => ~blob'[c]
  BY BlobFrame DEF Committed
<1>1. ASSUME NEW e \in Erasers, eraser'[e].pc = "erased"
      PROVE  ~blob'[eraser'[e].doc]
  <2>1. CASE eraser'[e] = eraser[e]
    <3>1. eraser[e].doc \in Docs /\ Committed(eraser[e].doc) /\ ~blob[eraser[e].doc]
      BY <1>1, <2>1 DEF TypeOK, IdleEraser, Bookkeeping, BlobKnowledge
    <3>2. QED BY <3>1, <2>1, <1>0
  <2>2. CASE eraser'[e] # eraser[e]
    <3>1. PICK u \in Erasers : EraseStep(u)
      BY <2>2 DEF Next, vars, UploadStep, UploadMoves, RefuseUpload, StoreBlob, SaveRow,
           ApplicationNotOwned, SaveRowFails, CleanUpBlob, CleanUpBlobFails, DeferPublish,
           Publish,
           PublishFails, RecordPublishFailure, UploadCrash, requestVars,
           DeadLetter, Age, BlobExpires, Receive,
           WorkerStep, ProcessMessage, SkipMessage, AckAndStop, CallDis, DisAnswers, DisFails,
           SaveAnswer,
           SaveFailure, SaveFailureFails, Notify, Ack, Release, WorkerMoves,
           VerifyStep, LoadForVerify, VerifyRefused, VerifyCommit, otherThanVerify,
           StaleStep, SelectStale, FailStale,
           ScrubStep, SelectVerified, CheckBlobs, FailScrubbed, otherThanSweep
    <3>2. u = e /\ EraseBlob(e)
      BY <1>1, <2>2, <3>1 DEF TypeOK, IdleEraser, EraseStep, LoadForErase, EraseBlob,
           EraseBlobFails, EraseRow, EraseRowFails
    <3>3. QED
      BY <3>2 DEF TypeOK, IdleEraser, EraseBlob
  <2>3. QED BY <2>1, <2>2
<1>2. ASSUME NEW g \in BlobSweeps, scrub'[g].pc = "checked", NEW c \in scrub'[g].docs
      PROVE  ~blob'[c]
  <2>1. CASE scrub'[g] = scrub[g]
    <3>1. c \in Docs /\ Committed(c) /\ ~blob[c]
      BY <1>2, <2>1 DEF TypeOK, IdleSweep, Bookkeeping, BlobKnowledge
    <3>2. QED BY <3>1, <1>0
  <2>2. CASE scrub'[g] # scrub[g]
    <3>1. PICK u \in BlobSweeps : ScrubStep(u)
      BY <2>2 DEF Next, vars, UploadStep, UploadMoves, RefuseUpload, StoreBlob, SaveRow,
           ApplicationNotOwned, SaveRowFails, CleanUpBlob, CleanUpBlobFails, DeferPublish,
           Publish,
           PublishFails, RecordPublishFailure, UploadCrash, requestVars,
           DeadLetter, Age, BlobExpires, Receive,
           WorkerStep, ProcessMessage, SkipMessage, AckAndStop, CallDis, DisAnswers, DisFails,
           SaveAnswer,
           SaveFailure, SaveFailureFails, Notify, Ack, Release, WorkerMoves,
           VerifyStep, LoadForVerify, VerifyRefused, VerifyCommit, otherThanVerify,
           EraseStep, LoadForErase, EraseBlob, EraseBlobFails, EraseRow, EraseRowFails,
           otherThanErase, StaleStep, SelectStale, FailStale
    <3>2. u = g /\ CheckBlobs(g) /\ ~blob[c]
      BY <1>2, <2>2, <3>1 DEF TypeOK, IdleSweep, ScrubStep, SelectVerified, CheckBlobs,
           FailScrubbed
    <3>3. QED
      BY <3>2 DEF CheckBlobs, otherThanSweep
  <2>3. QED BY <2>1, <2>2
<1>3. QED BY <1>1, <1>2 DEF BlobKnowledge

-----------------------------------------------------------------------------
(* Who writes a row, and what becomes of it.                               *)

RowSaved(c) ==
  /\ upload[c] = "stored" /\ upload'[c] = "saved"
  /\ row'[c].status = "processing" /\ row'[c].error = "none" /\ row'[c].data = {}
RowFailed(c, code) == Exists(c) /\ row'[c] = Fail(c, code)
RowAnswered(c) ==
  /\ row[c].status = "processing" /\ row'[c].status \in {"ready_for_review", "failed"}
  /\ row'[c].error \in {"none", "warning", "DIS_INVOCATION_FAILED"}
RowVerified(c) ==
  /\ \E v \in Verifiers : VerifyCommit(v) /\ verify[v].doc = c
  /\ Exists(c) /\ row'[c].status \in {row[c].status, "verified"}
  /\ row'[c].error = row[c].error
RowErased(c) == row'[c] = NoRow /\ \E e \in Erasers : EraseRow(e) /\ eraser[e].doc = c
RowCondemned(c) ==
  RowFailed(c, "GCS_BLOB_MISSING") /\ \E g \in BlobSweeps : FailScrubbed(g) /\ c \in scrub[g].docs

LEMMA FailFields ==
  ASSUME TypeOK, NEW d \in Docs, NEW code
  PROVE  /\ Fail(d, code).status = "failed"
         /\ Fail(d, code).error = code
         /\ Fail(d, code).data = row[d].data
<1>1. row[d] \in Row  BY DEF TypeOK
<1>2. QED             BY <1>1 DEF Fail, Row

LEMMA FailAllWrites ==
  ASSUME NEW D, NEW code, FailAll(D, code), NEW c \in Docs, row'[c] # row[c]
  PROVE  c \in D /\ RowFailed(c, code)
<1>1. \A d \in D : Exists(d)
  BY DEF FailAll
<1>2. row'[c] = IF c \in D THEN Fail(c, code) ELSE row[c]
  BY <1>1 DEF FailAll
<1>3. QED BY <1>1, <1>2 DEF RowFailed

LEMMA UploadWrites ==
  ASSUME TypeOK, NEW d \in Docs, UploadStep(d), NEW c \in Docs, row'[c] # row[c]
  PROVE  RowSaved(c) \/ RowFailed(c, "PUBLISH_FAILED")
<1>1. CASE SaveRow(d)
  <2>1. PICK t \in NamedTypes \cup {"tbd"} :
          row' = [row EXCEPT ![d] = [NoRow EXCEPT !.status = "processing", !.type = t]]
    BY <1>1 DEF SaveRow
  <2>2. c = d
    BY <2>1 DEF TypeOK
  <2>3. row'[c] = [NoRow EXCEPT !.status = "processing", !.type = t]
    BY <2>1, <2>2 DEF TypeOK
  <2>4. upload[c] = "stored" /\ upload'[c] = "saved"
    BY <1>1, <2>2 DEF SaveRow, UploadMoves, TypeOK
  <2>5. QED BY <2>3, <2>4 DEF RowSaved, NoRow
<1>2. CASE RecordPublishFailure(d)
  BY <1>2 DEF RecordPublishFailure, TypeOK, RowFailed
<1>3. CASE UNCHANGED row
  BY <1>3
<1>4. QED
  BY <1>1, <1>2, <1>3 DEF UploadStep, RefuseUpload, StoreBlob, ApplicationNotOwned,
       SaveRowFails, CleanUpBlob, CleanUpBlobFails, DeferPublish, Publish, PublishFails,
       UploadCrash

LEMMA WorkerWrites ==
  ASSUME TypeOK, NEW w \in Workers, WorkerStep(w), NEW c \in Docs, row'[c] # row[c]
  PROVE  RowAnswered(c)
<1> DEFINE d == worker[w].doc
<1>1. CASE SaveAnswer(w)
  <2>1. /\ row[d].status = "processing"
        /\ \E warning \in {"none", "warning"} :
             row' = [row EXCEPT ![d] =
                       [status |-> "ready_for_review", type |-> worker[w].type,
                        data |-> {"object", "extracted"}, error |-> warning]]
    BY <1>1 DEF SaveAnswer, Locked
  <2>2. PICK warning \in {"none", "warning"} :
             row' = [row EXCEPT ![d] =
                       [status |-> "ready_for_review", type |-> worker[w].type,
                        data |-> {"object", "extracted"}, error |-> warning]]
    BY <2>1
  <2>3. c = d
    BY <2>2 DEF TypeOK
  <2>4. QED BY <2>1, <2>2, <2>3 DEF TypeOK, RowAnswered
<1>2. CASE SaveFailure(w)
  <2>1. row[d].status = "processing"
    BY <1>2 DEF SaveFailure, Locked
  <2>2. row' = [row EXCEPT ![d] = [@ EXCEPT !.status = "failed", !.data = {"object"},
                                            !.error = "DIS_INVOCATION_FAILED"]]
    BY <1>2, <2>1 DEF SaveFailure, Locked
  <2>3. c = d /\ row[c] \in Row
    BY <2>2 DEF TypeOK
  <2>4. row'[c] = [row[c] EXCEPT !.status = "failed", !.data = {"object"},
                                 !.error = "DIS_INVOCATION_FAILED"]
    BY <2>2, <2>3 DEF TypeOK
  <2>5. QED BY <2>1, <2>3, <2>4 DEF RowAnswered, Row
<1>3. CASE UNCHANGED row
  BY <1>3
<1>4. QED
  BY <1>1, <1>2, <1>3 DEF WorkerStep, ProcessMessage, SkipMessage, AckAndStop, CallDis,
         DisAnswers, DisFails,
       SaveFailureFails, Notify, Ack, Release

LEMMA VerifyWrites ==
  ASSUME TypeOK, NEW v \in Verifiers, VerifyStep(v), NEW c \in Docs, row'[c] # row[c]
  PROVE  RowVerified(c)
<1> DEFINE d == verify[v].doc
           seen == verify[v].seen
<1>1. VerifyCommit(v)
  BY DEF VerifyStep, LoadForVerify, VerifyRefused
<1>2. Exists(d) /\ \E corrections \in SUBSET {v}, t \in NamedTypes \cup {seen.type} :
         row' = [row EXCEPT ![d] =
           [status |-> Dirty(seen.status, "verified", @.status),
            type   |-> Dirty(seen.type, t, @.type),
            data   |-> Dirty(seen.data, seen.data \cup {"object"} \cup corrections, @.data),
            error  |-> @.error]]
  BY <1>1 DEF VerifyCommit
<1>3. PICK corrections \in SUBSET {v}, t \in NamedTypes \cup {seen.type} :
         row' = [row EXCEPT ![d] =
           [status |-> Dirty(seen.status, "verified", @.status),
            type   |-> Dirty(seen.type, t, @.type),
            data   |-> Dirty(seen.data, seen.data \cup {"object"} \cup corrections, @.data),
            error  |-> @.error]]
  BY <1>2
<1>4. c = d
  BY <1>3 DEF TypeOK
<1>5. row'[c].status = Dirty(seen.status, "verified", row[c].status)
  BY <1>3, <1>4 DEF TypeOK
<1>6. row'[c].error = row[c].error
  BY <1>3, <1>4 DEF TypeOK
<1>7. QED BY <1>1, <1>2, <1>4, <1>5, <1>6 DEF RowVerified, Dirty

LEMMA RowWrites ==
  ASSUME TypeOK, [Next]_vars, NEW c \in Docs, row'[c] # row[c]
  PROVE  \/ RowSaved(c)
         \/ RowFailed(c, "PUBLISH_FAILED") \/ RowFailed(c, "PROCESSING_TIMEOUT")
         \/ RowAnswered(c) \/ RowVerified(c) \/ RowErased(c) \/ RowCondemned(c)
<1> USE DEF requestVars, queueVars, uploadVars
<1>1. ASSUME NEW d \in Docs, DeadLetter(d) \/ Age(d) \/ BlobExpires(d) PROVE FALSE
  BY <1>1 DEF DeadLetter, Age, BlobExpires
<1>2. ASSUME NEW w \in Workers, NEW d \in Docs, Receive(w, d) PROVE FALSE
  BY <1>2 DEF Receive
<1>3. ASSUME NEW e \in Erasers, EraseStep(e) PROVE RowErased(c)
  <2>1. EraseRow(e)
    BY <1>3 DEF EraseStep, LoadForErase, EraseBlob, EraseBlobFails, EraseRowFails
  <2>2. eraser[e].doc = c /\ row'[c] = NoRow
    BY <2>1 DEF EraseRow, TypeOK
  <2>3. QED BY <2>1, <2>2 DEF RowErased
<1>4. ASSUME NEW s \in StaleSweeps, StaleStep(s) PROVE RowFailed(c, "PROCESSING_TIMEOUT")
  BY <1>4, FailAllWrites DEF StaleStep, SelectStale, FailStale
<1>5. ASSUME NEW g \in BlobSweeps, ScrubStep(g) PROVE RowCondemned(c)
  <2>1. FailScrubbed(g)
    BY <1>5 DEF ScrubStep, SelectVerified, CheckBlobs
  <2>2. c \in scrub[g].docs /\ RowFailed(c, "GCS_BLOB_MISSING")
    BY <2>1, FailAllWrites DEF FailScrubbed
  <2>3. QED BY <2>1, <2>2 DEF RowCondemned
<1>6. CASE UNCHANGED vars
  BY <1>6 DEF vars
<1>7. QED
  BY <1>1, <1>2, <1>3, <1>4, <1>5, <1>6, UploadWrites, WorkerWrites, VerifyWrites DEF Next

-----------------------------------------------------------------------------
(* BlobAccounted: no file outlives its row.                                *)

\* Only a deletion takes a row away, and the request that does it holds the document.
LEMMA RowVanishes ==
  ASSUME TypeOK, [Next]_vars, NEW c \in Docs, Exists(c), ~Exists(c)'
  PROVE  RowErased(c)
<1>1. row'[c] # row[c]
  BY DEF Exists
<1>2. ~RowSaved(c) /\ ~RowAnswered(c) /\ ~RowVerified(c)
  BY DEF RowSaved, RowAnswered, RowVerified, Exists
<1>3. \A code : ~RowFailed(c, code)
  BY FailFields DEF RowFailed, Exists
<1>4. QED BY <1>1, <1>2, <1>3, RowWrites DEF RowCondemned

LEMMA BlobAccountedStep ==
  ASSUME TypeOK, Bookkeeping, BlobKnowledge, BlobAccounted, [Next]_vars
  PROVE  BlobAccounted'
<1> DEFINE Leftover == {"stored", "rollback", "not_owned", "leaked", "crashed"}
<1> SUFFICES ASSUME NEW c \in Docs, blob'[c], ~Exists(c)'
             PROVE  upload'[c] \in Leftover
  BY DEF BlobAccounted
<1>1. CASE ~blob[c]
  BY <1>1, BlobFrame
<1>2. CASE blob[c] /\ ~Exists(c)
  <2>1. upload[c] \in Leftover
    BY <1>2 DEF BlobAccounted
  <2>2. ASSUME NEW d \in Docs, UploadStep(d) PROVE upload'[c] \in Leftover
    <3>1. CASE d # c
      BY <2>1, <2>2, <3>1, UploadEdge
    <3>2. CASE d = c /\ SaveRow(c)
      <4>1. PICK t \in NamedTypes \cup {"tbd"} :
              row' = [row EXCEPT ![c] = [NoRow EXCEPT !.status = "processing", !.type = t]]
        BY <3>2 DEF SaveRow
      <4>2. QED BY <4>1 DEF TypeOK, Exists, NoRow
    <3>3. CASE d = c /\ CleanUpBlob(c)
      BY <3>3 DEF TypeOK, CleanUpBlob
    <3>4. CASE d = c /\ ~SaveRow(c) /\ ~CleanUpBlob(c)
      BY <2>1, <2>2, <3>4 DEF TypeOK, UploadStep, UploadMoves, RefuseUpload, StoreBlob,
         ApplicationNotOwned, SaveRowFails, CleanUpBlobFails, DeferPublish, Publish,
         PublishFails, RecordPublishFailure, UploadCrash
    <3>5. QED BY <2>2, <3>1, <3>2, <3>3, <3>4
  <2>3. QED BY <2>1, <2>2, UploadFrame
<1>3. CASE blob[c] /\ Exists(c)
  <2>1. PICK e \in Erasers : EraseRow(e) /\ eraser[e].doc = c
    BY <1>3, RowVanishes DEF RowErased
  <2>2. ~blob[c]
    BY <2>1 DEF EraseRow, BlobKnowledge
  <2>3. QED BY <1>3, <2>2
<1>4. QED BY <1>1, <1>2, <1>3

\* Deleting a document never leaves its file behind: what is in the bucket without a row
\* is what an upload that did not commit left there.
THEOREM BlobsAccounted == Spec => []BlobAccounted
<1> DEFINE IInv == Bookkeeping /\ BlobKnowledge /\ BlobAccounted
<1>1. Init => IInv
  BY InitBookkeeping
<1>2. TypeOK /\ IInv /\ [Next]_vars => IInv'
  BY BookkeepingStep, BlobKnowledgeStep, BlobAccountedStep
<1>3. QED
  BY <1>1, <1>2, TypeCorrect, PTL DEF Spec

-----------------------------------------------------------------------------
(* MissingBlobIsMissing: a document is condemned only when its file is gone. *)

\* Nothing is written into a row that is not there.
AbsentRows == \A d \in Docs : ~Exists(d) => row[d] = NoRow

LEMMA AbsentRowsStep ==
  ASSUME TypeOK, AbsentRows, [Next]_vars
  PROVE  AbsentRows'
<1> SUFFICES ASSUME NEW c \in Docs, ~Exists(c)' PROVE row'[c] = NoRow
  BY DEF AbsentRows
<1>1. CASE Exists(c)
  BY <1>1, RowVanishes DEF RowErased
<1>2. CASE ~Exists(c) /\ row'[c] # row[c]
  <2>1. ~RowAnswered(c) /\ ~RowVerified(c) /\ \A code : ~RowFailed(c, code)
    BY <1>2 DEF RowAnswered, RowVerified, RowFailed, Exists
  <2>2. ~RowSaved(c)
    BY DEF RowSaved, Exists
  <2>3. QED BY <1>2, <2>1, <2>2, RowWrites DEF RowErased, RowCondemned
<1>3. CASE ~Exists(c) /\ row'[c] = row[c]
  BY <1>3 DEF AbsentRows
<1>4. QED BY <1>1, <1>2, <1>3

LEMMA MissingBlobStep ==
  ASSUME TypeOK, Bookkeeping, BlobKnowledge, AbsentRows, MissingBlobIsMissing, [Next]_vars
  PROVE  MissingBlobIsMissing'
<1> SUFFICES ASSUME NEW c \in Docs, row'[c].error = "GCS_BLOB_MISSING" PROVE ~blob'[c]
  BY DEF MissingBlobIsMissing
<1>1. CASE row[c].error = "GCS_BLOB_MISSING"
  <2>1. ~blob[c]
    BY <1>1 DEF MissingBlobIsMissing
  <2>2. Exists(c)
    BY <1>1 DEF AbsentRows, NoRow
  <2>3. Committed(c)
    BY <2>2 DEF Bookkeeping
  <2>4. QED BY <2>1, <2>3, BlobFrame DEF Committed
<1>2. CASE row[c].error # "GCS_BLOB_MISSING"
  <2>1. row'[c] # row[c]
    BY <1>2
  <2>2. ~RowSaved(c) /\ ~RowAnswered(c) /\ ~RowVerified(c) /\ ~RowErased(c)
    BY <1>2 DEF RowSaved, RowAnswered, RowVerified, RowErased, NoRow
  <2>3. ~RowFailed(c, "PUBLISH_FAILED") /\ ~RowFailed(c, "PROCESSING_TIMEOUT")
    BY FailFields DEF RowFailed
  <2>4. RowCondemned(c)
    BY <2>1, <2>2, <2>3, RowWrites
  <2>5. PICK g \in BlobSweeps : FailScrubbed(g) /\ c \in scrub[g].docs
    BY <2>4 DEF RowCondemned
  <2>6. ~blob[c] /\ UNCHANGED blob
    BY <2>5 DEF FailScrubbed, BlobKnowledge, otherThanSweep
  <2>7. QED BY <2>6
<1>3. QED BY <1>1, <1>2

LEMMA InitRows == Init => AbsentRows /\ MissingBlobIsMissing
  BY DEF Init, AbsentRows, MissingBlobIsMissing, Exists, NoRow

\* A document reported as having lost its file has lost it, whatever happened between the
\* check of the bucket and the write of the sweep.
THEOREM MissingBlobsAreMissing == Spec => []MissingBlobIsMissing
<1> DEFINE IInv == Bookkeeping /\ BlobKnowledge /\ AbsentRows /\ MissingBlobIsMissing
<1>1. Init => IInv
  BY InitBookkeeping, InitRows
<1>2. TypeOK /\ IInv /\ [Next]_vars => IInv'
  BY BookkeepingStep, BlobKnowledgeStep, AbsentRowsStep, MissingBlobStep
<1>3. QED
  BY <1>1, <1>2, TypeCorrect, PTL DEF Spec

-----------------------------------------------------------------------------
(* StatusRefinement: the lifecycle implements DocumentStatus.              *)

\* How one row may move is how its status may move.
LEMMA StatusMoves ==
  ASSUME TypeOK, Bookkeeping, AbsentRows, [Next]_vars, NEW c \in Docs
  PROVE  StatusOf(c)' = StatusOf(c) \/ StatusOf(c)' \in StatusModule!Follows[StatusOf(c)]
<1> USE DEF StatusModule!Follows
<1>1. Committed(c) => Committed(c)'
  BY CommittedStays
<1>2. CASE row'[c] = row[c] /\ Exists(c)
  BY <1>2 DEF StatusOf, Exists
<1>3. CASE row'[c] = row[c] /\ ~Exists(c) /\ (Committed(c) <=> Committed(c)')
  BY <1>3 DEF StatusOf, Exists
<1>4. CASE row'[c] = row[c] /\ ~Exists(c) /\ ~Committed(c) /\ Committed(c)'
  <2>1. PICK d \in Docs : UploadStep(d)
    BY <1>4, UploadFrame DEF Committed
  <2>2. SaveRow(c)
    BY <1>4, <2>1, UploadEdge DEF Committed
  <2>3. PICK t \in NamedTypes \cup {"tbd"} :
          row' = [row EXCEPT ![c] = [NoRow EXCEPT !.status = "processing", !.type = t]]
    BY <2>2 DEF SaveRow
  <2>4. row'[c].status = "processing"
    BY <2>3 DEF TypeOK, NoRow
  <2>5. QED BY <1>4, <2>4 DEF Exists
<1>5. CASE row'[c] # row[c]
  <2>1. CASE RowSaved(c)
    <3>1. ~Committed(c) /\ ~Exists(c)
      BY <2>1 DEF RowSaved, Committed, Bookkeeping
    <3>2. QED BY <2>1, <3>1 DEF RowSaved, StatusOf, Exists
  <2>2. ASSUME NEW code, RowFailed(c, code)
        PROVE  StatusOf(c)' = StatusOf(c) \/ StatusOf(c)' \in StatusModule!Follows[StatusOf(c)]
    <3>1. Exists(c) /\ row'[c].status = "failed" /\ row[c].status \in Statuses
      BY <2>2, FailFields DEF RowFailed, TypeOK, Row
    <3>2. QED BY <3>1 DEF StatusOf, Exists, Statuses
  <2>3. CASE RowAnswered(c)
    BY <2>3 DEF RowAnswered, StatusOf, Exists
  <2>4. CASE RowVerified(c)
    <3>1. row[c].status \in Statuses
      BY DEF TypeOK, Row
    <3>2. QED BY <2>4, <3>1 DEF RowVerified, StatusOf, Exists, Statuses
  <2>5. CASE RowErased(c)
    <3>1. Exists(c)
      BY <1>5, <2>5 DEF AbsentRows, RowErased
    <3>2. Committed(c)' /\ row[c].status \in Statuses
      BY <1>1, <3>1 DEF Bookkeeping, TypeOK, Row
    <3>3. QED BY <2>5, <3>1, <3>2 DEF RowErased, NoRow, StatusOf, Exists, Statuses
  <2>6. QED
    BY <1>5, <2>1, <2>2, <2>3, <2>4, <2>5, RowWrites DEF RowCondemned
<1>6. QED BY <1>1, <1>2, <1>3, <1>4, <1>5

\* Every step of the lifecycle is a step DocumentStatus allows, or none at all.
LEMMA StatusStep ==
  ASSUME TypeOK, Bookkeeping, AbsentRows, [Next]_vars
  PROVE  [StatusModule!Next]_[d \in Docs |-> StatusOf(d)]
<1> DEFINE now == [d \in Docs |-> StatusOf(d)]
<1>1. \A d \in Docs : StatusOf(d)' \in StatusModule!States
  <2> TAKE d \in Docs
  <2>1. row'[d].status \in Statuses
    BY TypeCorrectStep DEF TypeOK, Row
  <2>2. QED BY <2>1 DEF StatusOf, Exists, Statuses, StatusModule!States
<1>2. now' \in [Docs -> StatusModule!States]
  BY <1>1
<1>3. \A d \in Docs : now'[d] = now[d] \/ now'[d] \in StatusModule!Follows[now[d]]
  BY StatusMoves
<1>4. QED BY <1>2, <1>3 DEF StatusModule!Next

\* The status column keeps its promise, whoever writes late: DocumentStatus is implemented.
THEOREM StatusImplemented == Spec => StatusRefinement
<1> DEFINE IInv == Bookkeeping /\ BlobKnowledge /\ AbsentRows
<1>1. Init => IInv
  BY InitBookkeeping, InitRows
<1>2. TypeOK /\ IInv /\ [Next]_vars => IInv'
  BY BookkeepingStep, BlobKnowledgeStep, AbsentRowsStep
<1>3. Init => StatusModule!Init
  BY DEF Init, StatusModule!Init, StatusOf, Exists, Committed, NoRow
<1>4. TypeOK /\ IInv /\ [Next]_vars => [StatusModule!Next]_[d \in Docs |-> StatusOf(d)]
  BY StatusStep
<1>5. QED
  BY <1>1, <1>2, <1>3, <1>4, TypeCorrect, PTL DEF Spec, StatusRefinement, StatusModule!Spec

-----------------------------------------------------------------------------
(* NotifiedOnce: one notification per document.                            *)

Notifying(w, d) == worker[w].pc = "notifying" /\ worker[w].doc = d

\* Only the thread that took a document out of processing is about to notify, and the
\* document has not been notified about as long as it is.
OneNotifier ==
  \A d \in Docs :
    /\ row[d].status = "processing" => notified[d] = 0
    /\ \A w \in Workers : Notifying(w, d) => row[d].status # "processing" /\ notified[d] = 0
    /\ \A w, u \in Workers : Notifying(w, d) /\ Notifying(u, d) => w = u

\* A row starts processing when it is saved and never goes back there.
LEMMA NoReturn ==
  ASSUME TypeOK, Bookkeeping, [Next]_vars, NEW d \in Docs, row'[d].status = "processing"
  PROVE  row[d].status = "processing" \/ ~Committed(d)
<1>1. CASE row'[d] = row[d]
  BY <1>1
<1>2. CASE RowSaved(d)
  BY <1>2 DEF RowSaved, Committed
<1>3. ~RowAnswered(d) /\ ~RowErased(d) /\ \A code : ~RowFailed(d, code)
  BY FailFields DEF RowAnswered, RowErased, RowFailed, NoRow
<1>4. CASE RowVerified(d)
  BY <1>4 DEF RowVerified
<1>5. QED BY <1>1, <1>2, <1>3, <1>4, RowWrites DEF RowCondemned

LEMMA NotifierCommitted ==
  ASSUME TypeOK, Bookkeeping, NEW w \in Workers, NEW d \in Docs, Notifying(w, d)
  PROVE  Committed(d)
  BY BusyHasDoc DEF Notifying, Bookkeeping

\* Only worker threads change what a thread does, and who was notified.
LEMMA WorkerFrame ==
  ASSUME [Next]_vars
  PROVE  \/ \E w \in Workers : WorkerStep(w)
         \/ (\E w \in Workers, d \in Docs : Receive(w, d))
         \/ UNCHANGED <<worker, notified>>
<1> USE DEF requestVars, queueVars, uploadVars
<1>1. ASSUME NEW d \in Docs, UploadStep(d) PROVE UNCHANGED <<worker, notified>>
  BY <1>1 DEF UploadStep, UploadMoves, RefuseUpload, StoreBlob, SaveRow, ApplicationNotOwned,
              SaveRowFails, CleanUpBlob, CleanUpBlobFails, DeferPublish, Publish, PublishFails,
              RecordPublishFailure, UploadCrash
<1>2. ASSUME NEW d \in Docs, DeadLetter(d) \/ Age(d) \/ BlobExpires(d)
      PROVE  UNCHANGED <<worker, notified>>
  BY <1>2 DEF DeadLetter, Age, BlobExpires
<1>3. ASSUME NEW v \in Verifiers, VerifyStep(v) PROVE UNCHANGED <<worker, notified>>
  BY <1>3 DEF VerifyStep, LoadForVerify, VerifyRefused, VerifyCommit, otherThanVerify
<1>4. ASSUME NEW e \in Erasers, EraseStep(e) PROVE UNCHANGED <<worker, notified>>
  BY <1>4 DEF EraseStep, LoadForErase, EraseBlob, EraseBlobFails, EraseRow, EraseRowFails,
              otherThanErase
<1>5. ASSUME NEW s \in StaleSweeps, StaleStep(s) PROVE UNCHANGED <<worker, notified>>
  BY <1>5 DEF StaleStep, SelectStale, FailStale, otherThanSweep
<1>6. ASSUME NEW g \in BlobSweeps, ScrubStep(g) PROVE UNCHANGED <<worker, notified>>
  BY <1>6 DEF ScrubStep, SelectVerified, CheckBlobs, FailScrubbed, otherThanSweep
<1>7. CASE UNCHANGED vars
  BY <1>7 DEF vars
<1>8. QED
  BY <1>1, <1>2, <1>3, <1>4, <1>5, <1>6, <1>7 DEF Next

\* A thread that moves on changes its own program counter and nothing else.
LEMMA MoveFields ==
  ASSUME TypeOK, NEW u \in Workers, NEW from, from # "idle",
         NEW to \in {"unanswered", "unrecorded", "notifying", "acking"}, WorkerMoves(u, from, to)
  PROVE  /\ worker[u].pc = from
         /\ worker'[u].pc = to /\ worker'[u].doc = worker[u].doc
         /\ \A t \in Workers \ {u} : worker'[t] = worker[t]
<1>1. worker[u].pc = from /\ worker' = [worker EXCEPT ![u].pc = to]
  BY DEF WorkerMoves
<1>2. worker[u] \in BusyWorker /\ worker \in [Workers -> WorkerStates]
  BY <1>1, BusyHasDoc DEF TypeOK
<1>3. worker'[u] = [worker[u] EXCEPT !.pc = to]
  BY <1>1, <1>2
<1>4. worker'[u].pc = to /\ worker'[u].doc = worker[u].doc
  BY <1>2, <1>3 DEF BusyWorker
<1>5. QED BY <1>1, <1>2, <1>4

\* The only step that lets a thread notify is the update that found its row in processing.
LEMMA NotifiersSaveAnswers ==
  ASSUME TypeOK, NEW u \in Workers, WorkerStep(u) \/ \E c \in Docs : Receive(u, c),
         NEW w \in Workers, NEW d \in Docs, Notifying(w, d)', ~Notifying(w, d)
  PROVE  SaveAnswer(u)
<1> USE DEF Notifying
<1>1. CASE \E c \in Docs : Receive(u, c)
  BY <1>1 DEF Receive, TypeOK
<1>2. CASE SkipMessage(u) \/ Ack(u) \/ Release(u)
  BY <1>2 DEF SkipMessage, Ack, AckAndStop, Release, IdleWorker, TypeOK
<1>3. CASE CallDis(u)
  BY <1>3 DEF CallDis, TypeOK
<1>4. CASE DisAnswers(u)
  <2>1. worker[u] \in BusyWorker
    BY <1>4, BusyHasDoc DEF DisAnswers
  <2>2. worker'[u].pc = "answered"
    BY <1>4, <2>1 DEF DisAnswers, BusyWorker, TypeOK
  <2>3. \A x \in Workers \ {u} : worker'[x] = worker[x]
    BY <1>4 DEF DisAnswers, TypeOK
  <2>4. QED BY <2>2, <2>3
<1>5. CASE DisFails(u)
  <2>1. WorkerMoves(u, "calling", "unanswered")
    BY <1>5 DEF DisFails
  <2>2. QED BY <2>1, MoveFields
<1>6. CASE SaveFailure(u) \/ SaveFailureFails(u)
  <2>1. WorkerMoves(u, "unanswered", "acking") \/ WorkerMoves(u, "unanswered", "unrecorded")
    BY <1>6 DEF SaveFailure, SaveFailureFails
  <2>2. QED BY <2>1, MoveFields
<1>7. CASE Notify(u)
  <2>1. WorkerMoves(u, "notifying", "acking")
    BY <1>7 DEF Notify
  <2>2. QED BY <2>1, MoveFields
<1>8. QED
  BY <1>1, <1>2, <1>3, <1>4, <1>5, <1>6, <1>7 DEF WorkerStep, ProcessMessage

\* A thread becomes a notifier by the guarded update of a row that was processing.
LEMMA BecomesNotifier ==
  ASSUME TypeOK, [Next]_vars, NEW w \in Workers, NEW d \in Docs,
         Notifying(w, d)', ~Notifying(w, d)
  PROVE  /\ row[d].status = "processing" /\ row'[d].status # "processing"
         /\ UNCHANGED notified
         /\ \A u \in Workers \ {w} : worker'[u] = worker[u]
<1>1. PICK u \in Workers : WorkerStep(u) \/ \E c \in Docs : Receive(u, c)
  BY WorkerFrame DEF Notifying
<1>2. SaveAnswer(u)
  BY <1>1, NotifiersSaveAnswers
<1>3. CASE WorkerMoves(u, "answered", "acking")
  <2>1. worker'[u].pc = "acking" /\ \A t \in Workers \ {u} : worker'[t] = worker[t]
    BY <1>3, MoveFields
  <2>2. QED BY <2>1 DEF Notifying
<1>4. CASE WorkerMoves(u, "answered", "notifying") /\ Locked(worker[u].doc)
  <2>1. /\ worker'[u].doc = worker[u].doc
        /\ \A t \in Workers \ {u} : worker'[t] = worker[t]
    BY <1>4, MoveFields
  <2>2. u = w /\ worker[w].doc = d
    BY <2>1 DEF Notifying
  <2>3. row[d].status = "processing"
    BY <1>4, <2>2 DEF Locked
  <2>4. PICK warning \in {"none", "warning"} :
          row' = [row EXCEPT ![d] =
                    [status |-> "ready_for_review", type |-> worker[w].type,
                     data |-> {"object", "extracted"}, error |-> warning]]
    BY <1>2, <2>2, <2>3 DEF SaveAnswer, Locked
  <2>5. row'[d].status = "ready_for_review"
    BY <2>4 DEF TypeOK
  <2>6. QED BY <1>2, <2>1, <2>2, <2>3, <2>5 DEF SaveAnswer
<1>5. QED BY <1>2, <1>3, <1>4 DEF SaveAnswer

LEMMA NotificationSent ==
  ASSUME TypeOK, [Next]_vars, NEW d \in Docs, notified'[d] # notified[d]
  PROVE  /\ notified'[d] = notified[d] + 1
         /\ \E w \in Workers : Notifying(w, d) /\ ~Notifying(w, d)'
<1>1. PICK w \in Workers : WorkerStep(w) \/ \E c \in Docs : Receive(w, c)
  BY WorkerFrame
<1>2. Notify(w)
  <2>1. CASE \E c \in Docs : Receive(w, c)
    BY <2>1 DEF Receive
  <2>2. CASE SkipMessage(w) \/ CallDis(w) \/ DisAnswers(w)
    BY <2>2, Zenon DEF SkipMessage, AckAndStop, CallDis, DisAnswers
  <2>3. CASE DisFails(w) \/ SaveAnswer(w) \/ SaveFailure(w) \/ SaveFailureFails(w)
    BY <2>3 DEF DisFails, SaveAnswer, SaveFailure, SaveFailureFails
  <2>4. CASE Ack(w) \/ Release(w)
    BY <2>4 DEF Ack, AckAndStop, Release
  <2>5. QED BY <1>1, <2>1, <2>2, <2>3, <2>4 DEF WorkerStep, ProcessMessage
<1>3. worker[w].doc = d /\ notified'[d] = notified[d] + 1
  BY <1>2 DEF Notify, TypeOK
<1>4. worker[w].pc = "notifying" /\ worker'[w].pc = "acking"
  <2>1. worker[w].pc = "notifying" /\ worker' = [worker EXCEPT ![w].pc = "acking"]
    BY <1>2 DEF Notify, WorkerMoves
  <2>2. worker[w] \in BusyWorker
    BY <2>1, BusyHasDoc
  <2>3. QED BY <2>1, <2>2 DEF TypeOK, BusyWorker
<1>5. QED BY <1>3, <1>4 DEF Notifying

LEMMA OneNotifierStep ==
  ASSUME TypeOK, Bookkeeping, OneNotifier, NotifiedOnce, [Next]_vars
  PROVE  OneNotifier' /\ NotifiedOnce'
<1>1. ASSUME NEW d \in Docs, row'[d].status = "processing" PROVE notified'[d] = 0
  <2>1. notified[d] = 0 /\ \A w \in Workers : ~Notifying(w, d)
    BY <1>1, NoReturn, NotifierCommitted DEF OneNotifier, Bookkeeping
  <2>2. QED BY <2>1, NotificationSent
<1>2. ASSUME NEW d \in Docs, NEW w \in Workers, Notifying(w, d)'
      PROVE  row'[d].status # "processing" /\ notified'[d] = 0
  <2>1. CASE Notifying(w, d)
    <3>1. row[d].status # "processing" /\ notified[d] = 0 /\ Committed(d)
      BY <2>1, NotifierCommitted DEF OneNotifier
    <3>2. notified'[d] = notified[d]
      BY <1>2, <2>1, NotificationSent DEF OneNotifier
    <3>3. QED BY <3>1, <3>2, NoReturn
  <2>2. CASE ~Notifying(w, d)
    BY <1>2, <2>2, BecomesNotifier DEF OneNotifier
  <2>3. QED BY <2>1, <2>2
<1>3. ASSUME NEW d \in Docs, NEW w \in Workers, NEW u \in Workers,
             Notifying(w, d)', Notifying(u, d)', w # u
      PROVE  FALSE
  <2>1. ASSUME NEW x \in Workers, NEW y \in Workers, x # y, Notifying(y, d)', Notifying(x, d)',
               ~Notifying(x, d)
        PROVE  FALSE
    <3>1. row[d].status = "processing" /\ worker'[y] = worker[y]
      BY <2>1, BecomesNotifier
    <3>2. Notifying(y, d)
      BY <2>1, <3>1 DEF Notifying
    <3>3. QED BY <3>1, <3>2 DEF OneNotifier
  <2>2. QED BY <1>3, <2>1 DEF OneNotifier
<1>4. ASSUME NEW d \in Docs PROVE notified'[d] <= 1
  <2>1. CASE notified'[d] = notified[d]
    BY <2>1 DEF NotifiedOnce
  <2>2. CASE notified'[d] # notified[d]
    BY <2>2, NotificationSent DEF OneNotifier
  <2>3. QED BY <2>1, <2>2
<1>5. QED BY <1>1, <1>2, <1>3, <1>4 DEF OneNotifier, NotifiedOnce

\* However often a message is delivered, to however many threads at once, and wherever a
\* thread crashes, the user is notified at most once about a document.
THEOREM NotifiedAtMostOnce == Spec => []NotifiedOnce
<1> DEFINE IInv == Bookkeeping /\ OneNotifier /\ NotifiedOnce
<1>1. Init => IInv
  BY InitBookkeeping
  DEF Init, OneNotifier, NotifiedOnce, Notifying, IdleWorker, NoRow
<1>2. TypeOK /\ IInv /\ [Next]_vars => IInv'
  BY BookkeepingStep, OneNotifierStep
<1>3. QED
  BY <1>1, <1>2, TypeCorrect, PTL DEF Spec

=============================================================================
