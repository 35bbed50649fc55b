----------------------- MODULE DocumentOutcomeProofs -----------------------
(***************************************************************************)
(* What becomes of the content of a document: the corrections of verify    *)
(* requests, the values in the user's record, the messages acknowledged.   *)
(* For any number of documents, threads and overlapping verify requests.   *)
(***************************************************************************)
EXTENDS DocumentLifecycleProofs

-----------------------------------------------------------------------------
(* The inductive invariant.                                                *)

\* A verify request holds a row of the past: what was decided by then has not been undone.
SeenIsPast ==
  \A v \in Verifiers : verify[v].pc = "validating" =>
    /\ verify[v].seen.status # "processing" => row[verify[v].doc].status # "processing"
    /\ verify[v].seen.status = "verified" =>
         row[verify[v].doc].status \in {"verified", "failed", "absent"}

\* As long as a row waits for its answer nobody has put anything into it.
NothingExtracted == \A d \in Docs : row[d].status = "processing" => row[d].data = {}

\* A verify request between its two steps holds a document and a row.
LEMMA ValidatingTyped ==
  ASSUME TypeOK, NEW v \in Verifiers, verify[v].pc = "validating"
  PROVE  verify[v].doc \in Docs /\ verify[v].seen \in Row
  BY DEF TypeOK, IdleVerify

\* What a verify request writes into the row it loaded.
LEMMA VerifiedRow ==
  ASSUME TypeOK, NEW v \in Verifiers, VerifyCommit(v), NEW d \in Docs,
         verify[v].doc = d, Exists(d)
  PROVE  /\ row'[d].status = Dirty(verify[v].seen.status, "verified", row[d].status)
         /\ row'[d].data = row[d].data \/ verify[v].seen.data \subseteq row'[d].data
<1> DEFINE seen == verify[v].seen
<1>1. PICK corrections \in SUBSET {v}, t \in NamedTypes \cup {seen.type} :
         row' = [row EXCEPT ![d] =
           [status |-> Dirty(seen.status, "verified", @.status),
            type   |-> Dirty(seen.type, t, @.type),
            data   |-> Dirty(seen.data, seen.data \cup {"object"} \cup corrections, @.data),
            error  |-> @.error]]
  BY DEF VerifyCommit
<1>2. /\ row'[d].status = Dirty(seen.status, "verified", row[d].status)
      /\ row'[d].data = Dirty(seen.data, seen.data \cup {"object"} \cup corrections, row[d].data)
  BY <1>1 DEF TypeOK
<1>3. QED BY <1>2 DEF Dirty

\* Once a document is verified or failed it stays so, or is deleted.
LEMMA DecidedStays ==
  ASSUME TypeOK, Bookkeeping, [Next]_vars, NEW d \in Docs, Committed(d),
         row[d].status \in {"verified", "failed", "absent"}
  PROVE  row'[d].status \in {"verified", "failed", "absent"}
<1>1. CASE row'[d] = row[d]
  BY <1>1
<1>2. ~RowSaved(d)
  BY DEF RowSaved, Committed
<1>3. CASE \E code : RowFailed(d, code)
  BY <1>3, FailFields DEF RowFailed
<1>4. CASE RowVerified(d)
  BY <1>4 DEF RowVerified
<1>5. CASE RowErased(d)
  BY <1>5 DEF RowErased, NoRow
<1>6. ~RowAnswered(d)
  BY DEF RowAnswered
<1>7. QED BY <1>1, <1>2, <1>3, <1>4, <1>5, <1>6, RowWrites DEF RowCondemned

\* Only verify requests change what a verify request holds and whose values were copied.
LEMMA VerifyFrame ==
  ASSUME [Next]_vars
  PROVE  (\E v \in Verifiers : VerifyStep(v)) \/ UNCHANGED <<verify, profile>>
<1> USE DEF requestVars, queueVars, uploadVars
<1>1. ASSUME NEW d \in Docs, UploadStep(d) PROVE UNCHANGED <<verify, profile>>
  BY <1>1 DEF UploadStep, UploadMoves, RefuseUpload, StoreBlob, SaveRow, ApplicationNotOwned,
              SaveRowFails, CleanUpBlob, CleanUpBlobFails, DeferPublish, Publish, PublishFails,
              RecordPublishFailure, UploadCrash
<1>2. ASSUME NEW d \in Docs, DeadLetter(d) \/ Age(d) \/ BlobExpires(d)
      PROVE  UNCHANGED <<verify, profile>>
  BY <1>2 DEF DeadLetter, Age, BlobExpires
<1>3. ASSUME NEW w \in Workers, NEW d \in Docs, Receive(w, d) PROVE UNCHANGED <<verify, profile>>
  BY <1>3 DEF Receive
<1>4. ASSUME NEW w \in Workers, WorkerStep(w) PROVE UNCHANGED <<verify, profile>>
  BY <1>4 DEF WorkerStep, ProcessMessage, SkipMessage, AckAndStop, CallDis, DisAnswers, DisFails,
              SaveAnswer, SaveFailure, SaveFailureFails, Notify, Ack, Release, WorkerMoves
<1>5. ASSUME NEW e \in Erasers, EraseStep(e) PROVE UNCHANGED <<verify, profile>>
  BY <1>5 DEF EraseStep, LoadForErase, EraseBlob, EraseBlobFails, EraseRow, EraseRowFails,
              otherThanErase
<1>6. ASSUME NEW s \in StaleSweeps, StaleStep(s) PROVE UNCHANGED <<verify, profile>>
  BY <1>6 DEF StaleStep, SelectStale, FailStale, otherThanSweep
<1>7. ASSUME NEW g \in BlobSweeps, ScrubStep(g) PROVE UNCHANGED <<verify, profile>>
  BY <1>7 DEF ScrubStep, SelectVerified, CheckBlobs, FailScrubbed, otherThanSweep
<1>8. CASE UNCHANGED vars
  BY <1>8 DEF vars
<1>9. QED BY <1>1, <1>2, <1>3, <1>4, <1>5, <1>6, <1>7, <1>8 DEF Next

LEMMA SeenIsPastStep ==
  ASSUME TypeOK, Bookkeeping, SeenIsPast, [Next]_vars
  PROVE  SeenIsPast'
<1> SUFFICES ASSUME NEW v \in Verifiers, verify'[v].pc = "validating"
             PROVE  /\ verify'[v].seen.status # "processing" =>
                         row'[verify'[v].doc].status # "processing"
                    /\ verify'[v].seen.status = "verified" =>
                         row'[verify'[v].doc].status \in {"verified", "failed", "absent"}
  BY DEF SeenIsPast
<1>1. CASE verify'[v] = verify[v]
  <2> DEFINE d == verify[v].doc
  <2>1. verify[v].pc = "validating"
    BY <1>1
  <2>2. d \in Docs /\ Committed(d)
    BY <2>1, ValidatingTyped DEF Bookkeeping
  <2>3. row[d].status # "processing" => row'[d].status # "processing"
    BY <2>2, NoReturn
  <2>4. row[d].status \in {"verified", "failed", "absent"} =>
          row'[d].status \in {"verified", "failed", "absent"}
    BY <2>2, DecidedStays
  <2>5. QED BY <1>1, <2>1, <2>3, <2>4 DEF SeenIsPast
<1>2. CASE verify'[v] # verify[v]
  <2>1. PICK u \in Verifiers : VerifyStep(u)
    BY <1>2, VerifyFrame
  <2>2. PICK d \in Docs : LoadForVerify(v, d)
    BY <1>2, <2>1 DEF VerifyStep, LoadForVerify, VerifyRefused, VerifyCommit, IdleVerify, TypeOK
  <2>3. verify'[v].doc = d /\ verify'[v].seen = row[d] /\ row' = row
    BY <2>2 DEF LoadForVerify, TypeOK
  <2>4. QED BY <2>3
<1>3. QED BY <1>1, <1>2

LEMMA NothingExtractedStep ==
  ASSUME TypeOK, SeenIsPast, NothingExtracted, [Next]_vars
  PROVE  NothingExtracted'
<1> SUFFICES ASSUME NEW d \in Docs, row'[d].status = "processing" PROVE row'[d].data = {}
  BY DEF NothingExtracted
<1>1. CASE row'[d] = row[d]
  BY <1>1 DEF NothingExtracted
<1>2. CASE RowSaved(d)
  BY <1>2 DEF RowSaved
<1>3. ~RowAnswered(d) /\ ~RowErased(d) /\ \A code : ~RowFailed(d, code)
  BY FailFields DEF RowAnswered, RowErased, RowFailed, NoRow
<1>4. ~RowVerified(d)
  <2> SUFFICES ASSUME RowVerified(d) PROVE FALSE
    OBVIOUS
  <2>1. PICK v \in Verifiers : VerifyCommit(v) /\ verify[v].doc = d
    BY DEF RowVerified
  <2>2. row'[d].status = Dirty(verify[v].seen.status, "verified", row[d].status)
    BY <2>1, VerifiedRow DEF RowVerified
  <2>3. verify[v].seen.status = "verified" /\ row[d].status = "processing"
    BY <2>2 DEF Dirty
  <2>4. QED BY <2>1, <2>3 DEF SeenIsPast, VerifyCommit
<1>5. QED BY <1>1, <1>2, <1>3, <1>4, RowWrites DEF RowCondemned

LEMMA InitContents == Init => SeenIsPast /\ NothingExtracted
  BY DEF Init, SeenIsPast, NothingExtracted, IdleVerify, NoRow

-----------------------------------------------------------------------------
(* CorrectionsSurvive.                                                     *)

LEMMA CorrectionStep ==
  ASSUME TypeOK, Bookkeeping, AbsentRows, NothingExtracted, [Next]_vars,
         NEW d \in Docs, NEW v \in Verifiers, v \in row[d].data, v \notin row'[d].data, Exists(d)'
  PROVE  \E u \in Verifiers :
           verify[u].doc = d /\ v \notin verify[u].seen.data /\ VerifyCommit(u)
<1>1. ~RowSaved(d)
  <2>1. Exists(d)
    BY DEF AbsentRows, NoRow
  <2>2. QED BY <2>1 DEF Bookkeeping, RowSaved, Committed
<1>2. \A code : ~RowFailed(d, code)
  BY FailFields DEF RowFailed
<1>3. ~RowAnswered(d)
  BY DEF NothingExtracted, RowAnswered
<1>4. ~RowErased(d)
  BY DEF RowErased, NoRow, Exists
<1>5. RowVerified(d)
  BY <1>1, <1>2, <1>3, <1>4, RowWrites DEF RowCondemned
<1>6. PICK u \in Verifiers : VerifyCommit(u) /\ verify[u].doc = d
  BY <1>5 DEF RowVerified
<1>7. verify[u].seen.data \subseteq row'[d].data
  BY <1>5, <1>6, VerifiedRow DEF RowVerified
<1>8. QED BY <1>6, <1>7

\* However many verify requests, answers, sweeps and deletions overlap, a correction leaves a
\* document only with the document, or by a verify request that had loaded the row before.
THEOREM CorrectionsStay == Spec => CorrectionsSurvive
<1> DEFINE IInv == Bookkeeping /\ AbsentRows /\ SeenIsPast /\ NothingExtracted
           Kept ==
             \A d \in Docs, v \in Verifiers :
               v \in row[d].data /\ v \notin row'[d].data =>
                 \/ ~Exists(d)'
                 \/ \E u \in Verifiers : /\ verify[u].doc = d /\ v \notin verify[u].seen.data
                                        /\ VerifyCommit(u)
<1>1. Init => IInv
  BY InitBookkeeping, InitRows, InitContents
<1>2. TypeOK /\ IInv /\ [Next]_vars => IInv'
  BY BookkeepingStep, AbsentRowsStep, SeenIsPastStep, NothingExtractedStep
<1>3. TypeOK /\ IInv /\ [Next]_vars => [Kept]_vars
  BY CorrectionStep
<1>4. QED
  BY <1>1, <1>2, <1>3, TypeCorrect, PTL DEF Spec, CorrectionsSurvive

-----------------------------------------------------------------------------
(* ProfileFromVerified.                                                    *)

LEMMA ProfileStep ==
  ASSUME TypeOK, Bookkeeping, SeenIsPast, ProfileFromVerified, [Next]_vars
  PROVE  ProfileFromVerified'
<1> SUFFICES ASSUME NEW d \in profile', Exists(d)'
             PROVE  row'[d].status \in {"verified", "failed"}
  BY DEF ProfileFromVerified
<1>1. d \in Docs
  BY TypeCorrectStep DEF TypeOK
<1>2. CASE d \in profile
  <2>1. Committed(d) /\ row[d].status \in {"verified", "failed", "absent"}
    BY <1>2 DEF Bookkeeping, ProfileFromVerified, Exists
  <2>2. QED BY <1>1, <2>1, DecidedStays DEF Exists
<1>3. CASE d \notin profile
  <2>1. PICK v \in Verifiers : VerifyStep(v)
    BY <1>3, VerifyFrame
  <2>2. VerifyCommit(v) /\ verify[v].doc = d
    BY <1>3, <2>1 DEF VerifyStep, LoadForVerify, VerifyRefused, VerifyCommit
  <2>3. Exists(d)
    BY <2>2 DEF VerifyCommit, Exists
  <2>4. row'[d].status = Dirty(verify[v].seen.status, "verified", row[d].status)
    BY <1>1, <2>2, <2>3, VerifiedRow
  <2>5. QED BY <2>2, <2>3, <2>4 DEF SeenIsPast, VerifyCommit, Dirty, Exists
<1>4. QED BY <1>2, <1>3

\* A document that is still to be reviewed has contributed nothing to the user's record,
\* whichever requests overlap.
THEOREM ProfilesFromVerified == Spec => []ProfileFromVerified
<1> DEFINE IInv == Bookkeeping /\ SeenIsPast /\ ProfileFromVerified
<1>1. Init => IInv
  BY InitBookkeeping, InitContents DEF Init, ProfileFromVerified
<1>2. TypeOK /\ IInv /\ [Next]_vars => IInv'
  BY BookkeepingStep, SeenIsPastStep, ProfileStep
<1>3. QED
  BY <1>1, <1>2, TypeCorrect, PTL DEF Spec

-----------------------------------------------------------------------------
(* AckedIsSettled.                                                         *)

\* A thread on its way to the acknowledgement has a document that is decided.
Decided ==
  \A w \in Workers :
    worker[w].pc \in {"notifying", "acking"} => row[worker[w].doc].status # "processing"

\* Only a thread that skips a message or is through with it acknowledges.
LEMMA Acknowledges ==
  ASSUME TypeOK, [Next]_vars, NEW d \in Docs, msg'[d] = "acked", msg[d] # "acked"
  PROVE  /\ UNCHANGED row
         /\ \E w \in Workers : worker[w].doc = d /\ (SkipMessage(w) \/ Ack(w))
<1> USE DEF requestVars, queueVars, uploadVars, TypeOK
<1>1. ASSUME NEW c \in Docs, UploadStep(c) PROVE FALSE
  <2>1. CASE Publish(c) \/ PublishFails(c)
    BY <2>1 DEF Publish, PublishFails
  <2>2. CASE RefuseUpload(c) \/ StoreBlob(c) \/ SaveRow(c) \/ ApplicationNotOwned(c)
             \/ SaveRowFails(c) \/ CleanUpBlob(c) \/ CleanUpBlobFails(c) \/ DeferPublish(c)
             \/ RecordPublishFailure(c) \/ UploadCrash(c)
    BY <2>2 DEF RefuseUpload, StoreBlob, SaveRow, ApplicationNotOwned, SaveRowFails,
                CleanUpBlob, CleanUpBlobFails, DeferPublish, RecordPublishFailure, UploadCrash
  <2>3. QED BY <1>1, <2>1, <2>2 DEF UploadStep
<1>2. ASSUME NEW c \in Docs, DeadLetter(c) \/ Age(c) \/ BlobExpires(c) PROVE FALSE
  BY <1>2 DEF DeadLetter, Age, BlobExpires
<1>3. ASSUME NEW w \in Workers, NEW c \in Docs, Receive(w, c) PROVE FALSE
  BY <1>3 DEF Receive
<1>4. ASSUME NEW w \in Workers, WorkerStep(w)
      PROVE  UNCHANGED row /\ worker[w].doc = d /\ (SkipMessage(w) \/ Ack(w))
  <2>1. CASE SkipMessage(w) \/ Ack(w)
    BY <2>1 DEF SkipMessage, Ack, AckAndStop
  <2>2. CASE CallDis(w) \/ DisAnswers(w) \/ Release(w)
    BY <2>2, Zenon DEF CallDis, DisAnswers, Release
  <2>3. CASE DisFails(w) \/ SaveAnswer(w) \/ SaveFailure(w) \/ SaveFailureFails(w) \/ Notify(w)
    BY <2>3 DEF DisFails, SaveAnswer, SaveFailure, SaveFailureFails, Notify
  <2>4. QED BY <1>4, <2>1, <2>2, <2>3 DEF WorkerStep, ProcessMessage
<1>5. ASSUME NEW v \in Verifiers, VerifyStep(v) PROVE FALSE
  BY <1>5 DEF VerifyStep, LoadForVerify, VerifyRefused, VerifyCommit, otherThanVerify
<1>6. ASSUME NEW e \in Erasers, EraseStep(e) PROVE FALSE
  BY <1>6 DEF EraseStep, LoadForErase, EraseBlob, EraseBlobFails, EraseRow, EraseRowFails,
              otherThanErase
<1>7. ASSUME NEW s \in StaleSweeps, StaleStep(s) PROVE FALSE
  BY <1>7 DEF StaleStep, SelectStale, FailStale, otherThanSweep
<1>8. ASSUME NEW g \in BlobSweeps, ScrubStep(g) PROVE FALSE
  BY <1>8 DEF ScrubStep, SelectVerified, CheckBlobs, FailScrubbed, otherThanSweep
<1>9. CASE UNCHANGED vars
  BY <1>9 DEF vars
<1>10. QED BY <1>1, <1>2, <1>3, <1>4, <1>5, <1>6, <1>7, <1>8, <1>9 DEF Next

\* The guarded updates leave a row that is decided, whether they hit it or not.
LEMMA UpdateDecides ==
  ASSUME TypeOK, NEW u \in Workers, worker[u].doc \in Docs, SaveAnswer(u) \/ SaveFailure(u)
  PROVE  row'[worker[u].doc].status # "processing"
<1> DEFINE d == worker[u].doc
<1>1. CASE ~Locked(d)
  BY <1>1 DEF SaveAnswer, SaveFailure, Locked
<1>2. CASE Locked(d) /\ SaveAnswer(u)
  <2>1. PICK warning \in {"none", "warning"} :
          row' = [row EXCEPT ![d] =
                    [status |-> "ready_for_review", type |-> worker[u].type,
                     data |-> {"object", "extracted"}, error |-> warning]]
    BY <1>2 DEF SaveAnswer
  <2>2. QED BY <2>1 DEF TypeOK
<1>3. CASE Locked(d) /\ SaveFailure(u)
  <2>1. row' = [row EXCEPT ![d] = [@ EXCEPT !.status = "failed", !.data = {"object"},
                                            !.error = "DIS_INVOCATION_FAILED"]]
    BY <1>3 DEF SaveFailure
  <2>2. row'[d] = [row[d] EXCEPT !.status = "failed", !.data = {"object"},
                                 !.error = "DIS_INVOCATION_FAILED"]
    BY <2>1 DEF TypeOK
  <2>3. row[d] \in Row
    BY DEF TypeOK
  <2>4. QED BY <2>2, <2>3 DEF Row
<1>4. QED BY <1>1, <1>2, <1>3

LEMMA DecidedStep ==
  ASSUME TypeOK, Bookkeeping, Decided, [Next]_vars
  PROVE  Decided'
<1> SUFFICES ASSUME NEW w \in Workers, worker'[w].pc \in {"notifying", "acking"}
             PROVE  row'[worker'[w].doc].status # "processing"
  BY DEF Decided
<1>1. CASE worker'[w] = worker[w]
  <2>1. worker[w].doc \in Docs /\ Committed(worker[w].doc)
    BY <1>1, BusyHasDoc DEF Bookkeeping, BusyWorker
  <2>2. QED BY <1>1, <2>1, NoReturn DEF Decided
<1>2. CASE worker'[w] # worker[w]
  <2>1. PICK u \in Workers : WorkerStep(u) \/ \E c \in Docs : Receive(u, c)
    BY <1>2, WorkerFrame
  <2>2. ASSUME NEW from, from # "idle", NEW to \in {"unanswered", "unrecorded", "notifying", "acking"},
               WorkerMoves(u, from, to)
        PROVE  /\ worker[u].pc = from /\ worker'[u].pc = to /\ u = w
               /\ worker'[w].doc = worker[w].doc /\ worker[w].doc \in Docs
    BY <1>2, <2>2, MoveFields, BusyHasDoc DEF BusyWorker
  <2>3. CASE \E c \in Docs : Receive(u, c)
    BY <1>2, <2>3 DEF Receive, TypeOK
  <2>4. CASE SkipMessage(u) \/ Ack(u) \/ Release(u)
    BY <1>2, <2>4 DEF SkipMessage, Ack, AckAndStop, Release, IdleWorker, TypeOK
  <2>5. CASE CallDis(u)
    BY <1>2, <2>5 DEF CallDis, TypeOK
  <2>6. CASE DisAnswers(u)
    <3>1. worker[u] \in BusyWorker
      BY <2>6, BusyHasDoc DEF DisAnswers
    <3>2. worker'[u].pc = "answered"
      BY <2>6, <3>1 DEF DisAnswers, BusyWorker, TypeOK
    <3>3. \A x \in Workers \ {u} : worker'[x] = worker[x]
      BY <2>6 DEF DisAnswers, TypeOK
    <3>4. QED BY <1>2, <3>2, <3>3
  <2>7. CASE DisFails(u)
    BY <2>2, <2>7 DEF DisFails
  <2>8. CASE SaveAnswer(u) \/ SaveFailure(u)
    <3>1. u = w /\ worker'[w].doc = worker[w].doc /\ worker[w].doc \in Docs
      BY <2>2, <2>8 DEF SaveAnswer, SaveFailure
    <3>2. QED BY <2>8, <3>1, UpdateDecides
  <2>9. CASE SaveFailureFails(u)
    <3>1. worker'[u].pc = "unrecorded" /\ u = w
      BY <2>2, <2>9 DEF SaveFailureFails
    <3>2. QED BY <3>1
  <2>10. CASE Notify(u)
    <3>1. WorkerMoves(u, "notifying", "acking") /\ UNCHANGED row
      BY <2>10 DEF Notify
    <3>2. u = w /\ worker[w].pc = "notifying" /\ worker'[w].doc = worker[w].doc
      BY <2>2, <3>1
    <3>3. QED BY <3>1, <3>2 DEF Decided
  <2>11. QED
    BY <2>1, <2>3, <2>4, <2>5, <2>6, <2>7, <2>8, <2>9, <2>10 DEF WorkerStep, ProcessMessage
<1>3. QED BY <1>1, <1>2

LEMMA AckedStep ==
  ASSUME TypeOK, Decided, [Next]_vars, NEW d \in Docs, msg[d] # "acked", msg'[d] = "acked"
  PROVE  \/ row[d].status # "processing"
         \/ \E w \in Workers : worker[w].doc = d /\ worker[w].pc = "unrecorded"
<1>1. PICK w \in Workers : worker[w].doc = d /\ (SkipMessage(w) \/ Ack(w))
  BY Acknowledges
<1>2. CASE SkipMessage(w)
  BY <1>1, <1>2 DEF SkipMessage
<1>3. CASE Ack(w) /\ worker[w].pc = "acking"
  BY <1>1, <1>3 DEF Decided
<1>4. CASE Ack(w) /\ worker[w].pc = "unrecorded"
  BY <1>1, <1>4
<1>5. QED BY <1>1, <1>2, <1>3, <1>4 DEF Ack

\* No message is acknowledged that its document still needs, with any number of threads,
\* deliveries, crashes and failed calls, unless the failure itself could not be recorded.
THEOREM AckedAreSettled == Spec => AckedIsSettled
<1> DEFINE IInv == Bookkeeping /\ Decided
           Due ==
             \A d \in Docs :
               msg[d] # "acked" /\ msg'[d] = "acked" =>
                 \/ row[d].status # "processing"
                 \/ \E w \in Workers : worker[w].doc = d /\ worker[w].pc = "unrecorded"
<1>1. Init => IInv
  BY InitBookkeeping DEF Init, Decided, IdleWorker
<1>2. TypeOK /\ IInv /\ [Next]_vars => IInv'
  BY BookkeepingStep, DecidedStep
<1>3. TypeOK /\ IInv /\ [Next]_vars => [Due]_vars
  BY AckedStep
<1>4. QED
  BY <1>1, <1>2, <1>3, TypeCorrect, PTL DEF Spec, AckedIsSettled

=============================================================================
