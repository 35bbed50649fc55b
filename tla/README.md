# Beyond Forms: models, checks and proofs

Beyond Forms is a wallet with which people in Berlin apply for social benefits. The user
uploads documents, a language model extracts their values, the user verifies them, a rules
engine and a chat assistant ask for what is missing, and a filled form is exported. This
directory holds TLA+ models of the program, the TLC configurations that check them on small
instances, and proofs that TLAPS checks for every instance.

In the paths below `MW` is `services/orchestration-middleware-service/src`, `WF` is
`services/wallet-frontend/src`, both under `src/` of the repository snapshot.

## Inventory

| Component | State | Operations | Talks to | What is hard | What makes it correct |
|---|---|---|---|---|---|
| Document lifecycle (`MW/routes/files.py`, `MW/services/user_service.py`) | rows `user_documents`, `uploaded_files`; blobs; the user's record | upload, bulk upload, verify, delete, sweep of stale documents, sweep of missing blobs | Cloud Storage, PostgreSQL, Pub/Sub, rules engine | three stores without a common transaction; snapshots used after network calls; sweeps of other requests | a blob is never orphaned by a deletion; the status only moves forward; corrections are not lost; nothing waits for ever |
| Pub/Sub worker (`MW/worker.py`, `MW/services/pubsub_service.py`) | delivered messages, threads | process a message, acknowledge, give back | Pub/Sub, DIS, PostgreSQL, middleware | at-least-once delivery, overlapping deliveries, crashes, a 300 s call with no lock held | one answer and one notification per document; a message is acknowledged only when its document is decided |
| Conversations (`MW/services/conversation_service.py`, `MW/routes/llm.py`) | `conversations`, `conversation_messages`, the tool calls that still need a result | stream an answer, answer a card, new chat, close, delete | language model, rules engine, profile | the stream outlives the request's transaction; a second tab; a disconnect between a tool call and its result; check-then-insert | a tool call gets exactly one result before the next user message; nothing is added to a closed conversation |
| Chat client (`WF/store/useChatStore.ts`, `WF/services/chat`, `WF/components/Chat`) | messages, cards, `isLoading`, streams | send, answer a card, new chat, reset on logout | the stream of the middleware | optimistic answers that are rolled back; late callbacks after a reset | what a card says of its answer is so; the input comes back however a reply ends |
| Eligibility check (`WF/store/EligibilityEngine.ts`, `useEligibilityStore.ts`, `benefitRules.ts`, `WF/views/Eligibility*.tsx`) | answers, drafts of the cards, the page | answer, clear, next, back, links, result | the address bar, the clock | answers left over from branches not taken; the progress bar; limits of ages and incomes | the bar keeps room for what is left; leftovers never decide; the benefits leave no gap and do not overlap |
| Questionnaires (`WF/views/Application/**`, `WF/hooks/useProfile.ts`, `WF/services/profile`) | pages, the form on the screen, saves on their way, the profile in the query cache | edit, choose, save, next, back, refetch, verify an identity card | profile endpoints, documents | forms filled from a profile that is saved and refetched meanwhile; saves that overlap or fail; forward and back as two functions | going on and back are inverse; saving again keeps what is stored; no orphaned details; the cache catches up |
| Documents in the wallet (`WF/views/Profile/Document*.tsx`, `WF/hooks/useAutoVerification.ts`, `WF/hooks/useDocumentProcessingSocket.ts`) | the list in the query cache, upload screen with timers, review, verifications and deletions on their way | upload, remove, poll, verify by hand and automatically, delete optimistically | files endpoints, the socket | timers against answers; two verifiers of one document; reads older than a deletion | the screen is left; corrections stay; a deleted document stays away |
| Form completeness and asset cache (`MW/services/form_service.py`) | cached form assets, one load per form | get assets, completeness, fill | forms-filling service, rules engine | single flight, failure of the leader, expiry | followers get the leader's result or its error; nobody waits for ever |
| Form export (`MW/routes/form_export.py`) | exported blobs, delayed erasure | export, scrub after a delay | forms-filling service, Cloud Storage | a background task that dies with its instance | exported personal data is erased |
| Account deletion (`MW/routes/user.py`) | everything of one user | delete in the identity provider, then blobs, then rows | Authentik, Cloud Storage, PostgreSQL | races with uploads, swallowed purge errors | no blob outlives its account |
| Live notifications (`MW/main.py`, `WF/hooks/useDocumentProcessingSocket.ts`) | open sockets per user | connect, disconnect, notify | worker, browser | dictionary mutated while iterated, lost notifications | a notification is lost at worst; polling covers a lost one |
| Application status and milestones (`MW/routes/application.py`, `MW/routes/cms.py`) | `user_applications`, tutorial progress | create, change, submit | rules engine | check-then-insert, stale reads | status never goes back |
| Stale application reminders (`MW/tasks/stale_app_cleanup.py`) | reminder timestamps | batch job | notification provider | a crash in the middle of a batch | at most one reminder per window |
| Demo seeding (`MW/services/demo_seed_service.py`, `demo_assets.py`) | demo personas | seed, reset, ensure | Cloud Storage, PostgreSQL | several instances start at once | one persona each; a reset is all or nothing |
| Profile writers, household, money grids (`MW/services/user_service.py`, `MW/mappers.py`, `MW/schemas.py`) | the user's record and its child rows | update section, sync from documents, pension upsert | rules engine | two writers of one grid | one row per person and kind |
| Rules engine (`services/rules-engine`) | none | evaluate the decision tree, validate fields and forms | none | cycles, missing answers, repeated blocks | evaluation ends and stops at the first unanswered step |
| Document intelligence service (`services/document-intelligence-service`) | none | classify, extract | language model | malformed answers, retries | an answer has a known type or an error |
| Forms filling service (`services/forms-filling-service`) | none | list fields, fill a PDF | none | radio groups and option labels | a value is written to a field that accepts it |
| Auth service, libs/auth | session cookie, flow hint | login start, login finish, logout, require | Authentik | two-step flow across requests | a user row exists after a login |
| Migration service (`services/migration-service`) | applied files | run files at start | PostgreSQL | a crash between two files | every file is applied once, in order |
| Other views of the wallet | routing, tutorial, settings | rendering | middleware | none | none |
| Schemas, mappings, migrations, deployment | data | none | none | none | none |

### How they interact

The upload handler stores the blob, commits the row (`processing`) and publishes a message.
A worker thread receives it, checks the row, calls DIS and writes the answer under
`WHERE status = 'processing'`; it then notifies the middleware, which forwards to the user's
sockets. `GET /profile` runs the stale sweep first and starts the blob sweep as a background
task. The review view (or the automatic verification) posts to `/verify`, which asks the
rules engine and copies validated values into the user's record. Chat answers and section
updates write the same record. Forms read it. Deletion of an account removes all of it.

In the browser, every view reads the profile and the documents through one query cache
(`useProfile`), which is read again after every save, on focus, on a message of the socket and,
while a document is processed, on a timer. The questionnaires fill their forms from it and save
page by page; the upload screen, the review and the two automatic verifiers change the list; the
chat store keeps its own copy of the conversation and learns from the stream what became of an
answer. The models of the browser meet those of the middleware at the endpoints: `ChatClient`
keeps of the middleware what `Conversation` says of cards, `DocumentFlow` keeps of a document
what `DocumentStatus` promises of its status.

## Modules

| Module | What it is | Code |
|---|---|---|
| `DocumentTypes` | the tables that map document types between the wallet and DIS, as functions | `MW/constants.py`, `MW/routes/files.py` |
| `DocumentStatus` | abstract specification: what the status column promises its readers | none, it is the promise |
| `DocumentLifecycle` | uploads, Pub/Sub, worker threads, verify and delete requests, both sweeps, for any number of documents | `MW/routes/files.py`, `MW/worker.py`, `MW/services/user_service.py`, `MW/services/pubsub_service.py` |
| `MCDocumentLifecycle` | instances for TLC: the real type tables, fault sets, symmetry | |
| `DocumentLifecycleProofs` | types, files, status, notifications: theorems about the lifecycle | |
| `DocumentOutcomeProofs` | corrections, the user's record, acknowledged messages: theorems about the content | |
| `Conversation` | chat requests, the generator that streams a reply, new chat, close and delete, on any number of instances | `MW/routes/llm.py`, `MW/services/conversation_service.py`, `MW/db.py`, `src/migrations/20260413_add_chat_persistance_tables.sql` |
| `MCConversation` | instances for TLC | |
| `ConversationProofs` | theorems about the chat: shapes, stored answers and the dialogue on any number of instances, one conversation and one answer on a single one | |
| `ChatClient` | the chat in the browser over an abstract middleware | `WF/store/useChatStore.ts`, `WF/services/chat/HttpChatService.ts`, `WF/components/Chat`, `WF/store/useAuthStore.ts` |
| `MCChatClient`, `ChatClientProofs` | instance for TLC; theorem about the cards | |
| `BenefitRules` | the rules of the benefits as operators over a set of answers | `WF/store/benefitRules.ts` |
| `EligibilityFlow` | question graph, store, navigation, drafts and result of the check | `WF/store/EligibilityEngine.ts`, `WF/store/useEligibilityStore.ts`, `WF/views/Eligibility*.tsx`, `WF/components/Eligibility` |
| `MCEligibility`, `EligibilityProofs` | instance for TLC; theorems about the walk through the questions, the bar, the drafts and the benefits | |
| `FormFields` | what the questionnaires share: forms as functions, blank is null, merge of a payload | `WF/utils/transform.ts`, `MW/routes/user.py` |
| `AboutMeSection`, `HouseholdSection`, `HousingSection`, `IncomeSection`, `HealthSection` | one view each: its fields, pages, next and previous page, edits, payloads and how it is filled from the profile | `WF/views/Application/**` |
| `Questionnaires` | one of these views over a profile that is saved, refetched and changed elsewhere | `WF/hooks/useProfile.ts`, `WF/services/profile/HttpProfileService.ts` and the views |
| `MCQuestionnaires`, `QuestionnairesProofs` | instance for TLC: stored sections per view; theorems about the query cache, the pages, the saves of the housing form, the details of every section, what an untouched page shows and what a page stores when it is saved again | |
| `SequenceFacts` | lemmas about lists: appended to, one element taken out, cut, selected; used by all proofs about lists of saves, streams, messages, pages and deletions | |
| `DocumentFlow` | the documents of the account in one open wallet | `WF/views/Profile/Document*.tsx`, `WF/hooks/useAutoVerification.ts`, `WF/hooks/useDocumentProcessingSocket.ts`, `WF/services/profile/FileService.ts` |
| `MCDocumentFlow`, `DocumentFlowProofs` | instance for TLC; theorems about the screens, the corrections and the list | |

### DocumentLifecycle

State and its counterpart in the code:

| Variable | Stands for |
|---|---|
| `row` | the row of `user_documents`: status, type, what `raw_data` holds (NULL, an object, the extraction, the corrections of each verify request), `user_error_code` |
| `blob` | the object in the bucket |
| `profile` | documents whose values `verify_document` copied into the user's record |
| `old` | the row is older than the five minutes of `cleanup_stale_documents` |
| `upload` | how far the upload handler got, the background task of `/upload` included |
| `msg`, `attempts` | the message at the subscription and its delivery attempts |
| `worker` | what each streaming-pull thread works on, with the type it read before the call of DIS |
| `notified` | notifications the middleware was sent about a document |
| `verify`, `eraser`, `stale`, `scrub` | verify requests with the snapshot of the row they loaded, delete requests, the two sweeps with the documents they selected |

An action is the stretch of code between two points at which somebody else can run: a
network call (storage, Pub/Sub, DIS, rules engine) or a commit. A request that reads a row,
calls a service and writes the row is therefore two actions with the snapshot in between.
`VerifyCommit` models what the ORM does with that snapshot: it writes the columns whose new
value differs from the loaded one (`Dirty`), and raises when the row is gone, unless no column
is dirty. `Locked` is the `WHERE status = 'processing'` of the worker; the sweeps write by
primary key (`Fail`, `FailAll`), and a row of the set that vanished makes the whole
transaction fail. `Holders`, `Receive` and `DeadLetter` are the subscription: a message stays
pending until it is acknowledged and may be delivered to a second thread while the first
still works on it.

`Faults` chooses which failures an instance may meet: `crash` (an instance or thread stops
between any two steps), `dis`, `db`, `gcs`, `publish` (including a publish that was accepted
and reported as failed) and `ttl` (the bucket's lifecycle rule erases a blob).

### Conversation

| Variable | Stands for |
|---|---|
| `conv`, `log` | rows of `conversations` and `conversation_messages` (a conversation is named by the request that created it) |
| `pc`, `cv`, `asks` | where a request is, the conversation it found, the card it answers |
| `writes`, `after` | rows inserted in its open transaction, and where it goes once they are committed |
| `messages`, `round`, `todo`, `shown` | the generator's local variables |
| `delivered`, `newChats`, `promised` | what clients have seen: cards, new chats, answers of the close and delete endpoints |
| `overlapped` | history: conversations two requests were in at once; only `ContextComplete` reads it |

`handle_chat_stream` is `async` but awaits nothing between the lookup of the conversation and
the commit, so within one instance nothing else runs there (`LoopFree`); requests on different
instances interleave at every statement. `Flush` and `Commit` are separate because the trigger
on closed conversations is evaluated at the flush. `Break` is a client that leaves (the
generator is cancelled at an await) or an instance that stops; what is not committed is rolled
back by `get_db`.

Left out: the content of messages and cards, what a submitted card writes into the profile,
what server tools read or change there, authentication, the read-only endpoints, and the clocks
that order `created_at` (the log is ordered by commit).

### ChatClient

| Variable | Stands for |
|---|---|
| `shown`, `bubbles`, `isLoading`, `error` | the store: cards among the messages and what they say, replies, the two flags |
| `streams`, `newChats` | requests whose stream or answer is awaited |
| `token` | signed in; a sign-out empties the store |
| `card` | the card in the database of the middleware |
| `overlapped` | history: the messages were emptied while something was on its way |

`AnswerCard` is optimistic: it marks the card answered before the request is sent; `RunStarted` is
the proof that the answer is stored; `Reopened` is what the store does with the cards when a stream
ends before that, with and without a 409. The store never cancels a stream, so callbacks of an old
reply run after a reset.

### EligibilityFlow

| Variable | Stands for |
|---|---|
| `page`, `path` | the address and the path the mounted view memoised |
| `answers` | the store, kept in the session storage |
| `draft`, `invalid` | the field of a card beside the store, the validation error |
| `day` | the clock, read anew by every render |

`ValidPath`, `StepCounts` and the rules of `BenefitRules` are pure; the run evaluates them over
every set of answers the cards can produce, including those left over after a changed answer.

### Questionnaires

| Variable | Stands for |
|---|---|
| `view`, `page`, `form` | the view that is open, its `currentPage`, the fields on the screen |
| `stored`, `loaded`, `fetch` | the section in the database, its copy in the query cache, the request on its way |
| `saves` | saves whose answer the view waits for: one at a time in the housing form (a queue), any number elsewhere |
| `card`, `extracted` | an identity card waits for review, or has filled the form |
| `unsaved`, `touched`, `overlapped`, `behind`, `unseen` | history that the properties read; `touched` are the pages of the two comparing views that were ever edited or filled with a guess |

A section module says what a page sends (`Payload`), when the button lets the user on (`Ready`),
where next and back lead (`NextPage`, `PrevPage`) and how a loaded profile reaches the form
(`Hydrate`, `Sync`). `Apply` merges a payload into the section as `update_profile` does;
`Refuse` is a validation error, a failed request or a payload the schema throws away before it
is sent. Texts typed into a field are one value, fields that are only filled in together are one
field.

`unsaved` also holds the pages on which a default or a guess stands where the profile has no
answer (`Guessed`), in the two views that compare the form with every later profile: `Sync` takes
a value over only when it differs from the one it last compared with, so the guess stays when the
answer is written elsewhere, until the page is saved. `Computed` names what a page derives and
does not show.

### DocumentFlow

| Variable | Stands for |
|---|---|
| `server`, `text` | status and content of a document in the database |
| `list`, `fetch`, `notes` | the query cache, the request for the list, messages in the socket |
| `drop`, `strays` | the upload screen with its timers, uploads that were aborted on their way |
| `review` | the review with the field that is being edited |
| `calls`, `blacklist` | verifications on their way, by hand, by the upload screen and by the hook |
| `dels`, `before` | optimistic deletions and the list they go back to |
| `corrected`, `raced`, `missed` | history that the properties read |

## Runs

| Run | Instance | Question, and what it shows |
|---|---|---|
| `lifecycle` | 1 document, 2 worker threads, 1 verification, 1 deletion, both sweeps, every fault, 2 deliveries | With everything that can go wrong at once: the state is well typed, a file without a row is the leftover of an uncommitted upload (`BlobAccounted`), nobody is notified twice (`NotifiedOnce`), unreviewed documents contribute nothing to the record (`ProfileFromVerified`), a document reported as having lost its file has lost it (`MissingBlobIsMissing`), the status column keeps the promise of `DocumentStatus` (`StatusRefinement`), and a correction leaves `raw_data` only by deletion or by a verification whose snapshot is older (`CorrectionsSurvive`). That exception is real: `verify_document` takes no lock, so the later of two overlapping verifications wins |
| `queue` | 1 document, fair worker threads, 2 of them, 2 deliveries, a verification, a fair stale sweep; crashes, failing DIS calls, publish calls and database writes | A message is acknowledged only when its document is decided (`AckedIsSettled`), each ends acknowledged or dead-lettered (`MessagesEnd`), and no document stays in processing for ever as long as its owner keeps opening the profile (`DocumentsSettle`). `AckedIsSettled` has one exception: `_update_db_failed` swallows its exception and the message is acknowledged, and then the stale sweep is what settles the document |
| `timeout` | expected violation | see Findings |
| `not_owned` | expected violation | see Findings |
| `named_slot` | expected violation | see Findings |
| `chat` | 3 interchangeable requests and a new chat on 1 instance, 1 tool round, window of 4 | At most one conversation is in progress, a submitted card is the only answer to its call, the model is always sent a dialogue in which every call has exactly one result, an answer is stored before the reply to it starts, and nothing is added to a closed conversation |
| `chat_tools` | 2 requests on 2 instances, a server tool alone or before a card, 1 tool round, window of 5, a new chat, fair | The dialogue stays well formed when requests interleave at every statement and replies break between two results of one round; every stream ends |
| `chat_endpoints` | expected violation | see Findings |
| `chat_client` | 2 cards, 3 messages or answers, 2 new chats or sign-outs, fair answers | What a card in the browser says about its answer agrees with the middleware (`CardsTellTheTruth`), and the input comes back however a reply ends (`LoadingEnds`) |
| `eligibility` | every question with 1 or 2 values, one bookmark, a day on which an asker reaches the retirement age | The bar keeps room for the questions still to come and does not move under an answer being edited, a card shows the answer it will go on with, leftovers of other branches do not count, the two kinds of Grundsicherung exclude each other and nobody falls between the benefits by income |
| `questionnaires` | the five views, empty and filled sections, 1 edit and 2 saves per view, a document or another device writing meanwhile, fair answers | Back leads where next came from, no detail outlives the answer it belongs to, going through a page again stores nothing else, a page nobody touched shows the profile loaded last (`UntouchedPagesShowTheProfile`), the choice on the screen is the one stored in the end, the cache catches up, every save is answered |
| `documents` | 2 documents, one uploaded in the wallet, 1 failing request, 2 visits, fair requests, timers and polling | The upload screen is left, a lost message is made up for by polling, corrections survive the automatic verifiers, a deleted document stays away |

### Bounds, and why they are enough

- One document in the lifecycle: handlers of different documents share nothing but the sweeps,
  whose transaction covers a set. One verification, two worker threads and two deliveries are
  what overlapping and repeated deliveries need. Larger sets, several verifications among them,
  are covered by the proofs, which put no bound on any of these numbers.
- `MaxAttempts` stands for the five attempts of the dead-letter policy; `MaxRounds`, `Window` and
  `MaxNewChats` for `MAX_TOOL_CALL_ROUNDS`, `CHAT_CONTEXT_WINDOW_SIZE` and the number of new chats.
  Windows of 4 and 5 are shorter than the logs three (two) requests can produce, so truncation
  happens; a second tool round repeats the first. Three requests are what a race needs that someone
  later observes: a card shown by the first, answered by the second and by the third.
- Upload slots and DIS answers range over the real tables restricted to one type where the
  type plays no part, so that states do not multiply.
- `eligibility`: the values sit where the rules change (an age on both sides of the retirement
  age, an income between two limits), so that each verdict occurs; `MaxChildren` bounds the rows
  of one card.
- `questionnaires`: a page is edited once (`MaxEdits`) and two saves (`MaxSaves`) overlap, which
  is what reordering needs. The largest view, "about me", starts filled in only.
- `documents`: one document waits for review and the other, an identity card, is uploaded;
  `MaxVisits` and `MaxFaults` bound the screens opened and the requests that fail.
- `chat_client`: three streams and two resets are an answer, a second answer and a message
  around an old reply and a sign-out. `CardsTruthful` removes these bounds.
- `CHECK_DEADLOCK FALSE` in the lifecycle, `documents`, `eligibility` and `chat_client`: a
  document that was deleted, a spent bound on visits, days or messages leaves nothing to do.
  The chat and questionnaire runs check deadlock; in the chat `Finished` is the only way to stop.

### Fairness, and why the code justifies it

- `WorkerFairness`: a thread that holds a message finishes `process_message` (every call in
  it has a timeout), Pub/Sub delivers a pending message and dead-letters one whose attempts
  are used up. Crashes are not part of the fair action: nothing forces a thread to fail.
- `SweepFairness`: rows grow old, and the user opens the profile again and again, which is
  when `cleanup_stale_documents` runs. A sweep whose transaction fails is tried again by the
  next request.
- `FairSpec` of `Conversation`: the event loop runs a handler or a generator that is ready,
  and a call of the model answers or fails.
- `ChatClient`: a stream ends, at the latest when the connection is lost, and so does a request
  for a new chat.
- `Questionnaires`: a save is answered by the server or by its failure, and the view handles the
  answer.
- `DocumentFlow`: requests of the upload and of the verifiers are answered and timers fire; the
  poll runs and its request is answered. Nothing says when a document is processed or that the
  socket reports it.

No action of a user is fair except opening the profile.

## Findings

Each is shown by a run that expects the violation; `PROJECT.json` quotes the lines.

- `timeout`: `cleanup_stale_documents` is documented to fail documents that are processing
  for too long, but writes by primary key what it selected earlier: a document that was answered
  in between becomes `failed` with `PROCESSING_TIMEOUT`.
- `not_owned`: an upload for an application of somebody else is refused after the blob was
  stored, on the path that does not erase it.
- `named_slot`: a slot whose DIS answer has no entry in the reverse table is reviewed as
  `OTHER`, although a test of the worker expects the named slot.
- `chat_endpoints`: the close and delete endpoints answer success and do not commit.

TLC also found limits no line of the repository promises to exclude, which are therefore not
runs. On two instances `OneConversation`, `AnsweredOnce` and `NothingAfterClose` fail (two
first messages each create a conversation; the open card and the trigger's status are read
without a lock). When two replies overlap in one conversation, as in two tabs, and both show a
card, the earlier card never gets a result, because only the latest message with calls is
looked at; `ContextComplete` therefore speaks of conversations in which requests came one at a
time (`overlapped`).

## Proofs

All theorems hold for every value of the constants, under the modules' own assumptions and those
named here. Every invariant, action property and refinement of a passing run has its theorem;
only the liveness properties have none.

| Module | Theorem | Statement |
|---|---|---|
| `DocumentLifecycleProofs` | `TypeCorrect` | `Spec => []TypeOK` |
| | `BlobsAccounted` | `Spec => []BlobAccounted` |
| | `MissingBlobsAreMissing` | `Spec => []MissingBlobIsMissing` |
| | `StatusImplemented` | `Spec => StatusRefinement`, the lifecycle implements `DocumentStatus` |
| | `NotifiedAtMostOnce` | `Spec => []NotifiedOnce` |
| `DocumentOutcomeProofs` | `CorrectionsStay` | `Spec => CorrectionsSurvive` |
| | `ProfilesFromVerified` | `Spec => []ProfileFromVerified` |
| | `AckedAreSettled` | `Spec => AckedIsSettled` |
| `ConversationProofs` | `ConversationTyped` | `Spec => []TypeOK` |
| | `AnswerSavedFirst` | `Spec => []SavedBeforeReply` |
| | `DialoguesComplete` | `Spec => []ContextComplete` |
| | `ConversationUnique` | `Spec => []OneConversation`, assuming one instance |
| | `ClosedStays` | `Spec => NothingAfterClose`, assuming one instance |
| | `CardsAnsweredOnce` | `Spec => []AnsweredOnce`, assuming one instance |
| `ChatClientProofs` | `CardsTruthful` | `Spec => []CardsTellTheTruth` |
| `EligibilityProofs` | `EligibilityTyped` | `Spec => []TypeOK` |
| | `BarNeverFull` | `Spec => []BarKeepsRoom` |
| | `EditsKeepTheBar` | `Spec => EditingKeepsTheBar` |
| | `DraftsAreAnswers` | `Spec => []DraftIsAnswer` |
| | `LeftoversIgnored` | `Spec => []LeftoversDoNotCount` |
| | `NoGap` | `Spec => []NoGapByIncome` |
| | `GrundsicherungExclusive` | `Spec => []OneGrundsicherung` |
| `QuestionnairesProofs` | `QuestionnairesTyped` | `Spec => []TypeOK` |
| | `BackAlwaysRetraces` | `Spec => []BackRetracesNext` |
| | `CacheIsCurrent` | `Spec => []CacheCatchesUp`, assuming `MarkersAreNoSections` |
| | `LatestChoiceStays` | `Spec => []LatestChoiceStoredLast`, assuming `SectionsTenanted` |
| | `DetailsFollowAnswers` | `Spec => []NoOrphanedDetails`, assuming `SectionsWhole` and `SectionsTenanted` |
| | `UntouchedPagesAreCurrent` | `Spec => []UntouchedPagesShowTheProfile`, assuming `SectionsWhole` |
| | `SavingAgainKeepsAnswers` | `Spec => []ResavingKeepsAnswers`, assuming `MarkersAreNoSections`, `SectionsWhole` and `WorkWhole` |
| `DocumentFlowProofs` | `DocumentFlowTyped` | `Spec => []TypeOK` |
| | `CorrectionsStay` | `Spec => []CorrectionsKept` |
| | `DeletedStay` | `Spec => []DeletedStaysAway` |

### What they assume

- Bounds are numbers, and markers (`NoDoc`, `NoCard`, `NoCall`, `NoFetch`, `Asked`) are none of
  the values they stand beside. `MarkersAreNoSections` says so of the sections of a profile;
  TLC's model values satisfy it, and TLC cannot evaluate the formula itself. The documents of an
  account are finitely many.
- One instance of the middleware, where the table says so. It is needed: with two, TLC violates
  the three properties.
- `Options`: amounts are whole numbers from 0 on and dates are dates, as the schema of the check
  enforces. `DaysAssumption`: the clock of the browser is not set back while the check is open;
  only `LeftoversIgnored` needs it.
- `SectionsAssumption`: a section has the fields of its view, and what others write are fields of
  it.
- `SectionsTenanted`: a housing section that a view opens with names a tenant or a holder of the
  right to live there, never both, and its tenancy is not free lodging. The column is an enum of
  main tenant and subtenant (`MW/models.py:281`), and free lodging is sent as its holder alone.
  A document that is verified before the view is opened could write a tenancy beside a stored
  holder; that section is outside the theorem.
- `SectionsWhole`: the sections a view opens with, and what others write, have no detail without
  its answer. `DetailsFollowAnswers` says that the wallet adds none; it repairs none either.
- `WorkWhole`: an income section that the view opens with has work lines other than 0 only when
  its answer is that there is work, or there is no answer yet. A page of the work that was saved
  by half, the answer "no" stored and the second request refused, leaves the other case; when
  the view is opened on it and the page is saved again, the lines are cleared. That section is
  outside the theorem, as the first one a view opens with; within one visit the half-saved page
  counts as not saved.

The instance of the run satisfies the last three.

### The lifecycle

None of these properties is inductive. They rest on

- `Bookkeeping`: whoever holds a document (a thread, a request, a sweep, a message) holds one
  whose row was committed. It is needed because a late writer must not meet a document that an
  upload is about to create, and it is preserved because `Committed` is stable
  (`CommittedStays`).
- `BlobKnowledge`: a delete request past the storage and a sweep past its check are right
  about the file being gone. It needs `Bookkeeping`: only an upload of an uncommitted document
  stores a blob (`BlobFrame`).
- `AbsentRows`: a row that is not there holds nothing, which is what a deletion writes.
- `OneNotifier`: at most one thread is between the update of a row and its notification, nobody
  was notified as long as one is, and nobody was while the row was processing. A thread gets
  there only by the guarded update (`NotifiersSaveAnswers`), which takes the row out of
  processing for good (`NoReturn`). Without the guard, two deliveries notify twice.
- `SeenIsPast`: the snapshot of a verify request is a row of the past; what was decided by then
  has not been undone. It is what keeps `VerifyCommit`, which writes the columns that differ from
  the snapshot, from bringing a status back.
- `NothingExtracted`: a row that waits for its answer holds no correction, so the worker's answer
  replaces none.
- `Decided`: a thread that is about to notify or acknowledge works on a decided document. A
  thread whose write failed and was swallowed is told apart (`unrecorded`): it acknowledges all
  the same.

The argument has three steps. `UploadEdge` and `UploadFrame` say how an upload moves;
`RowWrites` classifies every change of a row into seven kinds, one per writer; each theorem about
rows or blobs is then a case split over these kinds, independent of the actions.
`NotifiedAtMostOnce` and `AckedAreSettled` also follow the threads: `WorkerFrame` leaves only
their steps.

### The chat

`ConversationUnique` and `ClosedStays` rest on `Exclusion`: one request at a time is between its
lookup and its commit, because nothing is awaited there (`LoopFree`); hence a request about to
store a new conversation found none in progress and none has appeared since (`NoneInProgress`),
and what it commits into is open (`CommitsOpen`). The other theorems add, each above the one before:

- `Typed`: the tables, the selection of open calls and the window. It needs what a selection and
  a suffix of a list return (`SequenceFacts`), not what they compute.
- `Names`: a call in a log was asked for by a request in a round it has reached, so a request that
  asks the model again asks under new names, and two calls never share one.
- `Dialogue`: in a log every call is asked for once and every result comes after its call.
- `Answering`: a request that answers open calls found none of them answered, and on one instance
  nobody has answered since; with `Names` no other writer has them. This is `AnsweredOnce`.
- `Whole`: in a conversation in which requests came one at a time, one request is replying
  (`Sole`), it takes each call on once and stores its results before anything else (`Duties`), and
  in the log behind the start of the window every call has its one result in the block behind it, or is
  still waiting at the end and owed by that request (`Turn`). When the request ends or is cut
  off, what has no result stays at the end, where the next one finds it (`Settled`). This gives
  `ContextComplete` on any number of instances.

`ChatClientProofs` carries `IInv`: every stream that answers a card agrees with the middleware
about it (`StreamsGood`), every card on the screen is explained by a stream or by the middleware
(`CardsGood`), one card is answered at a time, and a typed message on its way has closed the
cards.

### Documents in the wallet

`TypeInv` says that timers, requests and views belong together and that no verifier has two calls
on the way. `DocumentFlowTyped` is its first part. On it rest

- `Kept`: whatever would verify a corrected document now has read the correction, but for what was
  on its way when the correction was stored (`raced`). `Grown` says of a step that each call is
  an old one, has read nothing yet, or is the user's own (`Harmless`); then the step keeps `Kept`.
- `Gone`: a deleted document that the list may still show is on its way out of it (`Away`): by a
  request that the server has not read for, by an answer read after the deletion, or by a deletion
  whose answer will ask again. A deletion that fails and rolls the list back is covered by the
  last case.

### The eligibility check

The two recursions of the model, the path and the count of the questions ahead, are recursive
functions over the graph. A rank for each question, which every edge lowers, shows that the functions
exist (`StepsExist`, `CountsExist`), and the path is then a walk (`IsWalk`) over which the rest
argues by position:

- `BarNeverFull`: along an edge the count falls by at least one (`AheadMore`), since an open
  condition counts as its longer branch.
- `EditsKeepTheBar`: two sets of answers that agree on the questions before one have the same
  path up to it and the same count there (`SamePrefix`).
- `EInv`: the store fits the schema (`Shape`), the path of the view is the one of the answers on
  this day or an earlier one (`Remembered`), and a draft without an error is the answer.
- `LeftoversIgnored`: later on the way has only the two ages grown (`SameWayLater`), and the rules
  read nothing of an answer beside the path (`SameRules`). `Remembered` is needed because the view
  remembers its path past midnight.
- `NoGap`: sums over the household that grow with each of their terms (`Sums`), so that the lower
  limit of Wohngeld lies below what the needs of the household are.
- `GrundsicherungExclusive` needs no induction: the two rules are split on the same age and work
  capacity (`RulesExclude`), and `Soften`, which turns an offer into a less certain one, keeps a
  refusal (`SoftenKeepsNo`).

### The questionnaires

- `CacheIsCurrent` carries `CacheKnows`: either a change is pending (a save is applied and not
  answered, or nobody asked for the profile since), or a request is about to read, or the answer
  on its way, or else the copy in the cache, is the section as it is. Every writer makes a change
  pending; an answer of success drops the request on its way for a new one. Without that, an older
  answer would fill the cache last: it is the mutant of `CacheCatchesUp`.
- `BackAlwaysRetraces`: every page leads to a later one (`Place`), so the recursive `Route` exists,
  as the least set closed under Next (`Within`), and its pages satisfy, view by view, the condition
  under which the other switch leads back.
- `QuestionnairesTyped` carries `Shape`: the queue (`ListsOK`), the three copies of the section
  (`DataOK`) and the screen (`ScreenOK`).
- `LatestChoiceStays` speaks of what a field will have once the queue is empty (`EndsWith`): the
  last save that sends it decides, or the section. `HousingFits` says that this is what the screen
  shows (`Shown`), for every page but those that were edited or had a save refused (`IsMissing`);
  those keep the state from being settled. The tenancy, the landlord and the holder of the right to
  live there share a page and are sent in three different ways; `LodgingOK` keeps them together. TLC
  checked `HousingFits` on the instance before the proof.
- `DetailsFollowAnswers` carries `DetailsFit`: the section and its copies are whole, the form is
  one that sends no detail alone (`FitForm`), and every request on its way leaves any whole
  section whole (`KeepsWhole`) — whatever the order in which requests arrive, since nothing but
  the housing form queues them. The housing takes its share from `HousingFits`.
- `UntouchedPagesAreCurrent` is inductive with `Shape` and `DetailsFit`: an edit reaches the inputs
  of its own page only (`OtherInputsStay`), and a profile that arrives either guesses on a page,
  which touches it, or leaves every input at what it says. The second half needs the profile to
  be whole: a nationality that contradicts its citizenship is compared as one value and shown as
  another.
- `SavingAgainKeepsAnswers` carries `AgainInv`, on top of `Shape`, `CacheKnows` and `DetailsFit`.
  The form is compared with `Target`, the section that the save on its way leads to; there is one
  at most, since the property speaks of saves that do not overlap (`OneSave`). Every page shows
  the target but for those that are `Missing`, edited since or refused. Three facts keep it so:
  whatever changes the target does so on missing pages (`Drifts`), a saved page is what it has sent,
  and a filled form shows its profile. In the two views that compare, an input shows the target
  or else the profile loaded last (`Agrees`), and these are the same one in the end, because the
  cache catches up (`CacheIsCurrent`). Pages of several inputs agree until somebody else writes
  (`alone`). The page of the work is saved by two requests, and `WorkKnown` says that the
  target has work lines only with the answer that there is work, unless that page is missing. TLC checked `AgainInv` on the instance before
  the proof.

### What only TLC checks

- The liveness properties (`DocumentsSettle`, `MessagesEnd`, `StreamsEnd`, `LoadingEnds`,
  `EverySaveIsAnswered`, `UploadEnds`, `ProcessingIsNoticed`) need fairness and ENABLED and are out
  of the prover's reach.

Induction over data is used where numbers carry it: a rank, a page, a position in a list. The
least of a set of numbers exists (`SequenceFacts`), and the argument runs on the first place at which a
statement fails. The induction theorems of the library that
take an operator cannot be used.

## Limits of the wallet

No line of the repository promises to exclude these, so none is a run. They are the cases the
properties name as exceptions. Most were found by the proof of `SavingAgainKeepsAnswers`: the sections
of the run are too poor to show that its property is not true of every page, and TLC shows it
with richer ones. The property now says where a default or a guess stands on the screen (`Guessed`),
what a page computes (`Computed`) and which pages it speaks of (`AgreeingPages`).

- Household: a count that the form shows as its default of one is not replaced by the count
  another device stores, because the comparison is of the new profile with the old one and with
  what is on the screen; saving the page again stores one. The status of a displaced person stays
  in the form behind the answer "no" (`Keeps`): a different one written elsewhere is not taken over, and
  after "none" was loaded the select can stay blank. Even alone, when the answer to a save is
  lost and the profile is read between two others, the page can end up with the earlier of two
  statuses, so it is none of the `AgreeingPages`. An insurance or a date of marriage that is
  hidden behind another answer is kept in the same way, which is why their pages agree only
  until somebody else writes.
- "About me": a citizenship guessed from a birth in Berlin stays when another is stored elsewhere.
  The page of the last fixed address stores that there is no address and leaves the place of one
  that was stored meanwhile: a profile read before the address was saved brings the page back, so
  the two pages of the address are none of the `AgreeingPages`. When a profile is merged into a form
  that was edited, the citizenship and the nationality can come from different sides.
- Income: somebody who works and has filled in rows of 0 comes back as employed without an amount
  (`WorksForNothing`), and saving the page again clears the rows. A page of the work that is saved
  by half, with the answer that there is none, keeps its rows until it is saved again.
- Housing: a choice of the tenancy that is refused stays on the screen; a landlord that is left
  after it is stored beside the holder of the right to live there, until the page is saved.
- Documents: several verifications of the upload screen can be on their way at once, when the
  screen is left and opened again; each reads what is stored when it starts.

## Not modelled

`PROJECT.json` lists every component with its reason. In the modelled ones, what is abstracted
away:

- lifecycle: values of documents and of the user's record (one bit and a set of contributors),
  the `internal_error_log` column, the error column of rows a sweep rewrites with the value they
  already have, listing and streaming of files;
- chat: what cards save in the profile and what server tools read there, clocks;
- wallet: wording, toasts, previews, mock mode, several files in one upload, the tutorial;
  `useDocumentProcessingSocket` is mounted by the application and by the overview, and the model
  has one socket, since a second message only reads the list once more.

Left out as components:

- the socket registry of the middleware (a list that changes while a broadcast awaits): its
  outcome, a lost notification, is part of `DocumentLifecycle` and `DocumentFlow`;
- account deletion, whose races with uploads are listed as hazards: the lifecycle has no account
  whose deletion would cascade;
- applications (get or create without a unique key), the money grids, form completeness and its
  cache, form export, reminders and demo seeding: single transactions or jobs of best effort;
- the rules engine, the document intelligence and the forms filling service: stateless;
- authentication and migrations: the state and its order live in the identity provider and in
  the database.

## What is left

In the order of what each would add:

1. `AccountErasure`, composed with the upload half of the lifecycle: an account row whose
   deletion cascades while uploads and verifications are on their way.
2. `NotifyRegistry`: the sockets of a user and a broadcast that awaits, below the notification
   of the lifecycle.
3. `ChatClient` with `Conversation` in place of its abstract middleware: the two agree on cards
   by construction of the abstraction, and a refinement would state it.
4. `DecisionTree` of the rules engine as a recursive function over rule files, against the pages
   the questionnaires open first.
