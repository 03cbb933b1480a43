# VidLens: a verification project

TLA+ models of VidLens (`internal/` and what its pages rely on), the TLC
instances that check them, and theorems about them that TLAPS proves.  Paths
below are relative to the repository.

## 1. The system

VidLens turns a video into an illustrated article and answers questions about
it.  One Go binary serves HTTP, runs workers on an Asynq broker (Redis) and
keeps all durable state in PostgreSQL.

| part | state | operations | correct when |
|---|---|---|---|
| **Runs** `store/execution.go`, `jobs/worker.go` | `job_runs`, `job_attempts`, `task_outbox`, Asynq tasks | `newRun`, `Outbox`, `Claim`, `Heartbeat`, `Checkpoint`, `Step`, `Fail`, `Suspend`, `WaitForRestore`, `finishRun`, `Repair`, `wakeDependency` | one execution at a time writes; ends are final and every run reaches one; attempts, failures and capacity add up |
| **Requests, publication** `store/requests.go`, `artifacts.go`, `source_reuse.go`, `admission.go` | `generation_requests`, `idempotency`, `articles`, receipts | `CreateRequest`, `CancelRequest`, `FinishSource`/`bindPrepared`, `Publish` | a request ends as its run does; work is shared but never stopped for somebody else; the backlog bound holds over the fan-out of a shared source |
| **Conversations** `store/requests.go`, `conversations.go`, `frontend/src/app/useVisitorConversation.ts` | `qa_conversations`, `qa_turns`, `idempotency`; pending writes of each tab | `EnsureConversation`, `CreateTurn`, `CancelTurn`, `CompleteAnswer`; `send`, `retryTurn` of a page | one active turn; a question is asked once whatever is lost and repeated |
| **Submission limits** `ratelimit/submission.go`, `config/submission.go` | token buckets in Redis | `Check` | no dimension exceeds its rate; the hint of a refusal is true |
| **Article loop** `investigator/`, `domain/`, `store/article_loop.go` | checkpoint, draft, receipts, turns, candidate | reserve a call, generate, save sections, view, finish, publish | a crash between any two writes loses nothing and repeats nothing; an article is published only when every part of the source is marked as delivered, and the marks are true but for what section 4 says; the loop ends |
| **Operation ledger** `store/artifacts.go`, `drafts.go`, `immutable_operation.go`, `model_execution.go` | `run_operations`, frozen inputs | begin, submit, observe, complete, replay | a takeover asks what was asked, replays what was answered, and counts all it sends |
| **Catalog and routing** `store/models.go`, `model_routes.go`, `model_recovery.go`, `investigator/model_call.go` | models, suppliers, verifications, recoveries | choose a route, schedule a recovery, edit | a call goes only where it may; recoveries are few |
| **One-shot tasks** `store/probes.go`, `article_advice.go`, `article_questions.go`, `article_review_admission.go` | `model_probes`, `article_reviews`, `article_questions` | queue, claim, submit, finish, expire | a paid submission is never repeated; what the row reports is true; every row ends |
| **Transcription** `media/asr.go` | workers, channels, operations of windows | feed, cut, send, join | the text is in source order; the call returns |
| **Assets** `store/artifacts.go`, `cleanup.go`, `storage_management.go`, `media/` | `media_assets`, `asset_refs`, files | `AddAsset`, `Pin`, `CleanupAssets`, `Deleted`, `MarkVideoDeleting`, orphan sweep | nothing referenced is deleted; every file is known or swept |
| **Resource lanes** `resource/manager.go`, `store/resources.go`, `resource_wait.go` | Redis keys, `resource_leases`, wait records | `Acquire`, renew, release, `RecordResourceWait` | no two calls on one slot |
| **Exports** `store/exports.go`, `exporting/service.go` | `article_exports`, download leases, files | `CreateExport`, `ClaimExport`, `FinishExport`, `ExportDownload`, cleanup | one at a time; at most two attempts; no file is lost or leaked |
| **Storage ledger** `store/storage_management.go`, `capacity.go` | settings, reservations | reserve, admit | quotas hold under every order of admissions |
| **Announcements, shares, examples, HTTP, event stream, frontend** | editorial rows, views, sockets | CRUD under revision checks, projections | see section 7 |

How the parts interact.  Every state change of the control plane is a short
transaction under one advisory lock (`Store.Tx`, `store/store.go:57-73`), so the
transactions themselves are serial.  Concurrency lives between them: the
dispatcher (each second) moves outbox rows to the broker, the broker delivers
tasks to slots at least once, a slot claims, works for minutes, saves the
outcome and acknowledges, while its heartbeat (each 10 s) renews a 60 s lease;
the reconciler (each 30 s) compares every live run with the broker; visitors
create, join and cancel at any time.  A question whose video is gone waits for a
restore run.  The work of an article run is the article loop, whose every model
call goes through the ledger, over a route of the catalog and a slot of a
resource lane; transcription, frames and captures make files that become assets.
Exports, checks of models, reviews and suggested questions are tasks of their own
with rows, claims and deadlines of their own, fed by the same dispatcher; a
janitor (each five minutes) removes what expired.  What is hard: an execution
that outlives its lease beside the one that replaced it (both of one process,
hence with the same owner name), crashes between any two of these steps, commits
whose answers are lost, lost and duplicated tasks, a reconciler or a janitor that
acts on a stale view, cancellation racing completion, deadlines, and paid calls
whose outcome nobody knows.

## 2. The modules

| module | what it is |
|---|---|
| `RunLifecycle` | the run: control transactions, dispatcher, handler, broker, reconciler, time, faults |
| `RunPromise` | what all of that amounts to for an outside reader: the abstract specification |
| `RequestSharing` | requests and the runs they share: joining, binding to articles, restores, publication, cancellation, backlog; runs reduced to live, being stopped, over |
| `SharedWork` | work that several askers share and the last one stops, at once or after it has announced it: the abstract specification of both the layers above and below |
| `Conversation` | the turns of a conversation, two tabs, each with its own page and storage, repeated and late submissions |
| `SubmissionLimiter` | the token buckets of session, address and all |
| `Exports` | export rows, the files of their executions, downloads with leases, clean-up, sweep |
| `AssetStore` | how a run's file becomes an asset, what pins it, removal by list and by sweep |
| `ResourceLanes` | a slot held by a key of Redis and a lease of PostgreSQL |
| `Transcription` | the feeder, two workers and collector of one transcription, over the ledger |
| `PaidTasks` | checks of models, reviews, suggested questions: one paid execution each |
| `ModelCalls` | the calls of one run: frozen input, counted sends over routes, replayed result |
| `ArticleLoop` | the author's loop: slots, turns, draft, captures, candidate, publication |
| `RunLifecycleProofs` | types, one writer, refinement of `RunPromise` and of `SharedWork`; attempts, failures, cancellation, dependencies, capacity, deliveries |
| `RequestSharingProofs` | types, nobody stranded, everybody answered as asked, nobody refused late; refinement of `SharedWork`; the safety property of `ServiceEnds` |
| `Admission`, `MediaWork`, `ModelWork`, `ServiceEnds` | compositions: the work of visitors, on files and slots, for models, and what must come to an end, for all constants |
| `ConversationProofs` | one thread, one turn per question, one answer per key; what the buckets of `SubmissionLimiter` let through; the properties of `Admission` |
| `ExportsProofs` | one publisher, limits, ready copies spared |
| `MediaWorkProofs` | pinned assets of `AssetStore`, slots of `ResourceLanes`, text of `Transcription`; the properties of `MediaWork` |
| `PaidTasksProofs`, `ModelCallsProofs` | nothing paid is repeated; calls agree, keep to the ceiling and to the bounds of their types |
| `ArticleLoopProofs` | what is published was in answered calls, turns kept, captures made once; the properties of `ModelWork` |
| `MCRunLifecycle`, `MCRequestSharing`, `MCExports` | small instances of one module for TLC |
| `MCAdmission`, `MCMediaWork`, `MCModelWork`, `MCServiceEnds` | small instances of the compositions |
| `MCRunCases` | several small instances of `RunLifecycle` in one state space, for liveness |

In each module the definitions marked `mutant` stand before the definition of
the code they spoil; nothing uses them, they show that a property can fail.

The modules look at one system from several sides and meet in few places.
What `RunLifecycle` calls `wanted` (and reads in `Needed`) is the rows and
questions of `RequestSharing`, each end of a run in which is one fenced commit
or one `Terminate` of `RunLifecycle`; that there is one and that it is final is
`KeepsPromise`, and that there always is one is `EveryRunSettles`, the fairness
of `RequestSharing`.  `ModelCalls`, `ArticleLoop`, `AssetStore` and
`Transcription` are the work between `ClaimGranted` and the saved outcome; their
`Fence` (status, epoch and, where it matters, deadline) is the one of
`RunLifecycle`, which shows in `SoleWriter` that at most one execution passes it.
An answer that `ArticleLoop` takes from its slot is the one result of
`ModelCalls` (`OneInputOneResult`); a submission that `ModelCalls` counts leaves
while a slot of `ResourceLanes` is held.

### `RunLifecycle` and the code

State.  `status`, `generation`, `epoch`, `failures`, `owner`, `lease`,
`dependency`, `restoreUsed`, `overdue`, `checkpoint` are columns of `job_runs`;
`attempts` is `job_attempts` by execution epoch; `outbox` is `task_outbox` by
dispatch generation (`sending` and `sent` are the dispatcher between its claim
of the row, `EnqueueContext` and `OutboxResult`).  `wanted[r]` stands for "some
request is bound to r, or its question is still open", the only thing
`cancelUnused` asks of the request tables.  `checkpoint` and `result` hold the
epoch of the execution that wrote last, so that who wrote can be told.
`handler[w]` is the program counter of a slot in `Worker.handle`: `delivered`
(before `Claim`), `reading` (the second read of a run not claimed), `working`,
`failing` (saving an error), `acking`.  `broker` is the Asynq task with the
deterministic identity `vl:run:generation`.  `probe[r]` is what `reconcile` saw
before it calls `Repair`.

Actions.  One per way a transaction can end: `Claim` is `ClaimSkip`,
`ClaimCanceled`, `ClaimTooLate`, `ClaimDeferred`, `ClaimGranted` or
`ClaimExhausted`; `Repair` is seven actions; `Fail`, `Suspend` and
`WaitForRestore` likewise.  `Terminate` includes `cancelUnused` of the
dependency, as `terminateCharged` does.

Time.  Leases and deadlines are Booleans that time flips.  Comparisons with a
queue limit, the stall limit, `retry_not_before` or the active budget are free
choices of the transaction that makes them: whatever the clock says, some
behaviour of the model does the same.  A live execution's lease runs out only
as the fault `stall`.

Faults.  `crash`, `stall`, `shutdown`, `redis` (an enqueue refused, an
inspection unanswered, a task lost), `database`, `ack_lost` (a commit whose
answer is lost), `exhausted` (the broker archives the task), at most
`FaultBudget` in one behaviour.

### `RequestSharing` and the code

State.  `request[q]` is a row of `generation_requests`: `active`, `snapshot` and
`article` are `active_run_id`, `snapshot_id` and `article_id` (an article is
named by its run).  `job[r]` is a row of `job_runs` without questions, with the
status folded to live, being stopped (`cancel_requested`) and the three ends;
`spec` stands for what `articleWorkKey` hashes.  `FreshArticleID` is named by the
request that introduced it, so that a retry keeps it and no other request has it.
`awaited[r]`: some question with status `waiting_dependency` depends on r;
`leaving[r]`: some question that does was asked to cancel and is not settled yet.
`videoReady` and `imagesReady` say whether the files are in place.

Actions.  Each operation is one transaction under the advisory lock and one step.
`CreateRequest` and `RetryRequest` are the four ways `CreateRequestWithInput` can
find its source: under way (`JoinSource`), prepared (`BindAtOnce`, with
`bindPrepared` in the same transaction), retained without its video
(`StartRestore`), or not at all (`StartPrepare`).  `FinishSource` ends the source run
and binds all who wait for it; `FinishRefused` is the same transaction rolled back
by an error of `bindPrepared`, and the failure that `classify` makes of it.
`QuestionCanceled` only marks the question, as `CancelTurn` does
(`requests.go:490-511`); whether anybody still needs what it waited for is looked at
when the question is settled, in `QuestionLeaves`.

Abstractions.  A source is a video together with its preparation key.  Where the
code takes the latest of several articles or retained snapshots, the model takes
any.  Requests may be retried after any failure.  Idempotency keys (`Conversation` has them), rate limits,
draft reuse, receipts and the `reuse` label change none of the modelled rows.
Requests that are refused without a change are not steps.

### `Conversation` and the code

State.  `turns` and `conv` are `qa_turns` and the two pointers of
`qa_conversations`; `rows` is `idempotency` for the keys of this conversation;
`kept[t]` is the pending write of each slot in the storage of tab t (`api/writes.ts`
over the `sessionStorage` of `useVisitor.ts:43-51`, or a map in memory where the
browser refuses it), `tab[t]` the conversation and the turns its page has in
its state together with the submission it waits for; `posts` are requests that no
handler has seen.  A page that was left or reloaded hears nothing, and what its tab
kept stays.

Actions.  `Send` and `Retry` are `send` and `retryTurn` up to the request: the key
is used again if the kept write has the same body and its window is open.
`Handle` is one transaction of `CreateTurn` with the read that follows it; its
answer may be lost, may be an error though the turn was made, or may come late.
`Hear` is what the page does with the answer, with the exact rules by which a
pending write is dropped.  `End` is each of the ways a run ends, `Cleanup` deletes
keys after thirty days.

Abstractions.  Limits and invalid questions are a free refusal.  A pending write
that is lost with a page, as the map in memory is, acts as one whose window has
ended: the next submission takes a new key.  A tab that starts as a copy of another,
with a copy of its storage, is not modelled.  A visitor does
not ask again what the list shows as asked.  A conversation whose turns could not
be read after it was (`loadConversation` keeps the first and fails) lists less
than it names as last; such a page can ask a question twice, and `SentOnce` says
so by leaving it out (`whole`).

### `SubmissionLimiter` and the code

`Take` is the script `takeTokens` with `Check` around it: tokens of every bucket
are compared before any is taken, `updated` never goes back, the key lives as long
as an empty bucket takes to fill.  Ticks are the milliseconds of the script; a
bucket holds `Burst * Every` of them, so that no fraction is lost.  The clock may
be set back once; an expired key reads as absent and disappears at some moment.

### `Exports` and the code

State.  `row[e]` is a row of `article_exports`; its time stamps are the time left
until they are reached, so that one `Tick` moves them all.  `key` is
`storage_key`, which names the epoch that wrote the file; `file` is the directory
`exports/`, with the time until a file is old enough for the sweep; `pin` the
references to the images; `exec[<<e, k>>]` the execution of one epoch in
`exporting.Service.Run`: `writing`, `placed` (renamed, not committed), `unsaved`
(`FinishExport` returned an error).  `dl[d]` is a connection with its lease,
`doomed` and `unprotected` are the lists with which the clean-up and the sweep
left their transactions.

Actions.  `CreateExport`, `PendingExports`, `ClaimExport`, `FinishExport` (ready,
failed, refused by its fence, or committed with its answer lost),
`ExportDownload` (two steps, because the statements of the clean-up run without
the lock), `OpenExport`, `ExpiredExportFiles`, `ExportDeleted`,
`ExportFileProtected`, and crashes of the worker and the server.  A claim may be
tried whenever the row allows it: the broker may deliver a task any number of
times, and none is owed.

### `AssetStore` and the code

State.  `asset` and `refs` are `media_assets` and `asset_refs`; `file` says where
the bytes are (`work` before the rename, `assets` after it, `gone`); `old` are the
files that were not written for two hours; `janitor` holds the deletion lease
with the list of `CleanupAssets` or `MarkVideoDeleting` (`todo`), what is unlinked
already (`done`) and the keys that `KnownStorageKeys` read (`known`).

Actions.  A run writes, moves and registers a file, pins it, publishes, ends or
passes its deadline; the janitor marks, unlinks and confirms in three steps that
may each fail, then lists the known keys and sweeps; the owner of the service
deletes a video; the janitor dies anywhere.  The two-hour grace enters as the
assumption that no file of a run before its deadline is `old` (the default
deadline is two hours; a longer one is listed as a hazard no property covers).
Left out: `MarkMissing`, the sweep's limit of 100 files per pass, audio, which is
never removed on its own.

### `ResourceLanes` and the code

`TakeKey`, `TakeLease`, `DropKey`, `Renew`, `Stop`, `Release`, `Unkey` are the
statements of `Manager.Acquire` and of the renewal loop it starts; `lease` is
`resource_leases` as `AcquireResource`, `RenewResource` and `ReleaseResource`
see it; the key and the lease run out separately.  `RedisLost` forgets a key,
`SaveExecutionSettings` changes the limit while slots are held, a renewal may be
late by any time.  The fence of the run, which can refuse a lease, is one of the
errors of `DropKey`.  The wait record, its credit and the memory wait change no
slot and are left out.

### `Transcription` and the code

`Start` begins `Service.Transcribe`; `Feed` is the send over the unbuffered
channel, `Cut`, `Begin`, `Answer`, `Unanswered`, `Refused`, `Deliver` the body of
a worker, `Collect` the loop that joins results, `Cancelled` the context,
`Return` the end.  `op` is the ledger, which survives a `Crash`.  Errors are not
told apart by kind: a call that failed is tried again by another execution or
ends the run.

### `PaidTasks` and the code

One row per task with its deadline and, for a check, the minute of silence after
which `expireProbes` gives it up; the task of the broker, whose identity is the
row's and which the broker refuses a second time for a day; the execution in the
worker; and what physically left.  `Create`, `QueueUnasked` (publication queues a
review and questions), `Pending` (the dispatcher), `Claim`, `Touch`,
`BeginSubmission`, `Finish` are the store's transactions for the three kinds,
which differ in `SendLimit`, `Busy`, `Expired` and `Ending` only.  The row of a
review or a question is finished even past its deadline, as in the code.

### `ModelCalls` and the code

`frozen` is the stored input of a call, `op` its row of `run_operations`: the
arguments it was begun with, submissions, result, the observation of a complete
but useless answer (`known`), and its recovery.  An execution walks through
`LookAtInput`, `FreezeInput` (`investigator/model_input.go`), `BeginCall`,
`AskOutcome`, `BeginSubmission` per route, `Send`, `Answer`, `SaveResult`; the
old execution goes on after a `Claim`.  `Inputs` is what the execution might ask,
which depends on what is readable when it asks.  The order of routes is any; a
retry on the same route inside one call is left out; the two statements that
insert and finish the operation of a frozen input are one step.

### `ArticleLoop` and the code

`cp` is the checkpoint, `frozen` and `answer` the ledger by slot, `called` what the
loop believed a slot to hold when it reserved it (a history variable), `draft` the
latest `article_drafts` row, `saved` the receipt of a slot's write, `visual` the
receipts of captures, `turn` the finished turns, `exec` the execution with its
own copy of the checkpoint.  The actions follow `runArticleLoop`: `Prepare`
(`prepareLoopCall`, `freezeModelInput`), `Reserve`, `RecoverTurn`, `Generate`,
`GenerateFails` (`recoverLoopFailure`), `SaveDraft`, `Complete`, `ApplyOther`,
the captures with their receipts, `FinishTurn`, `Persist`, `Publish`; `Leave` is
an execution that ends between any two of them.  The module is about the author's
mode of the current, delivery-first contracts.

What a call is given.  `Selected` are the parts the loop wants, by what the checkpoint
and the draft say; which of them fit (`prepareLoopCall`,
`article_loop_input.go:334-412`) is a free choice in `Deliverable`: all of them, or a
first part as the repeated halving leaves it.  Checkpoint and draft do not determine
it, for the same payload holds the records of captures, which are in memory until the
checkpoint is saved, the index of frames and an allowance that shrinks with time.
`Pixels` are the wanted frames, of which any may be unreadable at the moment; all are
dropped before the parts are narrowed.  Two executions that prepare the same slot may
therefore come to different inputs.  The first is frozen and sent; `Reserve` records
the second in `called`, as the loop does.

Abstractions.  A transcript is a set of parts and
a section cites one part or frame; a stale version or a contract error of a tool
is the answer `state`; the limits on views are a capture that may be refused.
Deadline and cancellation are the business of `RunLifecycle`.

## 3. The runs

| run | instance | properties |
|---|---|---|
| `takeover` | an article run, two slots of one process, three epochs, two faults of five kinds, cancellation, deadline | `TypeOK`, `AttemptsMatchStatus`, `FailuresAccounted`, `SoleWriter`, `DeliveredIsEnqueued`, `KeepsPromise` |
| `dependency` | a question and a restore, both cancellable and joinable | `CancelMeansUnneeded`, `SharesWork` |
| `admission` | three cases: two source runs, two slots, one stall; two tabs, two questions, three submissions, two turns, one deleted key; two sessions of one address, five ticks, one clock set back | `CapacityRespected`, `SentOnce`, `ThreadInStep`, `RatesKept`, `SameKeySameTurn` |
| `cancel_capacity` | one run, one slot, no fault; **violated** | `CancelingKeepsCapacity` |
| `run_ends` | three cases: only the reconciler and the deadline are fair; no deadline, the whole system is fair, one fault of six kinds; a question waiting for a restore | `EveryRunSettles`, `RestoreWaitEnds` |
| `sharing` | three requests, two videos (one local), five runs, a backlog of two, at most five runs and questions together | `ServedWhileOpen`, `AnsweredAsAsked`, `StopsWithItsLastUser`, `NoLateRefusal` |
| `sharing_stop` | two requests, three runs; **violated** | `StopHarmsNobodyElse` |
| `service_ends` | five cases: two requests; an export with two connections; the check of a model; a frame and a video; three windows | `EveryRequestEnds`, `CleanupSparesReady`, `EveryExportEnds`, `EveryFileGoes`, `EveryTaskEnds`, `EveryAssetGoes`, `TranscribeReturns` |
| `exports_answer` | one export; **violated** | `CommittedCopyKept` |
| `media_work` | five cases: two exports with retries and lost answers; two exports for one place; a frame and a video of two runs with two faults; three windows and two executions; three holders, two slots | `OnePinnedPublisher`, `LimitsRespected`, `PinnedIsOnDisk`, `TranscriptInOrder`, `LaneExclusive` |
| `model_work` | six cases: a check; two reviews; two questions tasks; two calls under a ceiling; one call over two suppliers; the loop with one crash | `PaidWorkSound`, `NeverRepeatsUnknown`, `SpendBounded`, `OneInputOneResult`, `KnownOutcomeFinal`, `PublishedWhole`, `FinishedTurnsKept`, `CapturesOnce`, `LoopEnds` |
| `loop_delivery` | the loop with one crash; **violated** | `DeliveryBinds` |

A run of several cases chooses one in its initial state; the components that are
not of the case rest, so that each case is an instance of its own and its
property is as strong as in a run of its own.  The compositions `Admission`,
`MediaWork`, `ModelWork` and `ServiceEnds` are modules with constants and assumptions of their
own, which the MC modules only give values, so that section 5 can be about the
very properties these runs check.

Runs.  `AttemptsMatchStatus` and `FailuresAccounted` relate the rows that six
transactions write independently.  `SoleWriter` is the purpose of epoch, owner
and lease taken together: two executions of one process are the instance in
which the owner tells nothing.  `KeepsPromise` is refinement: nothing a stale
execution, a redelivery, a takeover or a late reconciler does shows outside.
`CancelMeansUnneeded` says that a run is canceled only if nobody needs it;
`SharesWork` is refinement of the specification that requests implement too: a run
that waits for a restore is one of its askers, and lets go of it when it is settled,
not when it is canceled.  `EveryRunSettles` is checked in two cases because two
mechanisms should each be enough on their own: the deadline with a bare
reconciler, and delivery with recovery without any deadline.

Requests.  `ServedWhileOpen` would be broken by any order of joining, binding,
stopping and ending that leaves a request behind; nothing times a request out on
its own, so it would wait for ever.  `AnsweredAsAsked` follows a request from the
specification it was accepted with to the article it gets, over the reuse of
articles, joined runs, restores and retries.  `StopsWithItsLastUser` is
refinement: requests and questions are the askers of one piece of work, and it
stops with the last of them, neither before nor after.  `NoLateRefusal` compares
the count `admission.go` makes when a request arrives with what finishing the
source needs later.

Visitors.  `SentOnce` holds over answers that were lost, keys that a refusal dropped or
that a tab does not have because another one asked, keys that ran out and requests that arrive after their page has
given them up: what stops the second turn is sometimes the key and sometimes the
last turn it names.  `SameKeySameTurn` is the promise of a key alone.
`ThreadInStep` relates the pointers of a conversation to its turns over every
interleaving of submissions and ends.  `RatesKept` bounds what a bucket gives by
its burst and the time that passed, and says that waiting as told is enough, and
not too long.  It also states the types of the two modules; `LimitsRespected` and
`PaidWorkSound` state those of the modules of their runs.

Exports and files.  `OnePinnedPublisher`: leases run out under an execution, and
still two that may publish never exist side by side, nor one without its images.
`LimitsRespected` is about rows that expiry and clean-up change behind the count.
`CleanupSparesReady` is about lists and leases read in one step and used in the
next.  `EveryFileGoes` and `EveryAssetGoes` say that no order
of crashes leaves a file that neither a row nor the sweep will ever remove.
`PinnedIsOnDisk` is their opposite: none of these removals takes what is used.

Slots and text.  `LaneExclusive`: two calls whose renewal loops are on time never
share a slot, whatever Redis forgets.  `TranscriptInOrder` and `TranscribeReturns`
are about goroutines: results out of order, a worker that ends early, a feeder
nobody listens to.

Paid work.  `NeverRepeatsUnknown` and `PaidWorkSound` (`ReportsAreTrue` of the
three kinds of task, and `SpendBounded` of the routed call) say what a redelivery, a
crash or an expiry may not do to a paid call whose outcome is unknown.
`SpendBounded` holds over executions of two epochs, several suppliers and
recoveries that all draw on one ceiling.  `OneInputOneResult` is the agreement of
executions that do not know of each other; `KnownOutcomeFinal` says that a
takeover does not pay for what it should know.  `PublishedWhole` says that the
published article is the latest draft and rests on calls that were answered, and that
a call is the input that was sent for its slot but for one slot per interrupted
execution: what section 4 says is the only way apart.  `PublishedWhole`,
`FinishedTurnsKept` and `CapturesOnce` hold with a crash between any two writes of
the loop; `LoopEnds` rests on counting every call before it is made.

### Bounds and why they are enough

Runs: two slots suffice for every hazard of two executions (a third would be one
more stale one, and each stale one is alike).  Three epochs let a takeover follow
a takeover.  Two generations let a task be redispatched once; the redispatch of a
redispatch repeats the same state.  The generation bound is respected by
`RepairLimit`, which also keeps Redis from losing a task that could not be
dispatched again within it.  `RestoreOnce` keeps the restore of `dependency` at
its first delivery, because the run is about who needs it.  The fault budgets are
two where two faults can combine (a stall and a crash), one where each fault is a
case of its own.

Requests: two share a run and a third joins, retries or asks afresh; five runs
are a preparation, a restore and three articles or their repetitions.  A backlog
of two is the smallest that a shared source can overrun; a local video is never
restored, and the second one competes for places.  In the safety runs `InOrder`
fixes the order in which run identities are used, which are random in the code,
and `Together` bounds the runs and the questions that wait, or did, by five: a
question only adds to the demand for a run.  The liveness case has no
constraint.

Visitors: two tabs are enough for one to ask what the other is asking; three
submissions are two of one tab around one of the other; two turns are a question
and one that may repeat or follow it.  The limiter's dimensions have different
bursts and rates, five ticks fill the largest bucket again.

Exports: two exports compete, one has two attempts (the code's bound); durations
are one to four ticks in the code's order (lease < deadline < pin; a copy is kept
longer than a preparation lasts).  `EveryFileGoes` has one export because files of
different exports share nothing but the clock.  Assets: one of each kind, two runs
so that one may pin what the other made; two faults let a removal fail twice or
fail and die.  Lanes: three holders for two slots, `TTL` two, so that a key can be
gone before the lease and the reverse.  Transcription: three windows for two
workers are the fewest that can arrive out of order with one pending; two
executions.

Paid tasks: one check, or two tasks of a kind that compete; the send limits are
the code's.  Calls: two calls under a ceiling of three, so that the second meets
the ceiling in the middle of its sends; two suppliers with three executions, so
that a route changes under an execution that was replaced twice.  Loop: two parts
of which both or one fits an input, so that coverage takes one call or two, and one crash; two
crashes repeat the same checkpoint.  `MaxLeaves`, `MaxEpoch`, `MaxRuns`,
`MaxFaults`, `FaultBudget`, `MaxGeneration` bound the exploration only.  A third
slot of the loop passes fourteen million states and is out of reach.

### Fairness

`RunLifecycle`: `ReconcileFairness`, the reconciler is a ticker over every live
run (`worker.go:174-198`, `416-441`), and time passes; `DeliveryFairness`, the
dispatcher is a ticker, the broker delivers and recovers the tasks of dead
workers, each step of a handler ends, the work at the latest with its context
deadline (`worker.go:299-301`), a lease nobody renews runs out.  Strong fairness
is assumed of `Take` (slots are shared), and of the claim and of `RepairMissing`
because their retry times, being free choices, could otherwise be "not yet" for
ever.  `RequestSharing` assumes that each live run ends, in one way or another:
`EveryRunSettles`.

`Exports`: the clock, the dispatcher's and the janitor's tickers, and the calls of
a process that lives; no delivery of a task is assumed, so that `EveryExportEnds`
rests on the deadline alone.  `PaidTasks`: the dispatcher and the clock, nothing
else.  `AssetStore`: the janitor is a task of every five minutes and the clock
runs; strong fairness of `GrowsOld`, which time does between two sweeps.
`Transcription`: goroutines are scheduled and every wait for a remote side has a
timeout.  `ArticleLoop`: an execution that has not ended goes on, and a run
without an execution is claimed again (`EveryRunSettles` shows that one of both
happens or the run is over).

## 4. Disagreements between code and documents

### Capacity of canceling executions

`execution_settings.go:61-62` says that "canceling executions retain [capacity]
until stopped".  `Repair` (`execution.go:392-394`) settles a `cancel_requested`
run whether or not its lease is live, which clears the lease; the execution
notices only at its next heartbeat or write.  Until then one more execution than
`max_video_running` admits may be at work.  Run `cancel_capacity` shows it.
`CapacityRespected`, about leases, is not affected.

### Stopping one request fails another

`docs/site/start.md:35` says that stopping releases the demand of this request and
that shared source preparation other visitors need is not canceled with it;
`docs/backend/frontend-integration.md:69` says that another visitor's shared work
can continue.  When the stopped request was the last one of an article run, the run
is `cancel_requested` until its execution or the reconciler settles it.  If a shared
source finishes in that time for another visitor with the same specification,
`bindPrepared` returns "matching generation is stopping" (`artifacts.go:216-217`),
`FinishSource` is rolled back, and `classify` (`worker.go:414`) makes a permanent
failure of it: the source run fails, and so do all requests that wait for it.  Run
`sharing_stop` shows it.  The window is the time a canceled run takes to settle, at
most a reconciliation.  `CreateRequest` meets the same error in `BindAtOnce`; there
the request is refused and nothing changes.

### A committed export without its file

`exports.go:298` says that "a committed file remains protected until the normal
download-aware cleanup".  `Service.Run` removes the copy it placed whenever
`FinishExport` returns an error (`exporting/service.go:247`), also when the
transaction committed and only its answer was lost: the call has three seconds.
The row then offers a copy for 24 hours that is not on disk; the first download
makes it `unavailable`.  Run `exports_answer` shows it.  The clean-up and the sweep
keep to the comment: `CleanupSparesReady`.

### An article about what was not sent

`article_delivery.go:12` says that delivery binds the candidate "to its frozen sources
and the actual pixels delivered to the author".  `freezeModelInput` keeps an input
that an earlier execution froze and returns it, but the loop discards the result
(`article_loop.go:229`) and goes on with the call that `prepareLoopCall` computed anew.
Two executions can compute different calls for one slot.  An image that could not be
read before may be readable now; and an execution that had just made a capture carries
its records in the payload, so that its parts were halved
(`article_loop_input.go:409-411`), while the one after it finds the frames in place, has
no records and fits more.  When the first froze its input and ended before it reserved
the slot, the model gets the narrow input of the first, and `runArticleLoop`
(`article_loop.go:279-283`) marks the parts and images of the second as read and seen.
The coverage check then passes over parts that were never sent, and a section may cite
a frame that was not.  Run `loop_delivery` shows both in one behaviour: `DeliveryBinds`
asks that one of the two hold, and neither does.  What remains true is `PublishedWhole`.

## 5. What is proved

Every safety property of the passing runs, type invariants with their bounds
included, is a theorem for every value of the constants.  A theorem of a module is
about its `Spec` under the assumptions named at the end of this section; what a
run checks of a composition is also proved of the composition (see there).
The components that share a composition (`Lanes!`, `Text!`, `Limits!`) are proved
as instances, in the module beside which they run.

### Runs: `RunLifecycleProofs`

For every set of runs, kinds, slots, processes and faults, and all bounds:

* `TypeCorrect`: `[]TypeOK`.  `TypeOK` is inductive; one step per action.
* `OneWriter`: `[]SoleWriter`.  The fence compares the slot's epoch with the run's,
  so it is enough that two executing slots of one run never hold one epoch.  That
  needs the bound `handler[w].epoch <= epoch[run]`, with the fact that only
  `ClaimGranted` raises the epoch and gives the new value to one slot: `ClaimsInv`.
* `PromiseKept`: `KeepsPromise`.  Each action maps to a step of each run or to a
  stutter.  `Fail` checks epoch and owner but not the status `running`; that its
  retry is promised needs `OwnerHolds`: a run with an owner is running or being
  stopped.
* `AttemptsMatch`: `[]AttemptsMatchStatus`.  The actions fall into a few kinds of
  attempt step (open the next, close the open ones, end the current one, leave them
  alone), each of which preserves the invariant together with `OwnerHolds`.
* `FailuresCounted`: `[]FailuresAccounted`.  On top of `AttemptsMatch`, what each
  kind of step charges: an attempt that fails or loses its lease adds one failure,
  no other step does, so the count stays the cardinality of the set of such epochs.
* `StoppedWhenUnneeded`, `WorkIsWanted`: `[]CancelMeansUnneeded` and
  `[]NoOrphanedWork` (a live run that is not being stopped is needed by somebody).
  Together they are inductive with `WaitsAlone`: only a run
  that waits, stops or has ended names a dependency.  Without it a run could lose
  the demand of a dependent without anybody looking.
* `SharedByAll`: `SharesWork`.  Who needs a run, and who no longer does but is still to
  be settled, are functions of status, `wanted` and dependency (`Demand`, `Leaving`);
  each kind of step is one of `SharedWork` for every run at once, because settling a
  run also lets go of what it waited for.  It needs the invariant above (work that
  loses an asker had one) and `DependencyExists`, without which work could be left by
  somebody before it started.
* `SlotsSuffice`: `[]CapacityRespected`, for every finite set of runs.  A claim
  counts the runs that occupy a slot and adds one; every other step keeps that set
  or removes from it.
* `DeliveredForReal`: `[]DeliveredIsEnqueued`, for instances without the fault
  `redis`.  With it the property is false: a task that Redis lost is what
  `RepairMissing` is for, and the property is checked in a run without that fault.

### Requests: `RequestSharingProofs`

For every set of requests, runs, sources and snapshots:

* `SharingTypeCorrect`, `NobodyStranded`, `AnsweredRight`: `[]TypeOK`,
  `[]ServedWhileOpen`, `[]AnsweredAsAsked`.  The two are inductive together with
  `Coherent`: the snapshot of a run belongs to its source and is known for restores,
  articles and whatever succeeded, and no question waits for a run that is being
  stopped.  A transaction creates a run, asks one to stop, ends one or leaves it
  alone (`RunStep`), and leaves a request alone, binds, completes or ends it
  (`RequestStep`); such steps keep the invariant, and every action is made of them.
* `StopsForTheLastOnly`: `StopsWithItsLastUser`.  From the same invariant, with
  what each action does to the demand for each run (`WorkStep`).  Requests let go in
  the transaction that cancels them, questions when they are settled, so that a run
  may for a while be needed by nobody and still go on.
* `NobodyRefusedLate`: `[]NoLateRefusal`, for finitely many rows.  The inductive
  invariant is that the backlog, in which a source that somebody waits for counts
  once and once more for each article it will start, is within `MaxPending`.
  `FinishSource` turns the pairs of a source and an article into the runs of these
  articles, never more than there were pairs; every other transaction that adds to
  the backlog has compared it with the limit.

### Visitors: `ConversationProofs`

* `OneThread`, `AskedOnce`, `SameAnswer`: `[]ThreadInStep`, `[]SentOnce` and
  `SameKeySameTurn`, for every number of tabs, keys, questions and turns.
  `ConversationInv` says what a page, a kept write, a request on its way and a row
  of `idempotency` know of the turns: a page lists turns that exist (`TabsKnow`), a
  row names the turn that its key made (`RowsKnow`), a key is not older than the
  submissions (`KeysKnown`) and stands for one body wherever it appears (`OneBody`),
  a request retries the last turn its page knew or, if the page listed everything,
  asks what no turn up to that one asked (`PostsSound`), and a turn retries an earlier
  one (`TurnsSound`).  Since `CreateTurn` appends only behind the turn a request
  names as last, a new question cannot repeat one: `SentOnce` is the last conjunct.
* `RatesHold`, `HintsAreHonest`: `[]RateBounded` and `[]HintHonest` of
  `SubmissionLimiter`.  For each bucket (`Accounted`): what it let through and what
  it holds is at most its burst and the time that passed.  A key may be forgotten only
  when its bucket would be full again, which is where its lifetime matters.

### Exports and media: `ExportsProofs`, `MediaWorkProofs`

* `OnePublisher`, `LimitsHold`: `[]OnePinnedPublisher` and `[]LimitsRespected` of
  `Exports`, for every number of exports, attempts and every length of lease,
  deadline and pin that satisfies `ConstantsOK`.  A publisher passes the fence of
  its row (`OneLeased`), its lease ends before the deadline and the deadline before
  the pins (`LeasesLast`, `PinsLast`).
* `ReadyIsSpared`: `CleanupSparesReady`.  `FilesInv` says why old lists do no harm:
  the row whose file the clean-up is about to remove is expired or unavailable, and
  no such row becomes ready again (`DoomedGone`); a file is of an epoch that its row
  has reached (`FilesKnown`, `RowsNew`); what the sweep found to belong to nobody is neither the copy
  of a ready row nor of the execution that a running row still waits for
  (`SweptFree`), and a later epoch writes another file.
* `NothingPinnedIsLost`: `[](TypeOK /\ PinnedIsOnDisk)` of `AssetStore`.  The removal
  works from a list and the sweep from another; the invariant says why their age
  does no harm: what is on the removal list is still `deleting`, hence unpinned
  (`ListsHold`); a file that a live run may still register is young and is not lost
  (`YoungWhileLive`); a ready asset the sweep does not know was made after its list
  and is young (`SweepKnows`).
* `LanesExclude`: `[]LaneExclusive` of `ResourceLanes`.  A holder whose renewal loop is
  on time owns the lease of its slot, with at least the time left that the loop has
  (`Covered`); a slot has one lease, whatever became of the key in Redis.
* `TextInOrder`: `[]TranscriptInOrder` of `Transcription`, for every number of windows.
  The text is the windows before the next one (`First(next)`), and every window that
  is joined, pending or in the channel without an error is recorded as done.

### Paid work: `PaidTasksProofs`, `ModelCallsProofs`

* `RowsTellTheTruth`, `UnknownNeverRepeated`: `[](TypeOK /\ ReportsAreTrue)` and
  `NeverRepeatsUnknown`, for every set of tasks of the three kinds.  Per task:
  before its claim a row has neither execution nor calls (`Fresh`), a call about to
  leave is counted (`Counted`), an execution that is ready for another call or reports
  what it knows has seen the last one answered (`Seen`), and an execution whose row
  has expired cannot make the report false (`Reported`).
* `InputsAndResultsAgree`, `KnownIsFinal`: `[]OneInputOneResult` and
  `KnownOutcomeFinal`, for every number of calls, inputs, suppliers and executions.
  The invariant gives the ledger's row the frozen input (`KeyOK`) and each execution
  what it may rely on at its place (`ExecOK`): with the fence, what it looked at (no
  input, no result, no known outcome) is still so.  A step of another execution is
  `Quiet` for it: the fence is one execution's and does not come back, frozen inputs
  and results do not change.  This covers the bounds the run does not: any number of
  takeovers.
* `SpendingIsBounded`: `[]SpendBounded`.  The sends of a run are the rows of
  `model_submissions`, a finite set of pairs of a call and a number, so that the
  ceiling is about its cardinality.  `SpendInv`: at most `Ceiling` rows, at most
  `RecoveryLimit` recovered calls, and per call what left plus the executions that
  hold a reservation is at most what is counted, which is at most the bound of a
  call, or one more if it was recovered.
* `CallsTypeCorrect`: `[]TypeOK`, whose bounds are those of what the ledger counts.
  `Few` adds what `SpendInv` does not say: the results and allowances in the ledger
  (`LedgerFew`) and the numbers that executions hold and use (`ExecFew`) are within
  the most a call can ever be counted (`Amounts`), also when routes come and go
  between the count and the limit.

### The author's loop: `ArticleLoopProofs`

* `WholePublished`, `TurnsAreKept`, `CapturedOnce`: `[]PublishedWhole`,
  `[]FinishedTurnsKept` and `[]CapturesOnce`, for every transcript, window and
  number of slots, revisions and executions.  `LoopInv` places an execution relative
  to the checkpoint (`PlacesInv`: which call is pending where), the calls relative
  to both (`InputsInv`: a reserved slot has one frozen input and one call, and the call
  is the pending one), and the loops relative to each other (`MarksInv`: a part or frame
  marked in checkpoint, memory or turn was in a call that was answered, a candidate
  exists only where every part is marked, and marks grow from a turn to the checkpoints
  after it).  Nothing is said there of how much fits, which is free.
  That few calls differ from what was frozen for them is `StrayInv`: a slot whose call
  differs, or which is frozen, not reserved and not in the hands of the execution
  (`Loose`), costs an execution that ended between `Prepare` and `Reserve`, so that the
  two kinds together never number more than `leaves`.
  The run has two parts, two slots and one crash; a run with three slots
  is out of TLC's reach.
* `LoopTypeCorrect`: `[]TypeOK`, whose bounds are the limits that `runArticleLoop`
  compares before it prepares a call.  What an execution loses is counted again from
  the checkpoint, so the limits must hold of checkpoint, memory and finished turns
  alike (`LimitsInv`): a pending call was allowed by the checkpoint it is in, a draft
  that call has not written yet has a version to spare, and a slot that is not
  reserved has saved nothing.

### The compositions

A composition chooses a case and lets the components that are not of the case
rest.  Its inductive invariant is therefore the invariant of each component, for a
component that rests in every case from its initial state on, and for one whose
instance depends on the case in its own case only; a step is a step of one
component and leaves the variables of the others alone.  The inductive facts come
from the sections above: a proof module is instantiated with the substitutions of
the composition, and its lemmas (`NextExports`, `NextConversation`, `SpendNext`
and so on) are cited of that instance.

* `Admission`, in `ConversationProofs`: `PlacesKept` is `[]CapacityRespected`, for
  finitely many runs; `RatesAmongAll` is `[]RatesKept`, the types of conversations
  and buckets with `RateBounded` and `HintHonest`.
* `MediaWork`, in `MediaWorkProofs`: `OnePublisherAmongAll`, `LimitsAmongAll`,
  `TextAmongAll`, `LanesAmongAll` are `[]OnePinnedPublisher`, `[]LimitsRespected` with
  the types of all components, `[]TranscriptInOrder` and `[]LaneExclusive`.  The two
  instances of `Exports` share their variables and differ in constants, so that
  each has its invariant only in its own case (`CasesInv`), while the others keep
  theirs always (`OthersInv`).
* `ModelWork`, in `ArticleLoopProofs`: `WorkIsSound` is `[]PaidWorkSound`, the rows of
  checks, reviews and questions with the spending of routed calls and all types;
  `SpendingAmongAll`, `InputsAmongAll`, `OutcomesAmongAll`, `RepeatsAmongAll` and
  `LoopAmongAll` say of the composition what the sections above say of its parts.
* `ServiceEnds`, in `RequestSharingProofs`: `SparedAmongAll` is `CleanupSparesReady`.
  Its other properties are about liveness.

### What the theorems assume, and what is left to TLC

`SetsAssumption` and `BoundsAssumption` of `RunLifecycle` and `SharingAssumption` of
`RequestSharing` are assumptions of the modules, which TLC evaluates in every run;
`ConstantsOK` of the others is a hypothesis of each theorem, evaluated by the runs
that instantiate the module.  `AdmissionAssumption`, `MediaAssumption`,
`WorkAssumption` and `ServiceAssumption` of the compositions are the assumptions of
their components and nothing else, evaluated by the runs `admission`, `media_work`,
`model_work` and `service_ends`.  They say that bounds are natural numbers, that names
for "none" are not names of anything, that what is counted is finite, and for
`Exports` the order of its durations.  `SlotsSuffice`, `PlacesKept` and
`NobodyRefusedLate` assume finite tables.  No theorem needs the bounds of the exploration (`MaxEpoch`, `MaxRuns`,
`MaxLeaves`, `FaultBudget`) to have particular values.

Only model-checked are the liveness properties (`EveryRunSettles`, `RestoreWaitEnds`,
`EveryRequestEnds`, `EveryExportEnds`, `EveryFileGoes`, `EveryTaskEnds`,
`EveryAssetGoes`, `TranscribeReturns`, `LoopEnds`): they rest on fairness and
`ENABLED`, which the prover does not have.  The four properties that the code breaks are
shown by runs, of which there is nothing to prove.

## 6. The plan

Done: runs, requests, exports, assets, lanes, transcription, one-shot tasks, the
ledger's model calls, the author's loop, conversations, submission limits.  Left, in this order:

1. **The keys of requests** and the creation of conversations, which use the table
   of keys as questions do.
2. **Storage ledger**: reservations against a quota; the active-time clock (numeric, with the
   hazard at `execution.go:110`).
3. **The review and repair modes** of the loop, and the answers that feed a repair.
4. **Announcements, shares, examples**; the resume rule of the event stream.
5. **Theorems**: `RunLifecycle` and `RequestSharing` implement `SharedWork` both, and
   `RunLifecycle` implements `RunPromise`; a specification of the request rows over
   the runs of `RunLifecycle`, with one mapping between the two, would join them.  Then
   the action properties that the fences of `Exports` and `AssetStore` share with it.

## 7. Not modelled, and why

Prompts, text checks and rendering are functions of text a language model wrote.
ffmpeg, web and provider clients are I/O whose outcome is the nondeterministic end
of the work.  HTTP routing and view projections read state only; of the frontend only what a page
does with a question is modelled.  Source steps, notices and event sequence numbers do not
influence the lifecycle.  The older contracts of the article loop are kept only for
runs that began with them.

Hazards no property covers: `Recoverable` lists at most 100 runs
(`execution.go:377`; the model visits all); a heartbeat that waits for the lock
charges the wait twice (`execution.go:110`);
the sweep's two hours against a longer deadline (`media/cleanup.go:70`).
