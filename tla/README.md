# Formal models of the code-knowledge-assistant

This directory holds TLA+ models of the code-knowledge-assistant: its server
(`src/packages`, `src/apps/api`) and the page it serves (`src/apps/web`), the TLC
configurations that model-check them, and TLAPS proofs of every safety property that a
passing run checks. Every definition is translated from the source; `PROJECT.json` maps each
one to the lines it stands for.

Run `tlc -config X.cfg M` to check a model and `tlapm M.tla` to check the proofs of a module.

## 1. The system

A visitor with an access code uploads a ZIP (or names a public Git repository). The server
grants a *review lease* for the code, creates a *review job*, and a worker inside the same
process turns the source into a *source snapshot*, rehydrates it, builds a *review* and
stores it as a *completed artifact*. The review is served, and questions about it are
answered, for 48 hours. A sweep, fired by a timer, expires jobs and removes what is left
over. There is no database: all durable state is files, guarded by lock files or by promise
chains in memory. There is one server process; concurrency is the interleaving of its
asynchronous calls at their awaits.

| Component | State it keeps | Operations | Talks to |
|---|---|---|---|
| `review-jobs` | `<id>.json` per job: state, version, deadline, review id; `<id>.lock` | create, get, list, transition, delete, findByReviewId, listExpired | files |
| `review-service` | maps `reviews`, `reviewToJob`, `deletedReviews` in memory; owned uploads on disk | createReview, createGitReview, getReview, answerQuestion, deleteReview, stopJob, purgeExpired, the workers processJob and processGitJob, the expiry scheduler | all packages below |
| `review-orchestration` | none of its own | snapshot, clean up, rehydrate, build, roll back | snapshots, pipeline |
| `source-snapshots` | `snapshots/<id>/source/*`, `manifest.json`, `.write-lock` | create, rehydrate, delete, purgeExpired | files |
| `review-artifacts` | one JSON per completed review, a lock file | save, get, delete, list, listExpired | files |
| `access-control` | access codes, review leases, start and question history per subject | authorize, startReview, completeReview, releaseReview, recordQuestion, mint, revoke | ledger files through `transact` |
| `apps/api` | maps `leasesByJob`, `leasesByReview` | POST, poll, DELETE, questions, the administrator's stop | access control, review service |
| `provider-budget` | `<month>` ledger: spent, reservations | reserve, commit, release, status | ledger file through `transaction` |
| `evaluation` | result files | runProviderEvaluation: reserve, generate, commit or release | budget, provider |
| `intake`, `git-intake` | a temporary workspace | check, extract and inventory a ZIP; resolve, fetch and check a repository | files, git |
| `analysis`, `review-generation`, `review-pipeline` | none | symbols and chunks, evidence and claims, the concepts written by models | model provider |
| `retrieval`, `answering`, `apps/api/src/provider-answerer.ts` | the index of a review | query, answer, cite | model provider |
| `model-provider` | none | one call with a timer, its tokens and cost against limits | network |
| `apps/web` | the page: its reviews, the one on display, the upload dialog, the controller that cancels an upload | upload, poll, cancel, retry, switch review, ask | the API, by HTTP |
| the rest | see section 7 | | |

What makes it hard, and what each component must get right:

- **Jobs.** Worker, requests and sweep change one job file concurrently, each from a version
  it read some awaits ago. A transition must replace exactly the version its caller named,
  nothing may be lost, and a stale lock file must not block a caller for ever.
- **Life of a review.** Five kinds of files (job, artifact, snapshot, upload, workspace) are
  changed one after the other by three kinds of actors that do not wait for each other. A
  job that says *ready* must be servable; one that says *failed* or *expired* must have left
  nothing; everything stored must go in the end.
- **Snapshots.** Objects are put and removed one by one while others create, read, delete and
  purge the same prefix: a manifest must stand for a whole snapshot, a review must be built
  from one, and whoever fails must take away what is its own and nothing else.
- **Git.** A command is a process that may hang, print too much, refuse a signal or leave
  helpers; the intake must end, be quiet when it ends, and deliver the commit it resolved.
- **Content.** From the archive to a citation the same files must be the eligible ones, the
  evidence must quote them exactly, and what is cited must say where it is from.
- **Ledgers.** Overlapping operations on one file must not lose each other's updates, across
  failures; limits are counted in a rolling day whose entries are pruned lazily.
- **Leases and jobs.** Two maps, a ledger and a job store are updated separately; a lease
  must be settled once and for the right reason.
- **Budget.** Reservations expire while calls run, and the ledger is reset at the month's
  end; money promised to a running call must not be promised twice. What a call cost is
  computed from counts that its provider may leave out.
- **Page.** Handlers and continuations share a few variables: one controller, one panel, one
  review on display. An upload that was cancelled must stay away, one that runs must be
  cancellable, and an answer must belong to the review it is shown with.

`PROJECT.json` lists every hazard at its line, with the properties that would catch it.

## 2. The modules

```
JobRegister   <--refines--  ReviewJobs                       ReviewJobsProofs
     ^ INSTANCE
ReviewLifecycle                                              ReviewLifecycleProofs

SourceSnapshots                                              SourceSnapshotsProofs

GitIntake, ConceptGeneration          <--INSTANCE--  GitReview    GitReviewProofs
Inventory, EvidenceChunks, GroundedAnswers  <--EXTENDS--  ZipReview   ZipReviewProofs

SerialFile    <--refines--  PromiseChain                     AccessControlProofs
     . (an operation is one step)
AccessControl <--EXTENDS, refines--  ApiLeases               AccessControlProofs
ProviderUsage <--EXTENDS--  ProviderBudget                   ProviderBudgetProofs

WebClient                                                    WebClientProofs
```

The `MC*` modules give the constants of one module values for TLC.

**JobRegister, ReviewJobs** (`packages/review-jobs`). `JobRegister` says what the store
promises: per job one record with a version, created once, advanced along `TRANSITIONS`,
deleted for good. `ReviewJobs` is the code at the grain of its awaits: `Invoke` is a call
whose arguments passed validation, `TakeLock`/`LockBusy` are `withLock` (`open("wx")`,
EEXIST, the last attempt), `Read` is `readFile` and every check before the next await in the
code's order (`Verdict`), `Publish` the atomic rename, `Unlock` the `finally` block whose
error is swallowed. `Crash` and failing writes leave lock files behind (`Orphan`).
`JOB_CORRUPT` does not occur in the model because `JobsStayReadable` proves it cannot.

**ReviewLifecycle** (`review-service` with orchestration, snapshots, artifacts and intake).
The job store is the register that `ReviewJobs` refines. Each worker walks through
`WorkerSteps`, one step per await that matters: create, claim, acquire and extract the
source, write the snapshot in two steps (so that a removal can fall between), clean,
rehydrate, build, save, ready; the catch block (`Discard`, `DiscardSnapshot`, `Report`,
`Fail`) and the finally block (`Finally`, `Unwind`). Requests are DELETE, GET and the
administrator's stop; the sweep is `purgeExpired`, file by file. An exception that nothing
catches rejects the worker's promise and ends the process, which is `Restart`: memory is
lost, files stay, and a call inside `withLock` may leave its lock file (`stuck`), that of a
job or that of an artifact. Every later call on it fails: a DELETE ends there with an error,
`stopJob` and the worker's catch block go on without it, the sweep ends. A job id stands for
the job, its review and its snapshot, which are distinct fresh identifiers in the code.

**SourceSnapshots** (`packages/source-snapshots` under `review-orchestration`). One snapshot
id, object by object: creators take the write lock (`TakeLock`), look again (`Recheck`), put
the files (`Put`), open and fill the manifest (`OpenManifest`, `FillManifest`, so that a
crash can tear it), and `Release` the lock; the orchestration then cleans its workspace,
`Load`s the manifest, `Copy`s object by object and builds, and each failure rolls back. A
removal (rollback, `Delete`, the purge) is `rm -r`: it lists, unlinks one object at a time and
tries to remove the directory, while others write. An object is abstracted to the creator
that put it; the histories record who stored what, so that properties can speak of it.

**GitIntake, ConceptGeneration, GitReview** (`packages/git-intake`, `review-pipeline`,
`model-provider`, `review-orchestration`). `GitIntake` runs the six git commands as child
processes: the timer, the output limit, the exit, a signal that may be refused, helpers that
outlive their parent and hold its pipes, and the 'close' event that alone ends a command.
`ConceptGeneration` offers each concept to the models in order, all concepts at once.
`GitReview` puts both into `processGitJob`: two copies of the source, the snapshot, and
every removal able to fail, each where the code cleans up.

**Inventory, EvidenceChunks, GroundedAnswers, ZipReview** (`packages/intake`, `analysis`,
`review-generation`, `review-pipeline`, `retrieval`, `answering`, `apps/api`). The first
three are operators: which files are eligible; which ranges of lines are symbols and how
`createChunks` cuts them; which evidence the claims cite, how the index ranks, what the two
answerers select and cite. `ZipReview` is the worker that uses them, from `Preflight` and
`ExtractEntry` over `Inventoried`, the catch block (`Undo`) and the finally block
(`Consume`), to `Analyse`, `Build`, `Ask` and `AskProvider`. The workspace is a tree on a file
system that tells names apart by `Folded`: exactly, or but for their case. A place in it is a
path of folded names, and what lies there keeps the name it was created with; `Tree` is what
the inventory then finds, each file under the names that `readdir` gives of the directories
above it, whichever entry has made them. `Users` says from the archive alone which entry gives
a place its name, so that `AcceptedArchiveExtracts` states the names without the tree. A line is its size, its first word, what it declares,
its indentation and its braces; a model's reply names one document, or one it has invented.
The loop of `createChunks` is `AddLine`, applied line by line in `Cut`; the chunks of a review
are a function from its files to the sequence cut from each, since no identifier mixes two.

**SerialFile, PromiseChain** (`transact` of access-control, `transaction` of
provider-budget, the same code twice). The map entry is `tail`, the promise an operation
found there `previous`; `Begin` runs up to the first await, `Load` reads the file, `Save` is
the rename, `Leave` an operation that writes nothing or throws, `Release` the `finally`.
`SerialFile` is a file that each operation changes in one step.

**AccessControl** (`packages/access-control`). One action per operation; each is one step of
the ledger because `PromiseChain` implements `SerialFile`. `startReview` authorizes the code
before it waits for its turn, so it is two actions (`Authorize`, then `StartReview` or
`RefuseReview`). The histories `granted` and `answered` are never pruned, so that the limits
can be stated about what happened rather than about what the ledger remembers.

**ApiLeases** (`apps/api`) extends AccessControl with the server's two maps and those of the
review service by which a job is found (`reviewToJob`, `jobToReview`), its requests at the
grain of their awaits, and jobs reduced to what the server observes of ReviewLifecycle
(`Work`, `Expire`). `CreateJob` is the publication of a job, `RegisterJob` the turn in which
the POST goes on, starts the worker and enters the lease; between the two a stop can meet a job
that no map knows. A restart (`ServerRestart`) empties the maps and ends the requests and the
workers; jobs and leases stay on disk, and the history `leaseOf` goes on naming the lease of
each job. `overlooked` records the jobs whose lease the server has lost sight of, by a restart
or by such a stop. The ledger is AccessControl's, actions and all, so the run over it checks
the ledger's own properties under the calls that the server makes.

**ProviderUsage, ProviderBudget** (`packages/model-provider`, `packages/provider-budget` and
the calls of `runProviderEvaluation`). `ProviderUsage` is the arithmetic of the adapter: the
total of the tokens (`TotalTokens`), the cost that is reported or computed (`Cost`), the
limits, which an unknown amount never meets (`Within`). In `ProviderBudget` an evaluation
makes its calls one after the other (`Due`), several evaluations share the ledger, and what
`Answer` accepts is committed at its cost. `commit` and `release` expire abandoned
reservations in a transaction of their own before the one that settles, hence `ExpireBefore`
followed by `Commit` or `Release`.

**WebClient** (`apps/web`: `app.js` with `upload-client.js` and `live-client.js`). An action
is one turn of the browser's event loop, an event handler or the continuation of an await,
with the rejections it causes. `Submit`, `Cancel`, `OpenDialog`, `CloseDialog` and
`ChooseSource` are the handlers of the dialog; an upload goes from `Posted` over `Accepted`,
`Polled`, `StillWorking` or `JobReady` and `Awake` to `Loaded` and `Succeed`, and can fail at
each of them. `AfterAbort` says what an abort does at each await: a fetch is rejected and a
sleep wakes at once, a body that is being read breaks later or is already there. The other
half is the page: `SwitchReview`, the loads of the demonstration, `Ask`, `Answered`,
`QuestionFails`, none of which waits for the other.

## 3. The runs

| Run | Instance | What it shows |
|---|---|---|
| `review_jobs` | 1 job, 2 calls, 2 lock attempts, clock 0..1, faults on | The store is a linearizable register (`ImplementsRegister`), a transition replaces the version it names, every call returns. Two callers suffice: a lock excludes pairwise, and a third only waits. Two attempts give "retry" and "give up". |
| `lifecycle` | one ZIP job, two concurrent requests, deadline 1, retention 1, clock 0..2, one outside crash | `ReadyIsServable`, `EndedKeepsNothing`, `ExpiresOnlyWhenDue` at full interleaving of worker, requests and sweep, with every lock file a crash can leave. The clock passes the deadline and the retention and leaves a tick for a sweep. |
| `lifecycle_fair` | one Git job, one request, retention 2, clock 0..4, no outside crash | `Retention`: whatever is stored is removed in the end. The Git worker is the one whose workspace outlives a failed inventory until its finally block. |
| `snapshots` | 2 creators of one id, 2 files, one deletion, the purge, retention 1, clock 0..1, a crash | `PublishedIsComplete`, `RehydratedIsFaithful`, `NothingIsLost`, `RollbackIsOwn`. `OneRival` keeps TLC from combining a second creator beyond the lock with a running deletion; without it the same properties held on 9.2 million states. |
| `git_review` | 2 commits and an annotated tag of one, 2 concepts, 2 models, 2 reported names | `PinnedRevision`, `QuietWorkspace`, `SourceIsDisposed`, `ReviewedFromTheCopy`, `BundleIsHonest`, and under fairness `WorkerEnds`. |
| `zip_review` | archives of up to 3 of 15 entries on a file system that ignores case, every Python and every JavaScript text of up to 3 lines, limits of the same size, one of 7 questions | `AcceptedArchiveExtracts`, `OnlyEligibleIsCited`, `NothingIsLeft`, `EvidenceIsExact`, `AnswersAreGrounded`. Entries meet pairwise, a file above another one needs two, and so does a directory whose name is spelled in two ways; three lines are what a full chunk, a long line and what follows it need. |
| `promise_chain` | 3 callers, a counter with `add` and `reset`, 4 calls | `ImplementsSerialFile`, call order, every operation ends. Three callers are the least for which a predecessor can finish while a successor waits and a third begins. |
| `api_leases` | 1 code, 2 leases (1 start a day), 2 jobs, 2 requests, 2 questions of one client (1 a day), day, lease and deadline 1, clock 0..1 | Leases are settled for the right job and reason (`LeaseOutlivesWork`, `CompletedOnlyWhenReady`, `DeletedGivesLeaseBack`), with restarts at any point and stops between the publication of a job and the entry of its lease; and the ledger keeps its promises under these calls: one running lease per code (`OneLeasePerCode`), both rolling limits (`LimitsAreKept`), settlement is final. There is one lease more than starts and one question more than answers, so either limit could be exceeded; the clock reaches the end of the day, so leases lapse, work is overdue and entries leave the window. |
| `provider_budget` | 3 calls, the second after the first, of up to 2 units each, ceiling 6, 10 possible reports of usage, reservations live 2, month 3, clock 0..3 | `BudgetHolds`, `SpentIsCommitted`, `CallsAreCovered`, `SettledStaysSettled`, across expiry, retry, a crash and the month's end. The soft stop leaves room for two calls, so the third finds it. The reports leave out each count and exceed each limit. |
| `web_client` | 2 uploads, 2 polls each, up to 2 repeated loads of the demonstration | `AbortedStaysAway`, `AnswerFitsReview`, `BusyMeansRunning`, `StaysCancellable`, and under fairness `EveryUploadEnds`. Two uploads let one overlap, repeat or outlive the other; a third would only repeat what the second does. With two polls an upload sleeps and also runs out of attempts. |

Two runs expect a violation; the trace shows how:

| Run | The documents say | The code does |
|---|---|---|
| `deleted_keeps_nothing` | deletion is propagated across database, object storage and indexes | a DELETE removes the snapshot, then the artifact, then marks the job, and neither stops nor awaits the worker: a snapshot stored after the first step, or an artifact stored after the second, with the job turned ready before the third, is not removed by it and is still stored after "deleted" was answered, until the 48-hour sweep. Only what is stored behind the removals and before the third step stays: a worker whose ready comes later is refused, and its catch block removes the snapshot and the artifact |
| `reviewable_text` | other text source gets a general-overview fallback | a chunk of white space, such as a file with only a line break, makes the index refuse the whole review; so do two nested symbols around a line longer than a chunk, whose slices repeat their identifiers |

Other things the models show and no run claims, because no document promises otherwise or
the promise is too loose to state:

- An annotated tag that the remote lists alone is always refused with `GIT_HEAD_MISMATCH`:
  `HEAD` is its commit, the resolved revision the tag object. The web client tells its users
  that a tag may be entered.
- A lease lapses after an hour, or is given back by a deletion or a stop, while its worker
  goes on, so one code can have two reviews running.
- The lease of a job from before a restart is in no map any more: a poll, a DELETE or a stop of
  the job does not settle it, and it stays active until it lapses. So does the lease of a job
  that an administrator stops while its POST is still waiting for `jobs.create`
  (`apps/api/src/index.ts:348`): the stop finds no lease, and the POST enters it for a job
  that is deleted. `overlooked` in `DeletedGivesLeaseBack`.
- On a file system that ignores case, a directory keeps the spelling of the entry that came
  first. If that is `Vendor/`, what follows in `vendor/` is found as `Vendor/...`, which the
  policy, made for exact names, does not exclude (`packages/intake/src/index.ts:289-311`).
- A GET caches what it read before a DELETE emptied the cache; `deletedReviews` hides it.
- A snapshot's 48 hours start at its manifest, a review's at its completion.
- Workspaces that survive a crash are not in any sweep; queued and processing jobs are not
  resumed after one; an orphan lock file makes every sweep fail at that job.
- A creator whose second look for a manifest fails has already set `ownsPrefix` and rolls
  back the snapshot of the creator that published it (`RecheckFails`).
- An upload that cannot be unlinked after success leaves the extracted workspace behind.
- An orphan lock of an artifact answers every DELETE of its review with an error, until the
  artifact expires, and from then on every sweep fails at it.
- `mkdir` of the upload directory comes after `startLease` and outside the block that gives
  the lease back (`apps/api/src/index.ts:414`): when it fails, the code is occupied until the
  lease lapses.
- A call that was paid for and then refused releases its whole reservation.
- Where only one of the two rates is configured, a cost is computed from the tokens of that
  kind alone (`model-provider/src/index.ts:386-398`): `SpentIsCommitted` speaks of both.
- `createProviderAnswerer` cuts its context by bytes: inside a character, the replacement
  takes three bytes, `remainingBytes` may turn negative and `slice` then counts from the end.

And of the page (`apps/web/src/app.js`, `upload-client.js`), where each exception is named in
the property that makes it:

- An upload begun while another one runs, which a source tab makes possible because it shows
  the form again and aborts nothing (299-300), aborts the older one; the older one's catch
  block then sets the *newer* controller to null (258, 289), and neither Cancel nor the
  closing of the dialog reaches that upload any more. `overlapped` in `StaysCancellable`.
- An abort is not noticed while a body is read: the panel is left at "processing" or shows
  "invalid-response", and a cancelled review whose last body is complete is stored, opened
  and closes the dialog over whatever is shown in it. `stop` in `BusyMeansRunning` and
  `AbortedStaysAway`.
- An answer is shown under the review that is on the page when it comes, a failed question
  marks that review as failed (400-408), "Try again" and a late first load replace an uploaded
  review by the demonstration without changing the session or the client that is asked
  (416-424, 439-445). `moved` in `AnswerFitsReview`.
- "Cancel" in the form of a failed upload submits it again (303); after an upload was accepted
  the access code is gone, so that the repetition sends none.
- `apps/web/README.md:68` says that a job is polled at most 20 times by default,
  `upload-client.js:12` says 240.

Each property of a passing run has a mutant: a definition next to the one it replaces,
marked `Mutant:`, that a plausible slip in the code would produce and the property catches.
The types of ReviewLifecycle, ApiLeases, ProviderBudget, GitReview, ZipReview and WebClient
(`TypeOK`, `ServerTypeOK`) hold on the instances of their runs; the runs spend their time on
the rest.

**Bounds.** `MaxUploads` bounds the uploads of one visit, `MaxAttempts` of WebClient the polls of
each (240 in the code) and `MaxLoads` the repeated loads of the demonstration in flight, `MaxTime` every clock, `MaxCrashes` outside crashes, `MaxAttempts` of
ReviewJobs the lock attempts (100 in the code), `MaxCalls` the operations of one execution. An action that
would compute a deadline beyond `MaxTime` waits in ReviewLifecycle (the deadline could never
be met); failing is always possible at that step instead. In ZipReview one question is asked
of a review, since an answer changes nothing, a model's reply names one document, since each
citation is checked on its own, and one file at most cannot be read.

**Symmetry** is used for interchangeable model values: leases, jobs, requests and
questions in `api_leases`, creators in `snapshots`. **Deadlock** is checked except where everything may
be over: calls and clock in `provider_budget`, creators and removals in `snapshots`, the
worker in `git_review`, and the review with its question in `zip_review` and
`reviewable_text`.

## 4. Fairness

- `ReviewJobs!FairSpec`: weak fairness of each started call. The event loop runs every
  pending continuation, and file operations return or fail.
- `PromiseChain!ChainFairSpec`: the same for each operation in the chain.
- `ReviewLifecycle!FairSpec`: weak fairness of each worker, each started request, the sweep
  and the clock. The sweep's fairness is the scheduler's timer, which is re-armed after every
  sweep, also a failed one. The worker's fairness rests on `WorkerEnds` of GitReview for the
  parts that leave the process. Nobody has to upload, to poll or to delete: requests are not
  fair until they have started.
- `GitReview!FairSpec`: timers fire, a git that was signalled exits, helpers end, and the
  intake's own steps and the pipeline's continue. A git that nobody signals need not exit,
  and a request need not bring headers: the timers must see to both. A response body is
  assumed to end, because its timer is cleared with the headers.

- `WebClient!Spec`: weak fairness of each upload. A request is answered or fails, a body ends
  or breaks, a timer fires. The user need not do anything, and questions need not be answered.

## 5. Proofs

The theorems hold for every value of the constants that satisfies the named assumptions of
the modules (deadlines are positive, `Nobody` is not a caller, limits are positive, and so on).
Where an invariant is proved, its parts are not all checked by a run as well; the inductive
invariants were model-checked before their proofs.

**ReviewJobsProofs.** `IInv` strengthens the properties with: the argument shapes that
validation established (`CallShape`), *a call inside withLock owns the lock file* (`OwnsLock`),
what `Read` has checked by the time of `Publish` (`MayPublish`), and `HasResult`. The core of
the argument: only an owner changes `<id>.json`; a lock file is taken only when there is none
and removed only by its owner (a crash makes it an orphan), so what an owner has read is what
is on disk (`NoStaleRead`). From it follow `TransitionsAreGuarded`, `JobsStayReadable` (the
store never publishes what `parseJob` refuses), `PublishedJobsGrow` (nothing is rolled back),
and `StoreImplementsRegister`, the refinement of JobRegister under the identity mapping of
`disk`.

**ReviewLifecycleProofs.** For any number of jobs and requests, any crashes. A property like
`ReadyIsServable` says what is true of a job when everybody is through with it; `IInv` says
what is true before, at each place of each actor. `StateFits` ties the worker's place to the
job's state; `FilesFit` says which upload, workspace, objects and manifest
there can be at that place; `ArtifactFits` that the artifact of a review which is ready, or
about to be, is there with the deadline of the job or somebody is giving it up; `ExpiredFits`
that what an expired job leaves is what the sweep is about to drop. The sweep works from
lists it has read some awaits ago: a listed job is as it was, and then overdue, or has a later
version (`Listed`); a listed artifact is nobody's who could still become ready
(`ListedArtifact`); and while the sweep is at work every overdue ready review is yet to be
listed, or is listed as it is (`OverdueIsCaught`). The last is why the sweep may remove
artifacts without looking at their jobs again. From these `ReadyCanBeServed`,
`EndedIsForgotten` and `NothingExpiresEarly`. As `ReadyIsServable` and what concerns expired
jobs are claimed up to the first crash, so are `ArtifactFits` and `ExpiredFits`; `StateFits`
and `FilesFit`, on which the rest of `EndedKeepsNothing` stands, hold across crashes.

**AccessControlProofs.** It begins with the ledger: `IInv` adds `Owned` (a lease that was
never granted has no history) and `Remembered`: what the ledger lists of the last day is exactly what was granted in the
last day, although entries are pruned only when an operation succeeds. From it `LimitsHold`,
`OneRunningLease` and `SettlementIsFinal`. The second part is about ApiLeases. `ServerInv`
says that a job has a lease of its own, which both maps know as long as it is active, unless
its POST has yet to enter it or it is overlooked (`JobsFit`), that a job can be found and be
worked on only after its POST has entered it (`FoundFit`), that a POST holds a lease nobody
else has, or that of its job (`PostsFit`), what a poll, a deletion or a stop has seen of its
job (`RequestsFit`: one that found no lease in its map came too late for it, or too early), and
that the lease of a deleted job which is not overlooked is active only while somebody is about
to release it (`DeletionsFit`). It holds across restarts: jobs of before remain in all of it. From it `WorkIsLeased`, `CompletedMeansReady` and `DeletionGivesBack`.
`ServerImplementsLedger` is the refinement: each step of the server is one of the ledger's or
leaves it alone, so that what is proved of the ledger holds of the server
(`ServerKeepsLedger`). The third part is about the chain on which both ledgers stand, for any
callers, contents and operations. `ChainInv` has `Chain`: the operations in progress are
ordered by ticket, each waiting for the one that began just before it, and the map entry is
the last. Hence at most one operation is past its await (`NothingIsLost`), in call order
(`CallOrder`), and the chain refines `SerialFile` (`ChainImplementsSerialFile`).

**GitReviewProofs.** For any objects, concepts, models and reported names. `IntakeFits` says
that the flags of a command are reset with it and that a killed command was killed for one of
two reasons, so that an output which is used is a whole one; that helpers are waited for; and
that a workspace is there from `Create` on, with one attempt to remove it. `WorkerFits` says
which copies of the source there are at each place of the worker, `ConceptsFit` how a concept
that is settled has got there. From them `RevisionIsPinned`, `WorkspaceIsQuiet`,
`SourceGoesWithItsWorker`, `ReviewReadsTheCopy` and `MetadataIsHonest`.

**SourceSnapshotsProofs.** For any number of creators, deletions and files. `IInv` says, up
to the first removal, that one creator owns the prefix (`OneOwner`) and what it has stored at
each step (`Creation`), so that a manifest that can be read has every object of one creator
(`PublishedIsComplete`); and, whatever is removed, that a rehydration has copied only objects
its manifest names, each put by the creator of that manifest (`Rehydration`). `NothingRemoved`
says that before the first removal nobody is removing or rolling back; `BeforeRemoval` is the lemma
that lets every step be split by it. From it `LockExcludes`, `ManifestIsLast`,
`ReviewsReadOneSnapshot` and `RollbackRemovesItsOwn`. `Traces` holds across removals: a
removal is under way exactly while its actor waits for it, the manifest belongs to a creator
that is at work on it or has succeeded, or has listed it (`ManifestFits`), the lock will be
unlinked (`LockFits`), and, as long as one creator was admitted, every object is found by its
creator, its manifest or a removal that has yet to unlink it (`ObjectsFit`; a removal that
takes the manifest takes all objects, because nobody puts objects after a manifest). Hence
`NothingStaysUnfound`.

**ProviderBudgetProofs.** For any number of calls and evaluations, any answers, amounts and
lengths of time. `IInv` adds that a call which has not begun has nothing in the ledger
(`Untouched`), that what is to be committed has passed the limits, so that it costs a known
amount within what was reserved (`Affordable`, `AcceptedCost`), and that the file is never of
a month to come and still holds what a call in flight has reserved, until it is of a later
month (`ReceiptsHold`). A transaction reads an empty ledger or the one on disk (`Carried`),
expiry only frees (`ExpiryFrees`), and one reservation more or less changes what is set aside
by one amount (`ReservesOne`); hence `SoftStopHolds`, `CallsStayCovered` and
`SettlementIsFinal`. `SpendingAddsUp` is about a sum over all calls, and a sum over a set is
recursion over data. `LedgerAddsUp` therefore states it as a cardinality: `Units` is the set
of the single units of all costs, and the library's facts about finite sets give what a
commit adds (`UnitsAdded`). `Accounts` is the invariant: the books balance, only what was
committed has a cost, and what a call has committed in the month of the file is the price of
its answer. The clock's bound is a constant of the model, so it holds for each.

**WebClientProofs.** For any number of uploads and polls. `IInv` says that the controller is
that of an upload which runs and was not aborted (`ControllerRuns`), where an upload can be
that an abort has met (`AbortsBite`), that uploads begin in order (`BegunInOrder`) and that
two run at the same time only if the later one is recorded to overlap (`OverlapsAreKnown`),
from which `LatestIsCancellable` follows: whoever sets the controller to null was the owner,
or was overlapped. `CancelledStaysAway`, `ProgressIsReal` and `AnswersFit` rest on
`AbortsBite`, `StoredIsDone` and `DemoIsShown`.

**ZipReviewProofs.** For archives of any size, texts of any length, any chunk size, any policy
and any question. Four invariants follow the content. `CleanedUp` says where the worker can
stand with a workspace or an error; it gives `IntakeLeavesNothing`. `Intaken` says that the
workspace holds the entries extracted so far and nothing else (`Extracted`), that what the
inventory says of each file is what the policy says (`InventoryFits`), and that the copy is
the eligible files; from `~Collide` follows that the place of the next entry is free
(`NotOccupied`), also where the file system ignores case, since names that it takes for one
have one lower case (`Apart`), and that the name of a place is that of the first entry on
whose way it lies (`FirstUser`); hence `AcceptedExtracts`. `Reviewed` says that the chunks are those of the
copied texts (`ChunksFit`), that evidence is all of them and the index the documents of the
evidence; it gives `ReviewEvidenceIsExact`. `Answered` ties an answer to the index of a ready
review and is `ReviewAnswersAreGrounded` with what that needs. `OnlyEligible` takes the last
three together.

Between them stand the lemmas on what the operators compute:

- *Induction.* The library's induction theorems take an operator, which the provers cannot
  instantiate. `LeastNatural` derives from the well-foundedness of `<` that a set of numbers
  has a least element, and `Induct` and `SeqInduct` state induction for sets: a leaf defines
  the set of the numbers, or sequences, of which its claim holds. With them the recursive
  functions (`Cut`, `quoted`) and the community modules' `FlattenSeq` are followed for
  every length (`FlattenFunction`, `FlattenAppend`, `FlattenConcat`).
- *Chunks.* `AddLineFits` is the invariant of the loop of `createChunks`: the chunks emitted
  and the content that is open, put together, are the text of the lines so far, and the open
  content is that of the lines from `start` on. `SlicesFit` is the case of a line longer than
  a chunk. `CutIsExact` is the end of the loop, `RangesFit` says that a symbol ends within its
  file, `ChunksAreExact` puts the ranges together.
- *Ranks.* A ranking is a function from positions to documents, chosen by a count of the
  documents before each. `RankExists` says that a finite set with a total order has an
  element of each rank, `PathTotal`, `EvidenceOrdered` and `DocumentOrdered` that the orders of
  the code are total on what they order; from them `RankedLaws`, and with the byte limits `ResultsLaws`.
- *Answers.* `CitationLaws`: the first document with an identifier is a document of the
  evidence; `ProviderAnswerLaws`: whatever a model names, only documents of its prompt are
  cited; `BaselineAnswers`: the deterministic answerer gives the best matches.

They rest on `ChunkAssumption` (a chunk holds a character), `AnswerAssumption` (the limits are
positive, two names never have one rank), `InventoryAssumption` (the policy speaks of names,
its limits are numbers, no reason to exclude a file is `None`) and `ReviewAssumption` (an
archive is a sequence of entries, of which only a directory may lack a source, a blank question
has no words, and the file system tells apart at least the names that differ in more than
their case). The theorems so cover file systems that respect case and those that ignore it;
the run is on one that ignores it, where the two questions are harder. They are the types of what the code reads, and TLC evaluates them on every run of
ZipReview.

Every safety property of a passing run is proved. Only model-checked are:

- liveness under fairness (`CallsReturn`, `Retention`, `EveryOperationEnds`, `WorkerEnds`,
  `EveryUploadEnds`), which is out of the prover's reach, as is `ENABLED`;
- the two violations of section 3, which are counterexamples and need no proof.

## 6. What the models leave out

- ReviewLifecycle and ApiLeases assume that removals and ledger writes succeed; failing
  removals are in GitReview and ZipReview, failing lock-file operations in ReviewJobs,
  failing ledger operations in PromiseChain and ProviderBudget.
- In ReviewLifecycle a transition, or the deletion of a job, can fail by its version, by the
  table of transitions and by a lock file, but not by the disk (`JOB_IO_FAILED`, which
  ReviewJobs has). A failure of that kind leaves the job as it was; the caller then goes the
  way of the other refusals, except that a DELETE which has dropped snapshot and artifact and
  fails at `jobs.delete` leaves a ready job without them. `ReadyIsServable` and
  `EndedKeepsNothing` are claimed of runs without such a failure.
- The clock never steps back, and there is one process per data directory.
- Amounts of money are natural numbers; the code uses floating point.
- In ZipReview a character is one byte, digests do not collide, the error codes of a refused
  archive are one, the checks of one entry's name and type are one bit, and the word that
  starts a line stands for its words. Identifiers sort as their parts do: with line numbers
  of several digits, or a path that is another one and a character below ':', their text
  order differs, which can change the order of equal scores and which evidence the overview
  cites, not whether it is evidence.
- In WebClient both clients are configured, as the server that serves the page does; the
  fixture mode, in which nothing is asked of a server, is left out. What the user types, the
  choice between ZIP and GitHub and what the labels say are left out, as is the validation of
  what the server sends, which is one of the ways to fail.
- What responses display (metadata, listings, the overview page), log lines and error texts.

## 7. Components without a model

The demonstration review is a read-only loader; observability cannot change behaviour;
configuration and start-up are wiring; the evaluation tools other than the provider runner
are sequential scripts over files; the administrator's page shows what the API lists. Of the
artifact store the schema checks are left out, its lock file is the job store's; of the model
adapter the schema validator; of the evaluation runner the prompts, the selection of their
context and the result files.

## 8. Plan

1. Steps of the single modules that other modules take for granted, as theorems about both:
   what `ZipReview` and `GitReview` deliver implements the acquisition step of
   ReviewLifecycle's worker, the removals of SourceSnapshots its snapshot.
2. The wiring at start-up, where the crash of an earlier process is met: which directories
   are made and which sweep comes first.
3. Characters of several bytes, where the provider answerer cuts its context.
