# A verification of diffgazer

diffgazer reviews the changes of a git repository with AI providers. A local
server (`cli/server`) admits a review on a provider configuration, runs it
detached from the request, streams its progress over SSE and saves the result;
a terminal application, a web application and a component library surround it.
This directory models the server's own logic in TLA+, checks it with TLC and
proves its most important invariants with TLAPS. Paths below are relative to the
repository; `review/` stands for `cli/server/src/features/review/`, `config/` for
`cli/server/src/shared/lib/config/` and `ai/` for `cli/server/src/shared/lib/ai/`.

## Inventory

The server is one Node process: its concurrency is the interleaving of event-loop
turns (handlers, detached runners, timers), of the promises of several requests,
and, for the documents on disk, of several processes.

| Component | State | Operations | What makes it hard |
|---|---|---|---|
| review sessions (`review/stream/store.ts`, `service.ts`, `pipeline.ts`, `router/sessions.ts`) | the map of active sessions, each with its commit state, abort controller and completion | POST creates, the runner emits, commits and saves; cancel, supersede, evict, expire, revoke, shut down | five parties may end a session while it crosses its point of no return; look-ups before an await, creation after it |
| session event stream (`review/stream/store.ts`, `replay.ts`, `resume.ts`) | a bounded buffer of events, subscribers, a queue per stream | emit, terminate, connect, replay, follow, drain, abort | the hand-over from replay to live delivery; the cap; revocation in the middle |
| configuration leases (`ai/admission/service.ts`, `shared/lib/session-registry.ts`, `config/store/crud-actions.ts`, `credential-lifecycle.ts`) | leases and revocations in memory; the record and its secret material on disk | admit, acquire, release; create, select, update, delete | deletion drains leases with the documents unlocked; writes and erasures fail one by one; the process dies between them |
| budget ledger (`ai/budget/ledger.ts`) | committed and reserved usage, open reservations | reserve, commit, settle, release, cancel | concurrent lenses settle against one reservation; usage arrives late |
| lens orchestration (`review/engine/orchestrate.ts`, `analysis.ts`) | the stage and result of each lens, three abort signals | launch under a limit, judge, return, report | lenses fail, throw, overspend or are aborted while others are in flight |
| generation client (`ai/client/generate.ts`) | one attempt's usage | refuse, dispatch, commit usage | overspending shows only after the dispatch |
| review storage and project index (`review/storage/`) | review files; a derived index and two markers for each project | save, list, rebuild, prune, invalidate, re-key | the index is added to, invalidated or marked when each of these may fail; a move is interrupted and repeated; listings rewrite what it relies on |
| document commit (`config/store/document-store.ts`, `config/persistence/secrets-recovery.ts`, `shared/lib/fs.ts`) | two documents and a journal | commit, compensate, recover, quarantine | a crash or a failed write between the files, recovery that fails |
| file lock and mutex (`config/transaction/`) | a lock directory with its owner's marker; staged directories; a queue of callers | stage, publish, take over, release | two processes judge a lock stale at once |
| project trust (`config/trust-store.ts`, `config/persistence/trust.ts`, `features/settings/router.ts`) | the trusted capabilities of each project, on disk and in each server's memory | grant, downgrade, remove, reload | the memory is ahead of the disk and rolled back; other servers write the same document; reviews start on it meanwhile |
| process supervisor (`ai/providers/cli-compatibility/process-supervisor.ts`) | a child process, its output, its deadline | spawn, limit, kill, escalate | exit, output and timers race |
| review client (`libs/core`, `apps/web`, `cli/diffgazer`) | the reducer over stream events | start, resume, cancel | a reconnect against a session that ended |
| migrations, bindings, keyring, catalog, readiness, diff parsing, git, HTTP wiring | documents and caches | one-shot conversions and I/O | little interleaving of their own |
| `libs/registry`, `cli/add`, `libs/keys`, `libs/ui`, `apps/*` | files of another project; component state | copy items; focus and keys; pages | outside the review program |

How they interact. The router admits a request (configuration leases), which hands
the handler a lease with a release callback. The handler awaits git, then looks for
an existing session and creates one (review sessions). The detached runner resolves
the diff, runs the lenses through the generation client, which draws on the review's
budget ledger, and emits events into the session's buffer (event stream). At the end
the runner marks the session committing, saves the review (review storage) and
completes. Trust revocation, configuration deletion, the stale sweep, eviction and
shutdown cancel sessions from outside through the session registry; the lease's
release is what a deletion's drain waits for. Every edit of configurations is a
document commit under the mutex and the file lock.

The hazards this code is exposed to are listed, at the line where each bites, in
`PROJECT.json`; the properties below are aimed at them.

## Plan, and how far it has come

| Module | Subject | State |
|---|---|---|
| `ReviewSessions` | the life of a review; implements `ReviewOutcomes`, where each review has one outcome | checked, proved, refinement proved |
| `ConfigurationLeases` | admission against deletion; credentials | checked, proved |
| `BudgetLedger` | limits under concurrency | checked, proved |
| `LensOrchestration` | the lenses of a review over its ledger; extends `BudgetLedger` and is shown to be a client of it | checked, proved |
| `SessionStream` | the buffer and the streams | checked, proved |
| `DocumentCommit` | the journal and recovery; implements `AtomicDocuments`, where both documents change at one point | checked, proved, refinement proved |
| `FileLock` | publication by rename, stale takeover | checked, proved |
| `ReviewIndex` | saved reviews stay listed, whichever step of the index maintenance fails; the move of a project | checked, proved |
| `ProjectTrust` | the trust document of several servers and the reviews that run on it | checked, proved |

What would come next: a composition of sessions and leases, where the moment at which
a session attaches its cancel callback appears. It is covered from one side already:
`ConfigurationLeases` never assumes that a cancelled execution releases its lease, so
a callback attached too late changes nothing that is promised there, only how long the
drain waits.

## Modules

A `*Proofs` module holds the theorems of the module it is named after (that of the
lenses also those of the ledger they draw on), an `MC*`
module the instances TLC needs, and each run has a `.cfg` of its own name. Operators
marked "Mutant of" are plausible mistakes that the properties are known to catch;
nothing else refers to them.

### ReviewSessions and ReviewOutcomes

One action is one turn of the event loop: the code between two awaits that reach the
disk, git, a provider, a timer or a new request. An await on `emit` resolves in the
same turn, so emitting the terminal event and marking the session complete is one
action. A request and the review it may start share an identifier because the handler
draws a fresh UUID.

| Definition | Code |
|---|---|
| `activeSessions`, `completed`, `persistenceState`, `aborted` | the map and the fields of `ActiveSession` |
| `generation`, `captured` | `projectGenerations` and the copy a handler takes before git |
| `leases` | leases granted and not released |
| `Admit`, `Refuse`, `Activate` | the POST handler up to the first await, its failures, `createReviewSession` |
| `RunnerFails`, `RunnerStops`, `BeginCommit`, `SaveWritten`, `SaveFails`, `Settle` | the turns of the detached runner; `BeginCommit` is `markCommitting` |
| `CancelForUser`, `CancelForConfiguration`, `RevokeProject`, `CleanupStale`, `Expire`, `Shutdown` | the others that end a session |
| `Evicted`, `Superseded`, `SameReview`, `Existing` | the helpers of `createSession` and the look-ups |

`terminals` is history: what each client was told. `saved` is what is on the disk; a
save that fails may have put the review there all the same (`atomicWriteFile` renames
before it synchronizes the directory).
`NoInput` stands for a diff that could not be parsed and `Unverifiable` for a git
state that could not be read. What the model shows about the code on the way: the
deduplication inside activation cannot be reached through the router, because
admission refuses a duplicate first (`NoLiveDuplicate`); `resume.ts`'s cancellation
of a stale session has the effect of `CancelForConfiguration` and is not an action of
its own.

`ReviewOutcomes` is what the sessions promise of each review, whoever races to end it.
It is told one thing, once; it may be disowned (cancelled, superseded, evicted, timed
out) before its commit point and never after; it is complete only if it is on the
disk; and once it has been disowned or has failed, nothing is saved of it any more.
The one exception is written into it: a shutdown does not wait for a save past the
commit point. The mapping reads `told` off `terminals` and the stage of a review
(`Stage`) off `persistenceState` and the two maps.

### ConfigurationLeases

One configuration, since configurations share neither leases nor material. `record`
is what the documents hold, `materials` the secret material that exists, named by the
revision it was bound for; `mutation` is the transaction that holds the documents
(`runMutation` reloads, edits, writes; others see the old documents until the write).
`Init` is in the middle of `runCreateAction`: the first credential is bound and the
documents do not name it yet; `NoModel` is the model of a configuration nobody has
selected one for. Every write may fail (`WriteFails`), in the ways `DocumentCommit` has
in detail: the old documents are back, or the rollback has failed too, which leaves the
old or the new ones and latches the store (`Latched`) until the server is restarted.
An execution passes `LoadSnapshot`, `ReloadSnapshot`, `ResolveCredential` and
`Acquire`; a deletion passes `CheckDeletable`, `RevokeAndCancel`, the drain,
`CommitDelete`, the write and `EraseMaterial`, each of which may fail. `Crash` is the
death and restart of the server: documents and material remain, the registry is gone.
`discarded` is history: credentials that `discardBindingSecret` removed after a write
that answered with an error had left the documents naming them.

### BudgetLedger

One action for each method of the class; any caller may call any method at any time
with any of the usages. The answer of the last call is a variable, because what
callers are told is the subject of two properties. `cancel` has no caller outside the
tests; it is modelled because the class promises it.

### LensOrchestration

One review: admission reserves an envelope for it in a `BudgetLedger`, and every
dispatch of a lens commits what it used against that one reservation. The module
extends `BudgetLedger`, and its actions call the ledger's.

| Definition | Code |
|---|---|
| `Start`, `Launchable`, `Return` | `runWithConcurrency`: who is launched when a worker returns, and when the whole resolves |
| `RefuseDispatch`, `Answer` | `executeReviewGeneration` up to the outcome of the lens, and the bridge that records it |
| `Throw` | `runLensAnalysis` throws, before the adapter has answered or with decoded findings in hand; what it throws may look like an abort (`Throws`) |
| `Judge` | the worker of `orchestrateReview`: which result aborts the others |
| `Blame`, `ReviewOutcome`, `Report` | what is reported of each lens and of the review |

The callbacks between a commit that overspends and the worker that hears of it are
steps of their own, because other lenses are launched in between. In phase `"other"`
the ledger serves a client that calls it in any order, so that one run asks the
questions of both modules.

### ReviewIndex

`file` is the project each review file names; `index`, `cursor` and `reconcile` are
the index file and the two markers of each project path. A rewrite of an index is
modelled as the code performs it under the index lock: the holder decides what it will
write (`Acquire`, with what it read), removes the cursor marker, writes, sets the
marker (`ClearCursor`, `WriteIndex`, `MarkCursor`), and, at the end of a full scan,
removes the reconciliation marker (`Settle`); each may fail with or without its
effect. A scan judges each review on its own, so its reads are one step.

| Definition | Code |
|---|---|
| `WriteReview` to `MarkProjectReconcile` | `saveReview`: the file, the index entry, and the two fallbacks |
| `Look`, `Rebuild`, `RebuildPartly`, `ReadEntries`, `Prune` | `listReviewPage` and what it repairs |
| `BeginPass`, `MoveReview`, `EndMoving` | the loop of `rekeyProjectReviews` |
| `FlagDestination`, `Publish`, `Withdraw`, `ExcuseDestination`, `VerifyDestination`, `UnflagDestination`, `RemoveSource` | what a pass does to the two indexes and the marker, with or without failures behind it |
| `ClearReconcile` | the removal of a marker, by a scan (`Settle`) or a pass (`UnflagDestination`), whoever has set it |
| `CommitRoot` | the caller that writes the new root and does not repeat the move |
| `Crash` | the server dies and is started again |

`abandoned` is history: the reviews the code has given up on, each at a step that
gives them up (the server dies before the entry is written; the last fallback fails).
`unmerged` is history, too: the reviews whose reconciliation marker was removed although
the index, or the draft that is about to replace it, does not name them. Two steps do
that: a scan that began before the marker was set, and a pass that repeats an interrupted
move, which publishes into a certified index without any scan. The code means the marker
to stay until the review is merged (`review/storage/reviews.ts:289-290`), so this is not
a review given up but one lost; `ReviewIndexMarker` is about the pass.

### ProjectTrust

Several servers share one document and keep a copy each. A record is named by the
request that wrote it, so that two records are never confused. A mutation is
`Mutate` (the copy changes before anything is written), `Merge` under the file lock,
`Write`, `Unlock`, `Reload` and `Answer`, or ends in `Rollback`. `current` is the set
of servers whose remembered modification time is that of the file; `Reload` and
`Answer` are two steps because the load comes before the stat and other servers run
in between.

### FileLock

A contender is one call of `withFileTransactionLock`, in any process; its owner id is
fresh. `lock` is what lies at the lock's path: nothing, an empty directory, or a
directory with somebody's marker. `staging` is each contender's own directory before
the rename: being prepared ("bare"), complete ("ready"), or emptied by a sweep
("hollow"). `observed` is what a contender has judged stale and is about to remove;
the judgement and the removals are separate steps, as they are in the code. A
judgement that the code forms over several reads is one step here: an owner's marker
never comes back once it is gone, and being dead or old is for ever, so the last of
the reads decides. Time appears as the two comparisons with `staleMs`: `aged` for a
marker's `createdAt`, `stalled` for the modification time of an unfinished staging
directory; both may become true at any time. A dead owner may look alive, because its
pid can have been given to another process.

The removal of what was staged may fail. It leaves the staged directory (`StagingStays`;
`unswept` remembers whose), which the sweep of a later contender finds. When it throws
after the publication (`CleanupFails`), `withFileTransactionLock` rejects before its own
`try`, and the lock stays published until it is stale or the process is gone;
`unreleased` remembers those contenders, and those whose release failed.

### SessionStream

The buffer with its cap, its notice (`chunk`) and its terminal event, and one record
for each stream: what it still has to write, what arrived during its replay, what it
has sent. Events are objects in the code, so they carry an identity here, in order
of creation. Two branches of `replay.ts` that answer with a stale error do not
appear: subscription happens in the turn of the look-up, so the session cannot have
gone between them. When a session may end is left open here; `ReviewSessions` decides it.

### DocumentCommit and AtomicDocuments

The configuration and secrets documents are two files; a journal holds what both
were before a write. One action is one file operation of `runMutation`,
`writeDocuments`, `compensateFailedWrite` or the recovery, and each file operation
has a failing twin: since a file is replaced by a rename and the directory is
synchronized afterwards, a call that fails may or may not have had its effect.

| Definition | Code |
|---|---|
| `config`, `secrets`, `journal` | the three files; a content is the number of the write that produced it |
| `holder` | the mutex and the two file locks, which are taken together and in one order |
| `pc`, `recovery` | where a process stands, and whether it restores its own failed write or what another left |
| `before`, `draft`, `target` | the bytes before the mutation, the documents in memory, the record being restored |
| `rollbackError` | the latch that refuses every later transaction of the process |
| `Begin`, `Reconcile`, `Load`, `End` | `runMutation`; recovery comes first, then the load, then the operation |
| `Propose` to `ClearJournal` | `writeDocuments`; an operation may write several times |
| `Compensate`, `Reestablish`, `Restore...`, `Reload` | the rollback of a failed write |
| `Quarantine` | `quarantineCorruptFile`, if `Misreads` |

`Crash` is the death of a process, not a loss of power: what a rename has done is
seen by the next process. The restart finds the locks free; that a dead holder's
lock is taken over, and when a live one's is, is the subject of `FileLock`.
The upgrade of old documents, the evidence files of a quarantine and the sweep of
temporary files are left out.

`AtomicDocuments` is what a caller of `writeDocuments` is promised: while a write is
undecided the documents are the old pair or the new one, "ok" means the new pair,
"failed" the old one, and only "unknown" (`ROLLBACK_FAILED`) may mean either. The
refinement maps the abstract documents to `Current`, the journal when there is one
and the two files otherwise, which is what the next holder of the locks will find;
the commit point is therefore the removal of the journal. When an unreadable journal
is moved away, `lost` ends the promise: nobody knows any more what it covered.

## Runs

| Run | Shows | Bounds |
|---|---|---|
| `ReviewSessions` | each review has one outcome that agrees with the disk, its lease lives as long as its work, revocation, eviction; leases are released and sessions end | two scenarios over four requests, see below; two places in the map, one revocation |
| `ConfigurationLeases` | credentials and leases, from the creation of the configuration on; every deletion is answered | two executions, one deletion, two models, three revisions |
| `ConfigurationLeasesRacing` | a violation, see below | two executions, two deletions |
| `ConfigurationLeasesRollback` | a violation, see below | one execution, one deletion, one model, two revisions |
| `LensOrchestration` | limits and answers of the ledger; what a review reports of its lenses and that it ends | three lenses, two at a time, one with too large a prompt; two dimensions with different limits, usages below, at and above them |
| `SessionStream` | order, completeness, announced loss, revocation; streams close | a buffer of two, eight events, two clients |
| `ReviewIndex` | saved reviews stay listed; a move loses nothing and succeeds in the end | three scenarios over three reviews, two paths, one listing, any two failures or crashes |
| `ReviewIndexRetry` | a violation, see below | the same |
| `ReviewIndexMarker` | a violation, see below | one review that moves and a marked one, one failure or crash |
| `DocumentCommit` | the journaled commit implements the atomic one; what recovery and the next operation find | two processes, two writes, journals that may be unreadable |
| `FileLock` | mutual exclusion, takeover, clean-up | three contenders, symmetric |
| `ProjectTrust` | no record is lost, no server believes what was never committed, removals end reviews | two servers, two projects, four requests, one failure |

Scenarios. `ReviewSessions` starts in one of two states, each reachable: in
`Contending` three requests of one project, two of them for the same review, meet while
the project may be revoked (the fourth has been refused before); in `Crowding` three
requests of two projects, one without a diff and one with an unverifiable git state,
want the two places of the map (518,443 states). `ReviewIndex` starts in `Stopping`, where
two reviews move, so that a pass can stop between them, in `Meeting`, where one
moves while another is saved at the destination, or in `Marked`, where two move and the
save of a third at the destination could neither index it nor invalidate the index and
has set the marker (301,455 states); the review that takes no part in one of the first
two failed to be saved before. `ReviewIndexMarker` starts in `Marked` with one review
that moves, `ReviewIndexRetry` from the module's own `Init`.

Why the bounds are enough. Three requests are the fewest with a duplicate and a
competitor at once, and two places in the map make the third one evict or be refused. One
revocation separates two generations. Two executions are a holder and a newcomer, and
three revisions give a record with an active binding and two tombstones. Three lenses,
two at a time, are one that overspends, one in flight and one not launched yet. A
buffer of two is full, overflows, and has a last and a last-but-one slot, which is
what the notice distinguishes; two clients connect at different times. Two failures
are the one that leads into a fallback and the one that hits the fallback; the last
resorts (`MarkFails`, `ExcuseFails`) fail beyond that count, because they are only
reached after two. Two processes are one
that leaves a journal and one that finds it, and two writes are a committed one and
one that is taken back over it. Three contenders are a holder and two that recover
its lock at once. On one server a removal, a grant and a change of another project
queue up, while another server writes between any two of their steps. Deadlock is not
checked in any run, since every system here really may stop: reviews finish, a
configuration is deleted, streams close, a move is committed and the bounds are
reached.

Properties, each stated in words above its definition:

- sessions: `DurableNotDisowned` (no review is on disk whose client was told that it
  was cancelled), `LeaseHeldByLiveWork`, `NoLiveDuplicate`,
  `OnePendingReviewPerProject`, `RevocationFence`; step `EvictionSparesLiveWork`;
  refinement `OutcomeIsDecided`; liveness `LeasesReleased`, `SessionsEnd`;
- configurations: `SurvivorKeepsCredential`, `RevokedOnlyWhileDeleting`; steps
  `CredentialOutlivesLease`, `NoGrantWhileDeleting`; liveness `DeletionsEnd`;
- ledger: `WithinLimitsUntilExhausted`, `ReservedIsHeld`; step `ExhaustionSticks`;
- lenses: `OverspendIsTold`, `FindingsSurvive`, `BlameIsDue`; step `SpendingStops`;
  liveness `ReviewEnds`;
- streams: `BufferSound`, `StreamsInOrder`, `EndedStreamIsComplete`, `LossIsAnnounced`,
  `NothingNewAfterRevocation`; liveness `StreamsEnd`;
- index: `HiddenOnlyIfAbandoned`; step `SourceOutlivesPass`; liveness `MoveCompletes`;
- documents: `OperatesOnCommitted`, `JournalCoversWrites`; refinement `CommitsAtomically`;
- lock: `MutualExclusion`, `NothingLeftBehind`; step `LiveMarkerStays`;
- trust: `MemoryIsGenuine`, `RemovalEndsReviews`; step `RecordsIndependent`.

The type invariants are theorems and in no run, and so is `OneTerminalEvent`, which the
refinement of `ReviewOutcomes` includes.

### Fairness

- `ReviewSessions`: every handler and every runner keeps taking turns. Git has a
  timeout, a provider call is bounded by the admitted wall time, the disk answers.
  Nothing is assumed of clients, timers or the sweep.
- `ConfigurationLeases`: a deletion keeps taking its turns, because the drain has a
  timer; strong fairness of its transaction is the FIFO mutex of the documents.
  Nothing is assumed of the executions: they may hold their leases for ever.
- `SessionStream`: a write to a client that is still connected completes, and the
  session ends, which is what `SessionsEnd` of `ReviewSessions` shows.
- `LensOrchestration`: an adapter answers, by the deadline of its dispatch at the
  latest, and the engine goes on with each callback. Nobody is assumed to abort.
- `ReviewIndex`: saves, listings, rewrites and passes go on, and the lock queue of an
  index is served in order, which is strong fairness of the pass's acquisitions. A
  failure is never assumed. `MoveCompletes` presumes in addition that listings cease:
  while they go on, a recovering pass may find each time that one of them has rewritten
  the destination between its marker and its check, and start over.

### Where the code and its comments disagree

- `ConfigurationLeasesRacing`. Deletion's check and drain run outside the documents'
  mutex, so two deletions of one configuration can overlap. When the drain of one
  times out or its write fails, it clears the revocation that the other relies on; an
  execution can then be granted a lease whose credential the other deletion erases. The comments
  at `ai/admission/service.ts:267-269` and `config/store/crud-actions.ts:490-492`
  exclude this. `ConfigurationLeases` shows that one deletion at a time is safe.
- `ConfigurationLeasesRollback`. A write can be answered with `ROLLBACK_FAILED` while the
  new documents are on the disk and no journal lies beside them: the journal was removed,
  its removal was reported as failed, and it could not be written again
  (`config/store/document-store.ts:485-494`, `:538-548`; `ReestablishFails` of
  `DocumentCommit`). The credential that these documents name is discarded all the same.
  The comment at `config/store/crud-actions.ts:184-185` says that nothing references it,
  "whatever the failure code". `SurvivorKeepsCredential` shows that this is the only way
  to a configuration without its credential.
- `ReviewIndexRetry`. When the source of a move has no certified index, the pass takes
  its reviews from a scan and writes no index before it rewrites them. If the server
  dies then, no index and no scan of the old path names a review that was rewritten, and
  a certified index of the new path hides it. `review/storage/rekey.ts:27-29` promises that "an
  interrupted move always leaves a durable retry set behind". `SourceOutlivesPass`
  shows that the sentence's first half, about the deletion of the source index, holds.
- `ReviewIndexMarker`. A pass that repeats an interrupted move sets the reconciliation
  marker of the destination, publishes, checks that the ids it has claimed are there, and
  removes the marker. `hasCertifiedBase` (`review/storage/project-index.ts:251`) does not
  look at the marker, so on a certified destination nothing is scanned; and the marker may
  be one that a save had left because its review is missing from that index. The review is
  then hidden. `review/storage/rekey.ts:122-123` says that the marker makes the write
  rebuild "from a full scan", `review/storage/reviews.ts:289-290` and
  `review/storage/project-index.ts:30-32` that the next listing merges the save back in.
  In the trace the server dies in the middle of the first pass.

Remarks without a run, because nothing in the repository says otherwise, because it is
said too loosely to be refuted, or because the difference is small:

- `ai/admission/service.ts:523-524` takes the revision for the identity of the admitted
  tuple; selecting a model between the two reads (`SelectModel`) changes the tuple and
  keeps the revision, so an execution may run with the model of its first read.
- `review/stream/store.ts:149-151` calls truncation observable; `terminateSession` ignores
  `firstDrop`, so a session ended with its buffer exactly full loses its last event
  without the notice. `LossIsAnnounced` shows that this one event is all that is ever
  lost in silence.
- A scan removes a marker that was set after the scan began (`review/storage/reviews.ts:425`;
  `markProjectReconcile` does not take the index lock), which goes against the comments
  quoted for `ReviewIndexMarker` in the same way.
- `review/engine/orchestrate.ts:157-160` takes the first dispatch that reports an exhausted
  budget to have spent the envelope. A prompt that is too large reports the same
  outcome with nothing spent (`ai/client/generate.ts:274`), an adapter whose retries have
  used up their own limits does with the envelope not spent
  (`ai/providers/hosted/execute.ts:258-261`), and both stop the others, too;
  `BlameIsDue` accordingly only asks for a lens that reported it.
- A rollback restores the copy from before the mutation under a modification time
  that may be current, and `persistTrustWith` loads before it stats, so a server can
  forget another server's removal until the document changes again. The test
  at `config/trust-store.test.ts:109` covers the document, which is right.
  `MemoryIsGenuine` says what is left: nothing uncommitted, and never one's own.
- POST of a lower trust decides whether to revoke from what its handler read before it
  waited for the mutex (`features/settings/router.ts:80`), so reviews started on a grant
  that was committed meanwhile go on. `RemovalEndsReviews` therefore promises this of
  removals only. Revocation does not reach other server processes, as
  `shared/lib/session-registry.ts:111-113` says.
- A review may start on a grant whose write then fails: the copy in memory is ahead of
  the disk by design, and the exception is written into `RemovalEndsReviews`.

## Proofs

All theorems hold for every value of the constants that satisfies the named
assumption of the module. The inductive invariants are proved and therefore not
listed in any run; each is a state predicate of its module and can be added to the
`INVARIANTS` of the module's configuration.

- `ReviewSessionsProofs`. The inductive invariant is `SessionInv`: the invariants
  alone are not inductive, because whether a terminal event may be written depends on
  where the runner stands. `Consistent` ties each request's program counter to the
  maps, `OneLeasePerTuple` and `PendingAgree` say why two live reviews cannot be
  equal and why two pending ones cannot differ. One lemma covers every terminating action
  (`TerminatePreserves`), the remaining lemmas one group of actions each. The corollaries are
  `TypeOK`, `OneTerminalEvent`, `RunnerOwnsSession` and the five invariants of the run.
  They use that the input hash covers the execution fingerprint
  (`ReviewSessionsAssumption`), as `reviewInputHash` does.
  `EvictionsSpareLiveWork` counts: the eviction order puts completed sessions first, so
  when a live one is among the first n, the completed ones are all among them
  (`CompletedAreEvictedFirst`).
  `EachReviewHasOneOutcome` is the refinement of `ReviewOutcomes`. It needs `Undecided`
  besides `SessionInv`: while its runner is under way, a review has been told neither
  that it is complete nor that it failed, and it is on the disk when its runner says so.
  Each way a session ends is shown to tell some reviews in progress one thing each
  (`FinishTells`, `TerminateTells`, `ActivateTells`), which `TellRefines` turns into the
  abstract step.
- `ConfigurationLeasesProofs`. `CredentialInv` says what the transaction that holds
  the documents is about to write, restore or erase, whether a write succeeds or fails with
  either pair of documents in place, and gives `SurvivorKeepsCredential`, with its
  exception (`discarded`), for any number of racing deletions; `RevokedOnlyWhileDeleting`
  holds for any number as well. `DrainInv` says that a deletion past its drain has the
  revocation in force and no lease outstanding; it needs deletions not to overlap
  (`OneDeletion`), as the racing run shows, and gives `NoGrantWhileDeleting`,
  `CredentialOutlivesLease` and `DeletedAdmitsNothing`.
- `DocumentCommitProofs`. `CommitInv` says what is on the disk at each stage of a
  transaction (`StageInv`): that a journal covers the files is not inductive by
  itself, because what a step writes comes from the memory of the process. Since the
  holder of the locks is alone (`TransactionIsAlone`), a step only has to restore its
  own stage. The corollaries are `TypeOK`, `JournalCoversWrites` and
  `OperatesOnCommitted`. `CommitIsAtomic` is the refinement, one lemma per group of
  actions.
- `FileLockProofs`. `LockInv` says that a prompt holder finds its marker in the lock,
  that what a recovery is about to remove belongs to a dead or old owner, that a staged
  directory is complete unless its owner was stalled, and that what lies around after its
  owner is through could not be removed. It gives
  `MutualExclusion`, `NothingLeftBehind` and `LiveMarkerStays`. The mutual exclusion
  is conditional on `Prompt`: the code takes a lock over after `staleMs` although
  its owner lives, and relies on transactions being short.
- `SessionStreamProofs`. The inductive invariant `StreamInv` is about the trail of a
  stream: what it has written, what it still will, and what arrived during its replay.
  The trail is in the order of creation (`InOrder`), holds all that the buffer retains
  until the stream is cut off (`Follows`), and what may be written without another look
  at the authorization is older than the revocation (`Obeys`). Because the trail is in
  order, the filter that follows a replay drops nothing (`FreshKeepsAll`). It gives
  `TypeOK` and the five invariants of the run for any clients, any events and any cap;
  `BufferInv` and `LossInv` are what it says of the buffer.
- `LensOrchestrationProofs`, of the ledger. `WithinLimitsUntilExhausted` and
  `ExhaustionSticks` follow from the bound on `drawDown` (`DrawDownBounded`).
  `ReservedIsHeld` says that a running total is a sum over the open reservations, which
  the model writes as a fold. Nothing can be proved of the fold by induction here, so
  sums are characterized instead: a function over the subsets of a finite set that is
  zero on the empty one and adds one term at a time. Such a function exists
  (`SumsExist`), and two of them agree, since a smallest set on which they differ has an
  element to remove (`SmallestSubset`, `SumsAgree`). From this follow what a sum becomes
  when one term changes, comes or goes (`HeldByMoves`, `TotalMoves`), and
  `LedgerReservedIsHeld` for any number of reservations.
- `LensOrchestrationProofs`, of the review. `ReviewUsesLedger` is the composition: every step of a
  review is a legal call of the ledger or leaves it alone, so what is proved of the
  ledger holds of any review. `LensInv` ties the stages and results of the lenses to
  what stopped them and what was reported, and gives `OverspendIsTold`,
  `FindingsSurvive`, `BlameIsDue` and `SpendingStops` for any number of lenses and any
  concurrency.
- `ReviewIndexProofs`. `IndexInv` says what each party knows: the holder of an index
  lock is in the rewrite it is for (`Held`), no index, draft, listing or pass names a
  review that never was at its path (`Genuine`), an index that exists, and every draft
  about to replace one, covers each review it owes (`Covers`), and a rewrite loses no
  entry whose review is still there (`DraftHolds`). The last is what makes the second
  clause of `Covers` inductive when a pass or a scan removes the reconciliation marker
  while somebody else holds a draft; what such a removal hides is in `unmerged`, which
  `Covers` and the theorem except. `Published` says the same of the destination
  from the check of a recovering pass until the source is removed. `HiddenOnlyIfAbandoned`
  and `SourceOutlivesPass` follow for any number of reviews, listings, projects, failures and crashes; `IndexInv` does
  not mention the cursor markers.
- `ProjectTrustProofs`. `TrustInv` says that the head of a server's queue is the only
  request in a mutation there, that every copy and every backup holds records that
  were on the disk or are about to be, and that it holds the changes the server has
  answered. It gives `MemoryIsGenuine`, `RemovalEndsReviews` and `RecordsIndependent`
  for any number of servers, projects and requests.

TLC only: the liveness properties (`MoveCompletes`, `DeletionsEnd`, `LeasesReleased`,
`SessionsEnd`, `StreamsEnd`, `ReviewEnds`), because fairness speaks of ENABLED, which is
out of the prover's reach. Every invariant, every property of steps and both
refinements that the passing runs check are theorems; `NoGrantWhileDeleting` and
`CredentialOutlivesLease` under the assumption their run makes too, that deletions do
not overlap.

## Not modelled

What a review says, how a prompt is built and how a provider answers: the outcome of a
dispatch is a choice. Wording and layout of events. The keyring and the file formats.

Left out of the modules that exist:

- `ReviewIndex`: index files that do not parse, pages and cursors of a listing, the
  migration of legacy records and the salvage of damaged ones;
- `LensOrchestration`: thresholds, events and findings; the adapters, diagnostics and
  redaction of the generation client;
- `ProjectTrust`: a restart of a server, the quarantine of an unreadable document, two
  writes within one tick of the file clock, and the comparison of `repoRoot`;
- `SessionStream`: the resume queries that never stream, and the heartbeat;
- `ConfigurationLeases`: conformance certification;
- `DocumentCommit`: the upgrade of old documents, evidence files, temporary files, and
  what a power failure does to unsynchronized directories.

Hazards that no property covers, besides the one of `features/settings/router.ts:80`
and the model of an admission above: the server dies between the review file and its index
entry (`review/storage/reviews.ts:274`; `HiddenOnlyIfAbandoned` excepts it as abandoned,
since nothing in the code looks for such a review again), and a scan removes a marker set
after it began (`review/storage/reviews.ts:425`; excepted as unmerged). Two more were found
and have no model: an update of a configuration erases the secret it replaced without waiting for
executions that resolved it (`config/store/crud-actions.ts:383`), and a crash after
secret material is stored and before the record names it leaves material nobody reads
(`config/store/credential-lifecycle.ts:194`); the code promises nothing in either case.

Most of the repository lies outside: of its source lines the larger part is the
component library, the web and terminal screens, the registry tools and the
generated catalog data, all of it presentation or one-shot conversion. What remains
of the server is I/O with little state of its own (transports, git, routes, caches),
text algorithms (diff parsing, evidence), or the behaviour of operating-system
processes and signals (the process supervisor), which a model would have to assume
rather than translate. `PROJECT.json` says which component is left out and why.
