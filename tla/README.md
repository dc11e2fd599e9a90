# A verification of the personal YouTube downloader

TLA+ models, TLC runs and TLAPS proofs about the Go service in `src/internal/app`
and its web client. Modelled: the job manager (`manager.go`), the pipeline with
its tools and the video directory (`downloader.go`, `runner.go`, `store.go`), the
share links with the handlers that use them, who is let in (sessions, rate
limiter, client address), and one page of the web client. Section 5 says what is
left.

## 1. Inventory

| Component | State | Operations | Talks to | Hard behaviour | What makes it correct |
|---|---|---|---|---|---|
| Job manager (`manager.go`) | registry `jobs`, per job: record, `active`, `fetching`, `deleting`, context, `seq`, `titleTries`, `saveMu`; `closing`, condition variable | `Submit` `Retry` `Get` `List` `Delete` `Close` `Recover`, one download worker, three title workers, asynchronous saves | store, pipeline, fetcher; called by the handlers | many goroutines over one mutex that is dropped around every slow call | one owner per job, one finalizer per removal, no stale save, no lost wake-up, nothing lost over a restart |
| Job record (`model.go`) | none | `unfinished`, `statusForStage`, `view`, `VideoID`, `SafeFilename` | | parsing of URLs and names | accepts exactly the eleven-character IDs; names are safe |
| Disk store (`store.go`) | `videos/<id>/{metadata.json,video.mp4}` | `Save` `Load` `Scan` `Remove` `OpenVideo` `VideoSize` `Total` | file system | crash between system calls, partial removal | the old or the new record is read, never a part; a confirmed removal holds |
| Pipeline (`downloader.go`) | work directory | `Download`: fetch, yt-dlp, probe, ffmpeg, publish | runner, manager's `report` | cancellation at every step, tools that fail | success means the file is in place |
| Fetcher (`metadata.go`), runner (`runner.go`) | child process, its group, two readers | `Fetch`, `Run` | tools | kill on cancellation, tools that hang or leave children | the command and its readers end with `Run`, a killed group whole; a killed tool is not a failed one |
| Client address (`http.go`) | none | `clientIP` | rate limiter | forged headers, chains of proxies | a client counts as itself, whatever it writes |
| Share links (`links.go`) | map of hashed tokens, `links.json` | `Issue` `Lookup` `Revoke` `Prune` `Load` | handlers, store | race with deletion and retry, failed saves | a link opens only the run it was issued for |
| Sessions (`auth.go`) | map of sessions, `sessions.json` | `Create` `Lookup` `Revoke` `RevokeAll` `Prune` `Load` | handlers | cap, expiry, failed saves, password change | a revoked session stays revoked |
| Rate limiter (`auth.go`) | attempts per client | `Attempt` | login, bearer check | sliding window with two limits | never more failures in a window than allowed |
| Handlers (`http.go`) | none | JSON API, media, login | all of the above | several calls per request with gaps between | |
| `cmd/server/main.go` | none | recover, serve, close, exit | all | requests during `Close` | |
| Web client (`main.ts`, `api.ts`, `ui.ts`, ...) | list shown, timer, CSRF token, login form | boot, poll, submit, retry, delete, sign in | API | overlapping requests, late answers, sessions that end | the list never goes back; the page is never left idle; it catches up |

`PROJECT.json` lists the components with their status, and the hazards at their
lines.

## 2. Modules

| Module | What it is |
|---|---|
| `Manager.tla` | the manager, with the outcomes of the store, the pipeline and the fetcher, boot, exit and crash |
| `ManagerProperties.tla` | type invariant, invariants, action properties, fairness, liveness, and the statements of comments and tests the code does not keep |
| `Library.tla` | abstract: what the manager promises the rest of the server - cards, their runs, removals that hold |
| `LibraryOfManager.tla` | the refinement mapping under which `Manager` implements `Library` |
| `Links.tla` | the link store, `links.json`, and the handlers for share, retry, create, delete and public media, over `Library` |
| `LinksProperties.tla`, `LinksHistory.tla` | what the links promise; a history variable for what is said of links that should no longer work |
| `Files.tla` | abstract: what the manager takes for granted of the store and the pipeline, for one video |
| `DiskStore.tla` | `Save` and `Remove` system call by system call, with what is durable and what is not |
| `Runner.tla` | `ProcessRunner.Run`: the command, its child, its pipes, the readers, the kill |
| `Downloader.tla` | `Download` over both, with the ends of the process, and the properties of all three |
| `FilesOfDownloader.tla` | the refinement mapping under which `Downloader` implements `Files` |
| `Clock.tla` | the clock the next two read |
| `Sessions.tla` | the session store and `sessions.json`, over restarts with other passwords, and its properties |
| `RateLimiter.tla` | the limiter, a reference count over the log of all attempts, and the properties that relate them |
| `ClientAddress.tla` | `clientIP`, and the requests that can arrive |
| `Access.tla` | login, logout and bearer checks over these three |
| `WebClient.tla` | a page, its requests, and as much of the server as it meets; its properties |
| `MCManager`, `MCLibraryOfManager`, `MCLinks`, `MCAccess` | symmetry sets for TLC; the `.cfg` files give the constants |
| `ManagerProofs`, `OwnershipProofs`, `ScheduleProofs`, `PersistenceProofs` | TLAPS proofs about the manager: types; identity and deletion; the queue; the disk, and that it implements `Library` |
| `LinksProofs` | TLAPS proofs about the library and the links |
| `AccessProofs` | TLAPS proofs about the sessions, alone and in `Access`, the client address and the limiter |
| `DownloaderProofs`, `WebClientProofs` | TLAPS proofs about the pipeline with its store and runner, and about the page |

The parts are composed through what they promise each other:

* `Manager` gives the store and the pipeline outcomes (what a failed save leaves,
  what the end of the process may leave, in which order the stages come). `Files`
  has the same outcomes for one video, and the run `files` shows that `Downloader`,
  made of system calls and goroutines, has no others. `Files!Crash` is
  `Manager!Crash`: what the system was told before the process ended is there
  afterwards. `Files` has more than `Manager` in one place, `PowerLoss`: it keeps
  in `may` what a power loss would leave, where a change is alone only once a sync
  has followed it. The theorem `PowerLossBetweenCalls` says when the two are the
  same: between calls, as long as none has failed or been cut short. After an error
  of `Save` or `Remove`, after the ignored sync of `publish`, or within a call, a
  power loss may take back what `Manager` takes for done. What that can do to one
  directory is checked in `files` (`CrashSafe`, `PublishedIsVerified`); what it would
  do to the cards is not modelled.
* `Links` has the manager inside as an instance of `Library`, so it is checked
  and proved against every manager that keeps those promises, and
  `library_manager` shows that the one in `manager.go` does.
* `Access` composes sessions, limiter and client address by their operators: a
  login is an attempt of the address `clientIP` finds and, if let in, a `Create`.
* `WebClient` meets the server over HTTP only; of the manager it sees a list that
  gets newer, of the sessions that they are honoured or not.

### How `Manager.tla` corresponds to the code

*Grain.* Every stretch of code that runs under `Manager.mu` is one action. What
happens between two of them is an action too: a metadata write (between
`BeginSave`, which takes `saveMu` and the snapshot, and `EndSave`), a removal
(`Finalize`, then `RemoveFiles` or `RemoveFails`, then `Unregister` or
`KeepCard`), a stat made by `List`, a call into yt-dlp or ffmpeg. `pc` holds
where each goroutine is, `own` the job it works on. All goroutines interleave.

*Job objects.* A `jobState` is a number, in order of creation. It stands for the
`CreatedAt` stamp that is saved with the record, so a record of an earlier card
of the same video is told apart from the present one. A context is named by the
sequence number the job had when the context was made, because the code always
replaces both together; `Done(r, c)` is `ctx.Err() != nil`.

| Code | Model |
|---|---|
| `Submit` | `SubmitAnswered`, `SubmitWaits`, `SubmitRequeues`, `SubmitNew`, `SubmitUnsaved` |
| `Retry`, `requeueLocked` | `Retry`, `requeueLocked` |
| `Delete`, `waitRemoval` | `Delete`, `WaitTimesOut` |
| `List` | `List`, `StatFinds`, `StatMisses`, `Downgrade` |
| `saveCurrent` | `BeginSave`, `SkipSave`, `EndSave`; with `go`: `BeginAsyncSave`, `EndAsyncSave` |
| `markUnpersistable` | `Mark` |
| `downloadWorker`, `runDownload` | `Sleep`, `PickDownload`, `StartDownload`, `Report`, `EndDownload`, `ReleaseDownload`, `ExitWorker` |
| `VideoDownloader.Download`, `publish` | `MakeWork`, `Report`, `CheckContext`, `Publish`, `PublishNothing`, `PipelineFails`, `PipelineCanceled` |
| `titleWorker`, `runTitleFetch` | `PickTitle`, `StartFetch`, `FetchReturns`, `ApplyTitle`, `ApplyRejection`, `AfterError`, `Pause`, `BackoffCancelled`, `BackoffElapses`, `GiveUp`, `ReleaseFetch` |
| `finalizeDeletion` | `Finalize`, `RemoveFiles`, `RemoveFails`, `Unregister`, `KeepCard` |
| `Close` | `Close`, `ConvertInterrupted`, `CloseSaves`, `CloseReturns` |
| `NewManager`, `Recover` | `Boot`, `Recover`, `RecoverFails` (`Scan` returns an error and `main` gives up) |
| `main` after `Close`; a crash | `Exit`; `Crash`; both leave one of `Residues` |

*Ends.* Handlers and asynchronous saves may be half way when the process ends,
also when `main` returns after `Close`. `Torn` is what may then be left of one
directory: as it is, a removal or a save half done, or made by a first save.
`Residues` puts these together: all directories may be torn at once, but only one by a
first save, which `Submit` makes under the mutex. `Recover` may fail to look at one
file (`Unread`); the card comes back failed although its file is there
(`manager.go` 100).

*Abstraction.* A title is known or not. Progress, sizes, error texts and
durations are left out. A directory is a record: exists, metadata, video present
(a video that is empty or not a regular file counts as absent, as the code
treats it). The unlocked reads of `js.ctx` (a data race) return any context the
job may have had since the worker captured its own (`CtxReads`).

*Seeded faults.* Operators introduced by `\* Seeded fault` are not used by the
specification. Each is a plausible bug of the operator after it; the mutants in
`PROJECT.json` put it in that operator's place to show that a property notices.

### How `Links.tla` and `Library.tla` correspond to the code

A `LinkStore` method holds the store's mutex throughout and is one action, its
write of `links.json` included. A handler calls the manager and the store one
after the other without a common lock; each call is an action, and `pc`, `arg`
hold where a request is and what it read.

| Code | Model |
|---|---|
| `handleShareLink` | `Share` (`Get`), `Issue` |
| `handleRetryJob` | `Retry` (`Manager.Retry`), `Revoke` |
| `handleCreateJob` of a failed video | `Resubmit`; of a new one: `Lib!Add`, `Lib!Refuse` |
| `handleDeleteJob` | `Delete` (the removal, confirmed to the requests that wait), `Revoke` |
| `handlePublicMedia` | `Lookup`, `Get`, `OpenVideo`, `Sent` |
| `pruneLocked`, `Issue`'s eviction | `Pruned`, `Room` |
| `persistLocked`, `writeFileSync` | `Persisted`, `NotPersisted`; `older` are the files it replaced, any of which a power loss may bring back, since the directory is never synced |
| `Load` | `Start` |
| everything else the manager does | `Manage` |

A run number stands for `CreatedAt`. The code compares time stamps, which are
distinct as long as the clock does not go back; that is assumed. Tokens are
numbered as they are issued; that they cannot be guessed is not modelled.

`Library` has a card per video with a run and one of three statuses
(unfinished, ready, failed). While the process is down its cards are what
`Recover` would make of the disk (`Stored`), which is how a crash in the middle
of a save or a removal becomes one step, `Stop`.

### How `Downloader.tla`, `Runner.tla` and `DiskStore.tla` correspond to the code

*Grain.* A system call that changes the directory is one action, and so is every
stretch of `Download` between two tools. `at` is where `Download` is, `op` the next
call of `Save` or `Remove`. The manager's order is assumed, as `StoreIsUsedInOrder`
has it: one `Download` at a time and only of a video with a card (`card`), `Save` at any
time, `Remove` only while no `Download` runs. The directory of a card may be missing, after
a failed removal and a failed save; `MkdirAll` then makes it (`MakeDir`).

| Code | Model |
|---|---|
| `Download` | `BeginDownload`, `ClearWork`, `MakeDir`, `MakeWork`, `WorkFails`, `Report`, `CheckContext`, `Cleanup` |
| `publish` | `SyncOutput`, `CloseFails`, `RenameOutput`, `SyncDir`, `PublishFails` |
| `Fetch`, `runYtDLP`, `probe`, `runFFmpeg`, `analyzeVideo` | `StartTool`, `ToolFailed`, `ToolSucceeded` with `Fetched`, `Downloaded`, `VideoProbed`, `AudioProbed`, `OutputProbed` |
| `ProcessRunner.Run` | `Start`, `StartFails`, `Hears`, `ReadersEnd`, `GivesUp`, `Wait`, `Returned` |
| os/exec, tools (external) | `Kill`, `Prints`, `Forks`, `ChildEnds`, `Exits` |
| `Save`, `writeFileSync` | `BeginSave`, `SaveMakesDir`, `WriteRecord`, `EndSave`, `SaveFails` |
| `Remove` | `BeginRemove`, `UnlinkRecord`, `UnlinkVideo`, `RemoveDir`, `EndRemove`, `RemoveStops` |
| `CleanWorkFiles`; a crash; a power loss | `Boot`; `Crash`; `PowerLoss` |

*Disk.* For each name `now` is what the process sees and `after` what a power loss
may leave. A change joins `after` when it is made and is alone there once the
directory is synced; an unsynced file that is renamed may be torn. No order is
assumed between different names. Syncing `videos/<id>` is taken to make its own
entry last too, as journaling file systems do, although `store.go` does not sync
the parent after `MkdirAll`.

*Media.* A file is the number of the `Download` that made it and how good it is:
`partial` while ffmpeg writes, then `unfit` (probe or `analyzeVideo` rejects it),
`short` (of another duration than its source) or `good`. `yt-dlp` keeps
a file it finds; that is why `work` is cleared first.

*Tools.* A tool prints at most one line on each stream, which is enough to tell
apart what the callers look for (the last line of either stream, any line of
JSON, everything as JSON). It may hang for ever, or end either way, and it may
leave one child at a time in its group, which holds both pipes or neither (as a child
whose output is redirected). Only `Kill` reaches the group, so a child without pipes may be alive
when `Run` returns after a normal end. A reader may give up before its pipe ends
(`GivesUp`: a line too long for the scanner, an error of the read).

### How `Access.tla`, `Sessions.tla`, `RateLimiter.tla` and `ClientAddress.tla` correspond to the code

Each method of the session store is one action: `Create`, `Revoke`, `Prune`,
`LookupExpired` (the only `Lookup` that changes state), `Stop`, `Start` (`Load`). A
fingerprint stands for its password. `loggedOut` is a history variable.

`Attempt` is the limiter's only operation (`Denied`, `Examined`); what `verify`
finds is its parameter (`bad`, `login`, `token`). `log` and `told` are history
variables: every attempt ever recorded, and when a denied client was last told
to come back. The limiter is per process and forgets everything at a restart.
The code keeps the attempts of an address in a slice, but no method looks at its
order, so here it is a set of attempts, each numbered by its entry in `log`, which tells
apart two attempts of one address and moment. With a set, the limits are
cardinalities, about which the prover has theorems.

`Arrivals(c)` are the requests of a client `c`: what it forges, passed on by up to
two trusted proxies, each of which appends the address it was called from;
`Keys(c)` are the addresses `clientIP` counts them under. In `Access`, `handleLogin`
and `requireAuth` attempt under any of them. `guessing` is a bound: a behaviour
has either wrong guesses and tokens, or cookies, faults and stops, because the two
touch different state and their product only costs states.

### How `WebClient.tla` corresponds to the code

An async function is a flow, and a step runs from one `await` to the next;
`call` holds the request a flow awaits and its answer, which other steps may
overtake. The server answers at once or late (`Serves`), or the request is lost
(`Fails`). A login is answered in two steps, as in a browser: its headers
set the cookie (`Signs`), its body reaches the page later.

| Code | Model |
|---|---|
| `boot` | `boot` |
| `refresh`, `ensureSession` | `Refreshes`, `refresh`, `refreshEnds` |
| `startPolling`, the timer, `visibilitychange` | `startPolling`, `Tick`, `Visible` |
| `showLogin`, its form | `showLogin`, `SignIn`, `login` |
| submit, retry, delete | `Act`, `Acted` |
| `requireSession`, `handleSession`, `handleLogin`, `handleListJobs` | `Serves` |
| other pages, the workers, the end of a session | `OtherPage`, `Works`, `Expires` |

The list is the number of its version, a session a number that is also its
token and its cookie. Numbers nobody holds are used again, which keeps the state
finite without a bound on sign-ins. The failure of a wrong password is `Fails`.

## 3. Runs

Only `webclient` checks deadlock: a page always goes on. The other models rightly
stop once the bounds below are spent and everything is done. All but `admission`,
`progress`, `files`, `webclient` and `finding_link_fresh` use symmetry, over videos, requests,
title workers, passwords or clients, whichever they have.

| Run | Asks | Bounds |
|---|---|---|
| `requests` | do two requests on one video, with both kinds of worker, keep ownership, the single finalizer, the disk and the wake-ups right | 1 video, 2 requests, 1 title worker, 2 title attempts, 1 card, 2 sequence numbers, 1 lost video |
| `admission` | does the limit hold; is every queued job served, behind others, after a retry | 3 videos, a limit of 2, 3 cards, 3 sequence numbers, no title worker, fairness below |
| `progress` | do deletions and `Close` end | 1 card, 1 title worker, 1 shutdown or crash, no fault, fairness below |
| `library_manager` | what failing storage and restarts do to waiters, removals and cards; does `Close` leave a job in a status only a pipeline can end; is every step one that `Library` allows | 1 video, 3 cards, 1 fault (of a save, a removal or the recovery), 1 lost video, 1 shutdown or crash |
| `files` | what is published, what survives; does a cancelled download end; does every call and every end leave the directory as `Files` allows | 2 downloads, 2 saves, any removals, 1 fault (a failing call, or a reader that gives up), 1 crash or power loss |
| `links` | do links of removed runs stay closed and others last, in every order of the calls | 2 requests, 2 runs, 3 tokens for a limit of 2, expiry, 1 failed write, 1 power loss |
| `access` | who is let in, at what cost, and who is signed out | 2 passwords, 4 ticks, 3 tokens for a limit of 2, 2 restarts, 1 fault, 1 power loss; 2 clients, 1 proxy, window 2, 2 failures, 3 attempts, 4 records |
| `webclient` | does the page show what the server had, in order, and come to rest with a list and a token | 2 versions of the list, 2 logins at once, 2 mishaps (a session that ends, a request lost or refused, a sign-in elsewhere, a login sent twice) |

The bounds are small because the hazards are: each needs two or three goroutines
over one job, one requeue, one removal and one new card of the same video. One
sequence number more than cards is what makes a requeue possible (in `admission`, where a
card may stay out instead, as many are enough); one card more
than videos is what makes a resubmit after a removal possible; `MaxPending` 1
lets one asynchronous save be late while others overtake it. `admission` has one video more
than the limit, so that one is refused, two are queued at once, and a retried job
stands behind another; without a title worker it cannot reach the excess of one job that
`WaitingWithinLimit` allows for, which the theorem `LimitHolds` covers. `progress` has no fault,
because `MaxPending` would then hold up a removal that the code does not hold up (`KeepCard`
spawns a save while it keeps the lock the pending one waits for); that a failed removal
answers its waiters and leaves a retryable card is `WaitersHaveAnAttempt` and
`NoneIsStranded`. One token more than
the limit makes a store evict. Two downloads let one find what another left; the
second save is what a power loss may take back; one failing call, one stop and a
cancellation meet in every order. Two mishaps let a session end while the sign-in
that follows is itself crossed or lost; there are two refreshers so that the
flag that keeps them apart is a property and not the shape of the model. The
passing runs together take every action, and
every disjunct of every next-state relation.

The properties, one line each:

* `OwnedIsRegistered` - no removal or resubmit takes a job from under a worker.
* `OneFinalizer` - a marked job has exactly one goroutine that completes its
  removal, whichever worker lets go last.
* `WaitersHaveAnAttempt` - who waits for a removal waits for one in flight.
* `RemovedStaysRemoved` - a confirmed removal is never undone, in memory or on
  disk, by a late save, a resubmit, a failed submit or a crash.
* `SettledMatchesDisk` - when the saves are over, the disk says what memory says.
* `CardsAreOnDisk` - a card is on disk from before its submission is answered, and
  ready means the file is there.
* `NoneIsStranded` - a pipeline status has a pipeline behind it, also after `Close`,
  and no job can only ever be cancelled.
* `NoSleepOverWork` - the download worker never sleeps over a queued job, and nobody
  sleeps through `Close`; title workers may sleep over a job, see below.
* `WaitingWithinLimit` - jobs waiting for their turn stay within the limit, and
  all unfinished ones within the limit plus one.
* `ReadyLeavesThroughFailed` - no late report or fetch revives a finished job.
* `DeletionEnds`, `CloseEnds` - liveness: no removal, and no `Close`, waits for a tool to
  end by itself.
* `QueuedIsServed` - liveness: a queued job gets its turn, whatever is queued or retried
  besides it.
* `ImplementsLibrary` - every step of the manager is one `Library` allows.
* `NothingOutlivesRun` - when `Run` has returned the command and its readers have ended; a
  child is left only without a pipe, or with one whose reader gave up, and none if the group was killed.
* `KillIsNotBlamed` - a tool we killed makes an interrupted download, never a
  failed video.
* `CrashSafe` - a power loss between any two system calls undoes no confirmed removal, and
  leaves the old record or the new one; once a `Remove` has begun it may leave none.
* `PublishedIsVerified`, `PublishedIsOwn` - what is served is whole and passed every
  check, and comes from the download that published it.
* `CancelledEnds` - liveness: a cancelled download returns, though its tools hang.
* `ImplementsFiles` - every call of store and pipeline, and every end, leaves the directory as
  `Files` allows, and a power loss takes only what no sync has followed.
* `RunsAreFresh` - a run is one card's, and never back from a removal.
* `RemovedRunsStayClosed` - no link of a removed run opens anything, whatever was
  revoked too early, not saved, or undone by a power loss.
* `LinksAreOnDisk`, `SessionsAreOnDisk` - the end of the process forgets no link and no session
  that is honoured, whichever writes failed before. A power loss that brings an older file
  back may, and so may a `Load` that cannot read it.
* `WithinLimit` (links, sessions) - the limits hold in memory and in every file a
  restart may read, although only `Issue` and `Create` enforce them.
* `LinksLast`, `SessionsLast` - while the server runs a live link or session goes
  only by a revocation or as the oldest of a full set.
* `OnlyThisPassword` - only sessions of the password in use are honoured.
* `WindowBound`, `DecidesAsReference` - no window holds more than the limits, and the
  limiter turns away, and tells to come back, whom the log says it should.
* `ListNeverGoesBack` - no older list replaces a newer one on the page.
* `PollsOrAsks` - after the boot the page polls or asks for the password.
* `CatchesUp` - liveness: it comes to rest with the last list, and with a token,
  the cookie's own unless a sign-in was crossed or cut off.

### Fairness

A goroutine that can go on goes on (weak fairness per goroutine, and of each
asynchronous save). `saveMu` is taken by several goroutines again and again; Go
mutexes hand over to a waiter that was passed over (starvation mode), so taking
it is strongly fair. Nothing is assumed of the requests, of the bounds' events,
or of a tool that still has a live context: `FairSpec` only says that a tool
whose context is done returns, because the runner kills it. `QueuedIsServed` is checked
under `ServedSpec` instead, which assumes less of the goroutines and more of the tools: the
download worker goes on, the tools of the pipeline end by themselves, and a save or removal of the
job at hand, once under way, ends. Nothing is then assumed of title workers, of `Close`, or
of other requests.

In `Downloader`, `GoroutinesRun` says that while a goroutine of `Download`, of a run
or of os/exec can go on, one of them does. Nothing is assumed of the tools, of their
children, or of the store's calls.

In `WebClient`, every read is answered or given up, and of the logins under way
one is; the timer fires, and the user signs in when asked to. The first is an assumption about the browser and the
network: `api.ts` sets no timeout, and a list request that hung for ever would
hold `refreshing` for ever.

### Disagreements between the code and what is said of it

Each is a run that TLC finds violated, with one property.

* `finding_downgrade`: `List` downgrades a card whose file is there, when the
  file was downloaded again between its two looks (`manager.go` 271).
* `finding_publish`: `publish` returns no error when only closing the file
  failed (`downloader.go` 366), and has moved nothing.
* `finding_link_run`: `handlePublicMedia` compares the run and then opens the file
  by the video's name (`http.go` 580, 584); in between the video may be deleted,
  submitted and downloaded again, and the old link sends the new run's file.
* `finding_link_fresh`: a failed video submitted again is downloaded afresh, and
  unlike after a retry its old links still open (`http.go` 398).

Other differences that the models contain and that have no run of their own:

* "All mutations are atomic ... even across crashes" (`store.go` 29-31) is not so of `Remove`:
  `RemoveAll` (177) deletes the files and then the directory, and a stop in between leaves
  a directory without its record or without its video. `Recover` makes a failed card of it.
  `CrashSafe` allows it (`NoRecord` is safe once a `Remove` has begun), and so does
  `Torn` in `Manager`.
* A title worker may sleep over a job: when it has rejected a job as unsupported that
  the download worker had just picked, `runDownload` (`manager.go` 426) or a report makes the job
  unfinished again without a broadcast. Its title is then fetched by the pipeline.
* A revocation may come late (`http.go` 466, 490): when the video has been submitted, downloaded
  and shared again in between, it drops the links of the new run. `LinksLast` allows it.
* `Create` evicts the oldest session before it saves the new one (`auth.go` 254): when the save
  fails, the new one is taken back and the old one stays gone. `SessionsLast` allows it.
* `links.json` and `sessions.json` are renamed into place without a sync of their directory
  (`store.go` 95): a power loss may bring back any file that a later one has replaced.
* `Run` kills the group on cancellation only (`runner.go` 73): after a normal end a child that
  was redirected from the pipes may live on.

* The admission limit can be exceeded by one (`manager.go` 426): the worker picks
  a job, the title worker fails it as unsupported, its place is given away, and
  `runDownload` sets it downloading. `WaitingWithinLimit` states what is kept.
* `js.ctx` is read unlocked (`manager.go` 648, 653) against the comment at 611;
  after a requeue the delay waits on another context than the fetch holds.
* A removal that fails gives back a ready card whose record on disk still says
  it is being verified (`manager.go` 530): after a restart it is failed, its file
  notwithstanding.
* `Revoke` of links and of sessions ignores a failed write (`links.go` 148,
  `auth.go` 300): a restart may bring back what was revoked, except links of
  removed runs.
* `Load` drops sessions of another password from memory, not from the file
  (`auth.go` 216): changed back before anything is written, they are live again.
* After it has answered 415 or, for a second JSON object, 400, `parseBody` returns
  a nil error (`http.go` 592-606) and the handler goes on: a login is counted, or
  made, behind an answer that refuses it.
* A `Remove` whose sync of the parent failed returns an error; tried again it
  finds no directory, returns `ErrNotFound` (`store.go` 174), and the manager takes
  that for done: this removal a power loss may still undo. `CrashSafe` is about
  those that `Remove` confirmed.
* `Run` waits for its readers before `cmd.Wait` (`runner.go` 114), so `WaitDelay`,
  which counts only inside `Wait`, has no effect: a child that keeps the pipes open
  holds a download until it is cancelled. A line longer than the scanner's 1 MiB
  (`runner.go` 107) ends the reader, and a tool that goes on printing is blocked in the same way.
* A 401 that arrives after a sign-in opens the login form over a session that
  works, and stops the polling (`main.ts` 47); the 401 of the boot leaves the form
  over a page that polls. `CatchesUp` needs the user to sign in once more.
* The login form can be sent twice, a sign-in on another page replaces the cookie, and
  a late answer of `/api/session` may overtake a sign-in. Since the token is
  asked for only while it is empty (`main.ts` 31), the page may keep the token of one
  session under the cookie of another, and every action answers 403 until the
  page is loaded again. `crossed` marks these behaviours in `CatchesUp`.
* A refresh asked for while another is under way is dropped (`main.ts` 38): after
  a submit the page may show the list from before it until the next poll.

## 4. Proofs

`ManagerProofs.tla` proves `TypeCorrect == Spec => []TypeOK` for every value of
the constants that satisfies `BoundsAssumption` and `NamesAssumption` (the limits
are positive, the sets of names are disjoint, the set of videos is finite).
`TypeOK` says more than the kinds of the variables: a goroutine at any label of
a working section has a job object in its hands, and a title fetch never makes
more than `TitleAttempts` attempts. The second is not inductive: the counter is
compared in `AfterError` and incremented two steps later in `BackoffElapses`.
`RetriesLeft` carries the comparison over the delay, and `TypeOK /\ RetriesLeft`
is the inductive invariant. There is one lemma per operation, one step in it per
part of `TypeOK` that the operation touches; `StepCases` is the flat list of
operations, and the theorem joins them.

`OwnershipProofs.tla` first proves `IdentityCorrect == Spec => []Identity`: a card is
registered under its own video (`CardsOK`), the records on disk carry the stamps
of different, created cards (`RecordsOK`), and the snapshot a save writes is of
the card whose `saveMu` it holds (`SnapshotsOK`). It is inductive given `TypeOK`.
The two steps that need it are `Recover`, which makes job objects out of
records, and `Unregister`, where deleting one name must remove one card.

It then proves the three deletion invariants together, because none
is inductive alone. A removal may unregister a job because no worker owns it
(`OwnedIsRegistered`); it has no owner because its finalizer took over when the
last one let go (`OneFinalizer`); and the last one knew it was the last because
every worker at work holds its own flag and no two title workers hold one job
(`ClaimsOK`). `Ownership` adds that the marked jobs nobody owns (`Orphans`) and the
goroutines in `finalizeDeletion` correspond one to one (`FinalizersOK`,
`OrphansOK`), the labels of each kind of goroutine (`KindsOK`), and that marks are
on created jobs only (`MarksOK`, so that a new card is never born marked). Most
steps move one goroutine and take no job; `OneMoves` covers them, and the six that
do (`Delete`, the two picks, the two releases, the end of a removal) have a lemma
each. `Identity` and `Ownership` were also checked by TLC on the instances of
`requests` and `progress`, and on two with failing storage and two restarts.

`ScheduleProofs.tla` proves `SchedulingCorrect == Spec => []Scheduling` and from it
`WorkersWake`, `NobodyStranded`, `LimitHolds` and `ReadyIsNotRevived`. The argument is
where the download worker stands. Before its last section (`EarlyLabels`) its job is not
ready, and it is the only job that may be in the pipeline (`ReadyOK`, `InFlightOK`); in
and after that section (`LateLabels`) the job is failed, ready, or was queued anew by a request that
found room for it. That is why letting go of it cannot exceed the limit: `LimitOK` counts the
unfinished jobs without the worker's, and with it once the worker is late. Recovery may
register any number of queued jobs, so the limit is claimed for the first process only,
as in `WaitingWithinLimit`. Most steps are `Calm` (they fail jobs or take them off the list) and
`Steady` (nobody changes zone); the queueing requests, the picks, the ends and `Close`
have a lemma each.

`PersistenceProofs.tla` proves `PersistenceCorrect == Spec => []Persistence` and from it
`RemovalIsFinal`, `CardsSurvive` and `SavesConverge`. They rest on `saveMu` (`LocksOK`): it
is held over a whole save or removal of a job that stays registered meanwhile, and a
snapshot exists exactly during a save, so no save comes between the removal of a
directory and the end of its card. `RemovedOK` and `StoredOK` say what a directory holds,
depending on its card. `SyncOK` says when a card may differ from its directory: only while
a later save is due (`Due`: spawned, about to lock, or its worker or `Close` has still to
come), and during a save the snapshot is up to date or another save is due. `PreOK` is
what `Publish` needs for that: its job's record does not say ready, so a file that
appears does not make an old record true. `SavesConverge` further needs `InFlightOK` of
`Scheduling`: a settled job is not in the pipeline.

`StoreIsUsedInOrder`, also there, is the other half of the bargain with `Downloader` and
`Files`, which model one directory and assume an order of the calls on it. `saveMu`
belongs to a job object and a directory to a video, so the lock alone does not give that
order: it takes that whoever holds a `saveMu` holds that of the card the video has now
(`LocksOK`, `CardsOK`), that a worker at work works on a registered card, and that a
removal begins when nobody does (`ClaimsOK`, `FinalizersOK`). The first save of a new card,
made without `saveMu`, meets nobody because the video has no card then. TLC searched
12 million states of an instance with a restart and failing storage for a violation first;
it is no invariant of a run, since the theorem covers every instance.

`ManagerImplementsLibrary == Spec => ImplementsLibrary`, in the same module, is the
refinement the run `library_manager` checks, under the mapping of `LibraryOfManager`. It needs one
more invariant, `OwnRecords` (a directory with a card records no run but the card's,
whatever has failed), for the stop of the process, where the cards are read
from the disk. While the process serves, `OneCardMoves` covers every step that changes
the status of one job: `Library` forbids only that a ready card becomes unfinished, and
`ReadyNext` excludes it. `Recover` is `Library!Start`, shutdown and crash are
`Library!Stop`, and a file that vanishes while nothing runs is a `Downgrade`.

The manager's proofs assume only `BoundsAssumption` and `NamesAssumption`.

`LinksProofs.tla` proves `RunsStayFresh` for any sets of videos and runs. It is
inductive with the type invariant: `Stop` may leave anything on disk that belongs
to the present run, or to a run never removed, and `Start` gives a directory
without a record a run of its own.

It then shows `LinksUseTheLibrary == Spec => Lib!Spec`: every step
of `Links` is a step of the library or leaves it alone, so `RunsAreFresh` holds in
`Links` too (`LinkedRunsStayFresh`). `RemovedRunsClosed` follows from it at one step:
`Get` compares the link's run with the card's, and a card never has a removed run.
Nothing about revocations is needed, which is why neither their order nor their
failures matter. `LinksSurvive` is inductive alone: every operation writes what it
leaves in memory, or writes nothing and leaves less in memory. `LinksWithinLimit`
counts the links of a video before and after `Issue` with the finite-set theorems.
`LinksStay` goes through the steps that drop a link. They assume that the limits are
naturals and the set of videos finite.

`AccessProofs.tla` does the same for the sessions. `NoForeignSessions` rests on
`Marked`: a file holds sessions of its own fingerprint only, memory only those of
the password in use. `AccessUsesSessions` shows that the handlers take only steps of
the session store, so all of this holds inside `Access` (`AccessKeepsSessions`).
`CountsAsItself` is the fact about addresses the limiter rests on: whatever a client
forges, and however many trusted proxies pass its request on, it counts under
its own address. It needs that no client is a trusted proxy
(`AddressesAssumption`).

It then proves `AccessTypeCorrect`, `GuessesAreBounded` (`WindowBound`) and
`LimiterDecides` (`DecidesAsReference`), for any clients, proxies, window and limits. The
limiter forgets what has left the window, and the first property speaks of all that was ever
tried, so `LimiterInv` relates the two. `LogInv`: nothing in the log is of the time to
come. `ListsInv`: a list holds only attempts of its client, and all of them that
are young; hence the pruned list and the reference count the same
(`RecentIsAll`, `EntriesCounted`). `SpentInv` is `WindowBound` for every integer at which a
window may begin: at the step that records an attempt it is the window ending now
that matters, and that may begin before time 0. Any other window that holds the new
attempt has no more old ones than this one has, for it ends later and nothing lies there.
`ToldInv` says what a denied client was told for all times to come: it is exhausted at
a time exactly if that is before the time it was told. It stays so while the clock runs, since only
this client could add an attempt under its address, and an attempt of its own overwrites
what it was told. That the wait is right when it is told is `WaitIsExact`: the limit is
met exactly, never exceeded, so the oldest attempt that counts is the one to wait for.

`DownloaderProofs.tla` proves, for any number of saves, downloads, faults and stops:

* `StoreIsCrashSafe`, from `StoreInv`. The promise `safe` is
  not inductive; `StoreInv` adds, for each step of `Save` and `Remove`, what of the
  directory is already there and what the next sync will therefore make last. It rests on
  what `DiskStore` assumes of a sync of `videos/<id>`, that it makes its own entry last.
* `RunLeavesNothing` and `KillsAreNotBlamed`, from `RunInv`: a reader ends only when
  nobody holds its pipe, or gives up; `Wait` comes after both, and a process is killed only under a
  context that is done and stays done until the result is taken.
* `OnlyVerifiedIsPublished`, from `VideoInv`: from `verified` on, the output in the work
  directory is `good`, and nothing writes to it until it is renamed.
* `VideosAreOwn`, from `OwnInv`: from the moment `ClearWork` has run, what is in the
  work directory is of this attempt.
* `PipelineTypeCorrect`, from `StoreInv`, `RunInv` and `Typed`. That `heard` has two
  lines at most needs that a line is either in the pipe or heard, once.
* `DownloaderImplementsFiles`: the refinement the run `files` checks, step by step, under
  the mapping of `FilesOfDownloader`. It needs the invariants above (`Publish` needs a
  directory and an output)
  and `SeenInv`: a directory that is gone is empty, and a run is called off only under a
  context that is done.
* `PowerLossBetweenCalls`, from `RestInv`: as long as nothing has failed or been cut short, the
  directory of a card is there outside a removal, and all of it lasts between the calls. A
  power loss then is a crash, the only end `Manager` knows.

`WebClientProofs.tla` proves `ListStaysFresh`, `NeverIdle` and `PageTypeCorrect`. The first needs
`SingleFlight` (at most one refresher awaits an answer, and the flag says so) and `Fresh`
(an answer under way is at least as new as the page, at most as new as the
server). The last needs a number that nobody holds (`UnusedIs`): finitely many flows
hold finitely many. They assume that the names of the flows differ (`FlowsAssumption`) and
that there are finitely many of them (`BoundsAssumption`).

So every invariant and every action property a passing run checks is proved, and so are both
refinements, in their safety part. Only model-checked are the liveness properties
(`DeletionEnds`, `CloseEnds`, `QueuedIsServed`, `CancelledEnds`, `CatchesUp`): they
rest on `ENABLED` and fairness, which the prover does not handle. What a violation run
refutes is of course not proved either.

## 5. What is left

In this order:

1. Lemmas towards liveness (from every state that waits a step leads closer), which hold
   without fairness.
2. `VideoID` and `SafeFilename` as operators over classes of characters.
3. The page's copying of a link, which holds a token over an `await`.

The runs are kept few, one per question: components share a run where they can be
composed.

Not modelled: password hashing, the Origin check, routing, logging, embedding, rendering, packaging; they
hold no state whose steps could interleave. `handleDownload` only reads. A disk
that loses data after a sync, and a clock that goes back, are not considered.
