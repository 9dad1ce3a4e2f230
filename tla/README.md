# A verification development of nkt

nkt is an administration service for Linux hosts (`nkt`, one per host) with a hub
that manages many of them. Both are one Go program with a React front end. This
directory holds TLA+ modules that model its stateful core, TLC configurations that
check them on small instances, and TLAPS proofs for every instance.

Line references are to files under `src/`. Comments of the program are quoted in
Russian where they are written in Russian.

## 1. Inventory

### Modelled

| component | code | state | operations |
|---|---|---|---|
| background job manager | `internal/jobs/jobs.go`, `internal/store/jobs.go` | rows of `jobs`, counters `jobs.resumes.<id>`; in memory `running`, `pending`, `userCanceled`, `closed`, one goroutine and one context per job | `Start`, `Retry`, `enqueue`, `run`, `next`, `Cancel`, `Close`, `Recover`, `countResume` |
| following a job | `Watch`/`notify`/`closeWatchers` in `jobs.go`, `internal/api/handlers_jobs.go`, `startWSKeepalive` in `pty_session.go`, `JobLogModal` in `web/src/pages/Jobs.tsx` | channels per viewer, one handler per WebSocket, the window's lines and row | subscribe, forward, unsubscribe, ping, fetch the tail, poll, render |
| config editor | `internal/control/configs.go`, `history.go`, `sshguard.go`, `services.go`, `internal/store/versions.go`, `internal/api/handlers_configs.go` | the file, what the service runs with, blobs, rows of `config_versions`; per request what it remembers | read, write, rollback, snapshot, record, validate, restore, reload, probe sshd |
| installing hosts | `internal/hub/manager.go`, `hostinstall.go`, `selfupdate.go`, `internal/store/hosts.go` | status of a host, `jobByHost`, slots, contexts of jobs, requests under way | start, cancel, run with a slot, write the status, reset at start |
| moving stacks between hosts | `internal/hub/migrate.go`, `hostcall.go`, `internal/api/migrate_ops.go` | containers and data on each host, packed files, jobs of the hosts, the hub's job, records of moves, routes | move, roll back, remove the old copy, clean leftovers, stop the second copy |
| uploads | `internal/api/upload_jobs.go`, `internal/vmimage/store.go`, `internal/vmcreate/hostimages.go` | sessions, tokens of jobs, temporary and final files | begin, receive, publish, undo, wait, load, put an image |

How they interact: handlers call the job manager; the manager calls runners in
goroutines of their own and writes rows and log lines to the store; viewers get
signals through channels and read the store; the manager outlives no process, the
store outlives all. Installs, moves and uploads are runners: their modules use of the
manager what `JobManager` promises (one job of a queue key at a time, in order; an
outcome for every job; unfinished jobs that cannot be continued are given up at the
next start). A move is a job of the hub that starts jobs on two hosts and waits for
them by polling; the hub's own machine may be one of the hosts and then has one
manager for both. An upload is a request and a job that meet in a session. The
editor runs in the goroutine of its HTTP request and shares only the disk, the blob
directory and the store with other requests.

What is hard: every one of these is written for concurrent callers. The job manager
has one mutex, but reads rows before it takes it and writes them after it has let it
go; its rows are updated without a condition on the old status; a stop and a cancel
use the same context. Channels are closed without the lock. The window learns from
three sources (socket, poll, opening). The editor has no lock at all, and every step
of it can fail, be cut off by a crash, or find its client gone. An install has its
status written by whoever believes to be current, and its entry made by whoever
comes first. A move is a saga over two hosts and a hub, each of which can stop, with
calls whose answers are lost and jobs that go on when nobody waits for them any more.

What makes each correct: see sections 3 to 8; the list of hazards, each at its line,
is in `PROJECT.json`.

### Not modelled

* Outgoing webhooks (`internal/hub/webhooks_out.go`): each delivery has a goroutine
  and retries of its own; order and delivery are not promised to anybody, so there
  is nothing to state that the code means to keep.
* The fallback tunnel (`internal/hub/tunneldial.go`, `tunnelpin.go`): a loop of dials,
  back-off and certificate pins around TLS. The one interleaving worth a look, a pin
  written over a newer one, is listed as a hazard.
* The file history and its pruning (`internal/control/files_history.go`,
  `internal/store/uploads.go`): shares the blob store with the editor. It deletes
  rows, counts references and removes blobs, without a lock, so that a blob can go
  between the `stat` of a recording and its row; listed as a hazard. As an action of
  `ConfigWrite` it would double a model that is as large as TLC manages.
* Uploads of files in chunks (`handlers_files_upload.go`, `store/uploads.go`), whose
  rows are written by one client in turn, and the older upload of an archive in one
  request (`handlers_image_archives.go`), which writes to the same temporary path as
  the uploads modelled here.
* The rest is either a sequence of external commands run as a job (deployments,
  clusters, virtual machines, scripts, backups, scanners), pure functions with
  golden tests (parsers, inventory, topology, analysis), periodic probes,
  presentation, or wrappers of services outside the program.

`PROJECT.json` lists every component with the reason.

## 2. Modules

| module | what it is |
|---|---|
| `JobQueue` | abstract: one line of jobs per queue key; outcomes for ever |
| `JobManager` | the manager over the store; implements `JobQueue` |
| `JobManagerProofs` | its invariant, exclusion, no stall, finality of outcomes |
| `JobOutcomeProofs` | cancelations that were asked for, no lost row, bounded continuation; that it implements `JobQueue` |
| `JobWatch` | one job, its watchers, handlers and windows |
| `JobWatchProofs` | no closed channel is used; windows show the log in order and whole |
| `ConfigWrite` | concurrent edits of one file |
| `ConfigWriteProofs` | nothing of the history is lost; requests that do not overlap leave a good file |
| `HostInstall` | requests, runners, operators and the status of hosts |
| `HostInstallProofs` | slots are neither lost nor given back twice; `installing` has somebody who ends it |
| `StackMove` | the hub's job, the jobs of the hosts, clients |
| `StackMoveProofs` | no change of a client is left behind by a move, or deleted later; one copy runs, where the routes lead |
| `Upload` | sessions between a request and a job; temporary and final files |
| `UploadProofs` | archives are whole, temporary images have owners |
| `QueueFacts` | lemmas about sequences: removal of one element, tails, appending |
| `MCJobManager`, `MCJobWatch`, `MCConfigWrite`, `MCHostInstall`, `MCStackMove`, `MCUpload` | names and symmetries for TLC |

A step is what happens under one hold of a lock, one database call, one system call
on the disk, one call over the network, or one event of the browser. Definitions
whose comment says "Mutant" are small defects of the definition they precede; no
specification uses them, they are there to show that each property can be violated.

## 3. The job manager

`status`, `queueOf`, `kindOf` and `resumes` are in the database, everything else is
memory and is gone after `Stopped` and `Crash`. `pc[j]` is where the goroutine of
`j` is: `launched` (by `enqueue` or `next`), `running` (the runner has begun), an
outcome (about to be recorded), `leaving` (about to call `next`), `abandoned` (the
service stopped under it: nothing is recorded). Goroutines and requests:

* `Start`/`Retry` insert the row, `StartEnqueue` is the call of `enqueue` that
  follows; between the two the service may stop.
* `Begin` reads the row and looks the runner up, `Return` is the end of the runner
  with the reading of `closed` and `userCanceled` under the lock, `Record` is
  `FinishJob`, `NextJob` hands the key on.
* `Cancel` is four steps: the row is read (`CancelRead`); under the lock the job is
  found waiting, or the context of the key's holder is taken (`CancelLocked`); then
  the outcome is recorded (`CancelDrop`) or the context cancelled (`CancelSignal`).
* `Boot` reads the unfinished rows, `RecoverJob` takes them one by one, `Serve`
  opens the listener. Requests are possible only after that, as in `runServe`.
* `Close` sets `closed` and cancels every context; `Stopped` is the end of the
  process after it, at any time, as nothing waits for the goroutines.

Rows of a queue key are kept apart by name only. The runner is a Boolean: it fails
or not. Database calls whose errors are ignored may fail when `DBMayFail`.

### What is checked (`safety`, `live`)

* `QueueExclusive`, `NoStalledQueue`: one job at a time per key, and a key with
  waiting jobs always has somebody to hand it on.
* `NothingLost`: while the service works every unfinished row is in exactly the
  hands that will finish it: `Recover`'s list, `Start`, a goroutine, a queue, or a
  caller of `Cancel`. (Without failing database calls and leaving clients: a failed
  `FinishJob` leaves a row to the next start, which is what the code accepts by
  ignoring its error.)
* `OutcomeIsFinal`: `FinishJob` and `MarkJobRunning` have no condition in SQL; that
  no outcome is ever overwritten follows from who may hold a job.
* `CanceledOnlyIfAsked`: only a job that a call of `Cancel` got hold of, under the
  lock, ends as `canceled`.
* `LeftToRecover`: what a stop cuts off, and what `Recover` still has on its list,
  is open.
* `ContinuedBoundedly`: a resumable job runs at most `maxResumes + 1` times, any
  other at most once.
* `LinesImplemented`: the refinement. The line of a key is its holder followed by
  `pending`; the jobs with an outcome are `ended`. In particular a job joins at the
  end, only the head is advanced, only waiting ones are withdrawn, and none that
  waits is given an outcome.
* `EveryJobEnds`: under `FairSpec`, `queued` leads to an outcome.

Fairness: goroutines, handlers and `Recover` run (the Go scheduler); a runner
returns (jobs have timeouts of their own); the service is started again. Nothing
obliges anybody to start, cancel, stop or crash.

Bounds: three jobs on one key (`safety`) is what it takes for two to wait behind a
third and be reordered, withdrawn or overtaken, here with failing database calls,
clients that leave, and a stop or crash. `live` has two keys and two jobs, and the
service is started three times with `maxResumes` 1, so that a job is continued, cut
off again and given up. Three jobs with failures *and* restarts are too many states
for TLC; that combination is what the proofs are for, which bound nothing.

### Where code and comments part

* `cancel_other` (a run): `Cancel` cancels `m.running[job.Queue]`, whoever that is by
  now. Two operators who cancel the same waiting job, or one whose job ends between
  the reading of the row and the lock, stop another job. The shortest behaviour needs
  no failure. (`CanceledOnlyIfAsked` holds all the same: the victim is not recorded
  as `canceled`.)
* `run` asks for `closed` first (`jobs.go:320`), so a cancelled job that returns after
  `Close` has no outcome recorded and is continued at the next start.
* `countResume` also counts starts at which a job only waited in its queue.

## 4. Following a job

One job (`row`, `logLen`, `jpc`), the watchers' map and channels under the
manager's lock, and per viewer a handler (`spc`, `snapshot`, `missed`), a connection
(`conn`, `wire`, `ws`) and a window (`listed`, `seen`, `shown`, `fetch`, `answer`).
A signal has no content: the window only fetches when one comes, and lines are
numbers. `Notify` sends to every channel that has room; `CloseTake` takes the list
out under the lock and `CloseOne` closes without it, with `Unwatch` of the handlers
in between. A request for the log is two queries (`LogJob`, `LogLines`): the row
first. `Render` is React taking over the answer. `closeWatchers` of `Cancel` is the
same code and is not modelled a second time; neither is a retry shown in the same
window (a listed hazard).

### What is checked (`follow`)

* `NoPanic`, `ChannelInv`: no channel is closed twice or sent to after it is closed.
* `LinesInOrder`: a window shows `1, 2, ..., n`: no repeats, no gaps.
* `FinalIsWhole`: a window that has seen the final row shows the whole log. This
  depends on the goroutine's order (last line, then row) and the handler's (row,
  then lines). It is checked for logs of at most one page: beyond `jobLogLimit`
  lines the window stops polling with part of the log (a listed hazard).
* `SeesTheEnd`: a window opened on a running job sees its end, whatever signals are
  dropped, with one lost request or broken connection and one restart. Fairness:
  events of the browser, timers and handlers happen; the job need not end.

It is worth knowing how `SeesTheEnd` holds. A handler that subscribed too late is
never told of the end, and while its connection counts as live the window does not
poll. What saves the window is that the handler reads nothing, so that the keepalive
cuts the connection although it is healthy, and the poll takes over. With a handler
that reads the connection (`Reading(v) == TRUE`) TLC finds `SeesTheEnd` violated:
mending one fault without the other leaves windows that show "running" for ever.

Bounds: one window, channel capacity 1 (so that signals are dropped), two lines,
pages of two, one restart, one loss. Windows do not read each other's state, and the
proofs are for any number of them. `MaxMissed` is 1 (4 in the code: the number only
delays).

## 5. The config editor

`disk` is the file, `daemon` the text its service runs with, `blob[t]` the state of
the blob that holds text `t` (a blob's name is its checksum), `versions` the rows of
the file. A request walks through `Write`: compare the checksum, read the old text,
record it if nothing is recorded, ask sshd, write, validate, restore or record,
reload, ask sshd again, put the old file back, reload. `prev = Absent` is
`hadPrevious = false`. A fault is a failing call, a crash, a client that leaves
(`r.Context()` ends), or an edit by another program.

Abstractions: one file; texts are model values that the service accepts, refuses
(`Rejected`), or accepts and goes deaf with (`Deaf`); `WriteFile` is one step (it
renames; its in-place fallback is not modelled); a reload is one step and fails
without effect on a refused text; the sshd port is not read from the file; the gate
that asks for a way around sshd, and the creation of skeletons, come before.

### What is checked (`edits`)

* `FirstContentKept`: without faults, once the file is no longer what it was before
  the first edit, that text can be read back, however two requests interleave.
* `VersionsReadable`: a listed version has its text, in every interleaving and with
  every fault but a blob whose writing is cut off. `put` takes such a blob for whole
  for ever after; the hypothesis of the property is that defect.
* `RefusedIsUndone`, `DiskIsInHistory`, `SshdComesBack`, `StaleIsRefused`: what
  holds of requests that do not overlap. That they need this hypothesis is the
  finding; between overlapping ones there is no protection.

`left_rejected` shows two overlapping edits that leave a refused text, each caller
being told that the file was restored. Known besides, and exempted in the properties:
a *new* file with which sshd goes deaf is not removed (`configs.go:755`); a crash
between `WriteFile` and the end of `Validate` leaves an unchecked text, and no start
looks at it.

Bounds: two requests at a time and three in all, so that one can edit after two
overlapped; three texts, one of each sort; one fault. Liveness is not claimed:
a request is a sequence of steps that the client's departure may shorten.

## 6. Installing hosts

A request is three steps: `Check` under the lock, `StartJob` after the probe of the
host, `MakeEntry` under the lock again. A runner is `Run` (its entry is made or taken
over, and an entry it replaces is cancelled), `Acquire` (the channel of slots or the
end of the context), then `install`: whether the job is still current is read in one
step (`Begin`, `Failing`, `Close`), the status is written in the next (`Mark`,
`FailMark`, `Online`), not any more if the context is over; `Release` gives the slot
back and marks the entry done, `End` is the job manager recording the outcome.
`CancelInstall` takes the entry, `CancelStop` cancels the job, `CancelWrite` writes
the status. `Abort` ends the context of a job otherwise: on the page of the jobs, or
after `installJobTimeout`. `Restart` forgets all memory, gives the jobs up and runs
`ResetStuckInstalls`.

Abstractions: the body of an install (SSH or tunnel, copying, starting, logging in)
is one step that may fail, and may still fail or succeed when its context ends late;
the poll that writes the status of hosts which are not being installed is left out;
jobs of a host run in the order of their numbers, by what `JobQueue` promises.

### What is checked (`installs`)

* `SlotsRight`: as many slots are taken as installs work.
* `InstallingIsUnfinished`: a host is shown as installing only while an install of
  it, or the call that cancels one, has still to write the outcome. It is for one
  request at a time and not for aborted jobs: `fail` writes with the context that
  was ended (`manager.go:998`), and a late entry of an overlapping request keeps the
  job of the other from writing; both leave the host installing until the hub
  restarts.
* `InstallsEnd`: every job that was started ends, under fairness of the hub's
  goroutines; every step of an install ends, at the latest with its context.

`install_double` shows two requests for one host that both start a job. Known
besides: an entry made after its job has already ended is never marked done
(`manager.go:938`), so that every later start is answered with its number.

Bounds: two hosts and one slot, so that one install waits for the other's; two jobs,
one cancelation, one abort and one restart, in any order. The proof has no bounds.

## 7. Moving stacks

`cont` and `data` are the containers and the data of the stack on each host; data are
the number of the last change they contain, so that "older" is a comparison. `staged`
are the packed files of a move, the manifest last. `queue[h]` are the jobs of a host
(first one runs), `result` what the hub reads when it polls. `hub` is the hub's one
job: where it is, which step it has a host carry out, and the parameters of the move.
`recs` are the records kept under `migrations`, `route` the host to which Fly and the
pipelines lead.

* Starting: `StartMove` (with the check of the new host and the record it takes its
  leftovers from), `StartRollback`, `StartRemove`, `StartStopNew`.
* The hub: `Post` sends a job, `Wait` sees its end, gives up after a timeout or is
  cancelled, and then asks the host to cancel it; `Proceed` is what follows, with
  the rollbacks that were registered; `Copy` moves the files through the hub;
  `CallHost` is `docker start`/`stop` over HTTP; `Switch` the routes; `Note` the
  record; `Sweep` the files.
* The hosts: packing (`PackBegin`, `PackStop`, `PackFiles`), unpacking
  (`UnpackBegin`, `UnpackFill`, `UnpackRaise`, `UnpackWait`), `Undo`, `RemoveCopy`.
* Failures: a call lost with or without its effect, a wait that times out, an error
  of docker, the restart of a host or of the hub, a record that cannot be read or
  written, `Cancel` by the operator, steps that fail by themselves (`Breakable`).

Abstractions: all routes and pipelines are one switch; volumes and directories are
one thing; images, the removal of an old Fly entry, reminders, the live picture and
the preview are left out; polling is reading `result`.

### What is checked (`moves`)

* `ServedWhenIdle`: with no call lost and nothing cancelled, the host the routes lead
  to runs the stack whenever the hub is idle, however the steps of packing, copying
  and unpacking failed. A failed `docker stop` of the packing and a failed switch are
  not undone by the code: the run does not let them fail, the property says so.
* `OneCopyRuns`: both copies run only after a rollback that skipped the new host, and
  then a record says so. Stated without lost calls: a host that restarts or a wait
  that times out leaves a job that may raise the new copy after the old one was
  started again, and nothing in the code looks for that. Stated without cancelled
  rollbacks too: one that skips the new host and is cancelled after it started the
  old copy leaves both running without a record.
* Both are stated for two hosts (`TwoHosts`). With a third one an old copy that is
  stopped can be moved on from its host, as `migrateProblems` (`hub/migrate.go:194`)
  does not ask whether the copy to be moved is the one that runs; the routes then stay
  where they were, and two copies run. TLC shows it with three hosts and two moves.
* `NothingLeftBehind`: when the routes are switched the new host has every change
  made on the old one.
* `NewestKept`: the host the routes lead to has what clients wrote last, whole: no
  undo, removal, cleaning or late job of a host deletes or replaces it, whatever is
  cancelled or lost. Two exemptions, each a history variable. `astray`: a removal or
  undo nobody waits for any more is carried out after all, leftovers are cleaned while
  they run, or the move goes to the host that serves. `stale`: a record says "moved"
  while the routes lead to the old host, or a rollback took a copy that is not whole.
  The second one is no detail of the model: `migrateFlySwitch` and `updateMigrations`
  only log their errors, so a switch that failed still ends in a record "moved", and
  "remove the old copy" then deletes the copy that serves; and a record of a copy that
  was wiped, or is half unpacked, still allows the rollback to it. TLC finds both with
  two hosts, four moves and up to three faults once `stale` is left out.
* `MoveEnds`: every job of the hub ends; it would not if both sides used one queue
  key on the hub's own machine (`SharedQueue`, as the code did before).

Fairness: the hub's goroutine and the hosts' managers run. A host that restarts
counts as a fault, so fairness does not ask for it.

Findings: `move_leftovers` (cleaning deletes the copy that serves) and `move_cancel`
(cancelled while `docker stop` runs, nothing starts the containers again).

Bounds: two hosts, one of them the hub's own machine; three moves, so that one can go
there, back, and there again with leftovers of the first; one change, one fault and
one cancelation. `PublishesPorts` is false, which allows more: the check of busy
ports is the only protection of a running copy.

## 8. Uploads

A session `u` is a token, its job and its request. `transfers` and `bound` are the
two maps, `aborted` the flag of a session; `done`, `err` and `path` are `receiver`.
Two portions make a file, and `bytes[i]` says who wrote each of them to inode `i`:
`part[n]` and `final[n]` are the inodes at the two paths of an archive, so that an
`O_TRUNC`, a rename or a removal hits whatever is at the path then. `Begin`,
`StartJob`, `Bind` are `handleUploadBegin`; `Receive` to `Finish` are
`receiveUpload`, `writeArchive` and `SaveTemp`; `Lookup` to `PutImage` are
`uploadRunner.Run`. The idle timer reads the session (`Tick`) and aborts it in
another hold of the lock (`Stall`).

Abstractions: sizes and progress; the answers to the browser; the deletion of
archives by the operator; the name of an image that is already there is one of the
failures of `PutImage`.

### What is checked (`uploads`)

* `ArchivesAreWhole`: what stands under a name is one whole file, in every
  interleaving of one upload with its job, silence, broken connections and restarts.
* `SuccessIsWhole`: a job succeeds only with its own file, received to the end.
* `TempsHaveOwners`: a temporary image has somebody who removes it. It names the
  three cases in which one stays behind for good: a restart, an abort after the last
  portion, and a removal that failed.
* `UploadsEnd`: every job that was started ends, also when the browser sends nothing
  or falls silent. Fairness: goroutines and timers run; a request that is read from
  ends, by its data or its deadline (`extendUpload`).

Both properties about archives are for uploads that met no other one of their name
(`shared`): the temporary path is fixed (`upload_jobs.go:311`), nothing asks whether
it is in use, and a retry while the broken first request still hangs writes to, renames
or removes the other's file. Known besides: `GiveUp` leaves the session in the maps.

Bounds: two uploads of any of the three purposes, one archive name, one restart.

## 9. Proofs

All are checked by tlapm from nothing, for all values of the constants under the
modules' named assumptions (bounds are natural numbers, sentinels are no values, a
page and a wire hold something, there is a slot).

* `JobManagerProofs`. `IInv` joins the type invariant with: a key is held by exactly
  the job executed on it (`KeyInv`); what waits is open, waits once, for its own key
  and in nobody else's hands (`LineInv`); jobs on the way to `enqueue` are open and
  idle (`HandInv`); a goroutine that has recorded nothing works on an open row
  (`OpenInv`); callers of `Cancel` hold real jobs (`CancelInv`), and one taken out of
  its queue is that caller's alone (`DropInv`); a stopped process has no memory
  (`DownInv`). `QueueExclusive` alone is not inductive: that `enqueue` and `next` do
  not start a second goroutine for a job needs that nobody else holds it, which
  needs `HandInv` and `DropInv`. One lemma per action. From `IInv`: `Exclusion`,
  `NobodyStalls`, `RecoverFindsIt`, and the action property `OutcomesStay` (each
  writer of `status` holds a job that is open).
* `JobOutcomeProofs`, on top of `IInv`. `CanceledWasAsked`: `AskInv` follows a
  cancelation from the caller who took the job to the row. `NoJobIsLost`, when
  database calls work and clients stay: `HeldInv` adds that a goroutine which lets a
  row go has recorded it, or is stopped with the service; one lemma per way a job
  changes lines (`EnqueueLine`, `NextLine`, `CancelLine`). `ContinuedAsAllowed`, when
  database calls work: `CountInv` ties the number of runs to the counter and says
  that what may be launched has a run left.
  `ManagerKeepsLines`, the refinement of `JobQueue`: the line of a key is its holder
  followed by those who wait (`LineShape`), and who is neither executed nor waiting
  is in no line (`NotInALine`). Each action is then an `Accept`, `Advance`,
  `Withdraw`, `Conclude`, `Stop` or a stutter (the lemmas `Mapped...`).
* `JobWatchProofs`. `ChannelInv` is inductive with a few facts on types (`PanicInv`):
  a closed channel is neither in the map nor in `closeWatchers`' hands, because
  whoever takes it out of the map closes it, and each handler makes one.
  `NothingPanics` follows. `LinesStayInOrder` needs what an answer under way may
  contain (`WindowInv`: a tail from a line the window has or had). `EndIsWhole` needs
  that an answer with the final row was cut from the finished log (`WholeInv`); it
  assumes `MaxLines <= PageSize`, without which it is false.
* `ConfigWriteProofs`. `BlobInv`: a partial blob is being written, a row is added
  only after its blob. `FirstInv`: as long as nobody may write yet, the disk is
  untouched (`Untouched`); a request that may write has gone past its snapshot, and
  then the first text is a version. `ListedIsReadable` and `FirstIsKept` follow.
  The other four speak of requests that do not overlap (`Undisturbed`: no two were
  ever under way together): `OneAtATime` says that then at most one is under way, and `SoloInv` what it holds at each place - the snapshot is what stands on
  disk until the write, the base is what the client loaded, and the disk is in the
  history except between the write and the row of the new text.
* `HostInstallProofs`. `IInv` is `TypeOK`, `SlotsRight` and `RunnersRight` (a runner
  is at work only while its row says so, with an entry). `slots` is an element of
  `0..Slots` only because it counts the holders, so the two are proved together.
  `InstallingEnds`, for one request at a time: the entry of a host is that of the job
  that runs or waits there (`CurrentInv`), because between the check of a request and
  its entry the host has no other job (`CheckedInv`); so whoever marked the host
  still passes `isCurrentJob` and will write again (`MarkInv`).
* `StackMoveProofs`. `NothingIsLeft`: `MoveInv` follows the data from the packing to
  the switch. The job the hub waits for is the last of its host and the only one of
  its kind (`QueueInv`, `FreshInv`, `StartInv`); what was packed is what the stopped
  containers left (`PackInv`), and nothing can start them again until the switch
  (`CopyInv`, `UnpackInv`, `SwitchInv`), although jobs of earlier moves may still be
  in the queues. Any number of hosts and any faults.
  `NewestStays`, with the same generality, rests on `KeptInv`: while neither exemption
  was ever met, the copy at the end of the routes has the newest data, a queued removal
  or undo is the one the hub waits for (`DeleteInv`), its host and the host a move goes
  to are not the clients' (`AwayInv`), the new copy equals the old one until the switch
  (`ExactInv`, which `NothingIsLeft` has only as "not older"), and data being filled are
  marked as part (`FillInv`), so that no late unpacking replaces whole ones.
  `OneCopy`, without lost calls: a job stands in one queue, once (`LineInv`), a host
  unpacks or undoes only for the hub that waits (`UnpackersInv`), where a stack is
  packed the other host has no containers (`PackersInv`), and what failed after the
  packing is undone before the old copy starts (`UndoInv`). Cancelations are allowed:
  a packing nobody waits for any more may still start the old copy, which is why the
  invariant is about the other host.
  `ClientsServed`, without cancelations too: then no job is left behind (`AloneInv`),
  so each place of the hub determines which host runs the stack (`MovingInv`,
  `RevertingInv`), and between its jobs at most one record says more than history
  (`LiveInv`): a move that may be rolled back, or a second copy that may be stopped.
* `UploadProofs`. A file still coming has a session, was given up, or the service
  was restarted (`SessionInv`), and a temporary image was made by a request that came
  so far (`TempInv`): `TempsAreOwned`. An inode belongs to the upload that made it and
  to one name, and the two paths of a name never lead to the same one (`InodeInv`);
  two uploads that use one name at the same time have met (`OverlapInv`); so an
  upload that met nobody finds at the paths what it wrote (`AloneInv`), which gives
  `ArchivesStayWhole` and `SuccessIsOwn`.

Only model-checked: what is said under fairness (`EveryJobEnds`, `SeesTheEnd`,
`MoveEnds`, `InstallsEnd`, `UploadsEnd`: liveness is out of the prover's reach).

## 10. Runs

| run | distinct states | shows |
|---|---|---|
| `safety` | 3.5 million | the manager's promises and the refinement, three jobs on one key, with failures |
| `live` | 0.6 million | every job ends, none is lost or continued for ever; the invariant of the proofs |
| `cancel_other` | violation | section 3 |
| `follow` | 1 million | section 4 |
| `edits` | 7.6 million | section 5 |
| `left_rejected` | violation | section 5 |
| `installs` | 0.5 million | section 6 |
| `install_double` | violation | section 6 |
| `moves` | 0.9 million | section 7 |
| `move_leftovers`, `move_cancel` | violation | section 7 |
| `uploads` | 0.3 million | section 8 |

Deadlock is not checked: with its bounds used up, or with nobody asking for
anything, each system rightly stops.

To repeat: `tlc -config JobManager_safety.cfg MCJobManager`, and so on;
`tlapm JobManagerProofs.tla`.

## 11. Findings

Five places where the code does not do what its comments or its release notes say,
each with a run that shows it: `cancel_other` (section 3), `left_rejected` (5),
`install_double` (6), `move_leftovers` and `move_cancel` (7); quoted line by line in
`PROJECT.json`. Smaller deviations, without a run, are named in the sections.

## 12. What is left

1. Pruning of the file history as actions of `ConfigWrite`; `VersionsReadable` is the
   property to extend. The instance must shrink for it.
2. A retry shown in the same window, as an action of `JobWatch`.
3. Webhooks and the tunnel's pins, each a small module of its own.
