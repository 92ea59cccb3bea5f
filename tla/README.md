# A TLA+ model of the OpenCloud desktop client

The client keeps local folders and the spaces of an OpenCloud server in step.
It is one Qt process (C++, `src/src`): almost all of its state lives on the
thread of the event loop, and what makes it hard is not threads but handlers
that call each other synchronously, back into their callers, while timers,
replies, the file system and the user interfere between them. The modules here
model that control flow, and the way of one file between the two sides with
everything that may interrupt it; names, wording and SQL are left out.

## 1. The system

| Component | State it keeps | Operations | Talks to |
|---|---|---|---|
| Account state (`gui/accountstate`) | connection state, the validator under way, the settings job, what is posted to the event loop | `checkConnectivity`, `slotConnectionValidatorResult`, `setState`, sign in and out, changes of the network | credentials (`fetchFromKeychain`, `invalidateToken`), job queue (guard), FolderMan (`isConnectedChanged`) |
| Credentials (`libsync/creds`) | refresh token, ready flag, OAuth job, retry timers | refresh, keychain, `slotAuthentication`, `forgetSensitiveData` | account (signals that block, unblock, clear the queue) |
| Job queue (`libsync/jobqueue`) | number of blocks, waiting jobs, a flag in each guard | `block`, `unblock`, `clear`, `retry`, `enqueue` | every network job |
| Sync scheduler (`gui/scheduling`) | priority queue, current sync, pause | `enqueueFolder`, `startNext`, `terminateCurrentSync`, `stop` | folders (`startSync`), signal `syncFinished` back |
| Folder (`gui/folder`) | sync result, paused flag, counts of failures and follow-ups, VFS switch | `startSync`, `slotSyncFinished`, `setSyncPaused`, `wipeForRemoval` | scheduler, engine, watcher, tracker |
| Local discovery tracker (`libsync/localdiscoverytracker`) | paths to look at now, paths of the run under way | `addTouchedPath`, `startSyncPartialDiscovery`, `slotItemCompleted`, `slotSyncFinished` | folder, engine (which directories to read) |
| Folder watcher (`gui/folderwatcher*`) | the set of paths changed lately, reliability | notifications, `changed`, `lostChanges` | folder |
| Sync engine (`libsync/syncengine`) | phase of the run, propagator, another sync needed | `startSync`, discovery finished, propagation finished, `abort`, `finalize` | folder, propagator, discovery |
| Discovery (`libsync/discovery*`) | the walk over local tree, server and journal | one decision for each entry | engine (items to propagate) |
| Propagator (`libsync/owncloudpropagator`) | tree of directory jobs, active jobs, errors of each directory | scheduling passes, the cascade of `finished`, `abort` | transfers, journal, status tracker |
| Transfers (`libsync/propagate*`) | steps of one upload or download, resume data | start, reply, checksum, rename, `done` | server, disk, journal |
| Journal (`libsync/common/syncjournaldb`) | records of files, blacklist, resume data | reads and writes of one entry | all of the above |
| Error blacklist (rows of the journal, `createBlacklistEntry`, `checkErrorBlacklisting`) | for each failed item its modification time, etag, category and waiting time | written at the end of a job, asked at the end of discovery, wiped by a success, an unlock or a start | discovery, every job |
| Status tracker, lock watcher, ETag watcher, spaces manager, bandwidth manager | see `PROJECT.json` | | |

`PROJECT.json` lists every component, also those that are not modelled
(virtual files, excludes, checksums, wizard, updater, socket API, user
interface, shell integration, logging) with the reason.

### What is hard in it

* **Re-entrance.** The end of a sync reaches the scheduler by a direct signal;
  it starts the next sync while the engine of the last one is still inside
  `finalize`, and the slots of that signal connected later then see the new
  run. The same holds for `terminateCurrentSync`, `authenticationFailed`,
  `fetched` and the `finished` cascade of the propagator.
* **Late results.** Replies, timers of 30 seconds, queued slots and login
  dialogs arrive after a sign-out, an abort, a captive portal, a newer run.
* **Two copies of one fact.** Queue and map of scheduled folders, block count
  and guard flags, the touched paths of the tracker and of the engine, the
  shown status of a folder and its place in the queue.
* **Partial failure.** One failed item must keep the etag of every directory
  above it from being saved, or it is never retried.
* **Nothing holds still.** Between the discovery of a file, its checksum, its
  transfer, the rename and the entry in the journal the user and other clients
  write it, the answer of the server gets lost, or the process stops; the next
  run knows only what the last commit of the journal kept.
* **Wake-ups.** Each next step (job, sync, check, retry) is started only from
  the end of another one; one that is missed stops everything.

### What makes each component correct

* Propagator: children start after their directory, deletions come last, an
  etag is saved only when everything below succeeded, each job ends once, the
  number of active jobs is limited, and the run ends.
* Scheduler and folder: one sync at a time, of a folder that may sync; queue and
  map agree; what is taken from the queue is synced; a paused folder stays
  still; a queue with a folder that can sync gets on.
* Local discovery: a change is known to the watcher, the tracker or the run
  until it is synced; the engine looks where the tracker says; what is synced
  is left alone.
* One file: no file is made of two versions; no version that the client has
  seen, not forgotten since, and no user has given up gets lost, on whichever side
  it was written; the
  journal never calls two different files the same; a decision never overwrites
  or removes a side that changed on its own; and in the end both sides are equal.
* Connection: whoever waits for credentials gets an answer, a blocked queue has
  an owner and opens again, nothing waits in an open queue, an account that is
  signed out stays so, and once nothing fails the account connects.

The hazards in `PROJECT.json` name the lines of the code where these are at
risk and the properties that watch them.

## 2. The modules

| Module | Models | Proofs | Instances |
|---|---|---|---|
| `Propagator` | `owncloudpropagator.cpp`, `propagatorjobs`, the part of the transfers that meets the list of active jobs | `PropagatorProofs`, `PropagatorBooks` | `MCPropagator` |
| `SyncScheduler` | `syncscheduler.cpp`, `folder.cpp`, `folderman.cpp`, the phases of `syncengine.cpp` | `SyncSchedulerProofs` | `MCSyncScheduler` |
| `LocalDiscovery` | `localdiscoverytracker.cpp`, `folderwatcher.cpp`, the discovery choice of `folder.cpp` and `syncengine.cpp` | `LocalDiscoveryProofs` | `MCLocalDiscovery` |
| `DiscoveryDecision` | `SyncEngine::setLocalDiscoveryOptions`, `shouldDiscoverLocally` | `DiscoveryDecisionProofs` | `MCDiscoveryDecision` |
| `Reconciliation` | `ProcessDirectoryJob::processFile` and all it calls, in `discovery.cpp` | `ReconciliationProofs` | through `FileSync` |
| `SyncedFile` (on top of `Reconciliation`) | one run for one file: `startSync` to `finalize`, the rows of `syncjournaldb`, the error blacklist, the jobs that transfer nothing; the users and the faults | through `FileSync` | |
| `FileDownload`, `FileUpload` (on top of `SyncedFile`) | `propagatedownload.cpp`, `getfilejob.cpp`; `propagateupload.cpp`, `propagateuploadv1.cpp`, `propagateuploadtus.cpp` | through `FileSync` | |
| `FileSync` (puts them together) | the whole step relation, what it promises | `FileSyncProofs` | `MCFileSync` |
| `FileHistory` | `FileSync` with a memory of every version the client ever found | | extends `MCFileSync` |
| `Replicas` | the abstract specification that `FileSync` implements | | through `FileSync` |
| `JobQueue` | `jobqueue.cpp`, retry and abort of `abstractnetworkjob.cpp` | in `ConnectionProofs` | through `Connection` |
| `Connection` (on top of `JobQueue`) | `accountstate.cpp`, `connectionvalidator.cpp`, `fetchserversettings.cpp`, `httpcredentials.cpp`, `oauth.cpp`, `credentialmanager.cpp`, `account.cpp` | `ConnectionProofs` | `MCConnection` |

A definition keeps the name of the function it models where TLA+ allows it; the
`map` of `PROJECT.json` gives its lines. A definition whose name has an
underscore and a word for a mistake (`Unblocked_SendsEarly`), or the comment
"Mutant", is the mutated form of the one that follows it; nothing but the
mutants uses it.

### Propagator

A directory of the reconciled tree is a `PropagateDirectory` (`dir`) with a
first job (`leaf`, if its instruction needs one) and a composite job
(`comp`, `todo`, `running`, `errors`). Handlers are modelled as the steps of
their call tree, because a job may finish inside its own `start()`:
`pass` holds the nested calls of `scheduleSelfOrChild`, `signal` the emission
of `finished()` whose slot runs next, `cancel` the replies that a running
`abort()` still has to cancel. While one of them is not empty nothing else
runs. `events` is the event queue (`scheduleNextJob`, the queued `abort` and
`finalize`, `deleteLater`). The steps of one transfer are reduced to stages
(checksum, transfer, validation) with a nondeterministic outcome: success,
conflict (also for a directory that is restored, whose status `Restoration` is
treated like it), a soft, normal or fatal error, or the message by which
`classifyError` and a file that is still changing put a job off. A job that reports
a fatal error by `done()` posts the abort (`Reported`); a directory that passes on
the error of a job below posts none.

### SyncScheduler

`stack` holds the calls that have still to be made, the next one first;
handlers of the event loop run when it is empty. This is what makes the
re-entrance visible: `slotSyncFinished` calls `startNext`, which calls
`startSync` of another folder, and only then does the rest of `finalize` run.
`OC_ENSURE` is modelled as in a release build. `posted` holds results of a
propagation on their way through the event queue. A scenario, chosen at the
start and kept in `net`, says which folders there are, what users and servers do
with them and with which priorities syncs are asked for; folders outside of it
do not exist (`life` is `deleted`); the type invariant includes that a deleted folder
has no timer and is not the current sync. An account that is lost terminates the
current sync or, when it only has to connect again, leaves it running; one that is
ready again queues its folders or, when it has been connected all the time, does not.
The counters of failures and follow-ups count on in the code; in the model all
counts above the limit are one, since nothing tells them apart (`Capped`).

### LocalDiscovery and DiscoveryDecision

A member of `Paths` is a directory with one file, which changes at any time.
The watcher's notices are read later, collected, and may be lost with a
`lostChanges` signal. `tails` holds the `finalize` calls that have told the
folder of the end of their run but not yet the tracker, which is connected
later. `wanted` and `settled` are history variables for properties. The type
invariant includes that engine and tracker hold nothing of a run that is over
(`CleanBetweenRuns`): a run reads what is left in the engine. `scenario`
is a set of circumstances, chosen at the start: `nested` (a run started from the
end of another one), `young` (files too young to be uploaded), `lost` (changes
lost during a run). The calm scenario has none of them.
`DiscoveryDecision` is the search: the tracker names paths (`Touch`), the engine
takes them over and normalizes them in a loop, one path a turn (`Normalize`, with
`rest` ahead of it and `kept` behind), and once it is `Ready` answers for every
directory. Nothing comes between the turns, the loop is taken apart to be
reasoned about. A path is a sequence of numbers, since only the order of the
characters matters; TLC has three of them (smaller than the separator, the
separator, larger). The run is without the root itself among the touched
paths (`WithRoot`), for which the search is wrong (section 5).

### Reconciliation, SyncedFile, FileDownload, FileUpload, FileSync

`Reconciliation` is the decision of `processFile` as an operator: the entry of
the folder, of the server and of the journal go in, an item with instruction
and direction comes out. Each operator is one branch of
`processFileAnalyzeRemoteInfo`, `processFileAnalyzeLocalInfo`,
`processFileConflict` and `checkPermissions`.

A version of the file is a number, and a number is also its content and its
checksum. A file has its version (`data`), its modification time and size
(`stamp`) and, on the server, its etag. Time and size are one value where the
code compares both, so two writes always differ in it, and a touch changes the
stamp alone; a client that sets the time of a file copies the stamp.

| State | In the code |
|---|---|
| `local`, `server`, `copies` | the file in the folder, in the space, and its conflict copies |
| `tmp` | the temporary file of a download, `whole` when it has the announced length |
| `parked` | the part of an unfinished TUS upload that the server keeps |
| `journal.db`, `.down`, `.up`, `.black` | its rows in `metadata`, `downloadinfo`, `uploadinfo` and `blacklist` |
| `saved` | the same rows as of the last commit; a crash returns to them |
| `tracked` | the path is in the local discovery tracker, or the next run lists the whole folder |
| `run.at` | the point at which the run of the file waits: for a listing, an answer, a posted call |
| `run.item`, `run.entry` | the `SyncFileItem`, and its `_hasBlacklistEntry` |
| `run.seen` | what the two queries of the root directory gave |
| `made`, `owed`, `unseen` | history: the versions written, those that no user has given up, those the client has not found, or has forgotten |

A run begins with two queries in any order (`ListLocal`, `ListServer`), or with
one when the folder is taken from the journal. `Folder::startSync` allows this as
long as the tracker does not hold the path (`tracked`): the path is in it after a
crash (the first run lists all), an unlock and an end of the file's job that is an
error, and is wiped by a success, a conflict and a Message. At two of these ends
the file in the folder may be another than the one of its row, and is forgotten with
the path (`Forgets`): after a Message, by which an upload puts off a young or
changing file, and when an earlier upload whose answer was lost is taken for the
one of this file. What the watcher reports is not in `tracked`, since it may come late
for any time; so a run may take the journal for a file that has changed. `Decide` is `slotDiscoveryFinished`, with the blacklist, the
stale rows of resumable transfers and the commit. A job then takes one step for
each part of it that ends in the event loop or at a system call another process
may come before: a download is checksum of a supposed conflict, start, GET,
comparison, conflict copy, removal of the target, rename, journal; an upload is
checksum, comparison, PUT, or POST, PATCH and HEAD, PROPFIND for a missing etag,
journal. Between any two steps users and other clients write, touch or remove
the file, the process crashes, the journal is committed by another item
(`Commit`), an answer fails in each way `classifyError` tells apart
(`Breaks`), a lock comes and goes.

The server is not in this repository. It is taken from what the client expects:
it stores a body whole or not at all, gives every version an etag of its own,
checks a checksum and an If-Match it was sent, and may drop an unfinished upload.

`Replicas` knows neither runs nor journals: two replicas, a set of conflict
copies and the versions that are `owed`. A user replaces what one replica has; a
step of the client may move versions about, but makes up none, removes no
conflict copy and loses no owed version but an `unseen` one. Finding a version
takes it out of `unseen`; forgetting puts it back, and only the one that stays in the
folder in this step can be forgotten.
`FileSync` implements it with `here <- Data(local)`, `there <- Data(server)`
(`KeepsVersions`). What the client has not seen when it overwrites it,
because there is no lock between its last look and its write, is the subject of
`KnownLosses`: it says at which four places alone this can happen.

### JobQueue and Connection

`JobQueue` defines the operations of the queue as operators on a record
(`blocked`, `guards`, `job`, `tries`), and a specification of the queue alone
under any callers. `Connection` composes them: each handler is an operator
that takes the world `[q, acc, cred, posted, net]` and returns it changed, in
the order of the calls in the code, and each action applies one handler.
`posted` holds the zero timers of `setState` and of the network's slots.
A scenario is a set of events that may befall one account together; it is chosen
at the start and kept in `net.events`. An account that is loaded at the start is
modelled, with *pause on metered networks* switched on. The keychain answers once: the
second read that `CredentialJob` arranges never runs, since its first report deletes
the job (`credentialmanager.cpp:176`, `:230`).

## 3. The runs

Every run that passes is complete: TLC visits all the states of its instance.

| Run | Question | Instance and bounds |
|---|---|---|
| `propagator_mixed` | order of operations, truth of the saved etags and of the result, every job ends once | a mkdir with an upload below, in a directory that keeps its place; a directory move, a deletion, a download with a conflict copy, a directory that replaces a file, an item without a job; outcomes success, conflict, message, soft and fatal error; files that may be locked |
| `propagator_wide` | the limits on active jobs hold, no wake-up is lost, the run ends | four transfers, one of them quick, under a bandwidth limit that leaves one place |
| `scheduler_all` | queue, current sync and engines agree, no lost wake-up, a paused folder begins no sync | two folders of one account with forced syncs, the systray's pause, a lost account, failures; and one folder that is paused, removed, switched to another VFS mode, on a metered link, on an unsupported server; and one whose syncs are terminated by all that does so (pause, account, VFS switch) |
| `scheduler_live` | handlers return, the queue gets on | two folders whose account comes and goes |
| `discovery_all` | no change is forgotten in the calm scenario; in both, engine and tracker agree, synced files are left alone, nested starts end | two files, unreliable watcher, failing and aborted runs; the calm scenario and that of all circumstances |
| `decision_all` | the engine reads every directory it should, and no other but the known ones | all sets of up to three paths of up to four characters, each normalized path by path |
| `connection_all` | waits and blocks end, the queue is sound, signed out stays signed out, never connected on a metered network | expired tokens with hard failures, refused refreshes and redirects; expired tokens with sign-out, rejected certificates and logins; captive portal, metered and offline network with keychain failures |
| `filesync_all` | no file of two versions, no loss but the known ones, a truthful journal, decisions without victims, `Replicas` implemented | one file and eleven scenarios, each with its writes (2 or 3 versions), its permissions, PUT or TUS, with and without checksums, and its faults; 1.5 million states |
| `filesync_live` | when users and faults come to rest both sides become equal and no part is left | five scenarios, each with one kind of fault |
| `connection_heals` | recovery | an expired token and redirects, then a sound network |
| `scheduler_pause_parallel`, `filesync_message` | two statements of comments that the code breaks, see section 5 | two folders, one of them paused; one file, locked or young for a while |

The bounds. Two folders, files, jobs or guards are what it takes for one to
interfere with another. `MaxPosted` (2 in `Connection`, 1 in `SyncScheduler`) allows a posted call
to meet its successor; an action that would post beyond it waits, as if the
event loop ran what is posted first. `MaxListeners` saturates the number of
connections to `syncFinished`. `MaxRetryCount` (3 in the code) is 1 or 2 and
`TokenRefreshMaxRetries` (3 in the code) is 2: a first and a last attempt.
`retrySyncLimitC` (3 in the code) is 1 in the scenario of one folder,
a failed sync that is retried and one that is not, and 0 in those of two. `MaxVersions` 3 is one version to start with and one for each side, or two of one
side that meet the first one's upload or download; a scenario with every fault has
2, one with a single fault 3. `Wait` is the time an error keeps an item back, 1 in
the passing runs: a tick is all of that time. `Etags` has eleven
members, since rows, listings and the run remember ten at most
(`EtagsAssumption`): an etag nobody remembers may be given out again, as a fresh
one (`FreshEtag`). `MaxLength` 4
gives a parent, a separator and
siblings that share a prefix. The scenarios of `connection_all` group the events
that meet in the code: those of the token, those of the user, those of the
network and the keychain. All events together are beyond TLC; the theorems of
`ConnectionProofs` hold for all of them. `scheduler_all` applies symmetry to
its folders; runs with liveness apply none.

Two invariants have a condition. `OnlyCurrentSyncs` holds under
`TerminatesAlone`, which excludes what breaks it (see `OneSyncAtATime`,
`CurrentSyncIsRunning` and `WipedFolderIsIdle` in section 5).
`WaitingEnds` excludes a failing keychain (see `RefreshEnds`). In the passing runs
of `FileSync` nobody writes in two moments in which the client stamps as synced
what it has not compared, except in the scenario that has these moments
(`windows`), where `JournalIsTruthful` and `KnownLosses` are not asked for.

Runs that allow the system to stop have `CHECK_DEADLOCK FALSE`: a propagation
that is over, queues with nothing to do, and a list that is normalized.

### Fairness

`Propagator`: weak fairness of the running handler and of posted events (the
event loop runs), of `abortTimeout` once armed, and of the answer to each job,
since every request has a timeout. `SyncScheduler`: weak fairness of the calls
on the stack, strong fairness of posted results and of the steps of each engine,
which other handlers may interrupt between any two of them. `Connection`: weak
fairness of the polling timer, the posted calls, the replies, the keychain,
the refresh and its retry timers. `FileSync`: weak fairness of the steps of a
run, as a request has a timeout; strong fairness of the runs that list the whole
folder, which `fullLocalDiscoveryInterval` asks for again and again, and of the
time that passes while no run is under way (`Tick`), without which a
blacklisted item would never be tried again. Since a run that skips a file for a
local error starts its waiting time anew (`IgnoredIsNotCounted`), this is only
enough when the pause between two runs is longer than that time: with
`Wait = 2`, where a run may come in between, `Converges` is violated. Nothing the user does is fair, and
`Recovers` names the states in which it is up to the user.

## 4. The proofs

All theorems hold for every value of the constants that the named `ASSUME`s
allow. Nothing is taken on trust: each proof is checked to its leaves.

* **`PropagatorProofs`** (any tree, any limits, any outcomes).
  `TypeCorrect`: the type invariant, which includes that each event and emission
  is one its handler expects. `FirstNext` and `FirstJobsFirst`: nothing below a
  directory starts before the directory's own job ended well. The property is not
  inductive: that the composite is closed now says nothing of the handlers under
  way. `FirstInv` adds what they carry: a frame of a pass, a member of a list of
  running jobs and an emission exist only for composites whose directory is open.
* **`PropagatorBooks`** (the same, on top of it). The other properties of the
  propagator need the whole bookkeeping, `BooksOK`, an invariant of seven parts:
  a running list holds, once, exactly what is at work or just reports its end
  (`RunningOK`); a report tells how its sender ended and is the only one under way
  (`ReportsOK`); a directory is at work while its own job or its composite is
  (`DirectoriesOK`); what waits has not started (`TodoOK`); a composite that has
  ended, or whose `finalize()` is posted, has nothing left and ended with the
  errors it counted (`CompositesOK`); whatever has not started waits somewhere,
  and each error was counted above (`AccountsOK`); a good end, a saved etag and
  a success stand for good ends below (`EndsOK`). From it follow
  `ListsHoldRunning`, `EndsOnce`, and, going down from a good end, `EtagsAreEarned`
  and `SuccessIsEarned`. That step goes through directories of any depth: it is
  made without induction over the tree, by taking, among the directories on the
  way that did not end well, one whose parent did (`TreeAssumption` says that
  every set of directories has such a topmost one). Going up, `Climb` shows that
  above a composite at work every composite is at work; with it
  `TreeBeforeDeletions`. `MovesHoldBack` needs `PassOK`, that a pass has gone by no
  running child that waits for a move, and `LimitsHold` needs `ActiveOK`: each job
  is on the list of active jobs once, is taken off by its destructor only after it
  ended, and a pass goes on only while another job may start.
  `NeverHangs` is about the history of a whole pass: nothing is posted for a list
  that a pass goes by without starting anything, so each such list must have a
  job below it that will report its end. Its invariant says who will: `WakeUp`, that
  an emission, a job at work, a scheduling call or a `finalize()` that has still
  something to do, a pass that has begun a list, or the end of the whole
  propagation is under way. Five smaller ones say why none of these ends without
  another: only open composites are in a pass (`PassOpen`), the end of a composite is
  told above (`EndsPassedOn`) and that of the root posted (`EndsPosted`), a directory
  at work has started its own job (`FirstStarted`), and the places on the list of
  active jobs are taken by jobs at work (`ActiveAtWork`). The last one is where the
  theorem needs that no file is locked, as no build but the one for Windows sees
  any: with a lock the propagation does hang (section 5).
* **`SyncSchedulerProofs`** (any folders, accounts, priorities, limits and
  scenarios). `TypeCorrect`, `QueueIsOne` and, as properties of steps,
  `NotForgotten` and `PausedIsLeftAlone`. These rest on `Basics`: what the calls on
  the stack may rely on. `startSync` is only called for the current sync, an
  engine is only started for a folder that shows it syncs and is not paused, a
  folder is wiped by the last call of its removal, and so on for whatever the
  handler that pushed a call has checked and others may have changed since.
  `OneFolderSyncs` and `WakesUpAlways` need a second invariant, `AloneIInv`, whose
  part `Progress` says for each call on top of the stack how far the current sync has
  got: nothing syncs, the current sync runs, it is stopped and about to be
  started, its end has still to be told to the scheduler. It holds under
  `TerminatesAlone`: while a sync is terminated no other folder can be started, and
  no folder is removed or found unsupported. This is a condition the code does not
  ensure, and where it fails so do the properties, as section 5 shows
  (`OneSyncAtATime`, `CurrentSyncIsRunning`).
* **`LocalDiscoveryProofs`** (any set of files). `ChangesAreRemembered`: in the
  calm scenario no local change is forgotten; each of the three circumstances
  alone breaks it, as TLC shows. The invariant `Covered` says for each changed
  file who knows of it in each phase: the watcher, the tracker, the list of a run
  that has still to look at it, a full discovery that is due. `Shallow`, `Quiet`
  and `FullIsDue` tie the phases to the call stack and to the clock.
  In every scenario: `TypeCorrect`; `ListsAgree`, from `LooksAlike`, which holds
  from `startSync` on, before the engine looks; `SyncedIsLeftAlone`; and
  `RunsUnwind`, that runs started from the end of one another are at most three
  deep, from `Nesting`: the first nested start takes the changes of the watcher, so
  that the second does not queue its folder again.
* **`DiscoveryDecisionProofs`** (any characters, paths of any number and length).
  `NormalNext`: at every turn of the loop the list is in order and no path in it
  lies within another (`Apart`), what is ahead comes after it (`Ahead`), and what
  was passed lies within a path of the list (`Covered`). The loop compares a path
  with the last one it kept only; that this is enough is the lemma
  `WithinBetween`: what lies, in the order of the set, between a path and one
  within it is itself within it. For the same reason the search need only look at
  one neighbour: `WithinFound` and `AboveFound` say so for a directory at or below a
  path in the list, and for one above it. From these, `NothingIntendedIsMissed`
  (without the root, see section 5), and backwards from the answer,
  `FalsePositivesAreKnown`. Below are a few lemmas about sequences: that their order
  is total, and that what sorts between two continuations of a path continues it.
* **`ConnectionProofs`**, the queue by itself (any jobs, guards and retry limit). The
  invariant `GoodQueues`: no more blocks than flags, nothing waiting in an open queue;
  each operation has a lemma. `QueueBlocksOwned`, `QueueLeavesNone` and
  `QueueSendsWhenOpen` follow. `QueueRetriesBounded` needs more: a waiting job
  must have a retry left, since `unblock` resends without asking, and a fresh
  job must have none behind it (`Bounded`).
* **`ConnectionProofs`**, the connection (any jobs, limits and events). A handler is an operator,
  so the proof goes handler by handler: `Keeps(w, v)` says that a handler turns a
  good world into a good one, leaves the network alone and revives no account
  that is signed out. It is transitive, so that the lemma about a handler
  follows from those about the calls it makes, in the structure of the code. The
  first theorems are `ConnectionTyped`, the two properties of the queue in this
  environment (`ConnectionBlocksOwned`, `ConnectionLeavesNone`), and `NotOnMetered` and
  `OnlySignInRevives`. `NobodyWaitsInVain` (without keychain failures) needs an
  invariant of its own, `Promised`: who waits has a refresh, its timer, the
  keychain or a dialog ahead; so that each of them can keep the promise, the refresh
  has a refresh token to use, and credentials that are ready have one too; and the
  block of the account's guard has somebody who lifts it. Again there is a lemma
  for each handler.
* **`ReconciliationProofs`** (any entries). `ProcessFileSpares`: what
  `processFile` decides for a file replaces or removes no entry that is not the
  one the journal has (`NoVictim`). The lemmas follow the call tree: an item as
  the journal fills it, what the server's entry makes of it (`Downloadable`:
  unless it is the journal's own, it is to be downloaded), what each branch for
  the local entry makes of that, and what the permissions do. The strengthening
  is in `Spares`: a removal on the server is only ever decided without a local
  file, which a refused removal needs to be turned into a download.
* **`FileSyncProofs`** (any scenarios, bounds and etags). `DecisionsSpare`: no
  run decides against that, whatever happened between its steps. The invariant
  `RunsFine` is what the assumptions of `ProcessFileSpares` ask of the state: the
  rows and the listings are of a file, also those a crash falls back to, and a
  run that takes the journal for the folder lists nothing of it. An item that the
  blacklist turns into one to ignore keeps the promise.
  `TypeCorrect`, with the types and `Sound`: a part of a download has an etag, the
  one in its row, and what is put together under one etag is of one version; this
  needs that what a decision passes on (stamp, etag, checksum) comes from the
  entries it was made from (`Sourced` in `ReconciliationProofs`), that an etag which
  is given out is remembered nowhere (`FreshEtagIsFresh`, by counting), and that a
  server keeps a part of one version.
  `JournalTellsTheTruth`, with `Told`: a stamp is given out once; what a run took
  from the server and the etag it took with it are of one file, so that, where
  the etag is still the server's, so is the content; what it stamps is what it
  has, and the listing of each side is what that side still has or an old one
  whose stamp, or etag, never comes back. It holds for the journal as it is and as it
  was last committed, so that a crash changes nothing.
  `NoVersionIsLost` and `LossesAreKnown`, with `Kept`, for a file the user may
  write and remove, and for one whose changes are refused and undone. A version
  on one side need not be kept if nobody counts on it, or a conflict copy or the
  other side has it (`Covered`, `CoveredHere`, `CoveredThere`). Stamp and etag of
  a row are a `Pair`: with both still there the contents agree; with one of them,
  whoever changed the other side gave up what the sides had shared. So what a
  decision for a change of one side alone overwrites is covered (`Justified` in
  `ReconciliationProofs` says of each instruction what must have been listed for it), and stays so while the job goes
  on: by users' steps that only add unseen versions or change the etag the upload
  sends along or the stamp the download compares (`LocalUser`, `ServerUser`), and
  by the job's own. A run that takes the journal for the folder removes or replaces
  a file it has not looked at. `TrackerKept` says that this file need not be kept: a
  path that is not tracked has a file that is covered, given up or `unseen`
  (`LocalFree`), since a job ends well only with a file the server has too or one
  written since the client looked, and the two ends that forget another one make it
  `unseen` again. That these two do lose found versions is in section 5
  (`FoundIsKept`). Each step of `FileSync` then is a step of `Replicas` under the
  refinement mapping (`StepSpares`), one of a user or one that keeps what is owed
  (`KeepsOwed`), and takes away an unseen version only where `Unguarded` says.
  Where the user may not write (`Refused`), a decision either is not about to
  replace or remove anything on the server or becomes a download (`Chosen`: it is
  `Justified` and `Permitted`, or the server's file is `Restored`); only a new file
  goes up, onto a place where nothing is that the client has seen (`ServerNew`), or
  once more onto what it has stored there itself (`SentAlready`).
  `Plain` is the condition: no write in the two moments of `windows`, and
  `ClearRights`. The ghost `owed` takes what the user changes for given up unless
  the server refuses this change, so it needs rights that say which of the two it
  is. A user who has only one of "W" and "D" may write what he was not allowed to
  remove, or the reverse. And without "W", over TUS and without checksums, a new
  edit goes up after an unanswered PATCH and replaces the first version, which
  the client had stored there itself and does not recognise.

Only model-checked:

* All liveness (`EventuallyOver`, `SyncsGoOn`, `HandlerReturns`, `Recovers`,
  `Converges`): the provers know neither fairness nor `ENABLED` well enough.
* Of `FileSync`, `KeepsVersions` where somebody writes in the moments of `windows`.
  Nothing is said of `KeepsVersions` and `KnownLosses` outside of `ClearRights`.

Of `NeverStuck` with locked files, and of `IntendedIsDiscovered` with the root among
the touched paths, section 5 has the counterexamples.

## 5. Where the code departs from what it says

Comments, tests and headers state what the code means to do. The modules keep
each such statement that TLC refutes, in their last section or, where it is a
condition on a scenario, beside the property; two of them have runs of their
own, marked `violation` in `PROJECT.json`. The others appear with the instance
named here: a tree of `MCPropagator`, the operations of a scenario of
`SyncScheduler`, the events of a scenario of `Connection`, and the rest as in
the passing runs.

**`Propagator`**

* `FinishedJobsNotActive` (Mixed tree), src/src/libsync/propagateupload.cpp:211: slotComputeContentChecksum and slotComputeTransmissionChecksum call abortWithError(), hence done(), for a locked file while the job is in _activeJobList; only ~PropagateItemJob takes it out. src/src/libsync/propagateupload.cpp:229 says "Remove ourselfs from the list of active job, before any posible call to done()" and src/src/libsync/owncloudpropagator.cpp:92 "Normally, every job should clean itself from the _activeJobList. So this should not be needed."
* `NeverStuck` (Wide tree, `BandwidthLimited` and `LocksFiles`), src/src/libsync/owncloudpropagator.cpp:633: With a single transfer allowed, an upload that finds its file locked before the posted scheduling pass runs is still counted as active: the pass starts nothing and posts nothing, and the destructor that frees the place later schedules nothing, so the propagation hangs. src/src/libsync/owncloudpropagator.cpp:928 says "If neither us or our children had stuff left to do we could hang. Make sure we mark this job as finished so that the propagator can schedule a new one."
* `HardMaximum` (Wide tree, `ParallelNetworkJobs = 1`, no bandwidth limit), src/src/libsync/owncloudpropagator.cpp:633: scheduleNextJobImpl starts jobs below maximumActiveTransferJob(), which is at least 3, before it looks at hardMaximumActiveJob(): with one or two parallel network jobs configured three run. src/src/libsync/owncloudpropagator.h:449 says "The maximum number of active jobs in parallel".
* `MoveIsExclusive` (Mixed tree), src/src/libsync/owncloudpropagator.cpp:888: The pass asks the running jobs in order and stops only behind one that waits: a directory that started earlier starts jobs while the later move runs. src/src/libsync/owncloudpropagator.h:86 says of WaitForFinished "No other job shall be started until this one has finished."
* `AbortStopsScheduling` (Wide tree), src/src/libsync/owncloudpropagator.cpp:671: abort() never sets _abortRequested, nothing does: the scheduling already posted, and the one each cancelled job posts, starts further jobs. src/src/libsync/owncloudpropagator.cpp:288 says "Abort all remaining jobs."
* `AbortedJobsEndSoftly` (Wide tree), src/src/libsync/owncloudpropagator.cpp:221: _abortRequested is never true, so a job cancelled by abort() ends with FatalError. src/src/libsync/owncloudpropagator.cpp:223 says "an abort request is ongoing. Change the status to Soft-Error".
* `SavedEtagIsEarned` without `PutOff` (Mixed tree), src/src/libsync/owncloudpropagator.cpp:949: A job answered with 423 or 425 ends with Message (src/src/libsync/owncloudpropagator_p.h:90), which slotSubJobFinished does not count as an error: the directory saves its etag without the file. src/src/libsync/owncloudpropagator.cpp:947 says "Any sub job error will cause the whole composite to fail. This is important for knowing whether to update the etag in PropagateDirectory, for example."
* `SavedEtagIsEarned` without `CoveredUp` (Mixed tree), src/src/libsync/owncloudpropagator.cpp:1075: slotSubJobsFinished of a directory whose first job ended with Conflict (or Restoration) reports that status even when a job below failed; the composite above does not see the failure and its directory saves its etag. src/src/libsync/owncloudpropagator.cpp:947 says "Any sub job error will cause the whole composite to fail. This is important for knowing whether to update the etag in PropagateDirectory, for example."

**`SyncScheduler`**

* `OneSyncAtATime` (listed run), src/src/gui/scheduling/syncscheduler.cpp:277: terminateCurrentSync() clears _currentSync after abort() has returned, but abort() ends in syncFinished, whose listener has already started the next queued folder and made it the current sync: that sync is forgotten and the next request starts a second one beside it. startNext() says "Another sync is already running, waiting for that to finish before starting a new sync" (src/src/gui/scheduling/syncscheduler.cpp:190). Reached by pausing a syncing folder (src/src/gui/accountsettings.cpp:263) while another folder is queued.
* `CurrentSyncIsRunning` (two folders, "unsupported"), src/src/gui/folderman.cpp:347: slotServerVersionChanged() pauses a folder whose engine is running; setSyncPaused() sets its state to Paused, so isSyncRunning() is false while the sync goes on. The next enqueueFolder() drops it as current sync and starts another one; the comment says "the sync is not running, this should never happen, enqueue next" (src/src/gui/scheduling/syncscheduler.cpp:171).
* `HandlerReturns` (one folder, "metered", `FairSpec`), src/src/gui/scheduling/syncscheduler.cpp:227: On a metered link startNext() hands the folder it has just made the current sync to enqueueFolder(), which finds a current sync that is not running, clears it and calls startNext() again, which pops the same folder: unbounded recursion (in a debug build the OC_ENSURE ends the process). The message says "Scheduler is paused due to metered internet connection, next sync is not started" (src/src/gui/scheduling/syncscheduler.cpp:228).
* `TakenToBeSynced` (two folders, "remove"), src/src/gui/scheduling/syncscheduler.cpp:209: When the top of the queue is a deleted folder startNext() calls pop() to discard it; pop() goes on to the first live folder, removes that one too, and its result is ignored: the folder leaves the queue without a sync. The comment says "If the folder is deleted in the meantime, we skip it" (src/src/gui/scheduling/syncscheduler.cpp:214).
* `WipedFolderIsIdle` (one folder, "remove"), src/src/gui/folderman.cpp:447: removeFolder() terminates the current sync before it pauses the folder. If the folder has queued itself again (startSync() does so when its watcher has pending changes) the abort makes the scheduler start it anew, and wipeForRemoval() closes and deletes the journal under the new sync; the comment says "abort the sync now" (src/src/gui/folderman.cpp:446).
* `QueuedIsWaiting` (one folder, "spurious"), src/src/gui/folder.cpp:681: slotWatchedPathsChanged() sets a folder from Queued to Success only if the scheduler has queued it, the opposite of what its comment says: "the folder entered queued when a file change was detected (not actually queued), it later turned out the change was irrelevant" (src/src/gui/folder.cpp:682). A folder that only looked queued stays Queued.
* `PausedIsShown` (one folder, "pause"), src/src/gui/folder.cpp:985: A sync terminated by pausing its folder never ends in Paused: SyncEngine::abort() emits syncError first, so the branch for errors is taken and the state becomes Error; the comment says "Maybe the sync was terminated because the user paused the folder" (src/src/gui/folder.cpp:986).
* `FinalizedOnce` (one folder, "pause"), src/src/libsync/syncengine.cpp:607: abort() with a propagator finalizes at once and deletes it, but the propagator's finished() may already be posted (queued connection, syncengine.cpp:543): slotPropagationFinished() then dereferences a null _propagator, or finalizes the next sync. The comment says "abort might be called multiple times, ensure we call finalize only once" (src/src/libsync/syncengine.cpp:737).

**`LocalDiscovery`**

* `NothingForgotten` (scenario {"young"}), src/src/libsync/localdiscoverytracker.cpp:81: slotItemCompleted() treats the status Message as a success and wipes the file. The upload of a file that is still changing ends with Message (src/src/libsync/propagateupload.cpp:256) and asks for a follow-up sync, which takes everything but the tracker's paths from the database and does not look at the file; if no further change is notified it stays unsynced until the next full discovery. The comment says "For failures, we want to add the file to the list so the next sync" (src/src/libsync/localdiscoverytracker.cpp:65), and that of the follow-up "Sometimes another sync is requested because a local file is still" (src/src/gui/folder.cpp:1033).
* `NothingForgotten` (scenario {"nested"}), src/src/gui/folder.cpp:128: The tracker is connected to SyncEngine::finished after the folder (line 117), whose slotSyncFinished() lets the scheduler start a queued folder anew at once: startSyncPartialDiscovery() of the new run comes before slotSyncFinished(success) of the old one, which then clears the new run's list. If the new run fails its paths are not retried, against "For failing syncs, this list will be merged into _localDiscoveryPaths" (src/src/libsync/localdiscoverytracker.h:95).
* `FullRequestStands` (scenario {"lost"}), src/src/gui/folder.cpp:1008: slotSyncFinished() restarts the timer of the last full discovery whatever happened during the run: a full discovery requested meanwhile (lostChanges of the watcher, src/src/gui/folder.cpp:1140) is forgotten although the run may have read the changed directory before. The header says "Ensures that the next sync performs a full local discovery." (src/src/gui/folder.h:267).

**`DiscoveryDecision`**

* `IntendedIsDiscovered` (`WithRoot = TRUE`), src/src/libsync/syncengine.cpp:714: If the root itself is touched, as the Windows watcher reports when its buffer overflows (src/src/gui/folderwatcher_win.cpp:61), the empty path is in the list; the search finds it as a prefix of every directory, but accepts it only if it ends with a separator or the directory's name begins with a character up to it. The comment says "subfolders like "A/X/Y" will be discovered (so data inside a new or renamed folder will be" (src/src/libsync/syncengine.cpp:706).

**`Connection`**

* `GuardsHold` ("expired", "redirect", "refused"), src/src/libsync/jobqueue.cpp:87: JobQueue::clear() sets the block count to 0 whoever blocks: when a refused token makes Account's guard clear the queue, a check of AccountState that blocks it for a redirect no longer does, and its later unblock takes the count of the next refresh's block. The unit test of the queue says that a guard's block stands whatever another guard does: "QVERIFY(queueGuard1.unblock()); QVERIFY(queue->isBlocked());" (src/test/testjobqueue.cpp:118).
* `PortalBlocksJobs` ("portal"), src/src/gui/accountstate.cpp:263: setState(Connected) posts a call that unblocks the queue even if it has turned the state into Connecting because of the captive portal, so the portal's block is gone while the account is behind it. The comment at src/src/gui/accountstate.cpp:135 says "Block jobs from starting: they will fail because of the captive portal."
* `PortalPauses` ("portal"), src/src/gui/accountstate.cpp:363: Behind a captive portal checkConnectivity(false) of a connected account returns when the last ETag check was recent, and never sets Connecting for a connected account. The comment at src/src/gui/accountstate.cpp:157 says of the call that it "ensures that not only the status is set to `Connecting`, but also makes the UI show that syncing is paused."
* `SettingsJobEnds` ("expired", "refused"), src/src/gui/accountstate.cpp:268: The capabilities job that waits in the queue when the refresh token is refused is aborted by clear(), which emits no finishedSignal: _fetchServerSettingsJob is never reset and readyForSync stays false until a restart, although the user logs in again. The comment at src/src/gui/accountstate.cpp:270 says of that signal "clear the guard to make readyForSync return true".
* `RefreshEnds` ("keychain", `FairSpec`), src/src/libsync/creds/oauth.cpp:787: AccountBasedOAuth::restore reports a keychain error with result(Error) during a refresh too. HttpCredentials is not connected to it: _oAuthJob stays, refreshAccessToken takes it for a running refresh, and the queue stays blocked. src/src/libsync/creds/oauth.h:104 says of refreshError "Terminal failure signal for refreshAuthentication. The initial authentication flow uses result(Error) instead."
* `UpgradeFetchesCapabilities` ("upgrade", "heal", `FairSpec`), src/src/gui/accountstate.cpp:447: For an account without cached capabilities a successful validation only starts the next validation: capabilities are fetched after setState(Connected) alone, which is never reached. The comment at src/src/gui/accountstate.cpp:444 says "now check again and fetch capabilities".
* `SignOutForgets` ("expired", "signout"), src/src/libsync/creds/httpcredentials.cpp:253: signOutByUi does not stop a token refresh under way: its refreshFinished sets the refresh token again and persists it in the keychain of the signed out account. src/src/gui/accountstate.h:93 says "A user-triggered sign out which disconnects, stops syncs for the account and forgets the password."
* `ReconnectEnqueues` ("offline"), src/src/gui/accountstate.cpp:278: When the account reconnects while the capabilities job of an earlier, unchanged check still runs, isConnectedChanged is emitted at once, with readyForSync false, so that no folder is queued, and not again at the end of that job. The comment at src/src/gui/accountstate.cpp:111 says "this way a successful checkConnectivity call above will trigger a local discover".
* `OneFailureIsRetried` ("expired", "hard"), src/src/libsync/creds/httpcredentials.cpp:239: The retry timer of a failed refresh is not stopped when another refresh, started by a 401 meanwhile, succeeds. It refreshes again with its old count, and a single failure then logs the user out. src/src/libsync/creds/httpcredentials.cpp:46 says of the timeout after an error that "this can be applied `TokenRefreshMaxRetries` times".
* `ConnectedTalks` ("metered"), src/src/gui/accountstate.cpp:128: isMeteredChanged(false) sets any Connecting account to Connected, also one that waits for the user to log in. src/src/gui/accountstate.h:58 says of Connected "The account is successfully talking to the server."

**`FileSync`**

* `IgnoredIsNotCounted` (scenario of `filesync_message`, `Wait = 2`), src/src/libsync/syncengine.cpp:145: checkErrorBlacklisting() gives an item that it skips for a LocalSoftError the status SoftError, with which the PropagateIgnoreJob ends; blacklistUpdate() (src/src/libsync/owncloudpropagator.cpp:182) takes it for a new failure, with one retry more and a waiting time that is five times as long and begins now. The comment says it is "for reporting and for making sure we don't update the blacklist entry yet" (src/src/libsync/syncengine.cpp:141). A file with such an error is tried again only after a pause between two runs that is longer than its wait, or after an unlock, or a start.
* `FoundIsKept` (listed run, module `FileHistory`), src/src/libsync/localdiscoverytracker.cpp:81: slotItemCompleted() wipes the path of an upload that ended with Message because its file is young or changes (src/src/libsync/propagateupload.cpp:256-258). The follow-up run reads the journal instead of the file (src/src/gui/folder.cpp:911-918). When another client has removed the file from the server meanwhile, the run takes it for unchanged, decides to remove it (src/src/libsync/discovery.cpp:592-597) and deletes a version the client had found (src/src/libsync/propagatorjobs.cpp:96). What the client shows is "Local file changed during sync. It will be resumed." (src/src/libsync/propagateupload.cpp:112), and the comment says "For failures, we want to add the file to the list so the next sync will be able to retry it." (src/src/libsync/localdiscoverytracker.cpp:65-66). This is the loss for which a forgotten version is `unseen` again in `KeepsVersions`.
* The other end in `Forgets` takes more steps: an upload over TUS loses its answer and the user edits the file. The next run takes the row it finds for its own upload (src/src/libsync/discovery.cpp:928-935) and uploads the edit, with the checksum of the first version, which the item has from the server (src/src/libsync/discovery.cpp:314) and the upload uses again (src/src/libsync/propagateupload.cpp:171-175). If that upload fails too, its row has the time of the edit and the checksum of the version the server has: the next run takes the edit for uploaded (`UPDATE_METADATA`) and the tracker wipes its path. A later run that reads the journal then knows nothing of the edit, and removes the file with it when the server's is removed.
* `Converges` (`Wait = 2`, scenarios of `filesync_live`): its consequence, a file that is never tried again while runs follow each other.
* `JournalIsTruthful` without its condition (scenario with `windows`), src/src/libsync/propagatedownload.cpp:255: a conflict whose checksums agree is none; the local file then gets the server's time. What the user has written since the checksum, of equal size, gets it too: the edit has the stamp of the journal and is never uploaded.
* `JournalIsTruthful` without its condition (scenario with `windows`), src/src/libsync/propagateuploadtus.cpp:285: the etag for an upload over TUS that brought none is asked for by a PROPFIND afterwards. If another client wrote the file in between, the journal has its etag with our version, and the file of the other client is never downloaded.
* `KnownLosses`, the four places in `Unguarded`: removing a local file (src/src/libsync/propagatorjobs.cpp:96) and one on the server (no If-Match in src/src/libsync/propagateremotedelete.cpp:43) look at nothing; the upload of a new file sends no If-Match (src/src/libsync/propagateupload.cpp:514), so a file another client has created since the discovery is replaced; uncheckedRenameReplace() (src/src/libsync/common/filesystembase.cpp:223) removes what is there, also if it was put back after the check in downloadFinished(). What is written in these moments is lost.
* A file that the server lets the user delete but not write is restored by a conflict: the local version is renamed away first (createConflict(), src/src/libsync/owncloudpropagator.cpp:713). If the process stops between that and the rename of the download, the next run takes the missing file for a removal and deletes it on the server. Such permissions ({"D"}) are in no passing run.
* A PUT whose answer was lost, with a local edit after it, gives a conflict copy of our own version: only TUS leaves the row by which processFileConflict() recognises its upload.

## 6. What is not modelled

* What the watcher reports while a run is under way, in `FileSync` (`tracked`); the
  time for which a file is young; that a file that is removed locally may be kept in
  the trash.
* In `SyncScheduler`: that a new folder may get the address of a deleted one, whose
  raw pointer the map of the queue still holds.
* Of the way of a file: renames and moves, directories, virtual files, excluded
  and invalid names, two files whose names differ in case only, the free disk
  space, sizes that differ while the times agree, uploads of more than two
  parts, the growth of the waiting time from one error to the next.
* In the modelled parts: `reloadExcludes`, setup errors of VFS plugins, debug
  assertions (`Q_ASSERT`), an account that the wizard is setting up, the chain of
  Drives jobs, the order of the jobs in the queue, bodies that cannot be sent
  again, unreadable data in the keychain, the status texts, what a deleted
  validator has posted before its end.
* Components of their own: see `PROJECT.json`, with the reasons.

## 7. Roadmap

In this order:

1. A ghost that follows what a user gives up where "W" and "D" differ, for the
   theorems about the versions of such a file.
2. Renames in `Reconciliation`, with a second path in `FileSync`.
3. `StatusTracker`: the counts of running items return to zero; a file in error
   is shown as such in all directories above it.
4. `SpacesManager` as a user of the queue in `Connection`; lock watcher, ETag
   watcher and `reloadExcludes` in `SyncScheduler`; bandwidth manager.
