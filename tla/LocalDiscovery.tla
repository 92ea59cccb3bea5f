--------------------------- MODULE LocalDiscovery ---------------------------
(***************************************************************************)
(* How a local change finds its way into a sync.  The folder watcher       *)
(* collects the notifications of the file system, the folder hands them    *)
(* to its LocalDiscoveryTracker and decides whether the next sync reads    *)
(* the whole local tree or only the directories the tracker names, the     *)
(* engine looks there, and what became of each item corrects the tracker.  *)
(*                                                                         *)
(* A member of Paths is a directory below the root with one file in it.    *)
(* The file changes at any time.  Everything else runs on the thread of    *)
(* the event loop; `tails' holds the calls of SyncEngine::finalize that    *)
(* have told the folder of the end of their run and have still to tell     *)
(* the tracker: in between the scheduler may start the folder's next run.  *)
(***************************************************************************)
EXTENDS Naturals, Sequences

CONSTANTS
    Paths,
    Scenarios    \* the scenarios behaviours are taken from, see scenario

(***************************************************************************)
(* What may befall a folder beyond the usual.  nested: a folder queued     *)
(* during its run is restarted from finalize.  young: a file may be too    *)
(* young to be uploaded.  lost: the watcher loses changes, or a full       *)
(* discovery is asked for, while a run goes on.                            *)
(***************************************************************************)
Circumstances == {"nested", "young", "lost"}

ASSUME DiscoveryAssumption == Scenarios \subseteq SUBSET Circumstances

VARIABLES
    scenario,    \* the circumstances of this behaviour, chosen at its start
    changed,     \* files that differ from what the journal says of them
    notices,     \* notifications the watcher has not read yet
    lost,        \* its lostChanges signal is on the way to the folder
    changeSet,   \* FolderWatcher::_changeSet
    reliable,    \* FolderWatcher::_isReliable
    paths,       \* LocalDiscoveryTracker::_localDiscoveryPaths
    previous,    \* LocalDiscoveryTracker::_previousLocalDiscoveryPaths
    fullDone,    \* _timeSinceLastFullLocalDiscovery is valid, not expired
    queued,      \* the folder waits in the scheduler's queue
    phase,       \* how far the engine is
    style,       \* SyncEngine::_localDiscoveryStyle
    enginePaths, \* SyncEngine::_localDiscoveryPaths
    lastStyle,   \* SyncEngine::_lastLocalDiscoveryStyle
    rootQuery,   \* ProcessDirectoryJob::_queryLocal of the root
    todo,        \* directories the discovery has not come to
    items,       \* changed files it has found, not completed
    outdated,    \* those that changed again since they were found
    failed,      \* an item of this run has failed
    infos,       \* uploads the journal can resume
    tails,       \* finalize calls that have still to tell the tracker
    wanted,      \* history: a full discovery was asked for since the last start
    settled      \* history: completed well in this run, not touched since

watcherVars == <<notices, lost, changeSet, reliable>>
trackerVars == <<paths, previous>>
engineVars  == <<phase, style, enginePaths, lastStyle, rootQuery, todo, items,
                 outdated, failed, infos>>
vars == <<scenario, changed, watcherVars, trackerVars, fullDone, queued, engineVars,
          tails, wanted, settled>>

Styles  == {"DatabaseAndFilesystem", "FilesystemOnly"}
Phases  == {"idle", "starting", "discovery", "propagation"}
Queries == {"NormalQuery", "ParentNotChanged"}

\* A finalize call on the stack; `emitting' while it may start the next run.
Frame == [success : BOOLEAN, emitting : BOOLEAN]

\* Between two runs engine and tracker hold nothing of the last one.
CleanBetweenRuns ==
    phase = "idle" /\ tails = <<>> =>
        previous = {} /\ enginePaths = {} /\ style = "FilesystemOnly"

TypeOK ==
    /\ CleanBetweenRuns
    /\ scenario \in Scenarios
    /\ changed \subseteq Paths /\ notices \subseteq Paths
    /\ changeSet \subseteq Paths /\ paths \subseteq Paths
    /\ previous \subseteq Paths /\ enginePaths \subseteq Paths
    /\ todo \subseteq Paths /\ items \subseteq Paths
    /\ outdated \subseteq items /\ infos \subseteq Paths
    /\ settled \subseteq Paths
    /\ {lost, reliable, fullDone, queued, failed, wanted} \subseteq BOOLEAN
    /\ phase \in Phases /\ style \in Styles /\ lastStyle \in Styles
    /\ rootQuery \in Queries /\ tails \in Seq(Frame)

(***************************************************************************)
(* The client has just set up the folder: no full discovery yet, and       *)
(* whatever changed while it was not running went unnoticed.               *)
(***************************************************************************)
Init ==
    /\ scenario \in Scenarios
    /\ changed \in SUBSET Paths
    /\ notices = {} /\ changeSet = {} /\ lost = FALSE /\ reliable = TRUE
    /\ paths = {} /\ previous = {} /\ fullDone = FALSE /\ queued = TRUE
    /\ phase = "idle" /\ style = "FilesystemOnly" /\ enginePaths = {}
    /\ lastStyle = "DatabaseAndFilesystem" /\ rootQuery = "NormalQuery"
    /\ todo = {} /\ items = {} /\ outdated = {} /\ failed = FALSE
    /\ infos = {} /\ tails = <<>> /\ wanted = TRUE /\ settled = {}

\* No handler of the event loop is running.
EventLoop == tails = <<>> /\ phase # "starting"

---------------------------------------------------------------------------
(***************************************************************************)
(* The file system and the watcher.                                        *)
(***************************************************************************)

\* Somebody writes the file.  A watcher out of inotify watches sees nothing.
Change(p) ==
    /\ changed' = changed \cup {p}
    /\ notices' = IF reliable THEN notices \cup {p} ELSE notices
    /\ outdated' = outdated \cup ({p} \cap items)
    /\ settled' = settled \ {p}
    /\ UNCHANGED <<lost, changeSet, reliable, trackerVars, fullDone, queued,
                   phase, style, enginePaths, lastStyle, rootQuery, todo,
                   items, failed, infos, tails, wanted>>

\* The buffer for changes overflows; the watcher thread posts lostChanges.
LoseChange(p) ==
    /\ "lost" \in scenario \/ phase = "idle"
    /\ changed' = changed \cup {p} /\ lost' = TRUE
    /\ outdated' = outdated \cup ({p} \cap items)
    /\ settled' = settled \ {p}
    /\ UNCHANGED <<notices, changeSet, reliable, trackerVars, fullDone, queued,
                   phase, style, enginePaths, lastStyle, rootQuery, todo,
                   items, failed, infos, tails, wanted>>

BecomeUnreliable ==
    /\ reliable' = FALSE
    /\ UNCHANGED <<changed, notices, lost, changeSet, trackerVars, fullDone,
                   queued, engineVars, tails, wanted, settled>>

\* FolderWatcher::addChanges, from slotReceivedNotification.
AddChanges ==
    /\ EventLoop /\ notices # {}
    /\ changeSet' = changeSet \cup notices /\ notices' = {}
    /\ UNCHANGED <<changed, lost, reliable, trackerVars, fullDone, queued,
                   engineVars, tails, wanted, settled>>

\* What slotWatchedPathsChanged asks the scheduler for: a notification is
\* spurious if the file is as the journal has it.
NeedSync_Always(ps) == TRUE
NeedSync(ps) == ps \cap changed # {}

\* The watcher's timer: popChangeSet and slotWatchedPathsChanged.
WatchedPathsChanged ==
    /\ EventLoop /\ changeSet # {}
    /\ changeSet' = {} /\ paths' = paths \cup changeSet
    /\ queued' = (queued \/ NeedSync(changeSet))
    /\ settled' = settled \ changeSet
    /\ UNCHANGED <<changed, notices, lost, reliable, previous, fullDone,
                   engineVars, tails, wanted>>

\* slotNextSyncFullLocalDiscovery: by lostChanges, by the user, by startVfs.
NextSyncFullLocalDiscovery ==
    /\ EventLoop /\ ("lost" \in scenario \/ phase = "idle")
    /\ lost' = FALSE /\ fullDone' = FALSE /\ wanted' = TRUE
    /\ UNCHANGED <<changed, notices, changeSet, reliable, trackerVars, queued,
                   engineVars, tails, settled>>

\* fullLocalDiscoveryInterval has passed.
FullDiscoveryExpires ==
    /\ fullDone /\ fullDone' = FALSE
    /\ UNCHANGED <<changed, watcherVars, trackerVars, queued, engineVars, tails,
                   wanted, settled>>

\* A poll of the server, a user or a follow-up asks for a sync.
Enqueue ==
    /\ EventLoop /\ ~queued /\ queued' = TRUE
    /\ UNCHANGED <<changed, watcherVars, trackerVars, fullDone, engineVars,
                   tails, wanted, settled>>

---------------------------------------------------------------------------
(***************************************************************************)
(* A run.                                                                  *)
(***************************************************************************)

\* The condition in Folder::startSync under which the database may be read.
MayReadDatabase == reliable /\ fullDone

\* SyncEngine::setLocalDiscoveryOptions adds the uploads to be resumed.
Looked_NotGiven(ps) == infos
Looked(ps) == ps \cup infos

(***************************************************************************)
(* Folder::startSync up to the call of the engine: the latest changes are  *)
(* fetched, queueing the folder again if one is real; then engine and      *)
(* tracker are told what this run will look at.                            *)
(***************************************************************************)
StartSync ==
    LET latest == paths \cup changeSet IN
    /\ queued /\ phase = "idle"
    /\ queued' = NeedSync(changeSet)
    /\ changeSet' = {} /\ paths' = {}
    /\ IF MayReadDatabase
       THEN /\ style' = "DatabaseAndFilesystem"
            /\ enginePaths' = Looked(latest) /\ previous' = latest
       ELSE /\ style' = "FilesystemOnly"
            /\ enginePaths' = Looked({}) /\ previous' = {}
    /\ phase' = "starting" /\ failed' = FALSE
    /\ wanted' = FALSE /\ settled' = {}
    /\ UNCHANGED <<changed, notices, lost, reliable, fullDone, lastStyle,
                   rootQuery, todo, items, outdated, infos>>

\* The scheduler starts the folder from the event loop ...
StartFromQueue == tails = <<>> /\ StartSync /\ UNCHANGED tails

\* ... or from the end of the run that is being finalized.
StartFromFinished ==
    /\ "nested" \in scenario /\ tails # <<>> /\ tails[Len(tails)].emitting
    /\ StartSync
    /\ tails' = [tails EXCEPT ![Len(tails)].emitting = FALSE]

\* SyncEngine::shouldDiscoverLocally, for the root and for a directory below.
DiscoverRoot   == style = "FilesystemOnly" \/ enginePaths # {}
DiscoverDir(p) == style = "FilesystemOnly" \/ p \in enginePaths

\* SyncEngine::startSync: the job of the root decides before it returns.
EngineStart ==
    /\ phase = "starting" /\ phase' = "discovery"
    /\ lastStyle' = style
    /\ rootQuery' = IF DiscoverRoot THEN "NormalQuery" ELSE "ParentNotChanged"
    /\ todo' = Paths
    /\ UNCHANGED <<changed, watcherVars, trackerVars, fullDone, queued, style,
                   enginePaths, items, outdated, failed, infos, tails, wanted,
                   settled>>

\* ProcessDirectoryJob::start and process for the directory p.
Discover(p) ==
    /\ EventLoop /\ phase = "discovery" /\ p \in todo
    /\ todo' = todo \ {p}
    /\ items' = IF rootQuery = "NormalQuery" /\ DiscoverDir(p)
                THEN items \cup ({p} \cap changed) ELSE items
    /\ UNCHANGED <<changed, watcherVars, trackerVars, fullDone, queued, phase,
                   style, enginePaths, lastStyle, rootQuery, outdated, failed,
                   infos, tails, wanted, settled>>

\* SyncEngine::slotDiscoveryFinished, with deleteStaleUploadInfos.
DiscoveryFinished ==
    /\ EventLoop /\ phase = "discovery" /\ todo = {}
    /\ phase' = "propagation" /\ enginePaths' = {}
    /\ infos' = infos \cap items
    /\ UNCHANGED <<changed, watcherVars, trackerVars, fullDone, queued, style,
                   lastStyle, rootQuery, todo, items, outdated, failed, tails,
                   wanted, settled>>

\* What LocalDiscoveryTracker::slotItemCompleted does on a good status.
Wiped_Kept(ps, p) == ps
Wiped(ps, p) == ps \ {p}

\* ... and on an error.
Retried(ps, p) == ps \cup {p}

\* The propagator reports the item of p.
Completing(p) ==
    /\ EventLoop /\ phase = "propagation" /\ p \in items
    /\ items' = items \ {p} /\ outdated' = outdated \ {p}
    /\ UNCHANGED <<watcherVars, fullDone, queued, phase, style, enginePaths,
                   lastStyle, rootQuery, todo, tails, wanted>>

\* The upload arrived.  The journal describes the file as it was discovered.
ItemSucceeds(p) ==
    /\ Completing(p)
    /\ changed' = IF p \in outdated THEN changed ELSE changed \ {p}
    /\ previous' = Wiped(previous, p)
    /\ infos' = infos \ {p}
    /\ settled' = IF p \in paths \/ p \in outdated THEN settled ELSE settled \cup {p}
    /\ UNCHANGED <<paths, failed>>

\* The file changed after its discovery, or its last write is too recent: it
\* is left for the follow-up sync, with the status Message.
ItemPostponed(p) ==
    /\ Completing(p) /\ (p \in outdated \/ "young" \in scenario)
    /\ previous' = Wiped(previous, p)
    /\ UNCHANGED <<changed, paths, failed, infos, settled>>

\* An error, or the item was blacklisted.  Chunks sent so far can be resumed.
ItemFails(p) ==
    /\ Completing(p) /\ failed' = TRUE
    /\ paths' = Retried(paths, p) /\ settled' = settled \ {p}
    /\ infos' \in {infos, infos \cup {p}}
    /\ UNCHANGED <<changed, previous>>

---------------------------------------------------------------------------
(***************************************************************************)
(* The end of a run.                                                       *)
(***************************************************************************)

\* SyncEngine::finalize until the folder knows, Folder::slotSyncFinished.
\* `error': an error of the whole run was reported, as abort does.
Finalize(success, error) ==
    /\ phase' = "idle" /\ todo' = {} /\ items' = {} /\ outdated' = {}
    /\ fullDone' = (fullDone \/ (success /\ ~error /\ lastStyle = "FilesystemOnly"))
    /\ tails' = Append(tails, [success |-> success, emitting |-> TRUE])
    /\ UNCHANGED <<changed, watcherVars, trackerVars, queued, style, enginePaths,
                   lastStyle, rootQuery, failed, infos, wanted, settled>>

\* The disk is full, the journal cannot be opened: startSync gives up.
EngineStartFails == phase = "starting" /\ Finalize(FALSE, TRUE)

PropagationFinished ==
    /\ EventLoop /\ phase = "propagation" /\ items = {}
    /\ Finalize(~failed, FALSE)

\* SyncEngine::abort: the user, the account or a fatal error.
Abort ==
    /\ EventLoop /\ phase \in {"discovery", "propagation"}
    /\ Finalize(FALSE, TRUE)

\* LocalDiscoveryTracker::slotSyncFinished.
Merged_Dropped(success) == paths
Merged(success) == IF success THEN paths ELSE paths \cup previous

\* The last lines of finalize.
EngineForgets_PathsKept == enginePaths' = enginePaths /\ style' = "FilesystemOnly"
EngineForgets == enginePaths' = {} /\ style' = "FilesystemOnly"

\* The second receiver of finished, then what is left of finalize.
TellTracker ==
    /\ tails # <<>> /\ phase # "starting"
    /\ paths' = Merged(tails[Len(tails)].success) /\ previous' = {}
    /\ EngineForgets
    /\ tails' = SubSeq(tails, 1, Len(tails) - 1)
    /\ UNCHANGED <<changed, watcherVars, fullDone, queued, phase, lastStyle,
                   rootQuery, todo, items, outdated, failed, infos, wanted,
                   settled>>

---------------------------------------------------------------------------
FileSystem == \/ \E p \in Paths : Change(p) \/ LoseChange(p)
              \/ BecomeUnreliable

Watching == AddChanges \/ WatchedPathsChanged \/ NextSyncFullLocalDiscovery

SyncRun == \/ StartFromQueue \/ StartFromFinished \/ EngineStart \/ EngineStartFails
           \/ \E p \in Paths : Discover(p)
           \/ DiscoveryFinished
           \/ \E p \in Paths : ItemSucceeds(p) \/ ItemPostponed(p) \/ ItemFails(p)
           \/ PropagationFinished \/ Abort \/ TellTracker

Next ==
    /\ FileSystem \/ Watching \/ FullDiscoveryExpires \/ Enqueue \/ SyncRun
    /\ UNCHANGED scenario

Spec == Init /\ [][Next]_vars

---------------------------------------------------------------------------
(***************************************************************************)
(* What must hold.                                                         *)
(***************************************************************************)

\* The next run of the folder reads the whole local tree.
NextIsFull == ~MayReadDatabase \/ lost

\* Somebody still knows of the change of p.
Remembered(p) ==
    \/ p \in notices \cup changeSet        \* the watcher
    \/ p \in paths \cup previous           \* the tracker
    \/ p \in items                         \* the run, as an item
    \/ /\ phase = "discovery" /\ p \in todo \* the run will look at it
       /\ rootQuery = "NormalQuery" /\ DiscoverDir(p)
    \/ NextIsFull

NothingForgotten == \A p \in changed : Remembered(p)

(***************************************************************************)
(* No local change is forgotten: until the file is synced, the watcher,    *)
(* the tracker or the run knows of it, or the next run looks everywhere    *)
(* (localdiscoverytracker.h: "Tracks files that must be rediscovered       *)
(* locally").  Each of the circumstances alone breaks it: the young file   *)
(* is taken for done, a nested start has its list dropped or taken over    *)
(* by the end of the old run, and a full run that ends takes back a full   *)
(* discovery asked for meanwhile.                                          *)
(***************************************************************************)
NoChangeForgotten == scenario = {} => NothingForgotten

(***************************************************************************)
(* A file that was synced and not touched since is not looked at again on  *)
(* its own account, even if its run fails as a whole                       *)
(* (LocalDiscoveryTracker::slotItemCompleted: "For successes, we want to   *)
(* wipe the file from the list").                                          *)
(***************************************************************************)
SettledIsLeftAlone == settled \cap (paths \cup previous) = {}

(***************************************************************************)
(* Runs that fail at once and start each other from finalize end: a start  *)
(* queues its folder again only for a real change, which it has consumed.  *)
(***************************************************************************)
NestingEnds == Len(tails) <= 3

(***************************************************************************)
(* The run and the tracker agree on what a partial discovery looks at: a   *)
(* directory that the engine reads because the tracker named it is put     *)
(* back into the list if the run fails.                                    *)
(***************************************************************************)
EngineLooksWhereTrackerSays ==
    phase = "discovery" /\ style = "DatabaseAndFilesystem" =>
        previous \subseteq enginePaths /\ enginePaths \subseteq previous \cup infos

---------------------------------------------------------------------------
(***************************************************************************)
(* What a comment says and the code does not do, with "lost": a full       *)
(* discovery that was asked for is still ahead until a run starts          *)
(* (folder.h on slotNextSyncFullLocalDiscovery: "Ensures that the next     *)
(* sync performs a full local discovery.").                                *)
(***************************************************************************)
FullRequestStands == wanted => ~MayReadDatabase
=============================================================================
