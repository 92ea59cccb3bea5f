--------------------------- MODULE SyncScheduler ---------------------------
(***************************************************************************)
(* The life of a sync run: gui/scheduling/syncscheduler decides which      *)
(* folder syncs next, gui/folder starts the run and digests its result,    *)
(* libsync/syncengine carries it through discovery and propagation, and    *)
(* every user or account event can interfere.                              *)
(*                                                                         *)
(* All three live on the thread of the event loop and call each other      *)
(* synchronously, back into the caller included: the end of a run reaches  *)
(* the scheduler through direct signals, which starts the next run while   *)
(* the engine of the last one is still inside finalize().  `stack' holds   *)
(* the calls that have still to be made, the next one first; a handler of  *)
(* the event loop runs only when it is empty.  An OC_ENSURE is modelled as *)
(* in a release build: it reports and answers its condition.               *)
(***************************************************************************)
EXTENDS Naturals, FiniteSets, Sequences, SequencesExt

CONSTANTS
    Folders,
    Accounts,
    AccountOf,        \* account of each folder
    NoFolder,         \* the null value of _currentSync
    Scenarios,        \* which folders there are, and what befalls them
    MaxPosted,        \* bound: results of propagation on the event queue
    MaxListeners      \* bound: connections to syncFinished, saturating

Low    == 1
Medium == 2
High   == 3
Priorities == Low .. High

AllOperations ==
    {"pause", "force", "systray", "unsupported", "vfs", "remove",
     "metered", "spurious", "account", "fail"}

\* folders: those that are set up when the client starts.  operations: what
\* users and servers do, besides changing files.  requests: the priorities of
\* the syncs they ask for.  limit: how often a failed sync, or a follow-up, is
\* repeated.
AllScenarios ==
    [folders : SUBSET Folders, operations : SUBSET AllOperations,
     requests : SUBSET Priorities, limit : Nat]

ASSUME SchedulerAssumption ==
    /\ AccountOf \in [Folders -> Accounts] /\ NoFolder \notin Folders
    /\ MaxPosted \in Nat
    /\ MaxListeners \in Nat \ {0}
    /\ Scenarios \subseteq AllScenarios
    /\ IsFiniteSet(Folders)

VARIABLES
    sched,    \* SyncScheduler and its FolderPriorityQueue
    net,      \* the accounts that are ready for syncs, whether the link is
              \* metered, and the scenario, chosen at the start
    folder,   \* the Folder objects
    engine,   \* their SyncEngine objects
    posted,   \* propagation results on their way to slotPropagationFinished
    stack     \* the calls still to be made by the running handler

vars == <<sched, net, folder, engine, posted, stack>>

Statuses == {"Undefined", "Queued", "SyncRunning", "Success", "Error", "Paused"}
Calls ==
    {"enqueueFolder", "startNext", "popIgnored", "terminateCurrentSync",
     "clearCurrent", "start", "startSync", "engineStart", "abort",
     "finalize", "resetEngine", "slotSyncFinished", "syncFinished",
     "finalizeVfsSwitch", "followUp", "wipe", "down"}

Frame(call, f, arg) == [call |-> call, f |-> f, arg |-> arg]
Frames == [call : Calls, f : Folders \cup {NoFolder}, arg : 0 .. High]
Flag(b) == IF b THEN 1 ELSE 0

----------------------------------------------------------------------------
Operations == net.scenario.operations
Requests == net.scenario.requests
retrySyncLimitC == net.scenario.limit

Cur == sched.cur
Busy_Ignored == FALSE
Busy == Cur # NoFolder
Queued == DOMAIN sched.scheduled     \* isFolderQueued()

CanSync_Paused(f) ==
    /\ folder[f].life = "alive" /\ folder[f].ready
    /\ net.ready[AccountOf[f]]
CanSync(f) ==
    /\ folder[f].life = "alive" /\ folder[f].ready /\ ~folder[f].paused
    /\ net.ready[AccountOf[f]]

isSyncRunning(f) == folder[f].state = "SyncRunning"

\* The orders FolderMan may hold the folders of S in.
Orders(S) == {order \in [1 .. Cardinality(S) -> S] : IsInjective(order)}

Idle == stack = <<>>

\* The running handler is replaced by the calls it makes.
Call(frames) == stack' = frames \o Tail(stack)
Return == stack' = Tail(stack)
On(call) == stack # <<>> /\ stack[1].call = call
\* A handler of the event loop.
Handle(frames) == Idle /\ stack' = frames

----------------------------------------------------------------------------
\* FolderPriorityQueue: one element for each folder, the priority only rises.
Enqueued(s, f, p) ==
    IF f \notin DOMAIN s.scheduled
      THEN [s EXCEPT !.queue = @ \cup {<<f, p>>},
                     !.scheduled = [g \in DOMAIN @ \cup {f} |->
                                      IF g = f THEN p ELSE @[g]]]
    ELSE IF p > s.scheduled[f]
      THEN [s EXCEPT !.queue = (@ \ {<<f, s.scheduled[f]>>}) \cup {<<f, p>>},
                     !.scheduled[f] = p]
    ELSE s

Popped_MapKept(s, e) == [s EXCEPT !.queue = @ \ {e}]
Popped(s, e) ==
    [s EXCEPT !.queue = @ \ {e},
              !.scheduled = [g \in DOMAIN @ \ {e[1]} |-> @[g]]]

\* The elements that may be on top: the heap orders by priority only.
Tops(s) == {e \in s.queue : \A o \in s.queue : o[2] <= e[2]}

\* SyncScheduler::enqueueFolder.  Its last act is to look for work.
EnqueueFolder ==
    /\ On("enqueueFolder")
    /\ LET f == stack[1].f
           p == stack[1].arg
           s == Enqueued(sched, f, p)
           idle == ~Busy \/ ~isSyncRunning(Cur)
       IN IF ~CanSync(f)
            THEN Return /\ UNCHANGED <<sched, folder>>
            ELSE /\ folder' = IF f = Cur THEN folder
                              ELSE [folder EXCEPT ![f].state = "Queued"]
                 /\ sched' = IF idle THEN [s EXCEPT !.cur = NoFolder] ELSE s
                 /\ IF idle THEN Call(<<Frame("startNext", NoFolder, 0)>>)
                    ELSE Return
    /\ UNCHANGED <<net, engine, posted>>

\* A folder that cannot sync is handed to enqueueFolder, which declines it at
\* once: it is out of the queue.
Declined_Again(s, e) == s
Declined(s, e) == Popped(s, e)

\* SyncScheduler::startNext, one element of the queue at a time.
StartNext ==
    /\ On("startNext")
    /\ IF ~sched.running \/ Busy \/ sched.queue = {}
         THEN Return /\ UNCHANGED <<sched, folder>>
         ELSE \E e \in Tops(sched) :
                LET f == e[1]
                    s == Popped(sched, e)
                IN CASE folder[f].life = "deleted" ->
                          /\ sched' = s /\ UNCHANGED folder
                          /\ Call(<<Frame("popIgnored", NoFolder, 0), stack[1]>>)
                     [] folder[f].life # "deleted" /\ ~CanSync(f) ->
                          sched' = Declined(sched, e) /\ UNCHANGED <<folder, stack>>
                     [] CanSync(f) /\ net.pause /\ net.metered /\ e[2] # High ->
                          /\ sched' = [s EXCEPT !.cur = f] /\ UNCHANGED folder
                          /\ Call(<<Frame("enqueueFolder", f, e[2])>>)
                     [] OTHER ->
                          /\ sched' = [s EXCEPT !.cur = f]
                          /\ folder' = [folder EXCEPT ![f].listeners =
                                          IF @ < MaxListeners THEN @ + 1 ELSE @]
                          /\ Call(<<Frame("startSync", f, 0)>>)
    /\ UNCHANGED <<net, engine, posted>>

\* The rest of FolderPriorityQueue::pop when the top is a deleted folder: it
\* goes on to the first live one, which startNext ignores.
PopIgnored ==
    /\ On("popIgnored")
    /\ IF sched.queue = {} THEN Return /\ UNCHANGED sched
       ELSE \E e \in Tops(sched) :
              /\ sched' = Popped(sched, e)
              /\ IF folder[e[1]].life = "deleted" THEN UNCHANGED stack
                 ELSE Return
    /\ UNCHANGED <<net, folder, engine, posted>>

\* SyncScheduler::terminateCurrentSync
TerminateCurrentSync ==
    /\ On("terminateCurrentSync")
    /\ IF Cur = NoFolder \/ ~folder[Cur].ready THEN Return
       ELSE Call((IF engine[Cur].running THEN <<Frame("abort", Cur, 0)>>
                  ELSE <<>>) \o <<Frame("clearCurrent", NoFolder, 0)>>)
    /\ UNCHANGED <<sched, net, folder, engine, posted>>

ClearCurrent ==
    /\ On("clearCurrent") /\ Return
    /\ sched' = [sched EXCEPT !.cur = NoFolder]
    /\ UNCHANGED <<net, folder, engine, posted>>

\* SyncScheduler::start as the last call of a handler.
Start ==
    /\ On("start") /\ Return
    /\ sched' = [sched EXCEPT !.running = TRUE, !.startPosted = TRUE]
    /\ UNCHANGED <<net, folder, engine, posted>>

----------------------------------------------------------------------------
\* Folder::startSync.  It takes the changes the watcher has seen so far; if
\* one is real it asks for another sync of this same folder.
StartSync ==
    /\ On("startSync")
    /\ LET f == stack[1].f IN
         IF isSyncRunning(f) \/ ~CanSync(f) THEN Return /\ UNCHANGED folder
         ELSE \E real \in BOOLEAN :
                /\ real => folder[f].changed
                /\ "spurious" \notin Operations => real = folder[f].changed
                /\ folder' = [folder EXCEPT ![f].state = "SyncRunning",
                                            ![f].errors = FALSE,
                                            ![f].changed = FALSE]
                /\ Call((IF real THEN <<Frame("enqueueFolder", f, Low)>>
                         ELSE <<>>) \o <<Frame("engineStart", f, 0)>>)
    /\ UNCHANGED <<sched, net, engine, posted>>

\* SyncEngine::startSync: refused while it runs; may fail before discovery.
EngineStart ==
    /\ On("engineStart")
    /\ LET f == stack[1].f IN
         IF engine[f].running THEN Return /\ UNCHANGED <<engine, folder>>
         ELSE \/ /\ engine' = [engine EXCEPT ![f].running = TRUE,
                                             ![f].another = FALSE,
                                             ![f].discovery = TRUE]
                 /\ Return /\ UNCHANGED folder
              \/ /\ "fail" \in Operations
                 /\ engine' = [engine EXCEPT ![f].running = TRUE,
                                             ![f].another = FALSE]
                 /\ folder' = [folder EXCEPT ![f].errors = TRUE]
                 /\ Call(<<Frame("finalize", f, Flag(FALSE))>>)
    /\ UNCHANGED <<sched, net, posted>>

\* SyncEngine::abort
Abort ==
    /\ On("abort")
    /\ LET f == stack[1].f IN
         IF engine[f].propagator = "none" /\ ~engine[f].discovery
           THEN Return /\ UNCHANGED folder
           ELSE /\ folder' = [folder EXCEPT ![f].errors = TRUE]
                /\ Call(<<Frame("finalize", f, Flag(FALSE))>>)
    /\ UNCHANGED <<sched, net, engine, posted>>

\* SyncEngine::finalize: the propagator goes only after finished() is emitted.
Finalize ==
    /\ On("finalize")
    /\ LET f == stack[1].f IN
         /\ engine' = [engine EXCEPT ![f].running = FALSE,
                                     ![f].discovery = FALSE]
         /\ Call(<<Frame("slotSyncFinished", f, stack[1].arg),
                   Frame("resetEngine", f, 0)>>)
    /\ UNCHANGED <<sched, net, folder, posted>>

ResetEngine ==
    /\ On("resetEngine") /\ Return
    /\ engine' = [engine EXCEPT ![stack[1].f].propagator = "none"]
    /\ UNCHANGED <<sched, net, folder, posted>>

----------------------------------------------------------------------------
\* The counters of failed syncs and of follow-ups.  The code counts on; here
\* all counts above the limit are one, since the code tells them not apart.
Capped(n) == IF n > retrySyncLimitC THEN n ELSE n + 1

\* Folder::slotSyncFinished up to the emission of syncFinished, to the
\* listeners that are connected then; the rest of it is FollowUp.
FinishedStatus(f) ==
    IF folder[f].errors THEN "Error"
    ELSE IF folder[f].paused THEN "Paused" ELSE "Success"

SlotSyncFinished ==
    /\ On("slotSyncFinished")
    /\ LET f == stack[1].f
           status == FinishedStatus(f)
           fails == IF status = "Success" THEN 0 ELSE Capped(folder[f].fails)
           retry == status # "Success" /\ fails <= retrySyncLimitC
           switch == IF folder[f].switch = "no" THEN <<>>
                     ELSE <<Frame("finalizeVfsSwitch", f, 0)>>
       IN IF folder[f].life # "alive" \/ ~folder[f].ready
            THEN Return /\ UNCHANGED folder
            ELSE /\ folder' = [folder EXCEPT ![f].state = status,
                                             ![f].fails = fails,
                                             ![f].listeners = 0]
                 /\ Call([i \in 1 .. folder[f].listeners |->
                            Frame("syncFinished", f, 0)]
                         \o switch \o <<Frame("followUp", f, Flag(retry))>>)
    /\ UNCHANGED <<sched, net, engine, posted>>

AfterSync_Nothing == <<>>
AfterSync == <<Frame("startNext", NoFolder, 0)>>

\* The scheduler's listener, connected in startNext.
SyncFinished ==
    /\ On("syncFinished")
    /\ sched' = [sched EXCEPT !.cur = NoFolder]
    /\ Call(AfterSync)
    /\ UNCHANGED <<net, folder, engine, posted>>

\* Folder::slotSyncFinished after the emission: the retry ten seconds later.
FollowUp ==
    /\ On("followUp") /\ Return
    /\ LET f == stack[1].f
           count == IF engine[f].another THEN Capped(folder[f].followUps) ELSE 0
           again == \/ stack[1].arg = Flag(TRUE)
                    \/ engine[f].another /\ count <= retrySyncLimitC
       IN folder' = [folder EXCEPT ![f].followUps = count,
                                   ![f].timer = @ \/ (again /\ CanSync(f))]
    /\ UNCHANGED <<sched, net, engine, posted>>

\* Folder::setSyncPaused(true) for the folders of S.
Paused(S) ==
    [f \in Folders |->
       IF f \in S /\ ~folder[f].paused
         THEN [folder[f] EXCEPT !.paused = TRUE, !.state = "Paused"]
         ELSE folder[f]]

\* finalizeVfsSwitch: the folder is torn down until the new plugin has started.
SwitchedVfs(fs, f, resume) ==
    [fs EXCEPT ![f].ready = FALSE, ![f].starting = TRUE, ![f].switch = "no",
               ![f].paused = @ /\ ~resume,
               ![f].state = IF resume /\ fs[f].paused THEN "Success" ELSE @]

FinalizeVfsSwitch ==
    /\ On("finalizeVfsSwitch") /\ Return
    /\ LET f == stack[1].f IN
         folder' = SwitchedVfs(folder, f, folder[f].switch = "resume")
    /\ UNCHANGED <<sched, net, engine, posted>>

\* The rest of FolderMan::removeFolder; deleteLater() is Delete.
Wiped(fs, f) ==
    [fs EXCEPT ![f].life = "removed", ![f].ready = FALSE, ![f].starting = FALSE,
               ![f].changed = FALSE, ![f].paused = TRUE,
               ![f].state = IF fs[f].paused THEN @ ELSE "Paused"]

Wipe ==
    /\ On("wipe") /\ Return
    /\ folder' = Wiped(folder, stack[1].f)
    /\ UNCHANGED <<sched, net, engine, posted>>

Run ==
    \/ EnqueueFolder \/ StartNext \/ PopIgnored \/ TerminateCurrentSync
    \/ ClearCurrent \/ Start \/ StartSync \/ EngineStart \/ Abort \/ Finalize
    \/ ResetEngine \/ SlotSyncFinished \/ SyncFinished \/ FollowUp
    \/ FinalizeVfsSwitch \/ Wipe

----------------------------------------------------------------------------
\* The engine's own progress.

\* SyncEngine::slotDiscoveryFinished: it may still fail to open the journal.
DiscoveryFinished(f) ==
    /\ engine[f].discovery /\ engine[f].propagator = "none"
    /\ \/ \E more \in BOOLEAN :
            engine' = [engine EXCEPT ![f].propagator = "running",
                                     ![f].another = @ \/ more]
          /\ Handle(<<>>) /\ UNCHANGED folder
       \/ /\ "fail" \in Operations
          /\ folder' = [folder EXCEPT ![f].errors = TRUE]
          /\ Handle(<<Frame("finalize", f, Flag(FALSE))>>) /\ UNCHANGED engine
    /\ UNCHANGED <<sched, net, posted>>

\* DiscoveryPhase::fatalError is connected to SyncEngine::abort.
DiscoveryFailed(f) ==
    /\ "fail" \in Operations
    /\ engine[f].discovery /\ engine[f].propagator = "none"
    /\ Handle(<<Frame("abort", f, 0)>>)
    /\ UNCHANGED <<sched, net, folder, engine, posted>>

\* OwncloudPropagator::emitFinished: the engine's slot is connected with a
\* queued connection.
PropagationEnds(f) ==
    /\ Idle /\ UNCHANGED stack
    /\ engine[f].propagator = "running" /\ Len(posted) < MaxPosted
    /\ \E ok \in BOOLEAN :
         /\ ok \/ "fail" \in Operations
         /\ posted' = Append(posted, Frame("finalize", f, Flag(ok)))
         /\ folder' = [folder EXCEPT ![f].errors = @ \/ ~ok]
    /\ engine' = [engine EXCEPT ![f].propagator = "finished"]
    /\ UNCHANGED <<sched, net>>

\* SyncEngine::slotPropagationFinished.  It uses _propagator, whether or not
\* there is one: without one the process goes down.  What is posted to an engine
\* that has been deleted is not delivered.
SlotPropagationFinished ==
    /\ Idle /\ posted # <<>>
    /\ posted' = Tail(posted)
    /\ LET f == posted[1].f IN
         CASE folder[f].life = "deleted" ->
                UNCHANGED <<engine, stack>>
           [] folder[f].life # "deleted" /\ engine[f].propagator = "none" ->
                stack' = <<Frame("down", f, 0)>> /\ UNCHANGED engine
           [] OTHER ->
                /\ \E more \in BOOLEAN :
                     engine' = [engine EXCEPT ![f].another = @ \/ more]
                /\ stack' = <<posted[1]>>
    /\ UNCHANGED <<sched, net, folder>>

----------------------------------------------------------------------------
\* Timers and the file system.

\* The singleShot(0) of SyncScheduler::start.
PostedStart ==
    /\ sched.startPosted
    /\ sched' = [sched EXCEPT !.startPosted = FALSE]
    /\ Handle(<<Frame("startNext", NoFolder, 0)>>)
    /\ UNCHANGED <<net, folder, engine, posted>>

RetryTimer(f) ==
    /\ folder[f].timer
    /\ folder' = [folder EXCEPT ![f].timer = FALSE]
    /\ Handle(<<Frame("enqueueFolder", f, Low)>>)
    /\ UNCHANGED <<sched, net, engine, posted>>

\* A push, an etag change, the full discovery timer, the socket API, the VFS.
Request(f, p) ==
    /\ folder[f].life = "alive" /\ CanSync(f)
    /\ Handle(<<Frame("enqueueFolder", f, p)>>)
    /\ UNCHANGED <<sched, net, folder, engine, posted>>

\* FolderWatcher::addChanges and the slot of changesDetected.
WatcherDetects(f) ==
    /\ Handle(<<>>)
    /\ folder[f].life = "alive" /\ folder[f].ready /\ ~folder[f].changed
    /\ folder' = [folder EXCEPT
         ![f].changed = TRUE,
         ![f].state = IF CanSync(f) /\ ~isSyncRunning(f) THEN "Queued" ELSE @]
    /\ UNCHANGED <<sched, net, engine, posted>>

\* The watcher's timer and Folder::slotWatchedPathsChanged.
WatcherReports(f) ==
    /\ Idle /\ folder[f].changed
    /\ \E real \in BOOLEAN :
         /\ real \/ "spurious" \in Operations
         /\ stack' = IF real /\ CanSync(f)
                       THEN <<Frame("enqueueFolder", f, Low)>> ELSE <<>>
         /\ folder' = [folder EXCEPT
              ![f].changed = FALSE,
              ![f].state = IF /\ ~real /\ folder[f].ready
                              /\ @ = "Queued" /\ f \in Queued
                             THEN "Success" ELSE @]
    /\ UNCHANGED <<sched, net, engine, posted>>

\* Vfs::started: the folder can sync from now on.
VfsStarted(f) ==
    /\ folder[f].starting
    /\ folder' = [folder EXCEPT ![f].starting = FALSE, ![f].ready = TRUE]
    /\ Handle(<<Frame("enqueueFolder", f, Low)>>)
    /\ UNCHANGED <<sched, net, engine, posted>>

\* Mutant: the timer of the retry has no context object and fires all the same.
Delete_TimerKept(f) ==
    /\ Handle(<<>>)
    /\ folder[f].life = "removed"
    /\ folder' = [folder EXCEPT ![f].life = "deleted"]
    /\ engine' = [engine EXCEPT ![f] = [running |-> FALSE, discovery |-> FALSE,
                                  propagator |-> "none", another |-> FALSE]]
    /\ sched' = IF Cur = f THEN [sched EXCEPT !.cur = NoFolder] ELSE sched
    /\ UNCHANGED <<net, posted>>

\* The deferred delete of a removed folder, and of its engine with it; its
\* timer does not outlive it, and the scheduler's QPointer to it is null.
Delete(f) ==
    /\ Handle(<<>>)
    /\ folder[f].life = "removed"
    /\ folder' = [folder EXCEPT ![f].life = "deleted", ![f].timer = FALSE]
    /\ engine' = [engine EXCEPT ![f] = [running |-> FALSE, discovery |-> FALSE,
                                  propagator |-> "none", another |-> FALSE]]
    /\ sched' = IF Cur = f THEN [sched EXCEPT !.cur = NoFolder] ELSE sched
    /\ UNCHANGED <<net, posted>>

----------------------------------------------------------------------------
\* Users and servers.

\* AccountSettings::slotEnableCurrentFolder; a user whose folder is syncing is
\* asked first, and the run is terminated.
Pause(f) ==
    /\ "pause" \in Operations
    /\ folder[f].life = "alive" /\ ~folder[f].paused
    /\ folder' = Paused({f})
    /\ Handle(IF Cur = f THEN <<Frame("terminateCurrentSync", f, 0)>> ELSE <<>>)
    /\ UNCHANGED <<sched, net, engine, posted>>

Resume(f) ==
    /\ {"pause", "unsupported"} \cap Operations # {}
    /\ folder[f].life = "alive" /\ folder[f].paused
    /\ folder' = [folder EXCEPT ![f].paused = FALSE, ![f].state = "Success"]
    /\ Handle(<<Frame("enqueueFolder", f, Low)>>)
    /\ UNCHANGED <<sched, net, engine, posted>>

\* FolderMan::slotServerVersionChanged pauses and terminates nothing.
ServerUnsupported(a) ==
    /\ "unsupported" \in Operations
    /\ folder' = Paused({f \in Folders : AccountOf[f] = a
                                         /\ folder[f].life = "alive"})
    /\ Handle(<<>>)
    /\ UNCHANGED <<sched, net, engine, posted>>

\* AccountSettings::doForceSyncCurrentFolder
ForceSync(f) ==
    /\ "force" \in Operations /\ folder[f].life = "alive"
    /\ sched' = [sched EXCEPT !.running = FALSE]
    /\ Handle((IF Cur = NoFolder THEN <<>>
               ELSE <<Frame("terminateCurrentSync", Cur, 0),
                      Frame("enqueueFolder", Cur, Low)>>)
              \o <<Frame("enqueueFolder", f, High), Frame("start", f, 0)>>)
    /\ UNCHANGED <<net, folder, engine, posted>>

\* The pause entry of the systray menu, and FolderMan::setSyncEnabled(true).
PauseAll_ClearsQueue ==
    /\ "systray" \in Operations /\ sched.running
    /\ sched' = [sched EXCEPT !.running = FALSE, !.queue = {},
                             !.scheduled = [f \in {} |-> Low]]
    /\ Handle(<<Frame("terminateCurrentSync", NoFolder, 0)>>)
    /\ UNCHANGED <<net, folder, engine, posted>>
PauseAll ==
    /\ "systray" \in Operations /\ sched.running
    /\ sched' = [sched EXCEPT !.running = FALSE]
    /\ Handle(<<Frame("terminateCurrentSync", NoFolder, 0)>>)
    /\ UNCHANGED <<net, folder, engine, posted>>

ResumeAll ==
    /\ ~sched.running
    /\ Handle(<<Frame("start", NoFolder, 0)>>)
    /\ UNCHANGED <<sched, net, folder, engine, posted>>

\* FolderMan::slotIsConnectedChanged.  An account whose settings are read anew
\* gets ready without a change of its state, and then queues nothing.
AccountReady(a) ==
    /\ ~net.ready[a]
    /\ net' = [net EXCEPT !.ready[a] = TRUE]
    /\ LET S == {f \in Folders : AccountOf[f] = a /\ folder[f].life = "alive"}
       IN \/ \E order \in Orders(S) :
                Handle([i \in DOMAIN order |-> Frame("enqueueFolder", order[i], Low)])
          \/ Handle(<<>>)
    /\ UNCHANGED <<sched, folder, engine, posted>>

\* Only an account that is disconnected or signed out has its sync terminated;
\* one that has to connect again leaves it running.
AccountLost(a) ==
    /\ "account" \in Operations /\ net.ready[a]
    /\ net' = [net EXCEPT !.ready[a] = FALSE]
    /\ \/ /\ Cur # NoFolder /\ AccountOf[Cur] = a
          /\ Handle(<<Frame("terminateCurrentSync", NoFolder, 0)>>)
       \/ Handle(<<>>)
    /\ UNCHANGED <<sched, folder, engine, posted>>

\* Folder::setVirtualFilesEnabled
ChangeVfsMode(f) ==
    /\ "vfs" \in Operations
    /\ folder[f].life = "alive" /\ folder[f].ready /\ folder[f].switch = "no"
    /\ LET switch == IF folder[f].paused THEN "stay" ELSE "resume" IN
         IF Cur = f
           THEN /\ folder' = [Paused({f}) EXCEPT ![f].switch = switch]
                /\ Handle(<<Frame("terminateCurrentSync", f, 0),
                            Frame("enqueueFolder", f, Low)>>)
           ELSE /\ folder' = SwitchedVfs(Paused({f}), f, switch = "resume")
                /\ Handle(<<>>)
    /\ UNCHANGED <<sched, net, engine, posted>>

\* FolderMan::removeFolder
RemoveFolder(f) ==
    /\ "remove" \in Operations /\ folder[f].life = "alive"
    /\ Handle((IF Cur = f THEN <<Frame("terminateCurrentSync", f, 0)>>
               ELSE <<>>) \o <<Frame("wipe", f, 0)>>)
    /\ UNCHANGED <<sched, net, folder, engine, posted>>

\* SyncScheduler::setPauseSyncWhenMetered, and the link itself.
SetPauseSyncWhenMetered(b) ==
    /\ "metered" \in Operations /\ net.pause # b
    /\ net' = [net EXCEPT !.pause = b]
    /\ Handle(IF b THEN <<>> ELSE <<Frame("startNext", NoFolder, 0)>>)
    /\ UNCHANGED <<sched, folder, engine, posted>>

MeteredChanged ==
    /\ "metered" \in Operations
    /\ net' = [net EXCEPT !.metered = ~@]
    /\ Handle(<<>>)
    /\ UNCHANGED <<sched, folder, engine, posted>>

----------------------------------------------------------------------------
Init ==
    /\ sched = [running |-> FALSE, startPosted |-> FALSE, cur |-> NoFolder,
                queue |-> {}, scheduled |-> [f \in {} |-> Low]]
    /\ net \in [ready : {[a \in Accounts |-> FALSE]},
                pause : {FALSE}, metered : {FALSE}, scenario : Scenarios]
    /\ folder = [f \in Folders |->
                   [life |-> IF f \in net.scenario.folders THEN "alive"
                             ELSE "deleted",
                    ready |-> FALSE, starting |-> f \in net.scenario.folders,
                    paused |-> FALSE, state |-> "Undefined", changed |-> FALSE,
                    errors |-> FALSE, listeners |-> 0, switch |-> "no",
                    fails |-> 0, followUps |-> 0, timer |-> FALSE]]
    /\ engine = [f \in Folders |->
                   [running |-> FALSE, discovery |-> FALSE,
                    propagator |-> "none", another |-> FALSE]]
    /\ posted = <<>> /\ stack = <<>>

EngineStep(f) == DiscoveryFinished(f) \/ DiscoveryFailed(f) \/ PropagationEnds(f)

Interference ==
    \/ \E f \in Folders : \/ \E p \in Requests : Request(f, p)
                          \/ WatcherDetects(f) \/ Pause(f) \/ Resume(f)
                          \/ ForceSync(f) \/ ChangeVfsMode(f) \/ RemoveFolder(f)
    \/ \E a \in Accounts : ServerUnsupported(a) \/ AccountReady(a) \/ AccountLost(a)
    \/ \E b \in BOOLEAN : SetPauseSyncWhenMetered(b)
    \/ PauseAll \/ ResumeAll \/ MeteredChanged

Next ==
    \/ Run
    \/ SlotPropagationFinished \/ PostedStart
    \/ \E f \in Folders : \/ EngineStep(f) \/ RetryTimer(f) \/ WatcherReports(f)
                          \/ VfsStarted(f) \/ Delete(f)
    \/ Interference

Spec == Init /\ [][Next]_vars

\* A handler that runs goes on; the event loop gets round to every event that
\* stays posted; discovery and propagation end.
Fairness ==
    /\ WF_vars(Run)
    /\ SF_vars(SlotPropagationFinished) /\ SF_vars(PostedStart)
    /\ \A f \in Folders : SF_vars(EngineStep(f))

FairSpec == Spec /\ Fairness

----------------------------------------------------------------------------
Lives == {"alive", "removed", "deleted"}
Switches == {"no", "resume", "stay"}
Counts == 0 .. retrySyncLimitC + 1
Listeners == 0 .. MaxListeners
Propagators == {"none", "running", "finished"}
FolderRecords ==
    [life : Lives, ready : BOOLEAN, starting : BOOLEAN, paused : BOOLEAN,
     state : Statuses, changed : BOOLEAN, errors : BOOLEAN,
     listeners : Listeners, switch : Switches, fails : Counts,
     followUps : Counts, timer : BOOLEAN]
EngineRecords ==
    [running : BOOLEAN, discovery : BOOLEAN, propagator : Propagators,
     another : BOOLEAN]
Elements == Folders \X Priorities

\* A folder that is deleted is not the current sync, and no retry of it is ahead.
DeletedIsGone ==
    \A f \in Folders : folder[f].life = "deleted" => Cur # f /\ ~folder[f].timer

\* The variables have their types, and nothing points to a deleted folder but
\* its element in the queue.
TypeOK ==
    /\ sched \in [running : BOOLEAN, startPosted : BOOLEAN,
                  cur : Folders \cup {NoFolder}, queue : SUBSET Elements,
                  scheduled : UNION {[S -> Priorities] : S \in SUBSET Folders}]
    /\ net \in [ready : [Accounts -> BOOLEAN], pause : BOOLEAN,
                metered : BOOLEAN, scenario : Scenarios]
    /\ folder \in [Folders -> FolderRecords]
    /\ engine \in [Folders -> EngineRecords]
    /\ DeletedIsGone
    /\ posted \in Seq(Frames) /\ Len(posted) <= MaxPosted
    /\ stack \in Seq(Frames)

\* FolderPriorityQueue keeps a heap and a map beside it: they hold the same
\* folders with the same priorities, and no folder twice.
QueueAgrees == sched.queue = {<<f, sched.scheduled[f]>> : f \in Queued}

\* Nothing else can start while the current sync is terminated: there is a
\* single folder, or one whose termination leaves none that can sync.  (Removing
\* a folder and an unsupported server disturb the current sync in other ways, see
\* CurrentSyncIsRunning and WipedFolderIsIdle.)
Sole == \A f, g \in net.scenario.folders : f = g
TerminatesAlone ==
    /\ {"unsupported", "remove"} \cap Operations = {}
    /\ \/ Sole
       \/ /\ {"pause", "vfs"} \cap Operations = {}
          /\ "account" \in Operations =>
               \A f, g \in net.scenario.folders : AccountOf[f] = AccountOf[g]

\* Between two handlers the engine that runs is that of the current sync, and
\* its folder shows that it syncs: at most one folder syncs at a time.
OnlyCurrentSyncs ==
    Idle /\ TerminatesAlone =>
            \A f \in Folders :
              /\ engine[f].running => Cur = f
              /\ Cur = f => engine[f].running /\ isSyncRunning(f)

\* No lost wake-up: when the scheduler is switched on and nothing syncs, either
\* the queue holds none but removed folders or a start is on its way.
NoLostWakeUp ==
    Idle /\ sched.running /\ Cur = NoFolder =>
        sched.startPosted \/ \A f \in Queued : folder[f].life # "alive"

\* A folder that can sync leaves the queue only to be synced, unless the queue
\* also holds one that is removed (startNext then discards the next one too).
TakenToBeSynced ==
    [][Sole \/ "remove" \notin Operations =>
         \A f \in Queued : CanSync(f) => f \in Queued' \/ sched'.cur = f]_vars

\* A paused folder begins no sync: slotEnableCurrentFolder pauses before it
\* terminates, "to prevent reschedule".
PausedStaysStill ==
    [][\A f \in Folders : folder[f].paused /\ ~engine[f].running
                            => ~engine'[f].running]_vars

\* Every handler returns to the event loop, unless the process goes down.
HandlerReturns == ~Idle ~> Idle \/ On("down")

\* The scheduler gets on with the queue: while it is switched on and a queued
\* folder can sync, sooner or later a sync runs.
Waiting == sched.running /\ ~On("down") /\ \E f \in Queued : CanSync(f)
SyncsGoOn == Waiting ~> (\E f \in Folders : engine[f].running) \/ ~Waiting

----------------------------------------------------------------------------
\* What comments say of the code, and the code does not do.

\* Two engines never run at once (startNext: "Another sync is already running,
\* waiting for that to finish before starting a new sync").
OneSyncAtATime ==
    \A f, g \in Folders : engine[f].running /\ engine[g].running => f = g

\* A current sync that is not running "should never happen" (enqueueFolder,
\* `OC_ENSURE(_currentSync->isSyncRunning())').
CurrentSyncIsRunning ==
    On("enqueueFolder") /\ CanSync(stack[1].f) /\ Cur # NoFolder
        => isSyncRunning(Cur)

\* A folder shown as queued waits for the scheduler or for its watcher's timer
\* (slotWatchedPathsChanged sets it back when a change was irrelevant and the
\* folder was `not actually queued').
QueuedIsWaiting ==
    Idle => \A f \in Folders : folder[f].state = "Queued" /\ CanSync(f)
                                => f \in Queued \/ folder[f].changed

\* A paused folder that does not sync is shown as paused, also when the pause
\* terminated its sync (slotSyncFinished: "Maybe the sync was terminated
\* because the user paused the folder").
PausedIsShown ==
    Idle => \A f \in Folders : folder[f].paused /\ ~engine[f].running
                                => folder[f].state = "Paused"

\* A result of propagation on its way belongs to the propagator the engine
\* still has: finalize() runs once for a sync (SyncEngine::abort).
FinalizedOnce ==
    \A i \in DOMAIN posted :
        Idle => engine[posted[i].f].propagator = "finished"

\* A folder that is removed has no sync running when its journal is closed and
\* deleted (FolderMan::removeFolder: "abort the sync now").
WipedFolderIsIdle ==
    \A f \in Folders : folder[f].life = "removed" => ~engine[f].running
=============================================================================
