----------------------------- MODULE Propagator -----------------------------
(***************************************************************************)
(* The propagation phase of one sync run (libsync/owncloudpropagator):     *)
(* the tree of directory jobs, the composite job in each of them, the      *)
(* scheduler that walks the tree to start one job at a time, the           *)
(* `finished' cascade that climbs it, and the abort of the whole run.      *)
(*                                                                         *)
(* Everything runs on the thread of the event loop.  A handler is modelled *)
(* as the steps of its call tree: while `pass' (the nested calls of        *)
(* scheduleSelfOrChild), `signal' (the finished() emission whose slot runs *)
(* next) or `cancel' (the replies abort() has still to abort) is not empty *)
(* no other handler can run.  `events' is the queue of posted events.      *)
(***************************************************************************)
EXTENDS Integers, FiniteSets, Sequences, SequencesExt

CONSTANTS
    Dirs,        \* directories of the reconciled tree, each a PropagateDirectory
    Items,       \* files of the tree, each a task of its directory
    Root,        \* the PropagateRootDirectory
    Deletions,   \* its second composite, _dirDeletionJobs
    Parent,      \* composite an item or directory belongs to
    Kind,        \* instruction of a directory, in InstructionKinds
    Moves,       \* directories whose first job is a move: WaitForFinished
    Local,       \* leaves whose job finishes inside start()
    Downloads,   \* leaves that validate a checksum after their transfer
    Uploads,     \* leaves that compute a checksum before their transfer
    Quick,       \* leaves with isLikelyFinishedQuickly()
    Useless,     \* items createJob() makes no job for
    Spawns,      \* leaf -> upload task its createConflict() appends
    ParallelNetworkJobs,
    BandwidthLimited,
    LocksFiles,      \* FileSystem::isFileLocked can answer true (Windows)
    Outcomes,       \* statuses an item's job may end with
    FirstOutcomes   \* statuses a directory's first job may end with

Composites == Dirs \cup {Deletions}
InstructionKinds ==
    {"none", "metadata", "new", "rename", "remove", "other"}

Errors   == {"Soft", "Normal", "Fatal"}
Statuses == {"Success", "Conflict", "Message"} \cup Errors

\* The directories createJob() makes a first job for.
Acting == {d \in Dirs : Kind[d] \notin {"none", "metadata"}}
Leaves == Items \cup Acting

\* The tree is made of paths: going up from any directory ends somewhere.
ASSUME TreeAssumption ==
    /\ Root \in Dirs /\ Deletions \notin Dirs /\ Items \cap Composites = {}
    /\ Kind \in [Dirs -> InstructionKinds] /\ Kind[Root] = "none"
    /\ Parent \in [Items \cup (Dirs \ {Root}) -> Composites]
    /\ \A S \in SUBSET (Dirs \ {Root}) : S # {} => \E d \in S : Parent[d] \notin S

\* Two conflict copies have two names.
ASSUME JobAssumption ==
    /\ Moves \subseteq Acting /\ Local \subseteq Leaves
    /\ Downloads \subseteq Items /\ Uploads \subseteq Items
    /\ Quick \subseteq Leaves /\ Useless \subseteq Items
    /\ DOMAIN Spawns \subseteq Leaves
    /\ \A n \in DOMAIN Spawns :
          /\ Spawns[n] \in Items
          /\ Parent[Spawns[n]] = IF n \in Dirs THEN n ELSE Parent[n]
    /\ \A m, n \in DOMAIN Spawns : Spawns[m] = Spawns[n] => m = n
    /\ ParallelNetworkJobs \in Nat
    /\ BandwidthLimited \in BOOLEAN /\ LocksFiles \in BOOLEAN
    /\ Outcomes \subseteq Statuses /\ FirstOutcomes \subseteq Statuses

VARIABLES
    leaf,     \* state of the job of each leaf: a Stage, then its status
    dir,      \* state of each PropagateDirectory
    comp,     \* state of each PropagatorCompositeJob
    todo,     \* _jobsToDo and _tasksToDo of each composite
    running,  \* _runningJobs of each composite
    errors,   \* the statuses in _errorPaths of each composite
    active,   \* _activeJobList
    events,   \* events posted to the event loop
    pass,     \* frames of the running scheduling pass
    signal,   \* finished() emission being delivered, if any
    cancel,   \* leaves whose reply the running abort() has still to abort
    timer,    \* an abortTimeout is armed
    saved,    \* directories whose final record (with its etag) is written
    result    \* "none", then what emitFinished reported, then "over"

tree == <<leaf, dir, comp, todo, running, errors>>
vars == <<tree, active, events, pass, signal, cancel, timer, saved, result>>

NotYetStarted == "NotYetStarted"
Stages == {"checksum", "transfer", "validate"}
NoSignal == [as |-> "none"]

\* removeOne() of a Qt list.
Without(list, n) ==
    IF Contains(list, n)
    THEN RemoveAt(list, CHOOSE i \in DOMAIN list : list[i] = n)
    ELSE list

\* The composite a leaf works for: its own directory's for a first job.
Associated(n) == IF n \in Dirs THEN n ELSE Parent[n]

\* Directories above a node: the smallest set that holds its parent and, with
\* a directory, that directory's parent.
ClosedUpwards(S) == \A d \in S \ {Root} : Parent[d] \in S \cup {Deletions}
Above ==
    [n \in Items \cup Dirs |->
        {d \in Dirs : n # Root /\ \A S \in SUBSET Dirs :
            ClosedUpwards(S) /\ Parent[n] \in S \cup {Deletions} => d \in S}]

-----------------------------------------------------------------------------
\* Limits of the scheduler.

maximumActiveTransferJob ==
    IF BandwidthLimited \/ ParallelNetworkJobs = 0 THEN 1
    ELSE LET half == (ParallelNetworkJobs + 1) \div 2
         IN IF half > 3 THEN half ELSE 3

hardMaximumActiveJob ==
    IF ParallelNetworkJobs = 0 THEN 1 ELSE ParallelNetworkJobs

likelyFinishedQuicklyCount ==
    Cardinality({i \in DOMAIN active :
                   i <= maximumActiveTransferJob /\ active[i] \in Quick})

MayStartJob_OneMore == Len(active) <= maximumActiveTransferJob
MayStartJob ==
    \/ Len(active) < maximumActiveTransferJob
    \/ /\ Len(active) < hardMaximumActiveJob
       /\ Len(active) < maximumActiveTransferJob + likelyFinishedQuicklyCount

-----------------------------------------------------------------------------
\* Posted events.  _jobScheduled holds exactly while "schedule" is posted.

Event(kind, of) == [kind |-> kind, of |-> of]
scheduleNextJob(queue) ==
    IF \E i \in DOMAIN queue : queue[i].kind = "schedule"
    THEN queue ELSE Append(queue, Event("schedule", Root))

\* abort() posts the call of PropagateRootDirectory::abort; two such calls in
\* a row do what one does.
PostAbort(queue) ==
    IF queue # <<>> /\ Last(queue).kind = "abort"
    THEN queue ELSE Append(queue, Event("abort", Root))

\* What the callers of finished() still do once its cascade has returned.
Unwind(queue, after) ==
    LET aborted == IF "abort" \in after THEN PostAbort(queue) ELSE queue
    IN  IF "schedule" \in after THEN scheduleNextJob(aborted) ELSE aborted

\* No assignment in the program ever sets OwncloudPropagator::_abortRequested.
AbortRequested == FALSE

Softened(status) ==
    IF AbortRequested /\ status \in {"Normal", "Fatal"} THEN "Soft" ELSE status

Emit(n, as, status, after) ==
    signal' = [as |-> as, from |-> n, status |-> status, after |-> after]

\* A fatal error that a job reports of itself, by done(), aborts the run.
Reported(status, after) ==
    after \cup (IF status = "Fatal" THEN {"abort"} ELSE {})

AtEventLoop == pass = <<>> /\ signal = NoSignal /\ cancel = {} /\ result # "over"

\* PropagateItemJob::done of the job of leaf n.  A job that met a conflict has
\* appended the upload of the conflict copy to its composite before.
Done(n, status, after, queued) ==
    LET s == Softened(status) IN
    /\ leaf' = [leaf EXCEPT ![n] = s]
    /\ todo' = IF s = "Conflict" /\ n \in DOMAIN Spawns
               THEN [queued EXCEPT ![Associated(n)] = @ \cup {Spawns[n]}]
               ELSE queued
    /\ Emit(n, IF n \in Dirs THEN "first" ELSE "sub", s, Reported(s, after))

\* How a job may end, classifyError included, which answers "locked" and "too
\* early" with a message.  Of the first jobs of directories, a mkdir that
\* replaces a file ends with a conflict, and one that restores a directory
\* that must not be removed with Restoration, which is treated alike.
OutcomesOf(n) ==
    IF n \in Dirs
    THEN {s \in FirstOutcomes : s = "Conflict" => Kind[n] \in {"other", "new"}}
    ELSE Outcomes

-----------------------------------------------------------------------------
\* The scheduling pass.

NextComposite_EmptyList == IF todo[Root] = {} THEN Deletions ELSE Root
\* "Finish _subJobs before scheduling any deletes."
NextComposite == IF comp[Root] \in Statuses THEN Deletions ELSE Root

\* scheduleNextJobImpl, up to the call of the root job's scheduleSelfOrChild.
ScheduleNextJobImpl ==
    /\ AtEventLoop /\ events # <<>> /\ Head(events).kind = "schedule"
    /\ events' = Tail(events)
    /\ IF MayStartJob /\ dir[Root] \notin Statuses
       THEN LET c == NextComposite IN
            /\ dir' = [dir EXCEPT ![Root] = "Running"]
            /\ IF comp[c] \in Statuses
               THEN UNCHANGED <<comp, pass>>
               ELSE /\ comp' = [comp EXCEPT ![c] = "Running"]
                    /\ pass' = <<[of |-> c, at |-> 1]>>
       ELSE UNCHANGED <<dir, comp, pass>>
    /\ UNCHANGED <<leaf, todo, running, errors, active, signal, cancel, timer,
                   saved, result>>

Waiting_Ignored(n) == FALSE
\* parallelism() = WaitForFinished of a running child.
Waiting(n) ==
    \E m \in Moves : /\ n \in Above[m] \cup {m}
                     /\ dir[m] = "Running" /\ leaf[m] \notin Statuses

\* `at' indexes the running child to ask next; 0 makes the frame return false.
SetTop(i) == [pass EXCEPT ![Len(pass)].at = i]
Top == Last(pass)
InPass == pass # <<>> /\ signal = NoSignal

FirstJobDone_Unchecked(d) == TRUE
FirstJobDone(d) == d \in Acting => leaf[d] \in Statuses

\* Ask the next running child.  Only a directory past its first job has
\* anything to start; a child that waits ends the scheduling of this list.
AskRunning ==
    /\ InPass
    /\ Top.at \in DOMAIN running[Top.of]
    /\ LET n == running[Top.of][Top.at]
           back == SetTop(IF Waiting(n) THEN 0 ELSE Top.at + 1)
       IN  IF n \in Dirs /\ FirstJobDone(n) /\ comp[n] \notin Statuses
           THEN /\ pass' = Append(back, [of |-> n, at |-> 1])
                /\ comp' = [comp EXCEPT ![n] = "Running"]
           ELSE /\ pass' = back
                /\ UNCHANGED comp
    /\ UNCHANGED <<leaf, dir, todo, running, errors, active, events, signal,
                   cancel, timer, saved, result>>

\* The composite on top has asked all its running children: its own turn.
OwnTurn(c) ==
    InPass /\ Top.of = c /\ Top.at = Len(running[c]) + 1

\* The candidates for the next job: directories come before the tasks.
NextJobs(c) ==
    IF todo[c] \cap Dirs # {} THEN todo[c] \cap Dirs ELSE todo[c]

\* createJob() returns null for a useless task, the loop takes the next one.
SkipUselessTask ==
    \E c \in Composites : \E n \in NextJobs(c) \cap Useless :
        /\ OwnTurn(c)
        /\ todo' = [todo EXCEPT ![c] = @ \ {n}]
        /\ UNCHANGED <<leaf, dir, comp, running, errors, active, events, pass,
                       signal, cancel, timer, saved, result>>

\* Move n from the composite's to-do list to the end of its running jobs.
Take(c, n) ==
    /\ OwnTurn(c)
    /\ n \in NextJobs(c) \ Useless
    /\ running' = [running EXCEPT ![c] = Append(@, n)]

\* start() of a leaf's job, and the `true' that unwinds the pass.
StartJob(c, n) ==
    /\ Take(c, n) /\ n \in Leaves
    /\ dir' = IF n \in Dirs THEN [dir EXCEPT ![n] = "Running"] ELSE dir
    /\ pass' = <<>>
    /\ UNCHANGED <<comp, errors, cancel, timer, saved, result>>

\* The job finishes inside start(): a local operation, or an early error.  An
\* upload that finds its file locked has made itself active just before; one
\* that finds its file still changing ends with a message.
StartAndFinish ==
    \E c \in Composites : \E n \in NextJobs(c) \cap Leaves :
    \E status \in OutcomesOf(n) :
        /\ StartJob(c, n)
        /\ status = "Success" => n \in Local
        /\ status = "Message" => n \in Uploads
        /\ Done(n, status, {"schedule"}, [todo EXCEPT ![c] = @ \ {n}])
        /\ \/ UNCHANGED active
           \/ /\ LocksFiles /\ n \in Uploads /\ status = "Soft"
              /\ active' = Append(active, n)
        /\ UNCHANGED events

\* The job issues a request or a checksum computation, and is active.
StartAsync ==
    \E c \in Composites : \E n \in (NextJobs(c) \cap Leaves) \ Local :
        /\ StartJob(c, n)
        /\ todo' = [todo EXCEPT ![c] = @ \ {n}]
        /\ leaf' = [leaf EXCEPT ![n] =
                      IF n \in Uploads THEN "checksum" ELSE "transfer"]
        /\ active' = Append(active, n)
        /\ events' = scheduleNextJob(events)
        /\ UNCHANGED signal

\* A directory without a first job: its composite is asked at once, and what
\* it answers is what the composite that started it returns.
StartDirectory ==
    \E c \in Composites : \E d \in NextJobs(c) \ Leaves :
        /\ Take(c, d)
        /\ todo' = [todo EXCEPT ![c] = @ \ {d}]
        /\ dir' = [dir EXCEPT ![d] = "Running"]
        /\ comp' = [comp EXCEPT ![d] = "Running"]
        /\ pass' = Append(SetTop(0), [of |-> d, at |-> 1])
        /\ UNCHANGED <<leaf, errors, active, events, signal, cancel, timer,
                       saved, result>>

Exhausted_LeftToChildren(c) == FALSE
\* Nothing is left to do, and no child is there to report its end.
Exhausted(c) == todo[c] = {} /\ running[c] = <<>>

\* Nothing to start in this composite.  An empty one posts its finalize():
\* its parents are iterating over their running jobs.
NothingLeft ==
    /\ InPass
    /\ \/ Top.at = 0
       \/ OwnTurn(Top.of) /\ todo[Top.of] = {}
    /\ pass' = Front(pass)
    /\ events' = IF Top.at # 0 /\ Exhausted(Top.of)
                 THEN Append(events, Event("finalize", Top.of)) ELSE events
    /\ UNCHANGED <<tree, active, signal, cancel, timer, saved, result>>

-----------------------------------------------------------------------------
\* Progress of a job between its start and its done().

Delist(n) == active' = Without(active, n)

\* slotStartUpload: the checksum is there, the transfer takes a new place in
\* the list of active jobs.
StartUpload(n) ==
    /\ AtEventLoop /\ leaf[n] = "checksum"
    /\ leaf' = [leaf EXCEPT ![n] = "transfer"]
    /\ active' = Append(Without(active, n), n)
    /\ UNCHANGED <<dir, comp, todo, running, errors, events, pass, signal,
                   cancel, timer, saved, result>>

\* slotComputeTransmissionChecksum finds the file locked: done() is called
\* while the job is on the list of active jobs.
FileLocked(n) ==
    /\ LocksFiles
    /\ AtEventLoop /\ leaf[n] = "checksum"
    /\ Done(n, "Soft", {}, todo)
    /\ UNCHANGED <<dir, comp, running, errors, active, events, pass, cancel,
                   timer, saved, result>>

\* The answer of the server; a file found changed after its checksum.
Reply(n) ==
    \E status \in OutcomesOf(n) :
        /\ AtEventLoop /\ leaf[n] \in {"checksum", "transfer"}
        /\ status = "Success" =>
              leaf[n] = "transfer" /\ n \notin Downloads
        /\ Delist(n)
        /\ Done(n, status, {}, todo)
        /\ UNCHANGED <<dir, comp, running, errors, events, pass, cancel,
                       timer, saved, result>>

\* slotGetFinished: a complete download leaves the list of active jobs and
\* validates its checksum.
DownloadReceived(n) ==
    /\ AtEventLoop /\ leaf[n] = "transfer" /\ n \in Downloads
    /\ leaf' = [leaf EXCEPT ![n] = "validate"]
    /\ Delist(n)
    /\ UNCHANGED <<dir, comp, todo, running, errors, events, pass, signal,
                   cancel, timer, saved, result>>

Validated(n) ==
    \E status \in OutcomesOf(n) :
        /\ AtEventLoop /\ leaf[n] = "validate"
        /\ status # "Message"
        /\ Done(n, status, {}, todo)
        /\ UNCHANGED <<dir, comp, running, errors, active, events, pass,
                       cancel, timer, saved, result>>

\* ~PropagateItemJob, from deleteLater(): the last chance to leave the list.
DeleteJob ==
    /\ AtEventLoop /\ events # <<>> /\ Head(events).kind = "delete"
    /\ events' = Tail(events)
    /\ Delist(Head(events).of)
    /\ UNCHANGED <<tree, pass, signal, cancel, timer, saved, result>>

-----------------------------------------------------------------------------
\* The finished() cascade: each slot runs inside the emission it answers.

FailsComposite_SoftForgotten(status) == status \in {"Normal", "Fatal"}
\* The statuses of a sub job that make its whole composite fail.
FailsComposite(status) == status \in Errors

RunningWithout_Kept(c, n) == running[c]
\* _runningJobs.removeAll(subJob)
RunningWithout(c, n) == Without(running[c], n)

Receive(as) == signal # NoSignal /\ signal.as = as

\* The last slot of a cascade has returned.
Quiet(queue) ==
    /\ signal' = NoSignal
    /\ events' = Unwind(queue, signal.after)
    /\ timer' = (timer \/ "abort" \in signal.after)

\* PropagatorCompositeJob::slotSubJobFinished, and finalize() of the last one.
SlotSubJobFinished ==
    /\ Receive("sub")
    /\ LET n == signal.from
           c == Parent[n]
           rest == RunningWithout(c, n)
           errs == errors[c] \cup {s \in {signal.status} : FailsComposite(s)}
           queue == IF Contains(active, n)
                    THEN Append(events, Event("delete", n)) ELSE events
       IN  /\ running' = [running EXCEPT ![c] = rest]
           /\ errors' = [errors EXCEPT ![c] = errs]
           /\ IF rest = <<>> /\ todo[c] = {}
              THEN /\ \E status \in IF errs = {} THEN {"Success"} ELSE errs :
                         /\ comp' = [comp EXCEPT ![c] = status]
                         /\ Emit(c, "comp", status, signal.after)
                   /\ events' = queue
                   /\ UNCHANGED timer
              ELSE /\ Quiet(scheduleNextJob(queue))
                   /\ UNCHANGED comp
    /\ UNCHANGED <<leaf, dir, todo, active, pass, cancel, saved, result>>

\* PropagatorCompositeJob::finalize as a posted event; a second one is ignored.
Finalize ==
    /\ AtEventLoop /\ events # <<>> /\ Head(events).kind = "finalize"
    /\ events' = Tail(events)
    /\ LET c == Head(events).of IN
       IF comp[c] \in Statuses
       THEN UNCHANGED <<comp, signal>>
       ELSE \E status \in IF errors[c] = {} THEN {"Success"} ELSE errors[c] :
               /\ comp' = [comp EXCEPT ![c] = status]
               /\ Emit(c, "comp", status, {})
    /\ UNCHANGED <<leaf, dir, todo, running, errors, active, pass, cancel,
                   timer, saved, result>>

\* PropagateDirectory::slotFirstJobFinished.  Its done() asks for no abort that
\* the first job has not asked for.
SlotFirstJobFinished ==
    /\ Receive("first")
    /\ LET d == signal.from IN
       IF signal.status \in {"Success", "Conflict"}
       THEN /\ Quiet(scheduleNextJob(events))
            /\ UNCHANGED dir
       ELSE /\ dir' = [dir EXCEPT ![d] = signal.status]
            /\ Emit(d, "sub", signal.status, signal.after)
            /\ UNCHANGED <<events, timer>>
    /\ UNCHANGED <<leaf, comp, todo, running, errors, active, pass, cancel,
                   saved, result>>

FinishDirectory(d, status, after) ==
    /\ dir' = [dir EXCEPT ![d] = status]
    /\ Emit(d, "sub", status, after)

OwnStatus_NoStatus(d) == IF d \in Acting THEN leaf[d] ELSE NotYetStarted
\* The status of the directory's own item, once its first job is done.
OwnStatus(d) == IF d \in Acting THEN leaf[d] ELSE "Success"

\* PropagateDirectory::slotSubJobsFinished: a status of the jobs below is passed
\* on without done().
SlotSubJobsFinished ==
    /\ Receive("comp") /\ signal.from \notin {Root, Deletions}
    /\ LET d == signal.from IN
       \/ /\ OwnStatus(d) # "Success"
          /\ FinishDirectory(d, OwnStatus(d), Reported(OwnStatus(d), signal.after))
          /\ UNCHANGED saved
       \/ /\ OwnStatus(d) = "Success"
          /\ signal.status # "Success" \/ Kind[d] \notin {"rename", "new", "metadata"}
          /\ FinishDirectory(d, signal.status, signal.after)
          /\ UNCHANGED saved
       \/ /\ OwnStatus(d) = "Success"
          /\ signal.status = "Success" /\ Kind[d] \in {"rename", "new", "metadata"}
          /\ \/ FinishDirectory(d, "Success", signal.after) /\ saved' = saved \cup {d}
             \/ \E status \in {"Fatal", "Soft"} \cap FirstOutcomes :
                   /\ FinishDirectory(d, status, Reported(status, signal.after))
                   /\ UNCHANGED saved
    /\ UNCHANGED <<leaf, comp, todo, running, errors, active, events, pass,
                   cancel, timer, result>>

\* PropagateRootDirectory::slotSubJobsFinished: an error drops the deletions
\* below the failed paths; which these are depends on the working directory
\* the relative paths are resolved in.
SlotRootSubJobsFinished ==
    /\ Receive("comp") /\ signal.from = Root
    /\ \E dropped \in IF signal.status \in Errors
                      THEN SUBSET todo[Deletions] ELSE {{}} :
          todo' = [todo EXCEPT ![Deletions] = @ \ dropped]
    /\ Quiet(scheduleNextJob(events))
    /\ UNCHANGED <<leaf, dir, comp, running, errors, active, pass, cancel,
                   saved, result>>

\* emitFinished: the connection to SyncEngine is queued.
EmitFinished(status, queue) ==
    IF result = "none"
    THEN /\ result' = status
         /\ events' = Append(queue, Event("finished", Root))
    ELSE result' = result /\ events' = queue

RootStatus_LastOnly(deletions) == deletions
RootStatus(deletions) ==
    IF comp[Root] \in Errors THEN comp[Root] ELSE deletions

\* PropagateRootDirectory::slotDirDeletionJobsFinished.
SlotDirDeletionJobsFinished ==
    /\ Receive("comp") /\ signal.from = Deletions
    /\ LET status == RootStatus(signal.status)
       IN  /\ dir' = [dir EXCEPT ![Root] = status]
           /\ EmitFinished(status, Unwind(events, signal.after))
    /\ signal' = NoSignal
    /\ timer' = (timer \/ "abort" \in signal.after)
    /\ UNCHANGED <<leaf, comp, todo, running, errors, active, pass, cancel, saved>>

-----------------------------------------------------------------------------
\* Abort of the whole propagation.

InFlight_FinishedToo == {n \in Leaves : leaf[n] # NotYetStarted}
InFlight == {n \in Leaves : leaf[n] = "transfer"}

\* An upload whose last request is out is left to finish.  The list of running
\* jobs shrinks under the loop that aborts them: a longer one skips some.
MayOutlive(n) ==
    \/ n \in Uploads
    \/ \E c \in {Associated(n)} \cup Above[n] : Len(running[c]) > 2

\* PropagateRootDirectory::abort, posted by OwncloudPropagator::abort or called
\* by abortTimeout.  Root stands for the emitFinished that follows the aborts.
AbortJobs(timeout) ==
    \E spared \in SUBSET {n \in InFlight : MayOutlive(n)} :
        /\ \/ cancel' = (InFlight \ spared) \cup {Root}
           \/ ~timeout /\ spared # {} /\ cancel' = InFlight \ spared
        /\ UNCHANGED <<tree, active, pass, signal, saved, result>>

AbortEvent ==
    /\ AtEventLoop /\ events # <<>> /\ Head(events).kind = "abort"
    /\ events' = Tail(events)
    /\ AbortJobs(FALSE)
    /\ UNCHANGED timer

AbortTimeout ==
    /\ AtEventLoop /\ timer
    /\ timer' = FALSE
    /\ AbortJobs(TRUE)
    /\ UNCHANGED events

\* QNetworkReply::abort finishes the request in place, with an error that
\* classifyError takes for a fatal one.
CancelReply ==
    \E n \in cancel \ {Root} :
        /\ signal = NoSignal
        /\ cancel' = cancel \ {n}
        /\ Delist(n)
        /\ Done(n, "Fatal", {}, todo)
        /\ UNCHANGED <<dir, comp, running, errors, events, pass, timer, saved,
                       result>>

AbortFinished ==
    /\ cancel = {Root} /\ signal = NoSignal
    /\ cancel' = {}
    /\ EmitFinished("Normal", events)
    /\ UNCHANGED <<tree, active, pass, signal, timer, saved>>

\* SyncEngine::slotPropagationFinished destroys the propagator.
DeliverFinished ==
    /\ AtEventLoop /\ events # <<>> /\ Head(events).kind = "finished"
    /\ events' = <<>> /\ timer' = FALSE
    /\ result' = "over"
    /\ UNCHANGED <<tree, active, pass, signal, cancel, saved>>

-----------------------------------------------------------------------------

\* OwncloudPropagator::start has built the tree and scheduled the first pass.
Init ==
    /\ leaf = [n \in Leaves |-> NotYetStarted]
    /\ dir = [d \in Dirs |-> NotYetStarted]
    /\ comp = [c \in Composites |-> NotYetStarted]
    /\ todo = [c \in Composites |->
                 {n \in DOMAIN Parent \ Range(Spawns) : Parent[n] = c}]
    /\ running = [c \in Composites |-> <<>>]
    /\ errors = [c \in Composites |-> {}]
    /\ active = <<>> /\ pass = <<>> /\ signal = NoSignal /\ cancel = {}
    /\ events = <<Event("schedule", Root)>>
    /\ timer = FALSE /\ saved = {} /\ result = "none"

Answer(n) ==
    StartUpload(n) \/ FileLocked(n) \/ Reply(n) \/ DownloadReceived(n) \/ Validated(n)

\* What the event loop does by itself: posted events and the calls they make.
Handler ==
    \/ ScheduleNextJobImpl \/ AskRunning \/ SkipUselessTask \/ StartAndFinish
    \/ StartAsync \/ StartDirectory \/ NothingLeft \/ DeleteJob
    \/ SlotSubJobFinished \/ Finalize \/ SlotFirstJobFinished
    \/ SlotSubJobsFinished \/ SlotRootSubJobsFinished
    \/ SlotDirDeletionJobsFinished \/ AbortEvent \/ CancelReply
    \/ AbortFinished \/ DeliverFinished

Next ==
    \/ Handler
    \/ \E n \in Leaves : Answer(n)
    \/ AbortTimeout

\* The event loop runs what is posted; every request is answered or times out.
Fairness ==
    /\ WF_vars(Handler)
    /\ WF_vars(AbortTimeout)
    /\ \A n \in Leaves : WF_vars(Answer(n))

Spec == Init /\ [][Next]_vars
FairSpec == Spec /\ Fairness

-----------------------------------------------------------------------------

Events ==
    [kind : {"schedule", "abort", "finished"}, of : {Root}]
    \cup [kind : {"finalize"}, of : Composites]
    \cup [kind : {"delete"}, of : DOMAIN Parent]

Frames == [of : Composites, at : Nat]

SignalsOf(as, senders) ==
    [as : {as}, from : senders, status : Statuses,
     after : SUBSET {"abort", "schedule"}]
Signals ==
    SignalsOf("sub", DOMAIN Parent) \cup SignalsOf("first", Acting)
    \cup SignalsOf("comp", Composites)

\* Every list, event and emission holds what its handler expects: the sender of
\* a signal decides which slot runs and on which composite.
TypeOK ==
    /\ leaf \in [Leaves -> {NotYetStarted} \cup Stages \cup Statuses]
    /\ dir \in [Dirs -> {NotYetStarted, "Running"} \cup Statuses]
    /\ comp \in [Composites -> {NotYetStarted, "Running"} \cup Statuses]
    /\ todo \in [Composites -> SUBSET (Items \cup Dirs)]
    /\ running \in [Composites -> Seq(Items \cup Dirs)]
    /\ errors \in [Composites -> SUBSET Errors]
    /\ active \in Seq(Leaves)
    /\ events \in Seq(Events)
    /\ pass \in Seq(Frames)
    /\ signal \in {NoSignal} \cup Signals
    /\ cancel \subseteq Leaves \cup {Root}
    /\ timer \in BOOLEAN /\ saved \subseteq Dirs
    /\ result \in {"none", "over"} \cup Statuses

-----------------------------------------------------------------------------
\* Properties.

\* No wake-up is lost: with nothing posted, some job is at work or a timeout is
\* armed.  (scheduleNextJob is called from many places and skipped in others.)
NeverStuck ==
    AtEventLoop /\ events = <<>> => timer \/ \E n \in Leaves : leaf[n] \in Stages

\* "Important: Finish _subJobs before scheduling any deletes": once a deletion
\* has started, no job of the tree starts, answers or is aborted.
InTree(n) == Root \in Above[n]
DeletionsLast ==
    [][\A n \in Leaves : InTree(n) /\ leaf'[n] # leaf[n] =>
         \A x \in Leaves : ~InTree(x) => leaf[x] = NotYetStarted]_vars

\* Nothing below a directory is touched before the directory's own operation
\* has succeeded: no upload into a directory the server does not have yet.
FirstBeforeChildren ==
    \A d \in Acting : \A n \in Leaves :
        d \in Above[n] /\ leaf[n] # NotYetStarted => leaf[d] \in {"Success", "Conflict"}

\* The inductive strengthening of FirstBeforeChildren.
Begun == {d \in Dirs \ {Root} : dir[d] # NotYetStarted}
           \cup {n \in Items : leaf[n] # NotYetStarted}
Opened == {c \in Composites : comp[c] # NotYetStarted}
Positive == {"Success", "Conflict"}

\* Lists hold children of their composite; a directory is listed once.
ListsOK ==
    /\ \A c \in Composites : \A n \in todo[c] : n \in DOMAIN Parent /\ Parent[n] = c
    /\ \A c \in Composites : todo[c] \cap Dirs \cap Begun = {}
    /\ \A c \in Composites : \A i \in DOMAIN running[c] :
          LET n == running[c][i] IN
          /\ n \in DOMAIN Parent /\ Parent[n] = c /\ n \in Begun
          /\ n \in Dirs => \A j \in DOMAIN running[c] : running[c][j] = n => i = j

\* What is on the call stack or in the queue refers to what has begun.
ControlOK ==
    /\ \A i \in DOMAIN pass : pass[i].of \in Opened
    /\ \A i \in DOMAIN events : events[i].kind = "finalize" => events[i].of \in Opened
    /\ signal.as = "comp" => signal.from \in Opened
    /\ signal.as = "first" => leaf[signal.from] = signal.status
    /\ signal.as = "sub" => signal.from \in Begun
    /\ cancel # {} => pass = <<>>
    /\ \A n \in cancel \ {Root} : leaf[n] = "transfer"

\* A directory whose own job failed is on its way out of the running list.
FailureReported ==
    \A c \in Composites : \A i \in DOMAIN running[c] :
        LET d == running[c][i] IN
        d \in Acting /\ leaf[d] \in Statuses \ Positive =>
            signal.as \in {"first", "sub"} /\ signal.from = d

\* A composite opens below open composites only, after the positive end of the
\* first job of its directory and of every directory above.
OpenedFromAbove ==
    /\ \A d \in Acting : leaf[d] # NotYetStarted => d \in Begun
    /\ \A n \in DOMAIN Parent : n \in Begun => Parent[n] \in Opened
    /\ \A d \in Dirs \ {Root} : d \in Opened => d \in Begun
    /\ \A d \in Acting : \A c \in Dirs :
          c \in Opened /\ d \in Above[c] \cup {c} => leaf[d] \in Positive

FirstInv ==
    TypeOK /\ ListsOK /\ ControlOK /\ FailureReported /\ OpenedFromAbove

\* While a directory is being moved, no composite above it takes a new job from
\* its list: "this job is guaranteed to finish before any jobs below it".
MoveHoldsBackTheList ==
    [][\A m \in Moves : leaf[m] \in Stages =>
         \A c \in Above[m] : todo[c] \subseteq todo'[c]]_vars

\* WaitForFinished as its comment says it: no job at all is started meanwhile.
MoveIsExclusive ==
    [][\A m \in Moves : leaf[m] \in Stages =>
         \A n \in Leaves : leaf[n] = NotYetStarted => leaf'[n] = NotYetStarted]_vars

Arrived(n) ==
    \/ leaf[n] \in {"Success", "Conflict"}
    \/ n \in Useless
    \/ \E m \in DOMAIN Spawns : Spawns[m] = n /\ leaf[m] # "Conflict"

\* The two ways a job that has not arrived is not counted as a failure: it, or
\* the first job of a directory above, ended with a message (it is left to the
\* sync that follows); a directory above has replaced a file, and reports this
\* as its conflict whatever has failed below it.
PutOff(n) ==
    \E x \in Leaves : (x = n \/ x \in Above[n]) /\ leaf[x] = "Message"
CoveredUp(n) == \E d \in Acting : d \in Above[n] /\ leaf[d] = "Conflict"
AccountedFor(n) == Arrived(n) \/ PutOff(n) \/ CoveredUp(n)

\* The etag of a directory is written when everything below it has arrived, the
\* upload of a conflict copy included: a later sync trusts the etag and does
\* not look inside the directory again.  What is put off or covered up is the
\* exception, and the only one.
SavedEtagIsEarned ==
    \A d \in saved : \A n \in Leaves : d \in Above[n] \cup {n} => AccountedFor(n)

\* The sync reports success only if every item of the run has arrived, with the
\* same exceptions.
SuccessIsTruthful ==
    result = "Success" => \A n \in Leaves : AccountedFor(n)

\* Only quick jobs go beyond the number of transfers, whatever leaves the list
\* or changes its place in it, and never beyond the larger of the two limits.
ActiveJobsLimited ==
    /\ Len(active) <= maximumActiveTransferJob
                        + Cardinality(Range(active) \cap Quick)
    /\ \/ Len(active) <= maximumActiveTransferJob
       \/ Len(active) <= hardMaximumActiveJob

\* hardMaximumActiveJob as its comment says it.
HardMaximum == Len(active) <= hardMaximumActiveJob

\* "Normally, every job should clean itself from the _activeJobList".
FinishedJobsNotActive ==
    AtEventLoop => \A n \in Range(active) : leaf[n] \in Stages

\* The assertion of the scheduling pass: a running list holds running jobs.
RunningListsHoldRunning ==
    AtEventLoop => \A c \in Composites : \A n \in Range(running[c]) :
        IF n \in Dirs THEN dir[n] = "Running" ELSE leaf[n] \in Stages

\* "Duplicate calls to done() are a logic error", for every kind of job.
DoneOnce ==
    [][/\ \A n \in Leaves : leaf[n] \in Statuses => leaf'[n] = leaf[n]
       /\ \A d \in Dirs : dir[d] \in Statuses => dir'[d] = dir[d]
       /\ \A c \in Composites : comp[c] \in Statuses => comp'[c] = comp[c]]_vars

\* "Abort all remaining jobs": no job starts once abort() was called.
AbortStopsScheduling ==
    [][timer => \A n \in Leaves :
         leaf[n] = NotYetStarted => leaf'[n] = NotYetStarted]_vars

\* "an abort request is ongoing. Change the status to Soft-Error".
AbortedJobsEndSoftly ==
    [][timer => \A n \in Leaves :
         leaf'[n] # leaf[n] => leaf'[n] \notin {"Normal", "Fatal"}]_vars

\* The propagation comes to its end whatever the jobs answer.
EventuallyOver == <>(result = "over")
=============================================================================
