------------------------------ MODULE JobQueue ------------------------------
(***************************************************************************)
(* The queue that holds an account's network jobs back while somebody      *)
(* blocks it (libsync/jobqueue.cpp), and the part of AbstractNetworkJob    *)
(* that meets it: sending, retrying and aborting                           *)
(* (libsync/abstractnetworkjob.cpp).                                       *)
(*                                                                         *)
(* Users of the queue hold a JobQueueGuard each.  A guard remembers in a   *)
(* flag whether it has blocked; the queue counts the blocks.  Everything   *)
(* runs on the main thread, so every call is one step.  The operators act  *)
(* on a queue record: the module Connection composes them into the         *)
(* handlers that call them.  The order of the waiting jobs is left out.    *)
(***************************************************************************)
EXTENDS Integers, FiniteSets

CONSTANTS
    Jobs,           \* the network jobs that may be under way at once
    Guards,         \* the JobQueueGuards on the queue
    MaxRetryCount   \* AbstractNetworkJob's limit on retries

ASSUME QueueAssumption ==
    /\ IsFiniteSet(Guards)
    /\ MaxRetryCount \in Nat \ {0}

VARIABLE q

----------------------------------------------------------------------------
(* A job is unused, on its way to the server, waiting in the queue, or     *)
(* dropped: forgotten by the queue, with an owner that still waits for it. *)
JobStates == {"none", "sent", "waiting", "dropped"}

Queues == [blocked : Nat,
           guards  : SUBSET Guards,
           job     : [Jobs -> JobStates],
           tries   : [Jobs -> Nat]]

EmptyQueue == [blocked |-> 0,
               guards  |-> {},
               job     |-> [j \in Jobs |-> "none"],
               tries   |-> [j \in Jobs |-> 0]]

isBlocked(k) == k.blocked # 0

WaitingJobs(k) == {j \in Jobs : k.job[j] = "waiting"}

(* AbstractNetworkJob::retry of every job in S, past an open queue. *)
Resent(k, S) ==
    [k EXCEPT !.job   = [j \in Jobs |-> IF j \in S THEN "sent" ELSE k.job[j]],
              !.tries = [j \in Jobs |-> IF j \in S THEN k.tries[j] + 1
                                                   ELSE k.tries[j]]]

Unblocked_SendsEarly(k) ==
    IF ~isBlocked(k) THEN k
    ELSE Resent([k EXCEPT !.blocked = @ - 1], WaitingJobs(k))

(* The last unblock sends everything that waits. *)
Unblocked(k) ==
    IF ~isBlocked(k) THEN k
    ELSE IF k.blocked = 1
         THEN Resent([k EXCEPT !.blocked = 0], WaitingJobs(k))
         ELSE [k EXCEPT !.blocked = @ - 1]

Cleared_JobsKept(k) == [k EXCEPT !.blocked = 0]

(* clear() opens the queue for all guards and aborts what waits.  abort() *)
(* of a job that was never sent only deletes it, and of one whose reply   *)
(* is over does nothing: in both cases finishedSignal never comes.        *)
Cleared(k) ==
    [k EXCEPT !.blocked = 0,
              !.job = [j \in Jobs |-> IF k.job[j] = "waiting" THEN "dropped"
                                                              ELSE k.job[j]]]

GuardBlock_Twice(k, g) == [k EXCEPT !.guards = @ \union {g}, !.blocked = @ + 1]

(* The guards act on the queue only when that flips their own flag. *)
GuardBlock(k, g) ==
    IF g \in k.guards THEN k
    ELSE [k EXCEPT !.guards = @ \union {g}, !.blocked = @ + 1]

GuardUnblock(k, g) ==
    IF g \in k.guards THEN Unblocked([k EXCEPT !.guards = @ \ {g}]) ELSE k

GuardClear(k, g) ==
    IF g \in k.guards THEN Cleared([k EXCEPT !.guards = @ \ {g}]) ELSE k

(* AbstractNetworkJob::sendRequest of a fresh job. *)
Sent(k, j) == [k EXCEPT !.job[j] = IF isBlocked(k) THEN "waiting" ELSE "sent"]

(* A 401, a redirect or a resend error may be retried, so many times. *)
needsRetry(k, j) == k.tries[j] < MaxRetryCount

(* JobQueue::retry: from slotFinished, when the reply may be retried. *)
Retried(k, j) ==
    IF isBlocked(k) THEN [k EXCEPT !.job[j] = "waiting"] ELSE Resent(k, {j})

(* The job is over, or its owner deletes it: the queue's QPointer is null. *)
Over(k, j) == [k EXCEPT !.job[j] = "none", !.tries[j] = 0]

----------------------------------------------------------------------------
(* The queue alone, under every caller the code could have. *)
QueueInit == q = EmptyQueue

Send(j) ==
    /\ q.job[j] = "none"
    /\ q' = Sent(q, j)

Finish(j) ==
    /\ q.job[j] = "sent"
    /\ q' = Over(q, j)

Retry(j) ==
    /\ q.job[j] = "sent"
    /\ needsRetry(q, j)
    /\ q' = Retried(q, j)

Delete(j) ==
    /\ q.job[j] # "none"
    /\ q' = Over(q, j)

Block(g) == q' = GuardBlock(q, g)

Unblock(g) == q' = GuardUnblock(q, g)

ClearBy(g) == q' = GuardClear(q, g)

Clear == q' = Cleared(q)

QueueNext ==
    \/ \E j \in Jobs : Send(j) \/ Finish(j) \/ Retry(j) \/ Delete(j)
    \/ \E g \in Guards : Block(g) \/ Unblock(g) \/ ClearBy(g)
    \/ Clear

QueueSpec == QueueInit /\ [][QueueNext]_q

----------------------------------------------------------------------------
(* The queue is well formed, and no job is retried beyond the limit        *)
(* needsRetry sets, although unblock resends without asking it again and   *)
(* counts the first send of a job that had to wait as a retry.             *)
QueueTypeOK ==
    /\ q \in Queues
    /\ \A j \in Jobs : q.tries[j] =< MaxRetryCount

(* Every block has an owner that can lift it: the count, which unblock and *)
(* clear change behind the guards' backs, never exceeds the flags.         *)
BlocksAreOwned == q.blocked =< Cardinality(q.guards)

(* Nothing waits in an open queue: no job is left behind that no unblock   *)
(* will send.                                                              *)
NoneWaitsInOpenQueue == ~isBlocked(q) => WaitingJobs(q) = {}

(* A job that waits leaves the queue for the server only when the queue is *)
(* open afterwards: one guard's unblock does not let out what another      *)
(* one's block holds.                                                      *)
SentWhenOpen ==
    [][\A j \in Jobs : q.job[j] = "waiting" /\ q'.job[j] = "sent" => ~isBlocked(q')]_q

(* What the unit test of the queue says of two guards: as long as one of   *)
(* them blocks, the queue is blocked (testjobqueue.cpp, testMultiBlock2).  *)
GuardsHold == q.guards # {} => isBlocked(q)

=============================================================================
