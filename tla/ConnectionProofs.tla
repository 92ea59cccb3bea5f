-------------------------- MODULE ConnectionProofs --------------------------
(***************************************************************************)
(* The connection of an account, for any jobs, guards, limits and events.  *)
(* First the queue by itself: every block has an owner, nothing waits in   *)
(* an open queue, and no job is retried too often.  Then the handlers that *)
(* use it: types, the queue, that nothing revives an account which is      *)
(* signed out or connects one on a metered network, and that whoever waits *)
(* for the credentials has somebody left to end the wait.                  *)
(***************************************************************************)
EXTENDS Connection, FiniteSetTheorems, TLAPS

\* A queue whose blocks are owned and in which nothing is left behind.
GoodQueues ==
    {k \in Queues : /\ k.blocked =< Cardinality(k.guards)
                    /\ k.blocked = 0 => WaitingJobs(k) = {}}

----------------------------------------------------------------------------
LEMMA GuardsFinite ==
    ASSUME NEW S \in SUBSET Guards
    PROVE  IsFiniteSet(S) /\ Cardinality(S) \in Nat
BY QueueAssumption, FS_Subset, FS_CardinalityType

LEMMA EmptyQueueGood == EmptyQueue \in GoodQueues
<1>1. EmptyQueue \in Queues
    BY DEF EmptyQueue, Queues, JobStates
<1>2. Cardinality({}) = 0
    BY FS_EmptySet
<1> QED BY <1>1, <1>2 DEF EmptyQueue, GoodQueues, WaitingJobs

\* Sending what waits in a queue that is now open keeps it good.
LEMMA ResentGood ==
    ASSUME NEW k \in Queues, NEW S \in SUBSET Jobs,
           k.blocked =< Cardinality(k.guards),
           k.blocked = 0 => WaitingJobs(k) \subseteq S
    PROVE  Resent(k, S) \in GoodQueues
<1> DEFINE r     == Resent(k, S)
           jobs  == [j \in Jobs |-> IF j \in S THEN "sent" ELSE k.job[j]]
           tries == [j \in Jobs |-> IF j \in S THEN k.tries[j] + 1 ELSE k.tries[j]]
<1>1. r \in Queues
    <2>1. jobs \in [Jobs -> JobStates]
        BY DEF Queues, JobStates
    <2>2. tries \in [Jobs -> Nat]
        BY DEF Queues
    <2>3. r = [k EXCEPT !.job = jobs, !.tries = tries]
        BY DEF Resent
    <2> HIDE DEF r, jobs, tries
    <2> QED BY <2>1, <2>2, <2>3 DEF Queues
<1>2. r.blocked = k.blocked /\ r.guards = k.guards
    BY DEF Resent, Queues
<1>3. WaitingJobs(r) = WaitingJobs(k) \ S
    BY DEF Resent, Queues, WaitingJobs
<1> QED BY <1>1, <1>2, <1>3 DEF GoodQueues

LEMMA GuardBlockGood ==
    ASSUME NEW k \in GoodQueues, NEW g \in Guards
    PROVE  GuardBlock(k, g) \in GoodQueues
<1> DEFINE b == GuardBlock(k, g)
<1>0. k \in Queues /\ k.blocked =< Cardinality(k.guards) /\ k.guards \in SUBSET Guards
    BY DEF GoodQueues, Queues
<1>1. CASE g \in k.guards
    BY <1>1 DEF GuardBlock
<1>2. CASE g \notin k.guards
    <2>1. b \in Queues /\ b.blocked = k.blocked + 1 /\ b.guards = k.guards \union {g}
        <3>1. b = [k EXCEPT !.guards = @ \union {g}, !.blocked = @ + 1]
            BY <1>2 DEF GuardBlock
        <3>2. k.guards \union {g} \in SUBSET Guards /\ k.blocked + 1 \in Nat
            BY <1>0 DEF Queues
        <3> HIDE DEF b
        <3> QED BY <1>0, <3>1, <3>2 DEF Queues
    <2>2. Cardinality(k.guards \union {g}) = Cardinality(k.guards) + 1
        BY <1>0, <1>2, GuardsFinite, FS_AddElement
    <2>3. b.blocked =< Cardinality(b.guards) /\ b.blocked # 0
        BY <1>0, <2>1, <2>2, GuardsFinite DEF Queues
    <2> QED BY <2>1, <2>3 DEF GoodQueues
<1> QED BY <1>1, <1>2

\* The guard has taken its flag back, and its block is still counted.
LEMMA OneBlockTooMany ==
    ASSUME NEW k \in GoodQueues, NEW g \in k.guards
    PROVE  LET u == [k EXCEPT !.guards = @ \ {g}]
           IN  /\ u \in Queues
               /\ u.blocked = k.blocked /\ u.guards = k.guards \ {g} /\ u.job = k.job
               /\ u.blocked =< Cardinality(u.guards) + 1
<1> DEFINE u == [k EXCEPT !.guards = @ \ {g}]
<1>0. k \in Queues /\ k.blocked =< Cardinality(k.guards) /\ k.guards \in SUBSET Guards
    BY DEF GoodQueues, Queues
<1>1. u \in Queues /\ u.blocked = k.blocked /\ u.guards = k.guards \ {g} /\ u.job = k.job
    BY <1>0 DEF Queues
<1>2. Cardinality(k.guards \ {g}) = Cardinality(k.guards) - 1
    BY <1>0, GuardsFinite, FS_RemoveElement
<1> QED BY <1>0, <1>1, <1>2, GuardsFinite DEF Queues

LEMMA GuardUnblockGood ==
    ASSUME NEW k \in GoodQueues, NEW g \in Guards
    PROVE  GuardUnblock(k, g) \in GoodQueues
<1>1. CASE g \notin k.guards
    BY <1>1 DEF GuardUnblock
<1>2. CASE g \in k.guards
    <2> DEFINE u == [k EXCEPT !.guards = @ \ {g}]
    <2>1. /\ u \in Queues /\ u.blocked = k.blocked /\ u.job = k.job
          /\ u.guards \in SUBSET Guards
          /\ u.blocked =< Cardinality(u.guards) + 1
        BY <1>2, OneBlockTooMany DEF Queues
    <2>2. Cardinality(u.guards) \in Nat
        BY <2>1, GuardsFinite
    <2>3. GuardUnblock(k, g) = Unblocked(u)
        BY <1>2 DEF GuardUnblock
    <2>4. WaitingJobs(u) = WaitingJobs(k) /\ (k.blocked = 0 => WaitingJobs(k) = {})
        BY <2>1 DEF WaitingJobs, GoodQueues
    <2> HIDE DEF u
    <2>5. CASE u.blocked = 0
        BY <2>1, <2>2, <2>3, <2>4, <2>5 DEF Unblocked, isBlocked, GoodQueues
    <2>6. CASE u.blocked = 1
        <3> DEFINE z == [u EXCEPT !.blocked = 0]
        <3>1. Unblocked(u) = Resent(z, WaitingJobs(u))
            BY <2>6 DEF Unblocked, isBlocked
        <3>2. z \in Queues /\ z.blocked = 0 /\ z.guards = u.guards /\ z.job = u.job
            BY <2>1 DEF Queues
        <3>3. WaitingJobs(z) = WaitingJobs(u) /\ WaitingJobs(u) \in SUBSET Jobs
            BY <3>2 DEF WaitingJobs
        <3> HIDE DEF z
        <3> QED BY <3>1, <3>2, <3>3, <2>2, <2>3, ResentGood
    <2>7. CASE u.blocked \notin {0, 1}
        <3> DEFINE z == [u EXCEPT !.blocked = @ - 1]
        <3>1. Unblocked(u) = z
            BY <2>7 DEF Unblocked, isBlocked
        <3>2. z \in Queues /\ z.blocked = u.blocked - 1 /\ z.blocked # 0 /\ z.guards = u.guards
            BY <2>1, <2>7 DEF Queues
        <3>3. z.blocked =< Cardinality(z.guards)
            BY <3>2, <2>1, <2>2 DEF Queues
        <3> QED BY <3>1, <3>2, <3>3, <2>3 DEF GoodQueues
    <2> QED BY <2>5, <2>6, <2>7
<1> QED BY <1>1, <1>2

LEMMA ClearedGood ==
    ASSUME NEW k \in Queues
    PROVE  Cleared(k) \in GoodQueues
<1> DEFINE c == Cleared(k)
<1>1. c \in Queues /\ c.blocked = 0 /\ c.guards \in SUBSET Guards
    BY DEF Cleared, Queues, JobStates
<1>2. WaitingJobs(c) = {}
    BY DEF Cleared, Queues, WaitingJobs
<1> HIDE DEF c
<1>3. Cardinality(c.guards) \in Nat
    BY <1>1, GuardsFinite
<1>4. c.blocked =< Cardinality(c.guards)
    BY <1>1, <1>3
<1> QED BY <1>1, <1>2, <1>4 DEF GoodQueues, c

LEMMA GuardClearGood ==
    ASSUME NEW k \in GoodQueues, NEW g \in Guards
    PROVE  GuardClear(k, g) \in GoodQueues
<1>1. [k EXCEPT !.guards = @ \ {g}] \in Queues
    BY DEF GoodQueues, Queues
<1> QED BY <1>1, ClearedGood DEF GuardClear

LEMMA SentGood ==
    ASSUME NEW k \in GoodQueues, NEW j \in Jobs
    PROVE  Sent(k, j) \in GoodQueues
<1> DEFINE s == Sent(k, j)
<1>1. s \in Queues /\ s.blocked = k.blocked /\ s.guards = k.guards
    BY DEF Sent, Queues, JobStates, GoodQueues
<1>2. k.blocked = 0 => WaitingJobs(s) \subseteq WaitingJobs(k)
    BY DEF Sent, Queues, GoodQueues, WaitingJobs, isBlocked
<1> QED BY <1>1, <1>2 DEF GoodQueues

LEMMA RetriedGood ==
    ASSUME NEW k \in GoodQueues, NEW j \in Jobs
    PROVE  Retried(k, j) \in GoodQueues
<1>1. CASE isBlocked(k)
    <2> DEFINE w == [k EXCEPT !.job[j] = "waiting"]
    <2>1. w \in Queues /\ w.blocked = k.blocked /\ w.guards = k.guards
        BY DEF Queues, JobStates, GoodQueues
    <2> QED BY <1>1, <2>1 DEF Retried, isBlocked, GoodQueues
<1>2. CASE ~isBlocked(k)
    BY <1>2, ResentGood DEF Retried, isBlocked, GoodQueues
<1> QED BY <1>1, <1>2

LEMMA OverGood ==
    ASSUME NEW k \in GoodQueues, NEW j \in Jobs
    PROVE  Over(k, j) \in GoodQueues
<1> DEFINE o == Over(k, j)
<1>1. o \in Queues /\ o.blocked = k.blocked /\ o.guards = k.guards
    BY DEF Over, Queues, JobStates, GoodQueues
<1>2. WaitingJobs(o) \subseteq WaitingJobs(k)
    BY DEF Over, Queues, GoodQueues, WaitingJobs
<1> QED BY <1>1, <1>2 DEF GoodQueues

----------------------------------------------------------------------------
(* The queue alone: every step keeps it good, whoever takes it. *)

LEMMA GoodStep ==
    ASSUME q \in GoodQueues, [QueueNext]_q
    PROVE  q' \in GoodQueues
<1>1. ASSUME NEW j \in Jobs, Send(j) \/ Finish(j) \/ Retry(j) \/ Delete(j)
      PROVE  q' \in GoodQueues
    BY <1>1, SentGood, OverGood, RetriedGood DEF Send, Finish, Retry, Delete
<1>2. ASSUME NEW g \in Guards, Block(g) \/ Unblock(g) \/ ClearBy(g)
      PROVE  q' \in GoodQueues
    BY <1>2, GuardBlockGood, GuardUnblockGood, GuardClearGood DEF Block, Unblock, ClearBy
<1>3. CASE Clear
    <2>1. q \in Queues
        BY DEF GoodQueues
    <2> QED BY <1>3, <2>1, ClearedGood DEF Clear
<1>4. CASE UNCHANGED q
    BY <1>4
<1> QED BY <1>1, <1>2, <1>3, <1>4 DEF QueueNext

LEMMA AlwaysGood == QueueSpec => [](q \in GoodQueues)
<1>1. QueueInit => q \in GoodQueues
    BY EmptyQueueGood DEF QueueInit
<1>2. q \in GoodQueues /\ [QueueNext]_q => (q \in GoodQueues)'
    BY GoodStep
<1> QED BY <1>1, <1>2, PTL DEF QueueSpec

(* Every block in the queue has an owner, whatever the guards do and       *)
(* however often the queue is cleared behind their backs.                  *)
THEOREM QueueBlocksOwned == QueueSpec => []BlocksAreOwned
<1>1. q \in GoodQueues => BlocksAreOwned
    BY DEF GoodQueues, BlocksAreOwned
<1> QED BY <1>1, AlwaysGood, PTL

(* No job is left behind in a queue that is open. *)
THEOREM QueueLeavesNone == QueueSpec => []NoneWaitsInOpenQueue
<1>1. q \in GoodQueues => NoneWaitsInOpenQueue
    BY DEF GoodQueues, NoneWaitsInOpenQueue, isBlocked
<1> QED BY <1>1, AlwaysGood, PTL

----------------------------------------------------------------------------
(* The retries: a job that waits has one left, since unblock will resend   *)
(* it without asking, and a job that is not under way has had none.        *)
Bounded(k) ==
    \A j \in Jobs : /\ k.tries[j] =< MaxRetryCount
                    /\ k.job[j] = "waiting" => k.tries[j] < MaxRetryCount
                    /\ k.job[j] = "none" => k.tries[j] = 0

BoundedQueues == {k \in GoodQueues : Bounded(k)}

\* Resending jobs that have a retry left.
LEMMA ResentBounded ==
    ASSUME NEW k \in Queues, NEW S \in SUBSET Jobs, Bounded(k),
           \A j \in S : k.tries[j] < MaxRetryCount
    PROVE  Bounded(Resent(k, S))
<1> DEFINE r == Resent(k, S)
<1> SUFFICES ASSUME NEW j \in Jobs
             PROVE  /\ r.tries[j] =< MaxRetryCount
                    /\ r.job[j] = "waiting" => r.tries[j] < MaxRetryCount
                    /\ r.job[j] = "none" => r.tries[j] = 0
    BY DEF Bounded
<1>1. /\ r.job[j] = IF j \in S THEN "sent" ELSE k.job[j]
      /\ r.tries[j] = IF j \in S THEN k.tries[j] + 1 ELSE k.tries[j]
    BY DEF Resent, Queues
<1>2. k.tries[j] \in Nat /\ MaxRetryCount \in Nat
    BY QueueAssumption DEF Queues
<1> HIDE DEF r
<1> QED BY <1>1, <1>2 DEF Bounded

\* Blocking, unblocking and clearing.
LEMMA SameJobsBounded ==
    ASSUME NEW k \in Queues, NEW n \in Queues, Bounded(k),
           n.tries = k.tries,
           \A j \in Jobs : n.job[j] = k.job[j] \/ n.job[j] = "dropped"
    PROVE  Bounded(n)
BY DEF Bounded

LEMMA UnblockedBounded ==
    ASSUME NEW k \in Queues, Bounded(k)
    PROVE  Bounded(Unblocked(k))
<1>1. CASE ~isBlocked(k)
    BY <1>1 DEF Unblocked
<1>2. CASE k.blocked = 1
    <2> DEFINE z == [k EXCEPT !.blocked = 0]
    <2>1. z \in Queues /\ z.tries = k.tries /\ z.job = k.job
        BY DEF Queues
    <2>2. Bounded(z)
        BY <2>1, SameJobsBounded
    <2>3. \A j \in WaitingJobs(k) : z.tries[j] < MaxRetryCount
        BY <2>1 DEF Bounded, WaitingJobs
    <2>4. WaitingJobs(k) \in SUBSET Jobs
        BY DEF WaitingJobs
    <2>5. Unblocked(k) = Resent(z, WaitingJobs(k))
        BY <1>2 DEF Unblocked, isBlocked
    <2> HIDE DEF z
    <2> QED BY <2>1, <2>2, <2>3, <2>4, <2>5, ResentBounded
<1>3. CASE k.blocked \notin {0, 1}
    <2> DEFINE z == [k EXCEPT !.blocked = @ - 1]
    <2>1. z \in Queues /\ z.tries = k.tries /\ z.job = k.job
        BY <1>3 DEF Queues
    <2>2. Unblocked(k) = z
        BY <1>3 DEF Unblocked, isBlocked
    <2> HIDE DEF z
    <2> QED BY <2>1, <2>2, SameJobsBounded
<1> QED BY <1>1, <1>2, <1>3 DEF isBlocked

LEMMA ClearedBounded ==
    ASSUME NEW k \in Queues, Bounded(k)
    PROVE  Bounded(Cleared(k))
<1>1. Cleared(k) \in Queues
    BY ClearedGood DEF GoodQueues
<1>2. Cleared(k).tries = k.tries
    BY DEF Cleared, Queues
<1>3. \A j \in Jobs : Cleared(k).job[j] = k.job[j] \/ Cleared(k).job[j] = "dropped"
    BY DEF Cleared, Queues
<1> QED BY <1>1, <1>2, <1>3, SameJobsBounded

LEMMA JobStepBounded ==
    ASSUME q \in BoundedQueues, NEW j \in Jobs,
           Send(j) \/ Finish(j) \/ Retry(j) \/ Delete(j)
    PROVE  Bounded(q')
<1>0. q \in Queues /\ Bounded(q) /\ MaxRetryCount \in Nat \ {0}
    BY QueueAssumption DEF BoundedQueues, GoodQueues
<1>1. CASE Send(j)
    BY <1>0, <1>1 DEF Send, Sent, Bounded, Queues, isBlocked
<1>2. CASE Finish(j) \/ Delete(j)
    <2>1. q' = Over(q, j)
        BY <1>2 DEF Finish, Delete
    <2>2. \A i \in Jobs : /\ q'.job[i] = IF i = j THEN "none" ELSE q.job[i]
                          /\ q'.tries[i] = IF i = j THEN 0 ELSE q.tries[i]
        BY <1>0, <2>1 DEF Over, Queues
    <2> QED BY <1>0, <2>2 DEF Bounded
<1>3. CASE Retry(j)
    <2>1. q.tries[j] < MaxRetryCount /\ q' = Retried(q, j)
        BY <1>3 DEF Retry, needsRetry
    <2>2. CASE isBlocked(q)
        BY <1>0, <2>1, <2>2 DEF Retried, Bounded, Queues
    <2>3. CASE ~isBlocked(q)
        BY <1>0, <2>1, <2>3, ResentBounded DEF Retried
    <2> QED BY <2>2, <2>3
<1> QED BY <1>1, <1>2, <1>3

LEMMA GuardStepBounded ==
    ASSUME q \in BoundedQueues, NEW g \in Guards,
           Block(g) \/ Unblock(g) \/ ClearBy(g)
    PROVE  Bounded(q')
<1> DEFINE z == [q EXCEPT !.guards = @ \ {g}]
<1>0. q \in GoodQueues /\ q \in Queues /\ Bounded(q)
    BY DEF BoundedQueues, GoodQueues
<1>1. CASE Block(g)
    <2>1. q' \in Queues
        BY <1>0, <1>1, GuardBlockGood DEF Block, GoodQueues
    <2>2. q'.tries = q.tries /\ q'.job = q.job
        BY <1>0, <1>1 DEF Block, GuardBlock, Queues
    <2> QED BY <1>0, <2>1, <2>2, SameJobsBounded
<1>2. z \in Queues /\ Bounded(z)
    <2>1. z \in Queues /\ z.tries = q.tries /\ z.job = q.job
        BY <1>0 DEF Queues
    <2> QED BY <1>0, <2>1, SameJobsBounded
<1>3. CASE Unblock(g)
    BY <1>0, <1>2, <1>3, UnblockedBounded DEF Unblock, GuardUnblock
<1>4. CASE ClearBy(g)
    BY <1>0, <1>2, <1>4, ClearedBounded DEF ClearBy, GuardClear
<1> QED BY <1>1, <1>3, <1>4

(* No job is retried beyond the limit, whatever it waits for in between. *)
THEOREM QueueRetriesBounded == QueueSpec => []QueueTypeOK
<1>1. QueueInit => q \in BoundedQueues
    <2>1. Bounded(EmptyQueue)
        BY QueueAssumption DEF Bounded, EmptyQueue
    <2> QED BY <2>1, EmptyQueueGood DEF QueueInit, BoundedQueues
<1>2. q \in BoundedQueues /\ [QueueNext]_q => (q \in BoundedQueues)'
    <2> SUFFICES ASSUME q \in BoundedQueues, [QueueNext]_q
                 PROVE  q' \in BoundedQueues
        OBVIOUS
    <2>1. q' \in GoodQueues
        BY GoodStep DEF BoundedQueues
    <2>2. ASSUME NEW j \in Jobs, Send(j) \/ Finish(j) \/ Retry(j) \/ Delete(j)
          PROVE  Bounded(q')
        BY <2>2, JobStepBounded
    <2>3. ASSUME NEW g \in Guards, Block(g) \/ Unblock(g) \/ ClearBy(g)
          PROVE  Bounded(q')
        BY <2>3, GuardStepBounded
    <2>4. Clear => Bounded(q')
        BY ClearedBounded DEF Clear, BoundedQueues, GoodQueues
    <2>5. UNCHANGED q => Bounded(q')
        BY DEF BoundedQueues
    <2>6. Bounded(q')
        BY <2>2, <2>3, <2>4, <2>5 DEF QueueNext
    <2> QED BY <2>1, <2>6 DEF BoundedQueues
<1>3. q \in BoundedQueues => QueueTypeOK
    BY DEF BoundedQueues, GoodQueues, Bounded, QueueTypeOK
<1> QED BY <1>1, <1>2, <1>3, PTL DEF QueueSpec

(* A waiting job is let out only when no guard's block holds it any more. *)
THEOREM QueueSendsWhenOpen == QueueSpec => SentWhenOpen
<1>1. q \in GoodQueues /\ [QueueNext]_q =>
        [\A j \in Jobs : q.job[j] = "waiting" /\ q'.job[j] = "sent" => ~isBlocked(q')]_q
    <2> SUFFICES ASSUME q \in GoodQueues, QueueNext, NEW j \in Jobs,
                        q.job[j] = "waiting", q'.job[j] = "sent"
                 PROVE  ~isBlocked(q')
        OBVIOUS
    <2>0. q \in Queues
        BY DEF GoodQueues
    <2>1. ASSUME NEW i \in Jobs, Send(i) \/ Finish(i) \/ Retry(i) \/ Delete(i)
          PROVE  q'.job[j] # "sent"
        <3>1. q.blocked # 0
            BY DEF GoodQueues, WaitingJobs
        <3>2. CASE Send(i)
            BY <2>0, <3>1, <3>2 DEF Send, Sent, isBlocked, Queues
        <3>3. CASE Finish(i) \/ Delete(i)
            <4>1. q' = Over(q, i)
                BY <3>3 DEF Finish, Delete
            <4>2. Over(q, i).job = [q.job EXCEPT ![i] = "none"]
                BY <2>0 DEF Over, Queues
            <4> QED BY <2>0, <4>1, <4>2 DEF Queues
        <3>4. CASE Retry(i)
            BY <2>0, <3>1, <3>4 DEF Retry, Retried, isBlocked, Queues
        <3> QED BY <2>1, <3>2, <3>3, <3>4
    <2>2. ASSUME NEW g \in Guards, Block(g)
          PROVE  q'.job = q.job
        BY <2>0, <2>2 DEF Block, GuardBlock, Queues
    <2>3. ASSUME NEW g \in Guards, Unblock(g)
          PROVE  q'.job = q.job \/ ~isBlocked(q')
        BY <2>0, <2>3 DEF Unblock, GuardUnblock, Unblocked, Resent, isBlocked, Queues
    <2>4. ASSUME NEW g \in Guards, ClearBy(g)
          PROVE  q'.job[j] # "sent"
        BY <2>0, <2>4 DEF ClearBy, GuardClear, Cleared, Queues
    <2>5. CASE Clear
        BY <2>0, <2>5 DEF Clear, Cleared, Queues
    <2> QED BY <2>1, <2>2, <2>3, <2>4, <2>5 DEF QueueNext
<1> QED BY <1>1, AlwaysGood, PTL DEF QueueSpec, SentWhenOpen

----------------------------------------------------------------------------
\* The connection.

GoodWorlds ==
    {w \in [q : GoodQueues, acc : Accounts, cred : Credentials,
            posted : Seq(Calls), net : Networks] :
        w.net.metered => w.acc.state # "Connected"}

\* What every handler but signIn does to a good world.
Keeps(w, v) ==
    /\ v \in GoodWorlds
    /\ v.net = w.net
    /\ w.acc.state = "SignedOut" => v.acc.state = "SignedOut"

LEMMA PostKeeps ==
    ASSUME NEW w \in GoodWorlds, NEW c \in Calls
    PROVE  Keeps(w, Post(w, c))
BY DEF Keeps, GoodWorlds, Post

LEMMA EnqueuedKeeps ==
    ASSUME NEW w \in GoodWorlds
    PROVE  Keeps(w, IsConnectedChanged(w))
BY DEF Keeps, GoodWorlds, IsConnectedChanged, readyForSync, Accounts

LEMMA DropValidatorKeeps ==
    ASSUME NEW w \in GoodWorlds
    PROVE  Keeps(w, DropValidator(w))
BY DEF Keeps, GoodWorlds, DropValidator, Accounts

LEMMA FetchKeeps ==
    ASSUME NEW w \in GoodWorlds
    PROVE  Keeps(w, FetchFromKeychain(w))
BY DEF Keeps, GoodWorlds, FetchFromKeychain, Accounts, Credentials

LEMMA StartValidatorKeeps ==
    ASSUME NEW w \in GoodWorlds, NEW block \in BOOLEAN
    PROVE  Keeps(w, StartValidator(w, block))
<1> DEFINE k == IF block THEN GuardBlock(w.q, StateGuard) ELSE w.q
           b == w.acc.state = "Connected" \/ ~w.acc.waiting
           a == [w.acc EXCEPT !.validator = "status", !.auth = b, !.blocking = block]
<1>1. StartValidator(w, block) = [w EXCEPT !.q = k, !.acc = a]
    BY DEF StartValidator, GoodWorlds
<1>2. k \in GoodQueues
    BY GuardBlockGood, ConnectionAssumption DEF GoodWorlds
<1>3. b \in BOOLEAN
    OBVIOUS
<1> HIDE DEF b, k
<1>4. a \in Accounts /\ a.state = w.acc.state
    BY <1>3 DEF GoodWorlds, Accounts
<1> HIDE DEF a
<1> QED BY <1>1, <1>2, <1>4 DEF Keeps, GoodWorlds

LEMMA KeepsTrans ==
    ASSUME NEW w, NEW v, NEW u, Keeps(w, v), Keeps(v, u)
    PROVE  Keeps(w, u)
BY DEF Keeps

LEMMA SetStateKeeps ==
    ASSUME NEW w \in GoodWorlds, NEW state \in States,
           w.acc.state # "SignedOut" \/ state = "SignedOut"
    PROVE  Keeps(w, SetState(w, state))
<1> DEFINE changed == state # w.acc.state
           held    == state = "Connected" /\ changed /\ (w.net.metered \/ w.net.portal)
           actual  == IF held THEN "Connecting" ELSE state
           v       == [w EXCEPT !.acc.state = actual,
                                !.acc.enqueued = @ /\ actual = "Connected"]
<1>1. Keeps(w, v)
    <2>1. actual \in States
        BY DEF States
    <2>2. w.net.metered => actual # "Connected"
        BY DEF GoodWorlds
    <2>3. w.acc.state = "SignedOut" => actual = "SignedOut"
        OBVIOUS
    <2> HIDE DEF actual
    <2> QED BY <2>1, <2>2, <2>3 DEF Keeps, GoodWorlds, Accounts
<1>2. SetState(w, state) =
        IF state = "Connected"
        THEN Post(v, IF changed THEN "connected" ELSE "confirmed")
        ELSE IF changed THEN IsConnectedChanged(v) ELSE v
    BY DEF SetState
<1>3. v \in GoodWorlds /\ (IF changed THEN "connected" ELSE "confirmed") \in Calls
    BY <1>1 DEF Keeps, Calls
<1> HIDE DEF v
<1> QED BY <1>1, <1>2, <1>3, PostKeeps, EnqueuedKeeps, KeepsTrans

LEMMA CheckKeeps ==
    ASSUME NEW w \in GoodWorlds, NEW block \in BOOLEAN, NEW recent \in BOOLEAN
    PROVE  Keeps(w, CheckConnectivity(w, block, recent))
<1> DEFINE v == IF w.acc.state = "Connected" THEN w ELSE SetState(w, "Connecting")
           d == DropValidator(v)
           u == IF v.cred.fetched THEN d ELSE FetchFromKeychain(d)
<1>0. Keeps(w, w)
    BY DEF Keeps
<1>1. CASE w.acc.state = "SignedOut" \/ w.acc.waiting
    BY <1>0, <1>1 DEF CheckConnectivity
<1>2. CASE ~(w.acc.state = "SignedOut" \/ w.acc.waiting)
    <2>1. Keeps(w, v) /\ v \in GoodWorlds
        BY <1>0, <1>2, SetStateKeeps DEF States, Keeps
    <2>2. CheckConnectivity(w, block, recent) \in {v, u, StartValidator(u, block)}
        BY <1>2 DEF CheckConnectivity
    <2> HIDE DEF v
    <2>3. Keeps(w, d) /\ d \in GoodWorlds
        BY <2>1, DropValidatorKeeps, KeepsTrans DEF Keeps
    <2> HIDE DEF d
    <2>4. Keeps(w, u) /\ u \in GoodWorlds
        BY <2>3, FetchKeeps, KeepsTrans DEF Keeps
    <2> HIDE DEF u
    <2>5. Keeps(w, StartValidator(u, block))
        BY <2>4, StartValidatorKeeps, KeepsTrans
    <2> QED BY <2>1, <2>2, <2>4, <2>5
<1> QED BY <1>1, <1>2

LEMMA RefreshKeeps ==
    ASSUME NEW w \in GoodWorlds, NEW n \in 0 .. TokenRefreshMaxRetries - 1
    PROVE  Keeps(w, Refresh(w, n))
<1>1. GuardBlock(w.q, AccountGuard) \in GoodQueues
    BY GuardBlockGood, ConnectionAssumption DEF GoodWorlds
<1> DEFINE k == GuardBlock(w.q, AccountGuard)
           c == [w.cred EXCEPT !.refresh = "restore", !.tries = n]
<1>2. Refresh(w, n) = w \/ Refresh(w, n) = [w EXCEPT !.cred = c, !.q = k]
    BY DEF Refresh, GoodWorlds
<1>3. c \in Credentials
    BY DEF GoodWorlds, Credentials
<1> HIDE DEF c, k
<1> QED BY <1>1, <1>2, <1>3 DEF Keeps, GoodWorlds, k

LEMMA FirstTry == 0 \in 0 .. TokenRefreshMaxRetries - 1
BY ConnectionAssumption

LEMMA SlotAuthenticationKeeps ==
    ASSUME NEW w \in GoodWorlds
    PROVE  Keeps(w, SlotAuthentication(w))
BY RefreshKeeps, FirstTry DEF SlotAuthentication, Keeps

LEMMA FetchedKeeps ==
    ASSUME NEW w \in GoodWorlds, NEW recent \in BOOLEAN
    PROVE  Keeps(w, Fetched(w, recent))
<1> DEFINE x == [w EXCEPT !.acc.waiting = FALSE]
           v == CheckConnectivity(x, FALSE, recent)
           u == [v EXCEPT !.q = GuardUnblock(@, AccountGuard)]
<1>1. Keeps(w, x)
    BY DEF Keeps, GoodWorlds, Accounts
<1>2. Keeps(x, v)
    <2>1. x \in GoodWorlds
        BY <1>1 DEF Keeps
    <2> QED BY <2>1, CheckKeeps
<1>3. Fetched(w, recent) = u
    BY DEF Fetched
<1> HIDE DEF v
<1>4. Keeps(v, u)
    <2>1. v \in GoodWorlds /\ v.q \in GoodQueues
        BY <1>2 DEF Keeps, GoodWorlds
    <2>2. GuardUnblock(v.q, AccountGuard) \in GoodQueues
        BY <2>1, GuardUnblockGood, ConnectionAssumption
    <2> QED BY <2>1, <2>2 DEF Keeps, GoodWorlds
<1> HIDE DEF x, u
<1> QED BY <1>1, <1>2, <1>3, <1>4, KeepsTrans

LEMMA ForgetKeeps ==
    ASSUME NEW w \in GoodWorlds
    PROVE  Keeps(w, ForgetSensitiveData(w))
BY DEF Keeps, GoodWorlds, ForgetSensitiveData, Credentials

LEMMA InvalidateKeeps ==
    ASSUME NEW w \in GoodWorlds
    PROVE  Keeps(w, InvalidateToken(w))
BY DEF Keeps, GoodWorlds, InvalidateToken, Credentials

LEMMA LogOutKeeps ==
    ASSUME NEW w \in GoodWorlds, NEW recent \in BOOLEAN
    PROVE  Keeps(w, LogOut(w, recent))
<1> DEFINE v == ForgetSensitiveData(w)
           u == [v EXCEPT !.q = GuardClear(@, AccountGuard)]
<1>1. Keeps(w, v)
    BY ForgetKeeps
<1>2. LogOut(w, recent) = Fetched(u, recent)
    BY DEF LogOut
<1> HIDE DEF v
<1>3. Keeps(v, u)
    <2>1. v \in GoodWorlds /\ v.q \in GoodQueues
        BY <1>1 DEF Keeps, GoodWorlds
    <2>2. GuardClear(v.q, AccountGuard) \in GoodQueues
        BY <2>1, GuardClearGood, ConnectionAssumption
    <2> QED BY <2>1, <2>2 DEF Keeps, GoodWorlds
<1>4. u \in GoodWorlds
    BY <1>3 DEF Keeps
<1> HIDE DEF u
<1>5. Keeps(u, Fetched(u, recent))
    BY <1>4, FetchedKeeps
<1> QED BY <1>1, <1>2, <1>3, <1>5, KeepsTrans

LEMMA EndRefreshKeeps ==
    ASSUME NEW w \in GoodWorlds
    PROVE  Keeps(w, EndRefresh(w))
BY FirstTry DEF Keeps, GoodWorlds, EndRefresh, Credentials

LEMMA RefreshErrorKeeps ==
    ASSUME NEW w \in GoodWorlds, NEW soft \in BOOLEAN, NEW recent \in BOOLEAN
    PROVE  Keeps(w, RefreshError(w, soft, recent))
<1> DEFINE again == soft \/ w.net.offline
           next  == IF again THEN 0 ELSE w.cred.tries + 1
           e     == EndRefresh(w)
           v     == [e EXCEPT !.cred.good = FALSE]
           t     == [v EXCEPT !.cred.timers = @ \union {next}]
<1>1. next \in Nat
    BY DEF GoodWorlds, Credentials
<1>2. RefreshError(w, soft, recent) =
        IF next >= TokenRefreshMaxRetries THEN LogOut(v, recent) ELSE t
    BY DEF RefreshError
<1>3. Keeps(w, e) /\ e \in GoodWorlds
    BY EndRefreshKeeps DEF Keeps
<1> HIDE DEF next, e
<1>4. Keeps(e, v) /\ v \in GoodWorlds
    BY <1>3 DEF Keeps, GoodWorlds, Credentials
<1> HIDE DEF v
<1>5. Keeps(w, v)
    BY <1>3, <1>4, KeepsTrans
<1>6. CASE next >= TokenRefreshMaxRetries
    BY <1>2, <1>4, <1>5, <1>6, LogOutKeeps, KeepsTrans
<1>7. CASE ~(next >= TokenRefreshMaxRetries)
    <2>1. next \in 0 .. TokenRefreshMaxRetries - 1
        BY <1>1, <1>7, ConnectionAssumption
    <2>2. Keeps(v, t)
        BY <1>4, <2>1 DEF Keeps, GoodWorlds, Credentials
    <2> HIDE DEF t
    <2> QED BY <1>2, <1>5, <1>7, <2>2, KeepsTrans
<1> QED BY <1>6, <1>7

LEMMA InvalidCredentialsKeeps ==
    ASSUME NEW w \in GoodWorlds, w.acc.state # "SignedOut"
    PROVE  Keeps(w, InvalidCredentials(w))
<1> DEFINE v == [w EXCEPT !.acc.waiting = TRUE]
           u == IF v.cred.ready THEN InvalidateToken(v) ELSE v
           d == [u EXCEPT !.cred.dialog = TRUE]
<1>0. Keeps(w, w)
    BY DEF Keeps
<1>1. Keeps(w, v) /\ v \in GoodWorlds /\ v.acc.state # "SignedOut"
    BY DEF Keeps, GoodWorlds, Accounts
<1>2. InvalidCredentials(w) \in {w, Refresh(u, 0), SetState(d, "Connecting")}
    BY DEF InvalidCredentials
<1> HIDE DEF v
<1>3. Keeps(w, u) /\ u \in GoodWorlds /\ u.acc = v.acc
    <2>1. Keeps(v, InvalidateToken(v)) /\ InvalidateToken(v).acc = v.acc
        BY <1>1, InvalidateKeeps DEF InvalidateToken, GoodWorlds
    <2> QED BY <1>1, <2>1, KeepsTrans DEF Keeps
<1> HIDE DEF u
<1>4. Keeps(w, Refresh(u, 0))
    BY <1>3, RefreshKeeps, FirstTry, KeepsTrans
<1>5. Keeps(u, d) /\ d \in GoodWorlds /\ d.acc.state # "SignedOut"
    BY <1>1, <1>3 DEF Keeps, GoodWorlds, Credentials
<1> HIDE DEF d
<1>6. Keeps(w, SetState(d, "Connecting"))
    <2>1. Keeps(d, SetState(d, "Connecting"))
        BY <1>5, SetStateKeeps DEF States
    <2> QED BY <1>3, <1>5, <2>1, KeepsTrans
<1> QED BY <1>0, <1>2, <1>4, <1>6

LEMMA ConnectionResultKeeps ==
    ASSUME NEW w \in GoodWorlds,
           NEW status \in {"Connected", "Unreachable", "InvalidCredentials", "SslError"}
    PROVE  Keeps(w, ConnectionResult(w, status))
<1> DEFINE v == DropValidator(w)
<1>1. Keeps(w, v) /\ v \in GoodWorlds
    BY DropValidatorKeeps DEF Keeps
<1>2. ConnectionResult(w, status) =
        IF v.acc.state = "SignedOut" THEN v
        ELSE CASE status = "Connected" /\ v.acc.caps -> SetState(v, "Connected")
               [] status = "Connected" /\ ~v.acc.caps -> CheckConnectivity(v, FALSE, FALSE)
               [] status = "Unreachable" -> SetState(v, "Disconnected")
               [] status = "InvalidCredentials" -> InvalidCredentials(v)
               [] status = "SslError" -> IF v.net.portal THEN SetState(v, "Connecting") ELSE v
    BY DEF ConnectionResult
<1> HIDE DEF v
<1>3. CASE v.acc.state = "SignedOut"
    BY <1>1, <1>2, <1>3
<1>4. CASE v.acc.state # "SignedOut"
    <2>1. \A s \in States : Keeps(w, SetState(v, s))
        BY <1>1, <1>4, SetStateKeeps, KeepsTrans
    <2>2. Keeps(w, CheckConnectivity(v, FALSE, FALSE))
        BY <1>1, CheckKeeps, KeepsTrans
    <2>3. Keeps(w, InvalidCredentials(v))
        BY <1>1, <1>4, InvalidCredentialsKeeps, KeepsTrans
    <2>4. v.acc.caps \in BOOLEAN
        BY <1>1 DEF GoodWorlds, Accounts
    <2>5. {"Connected", "Disconnected", "Connecting"} \subseteq States
        BY DEF States
    <2>6. CASE status = "Connected"
        BY <1>2, <1>4, <2>1, <2>2, <2>4, <2>5, <2>6
    <2>7. CASE status = "Unreachable"
        BY <1>2, <1>4, <2>1, <2>5, <2>7
    <2>8. CASE status = "InvalidCredentials"
        BY <1>2, <1>4, <2>3, <2>8
    <2>9. CASE status = "SslError"
        BY <1>1, <1>2, <1>4, <2>1, <2>5, <2>9
    <2> QED BY <2>6, <2>7, <2>8, <2>9
<1> QED BY <1>3, <1>4

\* The queue of a world may become any other good one.
LEMMA QueueKeeps ==
    ASSUME NEW w \in GoodWorlds, NEW k \in GoodQueues
    PROVE  Keeps(w, [w EXCEPT !.q = k])
BY DEF Keeps, GoodWorlds

LEMMA SettingsFinishedKeeps ==
    ASSUME NEW w \in GoodWorlds, NEW ok \in BOOLEAN
    PROVE  Keeps(w, SettingsFinished(w, ok))
<1> DEFINE v == [w EXCEPT !.acc.settings = "none", !.acc.caps = @ \/ ok]
<1>1. Keeps(w, v) /\ v \in GoodWorlds
    BY DEF Keeps, GoodWorlds, Accounts
<1>2. SettingsFinished(w, ok) \in {v, IsConnectedChanged(v)}
    BY DEF SettingsFinished
<1> HIDE DEF v
<1> QED BY <1>1, <1>2, EnqueuedKeeps, KeepsTrans

LEMMA JobDoneKeeps ==
    ASSUME NEW w \in GoodWorlds, NEW j \in Jobs, NEW ok \in BOOLEAN
    PROVE  Keeps(w, JobDone(w, j, ok))
<1> DEFINE v == [w EXCEPT !.q = Over(@, j)]
<1>1. Keeps(w, v) /\ v \in GoodWorlds
    BY QueueKeeps, OverGood DEF Keeps, GoodWorlds
<1>2. JobDone(w, j, ok) \in {v, SettingsFinished(v, ok)}
    BY DEF JobDone
<1> HIDE DEF v
<1> QED BY <1>1, <1>2, SettingsFinishedKeeps, KeepsTrans

LEMMA RetryOrFailKeeps ==
    ASSUME NEW w \in GoodWorlds, NEW j \in Jobs
    PROVE  Keeps(w, RetryOrFail(w, j))
<1>1. Keeps(w, [w EXCEPT !.q = Retried(@, j)])
    BY QueueKeeps, RetriedGood DEF GoodWorlds
<1> QED BY <1>1, JobDoneKeeps DEF RetryOrFail

LEMMA ConnectedCallKeeps ==
    ASSUME NEW w \in GoodWorlds, NEW changed \in BOOLEAN, NEW due \in BOOLEAN
    PROVE  Keeps(w, ConnectedCall(w, changed, due))
<1> DEFINE v == [w EXCEPT !.q = GuardUnblock(@, StateGuard)]
           u == [v EXCEPT !.acc.settings = IF changed THEN "announced" ELSE "quiet",
                          !.q = Sent(@, Settings)]
<1>1. Keeps(w, v) /\ v \in GoodWorlds
    BY QueueKeeps, GuardUnblockGood, ConnectionAssumption DEF Keeps, GoodWorlds
<1>2. ConnectedCall(w, changed, due) \in {v, u, IsConnectedChanged(v)}
    BY DEF ConnectedCall
<1> HIDE DEF v
<1>3. Keeps(v, u)
    <2>1. Sent(v.q, Settings) \in GoodQueues
        BY <1>1, SentGood, ConnectionAssumption DEF GoodWorlds
    <2> DEFINE k == Sent(v.q, Settings)
               a == [v.acc EXCEPT !.settings = IF changed THEN "announced" ELSE "quiet"]
    <2>2. u = [v EXCEPT !.acc = a, !.q = k]
        BY <1>1 DEF GoodWorlds
    <2>3. a \in Accounts /\ a.state = v.acc.state
        BY <1>1 DEF GoodWorlds, Accounts
    <2> HIDE DEF a, k, u
    <2> QED BY <1>1, <2>1, <2>2, <2>3 DEF Keeps, GoodWorlds, k
<1> HIDE DEF u
<1> QED BY <1>1, <1>2, <1>3, EnqueuedKeeps, KeepsTrans

----------------------------------------------------------------------------
(* The actions.  All but SignIn lead from a good world to a good one, and *)
(* leave an account signed out that is.  No step changes the scenario.     *)
Leads(w, v) ==
    /\ v \in GoodWorlds
    /\ w.acc.state = "SignedOut" => v.acc.state = "SignedOut"
    /\ v.net.events = w.net.events

LEMMA BecomeLeads ==
    ASSUME World \in GoodWorlds, NEW w, Leads(World, w), Become(w)
    PROVE  Leads(World, World')
<1>1. w = World'
    BY DEF Leads, Become, World, GoodWorlds
<1> QED BY <1>1

LEMMA KeepsLeads ==
    ASSUME World \in GoodWorlds, NEW w, NEW v,
           w \in GoodWorlds, World.acc.state = "SignedOut" => w.acc.state = "SignedOut",
           w.net.events = World.net.events,
           Keeps(w, v), Become(v)
    PROVE  Leads(World, World')
<1>1. Leads(World, v)
    BY DEF Keeps, Leads
<1> QED BY <1>1, BecomeLeads

LEMMA WorldParts ==
    ASSUME World \in GoodWorlds
    PROVE  /\ q \in GoodQueues /\ acc \in Accounts /\ cred \in Credentials
           /\ posted \in Seq(Calls) /\ net \in Networks
           /\ net.metered => acc.state # "Connected"
           /\ World.q = q /\ World.acc = acc /\ World.cred = cred
           /\ World.posted = posted /\ World.net = net
BY DEF World, GoodWorlds

\* A step that applies one handler to the world as it is.
LEMMA HandlerLeads ==
    ASSUME World \in GoodWorlds, NEW v, Keeps(World, v), Become(v)
    PROVE  Leads(World, World')
BY KeepsLeads

LEMMA PollLeads ==
    ASSUME World \in GoodWorlds, Poll
    PROVE  Leads(World, World')
BY CheckKeeps, HandlerLeads DEF Poll

LEMMA RunPostedLeads ==
    ASSUME World \in GoodWorlds, RunPosted
    PROVE  Leads(World, World')
<1> DEFINE w == [World EXCEPT !.posted = Tail(@)]
<1>1. w \in GoodWorlds /\ w.acc = World.acc /\ w.net = World.net
    <2>1. Tail(posted) \in Seq(Calls)
        BY WorldParts DEF RunPosted
    <2> QED BY <2>1, WorldParts DEF GoodWorlds
<1>2. PICK v : Keeps(w, v) /\ Become(v)
    <2> HIDE DEF w
    <2> QED BY <1>1, CheckKeeps, ConnectedCallKeeps DEF RunPosted, w
<1> HIDE DEF w
<1> QED BY <1>1, <1>2, KeepsLeads

LEMMA ValidatorLeads ==
    ASSUME World \in GoodWorlds, ValidatorAnswers
    PROVE  Leads(World, World')
<1>1. CASE StatusFound
    <2> DEFINE w == [World EXCEPT !.acc.validator = "user"]
    <2>1. Keeps(World, w)
        BY DEF Keeps, GoodWorlds, Accounts
    <2> HIDE DEF w
    <2> QED BY <1>1, <2>1, ConnectionResultKeeps, HandlerLeads DEF StatusFound, w
<1>2. CASE StatusFailed
    <2> DEFINE w == SlotAuthentication(World)
    <2>1. Keeps(World, w) /\ w \in GoodWorlds
        BY SlotAuthenticationKeeps DEF Keeps
    <2>2. Keeps(World, ConnectionResult(w, "Unreachable"))
        BY <2>1, ConnectionResultKeeps, KeepsTrans
    <2> HIDE DEF w
    <2> QED BY <1>2, <2>2, ConnectionResultKeeps, HandlerLeads DEF StatusFailed, w
<1>3. CASE UserFound
    BY <1>3, ConnectionResultKeeps, HandlerLeads DEF UserFound
<1>4. CASE UserFailed
    <2> DEFINE w == SlotAuthentication(World)
    <2>1. Keeps(World, w) /\ w \in GoodWorlds
        BY SlotAuthenticationKeeps DEF Keeps
    <2>2. Keeps(World, ConnectionResult(w, "InvalidCredentials"))
        BY <2>1, ConnectionResultKeeps, KeepsTrans
    <2> HIDE DEF w
    <2> QED BY <1>4, <2>2, ConnectionResultKeeps, HandlerLeads DEF UserFailed, w
<1> QED BY <1>1, <1>2, <1>3, <1>4 DEF ValidatorAnswers

LEMMA TlsLeads ==
    ASSUME World \in GoodWorlds, SslErrors \/ TlsAccepted \/ TlsRejected
    PROVE  Leads(World, World')
<1>1. CASE SslErrors
    <2> DEFINE w == [World EXCEPT !.acc.tls = IF acc.blocking THEN "blocking" ELSE "plain"]
    <2>1. Keeps(World, w)
        BY DEF Keeps, GoodWorlds, Accounts
    <2> HIDE DEF w
    <2> QED BY <1>1, <2>1, HandlerLeads DEF SslErrors, w
<1> DEFINE x == [World EXCEPT !.acc.tls = "none"]
<1>2. Keeps(World, x) /\ x \in GoodWorlds
    BY DEF Keeps, GoodWorlds, Accounts
<1>3. CASE TlsAccepted
    <2> DEFINE w == DropValidator(x)
    <2>1. Become(CheckConnectivity(w, acc.tls = "blocking", FALSE))
        BY <1>3 DEF TlsAccepted
    <2> HIDE DEF x
    <2>2. Keeps(World, w) /\ w \in GoodWorlds
        BY <1>2, DropValidatorKeeps, KeepsTrans DEF Keeps
    <2> HIDE DEF w
    <2>3. Keeps(World, CheckConnectivity(w, acc.tls = "blocking", FALSE))
        BY <2>2, CheckKeeps, KeepsTrans
    <2> QED BY <2>1, <2>3, HandlerLeads
<1>4. CASE TlsRejected
    <2> HIDE DEF x
    <2>1. Keeps(World, SetState(x, "SignedOut"))
        BY <1>2, SetStateKeeps, KeepsTrans DEF States
    <2> QED BY <1>4, <2>1, HandlerLeads DEF TlsRejected, x
<1> QED BY <1>1, <1>3, <1>4

\* New credentials or none, and then fetched(), or a refresh.
LEMMA CredentialsLead ==
    ASSUME World \in GoodWorlds, NEW c \in Credentials, NEW recent \in BOOLEAN
    PROVE  LET w == [World EXCEPT !.cred = c]
           IN  Keeps(World, w) /\ w \in GoodWorlds /\ Keeps(World, Fetched(w, recent))
<1> DEFINE w == [World EXCEPT !.cred = c]
<1>1. Keeps(World, w) /\ w \in GoodWorlds
    BY DEF Keeps, GoodWorlds
<1> HIDE DEF w
<1> QED BY <1>1, FetchedKeeps, KeepsTrans DEF w

LEMMA KeychainLeads ==
    ASSUME World \in GoodWorlds, KeychainAnswers
    PROVE  Leads(World, World')
<1>1. CASE NothingFetched
    <2> DEFINE c == [cred EXCEPT !.keychain = "none", !.ready = FALSE]
    <2>1. c \in Credentials
        BY WorldParts DEF Credentials
    <2>2. [World EXCEPT !.cred.keychain = "none", !.cred.ready = FALSE]
            = [World EXCEPT !.cred = c]
        BY DEF World
    <2>3. PICK recent \in BOOLEAN : Become(Fetched([World EXCEPT !.cred = c], recent))
        BY <1>1, <2>2 DEF NothingFetched
    <2> HIDE DEF c
    <2> QED BY <2>1, <2>3, CredentialsLead, HandlerLeads
<1>2. CASE KeychainFound
    <2> DEFINE w == [World EXCEPT !.cred.keychain = "none", !.cred.token = TRUE]
    <2>1. Keeps(World, w) /\ w \in GoodWorlds
        BY DEF Keeps, GoodWorlds, Credentials
    <2>2. Become(Refresh(w, 0))
        BY <1>2 DEF KeychainFound
    <2> HIDE DEF w
    <2> QED BY <2>1, <2>2, RefreshKeeps, FirstTry, KeepsTrans, HandlerLeads
<1> QED BY <1>1, <1>2 DEF KeychainAnswers, KeychainEmpty, KeychainFailed

LEMMA RefreshLeads ==
    ASSUME World \in GoodWorlds, RefreshAnswers
    PROVE  Leads(World, World')
<1> DEFINE e == EndRefresh(World)
<1>0. Keeps(World, e) /\ e \in GoodWorlds
    BY EndRefreshKeeps DEF Keeps
<1>1. CASE RefreshRestored
    <2> DEFINE w == [World EXCEPT !.cred.refresh = "asking"]
    <2>1. Keeps(World, w)
        BY DEF Keeps, GoodWorlds, Credentials
    <2> HIDE DEF w
    <2> QED BY <1>1, <2>1, HandlerLeads DEF RefreshRestored, w
<1>2. CASE RefreshLost
    <2> DEFINE w == [World EXCEPT !.cred.refresh = "lost"]
    <2>1. Keeps(World, w)
        BY DEF Keeps, GoodWorlds, Credentials
    <2> HIDE DEF w
    <2> QED BY <1>2, <2>1, HandlerLeads DEF RefreshLost, w
<1>3. CASE RefreshGranted
    <2> DEFINE w == [e EXCEPT !.cred.token = TRUE, !.cred.ready = TRUE,
                              !.cred.stored = TRUE, !.cred.good = TRUE]
    <2>1. PICK recent \in BOOLEAN : Become(Fetched(w, recent))
        BY <1>3 DEF RefreshGranted
    <2> HIDE DEF e
    <2>2. Keeps(e, w) /\ w \in GoodWorlds
        BY <1>0 DEF Keeps, GoodWorlds, Credentials
    <2> HIDE DEF w
    <2> QED BY <1>0, <2>1, <2>2, FetchedKeeps, KeepsTrans, HandlerLeads
<1>4. CASE RefreshGarbled
    <2> DEFINE w == [e EXCEPT !.cred.token = TRUE]
    <2>1. PICK recent \in BOOLEAN : Become(Fetched(w, recent))
        BY <1>4 DEF RefreshGarbled
    <2> HIDE DEF e
    <2>2. Keeps(e, w) /\ w \in GoodWorlds
        BY <1>0 DEF Keeps, GoodWorlds, Credentials
    <2> HIDE DEF w
    <2> QED BY <1>0, <2>1, <2>2, FetchedKeeps, KeepsTrans, HandlerLeads
<1>5. CASE RefreshRefused
    <2>1. PICK recent \in BOOLEAN : Become(LogOut(e, recent))
        BY <1>5 DEF RefreshRefused
    <2> HIDE DEF e
    <2> QED BY <1>0, <2>1, LogOutKeeps, KeepsTrans, HandlerLeads
<1>6. CASE RefreshFailed
    BY <1>6, RefreshErrorKeeps, HandlerLeads DEF RefreshFailed
<1> QED BY <1>1, <1>2, <1>3, <1>4, <1>5, <1>6 DEF RefreshAnswers

LEMMA RetryTimerLeads ==
    ASSUME World \in GoodWorlds,
           NEW n \in 0 .. TokenRefreshMaxRetries - 1, RetryTimer(n)
    PROVE  Leads(World, World')
<1> DEFINE w == [World EXCEPT !.cred.timers = @ \ {n}]
<1>1. Keeps(World, w) /\ w \in GoodWorlds
    BY DEF Keeps, GoodWorlds, Credentials
<1>2. Become(Refresh(w, n))
    BY DEF RetryTimer
<1> HIDE DEF w
<1> QED BY <1>1, <1>2, RefreshKeeps, KeepsTrans, HandlerLeads

LEMMA JobLeads ==
    ASSUME World \in GoodWorlds, NEW j \in Jobs, SendJob(j) \/ JobAnswers(j)
    PROVE  Leads(World, World')
<1>1. CASE SendJob(j)
    <2> DEFINE w == [World EXCEPT !.q = Sent(@, j)]
    <2>1. Keeps(World, w)
        BY QueueKeeps, SentGood DEF GoodWorlds
    <2> HIDE DEF w
    <2> QED BY <1>1, <2>1, HandlerLeads DEF SendJob, w
<1>2. CASE JobAnswered(j)
    BY <1>2, JobDoneKeeps, HandlerLeads DEF JobAnswered
<1>3. CASE JobUnauthorized(j)
    <2> DEFINE w == SlotAuthentication(World)
    <2>1. Keeps(World, w) /\ w \in GoodWorlds
        BY SlotAuthenticationKeeps DEF Keeps
    <2>2. Become(RetryOrFail(w, j))
        BY <1>3 DEF JobUnauthorized
    <2> HIDE DEF w
    <2> QED BY <2>1, <2>2, RetryOrFailKeeps, KeepsTrans, HandlerLeads
<1>4. CASE JobRedirected(j)
    <2> DEFINE w == CheckConnectivity(World, TRUE, FALSE)
    <2>1. Keeps(World, w) /\ w \in GoodWorlds
        BY CheckKeeps DEF Keeps
    <2>2. Become(RetryOrFail(w, j))
        BY <1>4 DEF JobRedirected
    <2> HIDE DEF w
    <2> QED BY <2>1, <2>2, RetryOrFailKeeps, KeepsTrans, HandlerLeads
<1> QED BY <1>1, <1>2, <1>3, <1>4 DEF JobAnswers

LEMMA UserLeads ==
    ASSUME World \in GoodWorlds, SignOutByUi \/ LoggedIn \/ LogOutRequested
    PROVE  Leads(World, World')
<1>1. CASE SignOutByUi
    <2> DEFINE w == [World EXCEPT !.acc.forgotten = TRUE]
               f == ForgetSensitiveData(w)
    <2>1. Become(SetState(f, "SignedOut"))
        BY <1>1 DEF SignOutByUi
    <2>2. Keeps(World, w) /\ w \in GoodWorlds
        BY DEF Keeps, GoodWorlds, Accounts
    <2> HIDE DEF w
    <2>3. Keeps(World, f) /\ f \in GoodWorlds
        BY <2>2, ForgetKeeps, KeepsTrans DEF Keeps
    <2> HIDE DEF f
    <2> QED BY <2>1, <2>3, SetStateKeeps, KeepsTrans, HandlerLeads DEF States
<1>2. CASE LoggedIn
    <2> DEFINE w == [World EXCEPT !.cred.dialog = FALSE, !.cred.token = TRUE,
                                  !.cred.ready = TRUE, !.cred.stored = TRUE,
                                  !.cred.good = TRUE]
    <2>1. PICK recent \in BOOLEAN : Become(Fetched(w, recent))
        BY <1>2 DEF LoggedIn
    <2>2. Keeps(World, w) /\ w \in GoodWorlds
        BY DEF Keeps, GoodWorlds, Credentials
    <2> HIDE DEF w
    <2> QED BY <2>1, <2>2, FetchedKeeps, KeepsTrans, HandlerLeads
<1>3. CASE LogOutRequested
    <2> DEFINE w == [World EXCEPT !.cred.dialog = FALSE]
    <2>1. Become(SetState(w, "SignedOut"))
        BY <1>3 DEF LogOutRequested
    <2>2. Keeps(World, w) /\ w \in GoodWorlds
        BY DEF Keeps, GoodWorlds, Credentials
    <2> HIDE DEF w
    <2> QED BY <2>1, <2>2, SetStateKeeps, KeepsTrans, HandlerLeads DEF States
<1> QED BY <1>1, <1>2, <1>3

LEMMA SignInGood ==
    ASSUME World \in GoodWorlds, SignIn
    PROVE  World' \in GoodWorlds /\ World'.net = World.net
<1> DEFINE w == [World EXCEPT !.acc.state = "Disconnected", !.acc.waiting = FALSE,
                              !.acc.forgotten = FALSE]
<1>1. PICK recent \in BOOLEAN : Become(IsConnectedChanged(CheckConnectivity(w, FALSE, recent)))
    BY DEF SignIn
<1>2. w \in GoodWorlds /\ w.net = World.net
    BY DEF GoodWorlds, Accounts, States
<1> HIDE DEF w
<1>3. /\ CheckConnectivity(w, FALSE, recent) \in GoodWorlds
      /\ CheckConnectivity(w, FALSE, recent).net = World.net
    BY <1>2, CheckKeeps DEF Keeps
<1>4. World.acc.state = "SignedOut"
    BY WorldParts DEF SignIn
<1> DEFINE u == IsConnectedChanged(CheckConnectivity(w, FALSE, recent))
<1>5. u \in GoodWorlds /\ u.net = World.net
    BY <1>3, EnqueuedKeeps DEF Keeps
<1> HIDE DEF u
<1>6. u = World'
    BY <1>1, <1>5 DEF Become, World, GoodWorlds, u
<1> QED BY <1>5, <1>6

\* The network changes, with everything else as before.
LEMMA NetworkGood ==
    ASSUME World \in GoodWorlds, NEW n \in Networks, ~n.metered \/ World.acc.state # "Connected"
    PROVE  LET w == [World EXCEPT !.net = n]
           IN  w \in GoodWorlds /\ w.acc = World.acc
BY DEF GoodWorlds

\* The check that follows a change of the network, and the validator's end.
LEMMA RecheckLeads ==
    ASSUME World \in GoodWorlds, NEW w \in GoodWorlds, w.acc = World.acc,
           w.net.events = World.net.events,
           Become(Post(DropValidator(w), "check"))
    PROVE  Leads(World, World')
<1>1. Keeps(w, DropValidator(w)) /\ DropValidator(w) \in GoodWorlds
    BY DropValidatorKeeps DEF Keeps
<1>2. Keeps(w, Post(DropValidator(w), "check"))
    BY <1>1, PostKeeps, KeepsTrans DEF Calls
<1> QED BY <1>2, KeepsLeads

LEMMA ReachabilityLeads ==
    ASSUME World \in GoodWorlds, Online \/ Offline
    PROVE  Leads(World, World')
<1>1. CASE Online
    <2> DEFINE w == [World EXCEPT !.net.offline = FALSE]
    <2>1. w \in GoodWorlds /\ w.acc = World.acc /\ w.net.events = World.net.events
        BY DEF GoodWorlds, Networks
    <2>2. Become(Post(DropValidator(w), "check"))
        BY <1>1 DEF Online
    <2> HIDE DEF w
    <2> QED BY <2>1, <2>2, RecheckLeads
<1>2. CASE Offline
    <2> DEFINE w == [World EXCEPT !.net.offline = TRUE]
               v == IF acc.state = "SignedOut" THEN w ELSE SetState(w, "Disconnected")
    <2>1. w \in GoodWorlds /\ w.acc = World.acc /\ w.net.events = World.net.events /\ World.acc = acc
        BY WorldParts DEF GoodWorlds, Networks
    <2>2. Become(v)
        BY <1>2 DEF Offline
    <2> HIDE DEF w
    <2>3. Keeps(w, v)
        <3>1. Keeps(w, w)
            BY <2>1 DEF Keeps
        <3> QED BY <2>1, <3>1, SetStateKeeps DEF States
    <2> HIDE DEF v
    <2> QED BY <2>1, <2>2, <2>3, KeepsLeads
<1> QED BY <1>1, <1>2

LEMMA MeteredLeads ==
    ASSUME World \in GoodWorlds, Metered \/ Unmetered
    PROVE  Leads(World, World')
<1>1. CASE Metered /\ acc.state = "Connected"
    <2> DEFINE w == [World EXCEPT !.net.metered = TRUE]
               v == [w EXCEPT !.acc.state = "Connecting", !.acc.enqueued = @ /\ FALSE]
    <2>1. Become(IsConnectedChanged(v))
        BY <1>1, WorldParts DEF Metered, SetState
    <2>2. v \in GoodWorlds /\ v.net.events = World.net.events
        BY DEF GoodWorlds, Accounts, Networks, States
    <2>3. World.acc.state # "SignedOut"
        BY <1>1, WorldParts
    <2> HIDE DEF v
    <2> QED BY <2>1, <2>2, <2>3, EnqueuedKeeps, KeepsLeads
<1>2. CASE Metered /\ acc.state # "Connected"
    <2> DEFINE w == [World EXCEPT !.net.metered = TRUE]
    <2>1. w \in GoodWorlds /\ w.acc = World.acc /\ w.net.events = World.net.events
        BY <1>2, WorldParts DEF GoodWorlds, Networks
    <2>2. Become(w)
        BY <1>2 DEF Metered
    <2> HIDE DEF w
    <2> QED BY <2>1, <2>2, KeepsLeads DEF Keeps
<1>3. CASE Unmetered
    <2> DEFINE w == [World EXCEPT !.net.metered = FALSE]
               v == IF acc.state = "Connecting" THEN SetState(w, "Connected") ELSE w
    <2>1. w \in GoodWorlds /\ w.acc = World.acc /\ w.net.events = World.net.events /\ World.acc = acc
        BY WorldParts DEF GoodWorlds, Networks
    <2>2. Become(v)
        BY <1>3 DEF Unmetered
    <2> HIDE DEF w
    <2>3. Keeps(w, v)
        <3>1. Keeps(w, w)
            BY <2>1 DEF Keeps
        <3> QED BY <2>1, <3>1, SetStateKeeps DEF States
    <2> HIDE DEF v
    <2> QED BY <2>1, <2>2, <2>3, KeepsLeads
<1> QED BY <1>1, <1>2, <1>3

LEMMA PortalLeads ==
    ASSUME World \in GoodWorlds, BehindPortal \/ PortalLeft
    PROVE  Leads(World, World')
<1>0. q \in GoodQueues /\ World.q = q /\ StateGuard \in Guards
    BY WorldParts, ConnectionAssumption
<1>1. CASE BehindPortal
    <2> DEFINE w == [World EXCEPT !.net.portal = TRUE, !.q = GuardBlock(@, StateGuard)]
    <2>1. w \in GoodWorlds /\ w.acc = World.acc /\ w.net.events = World.net.events
        BY <1>0, GuardBlockGood DEF GoodWorlds, Networks
    <2>2. Become(Post(DropValidator(w), "check"))
        BY <1>1 DEF BehindPortal
    <2> HIDE DEF w
    <2> QED BY <2>1, <2>2, RecheckLeads
<1>2. CASE PortalLeft
    <2> DEFINE w == [World EXCEPT !.net.portal = FALSE,
                                  !.q = GuardUnblock(Cleared(@), StateGuard)]
    <2>1. GuardUnblock(Cleared(q), StateGuard) \in GoodQueues
        BY <1>0, ClearedGood, GuardUnblockGood DEF GoodQueues
    <2>2. w \in GoodWorlds /\ w.acc = World.acc /\ w.net.events = World.net.events
        BY <1>0, <2>1 DEF GoodWorlds, Networks
    <2>3. Become(Post(DropValidator(w), "check"))
        BY <1>2 DEF PortalLeft
    <2> HIDE DEF w
    <2> QED BY <2>2, <2>3, RecheckLeads
<1> QED BY <1>1, <1>2

LEMMA HealLeads ==
    ASSUME World \in GoodWorlds, Heal
    PROVE  Leads(World, World')
<1> DEFINE w == [World EXCEPT !.net.sound = TRUE]
<1>1. w \in GoodWorlds /\ w.acc = World.acc /\ w.net.events = World.net.events
    BY DEF GoodWorlds, Networks
<1>2. Become(w)
    BY DEF Heal
<1> HIDE DEF w
<1> QED BY <1>1, <1>2, KeepsLeads DEF Keeps

----------------------------------------------------------------------------
LEMMA StepLeads ==
    ASSUME World \in GoodWorlds, Next, ~SignIn
    PROVE  Leads(World, World')
BY PollLeads, RunPostedLeads, ValidatorLeads, TlsLeads, KeychainLeads, RefreshLeads,
   RetryTimerLeads, JobLeads, UserLeads, ReachabilityLeads, MeteredLeads, PortalLeads,
   HealLeads
   DEF Next

LEMMA InitGood ==
    ASSUME Init
    PROVE  World \in GoodWorlds
<1>1. q \in GoodQueues
    <2>1. StateGuard \in Guards
        BY ConnectionAssumption
    <2> QED BY <2>1, EmptyQueueGood, GuardBlockGood DEF Init
<1>2. acc \in Accounts /\ acc.state # "Connected"
    BY DEF Init, Accounts, States
<1>3. cred \in Credentials
    BY FirstTry DEF Init, Credentials
<1>4. posted \in Seq(Calls) /\ net \in Networks
    <2>1. <<>> \in Seq(Calls)
        OBVIOUS
    <2>2. PICK events \in Scenarios :
              \E portal \in {FALSE} \union IF "portal" \in events THEN {TRUE} ELSE {} :
                  /\ net = [metered |-> FALSE, portal |-> portal, offline |-> FALSE,
                            sound |-> FALSE, events |-> events]
                  /\ posted = <<>>
        BY Zenon DEF Init
    <2>3. events \in SUBSET AllEvents
        <3>1. Scenarios \subseteq SUBSET AllEvents
            BY ConnectionAssumption
        <3> QED BY <2>2, <3>1
    <2>4. PICK portal \in BOOLEAN :
              net = [metered |-> FALSE, portal |-> portal, offline |-> FALSE,
                     sound |-> FALSE, events |-> events]
        BY <2>2
    <2>5. net \in Networks
        BY <2>3, <2>4 DEF Networks
    <2> QED BY <2>1, <2>2, <2>5
<1> QED BY <1>1, <1>2, <1>3, <1>4 DEF World, GoodWorlds

LEMMA AlwaysGoodWorld == Spec => [](World \in GoodWorlds)
<1>1. World \in GoodWorlds /\ [Next]_vars => (World \in GoodWorlds)'
    <2> SUFFICES ASSUME World \in GoodWorlds, [Next]_vars
                 PROVE  World' \in GoodWorlds
        OBVIOUS
    <2>1. CASE Next /\ ~SignIn
        BY <2>1, StepLeads DEF Leads
    <2>2. CASE SignIn
        BY <2>2, SignInGood
    <2>3. CASE UNCHANGED vars
        BY <2>3 DEF vars, World
    <2> QED BY <2>1, <2>2, <2>3
<1> QED BY <1>1, InitGood, PTL DEF Spec

(* Every part of the connection has its type. *)
THEOREM ConnectionTyped == Spec => []TypeOK
<1>1. World \in GoodWorlds => TypeOK
    BY WorldParts DEF TypeOK, GoodQueues
<1> QED BY <1>1, AlwaysGoodWorld, PTL

(* No block of the queue loses its owner, however refreshes, captive       *)
(* portals and redirects overlap.                                          *)
THEOREM ConnectionBlocksOwned == Spec => []BlocksAreOwned
<1>1. World \in GoodWorlds => BlocksAreOwned
    BY WorldParts DEF GoodQueues, BlocksAreOwned
<1> QED BY <1>1, AlwaysGoodWorld, PTL

(* No job of an account is left behind in an open queue. *)
THEOREM ConnectionLeavesNone == Spec => []NoneWaitsInOpenQueue
<1>1. World \in GoodWorlds => NoneWaitsInOpenQueue
    BY WorldParts DEF GoodQueues, NoneWaitsInOpenQueue, isBlocked
<1> QED BY <1>1, AlwaysGoodWorld, PTL

(* No account is connected on a metered network, whatever was under way   *)
(* when the network became one.                                           *)
THEOREM NotOnMetered == Spec => []MeteredPauses
<1>1. World \in GoodWorlds => MeteredPauses
    BY WorldParts DEF MeteredPauses
<1> QED BY <1>1, AlwaysGoodWorld, PTL

(* Only signIn revives an account that is signed out. *)
THEOREM OnlySignInRevives == Spec => SignedOutStays
<1>1. World \in GoodWorlds /\ [Next]_vars =>
        [acc.state = "SignedOut" /\ acc'.state # "SignedOut" => SignIn]_vars
    <2> SUFFICES ASSUME World \in GoodWorlds, Next, ~SignIn, acc.state = "SignedOut"
                 PROVE  acc'.state = "SignedOut"
        OBVIOUS
    <2>1. Leads(World, World') /\ World.acc.state = "SignedOut"
        BY StepLeads, WorldParts
    <2> QED BY <2>1 DEF Leads, World
<1> QED BY <1>1, AlwaysGoodWorld, PTL DEF Spec, SignedOutStays

----------------------------------------------------------------------------
(* Waiting for credentials ends, as long as no keychain fails: what a      *)
(* world promises about that, and which handlers keep the promise.         *)
Ahead(w) == w.cred.refresh \in {"restore", "asking"} \/ w.cred.timers # {}

\* A refresh that is ahead has a token to refresh; no job is lost.
Hopeful(w) ==
    /\ w.cred.refresh # "lost"
    /\ w.cred.ready => w.cred.token
    /\ (w.acc.waiting /\ w.acc.state # "SignedOut") =>
          \/ Ahead(w) /\ w.cred.token
          \/ w.cred.keychain = "reading"
          \/ w.cred.dialog

\* Somebody lifts the block of a refresh, or the next check asks for a login.
Lifted(w) == AccountGuard \in w.q.guards => (Ahead(w) \/ ~w.cred.token)

Promising(w) == w \in GoodWorlds /\ Hopeful(w) /\ Lifted(w)

\* What most handlers do: they leave the credentials alone.
Spares(w, v) ==
    /\ Keeps(w, v)
    /\ v.cred = w.cred
    /\ v.acc.waiting => w.acc.waiting
    /\ AccountGuard \in v.q.guards => AccountGuard \in w.q.guards

LEMMA SparesTrans ==
    ASSUME NEW w, NEW v, NEW u, Spares(w, v), Spares(v, u)
    PROVE  Spares(w, u)
BY KeepsTrans DEF Spares

LEMMA SparesHopeful ==
    ASSUME NEW w, NEW v, Spares(w, v), Hopeful(w)
    PROVE  Hopeful(v)
BY DEF Spares, Keeps, Hopeful, Ahead

LEMMA SparesPromise ==
    ASSUME NEW w, NEW v, Spares(w, v), Promising(w)
    PROVE  Promising(v)
BY SparesHopeful DEF Spares, Keeps, Promising, Lifted, Ahead

LEMMA PostSpares ==
    ASSUME NEW w \in GoodWorlds, NEW c \in Calls
    PROVE  Spares(w, Post(w, c))
<1>1. Post(w, c).cred = w.cred /\ Post(w, c).acc = w.acc /\ Post(w, c).q = w.q
    BY DEF Post, GoodWorlds
<1> QED BY <1>1, PostKeeps DEF Spares

LEMMA EnqueuedSpares ==
    ASSUME NEW w \in GoodWorlds
    PROVE  Spares(w, IsConnectedChanged(w))
<1> DEFINE v == IsConnectedChanged(w)
<1>1. v.cred = w.cred /\ v.acc.waiting = w.acc.waiting /\ v.q = w.q
    BY DEF IsConnectedChanged, GoodWorlds, Accounts
<1> QED BY <1>1, EnqueuedKeeps DEF Spares

LEMMA DropValidatorSpares ==
    ASSUME NEW w \in GoodWorlds
    PROVE  Spares(w, DropValidator(w))
<1> DEFINE v == DropValidator(w)
<1>1. v.cred = w.cred /\ v.acc.waiting = w.acc.waiting /\ v.q = w.q
    BY DEF DropValidator, GoodWorlds, Accounts
<1> QED BY <1>1, DropValidatorKeeps DEF Spares

\* The guards a block, an unblock and the end of a job leave.
LEMMA StateGuardApart ==
    ASSUME NEW k \in GoodQueues
    PROVE  /\ AccountGuard \in GuardBlock(k, StateGuard).guards => AccountGuard \in k.guards
           /\ AccountGuard \in GuardUnblock(k, StateGuard).guards => AccountGuard \in k.guards
<1>1. StateGuard # AccountGuard /\ k \in Queues
    BY ConnectionAssumption DEF GoodQueues
<1>2. GuardBlock(k, StateGuard).guards \subseteq k.guards \union {StateGuard}
    BY <1>1 DEF GuardBlock, Queues
<1>3. GuardUnblock(k, StateGuard).guards \subseteq k.guards
    BY <1>1 DEF GuardUnblock, Unblocked, Resent, Queues
<1> QED BY <1>1, <1>2, <1>3

LEMMA AccountGuardLifted ==
    ASSUME NEW k \in GoodQueues
    PROVE  AccountGuard \notin GuardUnblock(k, AccountGuard).guards
BY DEF GuardUnblock, Unblocked, Resent, Queues, GoodQueues

LEMMA JobsApart ==
    ASSUME NEW k \in GoodQueues, NEW j \in Jobs
    PROVE  /\ Sent(k, j).guards = k.guards
           /\ Over(k, j).guards = k.guards
           /\ Retried(k, j).guards = k.guards
           /\ Cleared(k).guards = k.guards
BY DEF Sent, Over, Retried, Resent, Cleared, GoodQueues, Queues

LEMMA StartValidatorSpares ==
    ASSUME NEW w \in GoodWorlds, NEW block \in BOOLEAN
    PROVE  Spares(w, StartValidator(w, block))
<1> DEFINE v == StartValidator(w, block)
<1>1. v.cred = w.cred /\ v.acc.waiting = w.acc.waiting
    BY DEF StartValidator, GoodWorlds, Accounts
<1>2. v.q = IF block THEN GuardBlock(w.q, StateGuard) ELSE w.q
    BY DEF StartValidator, GoodWorlds
<1>3. w.q \in GoodQueues
    BY DEF GoodWorlds
<1> QED BY <1>1, <1>2, <1>3, StateGuardApart, StartValidatorKeeps DEF Spares

LEMMA SetStateSpares ==
    ASSUME NEW w \in GoodWorlds, NEW state \in States,
           w.acc.state # "SignedOut" \/ state = "SignedOut"
    PROVE  Spares(w, SetState(w, state))
<1> DEFINE v == SetState(w, state)
<1>1. v.cred = w.cred /\ v.q = w.q
    BY DEF SetState, Post, IsConnectedChanged, GoodWorlds
<1>2. v.acc.waiting = w.acc.waiting
    BY DEF SetState, Post, IsConnectedChanged, GoodWorlds, Accounts
<1> QED BY <1>1, <1>2, SetStateKeeps DEF Spares

\* A world whose queue has changed, but not by this refresh.
LEMMA QueueSpares ==
    ASSUME NEW w \in GoodWorlds, NEW k \in GoodQueues,
           AccountGuard \in k.guards => AccountGuard \in w.q.guards
    PROVE  Spares(w, [w EXCEPT !.q = k])
BY QueueKeeps DEF Spares, GoodWorlds

LEMMA SettingsFinishedSpares ==
    ASSUME NEW w \in GoodWorlds, NEW ok \in BOOLEAN
    PROVE  Spares(w, SettingsFinished(w, ok))
<1> DEFINE v == SettingsFinished(w, ok)
<1>1. v.cred = w.cred /\ v.q = w.q
    BY DEF SettingsFinished, IsConnectedChanged, GoodWorlds
<1>2. v.acc.waiting = w.acc.waiting
    BY DEF SettingsFinished, IsConnectedChanged, GoodWorlds, Accounts
<1> QED BY <1>1, <1>2, SettingsFinishedKeeps DEF Spares

LEMMA JobDoneSpares ==
    ASSUME NEW w \in GoodWorlds, NEW j \in Jobs, NEW ok \in BOOLEAN
    PROVE  Spares(w, JobDone(w, j, ok))
<1> DEFINE v == [w EXCEPT !.q = Over(@, j)]
<1>0. w.q \in GoodQueues
    BY DEF GoodWorlds
<1>1. Spares(w, v) /\ v \in GoodWorlds
    BY <1>0, QueueSpares, OverGood, JobsApart DEF Spares, Keeps
<1>2. JobDone(w, j, ok) \in {v, SettingsFinished(v, ok)}
    BY DEF JobDone
<1> HIDE DEF v
<1> QED BY <1>1, <1>2, SettingsFinishedSpares, SparesTrans

LEMMA RetryOrFailSpares ==
    ASSUME NEW w \in GoodWorlds, NEW j \in Jobs
    PROVE  Spares(w, RetryOrFail(w, j))
<1>0. w.q \in GoodQueues
    BY DEF GoodWorlds
<1>1. needsRetry(w.q, j) => Spares(w, [w EXCEPT !.q = Retried(@, j)])
    BY <1>0, QueueSpares, RetriedGood, JobsApart
<1> QED BY <1>1, JobDoneSpares DEF RetryOrFail

LEMMA ConnectedCallSpares ==
    ASSUME NEW w \in GoodWorlds, NEW changed \in BOOLEAN, NEW due \in BOOLEAN
    PROVE  Spares(w, ConnectedCall(w, changed, due))
<1> DEFINE v == [w EXCEPT !.q = GuardUnblock(@, StateGuard)]
           u == [v EXCEPT !.acc.settings = IF changed THEN "announced" ELSE "quiet",
                          !.q = Sent(@, Settings)]
           c == ConnectedCall(w, changed, due)
<1>0. w.q \in GoodQueues
    BY DEF GoodWorlds
<1>1. Spares(w, v) /\ v \in GoodWorlds
    BY <1>0, QueueSpares, GuardUnblockGood, StateGuardApart, ConnectionAssumption
    DEF Spares, Keeps
<1>2. c \in {v, u, IsConnectedChanged(v)}
    BY DEF ConnectedCall
<1>3. Keeps(w, c)
    BY ConnectedCallKeeps
<1> HIDE DEF v
<1>4. v.q \in GoodQueues
    BY <1>1 DEF GoodWorlds
<1>5. u.cred = v.cred /\ u.acc.waiting = v.acc.waiting /\ u.q = Sent(v.q, Settings)
    BY <1>1 DEF GoodWorlds, Accounts
<1>6. u.q.guards = v.q.guards
    BY <1>4, <1>5, JobsApart, ConnectionAssumption
<1> HIDE DEF u
<1>7. Spares(w, IsConnectedChanged(v))
    BY <1>1, EnqueuedSpares, SparesTrans
<1>8. CASE c = u
    BY <1>1, <1>3, <1>5, <1>6, <1>8 DEF Spares
<1> QED BY <1>1, <1>2, <1>7, <1>8


\* What a check does beyond that: it may read the keychain.
Rechecks(w, v) ==
    /\ Keeps(w, v)
    /\ Hopeful(w) => Hopeful(v)
    /\ v.cred.token = w.cred.token
    /\ Ahead(v) = Ahead(w)
    /\ AccountGuard \in v.q.guards => AccountGuard \in w.q.guards

LEMMA RechecksTrans ==
    ASSUME NEW w, NEW v, NEW u, Rechecks(w, v), Rechecks(v, u)
    PROVE  Rechecks(w, u)
BY KeepsTrans DEF Rechecks

LEMMA SparesRechecks ==
    ASSUME NEW w, NEW v, Spares(w, v)
    PROVE  Rechecks(w, v)
BY SparesHopeful DEF Spares, Rechecks, Ahead

LEMMA RechecksPromise ==
    ASSUME NEW w, NEW v, Rechecks(w, v), Promising(w)
    PROVE  Promising(v)
BY DEF Rechecks, Keeps, Promising, Lifted

LEMMA FetchRechecks ==
    ASSUME NEW w \in GoodWorlds
    PROVE  Rechecks(w, FetchFromKeychain(w))
<1> DEFINE v == FetchFromKeychain(w)
<1>1. v.cred = [w.cred EXCEPT !.fetched = TRUE, !.keychain = "reading"]
    BY DEF FetchFromKeychain, GoodWorlds
<1>2. v.q = w.q
    BY DEF FetchFromKeychain, GoodWorlds
<1>3. /\ v.cred.token = w.cred.token /\ v.cred.ready = w.cred.ready
      /\ v.cred.refresh = w.cred.refresh /\ v.cred.timers = w.cred.timers
      /\ v.cred.keychain = "reading"
    BY <1>1 DEF GoodWorlds, Credentials
<1>4. Keeps(w, v)
    BY FetchKeeps
<1> QED BY <1>2, <1>3, <1>4 DEF Rechecks, Hopeful, Ahead

LEMMA CheckRechecks ==
    ASSUME NEW w \in GoodWorlds, NEW block \in BOOLEAN, NEW recent \in BOOLEAN
    PROVE  Rechecks(w, CheckConnectivity(w, block, recent))
<1> DEFINE v == IF w.acc.state = "Connected" THEN w ELSE SetState(w, "Connecting")
           d == DropValidator(v)
           u == IF v.cred.fetched THEN d ELSE FetchFromKeychain(d)
<1>0. Rechecks(w, w)
    BY DEF Keeps, Rechecks
<1>1. CASE w.acc.state = "SignedOut" \/ w.acc.waiting
    BY <1>0, <1>1 DEF CheckConnectivity
<1>2. CASE ~(w.acc.state = "SignedOut" \/ w.acc.waiting)
    <2>1. Rechecks(w, v) /\ v \in GoodWorlds
        BY <1>0, <1>2, SetStateSpares, SparesRechecks DEF States, Rechecks, Keeps
    <2>2. CheckConnectivity(w, block, recent) \in {v, u, StartValidator(u, block)}
        BY <1>2 DEF CheckConnectivity
    <2> HIDE DEF v
    <2>3. Rechecks(w, d) /\ d \in GoodWorlds
        BY <2>1, DropValidatorSpares, SparesRechecks, RechecksTrans DEF Rechecks, Keeps
    <2> HIDE DEF d
    <2>4. Rechecks(w, u) /\ u \in GoodWorlds
        BY <2>3, FetchRechecks, RechecksTrans DEF Rechecks, Keeps
    <2> HIDE DEF u
    <2>5. Rechecks(w, StartValidator(u, block))
        BY <2>4, StartValidatorSpares, SparesRechecks, RechecksTrans
    <2> QED BY <2>1, <2>2, <2>4, <2>5
<1> QED BY <1>1, <1>2

\* A world in which nothing is lost, but somebody may wait in vain.
Calm(w) ==
    /\ w \in GoodWorlds
    /\ w.cred.refresh # "lost"
    /\ w.cred.ready => w.cred.token

\* A refresh keeps every promise, unless there is no token for it.
LEMMA RefreshPromises ==
    ASSUME NEW w, Calm(w), NEW n \in 0 .. TokenRefreshMaxRetries - 1,
           (w.acc.waiting /\ w.acc.state # "SignedOut" /\ ~w.cred.token)
              => (w.cred.keychain = "reading" \/ w.cred.dialog)
    PROVE  Promising(Refresh(w, n))
<1> DEFINE v == Refresh(w, n)
<1>1. v \in GoodWorlds
    BY RefreshKeeps DEF Keeps, Calm
<1>2. /\ v.acc = w.acc
      /\ v.cred.token = w.cred.token /\ v.cred.ready = w.cred.ready
      /\ v.cred.keychain = w.cred.keychain /\ v.cred.dialog = w.cred.dialog
      /\ v.cred.refresh \in {w.cred.refresh, "restore"}
    BY DEF Refresh, Calm, GoodWorlds, Credentials
<1>3. w.cred.token => Ahead(v)
    BY DEF Refresh, Calm, GoodWorlds, Credentials, Ahead
<1>4. w.cred.token \in BOOLEAN
    BY DEF Calm, GoodWorlds, Credentials
<1> QED BY <1>1, <1>2, <1>3, <1>4 DEF Promising, Hopeful, Lifted, Calm

LEMMA SlotAuthenticationPromises ==
    ASSUME NEW w, Promising(w)
    PROVE  Promising(SlotAuthentication(w))
BY RefreshPromises, FirstTry DEF SlotAuthentication, Calm, Promising, Hopeful

LEMMA FetchedPromises ==
    ASSUME NEW w, Calm(w), NEW recent \in BOOLEAN
    PROVE  Promising(Fetched(w, recent))
<1> DEFINE x == [w EXCEPT !.acc.waiting = FALSE]
           v == CheckConnectivity(x, FALSE, recent)
           u == [v EXCEPT !.q = GuardUnblock(@, AccountGuard)]
<1>1. x \in GoodWorlds /\ Hopeful(x)
    BY DEF Calm, GoodWorlds, Accounts, Hopeful
<1> HIDE DEF x
<1>2. v \in GoodWorlds /\ Hopeful(v)
    BY <1>1, CheckRechecks DEF Rechecks, Keeps
<1>3. Fetched(w, recent) = u
    BY DEF Fetched, x
<1>4. u \in GoodWorlds
    BY <1>3, FetchedKeeps DEF Keeps, Calm
<1> HIDE DEF v
<1>5. u.acc = v.acc /\ u.cred = v.cred /\ u.q = GuardUnblock(v.q, AccountGuard)
    BY <1>2 DEF GoodWorlds
<1>6. AccountGuard \notin u.q.guards
    BY <1>2, <1>5, AccountGuardLifted DEF GoodWorlds
<1> HIDE DEF u
<1> QED BY <1>2, <1>3, <1>4, <1>5, <1>6 DEF Promising, Hopeful, Lifted, Ahead

LEMMA LogOutPromises ==
    ASSUME NEW w \in GoodWorlds, w.cred.refresh # "lost", NEW recent \in BOOLEAN
    PROVE  Promising(LogOut(w, recent))
<1> DEFINE v == ForgetSensitiveData(w)
           u == [v EXCEPT !.q = GuardClear(@, AccountGuard)]
<1>1. Calm(v)
    <2>1. v \in GoodWorlds
        BY ForgetKeeps DEF Keeps
    <2>2. /\ ~v.cred.ready
          /\ v.cred.refresh = w.cred.refresh /\ v.cred.keychain = w.cred.keychain
        BY DEF ForgetSensitiveData, GoodWorlds, Credentials
    <2> QED BY <2>1, <2>2 DEF Calm
<1>2. LogOut(w, recent) = Fetched(u, recent)
    BY DEF LogOut
<1> HIDE DEF v
<1>3. GuardClear(v.q, AccountGuard) \in GoodQueues
    BY <1>1, GuardClearGood, ConnectionAssumption DEF Calm, GoodWorlds
<1>4. Calm(u)
    BY <1>1, <1>3 DEF Calm, GoodWorlds
<1> HIDE DEF u
<1> QED BY <1>2, <1>4, FetchedPromises

LEMMA EndRefreshCalms ==
    ASSUME NEW w \in GoodWorlds, Hopeful(w)
    PROVE  /\ Calm(EndRefresh(w))
           /\ EndRefresh(w).acc = w.acc /\ EndRefresh(w).q = w.q
           /\ EndRefresh(w).cred.token = w.cred.token
           /\ EndRefresh(w).cred.keychain = w.cred.keychain
           /\ EndRefresh(w).cred.dialog = w.cred.dialog
<1>1. EndRefresh(w) \in GoodWorlds
    BY EndRefreshKeeps DEF Keeps
<1>2. EndRefresh(w).cred = [w.cred EXCEPT !.refresh = "none", !.tries = 0]
    BY DEF EndRefresh, GoodWorlds, Credentials
<1>3. EndRefresh(w).acc = w.acc /\ EndRefresh(w).q = w.q
    BY DEF EndRefresh, GoodWorlds
<1>4. w.cred \in Credentials
    BY DEF GoodWorlds
<1> QED BY <1>1, <1>2, <1>3, <1>4 DEF Calm, Hopeful, Credentials

LEMMA RefreshErrorPromises ==
    ASSUME NEW w, Promising(w), NEW soft \in BOOLEAN, NEW recent \in BOOLEAN
    PROVE  Promising(RefreshError(w, soft, recent))
<1> DEFINE again == soft \/ w.net.offline
           next  == IF again THEN 0 ELSE w.cred.tries + 1
           e     == EndRefresh(w)
           v     == [e EXCEPT !.cred.good = FALSE]
           t     == [v EXCEPT !.cred.timers = @ \union {next}]
<1>1. next \in Nat
    BY DEF Promising, GoodWorlds, Credentials
<1>2. RefreshError(w, soft, recent) =
        IF next >= TokenRefreshMaxRetries THEN LogOut(v, recent) ELSE t
    BY DEF RefreshError
<1>3. /\ Calm(e) /\ e.acc = w.acc /\ e.cred.token = w.cred.token
      /\ e.cred.keychain = w.cred.keychain /\ e.cred.dialog = w.cred.dialog
    BY EndRefreshCalms DEF Promising
<1> HIDE DEF next, e
<1>4. /\ Calm(v) /\ v.acc = w.acc /\ v.cred.token = w.cred.token
      /\ v.cred.keychain = w.cred.keychain /\ v.cred.dialog = w.cred.dialog
    BY <1>3 DEF Calm, GoodWorlds, Credentials
<1> HIDE DEF v
<1>5. CASE next >= TokenRefreshMaxRetries
    BY <1>2, <1>4, <1>5, LogOutPromises DEF Calm
<1>6. CASE ~(next >= TokenRefreshMaxRetries)
    <2>1. next \in 0 .. TokenRefreshMaxRetries - 1
        BY <1>1, <1>6, ConnectionAssumption
    <2>2. /\ Calm(t) /\ t.acc = w.acc /\ t.cred.token = w.cred.token
          /\ t.cred.keychain = w.cred.keychain /\ t.cred.dialog = w.cred.dialog
          /\ Ahead(t)
        BY <1>4, <2>1 DEF Calm, GoodWorlds, Credentials, Ahead
    <2> HIDE DEF t
    <2>3. Promising(t)
        BY <2>2 DEF Calm, Promising, Hopeful, Lifted
    <2> QED BY <1>2, <1>6, <2>3
<1> QED BY <1>5, <1>6

LEMMA InvalidCredentialsPromise ==
    ASSUME NEW w, Promising(w), w.acc.state # "SignedOut"
    PROVE  Promising(InvalidCredentials(w))
<1> DEFINE v == [w EXCEPT !.acc.waiting = TRUE]
           u == IF v.cred.ready THEN InvalidateToken(v) ELSE v
           d == [u EXCEPT !.cred.dialog = TRUE]
<1>1. /\ v \in GoodWorlds /\ v.cred = w.cred /\ v.q = w.q
      /\ v.acc.state # "SignedOut"
    BY DEF Promising, GoodWorlds, Accounts
<1>2. \/ InvalidCredentials(w) = w
      \/ u.cred.token /\ InvalidCredentials(w) = Refresh(u, 0)
      \/ ~u.cred.token /\ InvalidCredentials(w) = SetState(d, "Connecting")
    BY DEF InvalidCredentials
<1>3. v.cred.refresh # "lost" /\ (v.cred.ready => v.cred.token)
    BY <1>1 DEF Promising, Hopeful
<1> HIDE DEF v
<1>4. Calm(u) /\ u.acc = v.acc
    <2>1. CASE v.cred.ready
        <3>1. u = InvalidateToken(v) /\ u \in GoodWorlds
            BY <1>1, <2>1, InvalidateKeeps DEF Keeps
        <3>2. /\ u.acc = v.acc /\ ~u.cred.ready
              /\ u.cred.refresh = v.cred.refresh /\ u.cred.keychain = v.cred.keychain
            BY <1>1, <3>1 DEF InvalidateToken, GoodWorlds, Credentials
        <3> QED BY <1>3, <3>1, <3>2 DEF Calm
    <2>2. CASE ~v.cred.ready
        BY <1>1, <1>3, <2>2 DEF Calm
    <2> QED BY <2>1, <2>2
<1> HIDE DEF u
<1>5. u.cred.token => Promising(Refresh(u, 0))
    BY <1>4, RefreshPromises, FirstTry
<1>6. Calm(d) /\ d.cred.dialog /\ d.cred.token = u.cred.token /\ d.acc = u.acc
    BY <1>4 DEF Calm, GoodWorlds, Credentials
<1> HIDE DEF d
<1>7. ~u.cred.token => Promising(d)
    BY <1>6 DEF Calm, Promising, Hopeful, Lifted
<1>8. Spares(d, SetState(d, "Connecting"))
    BY <1>1, <1>4, <1>6, SetStateSpares DEF States, Calm
<1> QED BY <1>2, <1>5, <1>7, <1>8, SparesPromise

LEMMA ConnectionResultPromises ==
    ASSUME NEW w, Promising(w),
           NEW status \in {"Connected", "Unreachable", "InvalidCredentials", "SslError"}
    PROVE  Promising(ConnectionResult(w, status))
<1> DEFINE v == DropValidator(w)
<1>1. Promising(v) /\ v \in GoodWorlds
    BY DropValidatorSpares, SparesPromise DEF Promising
<1>2. ConnectionResult(w, status) =
        IF v.acc.state = "SignedOut" THEN v
        ELSE CASE status = "Connected" /\ v.acc.caps -> SetState(v, "Connected")
               [] status = "Connected" /\ ~v.acc.caps -> CheckConnectivity(v, FALSE, FALSE)
               [] status = "Unreachable" -> SetState(v, "Disconnected")
               [] status = "InvalidCredentials" -> InvalidCredentials(v)
               [] status = "SslError" -> IF v.net.portal THEN SetState(v, "Connecting") ELSE v
    BY DEF ConnectionResult
<1> HIDE DEF v
<1>3. CASE v.acc.state = "SignedOut"
    BY <1>1, <1>2, <1>3
<1>4. CASE v.acc.state # "SignedOut"
    <2>1. \A s \in States : Promising(SetState(v, s))
        BY <1>1, <1>4, SetStateSpares, SparesPromise
    <2>2. Promising(CheckConnectivity(v, FALSE, FALSE))
        BY <1>1, CheckRechecks, RechecksPromise
    <2>3. Promising(InvalidCredentials(v))
        BY <1>1, <1>4, InvalidCredentialsPromise
    <2>4. v.acc.caps \in BOOLEAN
        BY <1>1 DEF GoodWorlds, Accounts
    <2>5. {"Connected", "Disconnected", "Connecting"} \subseteq States
        BY DEF States
    <2>6. CASE status = "Connected"
        BY <1>2, <1>4, <2>1, <2>2, <2>4, <2>5, <2>6
    <2>7. CASE status = "Unreachable"
        BY <1>2, <1>4, <2>1, <2>5, <2>7
    <2>8. CASE status = "InvalidCredentials"
        BY <1>2, <1>4, <2>3, <2>8
    <2>9. CASE status = "SslError"
        BY <1>1, <1>2, <1>4, <2>1, <2>5, <2>9
    <2> QED BY <2>6, <2>7, <2>8, <2>9
<1> QED BY <1>3, <1>4

----------------------------------------------------------------------------
(* The actions keep the promise. *)
LEMMA BecomeWorld ==
    ASSUME NEW w \in GoodWorlds, Become(w)
    PROVE  World' = w
BY DEF Become, World, GoodWorlds

LEMMA BecomePromises ==
    ASSUME NEW w, Promising(w), Become(w)
    PROVE  Promising(World')
BY BecomeWorld DEF Promising

LEMMA PostedPromises ==
    ASSUME Promising(World), Poll \/ RunPosted
    PROVE  Promising(World')
<1>1. CASE Poll
    BY <1>1, CheckRechecks, RechecksPromise, BecomePromises DEF Poll, Promising
<1>2. CASE RunPosted
    <2> DEFINE w == [World EXCEPT !.posted = Tail(@)]
    <2>1. Promising(w) /\ w \in GoodWorlds
        <3>1. Tail(posted) \in Seq(Calls) /\ World \in GoodWorlds
            BY <1>2, WorldParts DEF RunPosted, Promising
        <3>2. w \in GoodWorlds /\ w.acc = World.acc /\ w.cred = World.cred /\ w.q = World.q
            BY <3>1, WorldParts DEF GoodWorlds
        <3> HIDE DEF w
        <3> QED BY <3>2 DEF Promising, Hopeful, Lifted, Ahead
    <2>2. PICK v : Rechecks(w, v) /\ Become(v)
        <3> HIDE DEF w
        <3> QED BY <1>2, <2>1, CheckRechecks, ConnectedCallSpares, SparesRechecks
                DEF RunPosted, w
    <2> HIDE DEF w
    <2> QED BY <2>1, <2>2, RechecksPromise, BecomePromises
<1> QED BY <1>1, <1>2

LEMMA ValidatorPromises ==
    ASSUME Promising(World), ValidatorAnswers
    PROVE  Promising(World')
<1>1. CASE StatusFound
    <2> DEFINE w == [World EXCEPT !.acc.validator = "user"]
    <2>1. Promising(w)
        <3>1. World \in GoodWorlds
            BY DEF Promising
        <3>2. /\ w.acc.state = World.acc.state /\ w.acc.waiting = World.acc.waiting
              /\ w.cred = World.cred /\ w.q = World.q
              /\ w \in GoodWorlds
            BY <3>1 DEF GoodWorlds, Accounts
        <3> HIDE DEF w
        <3> QED BY <3>2 DEF Promising, Hopeful, Lifted, Ahead
    <2> HIDE DEF w
    <2> QED BY <1>1, <2>1, ConnectionResultPromises, BecomePromises DEF StatusFound, w
<1>2. CASE StatusFailed
    <2> DEFINE w == SlotAuthentication(World)
    <2>1. Promising(ConnectionResult(w, "Unreachable"))
        BY SlotAuthenticationPromises, ConnectionResultPromises
    <2> HIDE DEF w
    <2> QED BY <1>2, <2>1, ConnectionResultPromises, BecomePromises DEF StatusFailed, w
<1>3. CASE UserFound
    BY <1>3, ConnectionResultPromises, BecomePromises DEF UserFound
<1>4. CASE UserFailed
    <2> DEFINE w == SlotAuthentication(World)
    <2>1. Promising(ConnectionResult(w, "InvalidCredentials"))
        BY SlotAuthenticationPromises, ConnectionResultPromises
    <2> HIDE DEF w
    <2> QED BY <1>4, <2>1, ConnectionResultPromises, BecomePromises DEF UserFailed, w
<1> QED BY <1>1, <1>2, <1>3, <1>4 DEF ValidatorAnswers

LEMMA TlsPromises ==
    ASSUME Promising(World), SslErrors \/ TlsAccepted \/ TlsRejected
    PROVE  Promising(World')
<1>1. ASSUME NEW t \in {"none", "plain", "blocking"}
      PROVE  LET x == [World EXCEPT !.acc.tls = t]
             IN  Spares(World, x) /\ Promising(x) /\ x \in GoodWorlds
    <2> DEFINE x == [World EXCEPT !.acc.tls = t]
    <2>1. World \in GoodWorlds
        BY DEF Promising
    <2>2. /\ x.acc.waiting = World.acc.waiting /\ x.cred = World.cred
          /\ x.q = World.q /\ Keeps(World, x)
        BY <2>1 DEF GoodWorlds, Accounts, Keeps
    <2> HIDE DEF x
    <2>3. Spares(World, x)
        BY <2>2 DEF Spares
    <2>4. Promising(x) /\ x \in GoodWorlds
        BY <2>3, SparesPromise DEF Promising
    <2> QED BY <2>3, <2>4 DEF x
<1>2. CASE SslErrors
    BY <1>1, <1>2, BecomePromises DEF SslErrors
<1> DEFINE x == [World EXCEPT !.acc.tls = "none"]
<1>3. Promising(x) /\ x \in GoodWorlds /\ Keeps(World, x)
    BY <1>1 DEF Spares
<1>4. CASE TlsAccepted
    <2> DEFINE w == DropValidator(x)
    <2>1. Become(CheckConnectivity(w, acc.tls = "blocking", FALSE))
        BY <1>4 DEF TlsAccepted
    <2> HIDE DEF x
    <2>2. Promising(w) /\ w \in GoodWorlds
        BY <1>3, DropValidatorSpares, SparesPromise DEF Promising
    <2> HIDE DEF w
    <2>3. Promising(CheckConnectivity(w, acc.tls = "blocking", FALSE))
        BY <2>2, CheckRechecks, RechecksPromise
    <2> QED BY <2>1, <2>3, BecomePromises
<1>5. CASE TlsRejected
    <2> HIDE DEF x
    <2>1. Promising(SetState(x, "SignedOut"))
        BY <1>3, SetStateSpares, SparesPromise DEF States
    <2> QED BY <1>5, <2>1, BecomePromises DEF TlsRejected, x
<1> QED BY <1>2, <1>4, <1>5

\* The world with other credentials.
LEMMA CredentialsCalm ==
    ASSUME World \in GoodWorlds, NEW c \in Credentials
    PROVE  LET w == [World EXCEPT !.cred = c]
           IN  w \in GoodWorlds /\ w.cred = c /\ w.acc = World.acc /\ w.q = World.q
BY DEF GoodWorlds

LEMMA KeychainPromises ==
    ASSUME Promising(World), KeychainFound \/ KeychainEmpty
    PROVE  Promising(World')
<1>0. /\ World \in GoodWorlds /\ cred \in Credentials /\ World.cred = cred
      /\ cred.refresh # "lost" /\ (cred.ready => cred.token)
    BY WorldParts DEF Promising, Hopeful
<1>1. CASE KeychainFound
    <2> DEFINE c == [cred EXCEPT !.keychain = "none", !.token = TRUE]
               w == [World EXCEPT !.cred = c]
    <2>1. c \in Credentials /\ c.refresh # "lost" /\ c.token
        BY <1>0 DEF Credentials
    <2>2. Become(Refresh(w, 0))
        <3>1. [World EXCEPT !.cred.keychain = "none", !.cred.token = TRUE] = w
            BY DEF World
        <3> QED BY <1>1, <3>1 DEF KeychainFound
    <2> HIDE DEF c
    <2>3. Calm(w) /\ w.cred.token
        BY <1>0, <2>1, CredentialsCalm DEF Calm
    <2> HIDE DEF w
    <2> QED BY <2>2, <2>3, RefreshPromises, FirstTry, BecomePromises
<1>2. CASE KeychainEmpty
    <2> DEFINE c == [cred EXCEPT !.keychain = "none", !.ready = FALSE]
               w == [World EXCEPT !.cred = c]
    <2>1. c \in Credentials /\ c.refresh # "lost" /\ ~c.ready
        BY <1>0 DEF Credentials
    <2>2. PICK recent \in BOOLEAN : Become(Fetched(w, recent))
        <3>1. [World EXCEPT !.cred.keychain = "none", !.cred.ready = FALSE] = w
            BY DEF World
        <3> QED BY <1>2, <3>1 DEF KeychainEmpty, NothingFetched
    <2> HIDE DEF c
    <2>3. Calm(w)
        BY <1>0, <2>1, CredentialsCalm DEF Calm
    <2> HIDE DEF w
    <2> QED BY <2>2, <2>3, FetchedPromises, BecomePromises
<1> QED BY <1>1, <1>2

LEMMA RefreshAnswersPromise ==
    ASSUME Promising(World), RefreshAnswers, ~RefreshLost
    PROVE  Promising(World')
<1> DEFINE e == EndRefresh(World)
<1>0. World \in GoodWorlds /\ Hopeful(World)
    BY DEF Promising
<1>1. Calm(e)
    BY <1>0, EndRefreshCalms
<1>2. CASE RefreshRestored
    <2> DEFINE c == [cred EXCEPT !.refresh = "asking"]
               w == [World EXCEPT !.cred = c]
    <2>1. cred \in Credentials /\ World.cred = cred
        BY <1>0, WorldParts
    <2>2. /\ c \in Credentials /\ c.refresh = "asking" /\ c.keychain = cred.keychain
          /\ c.ready = cred.ready /\ c.token = cred.token /\ c.dialog = cred.dialog
        BY <2>1 DEF Credentials
    <2>3. Become(w)
        <3>1. [World EXCEPT !.cred.refresh = "asking"] = w
            BY DEF World
        <3> QED BY <1>2, <3>1 DEF RefreshRestored
    <2>4. Ahead(World)
        BY <1>2, <2>1 DEF RefreshRestored, Ahead
    <2> HIDE DEF c
    <2>5. w \in GoodWorlds /\ w.cred = c /\ w.acc = World.acc /\ w.q = World.q
        BY <1>0, <2>2, CredentialsCalm
    <2> HIDE DEF w
    <2>6. Promising(w)
        BY <2>1, <2>2, <2>4, <2>5 DEF Promising, Hopeful, Lifted, Ahead
    <2> QED BY <2>3, <2>6, BecomePromises
<1>3. CASE RefreshGranted
    <2> DEFINE w == [e EXCEPT !.cred.token = TRUE, !.cred.ready = TRUE,
                              !.cred.stored = TRUE, !.cred.good = TRUE]
    <2>1. PICK recent \in BOOLEAN : Become(Fetched(w, recent))
        BY <1>3 DEF RefreshGranted
    <2> HIDE DEF e
    <2>2. Calm(w)
        BY <1>1 DEF Calm, GoodWorlds, Credentials
    <2> HIDE DEF w
    <2> QED BY <2>1, <2>2, FetchedPromises, BecomePromises
<1>4. CASE RefreshGarbled
    <2> DEFINE w == [e EXCEPT !.cred.token = TRUE]
    <2>1. PICK recent \in BOOLEAN : Become(Fetched(w, recent))
        BY <1>4 DEF RefreshGarbled
    <2> HIDE DEF e
    <2>2. Calm(w)
        BY <1>1 DEF Calm, GoodWorlds, Credentials
    <2> HIDE DEF w
    <2> QED BY <2>1, <2>2, FetchedPromises, BecomePromises
<1>5. CASE RefreshRefused
    <2>1. PICK recent \in BOOLEAN : Become(LogOut(e, recent))
        BY <1>5 DEF RefreshRefused
    <2> HIDE DEF e
    <2> QED BY <1>1, <2>1, LogOutPromises, BecomePromises DEF Calm
<1>6. CASE RefreshFailed
    BY <1>6, RefreshErrorPromises, BecomePromises DEF RefreshFailed
<1> QED BY <1>2, <1>3, <1>4, <1>5, <1>6 DEF RefreshAnswers

LEMMA RetryTimerPromises ==
    ASSUME Promising(World), NEW n \in 0 .. TokenRefreshMaxRetries - 1, RetryTimer(n)
    PROVE  Promising(World')
<1> DEFINE w == [World EXCEPT !.cred.timers = @ \ {n}]
<1>1. /\ w \in GoodWorlds /\ w.acc = World.acc
      /\ w.cred = [World.cred EXCEPT !.timers = @ \ {n}]
    BY DEF Promising, GoodWorlds, Credentials
<1>2. Become(Refresh(w, n))
    BY DEF RetryTimer
<1> HIDE DEF w
<1>3. /\ w.cred.refresh = World.cred.refresh /\ w.cred.keychain = World.cred.keychain
      /\ w.cred.ready = World.cred.ready /\ w.cred.token = World.cred.token
      /\ w.cred.dialog = World.cred.dialog
    BY <1>1 DEF Promising, GoodWorlds, Credentials
<1>4. Promising(Refresh(w, n))
    BY <1>1, <1>3, RefreshPromises DEF Calm, Promising, Hopeful
<1> QED BY <1>2, <1>4, BecomePromises

LEMMA JobPromises ==
    ASSUME Promising(World), NEW j \in Jobs, SendJob(j) \/ JobAnswers(j)
    PROVE  Promising(World')
<1>0. World \in GoodWorlds /\ World.q \in GoodQueues
    BY DEF Promising, GoodWorlds
<1>1. CASE SendJob(j)
    <2> DEFINE w == [World EXCEPT !.q = Sent(@, j)]
    <2>1. Spares(World, w)
        BY <1>0, QueueSpares, SentGood, JobsApart
    <2> HIDE DEF w
    <2> QED BY <1>1, <2>1, SparesPromise, BecomePromises DEF SendJob, w
<1>2. CASE JobAnswered(j)
    BY <1>0, <1>2, JobDoneSpares, SparesPromise, BecomePromises DEF JobAnswered
<1>3. CASE JobUnauthorized(j)
    <2> DEFINE w == SlotAuthentication(World)
    <2>1. Promising(w)
        BY SlotAuthenticationPromises
    <2>2. Become(RetryOrFail(w, j))
        BY <1>3 DEF JobUnauthorized
    <2> HIDE DEF w
    <2> QED BY <2>1, <2>2, RetryOrFailSpares, SparesPromise, BecomePromises DEF Promising
<1>4. CASE JobRedirected(j)
    <2> DEFINE w == CheckConnectivity(World, TRUE, FALSE)
    <2>1. Promising(w)
        BY <1>0, CheckRechecks, RechecksPromise
    <2>2. Become(RetryOrFail(w, j))
        BY <1>4 DEF JobRedirected
    <2> HIDE DEF w
    <2> QED BY <2>1, <2>2, RetryOrFailSpares, SparesPromise, BecomePromises DEF Promising
<1> QED BY <1>1, <1>2, <1>3, <1>4 DEF JobAnswers

\* An account that is signed out waits for nothing.
LEMMA SignedOutPromises ==
    ASSUME NEW w, Calm(w), Lifted(w)
    PROVE  Promising(SetState(w, "SignedOut"))
<1> DEFINE v == SetState(w, "SignedOut")
<1>1. Spares(w, v)
    BY SetStateSpares DEF States, Calm
<1>2. v.acc.state = "SignedOut"
    BY DEF SetState, IsConnectedChanged, Calm, GoodWorlds, Accounts
<1> HIDE DEF v
<1>3. Promising(v)
    BY <1>1, <1>2 DEF Spares, Keeps, Promising, Hopeful, Lifted, Ahead, Calm
<1> QED BY <1>3 DEF v

LEMMA UserPromises ==
    ASSUME Promising(World), SignOutByUi \/ LoggedIn \/ LogOutRequested
    PROVE  Promising(World')
<1>0. World \in GoodWorlds /\ Hopeful(World) /\ Lifted(World)
    BY DEF Promising
<1>1. CASE SignOutByUi
    <2> DEFINE w == [World EXCEPT !.acc.forgotten = TRUE]
               f == ForgetSensitiveData(w)
    <2>1. Become(SetState(f, "SignedOut"))
        BY <1>1 DEF SignOutByUi
    <2>2. w \in GoodWorlds /\ w.cred = World.cred
        BY <1>0 DEF GoodWorlds, Accounts
    <2> HIDE DEF w
    <2>3. f \in GoodWorlds
        BY <2>2, ForgetKeeps DEF Keeps
    <2>4. /\ ~f.cred.ready /\ ~f.cred.token
          /\ f.cred.refresh = w.cred.refresh /\ f.cred.keychain = w.cred.keychain
        BY <2>2 DEF ForgetSensitiveData, GoodWorlds, Credentials
    <2> HIDE DEF f
    <2>5. Calm(f) /\ Lifted(f)
        BY <1>0, <2>2, <2>3, <2>4 DEF Calm, Lifted, Hopeful
    <2> QED BY <2>1, <2>5, SignedOutPromises, BecomePromises
<1>2. CASE LoggedIn
    <2> DEFINE w == [World EXCEPT !.cred.dialog = FALSE, !.cred.token = TRUE,
                                  !.cred.ready = TRUE, !.cred.stored = TRUE,
                                  !.cred.good = TRUE]
    <2>1. PICK recent \in BOOLEAN : Become(Fetched(w, recent))
        BY <1>2 DEF LoggedIn
    <2>2. Calm(w)
        BY <1>0 DEF Calm, Hopeful, GoodWorlds, Credentials
    <2> HIDE DEF w
    <2> QED BY <2>1, <2>2, FetchedPromises, BecomePromises
<1>3. CASE LogOutRequested
    <2> DEFINE w == [World EXCEPT !.cred.dialog = FALSE]
    <2>1. Become(SetState(w, "SignedOut"))
        BY <1>3 DEF LogOutRequested
    <2>2. /\ w \in GoodWorlds /\ w.q = World.q
          /\ w.cred = [World.cred EXCEPT !.dialog = FALSE]
        BY <1>0 DEF GoodWorlds, Credentials
    <2> HIDE DEF w
    <2>3. /\ w.cred.refresh = World.cred.refresh /\ w.cred.keychain = World.cred.keychain
          /\ w.cred.ready = World.cred.ready /\ w.cred.token = World.cred.token
          /\ w.cred.timers = World.cred.timers
        BY <1>0, <2>2 DEF GoodWorlds, Credentials
    <2>4. Calm(w) /\ Lifted(w)
        BY <1>0, <2>2, <2>3 DEF Calm, Hopeful, Lifted, Ahead
    <2> QED BY <2>1, <2>4, SignedOutPromises, BecomePromises
<1> QED BY <1>1, <1>2, <1>3

LEMMA SignInPromises ==
    ASSUME Promising(World), SignIn
    PROVE  Promising(World')
<1> DEFINE w == [World EXCEPT !.acc.state = "Disconnected", !.acc.waiting = FALSE,
                              !.acc.forgotten = FALSE]
<1>1. PICK recent \in BOOLEAN : Become(IsConnectedChanged(CheckConnectivity(w, FALSE, recent)))
    BY DEF SignIn
<1>2. /\ w \in GoodWorlds /\ w.cred = World.cred /\ w.q = World.q
      /\ w.acc.waiting = FALSE
    BY DEF Promising, GoodWorlds, Accounts, States
<1> HIDE DEF w
<1>3. Promising(w)
    BY <1>2 DEF Promising, Hopeful, Lifted, Ahead
<1>4. Promising(CheckConnectivity(w, FALSE, recent))
    BY <1>2, <1>3, CheckRechecks, RechecksPromise
<1>5. Promising(IsConnectedChanged(CheckConnectivity(w, FALSE, recent)))
    BY <1>4, EnqueuedSpares, SparesPromise DEF Promising
<1> QED BY <1>1, <1>5, BecomePromises

\* The network changes, and with it at most what the queue is blocked by.
LEMMA NetworkPromises ==
    ASSUME Promising(World), NEW w \in GoodWorlds,
           w.acc.state = World.acc.state, w.acc.waiting = World.acc.waiting,
           w.cred = World.cred,
           AccountGuard \in w.q.guards => AccountGuard \in World.q.guards
    PROVE  /\ Promising(w)
           /\ Promising(Post(DropValidator(w), "check"))
<1>1. Promising(w)
    BY DEF Promising, Hopeful, Lifted, Ahead
<1>2. Promising(DropValidator(w)) /\ DropValidator(w) \in GoodWorlds
    BY <1>1, DropValidatorSpares, SparesPromise DEF Promising
<1>3. Promising(Post(DropValidator(w), "check"))
    BY <1>2, PostSpares, SparesPromise DEF Calls
<1> QED BY <1>1, <1>3

LEMMA ReachabilityPromises ==
    ASSUME Promising(World), Online \/ Offline
    PROVE  Promising(World')
<1>0. World \in GoodWorlds
    BY DEF Promising
<1>1. ASSUME NEW b \in BOOLEAN
      PROVE  LET w == [World EXCEPT !.net.offline = b]
             IN  /\ Promising(w) /\ w \in GoodWorlds /\ w.acc = World.acc
                 /\ Promising(Post(DropValidator(w), "check"))
    <2> DEFINE w == [World EXCEPT !.net.offline = b]
    <2>1. w \in GoodWorlds /\ w.acc = World.acc /\ w.cred = World.cred /\ w.q = World.q
        BY <1>0 DEF GoodWorlds, Networks
    <2> HIDE DEF w
    <2> QED BY <2>1, NetworkPromises DEF w
<1>2. CASE Online
    BY <1>1, <1>2, BecomePromises DEF Online
<1>3. CASE Offline
    <2> DEFINE w == [World EXCEPT !.net.offline = TRUE]
    <2>1. Become(IF acc.state = "SignedOut" THEN w ELSE SetState(w, "Disconnected"))
        BY <1>3 DEF Offline
    <2>2. Promising(w) /\ w \in GoodWorlds /\ w.acc = acc
        BY <1>0, <1>1, WorldParts
    <2> HIDE DEF w
    <2>3. acc.state # "SignedOut" => Promising(SetState(w, "Disconnected"))
        BY <2>2, SetStateSpares, SparesPromise DEF States
    <2> QED BY <2>1, <2>2, <2>3, BecomePromises
<1> QED BY <1>2, <1>3

LEMMA MeteredPromises ==
    ASSUME Promising(World), Metered \/ Unmetered
    PROVE  Promising(World')
<1>0. World \in GoodWorlds
    BY DEF Promising
<1>1. CASE Metered /\ acc.state = "Connected"
    <2> DEFINE w == [World EXCEPT !.net.metered = TRUE]
               v == [w EXCEPT !.acc.state = "Connecting", !.acc.enqueued = @ /\ FALSE]
    <2>1. Become(IsConnectedChanged(v))
        BY <1>0, <1>1, WorldParts DEF Metered, SetState
    <2>2. v \in GoodWorlds /\ v.cred = World.cred /\ v.q = World.q
        BY <1>0 DEF GoodWorlds, Accounts, Networks, States
    <2>3. v.acc.waiting = World.acc.waiting /\ World.acc.state # "SignedOut"
        BY <1>0, <1>1, WorldParts DEF GoodWorlds, Accounts
    <2> HIDE DEF v
    <2>4. Promising(v)
        BY <2>2, <2>3 DEF Promising, Hopeful, Lifted, Ahead
    <2> QED BY <2>1, <2>2, <2>4, EnqueuedSpares, SparesPromise, BecomePromises
<1>2. CASE Metered /\ acc.state # "Connected"
    <2> DEFINE w == [World EXCEPT !.net.metered = TRUE]
    <2>1. w \in GoodWorlds /\ w.acc = World.acc /\ w.cred = World.cred /\ w.q = World.q
        BY <1>0, <1>2, WorldParts DEF GoodWorlds, Networks
    <2>2. Become(w)
        BY <1>2 DEF Metered
    <2> HIDE DEF w
    <2> QED BY <2>1, <2>2, NetworkPromises, BecomePromises
<1>3. CASE Unmetered
    <2> DEFINE w == [World EXCEPT !.net.metered = FALSE]
    <2>1. /\ w \in GoodWorlds /\ w.acc = World.acc /\ w.cred = World.cred
          /\ w.q = World.q /\ World.acc = acc
        BY <1>0, WorldParts DEF GoodWorlds, Networks
    <2>2. Become(IF acc.state = "Connecting" THEN SetState(w, "Connected") ELSE w)
        BY <1>3 DEF Unmetered
    <2> HIDE DEF w
    <2>3. Promising(w)
        BY <2>1, NetworkPromises
    <2>4. acc.state = "Connecting" => Promising(SetState(w, "Connected"))
        BY <2>1, <2>3, SetStateSpares, SparesPromise DEF States
    <2> QED BY <2>2, <2>3, <2>4, BecomePromises
<1> QED BY <1>1, <1>2, <1>3

LEMMA PortalPromises ==
    ASSUME Promising(World), BehindPortal \/ PortalLeft
    PROVE  Promising(World')
<1>0. World \in GoodWorlds /\ World.q \in GoodQueues /\ StateGuard \in Guards
    BY ConnectionAssumption DEF Promising, GoodWorlds
<1>1. ASSUME NEW b \in BOOLEAN, NEW k \in GoodQueues,
             AccountGuard \in k.guards => AccountGuard \in World.q.guards,
             Become(Post(DropValidator([World EXCEPT !.net.portal = b, !.q = k]), "check"))
      PROVE  Promising(World')
    <2> DEFINE w == [World EXCEPT !.net.portal = b, !.q = k]
    <2>1. w \in GoodWorlds /\ w.acc = World.acc /\ w.cred = World.cred /\ w.q = k
        BY <1>0 DEF GoodWorlds, Networks
    <2>2. Become(Post(DropValidator(w), "check"))
        BY <1>1
    <2> HIDE DEF w
    <2> QED BY <1>1, <2>1, <2>2, NetworkPromises, BecomePromises
<1>2. CASE BehindPortal
    <2> DEFINE k == GuardBlock(World.q, StateGuard)
    <2>1. k \in GoodQueues /\ (AccountGuard \in k.guards => AccountGuard \in World.q.guards)
        BY <1>0, GuardBlockGood, StateGuardApart
    <2>2. Become(Post(DropValidator([World EXCEPT !.net.portal = TRUE, !.q = k]), "check"))
        BY <1>2 DEF BehindPortal
    <2> HIDE DEF k
    <2> QED BY <1>1, <2>1, <2>2
<1>3. CASE PortalLeft
    <2> DEFINE c == Cleared(World.q)
               k == GuardUnblock(c, StateGuard)
    <2>1. c \in GoodQueues /\ c.guards = World.q.guards
        <3>1. World.q \in Queues /\ c.guards = World.q.guards
            BY <1>0 DEF GoodQueues, Queues, Cleared
        <3>2. c \in GoodQueues
            BY <3>1, ClearedGood
        <3> QED BY <3>1, <3>2
    <2>2. k \in GoodQueues /\ (AccountGuard \in k.guards => AccountGuard \in World.q.guards)
        BY <1>0, <2>1, GuardUnblockGood, StateGuardApart
    <2>3. Become(Post(DropValidator([World EXCEPT !.net.portal = FALSE, !.q = k]), "check"))
        BY <1>3 DEF PortalLeft
    <2> HIDE DEF k
    <2> QED BY <1>1, <2>2, <2>3
<1> QED BY <1>2, <1>3

LEMMA HealPromises ==
    ASSUME Promising(World), Heal
    PROVE  Promising(World')
<1> DEFINE w == [World EXCEPT !.net.sound = TRUE]
<1>1. w \in GoodWorlds /\ w.acc = World.acc /\ w.cred = World.cred /\ w.q = World.q
    BY DEF Promising, GoodWorlds, Networks
<1>2. Become(w)
    BY DEF Heal
<1> HIDE DEF w
<1> QED BY <1>1, <1>2, NetworkPromises, BecomePromises

----------------------------------------------------------------------------
\* The keychain fails in two of the actions only.
LEMMA StepPromises ==
    ASSUME Promising(World), Next, "keychain" \notin net.events
    PROVE  Promising(World')
<1>1. ~KeychainFailed /\ ~RefreshLost
    BY DEF KeychainFailed, RefreshLost, May
<1> QED BY <1>1, PostedPromises, ValidatorPromises, TlsPromises, KeychainPromises,
       RefreshAnswersPromise, RetryTimerPromises, JobPromises, UserPromises,
       SignInPromises, ReachabilityPromises, MeteredPromises, PortalPromises, HealPromises
    DEF Next, KeychainAnswers

\* The inductive invariant: without a failing keychain, the promise holds.
Promised ==
    /\ World \in GoodWorlds
    /\ "keychain" \notin net.events => Promising(World)

LEMMA InitPromised ==
    ASSUME Init
    PROVE  Promised
<1>1. World \in GoodWorlds
    BY InitGood
<1>2. q.guards \subseteq {StateGuard}
    BY DEF Init, EmptyQueue, GuardBlock
<1>3. AccountGuard \notin q.guards
    BY <1>2, ConnectionAssumption
<1>4. ~acc.waiting /\ cred.refresh = "none" /\ cred.keychain = "none" /\ ~cred.ready
    BY DEF Init
<1> QED BY <1>1, <1>3, <1>4, WorldParts DEF Promised, Promising, Hopeful, Lifted

LEMMA EventsStay ==
    ASSUME World \in GoodWorlds, Next
    PROVE  World' \in GoodWorlds /\ net'.events = net.events
<1>1. CASE SignIn
    BY <1>1, SignInGood DEF World
<1>2. CASE ~SignIn
    BY <1>2, StepLeads DEF Leads, World
<1> QED BY <1>1, <1>2

LEMMA AlwaysPromised == Spec => []Promised
<1>1. Promised /\ [Next]_vars => Promised'
    <2> SUFFICES ASSUME Promised, [Next]_vars
                 PROVE  Promised'
        OBVIOUS
    <2>1. CASE Next
        BY <2>1, EventsStay, StepPromises DEF Promised
    <2>2. CASE UNCHANGED vars
        BY <2>2 DEF vars, World, Promised
    <2> QED BY <2>1, <2>2
<1> QED BY <1>1, InitPromised, PTL DEF Spec

(* Unless the keychain fails, whoever waits for new credentials gets an    *)
(* answer and the block of a refresh is lifted, for every jobs, number of  *)
(* retries and scenario: a refresh that ends without a result, a timer     *)
(* that fires for a token which is gone and a sign-out in between leave    *)
(* nobody waiting.                                                         *)
THEOREM NobodyWaitsInVain == Spec => []WaitingEnds
<1>1. Promised => WaitingEnds
    <2> SUFFICES ASSUME Promised, "keychain" \notin net.events
                 PROVE  /\ acc.waiting /\ acc.state # "SignedOut" =>
                              RefreshAhead \/ cred.keychain = "reading" \/ cred.dialog
                        /\ AccountGuard \in q.guards =>
                              RefreshAhead \/ (~cred.token /\ ~cred.ready)
        BY DEF WaitingEnds
    <2>1. Hopeful(World) /\ Lifted(World)
        BY DEF Promised, Promising
    <2>2. Ahead(World) = RefreshAhead
        BY WorldParts DEF Promised, Ahead, RefreshAhead
    <2>3. World.acc = acc /\ World.cred = cred /\ World.q = q
        BY WorldParts DEF Promised
    <2> QED BY <2>1, <2>2, <2>3 DEF Hopeful, Lifted
<1> QED BY <1>1, AlwaysPromised, PTL
=============================================================================
