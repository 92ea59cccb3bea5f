-------------------------- MODULE PropagatorProofs --------------------------
(***************************************************************************)
(* Theorems about Propagator, for every tree and every value of the        *)
(* limits.                                                                 *)
(***************************************************************************)
EXTENDS Propagator, SequenceTheorems, TLAPS

USE DEF NotYetStarted

LEMMA RemoveAtType ==
    ASSUME NEW S, NEW list \in Seq(S), NEW i \in 1..Len(list)
    PROVE  RemoveAt(list, i) \in Seq(S)
<1>1. SubSeq(list, 1, i-1) \in Seq(S)
  BY SubSeqProperties
<1>2. SubSeq(list, i+1, Len(list)) \in Seq(S)
  BY SubSeqProperties
<1>. QED
  BY <1>1, <1>2, ConcatProperties DEF RemoveAt

LEMMA WithoutType ==
    ASSUME NEW S, NEW list \in Seq(S), NEW n
    PROVE  Without(list, n) \in Seq(S)
<1>1. CASE Contains(list, n)
  <2>1. PICK j \in 1..Len(list) : list[j] = n
    BY <1>1 DEF Contains
  <2>2. (CHOOSE i \in DOMAIN list : list[i] = n) \in 1..Len(list)
    BY <2>1
  <2>. QED
    BY <1>1, <2>2, RemoveAtType DEF Without
<1>2. CASE ~Contains(list, n)
  BY <1>2 DEF Without
<1>. QED
  BY <1>1, <1>2

\* No two places of a list hold x.
Once(list, x) == \A i, j \in DOMAIN list : list[i] = x /\ list[j] = x => i = j

\* A stretch of a sequence: its length, its entries.
LEMMA SubSeqPart ==
    ASSUME NEW S, NEW list \in Seq(S), NEW m \in Int, NEW l \in Int,
           m <= l + 1, \A i \in m..l : list[i] \in S
    PROVE  /\ SubSeq(list, m, l) \in Seq(S)
           /\ Len(SubSeq(list, m, l)) = l - m + 1
           /\ \A i \in 1..(l - m + 1) : SubSeq(list, m, l)[i] = list[m + i - 1]
<1>1. /\ SubSeq(list, m, l) \in Seq(S)
      /\ Len(SubSeq(list, m, l)) = IF m <= l THEN l - m + 1 ELSE 0
      /\ \A i \in 1..(l - m + 1) : SubSeq(list, m, l)[i] = list[m + i - 1]
  BY SubSeqProperties
<1>2. (IF m <= l THEN l - m + 1 ELSE 0) = l - m + 1
  OBVIOUS
<1>. QED
  BY <1>1, <1>2

\* What removeOne() leaves: entries of the list, all the others, and none of n
\* if it was listed once.
LEMMA WithoutEntries ==
    ASSUME NEW S, NEW list \in Seq(S), NEW n
    PROVE  LET rest == Without(list, n)
           IN  /\ \A i \in DOMAIN rest : \E j \in DOMAIN list : list[j] = rest[i]
               /\ \A x : Once(list, x) => Once(rest, x)
               /\ Once(list, n) => \A i \in DOMAIN rest : rest[i] # n
               /\ \A j \in DOMAIN list : list[j] # n =>
                     \E i \in DOMAIN rest : rest[i] = list[j]
<1>. DEFINE rest == Without(list, n)
<1>1. CASE Contains(list, n)
  <2>. DEFINE k == CHOOSE i \in DOMAIN list : list[i] = n
              len == Len(list)
  <2>0. len \in Nat /\ DOMAIN list = 1..len
    BY LenProperties
  <2>1. k \in 1..len /\ list[k] = n
    <3>1. PICK i \in 1..Len(list) : list[i] = n
      BY <1>1 DEF Contains
    <3>. QED
      BY <3>1
  <2>2. rest = SubSeq(list, 1, k - 1) \o SubSeq(list, k + 1, len)
    BY <1>1 DEF Without, RemoveAt
  <2>3. /\ DOMAIN rest = 1..(len - 1)
        /\ \A i \in 1..(len - 1) : rest[i] = list[IF i < k THEN i ELSE i + 1]
    <3>. HIDE DEF k
    <3>0. /\ k \in Int /\ k - 1 \in Int /\ k + 1 \in Int /\ len \in Int
          /\ 1 <= k /\ k <= len
          /\ \A i \in 1..len : list[i] \in S
      BY <2>0, <2>1
    <3>a. /\ SubSeq(list, 1, k - 1) \in Seq(S)
          /\ Len(SubSeq(list, 1, k - 1)) = k - 1
          /\ \A i \in 1..(k - 1) : SubSeq(list, 1, k - 1)[i] = list[i]
      <4>1. \A i \in 1..(k - 1) : list[i] \in S
        BY <3>0
      <4>. HIDE DEF len
      <4>2. /\ SubSeq(list, 1, k - 1) \in Seq(S)
            /\ Len(SubSeq(list, 1, k - 1)) = (k - 1) - 1 + 1
            /\ \A i \in 1..((k - 1) - 1 + 1) : SubSeq(list, 1, k - 1)[i] = list[1 + i - 1]
        BY <3>0, <4>1, SubSeqPart
      <4>3. (k - 1) - 1 + 1 = k - 1
        BY <3>0
      <4>4. ASSUME NEW i \in 1..(k - 1)
            PROVE  1 + i - 1 = i
        BY <3>0
      <4>. QED
        BY <4>2, <4>3, <4>4
    <3>b. /\ SubSeq(list, k + 1, len) \in Seq(S)
          /\ Len(SubSeq(list, k + 1, len)) = len - k
          /\ \A i \in 1..(len - k) : SubSeq(list, k + 1, len)[i] = list[k + i]
      <4>1. \A i \in (k + 1)..len : list[i] \in S
        BY <3>0
      <4>. HIDE DEF len
      <4>2. /\ SubSeq(list, k + 1, len) \in Seq(S)
            /\ Len(SubSeq(list, k + 1, len)) = len - (k + 1) + 1
            /\ \A i \in 1..(len - (k + 1) + 1) :
                  SubSeq(list, k + 1, len)[i] = list[(k + 1) + i - 1]
        BY <3>0, <4>1, SubSeqPart
      <4>3. len - (k + 1) + 1 = len - k
        BY <3>0
      <4>4. ASSUME NEW i \in 1..(len - k)
            PROVE  (k + 1) + i - 1 = k + i
        BY <3>0
      <4>. QED
        BY <4>2, <4>3, <4>4
    <3>1. /\ SubSeq(list, 1, k - 1) \in Seq(S) /\ SubSeq(list, k + 1, len) \in Seq(S)
          /\ Len(SubSeq(list, 1, k - 1)) = k - 1
          /\ Len(SubSeq(list, k + 1, len)) = len - k
          /\ \A i \in 1..(k - 1) : SubSeq(list, 1, k - 1)[i] = list[i]
          /\ \A i \in 1..(len - k) : SubSeq(list, k + 1, len)[i] = list[k + i]
      BY <3>a, <3>b
    <3>. DEFINE a == SubSeq(list, 1, k - 1)
                b == SubSeq(list, k + 1, len)
    <3>. HIDE DEF a, b, rest
    <3>2. rest = a \o b
      BY <2>2 DEF a, b
    <3>3. /\ a \in Seq(S) /\ b \in Seq(S) /\ Len(a) = k - 1 /\ Len(b) = len - k
          /\ \A i \in 1..(k - 1) : a[i] = list[i]
          /\ \A i \in 1..(len - k) : b[i] = list[k + i]
      BY <3>1 DEF a, b
    <3>4. /\ DOMAIN rest = 1..(Len(a) + Len(b))
          /\ \A i \in 1..(Len(a) + Len(b)) :
                rest[i] = IF i <= Len(a) THEN a[i] ELSE b[i - Len(a)]
      BY <3>2, <3>3, ConcatProperties, LenProperties
    <3>5. Len(a) + Len(b) = len - 1 /\ k - 1 \in Nat
      BY <2>0, <2>1, <3>3
    <3>6. ASSUME NEW i \in 1..(len - 1)
          PROVE  rest[i] = list[IF i < k THEN i ELSE i + 1]
      <4>1. CASE i < k
        BY <2>0, <2>1, <3>3, <3>4, <3>5, <4>1
      <4>2. CASE ~(i < k)
        <5>1. i - Len(a) \in 1..(len - k) /\ k + (i - Len(a)) = i + 1
          BY <2>0, <2>1, <3>3, <4>2
        <5>2. rest[i] = b[i - Len(a)]
          BY <2>0, <2>1, <3>3, <3>4, <3>5, <4>2
        <5>. QED
          BY <3>3, <4>2, <5>1, <5>2
      <4>. QED
        BY <4>1, <4>2
    <3>. QED
      BY <3>4, <3>5, <3>6
  <2>. HIDE DEF k, rest
  <2>4. \A i \in DOMAIN rest : \E j \in DOMAIN list : list[j] = rest[i] /\ j # k
    <3>1. ASSUME NEW i \in 1..(len - 1)
          PROVE  (IF i < k THEN i ELSE i + 1) \in DOMAIN list \ {k}
      BY <2>0, <2>1
    <3>. QED
      BY <2>3, <3>1
  <2>5. ASSUME NEW x, Once(list, x), NEW i \in DOMAIN rest, NEW j \in DOMAIN rest,
               rest[i] = x, rest[j] = x
        PROVE  i = j
    <3>1. (IF i < k THEN i ELSE i + 1) = (IF j < k THEN j ELSE j + 1)
      BY <2>0, <2>1, <2>3, <2>5 DEF Once
    <3>. QED
      BY <2>0, <2>1, <2>3, <3>1
  <2>6. ASSUME NEW j \in DOMAIN list, list[j] # n
        PROVE  \E i \in DOMAIN rest : rest[i] = list[j]
    <3>1. CASE j < k
      <4>1. j \in 1..(len - 1)
        BY <2>0, <2>1, <3>1
      <4>. QED
        BY <2>3, <3>1, <4>1
    <3>2. CASE j > k
      <4>1. /\ j - 1 \in 1..(len - 1)
            /\ (IF j - 1 < k THEN j - 1 ELSE j - 1 + 1) = j
        BY <2>0, <2>1, <3>2
      <4>. QED
        BY <2>3, <4>1
    <3>. QED
      BY <2>0, <2>1, <2>6, <3>1, <3>2
  <2>. QED
    BY <2>0, <2>1, <2>4, <2>5, <2>6 DEF rest, Once
<1>2. CASE ~Contains(list, n)
  <2>1. rest = list
    BY <1>2 DEF Without
  <2>2. \A i \in DOMAIN list : list[i] # n
    BY <1>2, LenProperties DEF Contains
  <2>. QED
    BY <2>1, <2>2
<1>. QED
  BY <1>1, <1>2

LEMMA NonEmpty ==
    ASSUME NEW S, NEW s \in Seq(S), s # <<>>
    PROVE  /\ Len(s) \in 1..Len(s) /\ Last(s) \in S /\ Front(s) \in Seq(S)
           /\ Head(s) \in S /\ Tail(s) \in Seq(S)
<1>1. Len(s) \in 1..Len(s)
  BY LenProperties, EmptySeq
<1>2. Last(s) \in S
  BY <1>1, ElementOfSeq DEF Last
<1>3. Front(s) \in Seq(S)
  <2>1. \A i \in 1..(Len(s) - 1) : s[i] \in S
    BY <1>1, ElementOfSeq
  <2>. QED
    BY <1>1, <2>1, SubSeqProperties DEF Front
<1>. QED
  BY <1>1, <1>2, <1>3, HeadTailProperties

LEMMA AppendType ==
    ASSUME NEW S, NEW s \in Seq(S), NEW e \in S
    PROVE  Append(s, e) \in Seq(S)
BY AppendProperties

\* Moving the top frame on keeps a well-formed stack of frames.
LEMMA SetTopType ==
    ASSUME pass \in Seq(Frames), pass # <<>>, NEW i \in Nat
    PROVE  SetTop(i) \in Seq(Frames)
<1>. DEFINE k == Len(pass)
            frame == [pass[k] EXCEPT !.at = i]
<1>1. k \in 1..Len(pass) /\ pass[k] \in Frames
  BY NonEmpty, ElementOfSeq
<1>2. frame \in Frames
  BY <1>1 DEF Frames
<1>3. [pass EXCEPT ![k] = frame] \in Seq(Frames)
  BY <1>1, <1>2, ExceptSeq
<1>. QED
  BY <1>3 DEF SetTop

LEMMA SetTopOf ==
    ASSUME pass \in Seq(Frames), pass # <<>>, NEW i \in Nat,
           NEW j \in DOMAIN SetTop(i)
    PROVE  j \in DOMAIN pass /\ SetTop(i)[j].of = pass[j].of
<1>1. Len(pass) \in 1..Len(pass) /\ pass[Len(pass)] \in Frames
  BY NonEmpty, ElementOfSeq
<1>. QED
  BY <1>1 DEF SetTop, Frames

LEMMA EventTypes ==
    /\ Event("schedule", Root) \in Events
    /\ Event("abort", Root) \in Events
    /\ Event("finished", Root) \in Events
    /\ \A c \in Composites : Event("finalize", c) \in Events
    /\ \A n \in DOMAIN Parent : Event("delete", n) \in Events
BY DEF Events, Event

LEMMA QueueTypes ==
    ASSUME NEW queue \in Seq(Events), NEW after \in SUBSET {"abort", "schedule"}
    PROVE  /\ scheduleNextJob(queue) \in Seq(Events)
           /\ PostAbort(queue) \in Seq(Events)
           /\ Unwind(queue, after) \in Seq(Events)
<1>1. \A q \in Seq(Events) : scheduleNextJob(q) \in Seq(Events)
  BY EventTypes DEF scheduleNextJob
<1>2. PostAbort(queue) \in Seq(Events)
  BY EventTypes DEF PostAbort
<1>. QED
  BY <1>1, <1>2 DEF Unwind

LEMMA Nodes ==
    /\ DOMAIN Parent = Items \cup (Dirs \ {Root})
    /\ \A n \in DOMAIN Parent : Parent[n] \in Composites
    /\ Leaves \subseteq DOMAIN Parent
    /\ Acting \subseteq Dirs /\ Acting \subseteq Leaves
    /\ Root \notin Acting /\ Dirs \subseteq Composites
    /\ \A n \in Leaves : n \in Dirs <=> n \in Acting
    /\ \A n \in Leaves : Associated(n) \in Composites
    /\ DOMAIN Parent \subseteq Items \cup Dirs
BY TreeAssumption DEF Leaves, Acting, Composites, Associated

\* What finishing a leaf does to the three variables it writes.
LEMMA DoneType ==
    ASSUME TypeOK, NEW n \in Leaves, NEW status \in Statuses,
           NEW after \in SUBSET {"abort", "schedule"},
           NEW queued \in [Composites -> SUBSET (Items \cup Dirs)],
           Done(n, status, after, queued)
    PROVE  /\ leaf' \in [Leaves -> {NotYetStarted} \cup Stages \cup Statuses]
           /\ todo' \in [Composites -> SUBSET (Items \cup Dirs)]
           /\ signal' \in Signals
<1>1. Softened(status) \in Statuses
  BY DEF Softened, Statuses, Errors
<1>2. leaf' \in [Leaves -> {NotYetStarted} \cup Stages \cup Statuses]
  BY <1>1 DEF Done, TypeOK
<1>3. todo' \in [Composites -> SUBSET (Items \cup Dirs)]
  <2>1. \A m \in DOMAIN Spawns : Spawns[m] \in Items
    BY JobAssumption
  <2>. QED
    BY <2>1, Nodes DEF Done
<1>4. signal' \in Signals
  BY <1>1, Nodes DEF Done, Emit, Reported, Signals, SignalsOf
<1>. QED
  BY <1>2, <1>3, <1>4

LEMMA OutcomeTypes == \A n \in Leaves : OutcomesOf(n) \subseteq Statuses
BY JobAssumption DEF OutcomesOf

\* The tree that OwncloudPropagator::start builds is well typed.
THEOREM TypeInit == Init => TypeOK
<1>. SUFFICES ASSUME Init PROVE TypeOK
  OBVIOUS
<1>1. events \in Seq(Events)
  BY EventTypes DEF Init
<1>2. todo \in [Composites -> SUBSET (Items \cup Dirs)]
  BY Nodes DEF Init
<1>3. /\ <<>> \in Seq(Leaves) /\ <<>> \in Seq(Frames)
      /\ running \in [Composites -> Seq(Items \cup Dirs)]
  BY DEF Init
<1>4. leaf \in [Leaves -> {NotYetStarted} \cup Stages \cup Statuses]
  BY DEF Init
<1>5. dir \in [Dirs -> {NotYetStarted, "Running"} \cup Statuses]
  BY DEF Init
<1>6. comp \in [Composites -> {NotYetStarted, "Running"} \cup Statuses]
  BY DEF Init
<1>. QED
  BY <1>1, <1>2, <1>3, <1>4, <1>5, <1>6 DEF Init, TypeOK

LEMMA TypePass ==
    ASSUME TypeOK,
           \/ ScheduleNextJobImpl \/ AskRunning \/ SkipUselessTask
           \/ StartAndFinish \/ StartAsync \/ StartDirectory \/ NothingLeft
    PROVE  TypeOK'
<1>1. CASE ScheduleNextJobImpl
  <2>1. NextComposite \in Composites /\ Root \in Dirs
    BY TreeAssumption DEF NextComposite, Composites
  <2>2. Tail(events) \in Seq(Events)
    BY <1>1, NonEmpty DEF ScheduleNextJobImpl, TypeOK
  <2>3. <<[of |-> NextComposite, at |-> 1]>> \in Seq(Frames)
    BY <2>1 DEF Frames
  <2>4. pass' \in Seq(Frames)
    BY <1>1, <2>3 DEF ScheduleNextJobImpl, TypeOK
  <2>. QED
    BY <1>1, <2>1, <2>2, <2>4 DEF ScheduleNextJobImpl, TypeOK
<1>2. CASE AskRunning
  <2>1. Top \in Frames
    BY <1>2, NonEmpty DEF AskRunning, InPass, Top, TypeOK
  <2>2. Top.at + 1 \in Nat /\ 0 \in Nat /\ 1 \in Nat
    BY <2>1 DEF Frames
  <2>3. /\ SetTop(0) \in Seq(Frames) /\ SetTop(Top.at + 1) \in Seq(Frames)
    BY <1>2, <2>2, SetTopType DEF AskRunning, InPass, TypeOK
  <2>. DEFINE n == running[Top.of][Top.at]
              back == SetTop(IF Waiting(n) THEN 0 ELSE Top.at + 1)
  <2>4. back \in Seq(Frames)
    BY <2>3
  <2>5. CASE n \in Dirs /\ pass' = Append(back, [of |-> n, at |-> 1])
                        /\ comp' = [comp EXCEPT ![n] = "Running"]
    <3>1. [of |-> n, at |-> 1] \in Frames
      BY <2>5, <2>2, Nodes DEF Frames
    <3>2. pass' \in Seq(Frames)
      BY <2>4, <2>5, <3>1, AppendType
    <3>. QED
      BY <1>2, <2>5, <3>2, Nodes DEF AskRunning, TypeOK
  <2>6. CASE pass' = back /\ UNCHANGED comp
    BY <1>2, <2>4, <2>6 DEF AskRunning, TypeOK
  <2>. QED
    BY <1>2, <2>5, <2>6 DEF AskRunning
<1>3. CASE SkipUselessTask
  BY <1>3 DEF SkipUselessTask, TypeOK
<1>4. CASE StartAndFinish
  <2>1. PICK c \in Composites, n \in Leaves, status \in Statuses :
          /\ StartJob(c, n)
          /\ Done(n, status, {"schedule"}, [todo EXCEPT ![c] = @ \ {n}])
          /\ active' = active \/ active' = Append(active, n)
          /\ UNCHANGED events
    BY <1>4, OutcomeTypes DEF StartAndFinish
  <2>2. [todo EXCEPT ![c] = @ \ {n}] \in [Composites -> SUBSET (Items \cup Dirs)]
    BY DEF TypeOK
  <2>4. /\ leaf' \in [Leaves -> {NotYetStarted} \cup Stages \cup Statuses]
        /\ todo' \in [Composites -> SUBSET (Items \cup Dirs)]
        /\ signal' \in Signals
    BY <2>1, <2>2, DoneType
  <2>5. active' \in Seq(Leaves)
    <3>1. active \in Seq(Leaves) /\ Append(active, n) \in Seq(Leaves)
      BY AppendType DEF TypeOK
    <3>. QED
      BY <2>1, <3>1
  <2>6. running' \in [Composites -> Seq(Items \cup Dirs)]
    BY <2>1, Nodes DEF StartJob, Take, TypeOK
  <2>. QED
    BY <2>1, <2>4, <2>5, <2>6, Nodes DEF StartJob, TypeOK
<1>5. CASE StartAsync
  <2>1. PICK c \in Composites, n \in Leaves :
          /\ StartJob(c, n)
          /\ todo' = [todo EXCEPT ![c] = @ \ {n}]
          /\ leaf' = [leaf EXCEPT ![n] =
                        IF n \in Uploads THEN "checksum" ELSE "transfer"]
          /\ active' = Append(active, n)
          /\ events' = scheduleNextJob(events)
          /\ UNCHANGED signal
    BY <1>5 DEF StartAsync
  <2>2. events' \in Seq(Events)
    BY <2>1, QueueTypes DEF TypeOK
  <2>3. running' \in [Composites -> Seq(Items \cup Dirs)]
    BY <2>1, Nodes DEF StartJob, Take, TypeOK
  <2>4. active' \in Seq(Leaves)
    BY <2>1, AppendType DEF TypeOK
  <2>5. leaf' \in [Leaves -> {NotYetStarted} \cup Stages \cup Statuses]
    BY <2>1 DEF TypeOK, Stages
  <2>6. dir' \in [Dirs -> {NotYetStarted, "Running"} \cup Statuses]
    BY <2>1 DEF StartJob, TypeOK
  <2>7. pass' \in Seq(Frames)
    BY <2>1 DEF StartJob
  <2>. QED
    BY <2>1, <2>2, <2>3, <2>4, <2>5, <2>6, <2>7 DEF StartJob, TypeOK
<1>6. CASE StartDirectory
  <2>1. PICK c \in Composites, d \in Dirs :
          /\ Take(c, d)
          /\ todo' = [todo EXCEPT ![c] = @ \ {d}]
          /\ dir' = [dir EXCEPT ![d] = "Running"]
          /\ comp' = [comp EXCEPT ![d] = "Running"]
          /\ pass' = Append(SetTop(0), [of |-> d, at |-> 1])
          /\ UNCHANGED <<leaf, errors, active, events, signal, cancel, timer,
                         saved, result>>
    BY <1>6 DEF StartDirectory, NextJobs, TypeOK, Leaves
  <2>3. [of |-> d, at |-> 1] \in Frames
    BY Nodes DEF Frames
  <2>4. SetTop(0) \in Seq(Frames)
    BY <2>1, SetTopType DEF Take, OwnTurn, InPass, TypeOK
  <2>5. pass' \in Seq(Frames)
    BY <2>1, <2>3, <2>4, AppendType
  <2>6. running' \in [Composites -> Seq(Items \cup Dirs)]
    BY <2>1 DEF Take, TypeOK
  <2>. QED
    BY <2>1, <2>5, <2>6, Nodes DEF TypeOK
<1>7. CASE NothingLeft
  <2>1. Front(pass) \in Seq(Frames) /\ Top \in Frames
    BY <1>7, NonEmpty DEF NothingLeft, InPass, Top, TypeOK
  <2>2. Event("finalize", Top.of) \in Events
    BY <2>1, EventTypes DEF Frames
  <2>3. events' \in Seq(Events)
    BY <1>7, <2>2, AppendType DEF NothingLeft, TypeOK
  <2>. QED
    BY <1>7, <2>1, <2>3 DEF NothingLeft, TypeOK, tree
<1>. QED
  BY <1>1, <1>2, <1>3, <1>4, <1>5, <1>6, <1>7

LEMMA DelistType == ASSUME TypeOK, NEW n, Delist(n) PROVE active' \in Seq(Leaves)
BY WithoutType DEF Delist, TypeOK

LEMMA TypeLeaf ==
    ASSUME TypeOK, NEW n \in Leaves, Answer(n)
    PROVE  TypeOK'
<1>1. CASE StartUpload(n)
  <2>1. active' \in Seq(Leaves)
    BY <1>1, WithoutType, AppendType DEF StartUpload, TypeOK
  <2>2. leaf' \in [Leaves -> {NotYetStarted} \cup Stages \cup Statuses]
    BY <1>1 DEF StartUpload, TypeOK, Stages
  <2>. QED
    BY <1>1, <2>1, <2>2 DEF StartUpload, TypeOK
<1>2. CASE FileLocked(n)
  <2>1. "Soft" \in Statuses /\ todo \in [Composites -> SUBSET (Items \cup Dirs)]
    BY DEF Statuses, Errors, TypeOK
  <2>2. /\ leaf' \in [Leaves -> {NotYetStarted} \cup Stages \cup Statuses]
        /\ todo' \in [Composites -> SUBSET (Items \cup Dirs)]
        /\ signal' \in Signals
    BY <1>2, <2>1, DoneType DEF FileLocked
  <2>. QED
    BY <1>2, <2>2 DEF FileLocked, TypeOK
<1>3. CASE Reply(n)
  <2>1. PICK status \in Statuses :
          /\ Delist(n)
          /\ Done(n, status, {}, todo)
          /\ UNCHANGED <<dir, comp, running, errors, events, pass, cancel,
                         timer, saved, result>>
    BY <1>3, OutcomeTypes DEF Reply
  <2>2. /\ leaf' \in [Leaves -> {NotYetStarted} \cup Stages \cup Statuses]
        /\ todo' \in [Composites -> SUBSET (Items \cup Dirs)]
        /\ signal' \in Signals
    BY <2>1, DoneType DEF TypeOK
  <2>. QED
    BY <2>1, <2>2, DelistType DEF TypeOK
<1>4. CASE DownloadReceived(n)
  <2>1. leaf' \in [Leaves -> {NotYetStarted} \cup Stages \cup Statuses]
    BY <1>4 DEF DownloadReceived, TypeOK, Stages
  <2>2. active' \in Seq(Leaves)
    BY <1>4, DelistType DEF DownloadReceived
  <2>. QED
    BY <1>4, <2>1, <2>2 DEF DownloadReceived, TypeOK
<1>5. CASE Validated(n)
  <2>1. PICK status \in Statuses :
          /\ Done(n, status, {}, todo)
          /\ UNCHANGED <<dir, comp, running, errors, active, events, pass,
                         cancel, timer, saved, result>>
    BY <1>5, OutcomeTypes DEF Validated
  <2>2. /\ leaf' \in [Leaves -> {NotYetStarted} \cup Stages \cup Statuses]
        /\ todo' \in [Composites -> SUBSET (Items \cup Dirs)]
        /\ signal' \in Signals
    BY <2>1, DoneType DEF TypeOK
  <2>. QED
    BY <2>1, <2>2 DEF TypeOK
<1>. QED
  BY <1>1, <1>2, <1>3, <1>4, <1>5 DEF Answer

\* A signal being delivered names a sender its slot can handle.
LEMMA Received ==
    ASSUME TypeOK, NEW as, Receive(as)
    PROVE  /\ signal \in Signals
           /\ signal.status \in Statuses
           /\ signal.after \in SUBSET {"abort", "schedule"}
           /\ as = "sub" => signal.from \in DOMAIN Parent
           /\ as = "first" => signal.from \in Acting
           /\ as = "comp" => signal.from \in Composites
BY DEF Receive, TypeOK, Signals, SignalsOf

LEMMA EmitType ==
    ASSUME NEW n, NEW as, NEW status \in Statuses,
           NEW after \in SUBSET {"abort", "schedule"},
           Emit(n, as, status, after),
           \/ as = "sub" /\ n \in DOMAIN Parent
           \/ as = "first" /\ n \in Acting
           \/ as = "comp" /\ n \in Composites
    PROVE  signal' \in Signals
BY DEF Emit, Signals, SignalsOf

LEMMA QuietType ==
    ASSUME TypeOK, NEW as, Receive(as), NEW queue \in Seq(Events), Quiet(queue)
    PROVE  events' \in Seq(Events) /\ timer' \in BOOLEAN /\ signal' = NoSignal
BY Received, QueueTypes DEF Quiet, TypeOK

LEMMA EmitFinishedType ==
    ASSUME NEW status \in Statuses, NEW queue \in Seq(Events),
           result \in {"none", "over"} \cup Statuses,
           EmitFinished(status, queue)
    PROVE  events' \in Seq(Events) /\ result' \in {"none", "over"} \cup Statuses
BY EventTypes, AppendType DEF EmitFinished

LEMMA TypeCascade ==
    ASSUME TypeOK, ControlOK, OpenedFromAbove,
           \/ SlotSubJobFinished \/ Finalize \/ SlotFirstJobFinished
           \/ SlotSubJobsFinished \/ SlotRootSubJobsFinished
           \/ SlotDirDeletionJobsFinished
    PROVE  TypeOK'
<1>1. CASE SlotSubJobFinished
  <2>. DEFINE n == signal.from
              c == Parent[n]
              rest == RunningWithout(c, n)
              errs == errors[c] \cup {s \in {signal.status} : FailsComposite(s)}
              queue == IF Contains(active, n)
                       THEN Append(events, Event("delete", n)) ELSE events
  <2>1. /\ n \in DOMAIN Parent /\ c \in Composites /\ signal.status \in Statuses
        /\ signal.after \in SUBSET {"abort", "schedule"} /\ Receive("sub")
    BY <1>1, Received, Nodes DEF SlotSubJobFinished
  <2>2. running' \in [Composites -> Seq(Items \cup Dirs)]
    <3>1. rest \in Seq(Items \cup Dirs)
      BY <2>1, WithoutType DEF RunningWithout, TypeOK
    <3>. QED
      BY <1>1, <3>1 DEF SlotSubJobFinished, TypeOK
  <2>3. errs \in SUBSET Errors
    BY <2>1 DEF FailsComposite, TypeOK
  <2>4. errors' \in [Composites -> SUBSET Errors]
    BY <1>1, <2>3 DEF SlotSubJobFinished, TypeOK
  <2>5. queue \in Seq(Events)
    BY <2>1, EventTypes, AppendType DEF TypeOK
  <2>6. scheduleNextJob(queue) \in Seq(Events)
    BY <2>5, QueueTypes
  <2>7. CASE Quiet(scheduleNextJob(queue)) /\ UNCHANGED comp
    <3>1. events' \in Seq(Events) /\ timer' \in BOOLEAN /\ signal' = NoSignal
      BY <2>1, <2>6, <2>7, QuietType
    <3>. QED
      BY <1>1, <2>2, <2>4, <2>7, <3>1 DEF SlotSubJobFinished, TypeOK
  <2>8. ASSUME NEW status \in IF errs = {} THEN {"Success"} ELSE errs,
               comp' = [comp EXCEPT ![c] = status],
               Emit(c, "comp", status, signal.after),
               events' = queue, UNCHANGED timer
        PROVE  TypeOK'
    <3>1. status \in Statuses
      BY <2>3 DEF Statuses
    <3>2. signal' \in Signals
      BY <2>1, <2>8, <3>1, EmitType
    <3>3. comp' \in [Composites -> {NotYetStarted, "Running"} \cup Statuses]
      BY <2>8, <3>1 DEF TypeOK
    <3>. QED
      BY <1>1, <2>2, <2>4, <2>5, <2>8, <3>2, <3>3 DEF SlotSubJobFinished, TypeOK
  <2>. QED
    BY <1>1, <2>7, <2>8 DEF SlotSubJobFinished
<1>2. CASE Finalize
  <2>. DEFINE c == Head(events).of
  <2>1. Head(events) \in Events /\ Tail(events) \in Seq(Events)
    BY <1>2, NonEmpty DEF Finalize, TypeOK
  <2>2. c \in Composites
    BY <1>2, <2>1 DEF Finalize, Events
  <2>3. CASE UNCHANGED <<comp, signal>>
    BY <1>2, <2>1, <2>3 DEF Finalize, TypeOK
  <2>4. ASSUME NEW status \in IF errors[c] = {} THEN {"Success"} ELSE errors[c],
               comp' = [comp EXCEPT ![c] = status],
               Emit(c, "comp", status, {})
        PROVE  TypeOK'
    <3>1. status \in Statuses
      BY <2>2 DEF Statuses, TypeOK
    <3>2. signal' \in Signals
      BY <2>2, <2>4, <3>1, EmitType
    <3>3. comp' \in [Composites -> {NotYetStarted, "Running"} \cup Statuses]
      BY <2>4, <3>1 DEF TypeOK
    <3>. QED
      BY <1>2, <2>1, <3>2, <3>3 DEF Finalize, TypeOK
  <2>. QED
    BY <1>2, <2>3, <2>4 DEF Finalize
<1>3. CASE SlotFirstJobFinished
  <2>. DEFINE d == signal.from
  <2>1. /\ d \in Acting /\ d \in DOMAIN Parent /\ d \in Dirs
        /\ signal.status \in Statuses
        /\ signal.after \in SUBSET {"abort", "schedule"} /\ Receive("first")
    BY <1>3, Received, Nodes DEF SlotFirstJobFinished
  <2>2. CASE Quiet(scheduleNextJob(events)) /\ UNCHANGED dir
    <3>1. scheduleNextJob(events) \in Seq(Events)
      BY QueueTypes DEF TypeOK
    <3>2. events' \in Seq(Events) /\ timer' \in BOOLEAN /\ signal' = NoSignal
      BY <2>1, <2>2, <3>1, QuietType
    <3>. QED
      BY <1>3, <2>2, <3>2 DEF SlotFirstJobFinished, TypeOK
  <2>3. CASE /\ dir' = [dir EXCEPT ![d] = signal.status]
             /\ Emit(d, "sub", signal.status, signal.after)
             /\ UNCHANGED <<events, timer>>
    <3>1. signal' \in Signals
      BY <2>1, <2>3, EmitType
    <3>2. dir' \in [Dirs -> {NotYetStarted, "Running"} \cup Statuses]
      BY <2>1, <2>3 DEF TypeOK
    <3>. QED
      BY <1>3, <2>3, <3>1, <3>2 DEF SlotFirstJobFinished, TypeOK
  <2>. QED
    BY <1>3, <2>2, <2>3 DEF SlotFirstJobFinished
<1>4. CASE SlotSubJobsFinished
  <2>. DEFINE d == signal.from
  <2>1. /\ d \in Dirs \ {Root} /\ d \in DOMAIN Parent
        /\ signal.status \in Statuses /\ signal.as = "comp"
        /\ signal.after \in SUBSET {"abort", "schedule"}
    BY <1>4, Received, Nodes DEF SlotSubJobsFinished, Composites, Receive
  <2>2. OwnStatus(d) \in Statuses
    <3>1. d \in Acting => leaf[d] \in Positive
      BY <2>1 DEF ControlOK, OpenedFromAbove
    <3>. QED
      BY <3>1 DEF OwnStatus, Positive, Statuses, Errors
  <2>a. \A s : Reported(s, signal.after) \in SUBSET {"abort", "schedule"}
    BY <2>1 DEF Reported
  <2>3. PICK status \in Statuses, after \in SUBSET {"abort", "schedule"} :
          /\ FinishDirectory(d, status, after)
          /\ saved' = saved \/ saved' = saved \cup {d}
    BY <1>4, <2>1, <2>2, <2>a DEF SlotSubJobsFinished, Statuses, Errors
  <2>4. signal' \in Signals
    BY <2>1, <2>3, EmitType DEF FinishDirectory
  <2>5. dir' \in [Dirs -> {NotYetStarted, "Running"} \cup Statuses]
    BY <2>1, <2>3 DEF FinishDirectory, TypeOK
  <2>6. saved' \subseteq Dirs
    BY <2>1, <2>3 DEF TypeOK
  <2>. QED
    BY <1>4, <2>4, <2>5, <2>6 DEF SlotSubJobsFinished, TypeOK
<1>5. CASE SlotRootSubJobsFinished
  <2>1. PICK dropped \in SUBSET todo[Deletions] :
          todo' = [todo EXCEPT ![Deletions] = @ \ dropped]
    BY <1>5 DEF SlotRootSubJobsFinished
  <2>2. todo' \in [Composites -> SUBSET (Items \cup Dirs)]
    BY <2>1 DEF TypeOK
  <2>3. scheduleNextJob(events) \in Seq(Events)
    BY QueueTypes DEF TypeOK
  <2>4. events' \in Seq(Events) /\ timer' \in BOOLEAN /\ signal' = NoSignal
    BY <1>5, <2>3, QuietType DEF SlotRootSubJobsFinished
  <2>. QED
    BY <1>5, <2>2, <2>4 DEF SlotRootSubJobsFinished, TypeOK
<1>6. CASE SlotDirDeletionJobsFinished
  <2>. DEFINE status == RootStatus(signal.status)
              queue == Unwind(events, signal.after)
  <2>1. signal.status \in Statuses /\ signal.after \in SUBSET {"abort", "schedule"}
    BY <1>6, Received DEF SlotDirDeletionJobsFinished
  <2>2. status \in Statuses
    BY <2>1 DEF RootStatus, Statuses
  <2>3. queue \in Seq(Events)
    BY <2>1, QueueTypes DEF TypeOK
  <2>4. EmitFinished(status, queue)
    BY <1>6 DEF SlotDirDeletionJobsFinished
  <2>5. events' \in Seq(Events) /\ result' \in {"none", "over"} \cup Statuses
    BY <2>2, <2>3, <2>4, EmitFinishedType DEF TypeOK
  <2>6. dir' \in [Dirs -> {NotYetStarted, "Running"} \cup Statuses]
    BY <1>6, <2>2 DEF SlotDirDeletionJobsFinished, TypeOK
  <2>7. timer' \in BOOLEAN
    BY <1>6 DEF SlotDirDeletionJobsFinished, TypeOK
  <2>. QED
    BY <1>6, <2>5, <2>6, <2>7 DEF SlotDirDeletionJobsFinished, TypeOK
<1>. QED
  BY <1>1, <1>2, <1>3, <1>4, <1>5, <1>6

LEMMA TypeAbort ==
    ASSUME TypeOK,
           \/ AbortEvent \/ AbortTimeout \/ CancelReply \/ AbortFinished
           \/ DeleteJob \/ DeliverFinished
    PROVE  TypeOK'
<1>1. ASSUME NEW timeout, AbortJobs(timeout)
      PROVE  /\ cancel' \subseteq Leaves \cup {Root}
             /\ UNCHANGED <<tree, active, pass, signal, saved, result>>
  BY <1>1 DEF AbortJobs, InFlight
<1>2. CASE AbortEvent
  <2>1. Tail(events) \in Seq(Events)
    BY <1>2, NonEmpty DEF AbortEvent, TypeOK
  <2>. QED
    BY <1>1, <1>2, <2>1 DEF AbortEvent, TypeOK, tree
<1>3. CASE AbortTimeout
  BY <1>1, <1>3 DEF AbortTimeout, TypeOK, tree
<1>4. CASE CancelReply
  <2>1. PICK n \in cancel \ {Root} :
          /\ signal = NoSignal /\ cancel' = cancel \ {n}
          /\ Delist(n)
          /\ Done(n, "Fatal", {}, todo)
          /\ UNCHANGED <<dir, comp, running, errors, events, pass, timer,
                         saved, result>>
    BY <1>4 DEF CancelReply
  <2>2. n \in Leaves /\ "Fatal" \in Statuses
    BY DEF TypeOK, Statuses, Errors
  <2>3. /\ leaf' \in [Leaves -> {NotYetStarted} \cup Stages \cup Statuses]
        /\ todo' \in [Composites -> SUBSET (Items \cup Dirs)]
        /\ signal' \in Signals
    BY <2>1, <2>2, DoneType DEF TypeOK
  <2>. QED
    BY <2>1, <2>3, DelistType DEF TypeOK
<1>5. CASE AbortFinished
  <2>1. "Normal" \in Statuses /\ EmitFinished("Normal", events)
    BY <1>5 DEF AbortFinished, Statuses, Errors
  <2>2. events' \in Seq(Events) /\ result' \in {"none", "over"} \cup Statuses
    BY <2>1, EmitFinishedType DEF TypeOK
  <2>. QED
    BY <1>5, <2>2 DEF AbortFinished, TypeOK, tree
<1>6. CASE DeleteJob
  <2>1. Tail(events) \in Seq(Events)
    BY <1>6, NonEmpty DEF DeleteJob, TypeOK
  <2>2. active' \in Seq(Leaves)
    BY <1>6, DelistType DEF DeleteJob
  <2>. QED
    BY <1>6, <2>1, <2>2 DEF DeleteJob, TypeOK, tree
<1>7. CASE DeliverFinished
  <2>1. <<>> \in Seq(Events)
    OBVIOUS
  <2>. QED
    BY <1>7, <2>1 DEF DeliverFinished, TypeOK, tree
<1>. QED
  BY <1>2, <1>3, <1>4, <1>5, <1>6, <1>7

LEMMA TypeNext ==
    ASSUME TypeOK, ControlOK, OpenedFromAbove, Next
    PROVE  TypeOK'
BY TypePass, TypeLeaf, TypeCascade, TypeAbort DEF Next, Handler

-----------------------------------------------------------------------------
(***************************************************************************)
(* FirstInv is inductive.                                                  *)
(***************************************************************************)

\* A posted finalize() is meant for an opened composite.
Backed(queue, open) ==
    \A i \in DOMAIN queue : queue[i].kind = "finalize" => queue[i].of \in open

\* What is above a node is its parent and what is above that.
LEMMA AboveStep ==
    /\ Above[Root] = {}
    /\ \A n \in DOMAIN Parent : Parent[n] \notin Dirs => Above[n] = {}
    /\ \A n \in DOMAIN Parent : Parent[n] \in Dirs =>
          Above[n] \subseteq {Parent[n]} \cup Above[Parent[n]]
<1>1. Above[Root] = {}
  BY TreeAssumption DEF Above
<1>2. ASSUME NEW n \in DOMAIN Parent, Parent[n] \notin Dirs
      PROVE  Above[n] = {}
  <2>1. Parent[n] = Deletions
    BY <1>2, Nodes DEF Composites
  <2>2. ClosedUpwards({})
    BY DEF ClosedUpwards
  <2>. QED
    BY <2>1, <2>2, Nodes DEF Above
<1>3. ASSUME NEW n \in DOMAIN Parent, Parent[n] \in Dirs,
             NEW d \in Above[n], d # Parent[n]
      PROVE  d \in Above[Parent[n]]
  <2>. DEFINE p == Parent[n]
              S == {p} \cup Above[p]
  <2>1. S \subseteq Dirs
    BY <1>3, Nodes DEF Above
  <2>2. ASSUME NEW x \in S \ {Root}
        PROVE  Parent[x] \in S \cup {Deletions}
    <3>1. x \in Dirs \ {Root} /\ x \in DOMAIN Parent /\ Parent[x] \in Composites
      BY <2>1, Nodes
    <3>2. CASE Parent[x] = Deletions
      BY <3>2
    <3>3. CASE Parent[x] \in Dirs
      <4>1. p # Root /\ p \in Items \cup Dirs
        BY <1>3, <2>2, <1>1
      <4>2. ASSUME NEW R \in SUBSET Dirs, ClosedUpwards(R),
                   Parent[p] \in R \cup {Deletions}
            PROVE  Parent[x] \in R
        <5>1. x = p \/ x \in R
          BY <4>1, <4>2 DEF Above
        <5>2. Parent[x] \in R \cup {Deletions}
          BY <3>1, <4>2, <5>1 DEF ClosedUpwards
        <5>. QED
          BY <3>3, <5>2, TreeAssumption
      <4>3. Parent[x] \in Above[p]
        BY <3>3, <4>1, <4>2 DEF Above
      <4>. QED
        BY <4>3
    <3>. QED
      BY <3>1, <3>2, <3>3 DEF Composites
  <2>3. ClosedUpwards(S) /\ Parent[n] \in S
    BY <2>2 DEF ClosedUpwards
  <2>4. d \in S
    BY <1>3, <2>1, <2>3, Nodes DEF Above
  <2>. QED
    BY <1>3, <2>4
<1>. QED
  BY <1>1, <1>2, <1>3

LEMMA BackedKept ==
    ASSUME NEW queue \in Seq(Events), NEW open, NEW wider, open \subseteq wider,
           Backed(queue, open)
    PROVE  Backed(queue, wider)
BY DEF Backed

LEMMA BackedAppend ==
    ASSUME NEW queue \in Seq(Events), NEW open, Backed(queue, open),
           NEW e \in Events, e.kind = "finalize" => e.of \in open
    PROVE  Backed(Append(queue, e), open)
BY AppendProperties DEF Backed

LEMMA BackedTail ==
    ASSUME NEW queue \in Seq(Events), NEW open, Backed(queue, open), queue # <<>>
    PROVE  Backed(Tail(queue), open)
BY HeadTailProperties DEF Backed

LEMMA BackedUnwind ==
    ASSUME NEW queue \in Seq(Events), NEW open, Backed(queue, open),
           NEW after \in SUBSET {"abort", "schedule"}
    PROVE  Backed(scheduleNextJob(queue), open) /\ Backed(Unwind(queue, after), open)
<1>1. /\ Event("schedule", Root).kind = "schedule"
      /\ Event("abort", Root).kind = "abort"
  BY DEF Event
<1>2. \A q \in Seq(Events) : Backed(q, open) => Backed(scheduleNextJob(q), open)
  BY <1>1, EventTypes, BackedAppend DEF scheduleNextJob
<1>3. Backed(PostAbort(queue), open)
  BY <1>1, EventTypes, BackedAppend DEF PostAbort
<1>4. PostAbort(queue) \in Seq(Events)
  BY QueueTypes
<1>. QED
  BY <1>2, <1>3, <1>4 DEF Unwind

\* The parts of FirstInv that are about the tree, one lemma per way to change it.
LEMMA ListsKept ==
    ASSUME TypeOK, ListsOK, UNCHANGED running, Begun' = Begun,
           \A c \in Composites : \A n \in todo'[c] :
               n \in todo[c] \/ (n \in Items /\ Parent[n] = c)
    PROVE  ListsOK'
<1>1. \A c \in Composites : \A n \in todo'[c] : n \in DOMAIN Parent /\ Parent[n] = c
  BY Nodes DEF ListsOK
<1>2. \A c \in Composites : todo'[c] \cap Dirs \cap Begun' = {}
  <2>1. Items \cap Dirs = {}
    BY TreeAssumption DEF Composites
  <2>. QED
    BY <2>1 DEF ListsOK
<1>. QED
  BY <1>1, <1>2 DEF ListsOK

\* Node n leaves the list of c for its running jobs; items may join the lists.
Taken(c, n) ==
    /\ running' = [running EXCEPT ![c] = Append(@, n)]
    /\ \A b \in Composites : \A m \in todo'[b] :
           \/ m \in todo[b] /\ (b = c => m # n)
           \/ m \in Items /\ Parent[m] = b

LEMMA ListsTaken ==
    ASSUME TypeOK, ListsOK, NEW c \in Composites, NEW n \in todo[c],
           Taken(c, n), Begun' = Begun \cup {n}
    PROVE  ListsOK'
<1>0. n \in DOMAIN Parent /\ Parent[n] = c /\ (n \in Dirs => n \notin Begun)
  BY DEF ListsOK
<1>1. \A b \in Composites : \A m \in todo'[b] : m \in DOMAIN Parent /\ Parent[m] = b
  BY Nodes DEF ListsOK, Taken
<1>2. \A b \in Composites : todo'[b] \cap Dirs \cap Begun' = {}
  <2>1. Items \cap Dirs = {}
    BY TreeAssumption DEF Composites
  <2>. QED
    BY <1>0, <1>1, <2>1 DEF ListsOK, Taken
<1>3. ASSUME NEW b \in Composites, NEW i \in DOMAIN running'[b],
             NEW m, m = running'[b][i]
      PROVE  /\ m \in DOMAIN Parent /\ Parent[m] = b /\ m \in Begun'
             /\ m \in Dirs => \A j \in DOMAIN running'[b] : running'[b][j] = m => i = j
  <2>1. CASE b # c
    <3>1. running'[b] = running[b]
      BY <2>1 DEF TypeOK, Taken
    <3>. QED
      BY <1>3, <3>1 DEF ListsOK
  <2>2. CASE b = c
    <3>. DEFINE old == running[c]
                l == Len(old)
    <3>1. old \in Seq(Items \cup Dirs) /\ n \in Items \cup Dirs
      BY <1>0, Nodes DEF TypeOK
    <3>2. running'[b] = Append(old, n)
      BY <2>2 DEF TypeOK, Taken
    <3>3. /\ DOMAIN running'[b] = 1..(l + 1) /\ DOMAIN old = 1..l /\ l \in Nat
          /\ \A j \in 1..l : running'[b][j] = old[j]
          /\ running'[b][l + 1] = n
      BY <3>1, <3>2, AppendProperties, LenProperties
    <3>4. \A j \in 1..l :
            /\ old[j] \in DOMAIN Parent /\ Parent[old[j]] = c /\ old[j] \in Begun
            /\ old[j] \in Dirs => \A k \in 1..l : old[k] = old[j] => j = k
            /\ old[j] = n => n \notin Dirs
      BY <1>0, <3>3 DEF ListsOK
    <3>. HIDE DEF l, old
    <3>5. CASE i \in 1..l
      BY <1>0, <1>3, <2>2, <3>3, <3>4, <3>5
    <3>6. CASE i = l + 1
      BY <1>0, <1>3, <2>2, <3>3, <3>4, <3>6
    <3>. QED
      BY <1>3, <2>2, <3>3, <3>5, <3>6
  <2>. QED
    BY <2>1, <2>2
<1>. QED
  BY <1>1, <1>2, <1>3 DEF ListsOK

\* Nothing fails unreported: with no report under way, no directory has failed.
LEMMA FailureKept ==
    ASSUME TypeOK, FailureReported,
           signal.as \notin {"first", "sub"} \/ signal' = signal,
           UNCHANGED <<leaf, running>>
    PROVE  FailureReported'
BY DEF FailureReported

LEMMA FailureStarted ==
    ASSUME TypeOK, FailureReported, signal = NoSignal,
           NEW n \in Items \cup Dirs,
           \A m \in Acting \ {n} : leaf'[m] = leaf[m],
           \/ UNCHANGED running
           \/ \E c \in Composites : running' = [running EXCEPT ![c] = Append(@, n)],
           n \in Acting /\ leaf'[n] \in Statuses =>
               signal'.as = "first" /\ signal'.from = n
    PROVE  FailureReported'
<1>1. \A c \in Composites : \A i \in DOMAIN running[c] :
        running[c][i] \in Acting => leaf[running[c][i]] \notin Statuses \ Positive
  BY DEF FailureReported, NoSignal
<1>2. ASSUME NEW c \in Composites, NEW i \in DOMAIN running'[c],
             NEW d, d = running'[c][i], d # n
      PROVE  \E j \in DOMAIN running[c] : d = running[c][j]
  <2>1. running[c] \in Seq(Items \cup Dirs)
    BY DEF TypeOK
  <2>2. running'[c] = running[c] \/ running'[c] = Append(running[c], n)
    BY DEF TypeOK
  <2>3. CASE running'[c] = running[c]
    BY <1>2, <2>3
  <2>4. CASE running'[c] = Append(running[c], n)
    <3>1. /\ DOMAIN Append(running[c], n) = 1..(Len(running[c]) + 1)
          /\ DOMAIN running[c] = 1..Len(running[c]) /\ Len(running[c]) \in Nat
          /\ \A j \in 1..Len(running[c]) : Append(running[c], n)[j] = running[c][j]
          /\ Append(running[c], n)[Len(running[c]) + 1] = n
      BY <2>1, AppendProperties, LenProperties
    <3>. QED
      BY <1>2, <2>4, <3>1
  <2>. QED
    BY <2>2, <2>3, <2>4
<1>. QED
  BY <1>1, <1>2 DEF FailureReported

LEMMA OpenedStep ==
    ASSUME OpenedFromAbove,
           Begun \subseteq Begun', Opened \subseteq Opened',
           \A n \in DOMAIN Parent : n \in Begun' \ Begun => Parent[n] \in Opened',
           \A d \in Acting : leaf'[d] # leaf[d] =>
               d \in Begun' /\ leaf[d] \notin Positive,
           \A d \in Dirs \ {Root} : d \in Opened' \ Opened => d \in Begun',
           \A c \in Dirs : c \in Opened' \ Opened =>
               \A d \in Acting : d \in Above[c] \cup {c} => leaf[d] \in Positive
    PROVE  OpenedFromAbove'
BY Nodes DEF OpenedFromAbove

\* A composite may open below an opened one when its directory's own job, if
\* there is one, has ended well.
LEMMA MayOpen ==
    ASSUME OpenedFromAbove, NEW c \in Dirs \ {Root}, Parent[c] \in Opened,
           c \in Acting => leaf[c] \in Positive,
           NEW d \in Acting, d \in Above[c] \cup {c}
    PROVE  leaf[d] \in Positive
<1>1. CASE Parent[c] \in Dirs
  BY <1>1, AboveStep, Nodes DEF OpenedFromAbove
<1>2. CASE Parent[c] \notin Dirs
  BY <1>2, AboveStep, Nodes
<1>. QED
  BY <1>1, <1>2

LEMMA Sets ==
    ASSUME TypeOK
    PROVE  /\ UNCHANGED <<leaf, dir>> => Begun' = Begun
           /\ UNCHANGED comp => Opened' = Opened
           /\ \A n \in Leaves : leaf[n] \in Stages => leaf[n] # NotYetStarted
           /\ \A n \in Leaves : leaf[n] \in Stages => leaf[n] \notin Positive
BY DEF Begun, Opened, Stages, Positive

\* What an action of the pass, an answer or the cascade leaves of FirstInv.
TreeInv == ListsOK /\ ControlOK /\ FailureReported /\ OpenedFromAbove

LEMMA BackedEvents ==
    ASSUME TypeOK
    PROVE  /\ ControlOK => Backed(events, Opened)
           /\ ControlOK /\ events # <<>> => Backed(Tail(events), Opened)
BY BackedTail DEF ControlOK, Backed, TypeOK

LEMMA EmitFinishedBacked ==
    ASSUME NEW status, NEW queue \in Seq(Events), NEW open, Backed(queue, open),
           EmitFinished(status, queue)
    PROVE  Backed(events', open)
<1>1. Event("finished", Root).kind = "finished" /\ Event("finished", Root) \in Events
  BY EventTypes DEF Event
<1>2. Backed(Append(queue, Event("finished", Root)), open)
  BY <1>1, BackedAppend
<1>. QED
  BY <1>2 DEF EmitFinished

\* The steps that leave the jobs of the tree alone.
LEMMA TreeStill ==
    ASSUME TypeOK, TreeInv,
           \/ SkipUselessTask \/ NothingLeft \/ DeleteJob \/ AbortEvent
           \/ AbortTimeout \/ AbortFinished \/ DeliverFinished
    PROVE  TreeInv'
<1>1. /\ UNCHANGED <<leaf, dir, comp, running, signal>>
      /\ \A c \in Composites : todo'[c] \subseteq todo[c]
  BY DEF SkipUselessTask, NothingLeft, DeleteJob, AbortEvent, AbortTimeout,
         AbortFinished, DeliverFinished, AbortJobs, tree, TypeOK
<1>2. Begun' = Begun /\ Opened' = Opened
  BY <1>1, Sets
<1>3. ListsOK' /\ FailureReported' /\ OpenedFromAbove'
  BY <1>1, <1>2, ListsKept, FailureKept, OpenedStep DEF TreeInv
<1>4. Backed(events', Opened)
  <2>1. CASE NothingLeft
    <3>1. Top \in Frames /\ Top.of \in Opened
      <4>1. Len(pass) \in DOMAIN pass /\ Top \in Frames
        BY <2>1, NonEmpty DEF NothingLeft, InPass, Top, TypeOK
      <4>. QED
        BY <4>1 DEF Top, Last, TreeInv, ControlOK
    <3>2. Event("finalize", Top.of) \in Events /\ Event("finalize", Top.of).of = Top.of
      BY <3>1, EventTypes DEF Frames, Event
    <3>3. Backed(Append(events, Event("finalize", Top.of)), Opened)
      BY <3>1, <3>2, BackedAppend, BackedEvents DEF TreeInv, TypeOK
    <3>. QED
      BY <2>1, <3>3, BackedEvents DEF NothingLeft, TreeInv
  <2>2. CASE AbortFinished
    BY <2>2, EmitFinishedBacked, BackedEvents DEF AbortFinished, TreeInv, TypeOK
  <2>3. CASE DeliverFinished
    BY <2>3 DEF DeliverFinished, Backed
  <2>4. CASE SkipUselessTask \/ AbortTimeout \/ DeleteJob \/ AbortEvent
    <3>1. events' = events \/ (events # <<>> /\ events' = Tail(events))
      BY <2>4 DEF SkipUselessTask, DeleteJob, AbortEvent, AbortTimeout
    <3>. QED
      BY <3>1, BackedEvents DEF TreeInv
  <2>. QED
    BY <2>1, <2>2, <2>3, <2>4
<1>5. \A i \in DOMAIN pass' : pass'[i].of \in Opened
  <2>1. CASE NothingLeft
    <3>1. pass' = SubSeq(pass, 1, Len(pass) - 1) /\ Len(pass) \in 1..Len(pass)
      BY <2>1, NonEmpty DEF NothingLeft, InPass, Front, TypeOK
    <3>2. \A i \in DOMAIN pass' : i \in DOMAIN pass /\ pass'[i] = pass[i]
      BY <3>1, SubSeqProperties DEF TypeOK
    <3>. QED
      BY <3>2 DEF TreeInv, ControlOK
  <2>2. CASE ~NothingLeft
    <3>1. pass' = pass
      BY <2>2 DEF SkipUselessTask, DeleteJob, AbortEvent, AbortTimeout, AbortJobs,
                  AbortFinished, DeliverFinished
    <3>. QED
      BY <3>1 DEF TreeInv, ControlOK
  <2>. QED
    BY <2>1, <2>2
<1>6. /\ cancel' # {} => pass' = <<>>
      /\ \A n \in cancel' \ {Root} : leaf[n] = "transfer"
  <2>1. CASE AbortEvent \/ AbortTimeout
    BY <2>1 DEF AbortEvent, AbortTimeout, AbortJobs, AtEventLoop, InFlight
  <2>2. CASE NothingLeft
    <3>1. cancel = {} /\ cancel' = cancel
      BY <2>2 DEF NothingLeft, InPass, TreeInv, ControlOK
    <3>. QED
      BY <3>1
  <2>3. CASE SkipUselessTask \/ DeleteJob \/ AbortFinished \/ DeliverFinished
    BY <2>3 DEF SkipUselessTask, DeleteJob, AbortFinished, DeliverFinished,
                TreeInv, ControlOK
  <2>. QED
    BY <2>1, <2>2, <2>3
<1>7. ControlOK'
  BY <1>1, <1>2, <1>4, <1>5, <1>6 DEF Backed, TreeInv, ControlOK
<1>. QED
  BY <1>3, <1>7 DEF TreeInv

\* A leaf's job goes on or ends, outside the pass.
LEMMA TreeLeaf ==
    ASSUME TypeOK, TreeInv, NEW n \in Leaves, leaf[n] \in Stages,
           signal = NoSignal, pass = <<>>, n \notin cancel', cancel' \subseteq cancel,
           NEW v \in Stages \cup Statuses, leaf' = [leaf EXCEPT ![n] = v],
           UNCHANGED <<dir, comp, running, events, pass>>,
           \A c \in Composites : \A m \in todo'[c] :
               m \in todo[c] \/ (m \in Items /\ Parent[m] = c),
           \/ v \in Stages /\ signal' = NoSignal
           \/ /\ signal'.as = (IF n \in Dirs THEN "first" ELSE "sub")
              /\ signal'.from = n /\ signal'.status = v
    PROVE  TreeInv'
<1>1. /\ v # NotYetStarted /\ leaf[n] # NotYetStarted
      /\ leaf[n] \notin Positive /\ n \in Items \cup Dirs
  BY Sets, Nodes DEF Stages, Statuses, Errors
<1>2. Begun' = Begun /\ Opened' = Opened
  BY <1>1 DEF Begun, Opened, TypeOK
<1>3. n \in Begun
  BY <1>1, Nodes DEF TreeInv, OpenedFromAbove, Begun
<1>4. ListsOK'
  BY <1>2, ListsKept DEF TreeInv
<1>5. FailureReported'
  <2>1. \A m \in Acting \ {n} : leaf'[m] = leaf[m]
    BY Nodes DEF TypeOK
  <2>2. n \in Acting /\ leaf'[n] \in Statuses => signal'.as = "first" /\ signal'.from = n
    BY Nodes DEF TypeOK, Stages, Statuses, Errors
  <2>. QED
    BY <1>1, <2>1, <2>2, FailureStarted DEF TreeInv
<1>6. OpenedFromAbove'
  <2>1. \A d \in Acting : leaf'[d] # leaf[d] => d = n
    BY Nodes DEF TypeOK
  <2>. QED
    BY <1>1, <1>2, <1>3, <2>1, OpenedStep DEF TreeInv
<1>7. ControlOK'
  <2>1. \A m \in cancel' \ {Root} : leaf'[m] = "transfer"
    BY DEF TreeInv, ControlOK, TypeOK
  <2>2. leaf'[n] = v
    BY DEF TypeOK
  <2>3. signal'.as \in {"none", "first", "sub"}
    BY DEF NoSignal
  <2>4. /\ signal'.as = "first" => leaf'[signal'.from] = signal'.status
        /\ signal'.as = "sub" => signal'.from \in Begun
    BY <1>3, <2>2 DEF NoSignal
  <2>. QED
    BY <1>2, <2>1, <2>3, <2>4 DEF TreeInv, ControlOK
<1>. QED
  BY <1>4, <1>5, <1>6, <1>7 DEF TreeInv

LEMMA DoneTree ==
    ASSUME NEW n \in Leaves, NEW status \in Statuses, NEW after,
           NEW queued \in [Composites -> SUBSET (Items \cup Dirs)],
           Done(n, status, after, queued)
    PROVE  /\ \A c \in Composites : \A m \in todo'[c] :
                  m \in queued[c] \/ (m \in Items /\ Parent[m] = c)
           /\ \E v \in Statuses :
                  /\ leaf' = [leaf EXCEPT ![n] = v]
                  /\ signal'.as = (IF n \in Dirs THEN "first" ELSE "sub")
                  /\ signal'.from = n /\ signal'.status = v
<1>1. Softened(status) \in Statuses
  BY DEF Softened, Statuses, Errors
<1>2. \A c \in Composites : \A m \in todo'[c] :
        m \in queued[c] \/ (m \in Items /\ Parent[m] = c)
  <2>1. \A m \in DOMAIN Spawns : Spawns[m] \in Items /\ Parent[Spawns[m]] = Associated(m)
    BY JobAssumption DEF Associated
  <2>. QED
    BY <2>1, Nodes DEF Done
<1>. QED
  BY <1>1, <1>2 DEF Done, Emit

LEMMA TreeAnswer ==
    ASSUME TypeOK, TreeInv,
           CancelReply \/ \E n \in Leaves : Answer(n)
    PROVE  TreeInv'
<1>1. ASSUME NEW n \in Leaves, NEW status \in Statuses, NEW after,
             Done(n, status, after, todo), leaf[n] \in Stages,
             signal = NoSignal, pass = <<>>,
             n \notin cancel', cancel' \subseteq cancel,
             UNCHANGED <<dir, comp, running, events, pass>>
      PROVE  TreeInv'
  <2>1. todo \in [Composites -> SUBSET (Items \cup Dirs)]
    BY DEF TypeOK
  <2>2. /\ \A c \in Composites : \A m \in todo'[c] :
              m \in todo[c] \/ (m \in Items /\ Parent[m] = c)
        /\ \E v \in Statuses :
              /\ leaf' = [leaf EXCEPT ![n] = v]
              /\ signal'.as = (IF n \in Dirs THEN "first" ELSE "sub")
              /\ signal'.from = n /\ signal'.status = v
    BY <1>1, <2>1, DoneTree
  <2>3. PICK v \in Stages \cup Statuses :
              /\ leaf' = [leaf EXCEPT ![n] = v]
              /\ signal'.as = (IF n \in Dirs THEN "first" ELSE "sub")
              /\ signal'.from = n /\ signal'.status = v
    BY <2>2
  <2>. QED
    BY <1>1, <2>2, <2>3, TreeLeaf
<1>2. ASSUME NEW n \in Leaves, AtEventLoop, leaf[n] \in Stages,
             UNCHANGED <<dir, comp, running, events, pass, cancel>>,
             \/ \E v \in Stages : leaf' = [leaf EXCEPT ![n] = v] /\ UNCHANGED <<todo, signal>>
             \/ \E status \in Statuses : Done(n, status, {}, todo)
      PROVE  TreeInv'
  <2>1. signal = NoSignal /\ pass = <<>> /\ n \notin cancel' /\ cancel' \subseteq cancel
    BY <1>2 DEF AtEventLoop
  <2>2. CASE \E v \in Stages : leaf' = [leaf EXCEPT ![n] = v] /\ UNCHANGED <<todo, signal>>
    <3>1. PICK v \in Stages \cup Statuses :
            v \in Stages /\ leaf' = [leaf EXCEPT ![n] = v] /\ UNCHANGED <<todo, signal>>
      BY <2>2
    <3>. QED
      BY <1>2, <2>1, <3>1, TreeLeaf
  <2>3. CASE \E status \in Statuses : Done(n, status, {}, todo)
    BY <1>1, <1>2, <2>1, <2>3
  <2>. QED
    BY <1>2, <2>2, <2>3
<1>3. ASSUME NEW n \in Leaves, Answer(n) PROVE TreeInv'
  <2>1. CASE StartUpload(n)
    BY <1>2, <2>1 DEF StartUpload, Stages
  <2>2. CASE FileLocked(n)
    BY <1>2, <2>2 DEF FileLocked, Stages, Statuses, Errors
  <2>3. CASE Reply(n)
    <3>1. PICK status \in Statuses :
            AtEventLoop /\ leaf[n] \in Stages /\ Done(n, status, {}, todo)
      BY <2>3, OutcomeTypes DEF Reply, Stages
    <3>. QED
      BY <1>2, <2>3, <3>1 DEF Reply
  <2>4. CASE DownloadReceived(n)
    BY <1>2, <2>4 DEF DownloadReceived, Stages
  <2>5. CASE Validated(n)
    <3>1. PICK status \in Statuses :
            AtEventLoop /\ leaf[n] \in Stages /\ Done(n, status, {}, todo)
      BY <2>5, OutcomeTypes DEF Validated, Stages
    <3>. QED
      BY <1>2, <2>5, <3>1 DEF Validated
  <2>. QED
    BY <1>3, <2>1, <2>2, <2>3, <2>4, <2>5 DEF Answer
<1>4. CASE CancelReply
  <2>1. PICK n \in cancel \ {Root} :
          /\ signal = NoSignal /\ cancel' = cancel \ {n}
          /\ Done(n, "Fatal", {}, todo)
          /\ UNCHANGED <<dir, comp, running, events, pass>>
    BY <1>4 DEF CancelReply
  <2>2. n \in Leaves /\ leaf[n] \in Stages /\ pass = <<>> /\ "Fatal" \in Statuses
    BY DEF TypeOK, TreeInv, ControlOK, Stages, Statuses, Errors
  <2>. QED
    BY <1>1, <2>1, <2>2
<1>. QED
  BY <1>3, <1>4

\* A job or a directory leaves the list of the composite on top of the pass.
LEMMA TopFrame ==
    ASSUME TypeOK, TreeInv, InPass
    PROVE  /\ Top \in Frames /\ Top.of \in Opened /\ Top.of \in Composites
           /\ cancel = {} /\ signal = NoSignal
<1>1. Len(pass) \in DOMAIN pass /\ Top \in Frames
  BY NonEmpty DEF InPass, Top, TypeOK
<1>2. Top.of \in Opened
  BY <1>1 DEF Top, Last, TreeInv, ControlOK
<1>3. cancel = {}
  BY DEF InPass, TreeInv, ControlOK
<1>. QED
  BY <1>1, <1>2, <1>3 DEF Frames, InPass

LEMMA TreeStart ==
    ASSUME TypeOK, TreeInv, StartAndFinish \/ StartAsync
    PROVE  TreeInv'
<1>1. PICK c \in Composites, n \in Leaves, v \in Stages \cup Statuses :
        /\ StartJob(c, n) /\ n \in todo[c]
        /\ leaf' = [leaf EXCEPT ![n] = v]
        /\ \A b \in Composites : \A m \in todo'[b] :
               \/ m \in todo[b] /\ (b = c => m # n)
               \/ m \in Items /\ Parent[m] = b
        /\ Backed(events', Opened)
        /\ \/ v \in Stages /\ UNCHANGED signal
           \/ /\ signal'.as = (IF n \in Dirs THEN "first" ELSE "sub")
              /\ signal'.from = n /\ signal'.status = v
  <2>0. Backed(events, Opened)
    BY BackedEvents DEF TreeInv
  <2>1. CASE StartAndFinish
    <3>1. PICK c \in Composites, n \in Leaves, status \in Statuses :
            /\ StartJob(c, n) /\ n \in todo[c]
            /\ Done(n, status, {"schedule"}, [todo EXCEPT ![c] = @ \ {n}])
            /\ UNCHANGED events
      BY <2>1, OutcomeTypes DEF StartAndFinish, NextJobs
    <3>. DEFINE queued == [todo EXCEPT ![c] = @ \ {n}]
    <3>2. queued \in [Composites -> SUBSET (Items \cup Dirs)]
      BY DEF TypeOK
    <3>3. /\ \A b \in Composites : \A m \in todo'[b] :
                m \in queued[b] \/ (m \in Items /\ Parent[m] = b)
          /\ \E v \in Statuses :
                /\ leaf' = [leaf EXCEPT ![n] = v]
                /\ signal'.as = (IF n \in Dirs THEN "first" ELSE "sub")
                /\ signal'.from = n /\ signal'.status = v
      BY <3>1, <3>2, DoneTree
    <3>4. \A b \in Composites : \A m \in queued[b] : m \in todo[b] /\ (b = c => m # n)
      BY DEF TypeOK
    <3>5. PICK v \in Statuses :
            /\ leaf' = [leaf EXCEPT ![n] = v]
            /\ signal'.as = (IF n \in Dirs THEN "first" ELSE "sub")
            /\ signal'.from = n /\ signal'.status = v
      BY <3>3
    <3>6. \A b \in Composites : \A m \in todo'[b] :
            (m \in todo[b] /\ (b = c => m # n)) \/ (m \in Items /\ Parent[m] = b)
      BY <3>3, <3>4
    <3>7. Backed(events', Opened)
      BY <2>0, <3>1
    <3>. QED
      BY <3>1, <3>5, <3>6, <3>7
  <2>2. CASE StartAsync
    <3>1. PICK c \in Composites, n \in Leaves :
            /\ StartJob(c, n) /\ n \in todo[c]
            /\ todo' = [todo EXCEPT ![c] = @ \ {n}]
            /\ leaf' = [leaf EXCEPT ![n] =
                          IF n \in Uploads THEN "checksum" ELSE "transfer"]
            /\ events' = scheduleNextJob(events)
            /\ UNCHANGED signal
      BY <2>2 DEF StartAsync, NextJobs
    <3>2. \A b \in Composites : \A m \in todo'[b] : m \in todo[b] /\ (b = c => m # n)
      BY <3>1 DEF TypeOK
    <3>3. Backed(events', Opened)
      BY <2>0, <3>1, BackedUnwind DEF TypeOK
    <3>. QED
      BY <3>1, <3>2, <3>3 DEF Stages
  <2>. QED
    BY <2>1, <2>2
<1>2. /\ InPass /\ Top.of = c
      /\ running' = [running EXCEPT ![c] = Append(@, n)]
      /\ dir' = IF n \in Dirs THEN [dir EXCEPT ![n] = "Running"] ELSE dir
      /\ pass' = <<>> /\ UNCHANGED <<comp, cancel>>
  BY <1>1 DEF StartJob, Take, OwnTurn
<1>3. /\ c \in Opened /\ cancel = {} /\ signal = NoSignal /\ Opened' = Opened
  BY <1>2, TopFrame, Sets
<1>4. n \in DOMAIN Parent /\ Parent[n] = c /\ n \in Items \cup Dirs /\ n # Root
  BY <1>1, Nodes, TreeAssumption DEF TreeInv, ListsOK, Composites
<1>5. v # NotYetStarted
  BY DEF Stages, Statuses, Errors
<1>6. Begun' = Begun \cup {n}
  <2>1. Items \cap Dirs = {}
    BY TreeAssumption DEF Composites
  <2>2. CASE n \in Dirs
    <3>1. \A m \in Items : leaf'[m] = leaf[m]
      BY <1>1, <2>1, <2>2 DEF TypeOK, Leaves
    <3>2. \A d \in Dirs : dir'[d] = IF d = n THEN "Running" ELSE dir[d]
      BY <1>2, <2>2 DEF TypeOK
    <3>. QED
      BY <1>4, <2>2, <3>1, <3>2 DEF Begun
  <2>3. CASE n \notin Dirs
    <3>1. \A m \in Items : leaf'[m] = IF m = n THEN v ELSE leaf[m]
      BY <1>1 DEF TypeOK, Leaves
    <3>. QED
      BY <1>2, <1>4, <1>5, <2>3, <3>1 DEF Begun
  <2>. QED
    BY <2>2, <2>3
<1>7. ListsOK'
  <2>1. Taken(c, n)
    BY <1>1, <1>2 DEF Taken
  <2>2. n \in todo[c] /\ ListsOK
    BY <1>1 DEF TreeInv
  <2>. QED
    BY <1>6, <2>1, <2>2, ListsTaken
<1>8. FailureReported'
  <2>1. \A m \in Acting \ {n} : leaf'[m] = leaf[m]
    BY <1>1, Nodes DEF TypeOK
  <2>2. n \in Acting /\ leaf'[n] \in Statuses => signal'.as = "first" /\ signal'.from = n
    BY <1>1, Nodes DEF TypeOK, Stages, Statuses, Errors
  <2>. QED
    BY <1>2, <1>3, <1>4, <2>1, <2>2, FailureStarted DEF TreeInv
<1>9. OpenedFromAbove'
  <2>1. n \in Acting => leaf[n] = NotYetStarted
    BY <1>1, Nodes DEF TreeInv, ListsOK, OpenedFromAbove
  <2>2. \A d \in Acting : leaf'[d] # leaf[d] => d = n
    BY <1>1, Nodes DEF TypeOK
  <2>3. \A m \in DOMAIN Parent : m \in Begun' \ Begun => Parent[m] \in Opened'
    BY <1>3, <1>4, <1>6
  <2>4. \A d \in Acting : leaf'[d] # leaf[d] => d \in Begun' /\ leaf[d] \notin Positive
    BY <1>6, <2>1, <2>2 DEF Positive
  <2>. QED
    BY <1>3, <1>6, <2>3, <2>4, OpenedStep DEF TreeInv
<1>10. ControlOK'
  <2>1. leaf'[n] = v
    BY <1>1 DEF TypeOK
  <2>2. /\ signal'.as # "comp"
        /\ signal'.as = "first" => leaf'[signal'.from] = signal'.status
        /\ signal'.as = "sub" => signal'.from \in Begun'
    BY <1>1, <1>3, <1>6, <2>1 DEF NoSignal
  <2>. QED
    BY <1>1, <1>2, <1>3, <2>2 DEF ControlOK, Backed
<1>. QED
  BY <1>7, <1>8, <1>9, <1>10 DEF TreeInv

\* A directory on top of the pass, or Root, is asked for jobs.
LEMMA TreeOpen ==
    ASSUME TypeOK, TreeInv, signal = NoSignal, NEW c \in Composites,
           \/ c \in {Root, Deletions}
           \/ /\ c \in Dirs \ {Root} /\ Parent[c] \in Opened /\ c \in Begun'
              /\ c \in Acting => leaf[c] \in Positive,
           UNCHANGED <<leaf, signal>>, Begun \subseteq Begun',
           \A n \in DOMAIN Parent : n \in Begun' \ Begun => Parent[n] \in Opened,
           comp' = [comp EXCEPT ![c] = "Running"]
    PROVE  Opened' = Opened \cup {c} /\ OpenedFromAbove'
<1>1. Opened' = Opened \cup {c}
  BY DEF Opened, TypeOK
<1>2. \A d \in Dirs \ {Root} : d \in Opened' \ Opened => d \in Begun'
  BY <1>1, TreeAssumption
<1>3. ASSUME NEW b \in Dirs, b \in Opened' \ Opened,
             NEW d \in Acting, d \in Above[b] \cup {b}
      PROVE  leaf[d] \in Positive
  <2>1. b = c /\ c # Deletions
    BY <1>1, <1>3, TreeAssumption
  <2>2. CASE c = Root
    BY <1>3, <2>1, <2>2, AboveStep, Nodes
  <2>3. CASE c # Root
    BY <1>3, <2>1, <2>3, MayOpen DEF TreeInv
  <2>. QED
    BY <2>2, <2>3
<1>4. OpenedFromAbove'
  BY <1>1, <1>2, <1>3, OpenedStep DEF TreeInv
<1>. QED
  BY <1>1, <1>4

LEMMA TreePass ==
    ASSUME TypeOK, TreeInv,
           ScheduleNextJobImpl \/ AskRunning \/ StartDirectory
    PROVE  TreeInv'
<1>0. Backed(events, Opened)
  BY BackedEvents DEF TreeInv
<1>1. CASE ScheduleNextJobImpl
  <2>1. /\ UNCHANGED <<leaf, todo, running, signal, cancel>> /\ signal = NoSignal
        /\ pass = <<>> /\ cancel = {} /\ events # <<>> /\ events' = Tail(events)
    BY <1>1 DEF ScheduleNextJobImpl, AtEventLoop
  <2>2. Begun' = Begun
    <3>1. \A d \in Dirs \ {Root} : dir'[d] = dir[d]
      BY <1>1 DEF ScheduleNextJobImpl, TypeOK
    <3>. QED
      BY <2>1, <3>1 DEF Begun
  <2>3. ListsOK' /\ FailureReported'
    BY <2>1, <2>2, ListsKept, FailureKept DEF TreeInv
  <2>4. NextComposite \in {Root, Deletions} /\ NextComposite \in Composites
    BY Nodes, TreeAssumption DEF NextComposite, Composites
  <2>5. CASE UNCHANGED <<comp, pass>>
    <3>1. Opened' = Opened /\ OpenedFromAbove'
      BY <2>1, <2>2, <2>5, Sets, OpenedStep DEF TreeInv
    <3>2. Backed(events', Opened')
      BY <2>1, <3>1, BackedEvents DEF TreeInv
    <3>. QED
      BY <2>1, <2>2, <2>3, <2>5, <3>1, <3>2 DEF TreeInv, ControlOK, Backed
  <2>6. CASE /\ comp' = [comp EXCEPT ![NextComposite] = "Running"]
             /\ pass' = <<[of |-> NextComposite, at |-> 1]>>
    <3>1. Opened' = Opened \cup {NextComposite} /\ OpenedFromAbove'
      BY <2>1, <2>2, <2>4, <2>6, TreeOpen
    <3>2. Backed(events', Opened')
      <4>1. Backed(Tail(events), Opened) /\ Tail(events) \in Seq(Events)
        BY <2>1, BackedEvents, NonEmpty DEF TreeInv, TypeOK
      <4>2. events' \in Seq(Events) /\ Backed(events', Opened) /\ Opened \subseteq Opened'
        BY <2>1, <3>1, <4>1
      <4>. QED
        BY <4>2, BackedKept
    <3>3. \A i \in DOMAIN pass' : pass'[i].of \in Opened'
      BY <2>6, <3>1
    <3>. QED
      BY <2>1, <2>2, <2>3, <3>1, <3>2, <3>3 DEF TreeInv, ControlOK, Backed, NoSignal
  <2>. QED
    BY <1>1, <2>5, <2>6 DEF ScheduleNextJobImpl
<1>2. CASE AskRunning
  <2>. DEFINE c == Top.of
              n == running[c][Top.at]
              back == SetTop(IF Waiting(n) THEN 0 ELSE Top.at + 1)
  <2>1. /\ UNCHANGED <<leaf, dir, todo, running, events, signal, cancel>>
        /\ InPass /\ Top.at \in DOMAIN running[c] /\ c \in Composites
        /\ signal = NoSignal /\ cancel = {} /\ Top.at + 1 \in Nat
    BY <1>2, TopFrame DEF AskRunning, Frames
  <2>2. Begun' = Begun
    BY <2>1, Sets
  <2>3. ListsOK' /\ FailureReported'
    BY <2>1, <2>2, ListsKept, FailureKept DEF TreeInv
  <2>4. back \in Seq(Frames) /\ \A i \in DOMAIN back : back[i].of \in Opened
    BY <2>1, SetTopType, SetTopOf DEF InPass, TypeOK, TreeInv, ControlOK
  <2>5. CASE /\ n \in Dirs /\ FirstJobDone(n)
             /\ pass' = Append(back, [of |-> n, at |-> 1])
             /\ comp' = [comp EXCEPT ![n] = "Running"]
    <3>1. /\ n \in DOMAIN Parent /\ Parent[n] = c /\ n \in Begun
          /\ n \in Composites /\ n # Root /\ c \in Opened
      BY <2>1, <2>5, TopFrame, Nodes, TreeAssumption DEF TreeInv, ListsOK, Composites
    <3>2. n \in Acting => leaf[n] \in Positive
      BY <2>1, <2>5 DEF FirstJobDone, TreeInv, FailureReported, NoSignal
    <3>3. Opened' = Opened \cup {n} /\ OpenedFromAbove'
      BY <2>1, <2>2, <2>5, <3>1, <3>2, TreeOpen
    <3>4. Backed(events', Opened')
      BY <1>0, <2>1, <3>3, BackedKept DEF TypeOK
    <3>5. \A i \in DOMAIN pass' : pass'[i].of \in Opened'
      <4>1. [of |-> n, at |-> 1] \in Frames
        BY <3>1 DEF Frames
      <4>. QED
        BY <2>4, <2>5, <3>3, <4>1, AppendProperties
    <3>. QED
      BY <2>1, <2>2, <2>3, <3>3, <3>4, <3>5 DEF TreeInv, ControlOK, Backed, NoSignal
  <2>6. CASE pass' = back /\ UNCHANGED comp
    <3>1. Opened' = Opened /\ OpenedFromAbove'
      BY <2>1, <2>2, <2>6, Sets, OpenedStep DEF TreeInv
    <3>. QED
      BY <1>0, <2>1, <2>2, <2>3, <2>4, <2>6, <3>1
         DEF TreeInv, ControlOK, Backed, NoSignal
  <2>. QED
    BY <1>2, <2>5, <2>6 DEF AskRunning
<1>3. CASE StartDirectory
  <2>1. PICK c \in Composites, d \in Dirs :
          /\ Take(c, d) /\ d \in todo[c] /\ d \notin Acting
          /\ todo' = [todo EXCEPT ![c] = @ \ {d}]
          /\ dir' = [dir EXCEPT ![d] = "Running"]
          /\ comp' = [comp EXCEPT ![d] = "Running"]
          /\ pass' = Append(SetTop(0), [of |-> d, at |-> 1])
          /\ UNCHANGED <<leaf, events, signal, cancel>>
    BY <1>3 DEF StartDirectory, NextJobs, TypeOK, Leaves
  <2>2. /\ InPass /\ c = Top.of /\ c \in Opened /\ signal = NoSignal /\ cancel = {}
    BY <2>1, TopFrame DEF Take, OwnTurn
  <2>3. /\ d \in DOMAIN Parent /\ Parent[d] = c /\ d \in Dirs \ {Root}
        /\ d \in Composites
    BY <2>1, Nodes, TreeAssumption DEF TreeInv, ListsOK, Composites
  <2>4. Begun' = Begun \cup {d}
    <3>1. \A b \in Dirs : dir'[b] = IF b = d THEN "Running" ELSE dir[b]
      BY <2>1 DEF TypeOK
    <3>. QED
      BY <2>1, <2>3, <3>1 DEF Begun
  <2>5. ListsOK'
    <3>1. Taken(c, d)
      BY <2>1 DEF Take, Taken, TypeOK
    <3>. QED
      BY <2>1, <2>4, <3>1, ListsTaken DEF TreeInv
  <2>6. FailureReported'
    BY <2>1, <2>2, FailureStarted DEF TreeInv, Take
  <2>7. Opened' = Opened \cup {d} /\ OpenedFromAbove'
    BY <2>1, <2>2, <2>3, <2>4, TreeOpen
  <2>8. Backed(events', Opened')
    BY <1>0, <2>1, <2>7, BackedKept DEF TypeOK
  <2>9. \A i \in DOMAIN pass' : pass'[i].of \in Opened'
    <3>1. [of |-> d, at |-> 1] \in Frames /\ SetTop(0) \in Seq(Frames)
      BY <2>2, <2>3, SetTopType DEF Frames, InPass, TypeOK
    <3>2. \A i \in DOMAIN SetTop(0) : SetTop(0)[i].of \in Opened
      BY <2>2, SetTopOf DEF InPass, TypeOK, TreeInv, ControlOK
    <3>. QED
      BY <2>1, <2>7, <3>1, <3>2, AppendProperties
  <2>. QED
    BY <2>1, <2>2, <2>5, <2>6, <2>7, <2>8, <2>9 DEF TreeInv, ControlOK, Backed, NoSignal
<1>. QED
  BY <1>1, <1>2, <1>3

\* A reported job has left the running list of its composite.
LEMMA ListsReported ==
    ASSUME TypeOK, ListsOK, NEW c \in Composites, NEW n,
           running' = [running EXCEPT ![c] = RunningWithout(c, n)],
           UNCHANGED <<todo, leaf, dir>>
    PROVE  /\ ListsOK'
           /\ \A b \in Composites : Range(running'[b]) \subseteq Range(running[b])
           /\ n \in Dirs => n \notin Range(running'[c])
<1>1. Begun' = Begun
  BY Sets
<1>2. \A b \in Composites :
        running'[b] = IF b = c THEN Without(running[c], n) ELSE running[b]
  BY DEF TypeOK, RunningWithout
<1>3. running[c] \in Seq(Items \cup Dirs)
  BY DEF TypeOK
<1>4. \A b \in Composites : \A i \in DOMAIN running'[b] :
        \E j \in DOMAIN running[b] : running[b][j] = running'[b][i]
  BY <1>2, <1>3, WithoutEntries
<1>5. ASSUME NEW b \in Composites, NEW x \in Dirs
      PROVE  /\ \A i, j \in DOMAIN running[b] :
                   running[b][i] = x /\ running[b][j] = x => i = j
             /\ \A i, j \in DOMAIN running'[b] :
                   running'[b][i] = x /\ running'[b][j] = x => i = j
  <2>1. \A i, j \in DOMAIN running[b] : running[b][i] = x /\ running[b][j] = x => i = j
    BY <1>5 DEF ListsOK
  <2>2. CASE b = c
    <3>1. Once(running[c], x)
      BY <2>1, <2>2 DEF Once
    <3>2. Once(Without(running[c], n), x)
      BY <1>3, <3>1, WithoutEntries
    <3>. QED
      BY <1>2, <2>1, <2>2, <3>2 DEF Once
  <2>. QED
    BY <1>2, <2>1, <2>2
<1>6. n \in Dirs => \A i \in DOMAIN running'[c] : running'[c][i] # n
  <2>1. CASE n \in Dirs
    <3>1. \A i \in DOMAIN Without(running[c], n) : Without(running[c], n)[i] # n
      <4>1. Once(running[c], n)
        BY <1>5, <2>1 DEF Once
      <4>. QED
        BY <1>3, <4>1, WithoutEntries
    <3>. QED
      BY <1>2, <3>1
  <2>. QED
    BY <2>1
<1>7. ListsOK'
  BY <1>1, <1>4, <1>5 DEF ListsOK
<1>. QED
  BY <1>4, <1>6, <1>7 DEF Range

LEMMA QuietBacked ==
    ASSUME TypeOK, NEW as, Receive(as), NEW queue \in Seq(Events), NEW open,
           Backed(queue, open), Quiet(queue)
    PROVE  Backed(events', open) /\ signal' = NoSignal
BY Received, BackedUnwind DEF Quiet

LEMMA TreeReported ==
    ASSUME TypeOK, TreeInv, SlotSubJobFinished
    PROVE  TreeInv'
<1>. DEFINE n == signal.from
            c == Parent[n]
            rest == RunningWithout(c, n)
            errs == errors[c] \cup {s \in {signal.status} : FailsComposite(s)}
            queue == IF Contains(active, n)
                     THEN Append(events, Event("delete", n)) ELSE events
<1>1. /\ n \in DOMAIN Parent /\ c \in Composites /\ Receive("sub")
      /\ n \in Begun /\ c \in Opened
      /\ UNCHANGED <<leaf, dir, todo, pass, cancel>>
      /\ running' = [running EXCEPT ![c] = rest]
  BY Received, Nodes DEF SlotSubJobFinished, Receive, TreeInv, ControlOK,
                         OpenedFromAbove
<1>2. /\ ListsOK'
      /\ \A b \in Composites : Range(running'[b]) \subseteq Range(running[b])
      /\ n \in Dirs => n \notin Range(running'[c])
  BY <1>1, ListsReported DEF TreeInv
<1>3. FailureReported'
  <2>1. ASSUME NEW b \in Composites, NEW d \in Acting, d \in Range(running'[b])
        PROVE  leaf[d] \notin Statuses \ Positive
    <3>1. PICK j \in DOMAIN running[b] : running[b][j] = d
      BY <1>2, <2>1 DEF Range
    <3>2. leaf[d] \in Statuses \ Positive => d = n
      BY <3>1 DEF TreeInv, FailureReported
    <3>3. Parent[d] = b /\ d \in Dirs
      BY <3>1, Nodes DEF TreeInv, ListsOK
    <3>. QED
      BY <1>2, <2>1, <3>2, <3>3
  <2>. QED
    BY <1>1, <2>1 DEF FailureReported, Range
<1>4. Begun' = Begun
  BY <1>1, Sets
<1>5. Backed(queue, Opened) /\ queue \in Seq(Events)
  <2>1. /\ Event("delete", n) \in Events /\ Event("delete", n).kind = "delete"
        /\ events \in Seq(Events)
    BY <1>1, EventTypes DEF Event, TypeOK
  <2>. QED
    BY <2>1, BackedEvents, BackedAppend, AppendType DEF TreeInv
<1>6. CASE Quiet(scheduleNextJob(queue)) /\ UNCHANGED comp
  <2>1. Opened' = Opened /\ OpenedFromAbove'
    BY <1>1, <1>4, <1>6, Sets, OpenedStep DEF TreeInv
  <2>2. Backed(events', Opened) /\ signal' = NoSignal
    <3>1. scheduleNextJob(queue) \in Seq(Events) /\ Backed(scheduleNextJob(queue), Opened)
      BY <1>5, QueueTypes, BackedUnwind
    <3>. QED
      BY <1>1, <1>6, <3>1, QuietBacked
  <2>. QED
    BY <1>1, <1>2, <1>3, <1>4, <2>1, <2>2 DEF TreeInv, ControlOK, Backed, NoSignal
<1>7. CASE \E status \in IF errs = {} THEN {"Success"} ELSE errs :
             /\ comp' = [comp EXCEPT ![c] = status]
             /\ Emit(c, "comp", status, signal.after)
             /\ events' = queue
  <2>1. PICK status \in Statuses :
          /\ comp' = [comp EXCEPT ![c] = status]
          /\ Emit(c, "comp", status, signal.after)
          /\ events' = queue
    <3>1. errs \subseteq Statuses
      BY <1>1 DEF FailsComposite, TypeOK, Statuses
    <3>. QED
      BY <1>7, <3>1 DEF Statuses
  <2>2. Opened' = Opened /\ OpenedFromAbove'
    <3>1. Opened' = Opened
      BY <1>1, <2>1 DEF Opened, TypeOK, Statuses, Errors
    <3>. QED
      BY <1>1, <1>4, <3>1, OpenedStep DEF TreeInv
  <2>3. signal'.as = "comp" /\ signal'.from = c
    BY <2>1 DEF Emit
  <2>. QED
    BY <1>1, <1>2, <1>3, <1>4, <1>5, <2>1, <2>2, <2>3 DEF TreeInv, ControlOK, Backed
<1>. QED
  BY <1>6, <1>7 DEF SlotSubJobFinished

LEMMA TreeCascade ==
    ASSUME TypeOK, TreeInv,
           \/ Finalize \/ SlotFirstJobFinished \/ SlotSubJobsFinished
           \/ SlotRootSubJobsFinished \/ SlotDirDeletionJobsFinished
    PROVE  TreeInv'
<1>0. Backed(events, Opened) /\ events \in Seq(Events)
  BY BackedEvents DEF TreeInv, TypeOK
<1>1. CASE Finalize
  <2>. DEFINE c == Head(events).of
  <2>1. /\ UNCHANGED <<leaf, dir, todo, running, pass, cancel>>
        /\ signal = NoSignal /\ events # <<>> /\ events' = Tail(events)
    BY <1>1 DEF Finalize, AtEventLoop
  <2>2. c \in Opened /\ c \in Composites
    <3>1. Head(events) = events[1] /\ 1 \in DOMAIN events
      BY <1>0, <2>1, NonEmpty, HeadTailProperties
    <3>. QED
      BY <1>0, <1>1, <3>1 DEF Finalize, Backed, Opened
  <2>3. Begun' = Begun /\ Backed(events', Opened)
    BY <2>1, Sets, BackedEvents DEF TreeInv
  <2>4. ListsOK' /\ FailureReported'
    BY <2>1, <2>3, ListsKept, FailureKept DEF TreeInv, NoSignal
  <2>5. CASE UNCHANGED <<comp, signal>>
    <3>1. Opened' = Opened /\ OpenedFromAbove'
      BY <2>1, <2>3, <2>5, Sets, OpenedStep DEF TreeInv
    <3>. QED
      BY <2>1, <2>3, <2>4, <2>5, <3>1 DEF TreeInv, ControlOK, Backed
  <2>6. CASE \E status \in IF errors[c] = {} THEN {"Success"} ELSE errors[c] :
               comp' = [comp EXCEPT ![c] = status] /\ Emit(c, "comp", status, {})
    <3>1. PICK status \in Statuses :
            comp' = [comp EXCEPT ![c] = status] /\ Emit(c, "comp", status, {})
      BY <2>2, <2>6 DEF TypeOK, Statuses
    <3>2. Opened' = Opened
      BY <2>2, <3>1 DEF Opened, TypeOK, Statuses, Errors
    <3>3. OpenedFromAbove'
      BY <2>1, <2>3, <3>2, OpenedStep DEF TreeInv
    <3>4. signal'.as = "comp" /\ signal'.from = c
      BY <3>1 DEF Emit
    <3>. QED
      BY <2>1, <2>2, <2>3, <2>4, <3>2, <3>3, <3>4 DEF TreeInv, ControlOK, Backed
  <2>. QED
    BY <1>1, <2>5, <2>6 DEF Finalize
<1>2. CASE SlotFirstJobFinished
  <2>. DEFINE d == signal.from
  <2>1. /\ UNCHANGED <<leaf, comp, todo, running, pass, cancel>>
        /\ Receive("first") /\ signal.as = "first" /\ d \in Acting
        /\ leaf[d] = signal.status /\ signal.status \in Statuses
    BY <1>2, Received DEF SlotFirstJobFinished, Receive, TreeInv, ControlOK
  <2>2. d \in Begun
    BY <2>1 DEF TreeInv, OpenedFromAbove, Statuses, Errors
  <2>3. CASE /\ signal.status \in Positive
             /\ Quiet(scheduleNextJob(events)) /\ UNCHANGED dir
    <3>1. Begun' = Begun /\ Opened' = Opened
      BY <2>1, <2>3, Sets
    <3>2. ListsOK' /\ OpenedFromAbove'
      BY <2>1, <2>3, <3>1, ListsKept, OpenedStep DEF TreeInv
    <3>3. FailureReported'
      BY <2>1, <2>3 DEF FailureReported, TreeInv
    <3>4. Backed(events', Opened) /\ signal' = NoSignal
      <4>1. /\ scheduleNextJob(events) \in Seq(Events)
            /\ Backed(scheduleNextJob(events), Opened)
        BY <1>0, QueueTypes, BackedUnwind
      <4>. QED
        BY <2>1, <2>3, <4>1, QuietBacked
    <3>. QED
      BY <2>1, <3>1, <3>2, <3>3, <3>4 DEF TreeInv, ControlOK, Backed, NoSignal
  <2>4. CASE /\ dir' = [dir EXCEPT ![d] = signal.status]
             /\ Emit(d, "sub", signal.status, signal.after)
             /\ UNCHANGED <<events, timer>>
    <3>1. Begun' = Begun /\ Opened' = Opened
      BY <2>1, <2>2, <2>4, Sets, Nodes DEF Begun, TypeOK, Statuses, Errors
    <3>2. ListsOK' /\ OpenedFromAbove'
      BY <2>1, <3>1, ListsKept, OpenedStep DEF TreeInv
    <3>3. signal'.as = "sub" /\ signal'.from = d
      BY <2>4 DEF Emit
    <3>4. FailureReported'
      BY <2>1, <3>3 DEF FailureReported, TreeInv
    <3>. QED
      BY <1>0, <2>1, <2>2, <2>4, <3>1, <3>2, <3>3, <3>4 DEF TreeInv, ControlOK, Backed
  <2>. QED
    BY <1>2, <2>3, <2>4 DEF SlotFirstJobFinished, Positive
<1>3. CASE SlotSubJobsFinished
  <2>. DEFINE d == signal.from
  <2>1. /\ UNCHANGED <<leaf, comp, todo, running, pass, cancel, events>>
        /\ signal.as = "comp" /\ d \in Dirs \ {Root} /\ d \in Opened
        /\ signal.status \in Statuses
    BY <1>3, Received
       DEF SlotSubJobsFinished, Receive, Composites, TreeInv, ControlOK
  <2>2. d \in Begun /\ (d \in Acting => leaf[d] \in Positive)
    BY <2>1 DEF TreeInv, OpenedFromAbove
  <2>3. PICK status \in Statuses : \E after : FinishDirectory(d, status, after)
    <3>1. OwnStatus(d) \in Statuses
      BY <2>2 DEF OwnStatus, Positive, Statuses, Errors
    <3>. QED
      BY <1>3, <2>1, <3>1 DEF SlotSubJobsFinished, Statuses, Errors
  <2>4. Begun' = Begun /\ Opened' = Opened
    BY <2>1, <2>2, <2>3, Sets DEF Begun, TypeOK, FinishDirectory, Statuses, Errors
  <2>5. ListsOK' /\ OpenedFromAbove' /\ FailureReported'
    BY <2>1, <2>4, ListsKept, FailureKept, OpenedStep DEF TreeInv
  <2>6. signal'.as = "sub" /\ signal'.from = d
    BY <2>3 DEF FinishDirectory, Emit
  <2>. QED
    BY <1>0, <2>1, <2>2, <2>4, <2>5, <2>6 DEF TreeInv, ControlOK, Backed
<1>4. CASE SlotRootSubJobsFinished
  <2>1. /\ UNCHANGED <<leaf, dir, comp, running, pass, cancel>>
        /\ Receive("comp") /\ signal.as = "comp"
        /\ Quiet(scheduleNextJob(events))
        /\ \A c \in Composites : todo'[c] \subseteq todo[c]
    BY <1>4 DEF SlotRootSubJobsFinished, Receive, TypeOK
  <2>2. Begun' = Begun /\ Opened' = Opened
    BY <2>1, Sets
  <2>3. ListsOK' /\ OpenedFromAbove' /\ FailureReported'
    BY <2>1, <2>2, ListsKept, FailureKept, OpenedStep DEF TreeInv
  <2>4. Backed(events', Opened) /\ signal' = NoSignal
    <3>1. /\ scheduleNextJob(events) \in Seq(Events)
          /\ Backed(scheduleNextJob(events), Opened)
      BY <1>0, QueueTypes, BackedUnwind
    <3>. QED
      BY <2>1, <3>1, QuietBacked
  <2>. QED
    BY <2>1, <2>2, <2>3, <2>4 DEF TreeInv, ControlOK, Backed, NoSignal
<1>5. CASE SlotDirDeletionJobsFinished
  <2>1. /\ UNCHANGED <<leaf, comp, todo, running, pass, cancel>>
        /\ Receive("comp") /\ signal.as = "comp" /\ signal' = NoSignal
        /\ \A d \in Dirs \ {Root} : dir'[d] = dir[d]
        /\ EmitFinished(RootStatus(signal.status), Unwind(events, signal.after))
    BY <1>5 DEF SlotDirDeletionJobsFinished, Receive, TypeOK
  <2>2. Begun' = Begun /\ Opened' = Opened
    BY <2>1 DEF Begun, Opened
  <2>3. ListsOK' /\ OpenedFromAbove' /\ FailureReported'
    BY <2>1, <2>2, ListsKept, FailureKept, OpenedStep DEF TreeInv
  <2>4. Backed(events', Opened)
    <3>1. signal.after \in SUBSET {"abort", "schedule"}
      BY <2>1, Received
    <3>2. /\ Unwind(events, signal.after) \in Seq(Events)
          /\ Backed(Unwind(events, signal.after), Opened)
      BY <1>0, <3>1, QueueTypes, BackedUnwind
    <3>. QED
      BY <2>1, <3>2, EmitFinishedBacked
  <2>. QED
    BY <2>1, <2>2, <2>3, <2>4 DEF TreeInv, ControlOK, Backed, NoSignal
<1>. QED
  BY <1>1, <1>2, <1>3, <1>4, <1>5

-----------------------------------------------------------------------------

\* Before the first pass nothing is open.
THEOREM FirstInit == Init => FirstInv
<1>. SUFFICES ASSUME Init PROVE FirstInv
  OBVIOUS
<1>1. TypeOK
  BY TypeInit
<1>2. Begun = {} /\ Opened = {}
  <2>1. \A n \in Items : leaf[n] = NotYetStarted
    BY DEF Init, Leaves
  <2>2. \A d \in Dirs : dir[d] = NotYetStarted
    BY DEF Init
  <2>3. \A c \in Composites : comp[c] = NotYetStarted
    BY DEF Init
  <2>. QED
    BY <2>1, <2>2, <2>3 DEF Begun, Opened
<1>3. ListsOK
  <2>1. \A c \in Composites : \A n \in todo[c] : n \in DOMAIN Parent /\ Parent[n] = c
    BY DEF Init
  <2>2. \A c \in Composites : running[c] = <<>>
    BY DEF Init
  <2>. QED
    BY <1>2, <2>1, <2>2 DEF ListsOK
<1>4. ControlOK
  <2>1. /\ signal = NoSignal /\ pass = <<>> /\ cancel = {}
        /\ events = <<Event("schedule", Root)>>
    BY DEF Init
  <2>. QED
    BY <2>1 DEF ControlOK, NoSignal, Event
<1>5. FailureReported
  <2>1. \A c \in Composites : running[c] = <<>>
    BY DEF Init
  <2>. QED
    BY <2>1 DEF FailureReported
<1>6. OpenedFromAbove
  <2>1. \A d \in Acting : leaf[d] = NotYetStarted
    BY Nodes DEF Init
  <2>. QED
    BY <1>2, <2>1, Nodes DEF OpenedFromAbove
<1>. QED
  BY <1>1, <1>3, <1>4, <1>5, <1>6 DEF FirstInv

\* Every step of the propagation keeps the lists, the call stack and the queue
\* in line with what has been opened.
THEOREM FirstNext == FirstInv /\ [Next]_vars => FirstInv'
<1>. SUFFICES ASSUME FirstInv, [Next]_vars PROVE FirstInv'
  OBVIOUS
<1>1. CASE Next
  <2>1. TypeOK'
    BY <1>1, TypeNext DEF FirstInv
  <2>2. TreeInv'
    BY <1>1, TreeStill, TreeAnswer, TreeStart, TreePass, TreeReported, TreeCascade
       DEF FirstInv, TreeInv, Next, Handler
  <2>. QED
    BY <2>1, <2>2 DEF FirstInv, TreeInv
<1>2. CASE UNCHANGED vars
  <2>1. TypeOK' /\ Begun' = Begun /\ Opened' = Opened
    BY <1>2 DEF vars, tree, FirstInv, TypeOK, Begun, Opened
  <2>. QED
    BY <1>2, <2>1 DEF vars, tree, FirstInv, ListsOK, ControlOK, FailureReported,
                      OpenedFromAbove
<1>. QED
  BY <1>1, <1>2

\* The signals, lists and events of the propagator are always the ones their
\* handlers expect: PropagatorCompositeJob never delivers a job's end to a
\* composite it does not belong to, and a directory that reports the end of its
\* sub jobs has a status of its own.
THEOREM TypeCorrect == Spec => []TypeOK
<1>1. FirstInv => TypeOK
  BY DEF FirstInv
<1>. QED
  BY <1>1, FirstInit, FirstNext, PTL DEF Spec

\* No job below a directory starts before the directory's own operation has
\* ended well, whatever the tree, the limits, the outcomes and the aborts
\* (PropagateDirectory::scheduleSelfOrChild, slotFirstJobFinished).
THEOREM FirstJobsFirst == Spec => []FirstBeforeChildren
<1>1. FirstInv => FirstBeforeChildren
  <2>. SUFFICES ASSUME FirstInv, NEW d \in Acting, NEW n \in Leaves,
                       d \in Above[n], leaf[n] # NotYetStarted
                PROVE  leaf[d] \in Positive
    BY DEF FirstBeforeChildren, Positive
  <2>1. n \in DOMAIN Parent /\ n \in Begun
    BY Nodes DEF FirstInv, OpenedFromAbove, Begun, Leaves
  <2>2. Parent[n] \in Opened
    BY <2>1 DEF FirstInv, OpenedFromAbove
  <2>3. Parent[n] \in Dirs /\ d \in Above[Parent[n]] \cup {Parent[n]}
    BY <2>1, AboveStep
  <2>. QED
    BY <2>2, <2>3 DEF FirstInv, OpenedFromAbove
<1>. QED
  BY <1>1, FirstInit, FirstNext, PTL DEF Spec

=============================================================================
