--------------------------- MODULE PropagatorBooks ---------------------------
(***************************************************************************)
(* Every job of Propagator is accounted for: it waits in a list, is at     *)
(* work in a running list, or has ended, and its end was counted by the    *)
(* composite above.  From these books: what the end of a composite, a      *)
(* saved etag and a reported success stand for, that the deletions come    *)
(* last, that a directory which is moved holds back the jobs above it,     *)
(* that the list of active jobs keeps its limits, and that no wake-up is   *)
(* lost: what waits has a pass, an end or an answer under way.             *)
(***************************************************************************)
EXTENDS PropagatorProofs, FiniteSetTheorems

State(n) == IF n \in Dirs THEN dir[n] ELSE leaf[n]
Busy(n) == IF n \in Dirs THEN dir[n] = "Running" ELSE leaf[n] \in Stages
Reports(n) == signal.as = "sub" /\ signal.from = n
EndedWell(d) == comp[d] = "Success" /\ (d \in Acting => leaf[d] = "Success")
\* The ends of a first job that the composite above does not count as errors.
Uncounted(d) == d \in Acting /\ leaf[d] \in {"Conflict", "Message"}

\* The running lists hold, once, what is at work or just reports its end.
RunningOK ==
    /\ \A c \in Composites : IsInjective(running[c])
    /\ \A n \in DOMAIN Parent :
           n \in Range(running[Parent[n]]) <=> Busy(n) \/ Reports(n)

\* A report tells how its sender has ended, and is the only one under way.
ReportsOK ==
    /\ signal.as = "sub" => signal.status = State(signal.from)
    /\ signal.as = "first" => dir[signal.from] = "Running"
    /\ signal.as = "comp" =>
          /\ signal.status = comp[signal.from]
          /\ IF signal.from = Deletions THEN dir[Root] \notin Statuses
             ELSE dir[signal.from] = "Running"

\* A directory is at work while its own job is, and while its composite is.
DirectoriesOK ==
    /\ \A d \in Acting : leaf[d] \in Stages => dir[d] = "Running"
    /\ \A d \in Dirs : comp[d] = "Running" => dir[d] = "Running"
    /\ dir[Root] \in Statuses => comp[Deletions] \in Statuses
    /\ comp[Deletions] # NotYetStarted => comp[Root] \in Statuses

\* What waits in a list has not started.  The upload of a conflict copy waits
\* from the conflict on.
TodoOK ==
    /\ \A c \in Composites : \A n \in todo[c] \cap Items : leaf[n] = NotYetStarted
    /\ \A m \in DOMAIN Spawns : leaf[m] # "Conflict" =>
          /\ leaf[Spawns[m]] = NotYetStarted
          /\ \A c \in Composites : Spawns[m] \notin todo[c]

\* A composite that is done, or about to be, has nothing left.
Settled == {c \in Composites : Exhausted(c)}
CompositesOK ==
    /\ \A c \in Composites : comp[c] \in Statuses =>
          /\ c \in Settled
          /\ IF errors[c] = {} THEN comp[c] = "Success" ELSE comp[c] \in errors[c]
    /\ Backed(events, Settled)

\* Nothing is forgotten, but deletions below what has failed, and no failure.
Expected(n) == \A m \in DOMAIN Spawns : Spawns[m] = n => leaf[m] = "Conflict"
AccountsOK ==
    /\ \A n \in DOMAIN Parent : State(n) = NotYetStarted /\ Expected(n) =>
          \/ n \in todo[Parent[n]]
          \/ n \in Useless
          \/ Parent[n] = Deletions /\ errors[Root] # {}
    /\ \A n \in DOMAIN Parent : State(n) \in Errors /\ ~Reports(n) =>
          errors[Parent[n]] # {}

\* A good end, a saved etag and a success stand for good ends below.
EndsOK ==
    /\ \A d \in Dirs \ {Root} : dir[d] \in Statuses \ Errors =>
          EndedWell(d) \/ Uncounted(d)
    /\ \A d \in saved : d # Root /\ EndedWell(d)
    /\ result = "Success" => comp[Root] = "Success" /\ comp[Deletions] = "Success"

BooksOK ==
    /\ RunningOK /\ ReportsOK /\ DirectoriesOK /\ TodoOK
    /\ CompositesOK /\ AccountsOK /\ EndsOK

-----------------------------------------------------------------------------
\* Lists without repetition.

LEMMA EmptyRange ==
    ASSUME NEW S, NEW s \in Seq(S)
    PROVE  s = <<>> <=> Range(s) = {}
<1>1. CASE s = <<>>
  BY <1>1 DEF Range
<1>2. CASE s # <<>>
  <2>1. 1 \in DOMAIN s
    BY <1>2, NonEmpty
  <2>. QED
    BY <1>2, <2>1 DEF Range
<1>. QED
  BY <1>1, <1>2

\* A new member joins a list that stays without repetition.
LEMMA AppendRange ==
    ASSUME NEW S, NEW s \in Seq(S), NEW e
    PROVE  /\ Range(Append(s, e)) = Range(s) \cup {e}
           /\ IsInjective(s) /\ e \notin Range(s) => IsInjective(Append(s, e))
<1>. DEFINE l == Len(s)
            more == Append(s, e)
<1>1. l \in Nat /\ DOMAIN s = 1..l
  BY LenProperties
<1>2. /\ DOMAIN more = 1..(l + 1) /\ more[l + 1] = e
      /\ \A i \in 1..l : more[i] = s[i]
  <2>1. s \in Seq(S \cup {e}) /\ e \in S \cup {e}
    OBVIOUS
  <2>. QED
    BY <1>1, <2>1, AppendProperties, LenProperties
<1>. HIDE DEF l, more
<1>3. \A i \in DOMAIN more : i \in DOMAIN s \/ i = l + 1
  BY <1>1, <1>2
<1>4. DOMAIN s \subseteq DOMAIN more /\ l + 1 \in DOMAIN more
  BY <1>1, <1>2
<1>5. Range(more) = Range(s) \cup {e}
  BY <1>1, <1>2, <1>3, <1>4 DEF Range
<1>6. IsInjective(s) /\ e \notin Range(s) => IsInjective(more)
  BY <1>1, <1>2, <1>3 DEF Range, IsInjective
<1>. QED
  BY <1>5, <1>6 DEF more

\* removeOne() of a list without repetition.
LEMMA WithoutRange ==
    ASSUME NEW S, NEW s \in Seq(S), NEW n, IsInjective(s)
    PROVE  /\ Range(Without(s, n)) = Range(s) \ {n}
           /\ IsInjective(Without(s, n))
<1>1. \A x : Once(s, x)
  BY DEF IsInjective, Once
<1>. DEFINE rest == Without(s, n)
<1>2. /\ \A i \in DOMAIN rest : \E j \in DOMAIN s : s[j] = rest[i]
      /\ \A x : Once(s, x) => Once(rest, x)
      /\ Once(s, n) => \A i \in DOMAIN rest : rest[i] # n
      /\ \A j \in DOMAIN s : s[j] # n => \E i \in DOMAIN rest : rest[i] = s[j]
  BY WithoutEntries
<1>. HIDE DEF rest
<1>3. IsInjective(rest)
  BY <1>1, <1>2 DEF IsInjective, Once
<1>4. Range(rest) = Range(s) \ {n}
  BY <1>1, <1>2 DEF Range
<1>. QED
  BY <1>3, <1>4 DEF rest

-----------------------------------------------------------------------------
\* The books are kept.

\* The words of the states are different words.
LEMMA Words ==
    /\ NotYetStarted \notin Stages \cup Statuses \cup {"Running"}
    /\ "Running" \notin Statuses /\ Stages \cap Statuses = {}
    /\ Errors \subseteq Statuses /\ Positive \subseteq Statuses
    /\ Positive \cap Errors = {} /\ "Success" \notin Errors
    /\ \A s \in Statuses : s \in Errors \cup Positive \cup {"Message"}
    /\ Positive = {"Success", "Conflict"} /\ "Message" \notin Errors
BY DEF Stages, Statuses, Errors, Positive, NotYetStarted

\* The types, one by one.
LEMMA Types ==
    ASSUME TypeOK
    PROVE  /\ leaf \in [Leaves -> {NotYetStarted} \cup Stages \cup Statuses]
           /\ dir \in [Dirs -> {NotYetStarted, "Running"} \cup Statuses]
           /\ comp \in [Composites -> {NotYetStarted, "Running"} \cup Statuses]
           /\ todo \in [Composites -> SUBSET (Items \cup Dirs)]
           /\ running \in [Composites -> Seq(Items \cup Dirs)]
           /\ errors \in [Composites -> SUBSET Errors]
           /\ events \in Seq(Events)
BY DEF TypeOK

\* What the lists hold, seen from the nodes.
LEMMA Listed ==
    ASSUME FirstInv
    PROVE  /\ \A c \in Composites : \A n \in todo[c] :
                 n \in DOMAIN Parent /\ Parent[n] = c /\ (n \in Dirs => n \notin Begun)
           /\ \A c \in Composites : \A n \in Range(running[c]) :
                 n \in DOMAIN Parent /\ Parent[n] = c /\ n \in Begun
           /\ \A c \in Composites : running[c] = <<>> <=> Range(running[c]) = {}
<1>1. TypeOK /\ ListsOK
  BY DEF FirstInv
<1>2. \A c \in Composites : running[c] \in Seq(Items \cup Dirs)
  BY <1>1, Types
<1>3. \A c \in Composites : running[c] = <<>> <=> Range(running[c]) = {}
  BY <1>2, EmptyRange
<1>4. \A c \in Composites : \A n \in Range(running[c]) :
         n \in DOMAIN Parent /\ Parent[n] = c /\ n \in Begun
  BY <1>1 DEF ListsOK, Range
<1>5. \A c \in Composites : \A n \in todo[c] :
         n \in DOMAIN Parent /\ Parent[n] = c /\ (n \in Dirs => n \notin Begun)
  BY <1>1 DEF ListsOK
<1>. QED
  BY <1>3, <1>4, <1>5

LEMMA EmptyRanges == \A s \in Seq(Items \cup Dirs) : s = <<>> <=> Range(s) = {}
BY EmptyRange

\* What the end of a leaf's job adds to a list: the upload of a conflict copy.
Spawned(n, v) == {Spawns[m] : m \in {k \in DOMAIN Spawns : k = n /\ v = "Conflict"}}

\* The job of leaf n starts, goes on or ends.
LeafMoves(n, v) ==
    /\ \A m \in Leaves : leaf'[m] = IF m = n THEN v ELSE leaf[m]
    /\ \A d \in Dirs : dir'[d] = IF d = n THEN "Running" ELSE dir[d]
    /\ \A c \in Composites :
          todo'[c] = (todo[c] \ {n}) \cup {x \in Spawned(n, v) : Parent[x] = c}
    /\ \A c \in Composites :
          /\ Range(running'[c]) = Range(running[c]) \cup {x \in {n} : Parent[x] = c}
          /\ IsInjective(running'[c])
    /\ UNCHANGED <<comp, errors, saved, result>>
    /\ signal = NoSignal
    /\ \/ v \in Stages /\ signal' = NoSignal
       \/ /\ signal'.as = (IF n \in Dirs THEN "first" ELSE "sub")
          /\ signal'.from = n /\ signal'.status = v /\ v \in Statuses

\* A leaf starts, goes on or ends: the books stay right.
LEMMA BooksLeaf ==
    ASSUME FirstInv, BooksOK, FirstInv',
           NEW n \in Leaves, NEW v \in Stages \cup Statuses, LeafMoves(n, v),
           leaf[n] \in Stages \/ (leaf[n] = NotYetStarted /\ n \in todo[Parent[n]]),
           Backed(events', Settled)
    PROVE  BooksOK'
<1>1. /\ n \in DOMAIN Parent /\ Parent[n] \in Composites
      /\ n \in Dirs <=> n \in Acting
      /\ n \notin Dirs => n \in Items
      /\ n # Root
  BY Nodes, TreeAssumption DEF Leaves, Composites
<1>2. /\ leaf[n] \notin Statuses /\ v # NotYetStarted /\ leaf'[n] = v
      /\ n \in Dirs => leaf'[n] = v /\ dir'[n] = "Running"
  BY Words DEF LeafMoves
<1>3. /\ \A m \in DOMAIN Spawns : Spawns[m] \in Items /\ m \in Leaves
      /\ \A m, k \in DOMAIN Spawns : Spawns[m] = Spawns[k] => m = k
      /\ Items \cap Dirs = {} /\ Items \subseteq Leaves
      /\ \A m \in DOMAIN Spawns : Parent[Spawns[m]] = Associated(m)
  BY JobAssumption, TreeAssumption DEF Composites, Leaves, Associated
<1>4. /\ \A x \in Spawned(n, v) : n \in DOMAIN Spawns /\ x = Spawns[n] /\ v = "Conflict"
      /\ n \in DOMAIN Spawns /\ v = "Conflict" => Spawns[n] \in Spawned(n, v)
  BY DEF Spawned
<1>5. \A m \in DOMAIN Spawns : leaf[m] # "Conflict" => Spawns[m] # n
  BY <1>1, <1>3, Words DEF BooksOK, TodoOK
<1>6. signal'.as # "comp" /\ ~(\E m : Reports(m))
  BY DEF LeafMoves, Reports, NoSignal
<1>7. n \in Dirs /\ leaf[n] \in Stages => dir[n] = "Running"
  BY <1>1 DEF BooksOK, DirectoriesOK
<1>8. n \in Dirs => comp[n] = NotYetStarted /\ n \notin Opened
  <2>1. n \in Dirs => n \notin Opened
    BY <1>1, Words DEF FirstInv, OpenedFromAbove
  <2>. QED
    BY <2>1, Nodes DEF Opened
<1>9. RunningOK'
  <2>1. ASSUME NEW m \in DOMAIN Parent
        PROVE  m \in Range(running'[Parent[m]]) <=> Busy(m)' \/ Reports(m)'
    <3>1. m \in Range(running[Parent[m]]) <=> Busy(m)
      BY <1>6 DEF BooksOK, RunningOK
    <3>2. Parent[m] \in Composites /\ (m \notin Dirs => m \in Leaves)
      BY Nodes DEF Leaves
    <3>3. CASE m # n
      <4>1. Busy(m)' <=> Busy(m)
        BY <3>2, <3>3 DEF Busy, LeafMoves
      <4>2. ~Reports(m)'
        BY <3>3 DEF Reports, LeafMoves, NoSignal
      <4>. QED
        BY <3>1, <3>2, <3>3, <4>1, <4>2 DEF LeafMoves
    <3>4. CASE m = n
      <4>1. Busy(m)' \/ Reports(m)'
        BY <1>2, <3>4 DEF Busy, Reports, LeafMoves
      <4>. QED
        BY <3>2, <3>4, <4>1 DEF LeafMoves
    <3>. QED
      BY <3>3, <3>4
  <2>2. \A c \in Composites : IsInjective(running'[c])
    BY DEF LeafMoves
  <2>. QED
    BY <2>1, <2>2 DEF RunningOK
<1>10. ReportsOK'
  BY <1>1, <1>2 DEF ReportsOK, State, LeafMoves, NoSignal
<1>11. DirectoriesOK'
  <2>1. DirectoriesOK
    BY DEF BooksOK
  <2>2. comp' = comp /\ (\A m \in Leaves : leaf'[m] = IF m = n THEN v ELSE leaf[m])
        /\ (\A d \in Dirs : dir'[d] = IF d = n THEN "Running" ELSE dir[d])
    BY DEF LeafMoves
  <2>3. Root \in Dirs /\ Acting \subseteq Leaves
    BY TreeAssumption, Nodes
  <2>. QED
    BY <1>1, <2>1, <2>2, <2>3, Nodes DEF DirectoriesOK
<1>12. TodoOK'
  <2>1. ASSUME NEW c \in Composites, NEW m \in todo'[c] \cap Items
        PROVE  leaf'[m] = NotYetStarted
    <3>1. (m \in todo[c] /\ m # n) \/ m \in Spawned(n, v)
      BY <2>1 DEF LeafMoves
    <3>2. CASE m \in todo[c] /\ m # n
      BY <1>3, <3>2 DEF BooksOK, TodoOK, LeafMoves
    <3>3. CASE m \in Spawned(n, v)
      <4>1. n \in DOMAIN Spawns /\ m = Spawns[n] /\ leaf[n] # "Conflict"
        BY <1>2, <1>4, <3>3, Words
      <4>2. m # n /\ leaf[m] = NotYetStarted
        BY <1>5, <4>1 DEF BooksOK, TodoOK
      <4>. QED
        BY <1>3, <2>1, <4>2 DEF LeafMoves
    <3>. QED
      BY <3>1, <3>2, <3>3
  <2>2. ASSUME NEW m \in DOMAIN Spawns, leaf'[m] # "Conflict"
        PROVE  /\ leaf'[Spawns[m]] = NotYetStarted
               /\ \A c \in Composites : Spawns[m] \notin todo'[c]
    <3>1. leaf[m] # "Conflict"
      BY <1>2, <1>3, <2>2, Words DEF LeafMoves
    <3>2. /\ leaf[Spawns[m]] = NotYetStarted /\ Spawns[m] # n
          /\ \A c \in Composites : Spawns[m] \notin todo[c]
      BY <1>5, <3>1 DEF BooksOK, TodoOK
    <3>3. Spawns[m] \notin Spawned(n, v)
      BY <1>2, <1>3, <1>4, <2>2
    <3>. QED
      BY <1>3, <3>2, <3>3 DEF LeafMoves
  <2>. QED
    BY <2>1, <2>2 DEF TodoOK
<1>13. CompositesOK'
  <2>1. ASSUME NEW c \in Composites, c \in Opened, c \in Settled
        PROVE  c \in Settled'
    <3>1. todo[c] = {} /\ running[c] = <<>>
      BY <2>1 DEF Settled, Exhausted
    <3>2. c # Parent[n]
      <4>1. CASE leaf[n] \in Stages
        <5>1. Busy(n)
          BY <1>7, <4>1 DEF Busy
        <5>2. n \in Range(running[Parent[n]])
          BY <1>1, <5>1 DEF BooksOK, RunningOK
        <5>. QED
          BY <1>1, <3>1, <5>2, Listed
      <4>2. CASE n \in todo[Parent[n]]
        BY <3>1, <4>2
      <4>. QED
        BY <4>1, <4>2
    <3>3. \A x \in Spawned(n, v) : Parent[x] # c
      BY <1>3, <1>4, <1>8, <2>1, <3>2 DEF Associated
    <3>4. todo'[c] = {} /\ Range(running'[c]) = Range(running[c])
      <4>1. /\ {x \in Spawned(n, v) : Parent[x] = c} = {}
            /\ {x \in {n} : Parent[x] = c} = {}
        BY <3>2, <3>3
      <4>2. todo'[c] = (todo[c] \ {n}) \cup {}
        BY <4>1 DEF LeafMoves
      <4>3. Range(running'[c]) = Range(running[c]) \cup {}
        BY <4>1 DEF LeafMoves
      <4>. QED
        BY <3>1, <4>2, <4>3
    <3>5. running'[c] = <<>>
      <4>1. /\ running'[c] \in Seq(Items \cup Dirs)
            /\ running[c] \in Seq(Items \cup Dirs)
        BY DEF FirstInv, TypeOK
      <4>. QED
        BY <3>1, <3>4, <4>1, EmptyRanges
    <3>. QED
      BY <3>4, <3>5 DEF Settled, Exhausted
  <2>2. \A c \in Composites : comp'[c] \in Statuses =>
          /\ c \in Settled'
          /\ IF errors'[c] = {} THEN comp'[c] = "Success" ELSE comp'[c] \in errors'[c]
    <3>1. \A c \in Composites : comp[c] \in Statuses => c \in Opened
      BY Words DEF Opened
    <3>. QED
      BY <2>1, <3>1 DEF BooksOK, CompositesOK, LeafMoves
  <2>3. Backed(events', Settled')
    <3>1. Opened' = Opened
      BY DEF LeafMoves, Opened
    <3>2. \A i \in DOMAIN events' : events'[i].kind = "finalize" =>
            events'[i].of \in Opened
      BY <3>1 DEF FirstInv, ControlOK
    <3>. QED
      BY <2>1, <3>2 DEF Backed, Settled
  <2>. QED
    BY <2>2, <2>3 DEF CompositesOK
<1>14. AccountsOK'
  <2>1. ASSUME NEW m \in DOMAIN Parent, State(m)' = NotYetStarted, Expected(m)'
        PROVE  \/ m \in todo'[Parent[m]]
               \/ m \in Useless
               \/ Parent[m] = Deletions /\ errors'[Root] # {}
    <3>1. m # n
      BY <1>1, <1>2, <2>1, Words DEF State
    <3>2. Parent[m] \in Composites /\ State(m) = NotYetStarted
      BY <2>1, <3>1, Nodes DEF State, LeafMoves, Leaves
    <3>3. CASE Expected(m)
      BY <3>1, <3>2, <3>3 DEF BooksOK, AccountsOK, LeafMoves
    <3>4. CASE ~Expected(m)
      <4>1. PICK k \in DOMAIN Spawns : Spawns[k] = m /\ leaf[k] # "Conflict"
        BY <3>4 DEF Expected
      <4>2. leaf'[k] = "Conflict"
        BY <2>1, <4>1 DEF Expected
      <4>3. k = n /\ v = "Conflict"
        BY <1>3, <4>1, <4>2 DEF LeafMoves
      <4>4. m \in Spawned(n, v)
        BY <1>4, <4>1, <4>3
      <4>. QED
        BY <3>2, <4>4 DEF LeafMoves
    <3>. QED
      BY <3>3, <3>4
  <2>2. ASSUME NEW m \in DOMAIN Parent, State(m)' \in Errors, ~Reports(m)'
        PROVE  errors'[Parent[m]] # {}
    <3>1. m # n
      <4>1. State(n)' = IF n \in Dirs THEN "Running" ELSE v
        BY <1>1, <1>2 DEF State
      <4>2. v \in Stages \/ Reports(n)' \/ n \in Dirs
        BY DEF Reports, LeafMoves
      <4>. QED
        BY <2>2, <4>1, <4>2, Words
    <3>2. State(m)' = State(m) /\ ~Reports(m)
      BY <1>6, <3>1, Nodes DEF State, LeafMoves, Leaves
    <3>. QED
      BY <2>2, <3>2 DEF BooksOK, AccountsOK, LeafMoves
  <2>. QED
    BY <2>1, <2>2 DEF AccountsOK
<1>15. EndsOK'
  <2>1. \A d \in Acting : leaf[d] \in Statuses => leaf'[d] = leaf[d]
    BY <1>2, Nodes DEF LeafMoves
  <2>2. \A d \in Dirs : /\ EndedWell(d) => EndedWell(d)'
                        /\ Uncounted(d) => Uncounted(d)'
    <3>1. {"Success", "Conflict", "Message"} \subseteq Statuses
      BY DEF Statuses
    <3>. QED
      BY <2>1, <3>1 DEF EndedWell, Uncounted, LeafMoves
  <2>3. \A d \in Dirs : dir'[d] \in Statuses => dir'[d] = dir[d]
    BY Words DEF LeafMoves
  <2>4. saved \subseteq Dirs
    BY DEF FirstInv, TypeOK
  <2>5. EndsOK /\ UNCHANGED <<saved, result, comp>>
    BY DEF BooksOK, LeafMoves
  <2>6. \A d \in Dirs \ {Root} : dir'[d] \in Statuses \ Errors =>
          EndedWell(d)' \/ Uncounted(d)'
    BY <2>2, <2>3, <2>5 DEF EndsOK
  <2>7. \A d \in saved' : d # Root /\ EndedWell(d)'
    BY <2>2, <2>4, <2>5 DEF EndsOK
  <2>8. result' = "Success" => comp'[Root] = "Success" /\ comp'[Deletions] = "Success"
    BY <2>5 DEF EndsOK
  <2>. QED
    BY <2>6, <2>7, <2>8 DEF EndsOK
<1>. QED
  BY <1>9, <1>10, <1>11, <1>12, <1>13, <1>14, <1>15 DEF BooksOK

\* What PropagateItemJob::done changes.
LEMMA DoneMoves ==
    ASSUME FirstInv, NEW n \in Leaves, NEW status \in Statuses, NEW after,
           NEW queued \in [Composites -> SUBSET (Items \cup Dirs)],
           Done(n, status, after, queued)
    PROVE  /\ \A m \in Leaves : leaf'[m] = IF m = n THEN status ELSE leaf[m]
           /\ \A c \in Composites :
                 todo'[c] = queued[c] \cup {x \in Spawned(n, status) : Parent[x] = c}
           /\ signal'.as = (IF n \in Dirs THEN "first" ELSE "sub")
           /\ signal'.from = n /\ signal'.status = status
<1>1. Softened(status) = status
  BY DEF Softened, AbortRequested
<1>2. \A m \in Leaves : leaf'[m] = IF m = n THEN status ELSE leaf[m]
  BY <1>1 DEF Done, FirstInv, TypeOK
<1>3. \A c \in Composites :
        todo'[c] = queued[c] \cup {x \in Spawned(n, status) : Parent[x] = c}
  <2>1. CASE status = "Conflict" /\ n \in DOMAIN Spawns
    <3>1. /\ Associated(n) \in Composites /\ Parent[Spawns[n]] = Associated(n)
          /\ Spawned(n, status) = {Spawns[n]}
      BY <2>1, JobAssumption, Nodes DEF Associated, Spawned
    <3>2. todo' = [queued EXCEPT ![Associated(n)] = @ \cup {Spawns[n]}]
      BY <1>1, <2>1 DEF Done
    <3>. QED
      BY <3>1, <3>2
  <2>2. CASE ~(status = "Conflict" /\ n \in DOMAIN Spawns)
    <3>1. Spawned(n, status) = {} /\ todo' = queued
      BY <1>1, <2>2 DEF Done, Spawned
    <3>. QED
      BY <3>1
  <2>. QED
    BY <2>1, <2>2
<1>4. /\ signal'.as = (IF n \in Dirs THEN "first" ELSE "sub")
      /\ signal'.from = n /\ signal'.status = status
  BY <1>1 DEF Done, Emit
<1>. QED
  BY <1>2, <1>3, <1>4

\* A leaf at work is in a running list and in no list of what is to be done.
LEMMA AtWork ==
    ASSUME FirstInv, BooksOK, NEW n \in Leaves, leaf[n] \in Stages
    PROVE  /\ n \in Dirs => dir[n] = "Running"
           /\ \A c \in Composites : n \notin todo[c]
           /\ n \in DOMAIN Parent /\ n \in Range(running[Parent[n]])
<1>1. n \in DOMAIN Parent /\ (n \in Dirs => n \in Acting) /\ (n \notin Dirs => n \in Items)
  BY Nodes DEF Leaves
<1>2. n \in Dirs => dir[n] = "Running"
  BY <1>1 DEF BooksOK, DirectoriesOK
<1>3. n \in Dirs => n \in Begun
  BY <1>1, Words DEF FirstInv, OpenedFromAbove
<1>4. n \notin Dirs => \A c \in Composites : n \notin todo[c]
  BY <1>1, Words DEF BooksOK, TodoOK
<1>5. n \in Dirs => \A c \in Composites : n \notin todo[c]
  BY <1>3, Listed
<1>6. n \in Range(running[Parent[n]])
  BY <1>1, <1>2 DEF BooksOK, RunningOK, Busy
<1>. QED
  BY <1>1, <1>2, <1>4, <1>5, <1>6

\* The job of leaf n answers, or is aborted.
LEMMA BooksAnswer ==
    ASSUME FirstInv, BooksOK, FirstInv', CancelReply \/ \E n \in Leaves : Answer(n)
    PROVE  BooksOK'
<1>1. ASSUME NEW n \in Leaves, leaf[n] \in Stages, signal = NoSignal,
             UNCHANGED <<dir, comp, running, errors, events, saved, result>>,
             \/ \E v \in Stages : leaf' = [leaf EXCEPT ![n] = v] /\ UNCHANGED <<todo, signal>>
             \/ \E status \in Statuses : Done(n, status, {}, todo)
      PROVE  BooksOK'
  <2>1. /\ n \in Dirs => dir[n] = "Running"
        /\ \A c \in Composites : n \notin todo[c]
        /\ n \in DOMAIN Parent /\ n \in Range(running[Parent[n]])
    BY <1>1, AtWork
  <2>2. \A c \in Composites :
          /\ Range(running'[c]) = Range(running[c]) \cup {x \in {n} : Parent[x] = c}
          /\ IsInjective(running'[c])
    BY <1>1, <2>1 DEF BooksOK, RunningOK
  <2>3. \A d \in Dirs : dir'[d] = IF d = n THEN "Running" ELSE dir[d]
    BY <1>1, <2>1
  <2>4. Backed(events', Settled)
    BY <1>1 DEF BooksOK, CompositesOK
  <2>5. PICK v \in Stages \cup Statuses :
          /\ \A m \in Leaves : leaf'[m] = IF m = n THEN v ELSE leaf[m]
          /\ \A c \in Composites :
                todo'[c] = todo[c] \cup {x \in Spawned(n, v) : Parent[x] = c}
          /\ \/ v \in Stages /\ signal' = NoSignal
             \/ /\ signal'.as = (IF n \in Dirs THEN "first" ELSE "sub")
                /\ signal'.from = n /\ signal'.status = v /\ v \in Statuses
    <3>1. CASE \E v \in Stages :
                 leaf' = [leaf EXCEPT ![n] = v] /\ UNCHANGED <<todo, signal>>
      <4>1. PICK v \in Stages :
              leaf' = [leaf EXCEPT ![n] = v] /\ UNCHANGED <<todo, signal>>
        BY <3>1
      <4>2. v \in Stages \cup Statuses /\ Spawned(n, v) = {}
        BY DEF Spawned, Stages
      <4>3. \A m \in Leaves : leaf'[m] = IF m = n THEN v ELSE leaf[m]
        BY <4>1 DEF FirstInv, TypeOK
      <4>. QED
        BY <1>1, <4>1, <4>2, <4>3
    <3>2. CASE \E status \in Statuses : Done(n, status, {}, todo)
      <4>1. PICK status \in Statuses : Done(n, status, {}, todo)
        BY <3>2
      <4>2. todo \in [Composites -> SUBSET (Items \cup Dirs)]
        BY DEF FirstInv, TypeOK
      <4>. QED
        BY <4>1, <4>2, DoneMoves
    <3>. QED
      BY <1>1, <3>1, <3>2
  <2>6. LeafMoves(n, v)
    BY <1>1, <2>1, <2>2, <2>3, <2>5 DEF LeafMoves
  <2>. QED
    BY <1>1, <2>4, <2>5, <2>6, BooksLeaf
<1>2. \A n \in Leaves : OutcomesOf(n) \subseteq Statuses
  BY JobAssumption DEF OutcomesOf
<1>3. ASSUME NEW n \in Leaves, Answer(n) PROVE BooksOK'
  <2>1. CASE StartUpload(n)
    BY <1>1, <2>1 DEF StartUpload, Stages, AtEventLoop
  <2>2. CASE FileLocked(n)
    BY <1>1, <2>2 DEF FileLocked, Stages, Statuses, Errors, AtEventLoop
  <2>3. CASE Reply(n)
    <3>1. PICK status \in OutcomesOf(n) : leaf[n] \in Stages /\ Done(n, status, {}, todo)
      BY <2>3 DEF Reply, Stages
    <3>2. status \in Statuses
      BY <1>2
    <3>. QED
      BY <1>1, <2>3, <3>1, <3>2 DEF Reply, AtEventLoop
  <2>4. CASE DownloadReceived(n)
    BY <1>1, <2>4 DEF DownloadReceived, Stages, AtEventLoop
  <2>5. CASE Validated(n)
    <3>1. PICK status \in OutcomesOf(n) : leaf[n] \in Stages /\ Done(n, status, {}, todo)
      BY <2>5 DEF Validated, Stages
    <3>2. status \in Statuses
      BY <1>2
    <3>. QED
      BY <1>1, <2>5, <3>1, <3>2 DEF Validated, AtEventLoop
  <2>. QED
    BY <1>3, <2>1, <2>2, <2>3, <2>4, <2>5 DEF Answer
<1>4. CASE CancelReply
  <2>1. PICK n \in cancel \ {Root} :
          /\ signal = NoSignal
          /\ Done(n, "Fatal", {}, todo)
          /\ UNCHANGED <<dir, comp, running, errors, events, saved, result>>
    BY <1>4 DEF CancelReply
  <2>2. n \in Leaves /\ leaf[n] \in Stages /\ "Fatal" \in Statuses
    BY DEF FirstInv, TypeOK, ControlOK, Stages, Statuses, Errors
  <2>. QED
    BY <1>1, <2>1, <2>2
<1>. QED
  BY <1>3, <1>4

\* What waits in a list is not at work.
LEMMA Untouched ==
    ASSUME FirstInv, BooksOK, signal = NoSignal, NEW c \in Composites, NEW n \in todo[c]
    PROVE  /\ n \in DOMAIN Parent /\ Parent[n] = c /\ State(n) = NotYetStarted
           /\ n \in Leaves => leaf[n] = NotYetStarted
           /\ \A b \in Composites : n \notin Range(running[b])
           /\ n \in Dirs => comp[n] = NotYetStarted /\ n \in Dirs \ {Root}
<1>1. n \in DOMAIN Parent /\ Parent[n] = c /\ (n \in Dirs => n \notin Begun)
  BY Listed
<1>2. n \in Dirs => n \in Dirs \ {Root} /\ dir[n] = NotYetStarted /\ n \notin Opened
  <2>1. n \in Dirs => n # Root
    BY <1>1, Nodes, TreeAssumption DEF Composites
  <2>. QED
    BY <1>1, <2>1 DEF Begun, FirstInv, OpenedFromAbove
<1>3. n \in Dirs /\ n \in Leaves => leaf[n] = NotYetStarted
  BY <1>1, Nodes DEF FirstInv, OpenedFromAbove
<1>4. n \notin Dirs => n \in Items /\ leaf[n] = NotYetStarted
  BY <1>1, Nodes DEF BooksOK, TodoOK
<1>5. State(n) = NotYetStarted
  BY <1>2, <1>4 DEF State
<1>6. ~Busy(n) /\ ~Reports(n)
  BY <1>2, <1>4, Words DEF Busy, Reports, NoSignal
<1>7. \A b \in Composites : n \notin Range(running[b])
  BY <1>1, <1>6, Listed DEF BooksOK, RunningOK
<1>8. n \in Dirs => comp[n] = NotYetStarted
  BY <1>2, Nodes DEF Opened
<1>. QED
  BY <1>1, <1>2, <1>3, <1>4, <1>5, <1>7, <1>8

\* A job joins the running jobs of the composite it waited in.
LEMMA Joined ==
    ASSUME FirstInv, BooksOK, signal = NoSignal, NEW c \in Composites, NEW n \in todo[c],
           running' = [running EXCEPT ![c] = Append(@, n)]
    PROVE  \A b \in Composites :
              /\ Range(running'[b]) = Range(running[b]) \cup {x \in {n} : Parent[x] = b}
              /\ IsInjective(running'[b])
<1>1. n \in DOMAIN Parent /\ Parent[n] = c /\ n \notin Range(running[c])
  BY Untouched
<1>2. /\ running \in [Composites -> Seq(Items \cup Dirs)]
      /\ \A b \in Composites : IsInjective(running[b])
  BY DEF FirstInv, TypeOK, BooksOK, RunningOK
<1>3. /\ Range(Append(running[c], n)) = Range(running[c]) \cup {n}
      /\ IsInjective(Append(running[c], n))
  BY <1>1, <1>2, AppendRange
<1>4. \A b \in Composites :
        running'[b] = IF b = c THEN Append(running[c], n) ELSE running[b]
  BY <1>2
<1>. QED
  BY <1>1, <1>2, <1>3, <1>4

\* A job is taken from the list and starts.
LEMMA BooksStart ==
    ASSUME FirstInv, BooksOK, FirstInv', StartAndFinish \/ StartAsync
    PROVE  BooksOK'
<1>1. PICK c \in Composites, n \in Leaves, v \in Stages \cup Statuses :
        /\ StartJob(c, n) /\ n \in todo[c] /\ UNCHANGED saved
        /\ \A m \in Leaves : leaf'[m] = IF m = n THEN v ELSE leaf[m]
        /\ \A b \in Composites :
              todo'[b] = [todo EXCEPT ![c] = @ \ {n}][b]
                           \cup {x \in Spawned(n, v) : Parent[x] = b}
        /\ Backed(events', Settled)
        /\ \/ v \in Stages /\ UNCHANGED signal
           \/ /\ signal'.as = (IF n \in Dirs THEN "first" ELSE "sub")
              /\ signal'.from = n /\ signal'.status = v /\ v \in Statuses
  <2>0. Backed(events, Settled)
    BY DEF BooksOK, CompositesOK
  <2>1. CASE StartAndFinish
    <3>1. PICK c \in Composites, n \in Leaves, status \in Statuses :
            /\ StartJob(c, n) /\ n \in todo[c] /\ status \in OutcomesOf(n)
            /\ Done(n, status, {"schedule"}, [todo EXCEPT ![c] = @ \ {n}])
            /\ UNCHANGED events
      BY <2>1, OutcomeTypes DEF StartAndFinish, NextJobs
    <3>. DEFINE queued == [todo EXCEPT ![c] = @ \ {n}]
    <3>2. queued \in [Composites -> SUBSET (Items \cup Dirs)]
      BY DEF FirstInv, TypeOK
    <3>3. status \in Statuses
      BY <3>1
    <3>. HIDE DEF queued
    <3>4. /\ \A m \in Leaves : leaf'[m] = IF m = n THEN status ELSE leaf[m]
          /\ \A b \in Composites :
                todo'[b] = queued[b] \cup {x \in Spawned(n, status) : Parent[x] = b}
          /\ signal'.as = (IF n \in Dirs THEN "first" ELSE "sub")
          /\ signal'.from = n /\ signal'.status = status
      BY <3>1, <3>2, <3>3, DoneMoves DEF queued
    <3>5. Backed(events', Settled) /\ UNCHANGED saved
      BY <2>0, <3>1 DEF StartJob
    <3>. QED
      BY <3>1, <3>3, <3>4, <3>5 DEF queued
  <2>2. CASE StartAsync
    <3>1. PICK c \in Composites, n \in Leaves :
            /\ StartJob(c, n) /\ n \in todo[c]
            /\ todo' = [todo EXCEPT ![c] = @ \ {n}]
            /\ leaf' = [leaf EXCEPT ![n] =
                          IF n \in Uploads THEN "checksum" ELSE "transfer"]
            /\ events' = scheduleNextJob(events)
            /\ UNCHANGED signal
      BY <2>2 DEF StartAsync, NextJobs
    <3>2. PICK v \in Stages : v = IF n \in Uploads THEN "checksum" ELSE "transfer"
      BY DEF Stages
    <3>3. v \in Stages \cup Statuses /\ Spawned(n, v) = {}
      BY DEF Spawned, Stages
    <3>4. \A m \in Leaves : leaf'[m] = IF m = n THEN v ELSE leaf[m]
      BY <3>1, <3>2 DEF FirstInv, TypeOK
    <3>5. Backed(events', Settled) /\ UNCHANGED saved
      <4>1. events \in Seq(Events) /\ {} \in SUBSET {"abort", "schedule"}
        BY DEF FirstInv, TypeOK
      <4>2. Backed(scheduleNextJob(events), Settled)
        BY <2>0, <4>1, BackedUnwind
      <4>. QED
        BY <3>1, <4>2 DEF StartJob
    <3>. QED
      BY <3>1, <3>2, <3>3, <3>4, <3>5
  <2>. QED
    BY <2>1, <2>2
<1>2. /\ InPass /\ signal = NoSignal
      /\ running' = [running EXCEPT ![c] = Append(@, n)]
      /\ dir' = IF n \in Dirs THEN [dir EXCEPT ![n] = "Running"] ELSE dir
      /\ UNCHANGED <<comp, errors, saved, result>>
  BY <1>1 DEF StartJob, Take, OwnTurn, InPass
<1>3. /\ leaf[n] = NotYetStarted /\ Parent[n] = c /\ n \in DOMAIN Parent
      /\ \A b \in Composites : b # c => n \notin todo[b]
  BY <1>1, <1>2, Untouched, Listed
<1>4. \A b \in Composites :
        /\ Range(running'[b]) = Range(running[b]) \cup {x \in {n} : Parent[x] = b}
        /\ IsInjective(running'[b])
  BY <1>1, <1>2, Joined
<1>5. \A b \in Composites :
        todo'[b] = (todo[b] \ {n}) \cup {x \in Spawned(n, v) : Parent[x] = b}
  <2>1. \A b \in Composites : [todo EXCEPT ![c] = @ \ {n}][b] = todo[b] \ {n}
    BY <1>3 DEF FirstInv, TypeOK
  <2>. QED
    BY <1>1, <2>1
<1>6. \A d \in Dirs : dir'[d] = IF d = n THEN "Running" ELSE dir[d]
  BY <1>2 DEF FirstInv, TypeOK
<1>7. LeafMoves(n, v)
  BY <1>1, <1>2, <1>4, <1>5, <1>6 DEF LeafMoves
<1>. QED
  BY <1>1, <1>3, <1>7, BooksLeaf

\* A composite that has asked all its children and has nothing to do is settled.
LEMMA BooksStill ==
    ASSUME FirstInv, BooksOK,
           \/ SkipUselessTask \/ NothingLeft \/ DeleteJob \/ AbortEvent
           \/ AbortTimeout \/ AbortFinished \/ DeliverFinished
    PROVE  BooksOK'
<1>1. UNCHANGED <<leaf, dir, comp, running, errors, signal, saved>>
  BY DEF SkipUselessTask, NothingLeft, DeleteJob, AbortEvent, AbortTimeout,
         AbortFinished, DeliverFinished, AbortJobs, tree
<1>2. \A c \in Composites :
        todo'[c] \subseteq todo[c] /\ \A m \in todo[c] \ todo'[c] : m \in Useless
  <2>1. CASE SkipUselessTask
    <3>1. PICK c \in Composites, n \in Useless : todo' = [todo EXCEPT ![c] = @ \ {n}]
      BY <2>1 DEF SkipUselessTask
    <3>. QED
      BY <3>1 DEF FirstInv, TypeOK
  <2>2. CASE ~SkipUselessTask
    <3>1. UNCHANGED todo
      BY <2>2 DEF NothingLeft, DeleteJob, AbortEvent, AbortTimeout, AbortFinished,
                  DeliverFinished, AbortJobs, tree
    <3>. QED
      BY <3>1
  <2>. QED
    BY <2>1, <2>2
<1>3. result' = "Success" => result = "Success"
  BY DEF SkipUselessTask, NothingLeft, DeleteJob, AbortEvent, AbortTimeout,
         AbortFinished, DeliverFinished, AbortJobs, EmitFinished
<1>4. Backed(events', Settled)
  <2>0. Backed(events, Settled) /\ events \in Seq(Events)
    BY DEF BooksOK, CompositesOK, FirstInv, TypeOK
  <2>1. CASE NothingLeft
    <3>1. Top.of \in Composites
      BY <2>1, TopFrame DEF NothingLeft, FirstInv, TreeInv
    <3>2. CASE Exhausted(Top.of)
      <4>1. Top.of \in Settled
        BY <3>1, <3>2 DEF Settled
      <4>2. /\ Event("finalize", Top.of) \in Events
            /\ Event("finalize", Top.of).of = Top.of
        BY <3>1, EventTypes DEF Event
      <4>3. Backed(Append(events, Event("finalize", Top.of)), Settled)
        BY <2>0, <4>1, <4>2, BackedAppend
      <4>. QED
        BY <2>0, <2>1, <4>3 DEF NothingLeft
    <3>3. CASE ~Exhausted(Top.of)
      BY <2>0, <2>1, <3>3 DEF NothingLeft
    <3>. QED
      BY <3>2, <3>3
  <2>2. CASE AbortFinished
    BY <2>0, <2>2, EmitFinishedBacked DEF AbortFinished
  <2>3. CASE DeliverFinished
    BY <2>3 DEF DeliverFinished, Backed
  <2>4. CASE SkipUselessTask \/ AbortTimeout \/ DeleteJob \/ AbortEvent
    <3>1. events' = events \/ (events # <<>> /\ events' = Tail(events))
      BY <2>4 DEF SkipUselessTask, DeleteJob, AbortEvent, AbortTimeout
    <3>. QED
      BY <2>0, <3>1, BackedTail
  <2>. QED
    BY <2>1, <2>2, <2>3, <2>4
<1>5. RunningOK' /\ ReportsOK' /\ DirectoriesOK'
  BY <1>1 DEF BooksOK, RunningOK, ReportsOK, DirectoriesOK, Busy, Reports, State
<1>6. TodoOK'
  BY <1>1, <1>2 DEF BooksOK, TodoOK
<1>7. CompositesOK'
  <2>1. \A c \in Composites : todo[c] = {} => todo'[c] = {}
    BY <1>2
  <2>2. \A c \in Settled : c \in Settled'
    BY <1>1, <2>1 DEF Settled, Exhausted
  <2>. QED
    BY <1>1, <1>4, <2>2 DEF BooksOK, CompositesOK, Backed
<1>8. AccountsOK'
  <2>1. \A n \in DOMAIN Parent : Parent[n] \in Composites
    BY Nodes
  <2>2. /\ \A n : State(n)' = State(n) /\ Expected(n)' = Expected(n)
        /\ \A n : Reports(n)' = Reports(n)
    BY <1>1 DEF State, Expected, Reports
  <2>. QED
    BY <1>1, <1>2, <2>1, <2>2 DEF BooksOK, AccountsOK
<1>9. EndsOK'
  BY <1>1, <1>3 DEF BooksOK, EndsOK, EndedWell, Uncounted
<1>. QED
  BY <1>5, <1>6, <1>7, <1>8, <1>9 DEF BooksOK

\* A composite of the pass is asked for jobs.
LEMMA BooksOpen ==
    ASSUME FirstInv, BooksOK, ScheduleNextJobImpl \/ AskRunning
    PROVE  BooksOK'
<1>0. Root \in Dirs /\ Deletions \notin Dirs /\ Root \in Composites
  BY TreeAssumption DEF Composites
<1>1. /\ UNCHANGED <<leaf, todo, running, errors, signal, saved, result>>
      /\ signal = NoSignal
  BY DEF ScheduleNextJobImpl, AskRunning, AtEventLoop, InPass
<1>2. Backed(events', Settled)
  <2>1. Backed(events, Settled) /\ events \in Seq(Events)
    BY DEF BooksOK, CompositesOK, FirstInv, TypeOK
  <2>2. events' = events \/ (events # <<>> /\ events' = Tail(events))
    BY DEF ScheduleNextJobImpl, AskRunning
  <2>. QED
    BY <2>1, <2>2, BackedTail
<1>3. \A d \in Dirs :
        \/ dir'[d] = dir[d]
        \/ d = Root /\ dir[d] \notin Statuses /\ dir'[d] = "Running"
  BY DEF ScheduleNextJobImpl, AskRunning, FirstInv, TypeOK
<1>4. \A c \in Composites :
        \/ comp'[c] = comp[c]
        \/ /\ comp[c] \notin Statuses /\ comp'[c] = "Running"
           /\ c \in Dirs => dir'[c] = "Running"
           /\ c = Deletions => comp[Root] \in Statuses
  <2>1. CASE ScheduleNextJobImpl
    <3>. DEFINE b == NextComposite
    <3>1. \/ UNCHANGED comp
          \/ /\ comp[b] \notin Statuses /\ comp' = [comp EXCEPT ![b] = "Running"]
             /\ dir' = [dir EXCEPT ![Root] = "Running"]
      BY <2>1 DEF ScheduleNextJobImpl
    <3>2. b \in {Root, Deletions} /\ (b = Deletions => comp[Root] \in Statuses)
      BY <1>0 DEF NextComposite
    <3>. HIDE DEF b
    <3>3. dir' = [dir EXCEPT ![Root] = "Running"] => dir'[Root] = "Running"
      BY <1>0 DEF FirstInv, TypeOK
    <3>. QED
      BY <1>0, <3>1, <3>2, <3>3 DEF FirstInv, TypeOK
  <2>2. CASE AskRunning
    <3>. DEFINE n == running[Top.of][Top.at]
    <3>1. \/ UNCHANGED comp
          \/ /\ n \in Dirs /\ comp[n] \notin Statuses
             /\ comp' = [comp EXCEPT ![n] = "Running"]
      BY <2>2 DEF AskRunning
    <3>2. n \in Range(running[Top.of]) /\ UNCHANGED dir /\ Top.of \in Composites
      BY <2>2, TopFrame DEF AskRunning, Range, FirstInv, TreeInv
    <3>. HIDE DEF n
    <3>3. n \in DOMAIN Parent /\ n \in Range(running[Parent[n]])
      BY <3>2, Listed
    <3>4. n \in Dirs => dir[n] = "Running"
      BY <1>1, <3>3 DEF BooksOK, RunningOK, Busy, Reports, NoSignal
    <3>. QED
      BY <1>0, <3>1, <3>2, <3>4 DEF FirstInv, TypeOK
  <2>. QED
    BY <2>1, <2>2
<1>5. RunningOK'
  <2>1. \A n \in DOMAIN Parent : Busy(n)' = Busy(n) /\ Reports(n)' = Reports(n)
    <3>1. \A n \in DOMAIN Parent : n # Root
      BY Nodes, TreeAssumption DEF Composites
    <3>. QED
      BY <1>1, <1>3, <3>1 DEF Busy, Reports
  <2>. QED
    BY <1>1, <2>1 DEF BooksOK, RunningOK
<1>6. ReportsOK'
  BY <1>1 DEF ReportsOK, NoSignal
<1>7. DirectoriesOK'
  <2>1. \A d \in Acting : d \in Dirs /\ d # Root /\ d \in Composites
    BY Nodes
  <2>2. Dirs \subseteq Composites /\ Deletions \in Composites
    BY Nodes DEF Composites
  <2>3. DirectoriesOK
    BY DEF BooksOK
  <2>4. (\A d \in Acting : leaf[d] \in Stages => dir'[d] = "Running")
    BY <1>3, <2>1, <2>3 DEF DirectoriesOK
  <2>5. \A d \in Dirs : comp'[d] = "Running" => dir'[d] = "Running"
    BY <1>3, <1>4, <2>2, <2>3 DEF DirectoriesOK
  <2>6. dir'[Root] \in Statuses => comp'[Deletions] \in Statuses
    BY <1>0, <1>3, <1>4, <2>2, <2>3, Words DEF DirectoriesOK
  <2>7. comp'[Deletions] # NotYetStarted => comp'[Root] \in Statuses
    BY <1>0, <1>4, <2>2, <2>3 DEF DirectoriesOK
  <2>. QED
    BY <1>1, <2>3, <2>4, <2>5, <2>6, <2>7 DEF DirectoriesOK
<1>8. TodoOK'
  BY <1>1 DEF BooksOK, TodoOK
<1>9. CompositesOK'
  <2>1. Settled' = Settled
    BY <1>1 DEF Settled, Exhausted
  <2>2. \A c \in Composites : comp'[c] \in Statuses => comp'[c] = comp[c]
    BY <1>4, Words
  <2>. QED
    BY <1>1, <1>2, <2>1, <2>2 DEF BooksOK, CompositesOK
<1>10. AccountsOK'
  <2>1. \A n \in DOMAIN Parent : State(n)' = State(n)
    <3>1. \A n \in DOMAIN Parent : n # Root
      BY Nodes, TreeAssumption DEF Composites
    <3>. QED
      BY <1>1, <1>3, <3>1 DEF State
  <2>2. \A n : Expected(n)' = Expected(n) /\ Reports(n)' = Reports(n)
    BY <1>1 DEF Expected, Reports
  <2>. QED
    BY <1>1, <2>1, <2>2 DEF BooksOK, AccountsOK
<1>11. EndsOK'
  <2>1. \A c \in Composites : comp[c] = "Success" => comp'[c] = "Success"
    BY <1>4, Words
  <2>2. \A d \in Dirs : /\ EndedWell(d) => EndedWell(d)'
                        /\ Uncounted(d)' = Uncounted(d)
    BY <1>1, <2>1, Nodes DEF EndedWell, Uncounted
  <2>3. \A d \in Dirs \ {Root} : dir'[d] = dir[d]
    BY <1>3
  <2>4. saved \subseteq Dirs /\ Deletions \in Composites
    BY DEF FirstInv, TypeOK, Composites
  <2>. QED
    BY <1>0, <1>1, <2>1, <2>2, <2>3, <2>4 DEF BooksOK, EndsOK
<1>. QED
  BY <1>5, <1>6, <1>7, <1>8, <1>9, <1>10, <1>11 DEF BooksOK

\* A directory without a job of its own starts.
LEMMA BooksStartDirectory ==
    ASSUME FirstInv, BooksOK, FirstInv', StartDirectory
    PROVE  BooksOK'
<1>1. PICK c \in Composites, d \in Dirs :
        /\ InPass /\ d \in todo[c] /\ d \notin Acting
        /\ running' = [running EXCEPT ![c] = Append(@, d)]
        /\ todo' = [todo EXCEPT ![c] = @ \ {d}]
        /\ dir' = [dir EXCEPT ![d] = "Running"]
        /\ comp' = [comp EXCEPT ![d] = "Running"]
        /\ UNCHANGED <<leaf, errors, events, signal, saved, result>>
  BY DEF StartDirectory, Take, OwnTurn, InPass, NextJobs, FirstInv, TypeOK, Leaves
<1>2. /\ signal = NoSignal /\ d \in DOMAIN Parent /\ Parent[d] = c
      /\ dir[d] = NotYetStarted /\ comp[d] = NotYetStarted /\ d # Root
      /\ \A b \in Composites : d \notin Range(running[b])
  BY <1>1, Untouched DEF InPass, State
<1>3. \A b \in Composites :
        /\ Range(running'[b]) = Range(running[b]) \cup {x \in {d} : Parent[x] = b}
        /\ IsInjective(running'[b])
  BY <1>1, <1>2, Joined
<1>4. \A b \in Composites : todo'[b] = IF b = c THEN todo[b] \ {d} ELSE todo[b]
  BY <1>1 DEF FirstInv, TypeOK
<1>5. /\ \A b \in Dirs : dir'[b] = IF b = d THEN "Running" ELSE dir[b]
      /\ \A b \in Composites : comp'[b] = IF b = d THEN "Running" ELSE comp[b]
  BY <1>1 DEF FirstInv, TypeOK
<1>6. /\ Root \in Dirs /\ Deletions \notin Dirs /\ Deletions \in Composites
      /\ Items \cap Dirs = {} /\ Dirs \subseteq Composites
      /\ Acting \subseteq Dirs
  BY TreeAssumption DEF Composites, Acting
<1>7. RunningOK'
  <2>1. ASSUME NEW m \in DOMAIN Parent
        PROVE  m \in Range(running'[Parent[m]]) <=> Busy(m)' \/ Reports(m)'
    <3>1. m \in Range(running[Parent[m]]) <=> Busy(m) \/ Reports(m)
      BY DEF BooksOK, RunningOK
    <3>2. Parent[m] \in Composites /\ ~Reports(m)' /\ ~Reports(m)
      BY <1>1, <1>2, Nodes DEF Reports, NoSignal
    <3>3. Busy(m)' <=> (Busy(m) \/ m = d)
      BY <1>1, <1>5 DEF Busy
    <3>. QED
      BY <1>2, <1>3, <3>1, <3>2, <3>3
  <2>. QED
    BY <1>3, <2>1 DEF RunningOK
<1>8. ReportsOK'
  BY <1>1, <1>2 DEF ReportsOK, NoSignal
<1>9. DirectoriesOK'
  <2>1. DirectoriesOK
    BY DEF BooksOK
  <2>. QED
    BY <1>1, <1>2, <1>5, <1>6, <2>1 DEF DirectoriesOK
<1>10. TodoOK'
  <2>1. \A b \in Composites : todo'[b] \subseteq todo[b]
    BY <1>4
  <2>. QED
    BY <1>1, <2>1 DEF BooksOK, TodoOK
<1>11. CompositesOK'
  <2>1. ASSUME NEW b \in Settled PROVE b \in Settled'
    <3>1. b \in Composites /\ todo[b] = {} /\ running[b] = <<>>
      BY <2>1 DEF Settled, Exhausted
    <3>2. b # c
      BY <1>1, <3>1
    <3>3. todo'[b] = {} /\ running'[b] = <<>>
      BY <1>1, <1>4, <3>1, <3>2 DEF FirstInv, TypeOK
    <3>. QED
      BY <3>1, <3>3 DEF Settled, Exhausted
  <2>2. \A b \in Composites : comp'[b] \in Statuses => comp'[b] = comp[b]
    BY <1>5, Words
  <2>. QED
    BY <1>1, <2>1, <2>2 DEF BooksOK, CompositesOK, Backed
<1>12. AccountsOK'
  <2>1. \A m \in DOMAIN Parent : m # d => State(m)' = State(m)
    BY <1>1, <1>5 DEF State
  <2>2. State(d)' = "Running"
    BY <1>5 DEF State
  <2>3. \A m : Expected(m)' = Expected(m) /\ Reports(m)' = Reports(m)
    BY <1>1 DEF Expected, Reports
  <2>4. \A m \in DOMAIN Parent : m # d /\ m \in todo[Parent[m]] => m \in todo'[Parent[m]]
    BY <1>4, Nodes
  <2>. QED
    BY <1>1, <2>1, <2>2, <2>3, <2>4, Words DEF BooksOK, AccountsOK
<1>13. EndsOK'
  <2>1. \A b \in Composites : comp[b] = "Success" => comp'[b] = "Success"
    BY <1>2, <1>5, Words
  <2>2. \A b \in Dirs : /\ EndedWell(b) => EndedWell(b)'
                        /\ Uncounted(b)' = Uncounted(b)
    BY <1>1, <1>6, <2>1 DEF EndedWell, Uncounted
  <2>3. \A b \in Dirs : dir'[b] \in Statuses => dir'[b] = dir[b]
    BY <1>5, Words
  <2>4. saved \subseteq Dirs
    BY DEF FirstInv, TypeOK
  <2>. QED
    BY <1>1, <1>6, <2>1, <2>2, <2>3, <2>4 DEF BooksOK, EndsOK
<1>. QED
  BY <1>7, <1>8, <1>9, <1>10, <1>11, <1>12, <1>13 DEF BooksOK

\* A directory ends, and reports it to the composite above.
LEMMA BooksDirectory ==
    ASSUME FirstInv, BooksOK, signal.as # "sub",
           NEW d \in Dirs \ {Root}, NEW status \in Statuses,
           dir[d] = "Running", comp[d] # "Running",
           d \in Acting => leaf[d] \notin Stages,
           status \in Errors \/ EndedWell(d) \/ Uncounted(d),
           dir' = [dir EXCEPT ![d] = status],
           signal'.as = "sub", signal'.from = d, signal'.status = status,
           UNCHANGED <<leaf, comp, todo, running, errors, events, result>>,
           saved' = saved \/ (saved' = saved \cup {d} /\ EndedWell(d))
    PROVE  BooksOK'
<1>1. \A b \in Dirs : dir'[b] = IF b = d THEN status ELSE dir[b]
  BY DEF FirstInv, TypeOK
<1>2. d \in DOMAIN Parent /\ Acting \subseteq Dirs
  BY Nodes
<1>3. RunningOK'
  <2>1. ASSUME NEW m \in DOMAIN Parent
        PROVE  Busy(m)' \/ Reports(m)' <=> Busy(m) \/ Reports(m)
    <3>1. m # d => Busy(m)' = Busy(m)
      BY <1>1 DEF Busy
    <3>2. ~Reports(m) /\ (Reports(m)' <=> m = d)
      BY DEF Reports
    <3>3. Busy(d)
      BY DEF Busy
    <3>. QED
      BY <3>1, <3>2, <3>3
  <2>. QED
    BY <2>1 DEF BooksOK, RunningOK
<1>4. ReportsOK'
  BY <1>1 DEF ReportsOK, State
<1>5. DirectoriesOK'
  <2>1. DirectoriesOK /\ dir'[Root] = dir[Root]
    BY <1>1, TreeAssumption DEF BooksOK
  <2>. QED
    BY <1>1, <1>2, <2>1 DEF DirectoriesOK
<1>6. TodoOK'
  BY DEF BooksOK, TodoOK
<1>7. CompositesOK'
  BY DEF BooksOK, CompositesOK, Settled, Exhausted
<1>8. AccountsOK'
  <2>1. \A m \in DOMAIN Parent : m # d => State(m)' = State(m)
    BY <1>1 DEF State
  <2>2. State(d)' = status /\ Reports(d)'
    BY <1>1 DEF State, Reports
  <2>3. \A m : Expected(m)' = Expected(m) /\ ~Reports(m)
    BY DEF Expected, Reports
  <2>. QED
    BY <2>1, <2>2, <2>3, Words DEF BooksOK, AccountsOK
<1>9. EndsOK'
  <2>1. \A b \in Dirs : EndedWell(b)' = EndedWell(b) /\ Uncounted(b)' = Uncounted(b)
    BY DEF EndedWell, Uncounted
  <2>2. EndsOK
    BY DEF BooksOK
  <2>3. ASSUME NEW b \in Dirs \ {Root}, dir'[b] \in Statuses \ Errors
        PROVE  EndedWell(b) \/ Uncounted(b)
    <3>1. CASE b = d
      BY <1>1, <2>3, <3>1
    <3>2. CASE b # d
      BY <1>1, <2>2, <2>3, <3>2 DEF EndsOK
    <3>. QED
      BY <3>1, <3>2
  <2>4. \A b \in saved' : b # Root /\ EndedWell(b)
    BY <2>2 DEF EndsOK
  <2>5. result = "Success" => comp[Root] = "Success" /\ comp[Deletions] = "Success"
    BY <2>2 DEF EndsOK
  <2>6. saved' \subseteq Dirs
    BY DEF FirstInv, TypeOK
  <2>7. leaf' = leaf /\ comp' = comp /\ result' = result
    OBVIOUS
  <2>8. \A b \in Dirs \ {Root} : dir'[b] \in Statuses \ Errors =>
          EndedWell(b)' \/ Uncounted(b)'
    BY <2>1, <2>3, <2>7
  <2>9. \A b \in saved' : b # Root /\ EndedWell(b)'
    BY <2>1, <2>4, <2>6
  <2>. QED
    BY <2>5, <2>7, <2>8, <2>9 DEF EndsOK
<1>. QED
  BY <1>3, <1>4, <1>5, <1>6, <1>7, <1>8, <1>9 DEF BooksOK

\* A composite ends with what its children have reported.
Ends(c) ==
    /\ todo[c] = {} /\ running'[c] = <<>>
    /\ IF errors'[c] = {} THEN comp'[c] = "Success" ELSE comp'[c] \in errors'[c]
    /\ signal'.as = "comp" /\ signal'.from = c /\ signal'.status = comp'[c]

\* The report of n is taken down: composite c goes on, or ends with it.
LEMMA BooksReported ==
    ASSUME FirstInv, BooksOK, FirstInv', SlotSubJobFinished
    PROVE  BooksOK'
<1>. DEFINE n == signal.from
            c == Parent[n]
            s == signal.status
<1>1. /\ n \in DOMAIN Parent /\ c \in Composites /\ s \in Statuses
      /\ signal.as = "sub" /\ Reports(n) /\ s = State(n)
      /\ UNCHANGED <<leaf, dir, todo, saved, result>>
      /\ running' = [running EXCEPT ![c] = Without(@, n)]
      /\ errors' = [errors EXCEPT ![c] = @ \cup {x \in {s} : x \in Errors}]
  <2>1. Receive("sub") /\ TypeOK
    BY DEF SlotSubJobFinished, FirstInv
  <2>2. n \in DOMAIN Parent /\ c \in Composites /\ s \in Statuses /\ signal.as = "sub"
    BY <2>1, Received, Nodes DEF Receive
  <2>3. s = State(n)
    BY <2>2 DEF BooksOK, ReportsOK
  <2>. QED
    BY <2>2, <2>3 DEF SlotSubJobFinished, Reports, RunningWithout, FailsComposite
<1>2. /\ \A b \in Composites : IsInjective(running'[b])
      /\ \A b \in Composites : Range(running'[b]) = Range(running[b]) \ {n}
      /\ \A b \in Composites : b # c => running'[b] = running[b]
  <2>1. /\ running \in [Composites -> Seq(Items \cup Dirs)]
        /\ \A b \in Composites : IsInjective(running[b])
    BY DEF FirstInv, TypeOK, BooksOK, RunningOK
  <2>2. \A b \in Composites :
          running'[b] = IF b = c THEN Without(running[c], n) ELSE running[b]
    BY <1>1, <2>1
  <2>3. /\ Range(Without(running[c], n)) = Range(running[c]) \ {n}
        /\ IsInjective(Without(running[c], n))
    BY <1>1, <2>1, WithoutRange
  <2>4. \A b \in Composites : b # c => n \notin Range(running[b])
    BY Listed
  <2>. QED
    BY <2>1, <2>2, <2>3, <2>4
<1>3. n \in Range(running[c]) /\ running[c] # <<>> /\ c \notin Settled
  <2>1. n \in Range(running[c])
    BY <1>1 DEF BooksOK, RunningOK
  <2>2. running[c] # <<>>
    BY <1>1, <2>1, Listed
  <2>. QED
    BY <2>1, <2>2 DEF Settled, Exhausted
<1>4. comp[c] = "Running"
  <2>1. n \in Begun
    BY <1>1, <1>3, Listed
  <2>2. c \in Opened
    BY <1>1, <2>1 DEF FirstInv, OpenedFromAbove
  <2>3. comp[c] \notin Statuses
    BY <1>1, <1>3 DEF BooksOK, CompositesOK
  <2>. QED
    BY <1>1, <2>2, <2>3 DEF Opened, FirstInv, TypeOK
<1>5. \A b \in Composites :
        errors'[b] = IF b = c THEN errors[c] \cup {x \in {s} : x \in Errors} ELSE errors[b]
  BY <1>1 DEF FirstInv, TypeOK
<1>6. /\ \A b \in Composites \ {c} : comp'[b] = comp[b]
      /\ \/ comp'[c] = comp[c] /\ signal' = NoSignal
         \/ Ends(c)
      /\ Backed(events', Settled)
  <2>. DEFINE rest == RunningWithout(c, n)
              errs == errors[c] \cup {x \in {s} : FailsComposite(x)}
              queue == IF Contains(active, n)
                       THEN Append(events, Event("delete", n)) ELSE events
  <2>1. Backed(queue, Settled) /\ queue \in Seq(Events)
    <3>1. /\ Event("delete", n) \in Events /\ Event("delete", n).kind = "delete"
          /\ events \in Seq(Events) /\ Backed(events, Settled)
      BY <1>1, EventTypes DEF Event, FirstInv, TypeOK, BooksOK, CompositesOK
    <3>. QED
      BY <3>1, BackedAppend, AppendType
  <2>2. running'[c] = rest /\ errors'[c] = errs
    BY <1>1, <1>5 DEF RunningWithout, FailsComposite, FirstInv, TypeOK
  <2>3. CASE Quiet(scheduleNextJob(queue)) /\ UNCHANGED comp
    <3>1. scheduleNextJob(queue) \in Seq(Events) /\ Backed(scheduleNextJob(queue), Settled)
      BY <2>1, QueueTypes, BackedUnwind
    <3>2. Receive("sub") /\ TypeOK
      BY DEF SlotSubJobFinished, FirstInv
    <3>3. Backed(events', Settled) /\ signal' = NoSignal
      BY <2>3, <3>1, <3>2, QuietBacked
    <3>. QED
      BY <2>3, <3>3
  <2>4. CASE /\ rest = <<>> /\ todo[c] = {}
             /\ \E status \in IF errs = {} THEN {"Success"} ELSE errs :
                   /\ comp' = [comp EXCEPT ![c] = status]
                   /\ Emit(c, "comp", status, signal.after)
             /\ events' = queue
    <3>1. PICK status :
            /\ status \in IF errs = {} THEN {"Success"} ELSE errs
            /\ comp' = [comp EXCEPT ![c] = status]
            /\ Emit(c, "comp", status, signal.after)
      BY <2>4
    <3>2. \A b \in Composites : comp'[b] = IF b = c THEN status ELSE comp[b]
      BY <3>1 DEF FirstInv, TypeOK
    <3>3. Ends(c)
      BY <1>1, <2>2, <2>4, <3>1, <3>2 DEF Ends, Emit
    <3>. QED
      BY <2>1, <2>4, <3>2, <3>3
  <2>. QED
    BY <2>3, <2>4 DEF SlotSubJobFinished
<1>. HIDE DEF n, c, s
<1>7. /\ Root \in Dirs /\ Deletions \notin Dirs /\ Deletions \in Composites
      /\ Dirs \subseteq Composites
  BY TreeAssumption DEF Composites
<1>8. comp'[c] = "Running" \/ comp'[c] \in Statuses
  <2>1. errors'[c] \subseteq Errors
    BY <1>1, <1>5 DEF FirstInv, TypeOK
  <2>. QED
    BY <1>4, <1>6, <2>1, Words DEF Ends
<1>9. RunningOK'
  <2>1. ASSUME NEW m \in DOMAIN Parent
        PROVE  m \in Range(running'[Parent[m]]) <=> Busy(m)' \/ Reports(m)'
    <3>1. Parent[m] \in Composites /\ Busy(m)' = Busy(m) /\ ~Reports(m)'
      BY <1>1, <1>6, Nodes DEF Busy, Reports, Ends, NoSignal
    <3>2. m \in Range(running[Parent[m]]) <=> Busy(m) \/ m = n
      BY <1>1 DEF BooksOK, RunningOK, Reports
    <3>3. ~Busy(n)
      BY <1>1, Words DEF Busy, State
    <3>. QED
      BY <1>2, <3>1, <3>2, <3>3
  <2>. QED
    BY <1>2, <2>1 DEF RunningOK
<1>10. DirectoriesOK'
  <2>1. DirectoriesOK
    BY DEF BooksOK
  <2>2. \A b \in Composites : comp'[b] = comp[b]
                              \/ (b = c /\ comp[b] = "Running" /\ comp'[b] \in Statuses)
    BY <1>4, <1>6, <1>8
  <2>. QED
    BY <1>1, <1>7, <2>1, <2>2, Words DEF DirectoriesOK
<1>11. ReportsOK'
  <2>1. CASE signal' = NoSignal
    BY <2>1 DEF ReportsOK, NoSignal
  <2>2. CASE Ends(c)
    <3>1. c = Deletions => dir[Root] \notin Statuses
      BY <1>4, Words DEF BooksOK, DirectoriesOK
    <3>2. c # Deletions => dir[c] = "Running"
      BY <1>1, <1>4 DEF BooksOK, DirectoriesOK, Composites
    <3>. QED
      BY <1>1, <2>2, <3>1, <3>2 DEF ReportsOK, Ends
  <2>. QED
    BY <1>6, <2>1, <2>2
<1>12. TodoOK'
  BY <1>1 DEF BooksOK, TodoOK
<1>13. CompositesOK'
  <2>1. \A b \in Settled : b \in Settled'
    BY <1>1, <1>2, <1>3 DEF Settled, Exhausted
  <2>2. CompositesOK
    BY DEF BooksOK
  <2>3. ASSUME NEW b \in Composites, comp'[b] \in Statuses
        PROVE  /\ b \in Settled'
               /\ IF errors'[b] = {} THEN comp'[b] = "Success" ELSE comp'[b] \in errors'[b]
    <3>1. CASE b # c
      BY <1>5, <1>6, <2>1, <2>2, <2>3, <3>1 DEF CompositesOK
    <3>2. CASE b = c
      <4>1. Ends(c)
        BY <1>4, <1>6, <2>3, <3>2, Words
      <4>. QED
        BY <1>1, <3>2, <4>1 DEF Ends, Settled, Exhausted
    <3>. QED
      BY <3>1, <3>2
  <2>4. Backed(events', Settled')
    BY <1>6, <2>1 DEF Backed
  <2>. QED
    BY <2>3, <2>4 DEF CompositesOK
<1>14. AccountsOK'
  <2>1. \A m : State(m)' = State(m) /\ Expected(m)' = Expected(m) /\ ~Reports(m)'
    BY <1>1, <1>6 DEF State, Expected, Reports, Ends, NoSignal
  <2>2. \A b \in Composites : errors[b] # {} => errors'[b] # {}
    BY <1>5
  <2>3. State(n) \in Errors => errors'[c] # {}
    <3>0. c \in Composites
      BY <1>1
    <3>1. errors'[c] = errors[c] \cup {x \in {s} : x \in Errors}
      BY <1>5, <3>0
    <3>2. s \in Errors => errors'[c] # {}
      BY <3>1
    <3>3. s = State(n)
      BY <1>1
    <3>. QED
      BY <3>2, <3>3
  <2>4. \A m \in DOMAIN Parent : m # n => ~Reports(m)
    BY DEF Reports, n
  <2>. QED
    BY <1>1, <1>7, <2>1, <2>2, <2>3, <2>4, Nodes DEF BooksOK, AccountsOK, c
<1>15. EndsOK'
  <2>1. \A b \in Composites : comp[b] = "Success" => comp'[b] = "Success"
    BY <1>4, <1>6
  <2>2. \A b \in Dirs : /\ EndedWell(b) => EndedWell(b)'
                        /\ Uncounted(b)' = Uncounted(b)
    BY <1>1, <1>7, <2>1 DEF EndedWell, Uncounted
  <2>3. saved \subseteq Dirs
    BY DEF FirstInv, TypeOK
  <2>. QED
    BY <1>1, <1>7, <2>1, <2>2, <2>3 DEF BooksOK, EndsOK
<1>. QED
  BY <1>9, <1>10, <1>11, <1>12, <1>13, <1>14, <1>15 DEF BooksOK

\* The posted finalize() of a settled composite.
LEMMA BooksFinalize ==
    ASSUME FirstInv, BooksOK, Finalize
    PROVE  BooksOK'
<1>. DEFINE c == Head(events).of
<1>1. /\ UNCHANGED <<leaf, dir, todo, running, errors, saved, result>>
      /\ signal = NoSignal /\ events # <<>> /\ events' = Tail(events)
  BY DEF Finalize, AtEventLoop
<1>2. c \in Opened /\ c \in Settled /\ c \in Composites
  <2>1. Head(events) = events[1] /\ 1 \in DOMAIN events
    BY <1>1, NonEmpty, HeadTailProperties DEF FirstInv, TypeOK
  <2>. QED
    BY <2>1 DEF Finalize, Backed, Settled, FirstInv, ControlOK, BooksOK, CompositesOK
<1>3. Backed(events', Settled)
  BY <1>1, BackedTail DEF BooksOK, CompositesOK, FirstInv, TypeOK
<1>4. /\ \A b \in Composites \ {c} : comp'[b] = comp[b]
      /\ \/ comp' = comp /\ signal' = NoSignal
         \/ comp[c] = "Running" /\ Ends(c)
  <2>1. CASE UNCHANGED <<comp, signal>>
    BY <1>1, <2>1
  <2>2. CASE /\ comp[c] \notin Statuses
             /\ \E status \in IF errors[c] = {} THEN {"Success"} ELSE errors[c] :
                   comp' = [comp EXCEPT ![c] = status] /\ Emit(c, "comp", status, {})
    <3>1. PICK status :
            /\ status \in IF errors[c] = {} THEN {"Success"} ELSE errors[c]
            /\ comp' = [comp EXCEPT ![c] = status] /\ Emit(c, "comp", status, {})
      BY <2>2
    <3>2. \A b \in Composites : comp'[b] = IF b = c THEN status ELSE comp[b]
      BY <3>1 DEF FirstInv, TypeOK
    <3>3. comp[c] = "Running"
      BY <1>2, <2>2 DEF Opened, FirstInv, TypeOK
    <3>4. Ends(c)
      BY <1>1, <1>2, <3>1, <3>2 DEF Ends, Emit, Settled, Exhausted
    <3>. QED
      BY <3>2, <3>3, <3>4
  <2>. QED
    BY <2>1, <2>2 DEF Finalize
<1>. HIDE DEF c
<1>5. /\ Root \in Dirs /\ Deletions \notin Dirs /\ Deletions \in Composites
      /\ Dirs \subseteq Composites
  BY TreeAssumption DEF Composites
<1>6. \A b \in Composites :
        comp'[b] = comp[b] \/ (b = c /\ comp[b] = "Running" /\ comp'[b] \in Statuses)
  <2>1. errors[c] \subseteq Errors
    BY <1>2 DEF FirstInv, TypeOK
  <2>. QED
    BY <1>1, <1>4, <2>1, Words DEF Ends
<1>7. RunningOK'
  <2>1. \A m : Busy(m)' = Busy(m) /\ Reports(m)' = Reports(m)
    BY <1>1, <1>4 DEF Busy, Reports, Ends, NoSignal
  <2>. QED
    BY <1>1, <2>1 DEF BooksOK, RunningOK
<1>8. ReportsOK'
  <2>1. CASE signal' = NoSignal
    BY <2>1 DEF ReportsOK, NoSignal
  <2>2. CASE comp[c] = "Running" /\ Ends(c)
    <3>1. c = Deletions => dir[Root] \notin Statuses
      BY <2>2, Words DEF BooksOK, DirectoriesOK
    <3>2. c # Deletions => dir[c] = "Running"
      BY <1>2, <2>2 DEF BooksOK, DirectoriesOK, Composites
    <3>. QED
      BY <1>1, <2>2, <3>1, <3>2 DEF ReportsOK, Ends
  <2>. QED
    BY <1>4, <2>1, <2>2
<1>9. DirectoriesOK'
  <2>1. DirectoriesOK
    BY DEF BooksOK
  <2>. QED
    BY <1>1, <1>5, <1>6, <2>1, Words DEF DirectoriesOK
<1>10. TodoOK'
  BY <1>1 DEF BooksOK, TodoOK
<1>11. CompositesOK'
  <2>1. Settled' = Settled
    BY <1>1 DEF Settled, Exhausted
  <2>2. CompositesOK
    BY DEF BooksOK
  <2>3. ASSUME NEW b \in Composites, comp'[b] \in Statuses
        PROVE  /\ b \in Settled
               /\ IF errors[b] = {} THEN comp'[b] = "Success" ELSE comp'[b] \in errors[b]
    <3>1. CASE comp'[b] = comp[b]
      BY <2>2, <2>3, <3>1 DEF CompositesOK
    <3>2. CASE b = c /\ comp'[b] # comp[b]
      BY <1>1, <1>2, <1>4, <3>2 DEF Ends
    <3>. QED
      BY <1>6, <3>1, <3>2
  <2>. QED
    BY <1>1, <1>3, <2>1, <2>3 DEF CompositesOK
<1>12. AccountsOK'
  <2>1. \A m : /\ State(m)' = State(m) /\ Expected(m)' = Expected(m)
               /\ Reports(m)' = Reports(m)
    BY <1>1, <1>4 DEF State, Expected, Reports, Ends, NoSignal
  <2>. QED
    BY <1>1, <2>1 DEF BooksOK, AccountsOK
<1>13. EndsOK'
  <2>1. \A b \in Composites : comp[b] = "Success" => comp'[b] = "Success"
    BY <1>6, Words
  <2>2. \A b \in Dirs : /\ EndedWell(b) => EndedWell(b)'
                        /\ Uncounted(b)' = Uncounted(b)
    BY <1>1, <1>5, <2>1 DEF EndedWell, Uncounted
  <2>3. saved \subseteq Dirs
    BY DEF FirstInv, TypeOK
  <2>. QED
    BY <1>1, <1>5, <2>1, <2>2, <2>3 DEF BooksOK, EndsOK
<1>. QED
  BY <1>7, <1>8, <1>9, <1>10, <1>11, <1>12, <1>13 DEF BooksOK

\* The end of a directory's own job.
LEMMA BooksFirst ==
    ASSUME FirstInv, BooksOK, SlotFirstJobFinished
    PROVE  BooksOK'
<1>. DEFINE d == signal.from
<1>1. /\ UNCHANGED <<leaf, comp, todo, running, errors, saved, result>>
      /\ Receive("first") /\ signal.as = "first" /\ d \in Acting
      /\ leaf[d] = signal.status /\ signal.status \in Statuses
      /\ dir[d] = "Running" /\ d \in Dirs \ {Root}
  <2>1. Receive("first") /\ signal.as = "first" /\ d \in Acting /\ signal.status \in Statuses
    BY Received DEF SlotFirstJobFinished, Receive, FirstInv
  <2>2. leaf[d] = signal.status /\ dir[d] = "Running"
    BY <2>1 DEF FirstInv, ControlOK, BooksOK, ReportsOK
  <2>. QED
    BY <2>1, <2>2, Nodes DEF SlotFirstJobFinished
<1>2. CASE Quiet(scheduleNextJob(events)) /\ UNCHANGED dir
  <2>1. Backed(events', Settled) /\ signal' = NoSignal
    <3>1. Backed(events, Settled) /\ events \in Seq(Events)
      BY DEF BooksOK, CompositesOK, FirstInv, TypeOK
    <3>2. /\ scheduleNextJob(events) \in Seq(Events)
          /\ Backed(scheduleNextJob(events), Settled)
      BY <3>1, QueueTypes, BackedUnwind
    <3>. QED
      BY <1>1, <1>2, <3>2, QuietBacked DEF FirstInv
  <2>2. \A m : ~Reports(m) /\ ~Reports(m)'
    BY <1>1, <2>1 DEF Reports, NoSignal
  <2>3. RunningOK'
    <3>1. \A m : Busy(m)' = Busy(m)
      BY <1>1, <1>2 DEF Busy
    <3>. QED
      BY <1>1, <2>2, <3>1 DEF BooksOK, RunningOK
  <2>4. ReportsOK'
    BY <2>1 DEF ReportsOK, NoSignal
  <2>5. DirectoriesOK' /\ TodoOK' /\ EndsOK'
    BY <1>1, <1>2 DEF BooksOK, DirectoriesOK, TodoOK, EndsOK, EndedWell, Uncounted
  <2>6. CompositesOK'
    <3>1. Settled' = Settled
      BY <1>1 DEF Settled, Exhausted
    <3>. QED
      BY <1>1, <2>1, <3>1 DEF BooksOK, CompositesOK
  <2>7. AccountsOK'
    <3>1. \A m : State(m)' = State(m) /\ Expected(m)' = Expected(m)
      BY <1>1, <1>2 DEF State, Expected
    <3>. QED
      BY <1>1, <2>2, <3>1 DEF BooksOK, AccountsOK
  <2>. QED
    BY <2>3, <2>4, <2>5, <2>6, <2>7 DEF BooksOK
<1>3. CASE /\ signal.status \notin Positive
           /\ dir' = [dir EXCEPT ![d] = signal.status]
           /\ Emit(d, "sub", signal.status, signal.after)
           /\ UNCHANGED events
  <2>1. (signal.status \in Errors \/ Uncounted(d)) /\ leaf[d] \notin Stages
    BY <1>1, <1>3, Words DEF Uncounted
  <2>2. comp[d] # "Running"
    <3>1. d \notin Opened
      BY <1>1, <1>3 DEF FirstInv, OpenedFromAbove
    <3>. QED
      BY <1>1, <3>1, Nodes, Words DEF Opened
  <2>3. /\ signal'.as = "sub" /\ signal'.from = d /\ signal'.status = signal.status
        /\ signal.as # "sub"
    BY <1>1, <1>3 DEF Emit
  <2>. QED
    BY <1>1, <1>3, <2>1, <2>2, <2>3, BooksDirectory
<1>. QED
  BY <1>2, <1>3 DEF SlotFirstJobFinished, Positive

\* The end of the jobs below a directory.
LEMMA BooksSub ==
    ASSUME FirstInv, BooksOK, SlotSubJobsFinished
    PROVE  BooksOK'
<1>. DEFINE d == signal.from
<1>1. /\ UNCHANGED <<leaf, comp, todo, running, errors, events, result>>
      /\ signal.as = "comp" /\ d \in Dirs \ {Root} /\ d \in Opened
      /\ signal.status = comp[d] /\ dir[d] = "Running" /\ comp[d] \in Statuses
  <2>1. /\ signal.as = "comp" /\ d \in Dirs \ {Root} /\ d \in Opened
        /\ signal.status \in Statuses /\ d # Deletions
    BY Received DEF SlotSubJobsFinished, Receive, Composites, FirstInv, ControlOK
  <2>2. signal.status = comp[d] /\ dir[d] = "Running"
    BY <2>1 DEF BooksOK, ReportsOK
  <2>. QED
    BY <2>1, <2>2 DEF SlotSubJobsFinished
<1>2. d \in Acting => leaf[d] \in Positive
  BY <1>1 DEF FirstInv, OpenedFromAbove
<1>3. comp[d] = "Success" \/ comp[d] \in Errors
  <2>1. errors[d] \subseteq Errors
    BY <1>1, Nodes DEF FirstInv, TypeOK
  <2>. QED
    BY <1>1, <2>1, Nodes DEF BooksOK, CompositesOK
<1>4. PICK status \in Statuses :
        /\ \E after : FinishDirectory(d, status, after)
        /\ status \in Errors \/ EndedWell(d) \/ Uncounted(d)
        /\ saved' = saved \/ (saved' = saved \cup {d} /\ EndedWell(d))
  <2>1. CASE OwnStatus(d) # "Success"
    <3>1. Uncounted(d) /\ OwnStatus(d) = "Conflict"
      BY <1>2, <2>1, Words DEF OwnStatus, Uncounted
    <3>. QED
      BY <2>1, <3>1, Words DEF SlotSubJobsFinished
  <2>2. CASE OwnStatus(d) = "Success"
    <3>1. d \in Acting => leaf[d] = "Success"
      BY <2>2 DEF OwnStatus
    <3>2. comp[d] = "Success" => EndedWell(d)
      BY <3>1 DEF EndedWell
    <3>3. "Success" \in Statuses /\ "Fatal" \in Errors /\ "Soft" \in Errors
      BY DEF Statuses, Errors
    <3>4. CASE FinishDirectory(d, signal.status, signal.after) /\ UNCHANGED saved
      BY <1>1, <1>3, <3>2, <3>4
    <3>5. CASE signal.status = "Success" /\ FinishDirectory(d, "Success", signal.after)
               /\ saved' = saved \cup {d}
      BY <1>1, <3>2, <3>3, <3>5
    <3>6. CASE \E status \in {"Fatal", "Soft"} \cap FirstOutcomes :
                 /\ FinishDirectory(d, status, Reported(status, signal.after))
                 /\ UNCHANGED saved
      BY <3>3, <3>6, Words
    <3>. QED
      BY <2>2, <3>4, <3>5, <3>6 DEF SlotSubJobsFinished
  <2>. QED
    BY <2>1, <2>2
<1>5. /\ dir' = [dir EXCEPT ![d] = status] /\ signal'.as = "sub" /\ signal'.from = d
      /\ signal'.status = status
  BY <1>4 DEF FinishDirectory, Emit
<1>6. comp[d] # "Running" /\ (d \in Acting => leaf[d] \notin Stages) /\ signal.as # "sub"
  BY <1>1, <1>2, Words
<1>. QED
  BY <1>1, <1>4, <1>5, <1>6, BooksDirectory

\* The end of the tree below Root: a failure may drop deletions.
LEMMA BooksRootSub ==
    ASSUME FirstInv, BooksOK, SlotRootSubJobsFinished
    PROVE  BooksOK'
<1>1. /\ UNCHANGED <<leaf, dir, comp, running, errors, saved, result>>
      /\ Receive("comp") /\ signal.as = "comp" /\ signal.from = Root
      /\ signal.status = comp[Root]
      /\ Quiet(scheduleNextJob(events))
  BY DEF SlotRootSubJobsFinished, Receive, BooksOK, ReportsOK
<1>2. Root \in Composites /\ Root # Deletions /\ Deletions \in Composites
  BY TreeAssumption DEF Composites
<1>3. Backed(events', Settled) /\ signal' = NoSignal
  <2>1. Backed(events, Settled) /\ events \in Seq(Events)
    BY DEF BooksOK, CompositesOK, FirstInv, TypeOK
  <2>2. scheduleNextJob(events) \in Seq(Events) /\ Backed(scheduleNextJob(events), Settled)
    BY <2>1, QueueTypes, BackedUnwind
  <2>. QED
    BY <1>1, <2>2, QuietBacked DEF FirstInv
<1>4. /\ \A c \in Composites : todo'[c] \subseteq todo[c]
      /\ \A c \in Composites : todo'[c] # todo[c] => c = Deletions /\ errors[Root] # {}
  <2>1. PICK dropped :
          /\ dropped \in IF signal.status \in Errors THEN SUBSET todo[Deletions] ELSE {{}}
          /\ todo' = [todo EXCEPT ![Deletions] = @ \ dropped]
    BY DEF SlotRootSubJobsFinished
  <2>2. \A c \in Composites :
          todo'[c] = IF c = Deletions THEN todo[c] \ dropped ELSE todo[c]
    BY <2>1 DEF FirstInv, TypeOK
  <2>3. signal.status \in Errors => errors[Root] # {}
    BY <1>1, <1>2, Words DEF BooksOK, CompositesOK
  <2>. QED
    BY <2>1, <2>2, <2>3
<1>5. \A m : ~Reports(m) /\ ~Reports(m)' /\ State(m)' = State(m) /\ Expected(m)' = Expected(m)
  BY <1>1, <1>3 DEF Reports, NoSignal, State, Expected
<1>6. RunningOK'
  <2>1. \A m : Busy(m)' = Busy(m)
    BY <1>1 DEF Busy
  <2>. QED
    BY <1>1, <1>5, <2>1 DEF BooksOK, RunningOK
<1>7. ReportsOK'
  BY <1>3 DEF ReportsOK, NoSignal
<1>8. DirectoriesOK' /\ EndsOK'
  BY <1>1 DEF BooksOK, DirectoriesOK, EndsOK, EndedWell, Uncounted
<1>9. TodoOK'
  BY <1>1, <1>4 DEF BooksOK, TodoOK
<1>10. CompositesOK'
  <2>1. \A c \in Composites : todo[c] = {} => todo'[c] = {}
    BY <1>4
  <2>2. \A c \in Settled : c \in Settled'
    BY <1>1, <2>1 DEF Settled, Exhausted
  <2>. QED
    BY <1>1, <1>3, <2>2 DEF BooksOK, CompositesOK, Backed
<1>11. AccountsOK'
  <2>1. \A m \in DOMAIN Parent : Parent[m] \in Composites
    BY Nodes
  <2>. QED
    BY <1>1, <1>4, <1>5, <2>1 DEF BooksOK, AccountsOK
<1>. QED
  BY <1>6, <1>7, <1>8, <1>9, <1>10, <1>11 DEF BooksOK

\* The end of the deletions, and of the run.
LEMMA BooksDeletions ==
    ASSUME FirstInv, BooksOK, SlotDirDeletionJobsFinished
    PROVE  BooksOK'
<1>. DEFINE status == RootStatus(signal.status)
<1>1. /\ UNCHANGED <<leaf, comp, todo, running, errors, saved>>
      /\ Receive("comp") /\ signal.as = "comp" /\ signal' = NoSignal
      /\ dir' = [dir EXCEPT ![Root] = status]
      /\ EmitFinished(status, Unwind(events, signal.after))
      /\ signal.status = comp[Deletions] /\ signal.status \in Statuses
      /\ signal.after \in SUBSET {"abort", "schedule"}
  <2>1. Receive("comp") /\ signal.as = "comp" /\ signal.from = Deletions
    BY DEF SlotDirDeletionJobsFinished, Receive
  <2>2. signal.status \in Statuses /\ signal.after \in SUBSET {"abort", "schedule"}
    BY <2>1, Received DEF FirstInv
  <2>. QED
    BY <2>1, <2>2 DEF SlotDirDeletionJobsFinished, BooksOK, ReportsOK
<1>2. /\ Root \in Dirs /\ Root \in Composites /\ Deletions \in Composites
      /\ \A m \in DOMAIN Parent : m # Root
  BY TreeAssumption, Nodes DEF Composites
<1>3. comp[Deletions] \in Statuses /\ comp[Root] \in Statuses
  BY <1>1, Words DEF BooksOK, DirectoriesOK
<1>4. \A d \in Dirs : dir'[d] = IF d = Root THEN status ELSE dir[d]
  BY <1>1 DEF FirstInv, TypeOK
<1>5. Backed(events', Settled)
  <2>1. Backed(events, Settled) /\ events \in Seq(Events)
    BY DEF BooksOK, CompositesOK, FirstInv, TypeOK
  <2>2. /\ Unwind(events, signal.after) \in Seq(Events)
        /\ Backed(Unwind(events, signal.after), Settled)
    BY <1>1, <2>1, QueueTypes, BackedUnwind
  <2>. QED
    BY <1>1, <2>2, EmitFinishedBacked
<1>6. /\ \A m : ~Reports(m) /\ ~Reports(m)' /\ Expected(m)' = Expected(m)
      /\ \A m \in DOMAIN Parent : State(m)' = State(m) /\ Busy(m)' = Busy(m)
  BY <1>1, <1>2, <1>4 DEF Reports, NoSignal, State, Busy, Expected
<1>7. RunningOK'
  BY <1>1, <1>6 DEF BooksOK, RunningOK
<1>8. ReportsOK'
  BY <1>1 DEF ReportsOK, NoSignal
<1>9. DirectoriesOK'
  <2>1. DirectoriesOK
    BY DEF BooksOK
  <2>. QED
    BY <1>1, <1>2, <1>3, <1>4, <2>1, Nodes, Words DEF DirectoriesOK
<1>10. TodoOK'
  BY <1>1 DEF BooksOK, TodoOK
<1>11. CompositesOK'
  <2>1. Settled' = Settled
    BY <1>1 DEF Settled, Exhausted
  <2>. QED
    BY <1>1, <1>5, <2>1 DEF BooksOK, CompositesOK
<1>12. AccountsOK'
  BY <1>1, <1>6 DEF BooksOK, AccountsOK
<1>13. EndsOK'
  <2>1. status = "Success" => comp[Root] = "Success" /\ comp[Deletions] = "Success"
    <3>1. errors[Root] \subseteq Errors
      BY <1>2 DEF FirstInv, TypeOK
    <3>2. comp[Root] = "Success" \/ comp[Root] \in Errors
      BY <1>2, <1>3, <3>1 DEF BooksOK, CompositesOK
    <3>. QED
      BY <1>1, <3>2, Words DEF RootStatus
  <2>2. result' = "Success" => status = "Success" \/ result = "Success"
    BY <1>1 DEF EmitFinished
  <2>3. \A d : EndedWell(d)' = EndedWell(d) /\ Uncounted(d)' = Uncounted(d)
    BY <1>1 DEF EndedWell, Uncounted
  <2>. QED
    BY <1>1, <1>4, <2>1, <2>2, <2>3 DEF BooksOK, EndsOK
<1>. QED
  BY <1>7, <1>8, <1>9, <1>10, <1>11, <1>12, <1>13 DEF BooksOK

\* The books are right before the first pass: everything waits in a list.
THEOREM BooksInit == Init => BooksOK
<1>. SUFFICES ASSUME Init PROVE BooksOK
  OBVIOUS
<1>1. /\ \A n \in Leaves : leaf[n] = NotYetStarted
      /\ \A d \in Dirs : dir[d] = NotYetStarted
      /\ \A c \in Composites : comp[c] = NotYetStarted /\ running[c] = <<>>
      /\ \A c \in Composites :
            todo[c] = {n \in DOMAIN Parent \ Range(Spawns) : Parent[n] = c}
      /\ signal = NoSignal /\ saved = {} /\ result = "none"
      /\ events = <<Event("schedule", Root)>>
  BY Nodes DEF Init
<1>2. /\ Root \in Dirs /\ Deletions \in Composites /\ Items \subseteq Leaves
      /\ Dirs \subseteq Composites /\ Acting \subseteq Leaves
  BY TreeAssumption DEF Composites, Leaves
<1>3. \A m \in DOMAIN Spawns : Spawns[m] \in Items /\ m \in Leaves
  BY JobAssumption
<1>4. \A n \in DOMAIN Parent : State(n) = NotYetStarted /\ ~Busy(n) /\ ~Reports(n)
  BY <1>1, <1>2, Nodes, Words DEF State, Busy, Reports, NoSignal
<1>5. RunningOK
  BY <1>1, <1>4, Nodes DEF RunningOK, IsInjective, Range
<1>6. ReportsOK
  BY <1>1 DEF ReportsOK, NoSignal
<1>7. DirectoriesOK
  <2>1. NotYetStarted # "Running"
    BY Words DEF Statuses
  <2>. QED
    BY <1>1, <1>2, <2>1, Nodes, Words DEF DirectoriesOK
<1>8. TodoOK
  BY <1>1, <1>2, <1>3 DEF TodoOK, Range
<1>9. CompositesOK
  <2>1. events[1].kind = "schedule" /\ DOMAIN events = {1}
    BY <1>1 DEF Event
  <2>. QED
    BY <1>1, <2>1, Words DEF CompositesOK, Backed
<1>10. AccountsOK
  <2>1. ASSUME NEW n \in DOMAIN Parent, Expected(n) PROVE n \in todo[Parent[n]]
    <3>1. n \notin Range(Spawns)
      <4>1. ASSUME n \in Range(Spawns) PROVE FALSE
        <5>1. PICK m \in DOMAIN Spawns : Spawns[m] = n
          BY <4>1 DEF Range
        <5>. QED
          BY <1>1, <1>3, <2>1, <5>1, Words DEF Expected
      <4>. QED
        BY <4>1
    <3>. QED
      BY <1>1, <2>1, <3>1, Nodes
  <2>. QED
    BY <1>4, <2>1, Words DEF AccountsOK
<1>11. EndsOK
  BY <1>1, Words DEF EndsOK
<1>. QED
  BY <1>5, <1>6, <1>7, <1>8, <1>9, <1>10, <1>11 DEF BooksOK

\* The books, together with the order of the tree they are kept in.
Books == FirstInv /\ BooksOK

\* Every step of the propagation keeps the books right.
LEMMA BooksNext == Books /\ [Next]_vars => Books'
<1>. SUFFICES ASSUME FirstInv, BooksOK, [Next]_vars PROVE FirstInv' /\ BooksOK'
  BY DEF Books
<1>1. FirstInv'
  BY FirstNext
<1>2. CASE Next
  BY <1>1, <1>2, BooksStill, BooksOpen, BooksAnswer, BooksStart, BooksStartDirectory,
     BooksReported, BooksFinalize, BooksFirst, BooksSub, BooksRootSub, BooksDeletions
     DEF Next, Handler
<1>3. CASE UNCHANGED vars
  <2>1. UNCHANGED <<leaf, dir, comp, todo, running, errors, events, signal, saved, result>>
    BY <1>3 DEF vars, tree
  <2>2. RunningOK' /\ ReportsOK' /\ DirectoriesOK' /\ TodoOK'
    BY <2>1 DEF BooksOK, RunningOK, ReportsOK, DirectoriesOK, TodoOK, State, Busy, Reports
  <2>3. CompositesOK'
    BY <2>1 DEF BooksOK, CompositesOK, Settled, Exhausted, Backed
  <2>4. AccountsOK' /\ EndsOK'
    BY <2>1 DEF BooksOK, AccountsOK, EndsOK, State, Reports, EndedWell, Uncounted, Expected
  <2>. QED
    BY <1>1, <2>2, <2>3, <2>4 DEF BooksOK
<1>. QED
  BY <1>1, <1>2, <1>3

-----------------------------------------------------------------------------
\* What the books say.

\* The assertion of the scheduling pass (scheduleSelfOrChild of a composite): at
\* the event loop the running lists hold jobs that are at work.
THEOREM ListsHoldRunning == Spec => []RunningListsHoldRunning
<1>1. Books => RunningListsHoldRunning
  <2>. SUFFICES ASSUME Books, AtEventLoop, NEW c \in Composites,
                       NEW n \in Range(running[c])
                PROVE  Busy(n)
    BY DEF RunningListsHoldRunning, Busy
  <2>1. n \in DOMAIN Parent /\ Parent[n] = c /\ ~Reports(n)
    BY Listed DEF Books, AtEventLoop, Reports, NoSignal
  <2>. QED
    BY <2>1 DEF Books, BooksOK, RunningOK
<1>. QED
  BY <1>1, FirstInit, BooksInit, BooksNext, PTL DEF Spec, Books

\* A reporting job is on the running list of an open composite.
LEMMA ReportsToOpen ==
    ASSUME Books, signal.as = "sub", signal.from \in DOMAIN Parent
    PROVE  comp[Parent[signal.from]] \notin Statuses
<1>. DEFINE n == signal.from
            c == Parent[n]
<1>1. n \in Range(running[c]) /\ c \in Composites
  BY Nodes DEF Books, BooksOK, RunningOK, Reports
<1>2. running[c] # <<>>
  BY <1>1, Listed DEF Books
<1>. QED
  BY <1>1, <1>2 DEF Books, BooksOK, CompositesOK, Settled, Exhausted

\* "Duplicate calls to done() are a logic error": no job, directory or composite
\* ends twice, whatever is aborted and however often finalize() is posted.
THEOREM EndsOnce == Spec => DoneOnce
<1>. DEFINE Kept == /\ \A n \in Leaves : leaf[n] \in Statuses => leaf'[n] = leaf[n]
                    /\ \A d \in Dirs : dir[d] \in Statuses => dir'[d] = dir[d]
                    /\ \A c \in Composites : comp[c] \in Statuses => comp'[c] = comp[c]
<1>1. ASSUME Books, Next PROVE Kept
  <2>0. /\ FirstInv /\ TypeOK /\ TreeInv /\ BooksOK
        /\ leaf \in [Leaves -> {NotYetStarted} \cup Stages \cup Statuses]
        /\ dir \in [Dirs -> {NotYetStarted, "Running"} \cup Statuses]
        /\ comp \in [Composites -> {NotYetStarted, "Running"} \cup Statuses]
        /\ todo \in [Composites -> SUBSET (Items \cup Dirs)]
    BY <1>1, Types DEF Books, FirstInv, TreeInv
  <2>1. ASSUME NEW n \in Leaves, leaf[n] \notin Statuses, NEW s,
               leaf' = [leaf EXCEPT ![n] = s]
        PROVE  \A m \in Leaves : leaf[m] \in Statuses => leaf'[m] = leaf[m]
    BY <2>0, <2>1
  <2>2. ASSUME NEW d \in Dirs, dir[d] \notin Statuses, NEW s,
               dir' = [dir EXCEPT ![d] = s]
        PROVE  \A b \in Dirs : dir[b] \in Statuses => dir'[b] = dir[b]
    BY <2>0, <2>2
  <2>3. ASSUME NEW c \in Composites, comp[c] \notin Statuses, NEW s,
               comp' = [comp EXCEPT ![c] = s]
        PROVE  \A b \in Composites : comp[b] \in Statuses => comp'[b] = comp[b]
    BY <2>0, <2>3
  <2>4. CASE CancelReply \/ \E n \in Leaves : Answer(n)
    <3>1. UNCHANGED <<dir, comp>>
      BY <2>4 DEF CancelReply, Answer, StartUpload, FileLocked, Reply, DownloadReceived,
                  Validated
    <3>2. PICK n, s : n \in Leaves /\ leaf[n] \in Stages /\ leaf' = [leaf EXCEPT ![n] = s]
      <4>1. CASE CancelReply
        <5>1. PICK n \in cancel \ {Root} :
                leaf' = [leaf EXCEPT ![n] = Softened("Fatal")]
          BY <4>1 DEF CancelReply, Done
        <5>2. n \in Leaves /\ leaf[n] \in Stages
          BY <2>0 DEF TypeOK, TreeInv, ControlOK, Stages
        <5>. QED
          BY <5>1, <5>2
      <4>2. CASE \E n \in Leaves : Answer(n)
        BY <4>2 DEF Answer, StartUpload, FileLocked, Reply, DownloadReceived,
                    Validated, Done, Stages
      <4>. QED
        BY <2>4, <4>1, <4>2
    <3>. QED
      BY <2>1, <3>1, <3>2, Words
  <2>5. CASE StartAndFinish \/ StartAsync
    <3>1. PICK c, n, s :
            /\ c \in Composites /\ n \in Leaves
            /\ n \in todo[c] /\ StartJob(c, n) /\ leaf' = [leaf EXCEPT ![n] = s]
      BY <2>5 DEF StartAndFinish, StartAsync, NextJobs, Done
    <3>2. /\ signal = NoSignal /\ UNCHANGED comp
          /\ dir' = IF n \in Dirs THEN [dir EXCEPT ![n] = "Running"] ELSE dir
      BY <3>1 DEF StartJob, Take, OwnTurn, InPass
    <3>3. leaf[n] = NotYetStarted /\ State(n) = NotYetStarted
      BY <2>0, <3>1, <3>2, Untouched
    <3>. QED
      BY <2>1, <2>2, <3>1, <3>2, <3>3, Words DEF State
  <2>6. CASE StartDirectory
    <3>1. PICK c \in Composites, d \in Dirs :
            /\ d \in todo[c] /\ InPass /\ UNCHANGED leaf
            /\ dir' = [dir EXCEPT ![d] = "Running"]
            /\ comp' = [comp EXCEPT ![d] = "Running"]
      BY <2>0, <2>6 DEF StartDirectory, Take, OwnTurn, NextJobs, Leaves
    <3>2. comp[d] = NotYetStarted /\ State(d) = NotYetStarted /\ d \in Composites
      BY <2>0, <3>1, Untouched, Nodes DEF InPass
    <3>. QED
      BY <2>2, <2>3, <3>1, <3>2, Words DEF State
  <2>7. CASE ScheduleNextJobImpl \/ AskRunning
    <3>1. UNCHANGED leaf /\ Root \in Dirs /\ Dirs \subseteq Composites
      BY <2>7, TreeAssumption, Nodes DEF ScheduleNextJobImpl, AskRunning
    <3>2. NextComposite \in Composites
      BY <3>1 DEF NextComposite, Composites
    <3>. QED
      BY <2>2, <2>3, <2>7, <3>1, <3>2 DEF ScheduleNextJobImpl, AskRunning
  <2>8. CASE SlotSubJobFinished
    <3>1. /\ UNCHANGED <<leaf, dir>> /\ signal.as = "sub" /\ signal.from \in DOMAIN Parent
          /\ UNCHANGED comp \/ \E s : comp' = [comp EXCEPT ![Parent[signal.from]] = s]
      BY <2>0, <2>8, Received DEF SlotSubJobFinished, Receive
    <3>. QED
      BY <1>1, <2>3, <3>1, ReportsToOpen, Nodes
  <2>9. CASE Finalize
    <3>1. /\ UNCHANGED <<leaf, dir>>
          /\ UNCHANGED comp
             \/ \E s : /\ comp[Head(events).of] \notin Statuses
                       /\ comp' = [comp EXCEPT ![Head(events).of] = s]
      BY <2>9 DEF Finalize
    <3>2. CASE Head(events).of \in Composites
      BY <2>3, <3>1, <3>2
    <3>3. CASE Head(events).of \notin Composites
      BY <2>0, <3>1, <3>3
    <3>. QED
      BY <3>2, <3>3
  <2>10. CASE SlotFirstJobFinished
    <3>1. /\ UNCHANGED <<leaf, comp>> /\ signal.as = "first" /\ signal.from \in Dirs
          /\ UNCHANGED dir \/ \E s : dir' = [dir EXCEPT ![signal.from] = s]
      BY <2>0, <2>10, Received, Nodes DEF SlotFirstJobFinished, Receive
    <3>. QED
      BY <2>0, <2>2, <3>1, Words DEF BooksOK, ReportsOK
  <2>11. CASE SlotSubJobsFinished
    <3>1. /\ UNCHANGED <<leaf, comp>> /\ signal.as = "comp" /\ signal.from \in Dirs
          /\ \E s : dir' = [dir EXCEPT ![signal.from] = s]
      BY <2>0, <2>11, Received
         DEF SlotSubJobsFinished, Receive, Composites, FinishDirectory
    <3>. QED
      BY <2>0, <2>2, <3>1, Words, TreeAssumption DEF BooksOK, ReportsOK
  <2>12. CASE SlotDirDeletionJobsFinished
    <3>1. /\ UNCHANGED <<leaf, comp>> /\ signal.as = "comp" /\ signal.from = Deletions
          /\ \E s : dir' = [dir EXCEPT ![Root] = s]
      BY <2>12 DEF SlotDirDeletionJobsFinished, Receive
    <3>. QED
      BY <2>0, <2>2, <3>1, TreeAssumption DEF BooksOK, ReportsOK
  <2>13. CASE \/ SlotRootSubJobsFinished \/ SkipUselessTask \/ NothingLeft \/ DeleteJob
              \/ AbortEvent \/ AbortTimeout \/ AbortFinished \/ DeliverFinished
    BY <2>13 DEF SlotRootSubJobsFinished, SkipUselessTask, NothingLeft, DeleteJob,
                 AbortEvent, AbortTimeout, AbortFinished, DeliverFinished, AbortJobs, tree
  <2>. QED
    BY <1>1, <2>4, <2>5, <2>6, <2>7, <2>8, <2>9, <2>10, <2>11, <2>12, <2>13
       DEF Next, Handler
<1>2. Books /\ [Next]_vars => [Kept]_vars
  BY <1>1
<1>. QED
  BY <1>2, FirstInit, BooksInit, BooksNext, PTL DEF Spec, Books, DoneOnce

\* Going up from a node, level by level.
LEMMA AboveUp ==
    /\ \A n \in DOMAIN Parent : Parent[n] \in Dirs => Parent[n] \in Above[n]
    /\ \A n \in DOMAIN Parent : \A b \in Above[n] \ {Root} :
          b \in DOMAIN Parent /\ (Parent[b] \in Above[n] \/ Parent[b] = Deletions)
    /\ \A n \in DOMAIN Parent : Above[n] \subseteq Dirs
<1>0. Deletions \notin Dirs /\ \A n \in DOMAIN Parent : n # Root /\ n \in Items \cup Dirs
  BY TreeAssumption, Nodes DEF Composites
<1>1. \A n \in DOMAIN Parent : Above[n] \subseteq Dirs
  BY <1>0 DEF Above
<1>2. ASSUME NEW n \in DOMAIN Parent, Parent[n] \in Dirs PROVE Parent[n] \in Above[n]
  BY <1>0, <1>2 DEF Above
<1>3. ASSUME NEW n \in DOMAIN Parent, NEW b \in Above[n] \ {Root}
      PROVE  b \in DOMAIN Parent /\ (Parent[b] \in Above[n] \/ Parent[b] = Deletions)
  <2>1. b \in DOMAIN Parent /\ Parent[b] \in Composites
    BY <1>1, Nodes
  <2>2. ASSUME Parent[b] # Deletions PROVE Parent[b] \in Above[n]
    <3>1. Parent[b] \in Dirs
      BY <2>1, <2>2 DEF Composites
    <3>2. ASSUME NEW S \in SUBSET Dirs, ClosedUpwards(S),
                 Parent[n] \in S \cup {Deletions}
          PROVE  Parent[b] \in S
      <4>1. b \in S
        BY <1>0, <3>2 DEF Above
      <4>. QED
        BY <2>2, <3>2, <4>1 DEF ClosedUpwards
    <3>. QED
      BY <1>0, <3>1, <3>2 DEF Above
  <2>. QED
    BY <2>1, <2>2
<1>. QED
  BY <1>1, <1>2, <1>3

\* Above[n] lies within every set that is closed upwards from n.
LEMMA AboveWithin ==
    ASSUME NEW n \in DOMAIN Parent, NEW S \in SUBSET Dirs,
           Parent[n] \in S \cup {Deletions},
           \A b \in S \ {Root} : Parent[b] \in S \cup {Deletions}
    PROVE  Above[n] \subseteq S
<1>1. n # Root /\ n \in Items \cup Dirs
  BY TreeAssumption, Nodes DEF Composites
<1>. QED
  BY <1>1 DEF Above, ClosedUpwards

\* What stands directly below a composite that has ended well.
LEMMA BelowSuccess ==
    ASSUME Books, NEW n \in DOMAIN Parent, comp[Parent[n]] = "Success",
           Parent[n] = Deletions => comp[Root] = "Success"
    PROVE  /\ n \in Items => Arrived(n) \/ leaf[n] = "Message"
           /\ n \in Dirs => EndedWell(n) \/ Uncounted(n)
<1>. DEFINE c == Parent[n]
<1>1. /\ c \in Composites /\ Root \in Composites /\ "Success" \in Statuses
      /\ FirstInv /\ BooksOK
      /\ n \in Items \/ n \in Dirs \ {Root}
      /\ (n \in Dirs <=> n \notin Items)
      /\ \A b \in Composites : errors[b] \subseteq Errors
  BY Nodes, TreeAssumption, Words DEF Books, FirstInv, TypeOK, Composites
<1>2. \A b \in Composites : comp[b] = "Success" => errors[b] = {} /\ b \in Settled
  BY <1>1, Words DEF BooksOK, CompositesOK
<1>3. c \in Settled /\ errors[c] = {} /\ (c = Deletions => errors[Root] = {})
  BY <1>1, <1>2
<1>4. n \notin todo[c] /\ n \notin Range(running[c])
  BY <1>1, <1>3, Listed DEF Settled, Exhausted
<1>5. ~Busy(n) /\ ~Reports(n)
  BY <1>1, <1>4 DEF BooksOK, RunningOK
<1>6. State(n) \notin Errors
  BY <1>1, <1>3, <1>5 DEF BooksOK, AccountsOK
<1>7. State(n) = NotYetStarted /\ Expected(n) => n \in Useless
  BY <1>1, <1>3, <1>4 DEF BooksOK, AccountsOK
<1>8. CASE n \in Items
  <2>1. State(n) = leaf[n] /\ n \notin Dirs /\ n \in Leaves
    BY <1>8, TreeAssumption DEF State, Composites, Leaves
  <2>2. leaf[n] = NotYetStarted \/ leaf[n] \in Positive \cup {"Message"}
    BY <1>1, <1>5, <1>6, <2>1, Words, Types DEF Busy, FirstInv
  <2>3. CASE leaf[n] = NotYetStarted /\ ~Expected(n)
    BY <2>1, <2>3 DEF Expected, Arrived
  <2>. QED
    BY <1>7, <2>1, <2>2, <2>3, Words DEF Arrived
<1>9. CASE n \in Dirs \ {Root}
  <2>1. State(n) = dir[n] /\ dir[n] # "Running"
    BY <1>5, <1>9 DEF State, Busy
  <2>2. Expected(n) /\ n \notin Useless
    BY <1>9, JobAssumption, TreeAssumption DEF Expected, Composites
  <2>3. dir[n] \in Statuses \ Errors
    BY <1>1, <1>6, <1>7, <1>9, <2>1, <2>2, Types DEF FirstInv
  <2>4. EndedWell(n) \/ Uncounted(n)
    BY <1>1, <1>9, <2>3 DEF BooksOK, EndsOK
  <2>. QED
    BY <1>9, <2>4, TreeAssumption DEF Composites
<1>. QED
  BY <1>1, <1>8, <1>9

\* From a good end down to a node: every directory on the way has ended well.
LEMMA WellOnTheWay ==
    ASSUME Books, NEW n \in DOMAIN Parent, ~CoveredUp(n), ~PutOff(n),
           NEW U \in SUBSET (Above[n] \ {Root}),
           \A b \in U : \/ Parent[b] \in U
                        \/ /\ comp[Parent[b]] = "Success"
                           /\ Parent[b] = Deletions => comp[Root] = "Success"
    PROVE  \A b \in U : EndedWell(b)
<1>. DEFINE S == {b \in U : ~EndedWell(b)}
<1>1. \A b \in U : b \in Dirs \ {Root} /\ b \in DOMAIN Parent /\ b \in Above[n]
  BY AboveUp, Nodes
<1>2. ASSUME S # {} PROVE FALSE
  <2>1. PICK b \in S : Parent[b] \notin S
    BY <1>1, <1>2, TreeAssumption
  <2>2. /\ comp[Parent[b]] = "Success"
        /\ Parent[b] = Deletions => comp[Root] = "Success"
    <3>1. CASE Parent[b] \in U
      <4>1. EndedWell(Parent[b]) /\ Parent[b] # Deletions
        BY <1>1, <2>1, <3>1, TreeAssumption DEF Composites
      <4>. QED
        BY <4>1 DEF EndedWell
    <3>. QED
      BY <3>1
  <2>3. EndedWell(b) \/ Uncounted(b)
    BY <1>1, <2>2, BelowSuccess
  <2>. QED
    BY <1>1, <2>3 DEF CoveredUp, PutOff, Uncounted, Leaves
<1>. QED
  BY <1>2

\* The etag a directory gets in the journal (finalize of its record) is earned:
\* whatever was to be done below has arrived on the other side, or waits for the
\* next sync by the conflict of a directory above it.
THEOREM EtagsAreEarned == Spec => []SavedEtagIsEarned
<1>1. Books => SavedEtagIsEarned
  <2>. SUFFICES ASSUME Books, NEW d \in saved, NEW n \in Leaves,
                       d \in Above[n] \cup {n}, ~CoveredUp(n), ~PutOff(n)
                PROVE  Arrived(n)
    BY DEF SavedEtagIsEarned, AccountedFor
  <2>1. EndedWell(d) /\ d # Root /\ d \in Dirs
    BY DEF Books, BooksOK, EndsOK, FirstInv, TypeOK
  <2>2. n \in DOMAIN Parent /\ (n \in Dirs <=> n \in Acting) /\ (n \notin Dirs => n \in Items)
    BY Nodes DEF Leaves
  <2>3. CASE n = d
    BY <2>1, <2>2, <2>3 DEF EndedWell, Arrived
  <2>4. CASE d \in Above[n]
    <3>. DEFINE U == {b \in Above[n] \ {Root} : d \in Above[b]}
    <3>1. ASSUME NEW b \in U
          PROVE  \/ Parent[b] \in U
                 \/ comp[Parent[b]] = "Success" /\ Parent[b] # Deletions
      <4>1. b \in DOMAIN Parent /\ Parent[b] \in Dirs /\ Parent[b] \in Above[n]
        BY <2>2, AboveUp, AboveStep, TreeAssumption
      <4>2. d = Parent[b] \/ d \in Above[Parent[b]]
        BY <4>1, AboveStep
      <4>3. d \in Above[Parent[b]] => Parent[b] # Root
        BY AboveStep
      <4>4. Parent[b] # Deletions
        BY <4>1, TreeAssumption
      <4>. QED
        BY <2>1, <4>1, <4>2, <4>3, <4>4 DEF EndedWell
    <3>2. \A b \in U : EndedWell(b)
      BY <2>2, <3>1, WellOnTheWay
    <3>3. comp[Parent[n]] = "Success" /\ Parent[n] # Deletions
      <4>1. Parent[n] \in Dirs /\ (d = Parent[n] \/ d \in Above[Parent[n]])
        BY <2>2, <2>4, AboveStep
      <4>2. CASE d = Parent[n]
        BY <2>1, <4>1, <4>2, TreeAssumption DEF EndedWell
      <4>3. CASE d \in Above[Parent[n]]
        <5>1. Parent[n] \in U
          BY <2>2, <4>1, <4>3, AboveUp, AboveStep
        <5>. QED
          BY <3>2, <4>1, <5>1, TreeAssumption DEF EndedWell
      <4>. QED
        BY <4>1, <4>2, <4>3
    <3>. QED
      BY <2>2, <3>3, BelowSuccess DEF Arrived, EndedWell, Uncounted, PutOff
  <2>. QED
    BY <2>3, <2>4
<1>. QED
  BY <1>1, FirstInit, BooksInit, BooksNext, PTL DEF Spec, Books

\* A sync that reports success (emitFinished with Success) has left nothing out.
THEOREM SuccessIsEarned == Spec => []SuccessIsTruthful
<1>1. Books => SuccessIsTruthful
  <2>. SUFFICES ASSUME Books, result = "Success", NEW n \in Leaves,
                       ~CoveredUp(n), ~PutOff(n)
                PROVE  Arrived(n)
    BY DEF SuccessIsTruthful, AccountedFor
  <2>1. comp[Root] = "Success" /\ comp[Deletions] = "Success"
    BY DEF Books, BooksOK, EndsOK
  <2>2. n \in DOMAIN Parent /\ (n \in Dirs <=> n \in Acting) /\ (n \notin Dirs => n \in Items)
    BY Nodes DEF Leaves
  <2>. DEFINE U == Above[n] \ {Root}
  <2>3. \A b \in U : Parent[b] \in U \/ Parent[b] \in {Root, Deletions}
    BY <2>2, AboveUp
  <2>4. \A b \in U : EndedWell(b)
    BY <2>1, <2>2, <2>3, WellOnTheWay
  <2>5. Parent[n] \in U \/ Parent[n] \in {Root, Deletions}
    BY <2>2, AboveUp, Nodes DEF Composites
  <2>6. comp[Parent[n]] = "Success"
    BY <2>1, <2>4, <2>5 DEF EndedWell
  <2>. QED
    BY <2>1, <2>2, <2>6, BelowSuccess DEF Arrived, EndedWell, Uncounted, PutOff
<1>. QED
  BY <1>1, FirstInit, BooksInit, BooksNext, PTL DEF Spec, Books

-----------------------------------------------------------------------------
\* What is at work has everything above it at work.

LEMMA Climb ==
    ASSUME Books, NEW n \in DOMAIN Parent, comp[Parent[n]] = "Running"
    PROVE  \A c \in Above[n] : comp[c] = "Running" /\ dir[c] = "Running"
<1>. DEFINE S == {b \in Dirs : comp[b] = "Running"}
<1>1. FirstInv /\ BooksOK /\ Dirs \subseteq Composites
  BY Nodes DEF Books
<1>2. ASSUME NEW b \in S \ {Root} PROVE Parent[b] \in S \cup {Deletions}
  <2>1. b \in DOMAIN Parent /\ Parent[b] \in Composites
    BY Nodes
  <2>2. Busy(b)
    BY <1>1 DEF Busy, BooksOK, DirectoriesOK
  <2>3. b \in Range(running[Parent[b]])
    BY <1>1, <2>1, <2>2 DEF BooksOK, RunningOK
  <2>4. comp[Parent[b]] \notin Statuses
    BY <1>1, <2>1, <2>3, Listed DEF BooksOK, CompositesOK, Settled, Exhausted
  <2>5. Parent[b] \in Opened
    BY <1>1, <2>1, <2>3, Listed DEF FirstInv, OpenedFromAbove
  <2>6. comp[Parent[b]] = "Running"
    BY <1>1, <2>1, <2>4, <2>5, Types DEF Opened, FirstInv
  <2>. QED
    BY <2>1, <2>6 DEF Composites
<1>3. Parent[n] \in S \cup {Deletions}
  BY Nodes DEF Composites
<1>4. Above[n] \subseteq S
  <2>1. S \in SUBSET Dirs /\ \A b \in S \ {Root} : Parent[b] \in S \cup {Deletions}
    BY <1>2
  <2>. HIDE DEF S
  <2>. QED
    BY <1>3, <2>1, AboveWithin
<1>. QED
  BY <1>1, <1>4 DEF BooksOK, DirectoriesOK

\* A job that starts, goes on or ends belongs to a composite at work.
LEMMA MovesBelow ==
    ASSUME Books, Next, NEW n \in Leaves, leaf'[n] # leaf[n]
    PROVE  comp[Parent[n]] = "Running"
<1>1. FirstInv /\ BooksOK /\ TypeOK /\ TreeInv
  BY DEF Books, FirstInv, TreeInv
<1>2. n \in DOMAIN Parent /\ Parent[n] \in Composites
  BY Nodes
<1>3. Parent[n] \in Opened /\ Parent[n] \notin Settled
  <2>1. CASE leaf[n] \in Stages
    <3>1. n \in Range(running[Parent[n]])
      BY <1>1, <2>1, AtWork
    <3>. QED
      BY <1>1, <1>2, <3>1, Listed DEF FirstInv, OpenedFromAbove, Settled, Exhausted
  <2>2. CASE leaf[n] \notin Stages
    <3>1. ASSUME NEW m \in Leaves, NEW s, leaf' = [leaf EXCEPT ![m] = s]
          PROVE  m = n
      BY <1>1, <3>1 DEF TypeOK
    <3>2. ~CancelReply
      <4>1. ASSUME CancelReply PROVE FALSE
        <5>1. PICK m \in cancel \ {Root} : leaf' = [leaf EXCEPT ![m] = Softened("Fatal")]
          BY <4>1 DEF CancelReply, Done
        <5>2. m \in Leaves /\ leaf[m] \in Stages
          BY <1>1 DEF TypeOK, TreeInv, ControlOK, Stages
        <5>. QED
          BY <2>2, <3>1, <5>1, <5>2
      <4>. QED
        BY <4>1
    <3>3. ~(\E m \in Leaves : Answer(m))
      <4>1. ASSUME \E m \in Leaves : Answer(m) PROVE FALSE
        <5>1. PICK m, s : m \in Leaves /\ leaf[m] \in Stages /\ leaf' = [leaf EXCEPT ![m] = s]
          BY <4>1 DEF Answer, StartUpload, FileLocked, Reply, DownloadReceived,
                      Validated, Done, Stages
        <5>. QED
          BY <2>2, <3>1, <5>1
      <4>. QED
        BY <4>1
    <3>4. CASE StartAndFinish \/ StartAsync
      <4>1. PICK c, m, s :
              /\ c \in Composites /\ m \in Leaves
              /\ m \in todo[c] /\ StartJob(c, m) /\ leaf' = [leaf EXCEPT ![m] = s]
        BY <3>4 DEF StartAndFinish, StartAsync, NextJobs, Done
      <4>2. InPass /\ Top.of = c /\ m = n
        BY <3>1, <4>1 DEF StartJob, Take, OwnTurn
      <4>3. c \in Opened /\ Parent[n] = c
        BY <1>1, <4>1, <4>2, TopFrame, Listed
      <4>. QED
        BY <4>1, <4>2, <4>3 DEF Settled, Exhausted
    <3>5. UNCHANGED leaf \/ StartAndFinish \/ StartAsync
      BY <3>2, <3>3 DEF Next, Handler, ScheduleNextJobImpl, AskRunning, SkipUselessTask,
           StartDirectory, NothingLeft, DeleteJob, SlotSubJobFinished, Finalize,
           SlotFirstJobFinished, SlotSubJobsFinished, SlotRootSubJobsFinished,
           SlotDirDeletionJobsFinished, AbortEvent, AbortTimeout, AbortJobs,
           AbortFinished, DeliverFinished, tree
    <3>. QED
      BY <3>4, <3>5
  <2>. QED
    BY <2>1, <2>2
<1>4. comp[Parent[n]] \notin Statuses
  BY <1>1, <1>2, <1>3 DEF BooksOK, CompositesOK
<1>. QED
  BY <1>1, <1>2, <1>3, <1>4, Types DEF Opened

\* "Important: Finish _subJobs before scheduling any deletes": a deletion that
\* has started finds every job of the tree at its end.
THEOREM TreeBeforeDeletions == Spec => DeletionsLast
<1>. DEFINE LastStep == \A n \in Leaves : InTree(n) /\ leaf'[n] # leaf[n] =>
                       \A x \in Leaves : ~InTree(x) => leaf[x] = NotYetStarted
<1>1. ASSUME Books, Next PROVE LastStep
  <2>. SUFFICES ASSUME NEW n \in Leaves, InTree(n), leaf'[n] # leaf[n],
                       NEW x \in Leaves, ~InTree(x), leaf[x] # NotYetStarted
                PROVE  FALSE
    OBVIOUS
  <2>0. FirstInv /\ BooksOK /\ n \in DOMAIN Parent /\ x \in DOMAIN Parent
    BY <1>1, Nodes DEF Books
  <2>1. comp[Root] = "Running"
    BY <1>1, <2>0, MovesBelow, Climb DEF InTree
  <2>2. x \in Begun /\ Parent[x] \in Opened
    BY <2>0, Nodes DEF FirstInv, OpenedFromAbove, Begun, Leaves
  <2>. DEFINE S == {b \in Dirs : b \in Opened}
  <2>3. \A b \in S \ {Root} : Parent[b] \in Opened /\ Parent[b] \in S \cup {Deletions}
    BY <2>0, Nodes DEF FirstInv, OpenedFromAbove, Opened, Composites
  <2>4. Above[x] \subseteq S /\ Root \notin Above[x]
    <3>1. Parent[x] \in S \cup {Deletions}
      BY <2>2 DEF Opened, Composites
    <3>2. S \in SUBSET Dirs
      OBVIOUS
    <3>. HIDE DEF S
    <3>. QED
      BY <2>0, <2>3, <3>1, <3>2, AboveWithin DEF InTree
  <2>5. Deletions \in Opened
    <3>1. CASE Above[x] = {}
      BY <2>0, <2>2, <3>1, AboveUp, Nodes DEF Composites
    <3>2. CASE Above[x] # {}
      <4>1. PICK b \in Above[x] : Parent[b] \notin Above[x]
        <5>1. Above[x] \in SUBSET (Dirs \ {Root})
          BY <2>4
        <5>. QED
          BY <3>2, <5>1, TreeAssumption
      <4>2. Parent[b] = Deletions
        BY <2>0, <2>4, <4>1, AboveUp
      <4>. QED
        BY <2>3, <2>4, <4>1, <4>2
    <3>. QED
      BY <3>1, <3>2
  <2>6. comp[Root] \in Statuses
    BY <2>0, <2>5 DEF Opened, BooksOK, DirectoriesOK
  <2>. QED
    BY <2>1, <2>6, Words
<1>2. Books /\ [Next]_vars => [LastStep]_vars
  BY <1>1
<1>. QED
  BY <1>2, FirstInit, BooksInit, BooksNext, PTL DEF Spec, Books, DeletionsLast

-----------------------------------------------------------------------------
\* The scheduling pass and the moves.

\* A pass has gone by no child that waits for a move to finish.
PassOK ==
    /\ signal # NoSignal => pass = <<>>
    /\ \A i \in DOMAIN pass : \A j \in DOMAIN running[pass[i].of] :
          j < pass[i].at => ~Waiting(running[pass[i].of][j])

\* A directory that has not started holds no move at work.
LEMMA NotWaiting ==
    ASSUME Books, signal = NoSignal, NEW d \in Dirs, dir[d] # "Running"
    PROVE  ~Waiting(d)
<1>. SUFFICES ASSUME NEW m \in Moves, d \in Above[m] \cup {m}, dir[m] = "Running"
              PROVE  FALSE
  BY DEF Waiting
<1>1. /\ FirstInv /\ BooksOK /\ m \in Dirs /\ m \in DOMAIN Parent
      /\ Parent[m] \in Composites /\ d \in Above[m]
  BY JobAssumption, Nodes DEF Books
<1>2. m \in Range(running[Parent[m]])
  BY <1>1 DEF BooksOK, RunningOK, Busy
<1>3. Parent[m] \in Opened /\ Parent[m] \notin Settled
  BY <1>1, <1>2, Listed DEF FirstInv, OpenedFromAbove, Settled, Exhausted
<1>4. comp[Parent[m]] = "Running"
  BY <1>1, <1>3, Types DEF BooksOK, CompositesOK, Opened, FirstInv
<1>. QED
  BY <1>1, <1>4, Climb

\* The pass stops at a directory that is being moved, at every step of it.
LEMMA PassNext ==
    ASSUME Books, PassOK, Next
    PROVE  PassOK'
<1>0. /\ TypeOK /\ TreeInv /\ FirstInv /\ BooksOK
      /\ running \in [Composites -> Seq(Items \cup Dirs)] /\ pass \in Seq(Frames)
  BY DEF Books, FirstInv, TreeInv, TypeOK
<1>1. CASE ScheduleNextJobImpl
  <2>1. signal' = NoSignal
    BY <1>1 DEF ScheduleNextJobImpl, AtEventLoop
  <2>2. pass' = <<>> \/ \E c : pass' = <<[of |-> c, at |-> 1]>>
    BY <1>1 DEF ScheduleNextJobImpl, AtEventLoop
  <2>3. CASE pass' = <<>>
    BY <2>1, <2>3 DEF PassOK
  <2>4. CASE \E c : pass' = <<[of |-> c, at |-> 1]>>
    <3>1. PICK c : pass' = <<[of |-> c, at |-> 1]>>
      BY <2>4
    <3>2. UNCHANGED running /\ c \in Composites
      BY <1>1, <3>1, TreeAssumption
         DEF ScheduleNextJobImpl, AtEventLoop, NextComposite, Composites
    <3>3. \A j \in DOMAIN running[c] : ~(j < 1)
      BY <1>0, <3>2
    <3>. QED
      BY <2>1, <3>1, <3>2, <3>3 DEF PassOK
  <2>. QED
    BY <2>2, <2>3, <2>4
<1>2. CASE AskRunning \/ StartDirectory
  <2>. DEFINE k == Len(pass)
              t == Top.at
  <2>1. /\ InPass /\ signal = NoSignal /\ signal' = NoSignal
        /\ k \in Nat /\ k \in 1..k /\ DOMAIN pass = 1..k /\ Top = pass[k]
        /\ \A i \in 1..k : pass[i] \in Frames
        /\ Top.of \in Composites
    <3>1. InPass /\ signal = NoSignal /\ signal' = NoSignal
      BY <1>2 DEF AskRunning, StartDirectory, Take, OwnTurn, InPass
    <3>. QED
      BY <1>0, <3>1, TopFrame, NonEmpty, ElementOfSeq DEF InPass, Top, Last
  <2>2. ASSUME NEW new \in Nat, NEW i \in 1..k
        PROVE  /\ DOMAIN SetTop(new) = 1..k
               /\ SetTop(new)[i].of = pass[i].of
               /\ SetTop(new)[i].at = IF i = k THEN new ELSE pass[i].at
    BY <2>1 DEF SetTop, Frames
  <2>3. CASE AskRunning
    <3>. DEFINE n == running[Top.of][t]
                new == IF Waiting(n) THEN 0 ELSE t + 1
    <3>1. /\ UNCHANGED <<running, dir, leaf>> /\ t \in DOMAIN running[Top.of]
          /\ \/ pass' = SetTop(new)
             \/ \E c \in Composites : pass' = Append(SetTop(new), [of |-> c, at |-> 1])
      BY <2>3, Nodes DEF AskRunning
    <3>2. new \in Nat /\ t \in Nat
      <4>1. running[Top.of] \in Seq(Items \cup Dirs)
        BY <1>0, <2>1
      <4>2. t \in Nat
        BY <3>1, <4>1, LenProperties
      <4> HIDE DEF t
      <4>. QED
        BY <4>2
    <3>3. \A j \in DOMAIN running[Top.of] : j < new => ~Waiting(running[Top.of][j])
      <4>1. \A j \in DOMAIN running[Top.of] :
              j \in Nat /\ (j < t => ~Waiting(running[Top.of][j]))
        BY <1>0, <2>1 DEF PassOK
      <4>2. CASE Waiting(n)
        BY <3>2, <4>1, <4>2
      <4>3. CASE ~Waiting(n)
        BY <3>2, <4>1, <4>3
      <4>. QED
        BY <4>2, <4>3
    <3>. HIDE DEF n, new
    <3>4. SetTop(new) \in Seq(Frames) /\ DOMAIN SetTop(new) = 1..k
      <4>1. SetTop(new) \in Seq(Frames)
        BY <1>0, <2>1, <3>2, SetTopType DEF InPass
      <4>2. DOMAIN SetTop(new) = 1..k
        BY <2>1 DEF SetTop
      <4>. QED
        BY <4>1, <4>2
    <3>5. \A i \in 1..k : \A j \in DOMAIN running[SetTop(new)[i].of] :
            j < SetTop(new)[i].at => ~Waiting(running[SetTop(new)[i].of][j])
      <4>1. ASSUME NEW i \in 1..k, NEW j \in DOMAIN running[pass[i].of],
                   j < SetTop(new)[i].at
            PROVE  ~Waiting(running[pass[i].of][j])
        <5>0. SetTop(new)[i].at = IF i = k THEN new ELSE pass[i].at
          BY <2>2, <3>2
        <5>1. CASE i = k
          <6>1. j < new /\ j \in DOMAIN running[Top.of] /\ pass[i].of = Top.of
            BY <2>1, <4>1, <5>0, <5>1
          <6>. QED
            BY <3>3, <6>1
        <5>2. CASE i # k
          <6>1. j < pass[i].at
            BY <4>1, <5>0, <5>2
          <6>2. i \in DOMAIN pass
            BY <2>1
          <6>. QED
            BY <6>1, <6>2 DEF PassOK
        <5>. QED
          BY <5>1, <5>2
      <4>. QED
        BY <2>2, <3>2, <4>1
    <3>6. \A i \in DOMAIN pass' : \A j \in DOMAIN running[pass'[i].of] :
            j < pass'[i].at => ~Waiting(running[pass'[i].of][j])
      <4>1. CASE pass' = SetTop(new)
        BY <3>4, <3>5, <4>1
      <4>2. CASE \E c \in Composites : pass' = Append(SetTop(new), [of |-> c, at |-> 1])
        <5>1. PICK c \in Composites : pass' = Append(SetTop(new), [of |-> c, at |-> 1])
          BY <4>2
        <5>2. [of |-> c, at |-> 1] \in Frames
          BY DEF Frames
        <5>3. /\ DOMAIN pass' = 1..(k + 1) /\ pass'[k + 1] = [of |-> c, at |-> 1]
              /\ \A i \in 1..k : pass'[i] = SetTop(new)[i]
          BY <2>1, <3>4, <5>1, <5>2, AppendProperties, LenProperties
        <5>4. \A j \in DOMAIN running[c] : ~(j < 1)
          BY <1>0, <5>2
        <5>. QED
          BY <2>1, <3>5, <5>3, <5>4
      <4>. QED
        BY <3>1, <4>1, <4>2
    <3>7. \A x : Waiting(x)' = Waiting(x)
      BY <3>1 DEF Waiting
    <3>. QED
      BY <2>1, <3>1, <3>6, <3>7 DEF PassOK
  <2>4. CASE StartDirectory
    <3>1. PICK c \in Composites, d \in Dirs :
            /\ d \in todo[c] /\ c = Top.of /\ d \notin Acting
            /\ running' = [running EXCEPT ![c] = Append(@, d)]
            /\ dir' = [dir EXCEPT ![d] = "Running"] /\ UNCHANGED leaf
            /\ pass' = Append(SetTop(0), [of |-> d, at |-> 1])
      BY <1>0, <2>4 DEF StartDirectory, Take, OwnTurn, NextJobs, TypeOK, Leaves
    <3>2. \A m \in Moves : dir'[m] = dir[m]
      BY <1>0, <3>1, JobAssumption, Nodes DEF TypeOK
    <3>3. \A x : Waiting(x)' = Waiting(x)
      BY <3>1, <3>2 DEF Waiting
    <3>4. ~Waiting(d) /\ d \in Composites /\ d # c
      <4>1. State(d) = NotYetStarted /\ d \in DOMAIN Parent /\ Parent[d] = c
        BY <1>0, <2>1, <3>1, Untouched
      <4>2. dir[d] # "Running"
        BY <4>1, Words DEF State
      <4>3. d # c
        <5>1. comp[d] = NotYetStarted
          BY <1>0, <2>1, <3>1, Untouched
        <5>2. c \in Opened
          BY <1>0, <2>1, <3>1, TopFrame
        <5>. QED
          BY <5>1, <5>2 DEF Opened
      <4>. QED
        BY <2>1, <4>2, <4>3, NotWaiting, Nodes
    <3>5. \A b \in Composites : \A j \in DOMAIN running'[b] :
            \/ j \in DOMAIN running[b] /\ running'[b][j] = running[b][j]
            \/ running'[b][j] = d
      <4>1. /\ DOMAIN Append(running[c], d) = 1..(Len(running[c]) + 1)
            /\ DOMAIN running[c] = 1..Len(running[c]) /\ Len(running[c]) \in Nat
            /\ \A j \in 1..Len(running[c]) : Append(running[c], d)[j] = running[c][j]
            /\ Append(running[c], d)[Len(running[c]) + 1] = d
        BY <1>0, <3>1, AppendProperties, LenProperties
      <4>2. \A b \in Composites :
              running'[b] = IF b = c THEN Append(running[c], d) ELSE running[b]
        BY <1>0, <3>1
      <4>. DEFINE l == Len(running[c])
      <4>. HIDE DEF l
      <4>3. ASSUME NEW j \in DOMAIN Append(running[c], d)
            PROVE  \/ j \in DOMAIN running[c] /\ Append(running[c], d)[j] = running[c][j]
                   \/ Append(running[c], d)[j] = d
        <5>1. j \in 1..(l + 1) /\ l \in Nat
          BY <4>1 DEF l
        <5>2. j \in 1..l \/ j = l + 1
          BY <5>1
        <5>. QED
          BY <4>1, <5>2 DEF l
      <4>. QED
        BY <4>2, <4>3
    <3>6. /\ SetTop(0) \in Seq(Frames) /\ DOMAIN SetTop(0) = 1..k
          /\ [of |-> d, at |-> 1] \in Frames
      <4>0. 0 \in Nat
        OBVIOUS
      <4>1. SetTop(0) \in Seq(Frames)
        BY <1>0, <2>1, <4>0, SetTopType DEF InPass
      <4>2. DOMAIN SetTop(0) = 1..k
        BY <2>1 DEF SetTop
      <4>3. [of |-> d, at |-> 1] \in Frames
        BY <3>4 DEF Frames
      <4>. QED
        BY <4>1, <4>2, <4>3
    <3>7. /\ DOMAIN pass' = 1..(k + 1) /\ pass'[k + 1] = [of |-> d, at |-> 1]
          /\ \A i \in 1..k : pass'[i] = SetTop(0)[i]
      BY <2>1, <3>1, <3>6, AppendProperties, LenProperties
    <3>8. ASSUME NEW i \in 1..k, NEW j \in DOMAIN running'[pass[i].of],
                 j < pass'[i].at
          PROVE  ~Waiting(running'[pass[i].of][j])
      <4>1. pass[i].of \in Composites /\ running'[pass[i].of] \in Seq(Items \cup Dirs)
        <5>1. pass[i].of \in Composites
          BY <2>1 DEF Frames
        <5>2. Append(running[c], d) \in Seq(Items \cup Dirs)
          BY <1>0, <3>1, AppendType
        <5>. QED
          BY <1>0, <3>1, <5>1, <5>2
      <4>2. j \in Nat /\ j >= 1
        BY <4>1, LenProperties
      <4>3. pass'[i].at = IF i = k THEN 0 ELSE pass[i].at
        <5>1. pass'[i] = SetTop(0)[i] /\ 0 \in Nat
          BY <3>7
        <5>. QED
          BY <2>2, <5>1
      <4>4. j < pass[i].at
        BY <3>8, <4>2, <4>3
      <4>5. CASE running'[pass[i].of][j] = d
        BY <3>4, <4>5
      <4>6. CASE j \in DOMAIN running[pass[i].of]
                 /\ running'[pass[i].of][j] = running[pass[i].of][j]
        BY <2>1, <4>4, <4>6 DEF PassOK
      <4>. QED
        BY <3>5, <4>1, <4>5, <4>6
    <3>9. \A j \in DOMAIN running'[d] : ~(j < 1)
      BY <1>0, <3>1, <3>4
    <3>10. \A i \in DOMAIN pass' : \A j \in DOMAIN running'[pass'[i].of] :
             j < pass'[i].at => ~Waiting(running'[pass'[i].of][j])
      <4>1. ASSUME NEW i \in 1..k PROVE pass'[i].of = pass[i].of
        BY <2>2, <3>7
      <4>2. ASSUME NEW i \in DOMAIN pass' PROVE i \in 1..k \/ i = k + 1
        BY <2>1, <3>7
      <4>. QED
        BY <3>7, <3>8, <3>9, <4>1, <4>2
    <3>. QED
      BY <2>1, <3>3, <3>10 DEF PassOK
  <2>. QED
    BY <1>2, <2>3, <2>4
<1>3. CASE NothingLeft
  <2>1. /\ pass' = SubSeq(pass, 1, Len(pass) - 1) /\ Len(pass) \in 1..Len(pass)
        /\ signal' = NoSignal /\ UNCHANGED <<running, dir, leaf>>
    <3>1. InPass /\ pass' = Front(pass) /\ UNCHANGED <<running, dir, leaf, signal>>
      BY <1>3 DEF NothingLeft, tree
    <3>2. Len(pass) \in 1..Len(pass)
      BY <1>0, <3>1, NonEmpty DEF InPass
    <3>. QED
      BY <3>1, <3>2 DEF InPass, Front
  <2>2. \A i \in DOMAIN pass' : i \in DOMAIN pass /\ pass'[i] = pass[i]
    BY <1>0, <2>1, SubSeqProperties
  <2>3. \A x : Waiting(x)' = Waiting(x)
    BY <2>1 DEF Waiting
  <2>. QED
    BY <2>1, <2>2, <2>3 DEF PassOK
<1>4. CASE SkipUselessTask
  <2>1. UNCHANGED <<signal, pass, running, dir, leaf>>
    BY <1>4 DEF SkipUselessTask
  <2>2. \A x : Waiting(x)' = Waiting(x)
    BY <2>1 DEF Waiting
  <2>. QED
    BY <2>1, <2>2 DEF PassOK
<1>5. CASE \/ StartAndFinish \/ StartAsync \/ DeleteJob \/ SlotSubJobFinished \/ Finalize
           \/ SlotFirstJobFinished \/ SlotSubJobsFinished \/ SlotRootSubJobsFinished
           \/ SlotDirDeletionJobsFinished \/ AbortEvent \/ AbortTimeout \/ CancelReply
           \/ AbortFinished \/ DeliverFinished \/ \E n \in Leaves : Answer(n)
  <2>1. pass' = <<>>
    <3>1. CASE StartAndFinish \/ StartAsync
      BY <3>1 DEF StartAndFinish, StartAsync, StartJob
    <3>2. CASE \/ SlotSubJobFinished \/ SlotFirstJobFinished \/ SlotSubJobsFinished
               \/ SlotRootSubJobsFinished \/ SlotDirDeletionJobsFinished
      BY <3>2 DEF PassOK, Receive, SlotSubJobFinished, SlotFirstJobFinished,
                  SlotSubJobsFinished, SlotRootSubJobsFinished, SlotDirDeletionJobsFinished
    <3>3. CASE CancelReply \/ AbortFinished
      BY <1>0, <3>3 DEF CancelReply, AbortFinished, TreeInv, ControlOK
    <3>4. CASE DeleteJob \/ Finalize \/ AbortEvent \/ AbortTimeout \/ DeliverFinished
      BY <3>4 DEF DeleteJob, Finalize, AbortEvent, AbortTimeout, DeliverFinished,
                  AtEventLoop, AbortJobs
    <3>5. CASE \E n \in Leaves : Answer(n)
      BY <3>5 DEF Answer, StartUpload, FileLocked, Reply, DownloadReceived, Validated,
                  AtEventLoop
    <3>. QED
      BY <1>5, <3>1, <3>2, <3>3, <3>4, <3>5
  <2>. QED
    BY <2>1 DEF PassOK
<1>. QED
  BY <1>1, <1>2, <1>3, <1>4, <1>5 DEF Next, Handler

\* The way down from a directory above n to n has a next step.
LEMMA ChildTowards ==
    ASSUME NEW n \in DOMAIN Parent, NEW c \in Above[n]
    PROVE  \E b \in {n} \cup Above[n] : b \in DOMAIN Parent /\ Parent[b] = c
<1>. DEFINE S == {d \in Above[n] :
                    \E b \in {n} \cup Above[n] : b \in DOMAIN Parent /\ Parent[b] = d}
<1>1. S \in SUBSET Dirs
  BY AboveUp
<1>2. \A b \in S \ {Root} : Parent[b] \in S \cup {Deletions}
  BY AboveUp
<1>3. Parent[n] \in S \cup {Deletions}
  BY AboveUp, Nodes DEF Composites
<1>4. Above[n] \subseteq S
  <2>. HIDE DEF S
  <2>. QED
    BY <1>1, <1>2, <1>3, AboveWithin
<1>. QED
  BY <1>4

\* "This job is guaranteed to finish before any jobs below it" (WaitForFinished):
\* while a directory is being moved, no composite above it takes a job.
THEOREM MovesHoldBack == Spec => MoveHoldsBackTheList
<1>. DEFINE Held == \A m \in Moves : leaf[m] \in Stages =>
                      \A c \in Above[m] : todo[c] \subseteq todo'[c]
<1>1. ASSUME Books, PassOK, Next PROVE Held
  <2>. SUFFICES ASSUME NEW m \in Moves, leaf[m] \in Stages, NEW c \in Above[m]
                PROVE  todo[c] \subseteq todo'[c]
    OBVIOUS
  <2>0. /\ FirstInv /\ BooksOK /\ TypeOK /\ TreeInv
        /\ m \in Leaves /\ m \in Acting /\ m \in DOMAIN Parent
        /\ c \in Dirs /\ c \in Composites /\ c # Deletions
        /\ todo \in [Composites -> SUBSET (Items \cup Dirs)]
        /\ running \in [Composites -> Seq(Items \cup Dirs)]
    <3>1. m \in Leaves /\ m \in Acting /\ m \in DOMAIN Parent
      BY JobAssumption, Nodes
    <3>2. c \in Dirs /\ c \in Composites /\ c # Deletions
      BY <3>1, AboveUp, TreeAssumption, Nodes
    <3>. QED
      BY <1>1, <3>1, <3>2 DEF Books, FirstInv, TypeOK, TreeInv
  <2>1. dir[m] = "Running" /\ comp[Parent[m]] = "Running"
    <3>1. dir[m] = "Running" /\ m \in Range(running[Parent[m]])
      BY <2>0, AtWork, Nodes
    <3>2. Parent[m] \in Composites /\ Parent[m] \in Opened /\ Parent[m] \notin Settled
      BY <2>0, <3>1, Listed, Nodes DEF FirstInv, OpenedFromAbove, Settled, Exhausted
    <3>. QED
      BY <2>0, <3>1, <3>2, Types DEF BooksOK, CompositesOK, Opened
  <2>2. ~OwnTurn(c)
    <3>. SUFFICES ASSUME OwnTurn(c) PROVE FALSE
      OBVIOUS
    <3>1. PICK b \in {m} \cup Above[m] : b \in DOMAIN Parent /\ Parent[b] = c
      BY <2>0, ChildTowards
    <3>2. b \in Dirs /\ dir[b] = "Running"
      BY <1>1, <2>0, <2>1, <3>1, Climb, AboveUp, Nodes
    <3>3. b \in Range(running[c])
      BY <2>0, <3>1, <3>2 DEF BooksOK, RunningOK, Busy
    <3>4. PICK j \in DOMAIN running[c] : running[c][j] = b
      BY <3>3 DEF Range
    <3>5. Waiting(b)
      <4>1. b \in Above[m] \cup {m}
        BY <3>1
      <4>. QED
        BY <2>1, <4>1, Words DEF Waiting
    <3>6. /\ Len(pass) \in DOMAIN pass /\ Top = pass[Len(pass)] /\ Top.of = c
          /\ Top.at = Len(running[c]) + 1
      BY <2>0, NonEmpty DEF OwnTurn, InPass, Top, Last, TypeOK
    <3>7. j \in 1..Len(running[c]) /\ Len(running[c]) \in Nat
      BY <2>0, <3>4, LenProperties
    <3>8. j < Top.at
      BY <3>6, <3>7
    <3>. QED
      BY <1>1, <3>4, <3>5, <3>6, <3>8 DEF PassOK
  <2>3. CASE SkipUselessTask \/ StartAsync \/ StartDirectory
    <3>1. PICK b, n : b \in Composites /\ OwnTurn(b) /\ todo' = [todo EXCEPT ![b] = @ \ {n}]
      BY <2>3 DEF SkipUselessTask, StartAsync, StartJob, StartDirectory, Take
    <3>. QED
      BY <2>0, <2>2, <3>1
  <2>4. CASE StartAndFinish
    <3>1. PICK b \in Composites, n \in Leaves, status \in Statuses :
            /\ OwnTurn(b)
            /\ Done(n, status, {"schedule"}, [todo EXCEPT ![b] = @ \ {n}])
      BY <2>4, OutcomeTypes DEF StartAndFinish, StartJob, Take
    <3>. DEFINE queued == [todo EXCEPT ![b] = @ \ {n}]
    <3>2. queued[c] = todo[c]
      BY <2>0, <2>2, <3>1
    <3>3. queued \in [Composites -> SUBSET (Items \cup Dirs)]
      BY <2>0
    <3>4. Done(n, status, {"schedule"}, queued)
      BY <3>1
    <3>. HIDE DEF queued
    <3>. QED
      BY <2>0, <3>2, <3>3, <3>4, DoneMoves
  <2>5. CASE CancelReply \/ \E n \in Leaves : Answer(n)
    <3>1. \/ UNCHANGED todo
          \/ \E n \in Leaves : \E status \in Statuses : Done(n, status, {}, todo)
      <4>1. CASE CancelReply
        <5>1. \A n \in cancel \ {Root} : n \in Leaves
          BY <2>0 DEF TypeOK
        <5>2. "Fatal" \in Statuses
          BY DEF Statuses, Errors
        <5>. QED
          BY <4>1, <5>1, <5>2 DEF CancelReply
      <4>2. CASE \E n \in Leaves : Answer(n)
        <5>1. "Soft" \in Statuses
          BY DEF Statuses, Errors
        <5>. QED
          BY <4>2, <5>1, OutcomeTypes DEF Answer, StartUpload, FileLocked, Reply,
                                          DownloadReceived, Validated
      <4>. QED
        BY <2>5, <4>1, <4>2
    <3>2. CASE \E n \in Leaves : \E status \in Statuses : Done(n, status, {}, todo)
      BY <2>0, <3>2, DoneMoves
    <3>. QED
      BY <3>1, <3>2
  <2>6. CASE SlotRootSubJobsFinished
    BY <2>0, <2>6 DEF SlotRootSubJobsFinished
  <2>7. CASE \/ ScheduleNextJobImpl \/ AskRunning \/ NothingLeft \/ DeleteJob
             \/ SlotSubJobFinished \/ Finalize \/ SlotFirstJobFinished
             \/ SlotSubJobsFinished \/ SlotDirDeletionJobsFinished \/ AbortEvent
             \/ AbortTimeout \/ AbortFinished \/ DeliverFinished
    <3>1. UNCHANGED todo
      BY <2>7 DEF ScheduleNextJobImpl, AskRunning, NothingLeft, DeleteJob,
                  SlotSubJobFinished, Finalize, SlotFirstJobFinished, SlotSubJobsFinished,
                  SlotDirDeletionJobsFinished, AbortEvent, AbortTimeout, AbortJobs,
                  AbortFinished, DeliverFinished, tree
    <3>. QED
      BY <3>1
  <2>. QED
    BY <1>1, <2>3, <2>4, <2>5, <2>6, <2>7 DEF Next, Handler
<1>2. Books /\ PassOK /\ [Next]_vars => [Held]_vars
  BY <1>1
<1>3. Init => PassOK
  BY DEF Init, PassOK
<1>4. Books /\ PassOK /\ [Next]_vars => PassOK'
  <2>1. Books /\ PassOK /\ UNCHANGED vars => PassOK'
    <3>. SUFFICES ASSUME PassOK, UNCHANGED vars PROVE PassOK'
      OBVIOUS
    <3>1. UNCHANGED <<signal, pass, running, dir, leaf>>
      BY DEF vars, tree
    <3>2. \A x : Waiting(x)' = Waiting(x)
      BY <3>1 DEF Waiting
    <3>. QED
      BY <3>1, <3>2 DEF PassOK
  <2>. QED
    BY <2>1, PassNext
<1>. QED
  BY <1>2, <1>3, <1>4, FirstInit, BooksInit, BooksNext, PTL
     DEF Spec, Books, MoveHoldsBackTheList

-----------------------------------------------------------------------------
\* The limits of the scheduler.

Quicks == Range(active) \cap Quick

\* The nodes whose job is posted for deletion.
Drops(queue) ==
    {n \in DOMAIN Parent : \E i \in DOMAIN queue :
        queue[i].kind = "delete" /\ queue[i].of = n}

\* Each started job is listed once, an upload from its checksum on; only a job
\* that has ended is deleted; a pass runs only while another job may start.
ActiveOK ==
    /\ IsInjective(active)
    /\ \A n \in Range(active) : leaf[n] # NotYetStarted
    /\ \A n \in Leaves : leaf[n] = "checksum" => n \in Range(active)
    /\ \A n \in Drops(events) \cap Leaves : leaf[n] \in Statuses
    /\ pass # <<>> => MayStartJob
    /\ ActiveJobsLimited

\* Both limits are numbers.
LEMMA Limits == maximumActiveTransferJob \in Nat /\ hardMaximumActiveJob \in Nat
<1>1. ((ParallelNetworkJobs + 1) \div 2) \in Int
  BY JobAssumption
<1>. QED
  BY <1>1, JobAssumption DEF maximumActiveTransferJob, hardMaximumActiveJob

\* A list without repetition is as long as it has members.
LEMMA InjectiveLength ==
    ASSUME NEW S, NEW s \in Seq(S), IsInjective(s)
    PROVE  /\ IsFiniteSet(Range(s)) /\ Cardinality(Range(s)) = Len(s)
<1>. DEFINE l == Len(s)
<1>1. l \in Nat /\ DOMAIN s = 1..l
  BY LenProperties
<1>. HIDE DEF l
<1>2. IsFiniteSet(1..l) /\ Cardinality(1..l) = l
  <2>1. /\ IsFiniteSet(1..l) /\ Cardinality(1..l) = IF 1 > l THEN 0 ELSE l - 1 + 1
    BY <1>1, FS_Interval
  <2>. QED
    BY <1>1, <2>1
<1>3. s \in [1..l -> Range(s)]
  <2>1. s = [i \in 1..l |-> s[i]]
    BY <1>1
  <2>. QED
    BY <1>1, <2>1 DEF Range
<1>4. s \in Bijection(1..l, Range(s))
  <2>1. \A i, j \in 1..l : s[i] = s[j] => i = j
    BY <1>1 DEF IsInjective
  <2>2. \A x \in Range(s) : \E i \in 1..l : s[i] = x
    BY <1>1 DEF Range
  <2>. QED
    BY <1>3, <2>1, <2>2 DEF Bijection, Injection, Surjection
<1>5. ExistsBijection(1..l, Range(s))
  BY <1>4 DEF ExistsBijection
<1>. QED
  BY <1>2, <1>5, FS_Bijection DEF l

\* The jobs that are likely to finish quickly are among the quick ones.
LEMMA LikelyAreQuick ==
    ASSUME TypeOK, IsInjective(active)
    PROVE  /\ IsFiniteSet(Quicks) /\ Cardinality(Quicks) \in Nat
           /\ likelyFinishedQuicklyCount \in Nat
           /\ likelyFinishedQuicklyCount <= Cardinality(Quicks)
<1>. DEFINE I == {i \in DOMAIN active :
                    i <= maximumActiveTransferJob /\ active[i] \in Quick}
            f == [i \in I |-> active[i]]
<1>1. active \in Seq(Leaves)
  BY DEF TypeOK
<1>2. IsFiniteSet(Quicks)
  BY <1>1, InjectiveLength, FS_Intersection DEF Quicks
<1>3. f \in [I -> Quicks]
  BY DEF Quicks, Range
<1>4. \A i, j \in I : f[i] = f[j] => i = j
  BY DEF IsInjective
<1>. HIDE DEF I, f
<1>5. f \in Injection(I, Quicks)
  BY <1>3, <1>4 DEF Injection, IsInjective
<1>6. IsFiniteSet(I) /\ Cardinality(I) <= Cardinality(Quicks)
  BY <1>2, <1>5, FS_Injection
<1>7. Cardinality(I) \in Nat /\ Cardinality(Quicks) \in Nat
  BY <1>2, <1>6, FS_CardinalityType
<1>. QED
  BY <1>2, <1>6, <1>7 DEF I, likelyFinishedQuicklyCount

\* A job joins the list in a pass: one more may start.
LEMMA OneMore ==
    ASSUME TypeOK, IsInjective(active), MayStartJob,
           NEW n \in Leaves, n \notin Range(active), active' = Append(active, n)
    PROVE  /\ IsInjective(active)' /\ Range(active') = Range(active) \cup {n}
           /\ ActiveJobsLimited'
<1>. DEFINE T == maximumActiveTransferJob
            H == hardMaximumActiveJob
            q == Cardinality(Quicks)
            r == Cardinality(Quicks')
            k == likelyFinishedQuicklyCount
<1>1. active \in Seq(Leaves) /\ active' \in Seq(Leaves)
  BY AppendType DEF TypeOK
<1>2. Range(active') = Range(active) \cup {n} /\ IsInjective(active')
  BY <1>1, AppendRange
<1>3. Len(active') = Len(active) + 1 /\ Len(active) \in Nat
  BY <1>1, AppendProperties, LenProperties
<1>4. T \in Nat /\ H \in Nat
  BY Limits
<1>5. /\ IsFiniteSet(Quicks) /\ q \in Nat /\ k \in Nat /\ k <= q
  BY LikelyAreQuick
<1>6. IsFiniteSet(Quicks') /\ r \in Nat
  <2>1. IsFiniteSet(Range(active'))
    BY <1>1, <1>2, InjectiveLength
  <2>2. IsFiniteSet(Range(active') \cap Quick)
    BY <2>1, FS_Intersection
  <2>3. Quicks' = Range(active') \cap Quick
    BY DEF Quicks
  <2>. QED
    BY <2>2, <2>3, FS_CardinalityType
<1>7. q <= r
  <2>1. Quicks \in SUBSET (Quicks')
    BY <1>2 DEF Quicks
  <2>. QED
    BY <1>6, <2>1, FS_Subset
<1>8. \/ Len(active) < T
      \/ Len(active) < H /\ Len(active) < T + k
  BY DEF MayStartJob
<1>. HIDE DEF T, H, q, r, k
<1>9. /\ Len(active') <= T + r
      /\ Len(active') <= T \/ Len(active') <= H
  BY <1>3, <1>4, <1>5, <1>6, <1>7, <1>8
<1>10. ActiveJobsLimited'
  BY <1>9 DEF ActiveJobsLimited, T, H, r, Quicks, maximumActiveTransferJob,
              hardMaximumActiveJob
<1>. QED
  BY <1>2, <1>10

\* A job leaves the list, if it is on it.
LEMMA OneLess ==
    ASSUME TypeOK, IsInjective(active), ActiveJobsLimited, NEW n, Delist(n)
    PROVE  /\ IsInjective(active)' /\ Range(active') = Range(active) \ {n}
           /\ ActiveJobsLimited'
<1>. DEFINE T == maximumActiveTransferJob
            H == hardMaximumActiveJob
            q == Cardinality(Quicks)
            r == Cardinality(Quicks')
<1>1. active \in Seq(Leaves) /\ active' \in Seq(Leaves)
  BY DelistType DEF TypeOK
<1>2. Range(active') = Range(active) \ {n} /\ IsInjective(active')
  BY <1>1, WithoutRange DEF Delist
<1>3. CASE n \notin Range(active)
  <2>1. active' = active
    <3>1. ~Contains(active, n)
      BY <1>1, <1>3, LenProperties DEF Contains, Range
    <3>. QED
      BY <3>1 DEF Delist, Without
  <2>. QED
    BY <1>2, <2>1 DEF ActiveJobsLimited
<1>4. CASE n \in Range(active)
  <2>1. /\ IsFiniteSet(Range(active)) /\ Cardinality(Range(active)) = Len(active)
        /\ Cardinality(Range(active')) = Len(active')
    BY <1>1, <1>2, InjectiveLength
  <2>2. Len(active') = Len(active) - 1
    BY <1>2, <1>4, <2>1, FS_RemoveElement
  <2>3. Len(active) \in Nat
    BY <1>1, LenProperties
  <2>4. T \in Nat /\ H \in Nat
    BY Limits
  <2>5. IsFiniteSet(Quicks) /\ q \in Nat
    BY LikelyAreQuick
  <2>6. r \in Nat /\ q <= r + 1
    <3>1. Quicks' = Quicks \ {n}
      BY <1>2 DEF Quicks
    <3>2. r = IF n \in Quicks THEN q - 1 ELSE q
      BY <2>5, <3>1, FS_RemoveElement
    <3>3. r \in Nat
      BY <2>5, <3>1, FS_RemoveElement, FS_CardinalityType
    <3>. HIDE DEF q, r
    <3>. QED
      BY <2>5, <3>2, <3>3
  <2>7. /\ Len(active) <= T + q
        /\ Len(active) <= T \/ Len(active) <= H
    BY DEF ActiveJobsLimited, Quicks
  <2>. HIDE DEF T, H, q, r
  <2>8. /\ Len(active') <= T + r
        /\ Len(active') <= T \/ Len(active') <= H
    BY <2>2, <2>3, <2>4, <2>5, <2>6, <2>7
  <2>9. ActiveJobsLimited'
    BY <2>8 DEF ActiveJobsLimited, T, H, r, Quicks, maximumActiveTransferJob,
                hardMaximumActiveJob
  <2>. QED
    BY <1>2, <2>9
<1>. QED
  BY <1>3, <1>4

\* A job on the list moves to its end.
LEMMA OneMoved ==
    ASSUME TypeOK, IsInjective(active), ActiveJobsLimited,
           NEW n \in Range(active), active' = Append(Without(active, n), n)
    PROVE  IsInjective(active)' /\ Range(active') = Range(active) /\ ActiveJobsLimited'
<1>. DEFINE rest == Without(active, n)
<1>1. active \in Seq(Leaves) /\ rest \in Seq(Leaves) /\ n \in Leaves
  <2>1. active \in Seq(Leaves)
    BY DEF TypeOK
  <2>2. n \in Leaves
    BY <2>1, LenProperties, ElementOfSeq DEF Range
  <2>. QED
    BY <2>1, <2>2, WithoutType
<1>2. Range(rest) = Range(active) \ {n} /\ IsInjective(rest)
  BY <1>1, WithoutRange
<1>. HIDE DEF rest
<1>3. Range(Append(rest, n)) = Range(rest) \cup {n} /\ IsInjective(Append(rest, n))
  BY <1>1, <1>2, AppendRange
<1>4. active' = Append(rest, n) /\ active' \in Seq(Leaves)
  BY <1>1, AppendType DEF rest
<1>5. Range(active') = Range(active) /\ IsInjective(active')
  BY <1>2, <1>3, <1>4
<1>6. Len(active') = Len(active)
  BY <1>1, <1>4, <1>5, InjectiveLength
<1>. QED
  BY <1>5, <1>6 DEF ActiveJobsLimited, maximumActiveTransferJob, hardMaximumActiveJob

\* What may be done to the queue without another deletion in it.
LEMMA DropsKept ==
    ASSUME NEW queue \in Seq(Events)
    PROVE  /\ \A e \in Events : Drops(Append(queue, e)) \subseteq
                Drops(queue) \cup {n \in DOMAIN Parent : e.kind = "delete" /\ e.of = n}
           /\ queue # <<>> => /\ Drops(Tail(queue)) \subseteq Drops(queue)
                              /\ Head(queue).kind = "delete" =>
                                    Head(queue).of \in Drops(queue)
           /\ Drops(scheduleNextJob(queue)) \subseteq Drops(queue)
           /\ \A after \in SUBSET {"abort", "schedule"} :
                 Drops(Unwind(queue, after)) \subseteq Drops(queue)
<1>1. \A q \in Seq(Events) : \A e \in Events : Drops(Append(q, e)) \subseteq
        Drops(q) \cup {n \in DOMAIN Parent : e.kind = "delete" /\ e.of = n}
  <2>. SUFFICES ASSUME NEW q \in Seq(Events), NEW e \in Events, NEW n \in DOMAIN Parent,
                       NEW i \in DOMAIN Append(q, e),
                       Append(q, e)[i].kind = "delete", Append(q, e)[i].of = n
                PROVE  n \in Drops(q) \/ (e.kind = "delete" /\ e.of = n)
    BY DEF Drops
  <2>. DEFINE l == Len(q)
  <2>1. /\ l \in Nat /\ DOMAIN q = 1..l /\ DOMAIN Append(q, e) = 1..(l + 1)
        /\ Append(q, e)[l + 1] = e /\ \A j \in 1..l : Append(q, e)[j] = q[j]
    BY AppendProperties, LenProperties
  <2>. HIDE DEF l
  <2>2. i \in 1..l \/ i = l + 1
    BY <2>1
  <2>. QED
    BY <2>1, <2>2 DEF Drops
<1>2. queue # <<>> => /\ Drops(Tail(queue)) \subseteq Drops(queue)
                      /\ Head(queue).kind = "delete" => Head(queue).of \in Drops(queue)
  <2>. SUFFICES ASSUME queue # <<>>
                PROVE  /\ Drops(Tail(queue)) \subseteq Drops(queue)
                       /\ Head(queue).kind = "delete" => Head(queue).of \in Drops(queue)
    OBVIOUS
  <2>1. Drops(Tail(queue)) \subseteq Drops(queue)
    BY HeadTailProperties DEF Drops
  <2>2. 1 \in DOMAIN queue /\ Head(queue) = queue[1] /\ queue[1] \in Events
    BY NonEmpty, HeadTailProperties
  <2>3. \A e \in Events : e.kind = "delete" => e.of \in DOMAIN Parent
    BY DEF Events
  <2>. QED
    BY <2>1, <2>2, <2>3 DEF Drops
<1>3. \A q \in Seq(Events) :
        /\ Drops(scheduleNextJob(q)) \subseteq Drops(q)
        /\ Drops(PostAbort(q)) \subseteq Drops(q)
  <2>1. /\ Event("schedule", Root).kind = "schedule"
        /\ Event("abort", Root).kind = "abort"
    BY DEF Event
  <2>. QED
    BY <1>1, <2>1, EventTypes DEF scheduleNextJob, PostAbort
<1>4. PostAbort(queue) \in Seq(Events)
  BY QueueTypes
<1>5. \A after \in SUBSET {"abort", "schedule"} : Drops(Unwind(queue, after)) \subseteq Drops(queue)
  BY <1>3, <1>4 DEF Unwind
<1>. QED
  BY <1>1, <1>2, <1>3, <1>5

\* Only the report of a job on the list of active jobs posts a deletion.
LEMMA DropsNext ==
    ASSUME TypeOK, Next
    PROVE  \A n \in Drops(events') :
              \/ n \in Drops(events)
              \/ SlotSubJobFinished /\ n = signal.from /\ n \in Range(active)
<1>0. /\ events \in Seq(Events) /\ active \in Seq(Leaves)
      /\ Drops(scheduleNextJob(events)) \subseteq Drops(events)
  BY DropsKept DEF TypeOK
<1>1. CASE ScheduleNextJobImpl \/ DeleteJob \/ Finalize \/ AbortEvent
  <2>1. events # <<>> /\ events' = Tail(events)
    BY <1>1 DEF ScheduleNextJobImpl, DeleteJob, Finalize, AbortEvent
  <2>. QED
    BY <1>0, <2>1, DropsKept
<1>2. CASE \/ AskRunning \/ SkipUselessTask \/ StartAndFinish \/ StartDirectory
           \/ SlotSubJobsFinished \/ AbortTimeout \/ CancelReply
           \/ \E n \in Leaves : Answer(n)
  <2>1. UNCHANGED events
    BY <1>2 DEF AskRunning, SkipUselessTask, StartAndFinish, StartDirectory,
                SlotSubJobsFinished, AbortTimeout, CancelReply, Answer, StartUpload,
                FileLocked, Reply, DownloadReceived, Validated
  <2>. QED
    BY <2>1
<1>3. CASE StartAsync
  <2>1. events' = scheduleNextJob(events)
    BY <1>3 DEF StartAsync
  <2>. QED
    BY <1>0, <2>1
<1>4. CASE NothingLeft
  <2>1. events' = events \/ events' = Append(events, Event("finalize", Top.of))
    BY <1>4 DEF NothingLeft
  <2>2. Event("finalize", Top.of) \in Events /\ Event("finalize", Top.of).kind = "finalize"
    <3>1. InPass
      BY <1>4 DEF NothingLeft
    <3>2. Last(pass) \in Frames
      BY <3>1, NonEmpty DEF TypeOK, InPass
    <3>3. Top.of \in Composites
      BY <3>2 DEF Top, Frames
    <3>. QED
      BY <3>3, EventTypes DEF Event
  <2>. DEFINE e == Event("finalize", Top.of)
  <2>. HIDE DEF e
  <2>3. e \in Events => Drops(Append(events, e)) \subseteq
          Drops(events) \cup {n \in DOMAIN Parent : e.kind = "delete" /\ e.of = n}
    BY <1>0, DropsKept
  <2>4. Drops(events') \subseteq Drops(events)
    BY <2>1, <2>2, <2>3 DEF e
  <2>. QED
    BY <2>4
<1>5. ASSUME NEW as, Receive(as)
      PROVE  /\ signal.after \in SUBSET {"abort", "schedule"}
             /\ \A q \in Seq(Events) : Drops(Unwind(q, signal.after)) \subseteq Drops(q)
  BY <1>5, Received, DropsKept
<1>6. scheduleNextJob(events) \in Seq(Events)
  BY <1>0, QueueTypes
<1>7. CASE SlotFirstJobFinished \/ SlotRootSubJobsFinished
  <2>1. PICK as : Receive(as)
    BY <1>7 DEF SlotFirstJobFinished, SlotRootSubJobsFinished
  <2>2. events' = events \/ events' = Unwind(scheduleNextJob(events), signal.after)
    BY <1>7 DEF SlotFirstJobFinished, SlotRootSubJobsFinished, Quiet
  <2>. QED
    BY <1>0, <1>5, <1>6, <2>1, <2>2
<1>8. CASE SlotSubJobFinished
  <2>. DEFINE n == signal.from
              queue == IF Contains(active, n)
                       THEN Append(events, Event("delete", n)) ELSE events
  <2>1. Receive("sub") /\ n \in DOMAIN Parent
    BY <1>8, Received DEF SlotSubJobFinished
  <2>2. Event("delete", n) \in Events /\ Event("delete", n).kind = "delete"
        /\ Event("delete", n).of = n
    BY <2>1, EventTypes DEF Event
  <2>3. queue \in Seq(Events)
    BY <1>0, <2>2, AppendType
  <2>4. Contains(active, n) => n \in Range(active)
    BY <1>0, LenProperties DEF Contains, Range
  <2>5. \A x \in Drops(queue) : x \in Drops(events) \/ (x = n /\ n \in Range(active))
    BY <1>0, <2>2, <2>4, DropsKept
  <2>6. events' = queue \/ events' = Unwind(scheduleNextJob(queue), signal.after)
    BY <1>8 DEF SlotSubJobFinished, Quiet
  <2>. HIDE DEF queue
  <2>7. /\ scheduleNextJob(queue) \in Seq(Events)
        /\ Drops(scheduleNextJob(queue)) \subseteq Drops(queue)
    BY <2>3, QueueTypes, DropsKept
  <2>8. Drops(events') \subseteq Drops(queue)
    BY <1>5, <2>1, <2>6, <2>7
  <2>. QED
    BY <1>8, <2>5, <2>8
<1>9. CASE SlotDirDeletionJobsFinished \/ AbortFinished
  <2>1. PICK queue, status :
          queue \in Seq(Events) /\ EmitFinished(status, queue) /\ Drops(queue) \subseteq Drops(events)
    <3>1. CASE SlotDirDeletionJobsFinished
      <4>1. Receive("comp")
        BY <3>1 DEF SlotDirDeletionJobsFinished
      <4>2. Unwind(events, signal.after) \in Seq(Events)
        BY <1>0, <1>5, <4>1, QueueTypes
      <4>. QED
        BY <1>0, <1>5, <3>1, <4>1, <4>2 DEF SlotDirDeletionJobsFinished
    <3>2. CASE AbortFinished
      BY <1>0, <3>2 DEF AbortFinished
    <3>. QED
      BY <1>9, <3>1, <3>2
  <2>2. events' = events \/ events' = queue \/ events' = Append(queue, Event("finished", Root))
    BY <2>1 DEF EmitFinished
  <2>3. Event("finished", Root) \in Events /\ Event("finished", Root).kind = "finished"
    BY EventTypes DEF Event
  <2>. QED
    BY <2>1, <2>2, <2>3, DropsKept
<1>10. CASE DeliverFinished
  BY <1>10 DEF DeliverFinished, Drops
<1>. QED
  BY <1>1, <1>2, <1>3, <1>4, <1>7, <1>8, <1>9, <1>10 DEF Next, Handler

\* Every step keeps the list of active jobs within its limits.
LEMMA ActiveNext ==
    ASSUME Books, ActiveOK, Next
    PROVE  ActiveOK'
<1>0. /\ TypeOK /\ FirstInv /\ BooksOK /\ TreeInv
      /\ IsInjective(active) /\ ActiveJobsLimited
      /\ active \in Seq(Leaves) /\ leaf \in [Leaves -> {NotYetStarted} \cup Stages \cup Statuses]
  BY DEF Books, FirstInv, TreeInv, TypeOK, ActiveOK
<1>1. \A v \in Stages \cup Statuses : v # NotYetStarted
  BY DEF Stages, Statuses, Errors, NotYetStarted
<1>2. \A v \in Statuses : v # "checksum"
  BY DEF Statuses, Errors
<1>s. /\ \A v \in Stages : v \notin Statuses
      /\ NotYetStarted \notin Statuses /\ "checksum" \notin Statuses
  BY DEF Stages, Statuses, Errors, NotYetStarted
<1>d. \A n \in Drops(events') \cap Leaves : leaf[n] \in Statuses
  <2>1. ASSUME SlotSubJobFinished, signal.from \in Leaves, signal.from \in Range(active)
        PROVE  leaf[signal.from] \in Statuses
    <3>. DEFINE n == signal.from
    <3>1. Receive("sub") /\ signal.as = "sub"
      BY <2>1 DEF SlotSubJobFinished, Receive
    <3>2. signal.status = State(n) /\ signal.status \in Statuses
      BY <1>0, <3>1, Received DEF BooksOK, ReportsOK
    <3>3. CASE n \notin Dirs
      BY <3>2, <3>3 DEF State
    <3>4. CASE n \in Dirs
      <4>1. dir[n] # "Running" /\ n \in Acting
        BY <2>1, <3>2, <3>4, Nodes, Words DEF State
      <4>2. leaf[n] \notin Stages
        BY <1>0, <4>1 DEF BooksOK, DirectoriesOK
      <4>. QED
        BY <1>0, <2>1, <4>2 DEF ActiveOK
    <3>. QED
      BY <3>3, <3>4
  <2>. QED
    BY <1>0, <2>1, DropsNext DEF ActiveOK
<1>3. ASSUME UNCHANGED <<leaf, active>>, pass' # <<>> => MayStartJob
      PROVE  ActiveOK'
  <2>1. ActiveJobsLimited' /\ (pass' # <<>> => MayStartJob')
    BY <1>3 DEF ActiveOK, ActiveJobsLimited, MayStartJob, likelyFinishedQuicklyCount,
                maximumActiveTransferJob, hardMaximumActiveJob
  <2>. QED
    BY <1>3, <1>d, <2>1 DEF ActiveOK
<1>4. ASSUME pass' = <<>>, NEW n \in Leaves, NEW v \in Stages \cup Statuses,
             \A m \in Leaves : leaf'[m] = IF m = n THEN v ELSE leaf[m],
             v = "checksum" => n \in Range(active'),
             v \in Statuses \/ leaf[n] \notin Statuses,
             Range(active) \ {n} \subseteq Range(active'),
             Range(active') \subseteq Range(active) \cup {n},
             IsInjective(active)', ActiveJobsLimited'
      PROVE  ActiveOK'
  <2>1. \A m \in Range(active) : m \in Leaves
    BY <1>0, LenProperties, ElementOfSeq DEF Range
  <2>2. \A m \in Range(active') : leaf'[m] # NotYetStarted
    BY <1>1, <1>4, <2>1 DEF ActiveOK
  <2>3. \A m \in Leaves : leaf'[m] = "checksum" => m \in Range(active')
    BY <1>4 DEF ActiveOK
  <2>4. \A m \in Drops(events') \cap Leaves : leaf'[m] \in Statuses
    BY <1>4, <1>d
  <2>. QED
    BY <1>4, <2>2, <2>3, <2>4 DEF ActiveOK
<1>5. CASE ScheduleNextJobImpl
  <2>1. UNCHANGED <<leaf, active>> /\ (pass' # <<>> => MayStartJob)
    BY <1>5 DEF ScheduleNextJobImpl, AtEventLoop
  <2>. QED
    BY <1>3, <2>1
<1>6. CASE AskRunning \/ SkipUselessTask \/ StartDirectory \/ NothingLeft
  <2>1. UNCHANGED <<leaf, active>> /\ pass # <<>>
    BY <1>6 DEF AskRunning, SkipUselessTask, StartDirectory, NothingLeft, Take,
                OwnTurn, InPass, tree
  <2>. QED
    BY <1>3, <2>1 DEF ActiveOK
<1>7. CASE \/ SlotSubJobFinished \/ Finalize \/ SlotFirstJobFinished
           \/ SlotSubJobsFinished \/ SlotRootSubJobsFinished
           \/ SlotDirDeletionJobsFinished \/ AbortEvent \/ AbortTimeout
           \/ AbortFinished \/ DeliverFinished
  <2>1. UNCHANGED <<leaf, active, pass>>
    BY <1>7 DEF SlotSubJobFinished, Finalize, SlotFirstJobFinished,
                SlotSubJobsFinished, SlotRootSubJobsFinished,
                SlotDirDeletionJobsFinished, AbortEvent, AbortTimeout, AbortJobs,
                AbortFinished, DeliverFinished, tree
  <2>. QED
    BY <1>3, <2>1 DEF ActiveOK
<1>8. CASE DeleteJob
  <2>. DEFINE n == Head(events).of
  <2>1. /\ events # <<>> /\ Head(events).kind = "delete" /\ Delist(n)
        /\ UNCHANGED leaf /\ pass' = <<>>
    BY <1>8 DEF DeleteJob, AtEventLoop, tree
  <2>2. n \in Leaves => leaf[n] # "checksum"
    <3>1. n \in Drops(events)
      BY <1>0, <2>1, DropsKept DEF TypeOK
    <3>. QED
      BY <1>s, <3>1 DEF ActiveOK
  <2>3. IsInjective(active)' /\ Range(active') = Range(active) \ {n} /\ ActiveJobsLimited'
    BY <1>0, <2>1, OneLess
  <2>. HIDE DEF n
  <2>. QED
    BY <1>d, <2>1, <2>2, <2>3 DEF ActiveOK
<1>9. CASE StartAsync
  <2>1. PICK c \in Composites, n \in Leaves :
          /\ StartJob(c, n) /\ n \in todo[c]
          /\ leaf' = [leaf EXCEPT ![n] =
                        IF n \in Uploads THEN "checksum" ELSE "transfer"]
          /\ active' = Append(active, n)
    BY <1>9 DEF StartAsync, NextJobs
  <2>2. pass # <<>> /\ signal = NoSignal /\ pass' = <<>>
    BY <2>1 DEF StartJob, Take, OwnTurn, InPass
  <2>3. leaf[n] = NotYetStarted /\ n \notin Range(active)
    BY <1>0, <2>1, <2>2, Untouched DEF ActiveOK
  <2>4. IsInjective(active)' /\ Range(active') = Range(active) \cup {n} /\ ActiveJobsLimited'
    BY <1>0, <2>1, <2>2, <2>3, OneMore DEF ActiveOK
  <2>5. PICK v \in Stages : v = IF n \in Uploads THEN "checksum" ELSE "transfer"
    BY DEF Stages
  <2>6. \A m \in Leaves : leaf'[m] = IF m = n THEN v ELSE leaf[m]
    BY <1>0, <2>1, <2>5
  <2>. QED
    BY <1>4, <1>s, <2>2, <2>3, <2>4, <2>6
<1>10. CASE StartAndFinish
  <2>1. PICK c \in Composites, n \in Leaves, status \in Statuses :
          /\ StartJob(c, n) /\ n \in todo[c]
          /\ Done(n, status, {"schedule"}, [todo EXCEPT ![c] = @ \ {n}])
          /\ UNCHANGED active \/ active' = Append(active, n)
    BY <1>10, OutcomeTypes DEF StartAndFinish, NextJobs
  <2>2. pass # <<>> /\ signal = NoSignal /\ pass' = <<>>
    BY <2>1 DEF StartJob, Take, OwnTurn, InPass
  <2>3. leaf[n] = NotYetStarted /\ n \notin Range(active)
    BY <1>0, <2>1, <2>2, Untouched DEF ActiveOK
  <2>4. \A m \in Leaves : leaf'[m] = IF m = n THEN status ELSE leaf[m]
    <3>. DEFINE queued == [todo EXCEPT ![c] = @ \ {n}]
    <3>1. queued \in [Composites -> SUBSET (Items \cup Dirs)]
      BY <1>0 DEF TypeOK
    <3>2. Done(n, status, {"schedule"}, queued)
      BY <2>1
    <3>. HIDE DEF queued
    <3>. QED
      BY <1>0, <3>1, <3>2, DoneMoves
  <2>5. /\ IsInjective(active)' /\ ActiveJobsLimited'
        /\ Range(active) \subseteq Range(active')
        /\ Range(active') \subseteq Range(active) \cup {n}
    <3>1. CASE UNCHANGED active
      BY <1>0, <3>1 DEF ActiveJobsLimited, maximumActiveTransferJob, hardMaximumActiveJob
    <3>2. CASE active' = Append(active, n)
      BY <1>0, <2>2, <2>3, <3>2, OneMore DEF ActiveOK
    <3>. QED
      BY <2>1, <3>1, <3>2
  <2>. QED
    BY <1>2, <1>4, <2>2, <2>4, <2>5
<1>11. CASE CancelReply \/ \E n \in Leaves : Reply(n)
  <2>1. PICK n \in Leaves, status \in Statuses :
          Delist(n) /\ Done(n, status, {}, todo)
    <3>1. CASE CancelReply
      <4>1. \A n \in cancel \ {Root} : n \in Leaves
        BY <1>0 DEF TypeOK
      <4>2. "Fatal" \in Statuses
        BY DEF Statuses, Errors
      <4>. QED
        BY <3>1, <4>1, <4>2 DEF CancelReply
    <3>2. CASE \E n \in Leaves : Reply(n)
      BY <3>2, OutcomeTypes DEF Reply
    <3>. QED
      BY <1>11, <3>1, <3>2
  <2>2. pass' = <<>>
    BY <1>0, <1>11 DEF CancelReply, Reply, AtEventLoop, TreeInv, ControlOK
  <2>3. \A m \in Leaves : leaf'[m] = IF m = n THEN status ELSE leaf[m]
    <3>1. todo \in [Composites -> SUBSET (Items \cup Dirs)]
      BY <1>0 DEF TypeOK
    <3>. QED
      BY <1>0, <2>1, <3>1, DoneMoves
  <2>4. IsInjective(active)' /\ Range(active') = Range(active) \ {n} /\ ActiveJobsLimited'
    BY <1>0, <2>1, OneLess
  <2>. QED
    BY <1>2, <1>4, <2>2, <2>3, <2>4
<1>12. CASE \E n \in Leaves : FileLocked(n) \/ Validated(n)
  <2>1. PICK n \in Leaves, status \in Statuses :
          UNCHANGED active /\ Done(n, status, {}, todo)
    <3>1. "Soft" \in Statuses
      BY DEF Statuses, Errors
    <3>. QED
      BY <1>12, <3>1, OutcomeTypes DEF FileLocked, Validated
  <2>2. pass' = <<>>
    BY <1>12 DEF FileLocked, Validated, AtEventLoop
  <2>3. \A m \in Leaves : leaf'[m] = IF m = n THEN status ELSE leaf[m]
    <3>1. todo \in [Composites -> SUBSET (Items \cup Dirs)]
      BY <1>0 DEF TypeOK
    <3>. QED
      BY <1>0, <2>1, <3>1, DoneMoves
  <2>4. IsInjective(active)' /\ ActiveJobsLimited'
    BY <1>0, <2>1 DEF ActiveJobsLimited, maximumActiveTransferJob, hardMaximumActiveJob
  <2>. QED
    BY <1>2, <1>4, <2>1, <2>2, <2>3, <2>4
<1>13. CASE \E n \in Leaves : StartUpload(n)
  <2>1. PICK n \in Leaves : StartUpload(n)
    BY <1>13
  <2>2. /\ leaf[n] = "checksum" /\ active' = Append(Without(active, n), n)
        /\ leaf' = [leaf EXCEPT ![n] = "transfer"] /\ pass' = <<>>
    BY <2>1 DEF StartUpload, AtEventLoop
  <2>3. n \in Range(active) /\ "transfer" \in Stages
    BY <2>2 DEF ActiveOK, Stages
  <2>4. IsInjective(active)' /\ Range(active') = Range(active) /\ ActiveJobsLimited'
    BY <1>0, <2>2, <2>3, OneMoved
  <2>5. \A m \in Leaves : leaf'[m] = IF m = n THEN "transfer" ELSE leaf[m]
    BY <1>0, <2>2
  <2>6. leaf[n] \notin Statuses
    BY <1>s, <2>2
  <2>. QED
    BY <1>4, <2>2, <2>3, <2>4, <2>5, <2>6
<1>14. CASE \E n \in Leaves : DownloadReceived(n)
  <2>1. PICK n \in Leaves : DownloadReceived(n)
    BY <1>14
  <2>2. /\ Delist(n) /\ "validate" \in Stages
        /\ leaf' = [leaf EXCEPT ![n] = "validate"] /\ pass' = <<>>
    BY <2>1 DEF DownloadReceived, AtEventLoop, Stages
  <2>5. leaf[n] \notin Statuses
    <3>1. leaf[n] = "transfer" /\ "transfer" \in Stages
      BY <2>1 DEF DownloadReceived, Stages
    <3>. QED
      BY <1>s, <3>1
  <2>3. IsInjective(active)' /\ Range(active') = Range(active) \ {n} /\ ActiveJobsLimited'
    BY <1>0, <2>2, OneLess
  <2>4. \A m \in Leaves : leaf'[m] = IF m = n THEN "validate" ELSE leaf[m]
    BY <1>0, <2>2
  <2>. QED
    BY <1>4, <2>2, <2>3, <2>4, <2>5
<1>. QED
  BY <1>5, <1>6, <1>7, <1>8, <1>9, <1>10, <1>11, <1>12, <1>13, <1>14
     DEF Next, Handler, Answer

\* The list starts empty, and stays as it is when nothing happens.
LEMMA ActiveInit == Init => ActiveOK
<1>. SUFFICES ASSUME Init PROVE ActiveOK
  OBVIOUS
<1>1. /\ active = <<>> /\ pass = <<>> /\ leaf = [n \in Leaves |-> NotYetStarted]
  BY DEF Init
<1>2. Range(active) = {} /\ IsInjective(active) /\ Len(active) = 0
  BY <1>1 DEF Range, IsInjective
<1>3. Cardinality(Range(active) \cap Quick) = 0
  BY <1>2, FS_EmptySet
<1>4. maximumActiveTransferJob \in Nat
  BY Limits
<1>5. ActiveJobsLimited
  BY <1>2, <1>3, <1>4 DEF ActiveJobsLimited
<1>6. Drops(events) = {}
  BY DEF Init, Drops, Event
<1>. QED
  BY <1>1, <1>2, <1>5, <1>6 DEF ActiveOK, NotYetStarted

LEMMA ActiveStill == ActiveOK /\ UNCHANGED vars => ActiveOK'
BY DEF vars, tree, ActiveOK, ActiveJobsLimited, Drops, MayStartJob,
       likelyFinishedQuicklyCount, maximumActiveTransferJob, hardMaximumActiveJob

\* However many transfers are asked for, only quick jobs go beyond their number,
\* and none goes beyond the larger limit (mayStartJob).
THEOREM LimitsHold == Spec => []ActiveJobsLimited
<1>1. Books /\ ActiveOK /\ [Next]_vars => ActiveOK'
  BY ActiveStill, ActiveNext
<1>2. ActiveOK => ActiveJobsLimited
  BY DEF ActiveOK
<1>. QED
  BY <1>1, <1>2, ActiveInit, FirstInit, BooksInit, BooksNext, PTL DEF Spec, Books

-----------------------------------------------------------------------------
\* No wake-up is lost.

\* The end of the whole propagation is on its way.
Relieved == timer \/ Root \in cancel \/ result # "none"
Working == \E n \in Leaves : leaf[n] \in Stages
\* Somebody will be called: by the scheduler, or by the end of a composite.
Promises(e) == e.kind = "schedule" \/ (e.kind = "finalize" /\ comp[e.of] \notin Statuses)
WakeUp ==
    \/ Relieved
    \/ signal # NoSignal
    \/ Working
    \/ \E e \in Range(events) : Promises(e)
    \/ pass # <<>> /\ Top.at = 1

\* The reported end is posted, and the root directory has ended only with it.
EndsPosted ==
    /\ result \in Statuses => \E e \in Range(events) : e.kind = "finished"
    /\ dir[Root] \in Statuses => result # "none"
\* The end of a composite is being delivered, or is known above.
EndsPassedOn ==
    \A c \in Composites \ {Root} : comp[c] \in Statuses =>
        \/ signal.as = "comp" /\ signal.from = c
        \/ IF c = Deletions THEN dir[Root] \in Statuses ELSE dir[c] # "Running"
\* A pass asks composites that have not ended.
PassOpen == \A f \in Range(pass) : comp[f.of] = "Running"
\* A directory starts with its first job.
FirstStarted == \A d \in Acting : dir[d] = "Running" => leaf[d] # NotYetStarted
\* Without locked files the list of active jobs holds jobs at work.
ActiveAtWork == \A n \in Range(active) : leaf[n] \in {"checksum", "transfer"}

\* The rest of a queue, and its growth.
LEMMA TailRange ==
    ASSUME NEW S, NEW s \in Seq(S), s # <<>>
    PROVE  Range(s) = {Head(s)} \cup Range(Tail(s))
<1>1. /\ Len(s) \in Nat /\ Len(s) >= 1 /\ DOMAIN s = 1..Len(s)
      /\ DOMAIN Tail(s) = 1..(Len(s) - 1) /\ Head(s) = s[1]
      /\ \A i \in 1..(Len(s) - 1) : Tail(s)[i] = s[i + 1]
  BY NonEmpty, HeadTailProperties, LenProperties
<1>2. \A i \in DOMAIN s : i = 1 \/ (i - 1 \in DOMAIN Tail(s) /\ Tail(s)[i - 1] = s[i])
  BY <1>1
<1>3. \A i \in DOMAIN Tail(s) : i + 1 \in DOMAIN s /\ s[i + 1] = Tail(s)[i]
  BY <1>1
<1>4. 1 \in DOMAIN s
  BY <1>1
<1>5. ASSUME NEW i \in DOMAIN s
      PROVE  s[i] \in {Head(s)} \cup Range(Tail(s))
  <2>1. CASE i = 1
    BY <1>1, <2>1
  <2>2. CASE i # 1
    BY <1>2, <2>2 DEF Range
  <2>. QED
    BY <2>1, <2>2
<1>6. Range(Tail(s)) \subseteq Range(s)
  BY <1>3 DEF Range
<1>7. Head(s) \in Range(s)
  BY <1>1, <1>4 DEF Range
<1>8. Range(s) \subseteq {Head(s)} \cup Range(Tail(s))
  BY <1>5 DEF Range
<1>. QED
  BY <1>6, <1>7, <1>8

LEMMA QueueGrows ==
    ASSUME NEW queue \in Seq(Events), NEW after \in SUBSET {"abort", "schedule"}
    PROVE  /\ Range(queue) \subseteq Range(scheduleNextJob(queue))
           /\ \E e \in Range(scheduleNextJob(queue)) : e.kind = "schedule"
           /\ Range(queue) \subseteq Range(Unwind(queue, after))
           /\ \A e \in Events : Range(queue) \subseteq Range(Append(queue, e))
           /\ \A e \in Events : e \in Range(Append(queue, e))
<1>1. \A q \in Seq(Events) : \A e \in Events :
        Range(q) \subseteq Range(Append(q, e)) /\ e \in Range(Append(q, e))
  BY AppendRange
<1>2. \A q \in Seq(Events) :
        /\ Range(q) \subseteq Range(scheduleNextJob(q))
        /\ \E e \in Range(scheduleNextJob(q)) : e.kind = "schedule"
  <2>. SUFFICES ASSUME NEW q \in Seq(Events)
                PROVE  /\ Range(q) \subseteq Range(scheduleNextJob(q))
                       /\ \E e \in Range(scheduleNextJob(q)) : e.kind = "schedule"
    OBVIOUS
  <2>1. CASE \E i \in DOMAIN q : q[i].kind = "schedule"
    <3>1. scheduleNextJob(q) = q
      BY <2>1 DEF scheduleNextJob
    <3>. QED
      BY <2>1, <3>1 DEF Range
  <2>2. CASE ~ \E i \in DOMAIN q : q[i].kind = "schedule"
    <3>1. scheduleNextJob(q) = Append(q, Event("schedule", Root))
      BY <2>2 DEF scheduleNextJob
    <3>2. Event("schedule", Root) \in Events /\ Event("schedule", Root).kind = "schedule"
      BY EventTypes DEF Event
    <3>. QED
      BY <1>1, <3>1, <3>2
  <2>. QED
    BY <2>1, <2>2
<1>3. Range(queue) \subseteq Range(PostAbort(queue)) /\ PostAbort(queue) \in Seq(Events)
  BY <1>1, EventTypes, QueueTypes DEF PostAbort
<1>4. Range(queue) \subseteq Range(Unwind(queue, after))
  BY <1>2, <1>3 DEF Unwind
<1>. QED
  BY <1>1, <1>2, <1>4

\* Where each step of the event loop may run, and what it leaves alone.
LEMMA StepFrames ==
    /\ ScheduleNextJobImpl => AtEventLoop /\ UNCHANGED <<leaf, active, signal, cancel, timer, result>>
    /\ AskRunning => InPass /\ UNCHANGED <<leaf, dir, active, events, signal, cancel, timer, result>>
    /\ SkipUselessTask => InPass /\ UNCHANGED <<leaf, dir, comp, active, events, pass, signal, cancel, timer, result>>
    /\ StartAndFinish => InPass /\ UNCHANGED <<comp, events, cancel, timer, result>>
    /\ StartAsync => InPass /\ UNCHANGED <<comp, signal, cancel, timer, result>>
    /\ StartDirectory => InPass /\ UNCHANGED <<leaf, active, events, signal, cancel, timer, result>>
    /\ NothingLeft => InPass /\ UNCHANGED <<leaf, dir, comp, active, signal, cancel, timer, result>>
    /\ DeleteJob => AtEventLoop /\ UNCHANGED <<leaf, dir, comp, pass, signal, cancel, timer, result>>
    /\ SlotSubJobFinished => Receive("sub") /\ UNCHANGED <<leaf, dir, active, pass, cancel, result>>
    /\ Finalize => AtEventLoop /\ UNCHANGED <<leaf, dir, active, pass, cancel, timer, result>>
    /\ SlotFirstJobFinished => Receive("first") /\ UNCHANGED <<leaf, comp, active, pass, cancel, result>>
    /\ SlotSubJobsFinished => Receive("comp") /\ UNCHANGED <<leaf, comp, active, events, pass, cancel, result>>
    /\ SlotRootSubJobsFinished => Receive("comp") /\ UNCHANGED <<leaf, dir, comp, active, pass, cancel, result>>
    /\ SlotDirDeletionJobsFinished => Receive("comp") /\ UNCHANGED <<leaf, comp, active, pass, cancel>>
    /\ AbortEvent => AtEventLoop /\ UNCHANGED <<leaf, dir, comp, active, pass, signal, timer, result>>
    /\ AbortTimeout => AtEventLoop /\ UNCHANGED <<leaf, dir, comp, active, events, pass, signal, result>>
    /\ CancelReply => signal = NoSignal /\ UNCHANGED <<dir, comp, events, pass, timer, result>>
    /\ AbortFinished => signal = NoSignal /\ UNCHANGED <<leaf, dir, comp, active, pass, signal, timer>>
    /\ DeliverFinished => AtEventLoop /\ UNCHANGED <<leaf, dir, comp, active, pass, signal, cancel>>
    /\ (\E n \in Leaves : Answer(n)) =>
          AtEventLoop /\ UNCHANGED <<dir, comp, events, pass, cancel, timer, result>>
<1>1. ScheduleNextJobImpl => AtEventLoop /\ UNCHANGED <<leaf, active, signal, cancel, timer, result>>
  BY DEF ScheduleNextJobImpl
<1>2. AskRunning => InPass /\ UNCHANGED <<leaf, dir, active, events, signal, cancel, timer, result>>
  BY DEF AskRunning
<1>3. SkipUselessTask => InPass /\ UNCHANGED <<leaf, dir, comp, active, events, pass, signal, cancel, timer, result>>
  BY DEF SkipUselessTask, OwnTurn, InPass
<1>4. StartAndFinish => InPass /\ UNCHANGED <<comp, events, cancel, timer, result>>
  BY DEF StartAndFinish, StartJob, Take, OwnTurn, InPass, Done
<1>5. StartAsync => InPass /\ UNCHANGED <<comp, signal, cancel, timer, result>>
  BY DEF StartAsync, StartJob, Take, OwnTurn, InPass
<1>6. StartDirectory => InPass /\ UNCHANGED <<leaf, active, events, signal, cancel, timer, result>>
  BY DEF StartDirectory, Take, OwnTurn, InPass
<1>7. NothingLeft => InPass /\ UNCHANGED <<leaf, dir, comp, active, signal, cancel, timer, result>>
  BY DEF NothingLeft, InPass, tree
<1>8. DeleteJob => AtEventLoop /\ UNCHANGED <<leaf, dir, comp, pass, signal, cancel, timer, result>>
  BY DEF DeleteJob, tree
<1>9. SlotSubJobFinished => Receive("sub") /\ UNCHANGED <<leaf, dir, active, pass, cancel, result>>
  BY DEF SlotSubJobFinished
<1>10. Finalize => AtEventLoop /\ UNCHANGED <<leaf, dir, active, pass, cancel, timer, result>>
  BY DEF Finalize
<1>11. SlotFirstJobFinished => Receive("first") /\ UNCHANGED <<leaf, comp, active, pass, cancel, result>>
  BY DEF SlotFirstJobFinished
<1>12. SlotSubJobsFinished => Receive("comp") /\ UNCHANGED <<leaf, comp, active, events, pass, cancel, result>>
  BY DEF SlotSubJobsFinished
<1>13. SlotRootSubJobsFinished => Receive("comp") /\ UNCHANGED <<leaf, dir, comp, active, pass, cancel, result>>
  BY DEF SlotRootSubJobsFinished
<1>14. SlotDirDeletionJobsFinished => Receive("comp") /\ UNCHANGED <<leaf, comp, active, pass, cancel>>
  BY DEF SlotDirDeletionJobsFinished
<1>15. AbortEvent => AtEventLoop /\ UNCHANGED <<leaf, dir, comp, active, pass, signal, timer, result>>
  BY DEF AbortEvent, AbortJobs, tree
<1>16. AbortTimeout => AtEventLoop /\ UNCHANGED <<leaf, dir, comp, active, events, pass, signal, result>>
  BY DEF AbortTimeout, AbortJobs, tree
<1>17. CancelReply => signal = NoSignal /\ UNCHANGED <<dir, comp, events, pass, timer, result>>
  BY DEF CancelReply
<1>18. AbortFinished => signal = NoSignal /\ UNCHANGED <<leaf, dir, comp, active, pass, signal, timer>>
  BY DEF AbortFinished, tree
<1>19. DeliverFinished => AtEventLoop /\ UNCHANGED <<leaf, dir, comp, active, pass, signal, cancel>>
  BY DEF DeliverFinished, tree
<1>20. (\E n \in Leaves : Answer(n)) =>
          AtEventLoop /\ UNCHANGED <<dir, comp, events, pass, cancel, timer, result>>
  BY DEF Answer, StartUpload, FileLocked, Reply, DownloadReceived, Validated
<1>. QED
  BY <1>1, <1>2, <1>3, <1>4, <1>5, <1>6, <1>7, <1>8, <1>9, <1>10, <1>11, <1>12, <1>13, <1>14, <1>15, <1>16, <1>17, <1>18, <1>19, <1>20

\* Who writes what the wake-ups depend on.
LEMMA ResultWriters ==
    ASSUME Next
    PROVE  \/ UNCHANGED result
           \/ SlotDirDeletionJobsFinished \/ AbortFinished \/ DeliverFinished
BY StepFrames DEF Next, Handler

LEMMA CompWriters ==
    ASSUME Next
    PROVE  \/ UNCHANGED comp
           \/ ScheduleNextJobImpl \/ AskRunning \/ StartDirectory
           \/ SlotSubJobFinished \/ Finalize
BY StepFrames DEF Next, Handler

LEMMA DirWriters ==
    ASSUME Next
    PROVE  \/ UNCHANGED dir
           \/ ScheduleNextJobImpl \/ StartAndFinish \/ StartAsync \/ StartDirectory
           \/ SlotFirstJobFinished \/ SlotSubJobsFinished \/ SlotDirDeletionJobsFinished
BY StepFrames DEF Next, Handler

LEMMA LeafWriters ==
    ASSUME Next
    PROVE  \/ UNCHANGED leaf
           \/ StartAndFinish \/ StartAsync \/ CancelReply \/ \E n \in Leaves : Answer(n)
BY StepFrames DEF Next, Handler

LEMMA ActiveWriters ==
    ASSUME Next
    PROVE  \/ UNCHANGED active
           \/ StartAndFinish \/ StartAsync \/ CancelReply \/ DeleteJob
           \/ \E n \in Leaves : Answer(n)
BY StepFrames DEF Next, Handler

LEMMA PassWriters ==
    ASSUME Next
    PROVE  \/ UNCHANGED pass
           \/ ScheduleNextJobImpl \/ AskRunning \/ StartAndFinish \/ StartAsync
           \/ StartDirectory \/ NothingLeft
BY StepFrames DEF Next, Handler

LEMMA CancelWriters ==
    ASSUME Next
    PROVE  \/ UNCHANGED cancel
           \/ AbortEvent \/ AbortTimeout \/ CancelReply \/ AbortFinished
BY StepFrames DEF Next, Handler

LEMMA TimerWriters ==
    ASSUME Next
    PROVE  timer => timer' \/ AbortTimeout \/ DeliverFinished
BY StepFrames DEF Next, Handler, Quiet, SlotSubJobFinished, SlotFirstJobFinished,
   SlotRootSubJobsFinished, SlotDirDeletionJobsFinished, SlotSubJobsFinished

\* An emission is answered by its slot before anything else happens.
LEMMA SlotsFirst ==
    ASSUME Next, signal # NoSignal
    PROVE  \/ signal.as = "sub" /\ SlotSubJobFinished
           \/ signal.as = "first" /\ SlotFirstJobFinished
           \/ /\ signal.as = "comp"
              /\ \/ signal.from \notin {Root, Deletions} /\ SlotSubJobsFinished
                 \/ signal.from = Root /\ SlotRootSubJobsFinished
                 \/ signal.from = Deletions /\ SlotDirDeletionJobsFinished
<1>1. \/ SlotSubJobFinished \/ SlotFirstJobFinished \/ SlotSubJobsFinished
      \/ SlotRootSubJobsFinished \/ SlotDirDeletionJobsFinished
  BY StepFrames DEF Next, Handler, AtEventLoop, InPass
<1>2. /\ SlotSubJobFinished => signal.as = "sub"
      /\ SlotFirstJobFinished => signal.as = "first"
  BY DEF SlotSubJobFinished, SlotFirstJobFinished, Receive
<1>3. /\ SlotSubJobsFinished => signal.as = "comp" /\ signal.from \notin {Root, Deletions}
      /\ SlotRootSubJobsFinished => signal.as = "comp" /\ signal.from = Root
      /\ SlotDirDeletionJobsFinished => signal.as = "comp" /\ signal.from = Deletions
  BY DEF SlotSubJobsFinished, SlotRootSubJobsFinished, SlotDirDeletionJobsFinished, Receive
<1>. QED
  BY <1>1, <1>2, <1>3

\* What changes of a leaf: it starts, goes on, or ends with an emission.
LEMMA LeafSteps ==
    ASSUME Books, Next, NEW n \in Leaves, leaf'[n] # leaf[n]
    PROVE  \/ leaf'[n] \in Stages
           \/ leaf'[n] \in Statuses /\ signal' # NoSignal
<1>0. /\ FirstInv /\ TypeOK /\ todo \in [Composites -> SUBSET (Items \cup Dirs)]
      /\ leaf \in [Leaves -> {NotYetStarted} \cup Stages \cup Statuses]
  BY DEF Books, FirstInv, TypeOK
<1>1. ASSUME NEW m \in Leaves, NEW status \in Statuses, NEW after,
             NEW queued \in [Composites -> SUBSET (Items \cup Dirs)],
             Done(m, status, after, queued)
      PROVE  leaf'[n] \in Statuses /\ signal' # NoSignal
  <2>1. leaf'[n] = status /\ signal'.from = m /\ signal'.as \in {"first", "sub"}
    BY <1>0, <1>1, DoneMoves
  <2>. QED
    BY <2>1 DEF NoSignal
<1>2. ASSUME NEW m \in Leaves, NEW v \in Stages, leaf' = [leaf EXCEPT ![m] = v]
      PROVE  leaf'[n] \in Stages
  BY <1>0, <1>2
<1>3. CASE StartAndFinish
  <2>1. PICK c \in Composites, m \in Leaves, status \in Statuses :
          Done(m, status, {"schedule"}, [todo EXCEPT ![c] = @ \ {m}])
    BY <1>3, OutcomeTypes DEF StartAndFinish
  <2>. DEFINE queued == [todo EXCEPT ![c] = @ \ {m}]
  <2>2. queued \in [Composites -> SUBSET (Items \cup Dirs)]
    BY <1>0
  <2>3. Done(m, status, {"schedule"}, queued)
    BY <2>1
  <2>. HIDE DEF queued
  <2>. QED
    BY <1>1, <2>2, <2>3
<1>4. CASE StartAsync
  <2>1. PICK m \in Leaves :
          leaf' = [leaf EXCEPT ![m] = IF m \in Uploads THEN "checksum" ELSE "transfer"]
    BY <1>4 DEF StartAsync
  <2>2. PICK v \in Stages : v = IF m \in Uploads THEN "checksum" ELSE "transfer"
    BY DEF Stages
  <2>. QED
    BY <1>2, <2>1, <2>2
<1>5. CASE CancelReply
  <2>1. PICK m \in cancel \ {Root} : Done(m, "Fatal", {}, todo)
    BY <1>5 DEF CancelReply
  <2>2. m \in Leaves /\ "Fatal" \in Statuses
    BY <1>0 DEF TypeOK, Statuses, Errors
  <2>. QED
    BY <1>0, <1>1, <2>1, <2>2
<1>6. ASSUME NEW m \in Leaves, Answer(m)
      PROVE  \/ leaf'[n] \in Stages
             \/ leaf'[n] \in Statuses /\ signal' # NoSignal
  <2>1. CASE StartUpload(m)
    BY <1>2, <2>1 DEF StartUpload, Stages
  <2>2. CASE DownloadReceived(m)
    BY <1>2, <2>2 DEF DownloadReceived, Stages
  <2>3. CASE FileLocked(m) \/ Reply(m) \/ Validated(m)
    <3>1. "Soft" \in Statuses
      BY DEF Statuses, Errors
    <3>2. PICK status \in Statuses : Done(m, status, {}, todo)
      BY <2>3, <3>1, OutcomeTypes DEF FileLocked, Reply, Validated
    <3>. QED
      BY <1>0, <1>1, <3>2
  <2>. QED
    BY <1>6, <2>1, <2>2, <2>3 DEF Answer
<1>. QED
  BY <1>3, <1>4, <1>5, <1>6, LeafWriters

\* A directory starts when a pass takes it from a list, with its first job if
\* it has one; it ends in a slot, the root with the reported result.
LEMMA DirSteps ==
    ASSUME Books, Next, NEW d \in Dirs, dir'[d] # dir[d]
    PROVE  \/ /\ dir'[d] = "Running" /\ dir[d] \notin Statuses
              /\ d # Root => comp[d] = NotYetStarted
              /\ d \in Acting => leaf'[d] # NotYetStarted
           \/ /\ dir'[d] \in Statuses
              /\ d = Root => SlotDirDeletionJobsFinished
<1>0. /\ FirstInv /\ BooksOK /\ TypeOK
      /\ dir \in [Dirs -> {NotYetStarted, "Running"} \cup Statuses]
      /\ leaf \in [Leaves -> {NotYetStarted} \cup Stages \cup Statuses]
  BY DEF Books, FirstInv, TypeOK
<1>1. ASSUME NEW c \in Composites, NEW n \in todo[c], signal = NoSignal,
             dir' = (IF n \in Dirs THEN [dir EXCEPT ![n] = "Running"] ELSE dir)
      PROVE  /\ d = n /\ dir'[d] = "Running" /\ dir[d] \notin Statuses
             /\ comp[d] = NotYetStarted /\ d # Root
  <2>1. d = n /\ dir'[d] = "Running"
    BY <1>0, <1>1
  <2>2. State(d) = NotYetStarted /\ comp[d] = NotYetStarted /\ d # Root
    BY <1>0, <1>1, <2>1, Untouched
  <2>. QED
    BY <2>1, <2>2, Words DEF State
<1>2. CASE ScheduleNextJobImpl
  <2>1. /\ dir[Root] \notin Statuses /\ dir' = [dir EXCEPT ![Root] = "Running"]
    BY <1>2 DEF ScheduleNextJobImpl
  <2>. QED
    BY <1>0, <2>1, Nodes
<1>3. CASE StartAndFinish \/ StartAsync
  <2>1. PICK c \in Composites, n \in Leaves : StartJob(c, n) /\ n \in todo[c]
    BY <1>3 DEF StartAndFinish, StartAsync, NextJobs
  <2>2. /\ signal = NoSignal
        /\ dir' = IF n \in Dirs THEN [dir EXCEPT ![n] = "Running"] ELSE dir
    BY <2>1 DEF StartJob, Take, OwnTurn, InPass
  <2>3. /\ d = n /\ dir'[d] = "Running" /\ dir[d] \notin Statuses
        /\ comp[d] = NotYetStarted /\ d # Root
    BY <1>1, <2>1, <2>2
  <2>4. leaf[n] = NotYetStarted
    BY <1>0, <2>1, <2>2, Untouched
  <2>5. leaf'[n] # NotYetStarted
    <3>1. CASE StartAndFinish
      <4>1. PICK b \in Composites, m \in Leaves, status \in Statuses :
              /\ StartJob(b, m) /\ m \in todo[b]
              /\ Done(m, status, {"schedule"}, [todo EXCEPT ![b] = @ \ {m}])
        BY <3>1, OutcomeTypes DEF StartAndFinish, NextJobs
      <4>. DEFINE queued == [todo EXCEPT ![b] = @ \ {m}]
      <4>2. queued \in [Composites -> SUBSET (Items \cup Dirs)]
        BY <1>0 DEF TypeOK
      <4>3. Done(m, status, {"schedule"}, queued)
        BY <4>1
      <4>. HIDE DEF queued
      <4>4. leaf'[m] = status
        BY <1>0, <4>2, <4>3, DoneMoves
      <4>5. dir' = IF m \in Dirs THEN [dir EXCEPT ![m] = "Running"] ELSE dir
        BY <4>1 DEF StartJob
      <4>6. d = m
        BY <1>1, <2>2, <4>1, <4>5
      <4>. QED
        BY <2>3, <4>4, <4>6, Words
    <3>2. CASE StartAsync
      <4>1. PICK b \in Composites, m \in Leaves :
              /\ StartJob(b, m) /\ m \in todo[b]
              /\ leaf' = [leaf EXCEPT ![m] =
                            IF m \in Uploads THEN "checksum" ELSE "transfer"]
        BY <3>2 DEF StartAsync, NextJobs
      <4>2. leaf'[m] \in Stages
        BY <1>0, <4>1 DEF Stages
      <4>3. dir' = IF m \in Dirs THEN [dir EXCEPT ![m] = "Running"] ELSE dir
        BY <4>1 DEF StartJob
      <4>4. d = m
        BY <1>1, <2>2, <4>1, <4>3
      <4>. QED
        BY <2>3, <4>2, <4>4, Words
    <3>. QED
      BY <1>3, <3>1, <3>2
  <2>. QED
    BY <2>3, <2>5
<1>4. CASE StartDirectory
  <2>1. PICK c, n : /\ c \in Composites
                    /\ Take(c, n) /\ n \in todo[c] /\ n \notin Leaves
                    /\ dir' = [dir EXCEPT ![n] = "Running"]
    BY <1>4 DEF StartDirectory, NextJobs
  <2>2. signal = NoSignal /\ c \in Composites /\ n \in todo[c]
    BY <2>1 DEF Take, OwnTurn, InPass
  <2>3. n \in Dirs
    <3>1. n \in DOMAIN Parent
      BY <1>0, <2>2, Listed
    <3>. QED
      BY <2>1, <3>1, Nodes DEF Leaves
  <2>4. d = n
    BY <1>0, <2>1
  <2>. QED
    BY <1>1, <2>1, <2>2, <2>3, <2>4, Nodes
<1>5. CASE SlotFirstJobFinished
  <2>1. /\ signal.from \in Acting /\ signal.status \in Statuses
        /\ dir' = dir \/ dir' = [dir EXCEPT ![signal.from] = signal.status]
    BY <1>0, <1>5, Received DEF SlotFirstJobFinished
  <2>. QED
    BY <1>0, <2>1, Nodes
<1>6. CASE SlotSubJobsFinished
  <2>. DEFINE b == signal.from
  <2>1. /\ Receive("comp") /\ b \notin {Root, Deletions} /\ b \in Composites
        /\ signal.status \in Statuses
    BY <1>0, <1>6, Received DEF SlotSubJobsFinished
  <2>2. b \in Dirs
    BY <2>1 DEF Composites
  <2>3. OwnStatus(b) \in Statuses
    <3>1. /\ b \in Opened
      BY <1>0, <2>1 DEF FirstInv, ControlOK, Receive
    <3>2. b \in Acting => leaf[b] \in Positive
      BY <1>0, <2>2, <3>1 DEF FirstInv, OpenedFromAbove
    <3>. QED
      BY <3>2, Words DEF OwnStatus
  <2>4. \E status \in Statuses : dir' = [dir EXCEPT ![b] = status]
    <3>1. "Success" \in Statuses /\ {"Fatal", "Soft"} \subseteq Statuses
      BY DEF Statuses, Errors
    <3>. QED
      BY <1>6, <2>1, <2>3, <3>1 DEF SlotSubJobsFinished, FinishDirectory
  <2>. QED
    BY <1>0, <2>1, <2>2, <2>4
<1>7. CASE SlotDirDeletionJobsFinished
  <2>1. RootStatus(signal.status) \in Statuses
    BY <1>0, <1>7, Received, Words DEF SlotDirDeletionJobsFinished, RootStatus
  <2>2. dir' = [dir EXCEPT ![Root] = RootStatus(signal.status)]
    BY <1>7 DEF SlotDirDeletionJobsFinished
  <2>. QED
    BY <1>0, <1>7, <2>1, <2>2
<1>. QED
  BY <1>2, <1>3, <1>4, <1>5, <1>6, <1>7, DirWriters

\* A composite opens, or ends with an emission of its own.
LEMMA CompSteps ==
    ASSUME Books, PassOK, Next, NEW c \in Composites, comp'[c] # comp[c]
    PROVE  /\ comp[c] \notin Statuses
           /\ \/ comp'[c] = "Running"
              \/ /\ comp'[c] \in Statuses /\ pass' = <<>>
                 /\ signal' # NoSignal /\ signal'.as = "comp" /\ signal'.from = c
<1>0. /\ FirstInv /\ BooksOK /\ TypeOK
      /\ comp \in [Composites -> {NotYetStarted, "Running"} \cup Statuses]
  BY DEF Books, FirstInv, TypeOK
<1>1. CASE ScheduleNextJobImpl
  <2>1. comp[NextComposite] \notin Statuses /\ comp' = [comp EXCEPT ![NextComposite] = "Running"]
    BY <1>1 DEF ScheduleNextJobImpl
  <2>. QED
    BY <1>0, <2>1
<1>2. CASE AskRunning
  <2>1. \E n : comp[n] \notin Statuses /\ comp' = [comp EXCEPT ![n] = "Running"]
    BY <1>2 DEF AskRunning
  <2>. QED
    BY <1>0, <2>1
<1>3. CASE StartDirectory
  <2>1. PICK b, n : /\ b \in Composites
                    /\ Take(b, n) /\ n \in todo[b] /\ n \notin Leaves
                    /\ comp' = [comp EXCEPT ![n] = "Running"]
    BY <1>3 DEF StartDirectory, NextJobs
  <2>2. signal = NoSignal /\ b \in Composites /\ n \in todo[b]
    BY <2>1 DEF Take, OwnTurn, InPass
  <2>3. c = n
    BY <1>0, <2>1
  <2>4. n \in Dirs
    <3>1. n \in DOMAIN Parent
      BY <1>0, <2>2, Listed
    <3>. QED
      BY <2>1, <3>1, Nodes DEF Leaves
  <2>5. comp[n] = NotYetStarted
    BY <1>0, <2>2, <2>4, Untouched
  <2>. QED
    BY <1>0, <2>1, <2>3, <2>5, Words
<1>4. CASE SlotSubJobFinished
  <2>. DEFINE b == Parent[signal.from]
              errs == errors[b] \cup {s \in {signal.status} : FailsComposite(s)}
  <2>1. /\ Receive("sub") /\ signal.from \in DOMAIN Parent /\ b \in Composites
        /\ signal.status \in Statuses /\ signal # NoSignal /\ signal.as = "sub"
    BY <1>0, <1>4, Received, Nodes DEF SlotSubJobFinished, Receive
  <2>2. errs \subseteq Statuses
    BY <1>0, <2>1, Words DEF TypeOK
  <2>3. \/ comp' = comp
        \/ \E status \in IF errs = {} THEN {"Success"} ELSE errs :
              comp' = [comp EXCEPT ![b] = status] /\ Emit(b, "comp", status, signal.after)
    BY <1>4 DEF SlotSubJobFinished
  <2>. HIDE DEF errs
  <2>4. PICK status \in Statuses :
          comp' = [comp EXCEPT ![b] = status] /\ Emit(b, "comp", status, signal.after)
    BY <2>2, <2>3, Words
  <2>5. c = b
    BY <1>0, <2>4
  <2>6. signal'.as = "comp" /\ signal'.from = b /\ signal' # NoSignal
    BY <2>4 DEF Emit, NoSignal
  <2>7. comp[b] \notin Statuses
    BY <2>1, ReportsToOpen
  <2>8. pass' = <<>>
    BY <1>4, <2>1, StepFrames DEF PassOK
  <2>. QED
    BY <1>0, <2>1, <2>4, <2>5, <2>6, <2>7, <2>8
<1>5. CASE Finalize
  <2>. DEFINE b == Head(events).of
  <2>1. comp[b] \notin Statuses
    BY <1>5 DEF Finalize
  <2>2. \E status \in IF errors[b] = {} THEN {"Success"} ELSE errors[b] :
          comp' = [comp EXCEPT ![b] = status] /\ Emit(b, "comp", status, {})
    BY <1>5 DEF Finalize
  <2>3. c = b
    BY <1>0, <2>2
  <2>4. errors[b] \subseteq Statuses
    BY <1>0, <2>3, Words DEF TypeOK
  <2>5. PICK status \in Statuses :
          comp' = [comp EXCEPT ![b] = status] /\ Emit(b, "comp", status, {})
    BY <2>2, <2>4, Words
  <2>6. signal'.as = "comp" /\ signal'.from = b /\ signal' # NoSignal
    BY <2>5 DEF Emit, NoSignal
  <2>7. pass' = <<>>
    BY <1>5, StepFrames DEF AtEventLoop
  <2>. QED
    BY <1>0, <2>1, <2>3, <2>5, <2>6, <2>7
<1>. QED
  BY <1>1, <1>2, <1>3, <1>4, <1>5, CompWriters

\* A posted event stays posted until its handler runs, or the end.
LEMMA EventsKept ==
    ASSUME TypeOK, Next, NEW e \in Range(events)
    PROVE  \/ e \in Range(events')
           \/ DeliverFinished
           \/ /\ e = Head(events)
              /\ ScheduleNextJobImpl \/ DeleteJob \/ Finalize \/ AbortEvent
<1>0. events \in Seq(Events) /\ active \in Seq(Leaves)
  BY DEF TypeOK
<1>1. /\ Range(events) \subseteq Range(scheduleNextJob(events))
      /\ \A after \in SUBSET {"abort", "schedule"} :
            Range(events) \subseteq Range(Unwind(events, after))
      /\ \A x \in Events : Range(events) \subseteq Range(Append(events, x))
  BY <1>0, QueueGrows
<1>2. CASE ScheduleNextJobImpl \/ DeleteJob \/ Finalize \/ AbortEvent
  <2>1. events # <<>> /\ events' = Tail(events)
    BY <1>2 DEF ScheduleNextJobImpl, DeleteJob, Finalize, AbortEvent
  <2>2. Range(events) = {Head(events)} \cup Range(Tail(events))
    BY <1>0, <2>1, TailRange
  <2>. QED
    BY <1>2, <2>1, <2>2
<1>3. CASE \/ AskRunning \/ SkipUselessTask \/ StartAndFinish \/ StartDirectory
           \/ SlotSubJobsFinished \/ AbortTimeout \/ CancelReply
           \/ \E n \in Leaves : Answer(n)
  <2>1. UNCHANGED events
    BY <1>3, StepFrames
  <2>. QED
    BY <2>1
<1>4. CASE StartAsync
  BY <1>1, <1>4 DEF StartAsync
<1>5. CASE NothingLeft
  <2>1. CASE UNCHANGED events
    BY <2>1
  <2>2. CASE InPass /\ events' = Append(events, Event("finalize", Top.of))
    <3>1. Top.of \in Composites
      <4>1. pass \in Seq(Frames) /\ pass # <<>>
        BY <2>2 DEF InPass, TypeOK
      <4>2. Top \in Frames
        BY <4>1, NonEmpty DEF Top
      <4>. QED
        BY <4>2 DEF Frames
    <3>2. Event("finalize", Top.of) \in Events
      BY <3>1, EventTypes
    <3>. QED
      BY <1>1, <2>2, <3>2
  <2>. QED
    BY <1>5, <2>1, <2>2 DEF NothingLeft
<1>6. CASE SlotSubJobFinished
  <2>. DEFINE n == signal.from
              queue == IF Contains(active, n) THEN Append(events, Event("delete", n)) ELSE events
  <2>1. n \in DOMAIN Parent /\ signal.after \in SUBSET {"abort", "schedule"}
    BY <1>6, Received DEF SlotSubJobFinished
  <2>2. queue \in Seq(Events) /\ Range(events) \subseteq Range(queue)
    <3>1. Event("delete", n) \in Events
      BY <2>1, EventTypes
    <3>. QED
      BY <1>0, <1>1, <3>1, AppendType
  <2>3. events' = queue \/ events' = Unwind(scheduleNextJob(queue), signal.after)
    BY <1>6 DEF SlotSubJobFinished, Quiet
  <2>. HIDE DEF queue, n
  <2>4. /\ Range(queue) \subseteq Range(scheduleNextJob(queue))
        /\ scheduleNextJob(queue) \in Seq(Events)
    BY <2>1, <2>2, QueueGrows, QueueTypes
  <2>5. Range(scheduleNextJob(queue)) \subseteq
           Range(Unwind(scheduleNextJob(queue), signal.after))
    BY <2>1, <2>4, QueueGrows
  <2>. QED
    BY <2>2, <2>3, <2>4, <2>5
<1>7. CASE SlotFirstJobFinished \/ SlotRootSubJobsFinished
  <2>1. signal.after \in SUBSET {"abort", "schedule"}
    BY <1>7, Received DEF SlotFirstJobFinished, SlotRootSubJobsFinished
  <2>2. UNCHANGED events \/ events' = Unwind(scheduleNextJob(events), signal.after)
    BY <1>7 DEF SlotFirstJobFinished, SlotRootSubJobsFinished, Quiet
  <2>3. scheduleNextJob(events) \in Seq(Events)
    BY <1>0, <2>1, QueueTypes
  <2>4. Range(scheduleNextJob(events)) \subseteq
           Range(Unwind(scheduleNextJob(events), signal.after))
    BY <2>1, <2>3, QueueGrows
  <2>. QED
    BY <1>1, <2>2, <2>4
<1>8. CASE SlotDirDeletionJobsFinished
  <2>1. signal.after \in SUBSET {"abort", "schedule"}
    BY <1>8, Received DEF SlotDirDeletionJobsFinished
  <2>. DEFINE queue == Unwind(events, signal.after)
  <2>2. queue \in Seq(Events) /\ Range(events) \subseteq Range(queue)
    BY <1>0, <1>1, <2>1, QueueTypes
  <2>3. events' = queue \/ events' = Append(queue, Event("finished", Root))
    BY <1>8 DEF SlotDirDeletionJobsFinished, EmitFinished
  <2>. HIDE DEF queue
  <2>4. Range(queue) \subseteq Range(Append(queue, Event("finished", Root)))
    BY <2>2, EventTypes, AppendRange
  <2>. QED
    BY <2>2, <2>3, <2>4
<1>9. CASE AbortFinished
  <2>1. events' = events \/ events' = Append(events, Event("finished", Root))
    BY <1>9 DEF AbortFinished, EmitFinished
  <2>. QED
    BY <1>1, <2>1, EventTypes
<1>. QED
  BY <1>2, <1>3, <1>4, <1>5, <1>6, <1>7, <1>8, <1>9 DEF Next, Handler

\* The end is reported once, and posted then.
LEMMA ResultSteps ==
    ASSUME TypeOK, Next
    PROVE  /\ result # "none" => result' # "none"
           /\ SlotDirDeletionJobsFinished \/ AbortFinished => result' # "none"
           /\ result' # result => \/ DeliverFinished
                                 \/ \E e \in Range(events') : e.kind = "finished"
<1>1. ASSUME NEW status \in Statuses, NEW queue \in Seq(Events), EmitFinished(status, queue)
      PROVE  /\ result' # "none"
             /\ result' # result => \E e \in Range(events') : e.kind = "finished"
  <2>1. Event("finished", Root) \in Range(Append(queue, Event("finished", Root)))
    BY EventTypes, AppendRange
  <2>2. Event("finished", Root).kind = "finished" /\ status # "none"
    BY DEF Event, Statuses, Errors
  <2>. QED
    BY <1>1, <2>1, <2>2 DEF EmitFinished
<1>2. CASE SlotDirDeletionJobsFinished
  <2>1. RootStatus(signal.status) \in Statuses /\ signal.after \in SUBSET {"abort", "schedule"}
    BY <1>2, Received, Words DEF SlotDirDeletionJobsFinished, RootStatus
  <2>2. Unwind(events, signal.after) \in Seq(Events)
    BY <2>1, QueueTypes DEF TypeOK
  <2>. QED
    BY <1>1, <1>2, <2>1, <2>2 DEF SlotDirDeletionJobsFinished
<1>3. CASE AbortFinished
  BY <1>1, <1>3 DEF AbortFinished, TypeOK, Statuses, Errors
<1>4. CASE DeliverFinished
  <2>1. result' = "over" /\ "over" # "none" /\ UNCHANGED signal /\ signal = NoSignal
    BY <1>4 DEF DeliverFinished, AtEventLoop
  <2>2. ~SlotDirDeletionJobsFinished
    BY <2>1 DEF SlotDirDeletionJobsFinished, Receive
  <2>3. ~AbortFinished
    BY <1>4 DEF DeliverFinished, AtEventLoop, AbortFinished
  <2>. QED
    BY <1>4, <2>1, <2>2, <2>3
<1>. QED
  BY <1>2, <1>3, <1>4, ResultWriters

LEMMA EndsPostedNext ==
    ASSUME Books, EndsPosted, Next
    PROVE  EndsPosted'
<1>0. TypeOK
  BY DEF Books, FirstInv
<1>1. ASSUME result' \in Statuses
      PROVE  \E e \in Range(events') : e.kind = "finished"
  <2>1. ~DeliverFinished
    BY <1>1 DEF DeliverFinished, Statuses, Errors
  <2>2. CASE result' # result
    BY <1>0, <2>1, <2>2, ResultSteps
  <2>3. CASE result' = result
    <3>1. PICK e \in Range(events) : e.kind = "finished"
      BY <1>1, <2>3 DEF EndsPosted
    <3>2. ~(/\ e = Head(events)
            /\ ScheduleNextJobImpl \/ DeleteJob \/ Finalize \/ AbortEvent)
      BY <3>1 DEF ScheduleNextJobImpl, DeleteJob, Finalize, AbortEvent
    <3>. QED
      BY <1>0, <2>1, <3>1, <3>2, EventsKept
  <2>. QED
    BY <2>2, <2>3
<1>2. ASSUME dir'[Root] \in Statuses
      PROVE  result' # "none"
  <2>1. CASE dir'[Root] = dir[Root]
    BY <1>0, <1>2, <2>1, ResultSteps DEF EndsPosted
  <2>2. CASE dir'[Root] # dir[Root]
    <3>1. SlotDirDeletionJobsFinished
      BY <1>2, <2>2, DirSteps, TreeAssumption, Words
    <3>. QED
      BY <1>0, <3>1, ResultSteps
  <2>. QED
    BY <2>1, <2>2
<1>. QED
  BY <1>1, <1>2 DEF EndsPosted

LEMMA FirstStartedNext ==
    ASSUME Books, FirstStarted, Next
    PROVE  FirstStarted'
<1>. SUFFICES ASSUME NEW d \in Acting, dir'[d] = "Running"
              PROVE  leaf'[d] # NotYetStarted
  BY DEF FirstStarted
<1>1. d \in Dirs /\ d \in Leaves
  BY Nodes
<1>2. CASE dir'[d] # dir[d]
  BY <1>1, <1>2, DirSteps, Words
<1>3. CASE dir'[d] = dir[d]
  <2>1. leaf[d] # NotYetStarted
    BY <1>3 DEF FirstStarted
  <2>. QED
    BY <1>1, <2>1, LeafSteps, Words
<1>. QED
  BY <1>2, <1>3

LEMMA EndsPassedOnNext ==
    ASSUME Books, PassOK, EndsPassedOn, Next
    PROVE  EndsPassedOn'
<1>. SUFFICES ASSUME NEW c \in Composites \ {Root}, comp'[c] \in Statuses
              PROVE  \/ signal'.as = "comp" /\ signal'.from = c
                     \/ IF c = Deletions THEN dir'[Root] \in Statuses ELSE dir'[c] # "Running"
  BY DEF EndsPassedOn
<1>0. TypeOK
  BY DEF Books, FirstInv
<1>1. CASE comp'[c] # comp[c]
  BY <1>1, CompSteps, Words
<1>2. CASE comp'[c] = comp[c] /\ signal.as = "comp" /\ signal.from = c
  <2>1. signal # NoSignal
    BY <1>2 DEF NoSignal
  <2>2. CASE SlotSubJobsFinished /\ c # Deletions
    <3>1. c \in Dirs /\ dir[c] = "Running"
      BY <1>2, <2>2 DEF Composites, Books, BooksOK, ReportsOK
    <3>2. OwnStatus(c) \in Statuses
      <4>1. c \in Opened
        BY <1>2 DEF Books, FirstInv, ControlOK
      <4>2. c \in Acting => leaf[c] \in Positive
        BY <3>1, <4>1 DEF Books, FirstInv, OpenedFromAbove
      <4>. QED
        BY <4>2, Words DEF OwnStatus
    <3>3. \E status \in Statuses : dir' = [dir EXCEPT ![c] = status]
      <4>1. "Success" \in Statuses /\ {"Fatal", "Soft"} \subseteq Statuses
        BY DEF Statuses, Errors
      <4>2. signal.status \in Statuses
        BY <1>0, <2>2, Received DEF SlotSubJobsFinished
      <4>. QED
        BY <1>2, <2>2, <3>2, <4>1, <4>2 DEF SlotSubJobsFinished, FinishDirectory
    <3>. QED
      BY <1>0, <2>2, <3>1, <3>3, Words DEF TypeOK
  <2>3. CASE SlotDirDeletionJobsFinished /\ c = Deletions
    <3>1. dir' = [dir EXCEPT ![Root] = RootStatus(signal.status)]
      BY <2>3 DEF SlotDirDeletionJobsFinished
    <3>2. RootStatus(signal.status) \in Statuses
      BY <1>0, <2>3, Received, Words DEF SlotDirDeletionJobsFinished, RootStatus
    <3>. QED
      BY <1>0, <2>3, <3>1, <3>2, TreeAssumption DEF TypeOK
  <2>. QED
    BY <1>2, <2>1, <2>2, <2>3, SlotsFirst
<1>3. CASE /\ comp'[c] = comp[c] /\ ~(signal.as = "comp" /\ signal.from = c)
  <2>1. IF c = Deletions THEN dir[Root] \in Statuses ELSE dir[c] # "Running"
    BY <1>3 DEF EndsPassedOn
  <2>2. CASE c = Deletions
    BY <2>1, <2>2, DirSteps, TreeAssumption
  <2>3. CASE c # Deletions
    <3>1. c \in Dirs /\ c # Root
      BY <2>3 DEF Composites
    <3>. QED
      BY <1>3, <2>1, <2>3, <3>1, DirSteps, Words
  <2>. QED
    BY <2>2, <2>3
<1>. QED
  BY <1>1, <1>2, <1>3

\* What becomes of the frames of a pass.
LEMMA PassSteps ==
    ASSUME Books, Next
    PROVE  \A f \in Range(pass') :
              \/ \E g \in Range(pass) : f.of = g.of
              \/ f.of \in Composites /\ comp'[f.of] = "Running"
<1>0. /\ TypeOK /\ TreeInv /\ FirstInv /\ pass \in Seq(Frames)
      /\ comp \in [Composites -> {NotYetStarted, "Running"} \cup Statuses]
  BY DEF Books, FirstInv, TreeInv, TypeOK
<1>1. CASE pass' = <<>>
  <2>1. Range(pass') = {}
    BY <1>1 DEF Range
  <2>. QED
    BY <2>1
<1>2. CASE pass' = pass
  BY <1>2
<1>3. ASSUME pass # <<>>, NEW i \in Nat, NEW f \in Range(SetTop(i))
      PROVE  \E g \in Range(pass) : f.of = g.of
  <2>1. PICK j \in DOMAIN SetTop(i) : f = SetTop(i)[j]
    BY <1>3 DEF Range
  <2>2. j \in DOMAIN pass /\ f.of = pass[j].of
    BY <1>0, <1>3, <2>1, SetTopOf
  <2>. QED
    BY <2>2 DEF Range
<1>4. CASE ScheduleNextJobImpl
  <2>1. PICK c : \/ pass' = pass
                \/ /\ pass' = <<[of |-> c, at |-> 1]>> /\ c = NextComposite
                   /\ comp' = [comp EXCEPT ![c] = "Running"]
    BY <1>4 DEF ScheduleNextJobImpl
  <2>2. NextComposite \in Composites
    BY TreeAssumption DEF NextComposite, Composites
  <2>3. CASE /\ pass' = <<[of |-> c, at |-> 1]>> /\ c = NextComposite
             /\ comp' = [comp EXCEPT ![c] = "Running"]
    <3>1. \A f \in Range(pass') : f.of = c
      BY <2>3 DEF Range
    <3>. QED
      BY <1>0, <2>2, <2>3, <3>1
  <2>. QED
    BY <1>2, <2>1, <2>3
<1>5. ASSUME InPass, NEW i \in Nat, NEW d \in Composites,
             pass' = Append(SetTop(i), [of |-> d, at |-> 1]),
             comp' = [comp EXCEPT ![d] = "Running"]
      PROVE  \A f \in Range(pass') :
               \/ \E g \in Range(pass) : f.of = g.of
               \/ f.of \in Composites /\ comp'[f.of] = "Running"
  <2>1. pass # <<>>
    BY <1>5 DEF InPass
  <2>. DEFINE new == [of |-> d, at |-> 1]
  <2>2. SetTop(i) \in Seq(Frames)
    BY <1>0, <2>1, SetTopType
  <2>3. new.of = d
    OBVIOUS
  <2>. HIDE DEF new
  <2>4. Range(Append(SetTop(i), new)) = Range(SetTop(i)) \cup {new}
    BY <2>2, AppendRange
  <2>5. pass' = Append(SetTop(i), new)
    BY <1>5 DEF new
  <2>6. comp'[d] = "Running"
    BY <1>0, <1>5
  <2>. QED
    BY <1>3, <2>1, <2>3, <2>4, <2>5, <2>6
<1>6. CASE AskRunning
  <2>1. InPass /\ Top.at \in Nat
    <3>1. InPass
      BY <1>6 DEF AskRunning
    <3>2. Top \in Frames
      BY <1>0, <3>1, TopFrame
    <3>. QED
      BY <3>1, <3>2 DEF Frames
  <2>2. PICK i, d : /\ i \in Nat
                    /\ \/ pass' = SetTop(i)
                       \/ /\ pass' = Append(SetTop(i), [of |-> d, at |-> 1])
                          /\ d \in Dirs /\ comp' = [comp EXCEPT ![d] = "Running"]
    <3>. DEFINE n == running[Top.of][Top.at]
                i == IF Waiting(n) THEN 0 ELSE Top.at + 1
    <3>1. i \in Nat
      BY <2>1
    <3>2. \/ pass' = SetTop(i)
          \/ /\ pass' = Append(SetTop(i), [of |-> n, at |-> 1])
             /\ n \in Dirs /\ comp' = [comp EXCEPT ![n] = "Running"]
      BY <1>6 DEF AskRunning
    <3>. HIDE DEF n, i
    <3>. QED
      BY <3>1, <3>2
  <2>3. CASE pass' = SetTop(i)
    BY <1>3, <2>1, <2>2, <2>3 DEF InPass
  <2>4. CASE /\ pass' = Append(SetTop(i), [of |-> d, at |-> 1])
             /\ d \in Dirs /\ comp' = [comp EXCEPT ![d] = "Running"]
    BY <1>5, <2>1, <2>2, <2>4, Nodes
  <2>. QED
    BY <2>2, <2>3, <2>4
<1>7. CASE StartDirectory
  <2>1. PICK b, n :
          /\ b \in Composites
          /\ Take(b, n) /\ n \in todo[b] /\ n \notin Leaves
          /\ comp' = [comp EXCEPT ![n] = "Running"]
          /\ pass' = Append(SetTop(0), [of |-> n, at |-> 1])
    BY <1>7 DEF StartDirectory, NextJobs
  <2>2. InPass
    BY <2>1 DEF Take, OwnTurn
  <2>3. n \in Composites
    <3>1. n \in DOMAIN Parent
      BY <1>0, <2>1, Listed
    <3>. QED
      BY <2>1, <3>1, Nodes DEF Leaves
  <2>. QED
    BY <1>5, <2>1, <2>2, <2>3
<1>8. CASE NothingLeft
  <2>1. pass' = Front(pass) /\ pass # <<>>
    BY <1>8 DEF NothingLeft, InPass
  <2>2. Range(Front(pass)) \subseteq Range(pass)
    <3>1. /\ Len(pass) \in Nat \ {0} /\ DOMAIN pass = 1..Len(pass)
          /\ Front(pass) = SubSeq(pass, 1, Len(pass) - 1)
      BY <1>0, <2>1, NonEmpty, LenProperties DEF Front
    <3>2. \A i \in DOMAIN Front(pass) : i \in DOMAIN pass /\ Front(pass)[i] = pass[i]
      BY <3>1
    <3>. QED
      BY <3>2 DEF Range
  <2>. QED
    BY <2>1, <2>2
<1>9. CASE StartAndFinish \/ StartAsync
  BY <1>1, <1>9 DEF StartAndFinish, StartAsync, StartJob
<1>. QED
  BY <1>2, <1>4, <1>6, <1>7, <1>8, <1>9, PassWriters

LEMMA PassOpenNext ==
    ASSUME Books, PassOK, PassOpen, Next
    PROVE  PassOpen'
<1>. SUFFICES ASSUME NEW f \in Range(pass') PROVE comp'[f.of] = "Running"
  BY DEF PassOpen
<1>1. CASE f.of \in Composites /\ comp'[f.of] = "Running"
  BY <1>1
<1>2. CASE \E g \in Range(pass) : f.of = g.of
  <2>1. PICK g \in Range(pass) : f.of = g.of
    BY <1>2
  <2>2. comp[g.of] = "Running"
    BY DEF PassOpen
  <2>3. pass \in Seq(Frames) /\ pass' # <<>>
    BY DEF Books, FirstInv, TypeOK, Range
  <2>4. g.of \in Composites
    <3>1. g \in Frames
      BY <2>3, ElementOfSeq, LenProperties DEF Range
    <3>. QED
      BY <3>1 DEF Frames
  <2>. QED
    BY <2>1, <2>2, <2>3, <2>4, CompSteps
<1>. QED
  BY <1>1, <1>2, PassSteps

\* Where no file is locked, a job leaves the list before it is done.
LEMMA ActiveAtWorkNext ==
    ASSUME Books, ActiveOK, ActiveAtWork, ~LocksFiles, Next
    PROVE  ActiveAtWork'
<1>0. /\ FirstInv /\ BooksOK /\ TypeOK /\ IsInjective(active) /\ active \in Seq(Leaves)
      /\ leaf \in [Leaves -> {NotYetStarted} \cup Stages \cup Statuses]
      /\ todo \in [Composites -> SUBSET (Items \cup Dirs)]
  BY DEF Books, FirstInv, TypeOK, ActiveOK
<1>1. \A n \in Range(active) : n \in Leaves
  BY <1>0, ElementOfSeq, LenProperties DEF Range
<1>2. ASSUME NEW n \in Leaves, NEW v,
             \A m \in Leaves : leaf'[m] = IF m = n THEN v ELSE leaf[m],
             Range(active') \ {n} \subseteq Range(active),
             v \in {"checksum", "transfer"} \/ n \notin Range(active')
      PROVE  ActiveAtWork'
  <2>1. \A m \in Range(active') : m = n \/ m \in Range(active)
    BY <1>2
  <2>. QED
    BY <1>1, <1>2, <2>1 DEF ActiveAtWork
<1>3. \A n \in Leaves : /\ Range(Without(active, n)) = Range(active) \ {n}
                        /\ Without(active, n) \in Seq(Leaves)
                        /\ Range(Append(active, n)) = Range(active) \cup {n}
  BY <1>0, WithoutRange, WithoutType, AppendRange
<1>4. CASE DeleteJob
  <2>1. UNCHANGED leaf /\ active' = Without(active, Head(events).of)
    BY <1>4 DEF DeleteJob, Delist, tree
  <2>2. Range(active') = Range(active) \ {Head(events).of}
    BY <1>0, <2>1, WithoutRange
  <2>. QED
    BY <2>1, <2>2 DEF ActiveAtWork
<1>5. CASE StartAsync
  <2>1. PICK n \in Leaves :
          /\ leaf' = [leaf EXCEPT ![n] = IF n \in Uploads THEN "checksum" ELSE "transfer"]
          /\ active' = Append(active, n)
    BY <1>5 DEF StartAsync
  <2>. DEFINE v == IF n \in Uploads THEN "checksum" ELSE "transfer"
  <2>2. v \in {"checksum", "transfer"}
    OBVIOUS
  <2>3. leaf' = [leaf EXCEPT ![n] = v]
    BY <2>1
  <2>. HIDE DEF v
  <2>4. \A m \in Leaves : leaf'[m] = IF m = n THEN v ELSE leaf[m]
    BY <1>0, <2>3
  <2>. QED
    BY <1>2, <1>3, <2>1, <2>2, <2>4
<1>6. CASE StartAndFinish
  <2>1. PICK c \in Composites, n \in Leaves, status \in Statuses :
          /\ StartJob(c, n) /\ n \in todo[c]
          /\ Done(n, status, {"schedule"}, [todo EXCEPT ![c] = @ \ {n}])
          /\ UNCHANGED active
    BY <1>6, OutcomeTypes DEF StartAndFinish, NextJobs
  <2>2. signal = NoSignal
    BY <2>1 DEF StartJob, Take, OwnTurn, InPass
  <2>3. n \notin Range(active)
    BY <1>0, <2>1, <2>2, Untouched, Words DEF ActiveOK
  <2>. DEFINE queued == [todo EXCEPT ![c] = @ \ {n}]
  <2>4. queued \in [Composites -> SUBSET (Items \cup Dirs)] /\ Done(n, status, {"schedule"}, queued)
    BY <1>0, <2>1
  <2>. HIDE DEF queued
  <2>5. \A m \in Leaves : leaf'[m] = IF m = n THEN status ELSE leaf[m]
    BY <1>0, <2>4, DoneMoves
  <2>. QED
    BY <1>2, <2>1, <2>3, <2>5
<1>7. ASSUME NEW n \in Leaves, NEW status \in Statuses, Delist(n), Done(n, status, {}, todo)
      PROVE  ActiveAtWork'
  <2>1. Range(active') = Range(active) \ {n}
    BY <1>3, <1>7 DEF Delist
  <2>2. \A m \in Leaves : leaf'[m] = IF m = n THEN status ELSE leaf[m]
    BY <1>0, <1>7, DoneMoves
  <2>. QED
    BY <1>2, <2>1, <2>2
<1>8. CASE CancelReply
  <2>1. PICK n \in cancel \ {Root} : Delist(n) /\ Done(n, "Fatal", {}, todo)
    BY <1>8 DEF CancelReply
  <2>2. n \in Leaves /\ "Fatal" \in Statuses
    BY <1>0 DEF TypeOK, Statuses, Errors
  <2>. QED
    BY <1>7, <2>1, <2>2
<1>9. ASSUME NEW n \in Leaves, Answer(n)
      PROVE  ActiveAtWork'
  <2>1. CASE StartUpload(n)
    <3>1. /\ leaf' = [leaf EXCEPT ![n] = "transfer"]
          /\ active' = Append(Without(active, n), n)
      BY <2>1 DEF StartUpload
    <3>2. Range(active') = (Range(active) \ {n}) \cup {n}
      BY <1>3, <3>1, AppendRange
    <3>3. \A m \in Leaves : leaf'[m] = IF m = n THEN "transfer" ELSE leaf[m]
      BY <1>0, <3>1
    <3>. QED
      BY <1>2, <3>2, <3>3
  <2>2. CASE Reply(n)
    BY <1>7, <2>2, OutcomeTypes DEF Reply
  <2>3. CASE DownloadReceived(n)
    <3>1. leaf' = [leaf EXCEPT ![n] = "validate"] /\ Delist(n)
      BY <2>3 DEF DownloadReceived
    <3>2. Range(active') = Range(active) \ {n}
      BY <1>3, <3>1 DEF Delist
    <3>3. \A m \in Leaves : leaf'[m] = IF m = n THEN "validate" ELSE leaf[m]
      BY <1>0, <3>1
    <3>. QED
      BY <1>2, <3>2, <3>3
  <2>4. CASE Validated(n)
    <3>1. PICK status \in Statuses : Done(n, status, {}, todo)
      BY <2>4, OutcomeTypes DEF Validated
    <3>2. UNCHANGED active /\ leaf[n] = "validate"
      BY <2>4 DEF Validated
    <3>3. n \notin Range(active)
      BY <3>2 DEF ActiveAtWork
    <3>4. \A m \in Leaves : leaf'[m] = IF m = n THEN status ELSE leaf[m]
      BY <1>0, <3>1, DoneMoves
    <3>. QED
      BY <1>2, <3>2, <3>3, <3>4
  <2>5. ~FileLocked(n)
    BY DEF FileLocked
  <2>. QED
    BY <1>9, <2>1, <2>2, <2>3, <2>4, <2>5 DEF Answer
<1>10. CASE UNCHANGED <<leaf, active>>
  BY <1>10 DEF ActiveAtWork
<1>. QED
  BY <1>4, <1>5, <1>6, <1>8, <1>9, <1>10, LeafWriters, ActiveWriters

\* The end stays on its way.
LEMMA RelievedStays ==
    ASSUME TypeOK, Relieved, Next
    PROVE  Relieved'
<1>1. CASE result # "none"
  BY <1>1, ResultSteps DEF Relieved
<1>2. CASE timer
  <2>1. CASE AbortTimeout
    BY <2>1 DEF AbortTimeout, AbortJobs, Relieved
  <2>2. CASE DeliverFinished
    BY <2>2 DEF DeliverFinished, Relieved
  <2>. QED
    BY <1>2, <2>1, <2>2, TimerWriters DEF Relieved
<1>3. CASE Root \in cancel
  <2>1. ~AbortEvent /\ ~AbortTimeout
    BY <1>3 DEF AbortEvent, AbortTimeout, AtEventLoop
  <2>2. CASE CancelReply
    BY <1>3, <2>2 DEF CancelReply, Relieved
  <2>3. CASE AbortFinished
    BY <2>3, ResultSteps DEF Relieved
  <2>. QED
    BY <1>3, <2>1, <2>2, <2>3, CancelWriters DEF Relieved
<1>. QED
  BY <1>1, <1>2, <1>3 DEF Relieved

\* When no job is at work the scheduler may start one: its pass begins.
LEMMA PassBegins ==
    ASSUME Books, EndsPosted, EndsPassedOn, ActiveAtWork, ~Working, ~Relieved,
           ScheduleNextJobImpl
    PROVE  pass' # <<>> /\ Top'.at = 1
<1>1. AtEventLoop /\ signal = NoSignal
  BY DEF ScheduleNextJobImpl, AtEventLoop
<1>2. active = <<>>
  <2>1. active \in Seq(Leaves)
    BY DEF Books, FirstInv, TypeOK
  <2>2. \A n \in Range(active) : n \in Leaves
    BY <2>1, ElementOfSeq, LenProperties DEF Range
  <2>3. Range(active) = {}
    BY <2>2 DEF ActiveAtWork, Working, Stages
  <2>. QED
    BY <2>1, <2>3, EmptyRange
<1>3. MayStartJob
  <2>1. maximumActiveTransferJob \in Nat \ {0}
    <3>1. ((ParallelNetworkJobs + 1) \div 2) \in Int
      BY JobAssumption
    <3>. QED
      BY <3>1 DEF maximumActiveTransferJob
  <2>. QED
    BY <1>2, <2>1 DEF MayStartJob
<1>4. dir[Root] \notin Statuses
  BY DEF EndsPosted, Relieved
<1>5. comp[NextComposite] \notin Statuses
  <2>1. CASE comp[Root] \in Statuses
    <3>1. Deletions \in Composites \ {Root}
      BY TreeAssumption DEF Composites
    <3>. QED
      BY <1>1, <1>4, <2>1, <3>1 DEF NextComposite, EndsPassedOn, NoSignal
  <2>2. CASE comp[Root] \notin Statuses
    BY <2>2 DEF NextComposite
  <2>. QED
    BY <2>1, <2>2
<1>6. pass' = <<[of |-> NextComposite, at |-> 1]>>
  BY <1>3, <1>4, <1>5 DEF ScheduleNextJobImpl
<1>. QED
  BY <1>6 DEF Top, Last

\* A pass that is about to ask a first running child, or to take its own turn,
\* leads to a job, to the end of a composite, or asks further down.
LEMMA PassGoesOn ==
    ASSUME Books, PassOK, PassOpen, EndsPassedOn, FirstStarted, ~Working,
           pass # <<>>, signal = NoSignal, Top.at = 1, Next
    PROVE  WakeUp'
<1>0. /\ FirstInv /\ BooksOK /\ TypeOK /\ TreeInv /\ pass \in Seq(Frames)
      /\ events \in Seq(Events) /\ running \in [Composites -> Seq(Items \cup Dirs)]
      /\ leaf \in [Leaves -> {NotYetStarted} \cup Stages \cup Statuses]
  BY DEF Books, FirstInv, TreeInv, TypeOK
<1>1. InPass /\ Top \in Frames /\ Top.of \in Composites /\ cancel = {} /\ ~AtEventLoop
  BY <1>0, TopFrame DEF InPass, AtEventLoop
<1>2. comp[Top.of] = "Running"
  <2>1. Len(pass) \in DOMAIN pass
    BY <1>0, NonEmpty
  <2>. QED
    BY <2>1 DEF PassOpen, Top, Last, Range
<1>3. running[Top.of] \in Seq(Items \cup Dirs)
  BY <1>0, <1>1
<1>4. ASSUME NEW back \in Seq(Frames), NEW d \in Composites,
             pass' = Append(back, [of |-> d, at |-> 1])
      PROVE  WakeUp'
  <2>. DEFINE new == [of |-> d, at |-> 1]
  <2>1. new \in Frames /\ new.at = 1
    BY DEF Frames
  <2>. HIDE DEF new
  <2>2. pass' = Append(back, new)
    BY <1>4 DEF new
  <2>3. pass' # <<>> /\ Last(pass') = new
    BY <2>1, <2>2, AppendProperties, LenProperties, EmptySeq DEF Last
  <2>. QED
    BY <2>1, <2>3 DEF WakeUp, Top
<1>5. CASE AskRunning
  <2>. DEFINE c == Top.of
              n == running[c][1]
  <2>1. 1 \in DOMAIN running[c]
    BY <1>5 DEF AskRunning
  <2>2. n \in Range(running[c]) /\ n \in DOMAIN Parent /\ Parent[n] = c
    BY <1>0, <1>1, <2>1, Listed DEF Range
  <2>3. ~Reports(n)
    BY DEF Reports, NoSignal
  <2>4. Busy(n)
    BY <1>0, <2>2, <2>3 DEF BooksOK, RunningOK
  <2>5. n \in Dirs /\ n # Root /\ dir[n] = "Running"
    BY <2>2, <2>4, Nodes, TreeAssumption DEF Busy, Working, Leaves, Composites
  <2>6. FirstJobDone(n)
    <3>1. n \in Acting => n \in Leaves /\ leaf[n] # NotYetStarted /\ leaf[n] \notin Stages
      BY <2>5, Nodes DEF FirstStarted, Working
    <3>. QED
      BY <1>0, <3>1 DEF FirstJobDone
  <2>7. comp[n] \notin Statuses
    <3>1. n \in Composites \ {Root} /\ n # Deletions
      BY <2>5, TreeAssumption DEF Composites
    <3>. QED
      BY <2>5, <3>1 DEF EndsPassedOn, NoSignal
  <2>. HIDE DEF n
  <2>8. \E i \in Nat : pass' = Append(SetTop(i), [of |-> n, at |-> 1])
    <3>. DEFINE i == IF Waiting(n) THEN 0 ELSE Top.at + 1
    <3>1. pass' = Append(SetTop(i), [of |-> n, at |-> 1])
      BY <1>5, <2>5, <2>6, <2>7 DEF AskRunning, n
    <3>2. i \in Nat
      OBVIOUS
    <3>. HIDE DEF i
    <3>. QED
      BY <3>1, <3>2
  <2>9. n \in Composites
    BY <2>5, Nodes
  <2>. QED
    BY <1>0, <1>4, <2>8, <2>9, SetTopType
<1>6. CASE SkipUselessTask
  BY <1>6 DEF SkipUselessTask, WakeUp, Top
<1>7. CASE StartAndFinish
  <2>1. PICK c, n, status :
          /\ c \in Composites /\ n \in Leaves
          /\ Done(n, status, {"schedule"}, [todo EXCEPT ![c] = @ \ {n}])
    BY <1>7 DEF StartAndFinish
  <2>2. signal' # NoSignal
    BY <2>1 DEF Done, Emit, NoSignal
  <2>. QED
    BY <2>2 DEF WakeUp
<1>8. CASE StartAsync
  <2>1. PICK n \in Leaves :
          leaf' = [leaf EXCEPT ![n] = IF n \in Uploads THEN "checksum" ELSE "transfer"]
    BY <1>8 DEF StartAsync
  <2>2. leaf'[n] \in Stages
    BY <1>0, <2>1 DEF Stages
  <2>. QED
    BY <2>2 DEF WakeUp, Working
<1>9. CASE StartDirectory
  <2>1. PICK b, n :
          /\ b \in Composites
          /\ n \in todo[b] /\ n \notin Leaves
          /\ pass' = Append(SetTop(0), [of |-> n, at |-> 1])
    BY <1>9 DEF StartDirectory, NextJobs
  <2>2. n \in Composites
    <3>1. n \in DOMAIN Parent
      BY <1>0, <2>1, Listed
    <3>. QED
      BY <2>1, <3>1, Nodes DEF Leaves
  <2>. QED
    BY <1>0, <1>4, <2>1, <2>2, SetTopType
<1>10. CASE NothingLeft
  <2>. DEFINE c == Top.of
              e == Event("finalize", c)
  <2>1. OwnTurn(c) /\ todo[c] = {} /\ Top.at # 0
    BY <1>10 DEF NothingLeft
  <2>2. running[c] = <<>>
    BY <1>3, <2>1, LenProperties, EmptySeq DEF OwnTurn
  <2>3. events' = Append(events, e) /\ UNCHANGED comp
    BY <1>10, <2>1, <2>2, StepFrames DEF NothingLeft, Exhausted
  <2>4. e \in Events /\ e.kind = "finalize" /\ e.of = c
    BY <1>1, EventTypes DEF Event
  <2>. HIDE DEF e
  <2>5. e \in Range(events')
    BY <1>0, <2>3, <2>4, QueueGrows
  <2>6. comp'[c] \notin Statuses
    BY <1>2, <2>3, Words
  <2>. QED
    BY <2>4, <2>5, <2>6 DEF WakeUp, Promises
<1>11. ~CancelReply /\ ~AbortFinished
  BY <1>1 DEF CancelReply, AbortFinished
<1>. QED
  BY <1>1, <1>5, <1>6, <1>7, <1>8, <1>9, <1>10, <1>11, StepFrames
     DEF Next, Handler, Receive

\* No step loses the wake-up of the propagation.
LEMMA WakeUpNext ==
    ASSUME Books, PassOK, PassOpen, EndsPosted, EndsPassedOn, FirstStarted, ActiveAtWork,
           WakeUp, Next
    PROVE  WakeUp'
<1>0. /\ FirstInv /\ TypeOK /\ events \in Seq(Events)
  BY DEF Books, FirstInv, TypeOK
<1>1. CASE Relieved
  BY <1>0, <1>1, RelievedStays DEF WakeUp
<1>2. CASE signal # NoSignal
  <2>1. ASSUME NEW queue \in Seq(Events), Quiet(scheduleNextJob(queue)), Receive(signal.as)
        PROVE  WakeUp'
    <3>1. signal.after \in SUBSET {"abort", "schedule"}
      BY <1>0, <2>1, Received
    <3>2. /\ scheduleNextJob(queue) \in Seq(Events)
          /\ \E e \in Range(scheduleNextJob(queue)) : e.kind = "schedule"
      BY <2>1, <3>1, QueueTypes, QueueGrows
    <3>3. events' = Unwind(scheduleNextJob(queue), signal.after)
      BY <2>1 DEF Quiet
    <3>4. \E e \in Range(events') : e.kind = "schedule"
      BY <3>1, <3>2, <3>3, QueueGrows
    <3>. QED
      BY <3>4 DEF WakeUp, Promises
  <2>2. ASSUME NEW n, NEW as, NEW status, NEW after, Emit(n, as, status, after)
        PROVE  WakeUp'
    BY <2>2 DEF Emit, NoSignal, WakeUp
  <2>3. CASE SlotSubJobFinished
    <3>. DEFINE n == signal.from
                queue == IF Contains(active, n) THEN Append(events, Event("delete", n)) ELSE events
    <3>1. n \in DOMAIN Parent /\ Receive(signal.as)
      BY <1>0, <2>3, Received DEF SlotSubJobFinished, Receive
    <3>2. queue \in Seq(Events)
      BY <1>0, <3>1, EventTypes, AppendType
    <3>3. \/ Quiet(scheduleNextJob(queue))
          \/ \E status : Emit(Parent[n], "comp", status, signal.after)
      BY <2>3 DEF SlotSubJobFinished
    <3>. HIDE DEF queue
    <3>. QED
      BY <2>1, <2>2, <3>1, <3>2, <3>3
  <2>4. CASE SlotFirstJobFinished
    <3>1. \/ Quiet(scheduleNextJob(events)) /\ Receive(signal.as)
          \/ Emit(signal.from, "sub", signal.status, signal.after)
      BY <2>4 DEF SlotFirstJobFinished, Receive
    <3>. QED
      BY <1>0, <2>1, <2>2, <3>1
  <2>5. CASE SlotSubJobsFinished
    <3>1. \E status, after : Emit(signal.from, "sub", status, after)
      BY <2>5 DEF SlotSubJobsFinished, FinishDirectory
    <3>. QED
      BY <2>2, <3>1
  <2>6. CASE SlotRootSubJobsFinished
    BY <1>0, <2>1, <2>6 DEF SlotRootSubJobsFinished, Receive
  <2>7. CASE SlotDirDeletionJobsFinished
    BY <1>0, <2>7, ResultSteps DEF WakeUp, Relieved
  <2>. QED
    BY <1>2, <2>3, <2>4, <2>5, <2>6, <2>7, SlotsFirst
<1>3. CASE signal = NoSignal /\ Working
  <2>1. PICK n \in Leaves : leaf[n] \in Stages
    BY <1>3 DEF Working
  <2>2. leaf'[n] \in Stages \/ signal' # NoSignal
    BY <2>1, LeafSteps
  <2>. QED
    BY <2>2 DEF WakeUp, Working
<1>4. CASE signal = NoSignal /\ ~Working /\ ~Relieved /\ \E e \in Range(events) : Promises(e)
  <2>1. PICK e \in Range(events) : Promises(e)
    BY <1>4
  <2>2. e.kind = "finalize" => e.of \in Composites
    <3>1. e \in Events
      BY <1>0, ElementOfSeq, LenProperties DEF Range
    <3>. QED
      BY <3>1 DEF Events
  <2>3. CASE e \in Range(events')
    <3>1. CASE e.kind = "schedule"
      BY <2>3, <3>1 DEF WakeUp, Promises
    <3>2. CASE e.kind = "finalize" /\ comp[e.of] \notin Statuses
      <4>1. comp'[e.of] \in Statuses => signal' # NoSignal
        BY <2>2, <3>2, CompSteps, Words
      <4>. QED
        BY <2>3, <3>2, <4>1 DEF WakeUp, Promises
    <3>. QED
      BY <2>1, <3>1, <3>2 DEF Promises
  <2>4. CASE DeliverFinished
    BY <2>4 DEF DeliverFinished, WakeUp, Relieved
  <2>5. CASE ScheduleNextJobImpl
    BY <1>4, <2>5, PassBegins DEF WakeUp
  <2>7. CASE e = Head(events) /\ Finalize
    <3>1. comp[Head(events).of] \notin Statuses
      BY <2>1, <2>7 DEF Finalize, Promises
    <3>2. \E status : Emit(Head(events).of, "comp", status, {})
      BY <2>7, <3>1 DEF Finalize
    <3>. QED
      BY <3>2 DEF Emit, NoSignal, WakeUp
  <2>8. CASE e = Head(events) /\ (DeleteJob \/ AbortEvent)
    BY <2>1, <2>8 DEF DeleteJob, AbortEvent, Promises
  <2>. QED
    BY <1>0, <2>3, <2>4, <2>5, <2>7, <2>8, EventsKept
<1>5. CASE signal = NoSignal /\ ~Working /\ pass # <<>> /\ Top.at = 1
  BY <1>5, PassGoesOn
<1>. QED
  BY <1>1, <1>2, <1>3, <1>4, <1>5 DEF WakeUp

\* No wake-up of the propagation is lost where no file can be locked, as on every
\* build but the one for Windows: with nothing posted a job is at work or a timeout
\* is armed, however jobs fail, composites end and aborts spare (scheduleNextJob).
THEOREM NeverHangs ==
    ASSUME ~LocksFiles
    PROVE  Spec => []NeverStuck
<1>. DEFINE Awake == /\ Books /\ PassOK /\ ActiveOK
                     /\ PassOpen /\ EndsPosted /\ EndsPassedOn /\ FirstStarted
                     /\ ActiveAtWork /\ WakeUp
<1>1. Init => Awake
  <2>. SUFFICES ASSUME Init PROVE Awake
    OBVIOUS
  <2>1. Books /\ ActiveOK
    BY FirstInit, BooksInit, ActiveInit DEF Books
  <2>2. /\ pass = <<>> /\ active = <<>> /\ signal = NoSignal /\ result = "none"
        /\ dir = [d \in Dirs |-> NotYetStarted] /\ leaf = [n \in Leaves |-> NotYetStarted]
        /\ comp = [c \in Composites |-> NotYetStarted]
        /\ events = <<Event("schedule", Root)>>
    BY DEF Init
  <2>3. Range(pass) = {} /\ Range(active) = {} /\ DOMAIN pass = {}
    BY <2>2 DEF Range
  <2>4. PassOK /\ PassOpen /\ ActiveAtWork
    BY <2>2, <2>3 DEF PassOK, PassOpen, ActiveAtWork
  <2>5. EndsPosted
    BY <2>2, TreeAssumption, Words DEF EndsPosted, Statuses, Errors
  <2>6. EndsPassedOn
    BY <2>2, Words DEF EndsPassedOn
  <2>7. FirstStarted
    BY <2>2, Nodes, Words DEF FirstStarted
  <2>8. WakeUp
    <3>1. Event("schedule", Root) \in Range(events)
      BY <2>2 DEF Range
    <3>. QED
      BY <3>1 DEF WakeUp, Promises, Event
  <2>. QED
    BY <2>1, <2>4, <2>5, <2>6, <2>7, <2>8
<1>2. Awake /\ [Next]_vars => Awake'
  <2>. SUFFICES ASSUME Awake, [Next]_vars PROVE Awake'
    OBVIOUS
  <2>1. CASE Next
    <3>1. Books' /\ PassOK' /\ ActiveOK'
      BY <2>1, BooksNext, PassNext, ActiveNext
    <3>2. PassOpen' /\ EndsPosted' /\ EndsPassedOn' /\ FirstStarted' /\ ActiveAtWork'
      BY <2>1, PassOpenNext, EndsPostedNext, EndsPassedOnNext, FirstStartedNext,
         ActiveAtWorkNext
    <3>3. WakeUp'
      BY <2>1, WakeUpNext
    <3>. QED
      BY <3>1, <3>2, <3>3
  <2>2. CASE UNCHANGED vars
    <3>1. Books' /\ ActiveOK'
      BY <2>2, BooksNext, ActiveStill
    <3>2. PassOK' /\ PassOpen'
      BY <2>2 DEF vars, tree, PassOK, PassOpen, Waiting
    <3>3. EndsPosted' /\ EndsPassedOn' /\ FirstStarted' /\ ActiveAtWork'
      BY <2>2 DEF vars, tree, EndsPosted, EndsPassedOn, FirstStarted, ActiveAtWork
    <3>4. WakeUp'
      BY <2>2 DEF vars, tree, WakeUp, Relieved, Working, Promises, Top
    <3>. QED
      BY <3>1, <3>2, <3>3, <3>4
  <2>. QED
    BY <2>1, <2>2
<1>3. Awake => NeverStuck
  <2>. SUFFICES ASSUME Awake, AtEventLoop, events = <<>>
                PROVE  timer \/ Working
    BY DEF NeverStuck, Working
  <2>1. Range(events) = {}
    BY DEF Range
  <2>2. result = "none"
    <3>1. result \in {"none", "over"} \cup Statuses
      BY DEF Books, FirstInv, TypeOK
    <3>. QED
      BY <2>1, <3>1 DEF AtEventLoop, EndsPosted
  <2>. QED
    BY <2>1, <2>2 DEF AtEventLoop, WakeUp, Relieved
<1>. HIDE DEF Awake
<1>. QED
  BY <1>1, <1>2, <1>3, PTL DEF Spec
=============================================================================
