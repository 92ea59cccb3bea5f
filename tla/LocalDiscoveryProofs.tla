------------------------ MODULE LocalDiscoveryProofs ------------------------
(***************************************************************************)
(* The local discovery, for any set of files.  A change is not forgotten   *)
(* in the scenario without any of the circumstances under which TLC finds  *)
(* one lost: no run is started from the end of the last one, no file is    *)
(* too young to be uploaded, no changes are lost during a run.  In every   *)
(* scenario the engine looks where the tracker says, what is synced is     *)
(* left alone, and runs started from the end of others come to an end.     *)
(***************************************************************************)
EXTENDS LocalDiscovery, SequenceTheorems, TLAPS

\* None of the three circumstances.
Calm == scenario = {}

\* The folder knows, or will know, that its watcher is not to be relied on.
Blind == ~reliable \/ lost

\* The change of p is news for the next run.
Fresh(p) == p \in notices \cup changeSet \cup paths

InRun == phase \in {"discovery", "propagation"}

\* The run has the change of p still before it, with the content it has now.
Ahead(p) ==
    \/ /\ phase = "discovery" /\ p \in todo
       /\ rootQuery = "NormalQuery" /\ DiscoverDir(p)
    \/ p \in items \ outdated

\* What tells of the change of p, in each phase.
Waiting     == phase = "idle" /\ ~fullDone
Returned(p) == phase = "idle" /\ tails # <<>> /\ ~tails[1].success /\ p \in previous
Starting(p) ==
    phase = "starting" /\ (~fullDone \/ (p \in previous /\ p \in enginePaths))
PartialRun(p) ==
    /\ InRun /\ lastStyle = "DatabaseAndFilesystem"
    /\ ~fullDone \/ (Ahead(p) /\ p \in previous)
FullRun(p) == InRun /\ lastStyle = "FilesystemOnly" /\ Ahead(p)

Covered(p) ==
    \/ Blind \/ Fresh(p)
    \/ Waiting \/ Returned(p) \/ Starting(p) \/ PartialRun(p) \/ FullRun(p)

\* The values the proof needs the types of.
Typed ==
    /\ changed \subseteq Paths /\ enginePaths \subseteq Paths
    /\ notices \subseteq Paths /\ changeSet \subseteq Paths
    /\ paths \subseteq Paths /\ previous \subseteq Paths
    /\ infos \subseteq Paths /\ failed \in BOOLEAN
    /\ phase \in Phases /\ style \in Styles /\ lastStyle \in Styles

\* At most one finalize is on the stack, and then no run is.
Shallow ==
    /\ tails = <<>> \/ \E s \in BOOLEAN : tails = <<[success |-> s, emitting |-> TRUE]>>
    /\ tails # <<>> => phase = "idle"

\* Outside of a run there are no items, and an item is discovered once.
Quiet ==
    /\ ~InRun => todo = {} /\ items = {}
    /\ outdated \subseteq items
    /\ todo \cap items = {}
    /\ phase = "propagation" => todo = {}

\* A run that reads everything was due to, and is until it has ended well.
FullIsDue ==
    /\ InRun => style = lastStyle
    /\ phase # "idle" /\ style = "FilesystemOnly" => Blind \/ ~fullDone

IInv == Typed /\ Shallow /\ Quiet /\ FullIsDue /\ \A p \in changed : Covered(p)

\* The inductive invariant of all behaviours.
CalmIInv == Calm => IInv

---------------------------------------------------------------------------
\* At first nothing was read yet: the first run of Folder::startSync is full.
LEMMA InitCovered == Init => IInv
  BY DEF Init, IInv, Typed, Shallow, Quiet, FullIsDue, Covered, Waiting, InRun,
         Phases, Styles

\* The stack when the first SyncEngine::finalize enters it.
LEMMA FirstFrame == \A f : Append(<<>>, f) = <<f>>
  OBVIOUS

\* A stack of one finalize call tells with which success it was called.
LEMMA OneFrame ==
  ASSUME NEW s \in BOOLEAN, NEW t, t = <<[success |-> s, emitting |-> TRUE]>>
  PROVE  t # <<>> /\ (t[1].success <=> s)
  OBVIOUS

\* The stack when the only SyncEngine::finalize on it returns.
LEMMA LastFrame == \A f : Len(<<f>>) = 1 /\ SubSeq(<<f>>, 1, Len(<<f>>) - 1) = <<>>
  OBVIOUS

\* Every action keeps every change covered.
LEMMA StepCovered ==
  ASSUME Calm, IInv, [Next]_vars
  PROVE  IInv'
  <1> USE DEF Calm, IInv, Typed, Shallow, Quiet, FullIsDue, Covered, Blind,
          Fresh, InRun, Ahead, DiscoverDir, Waiting, Returned, Starting,
          PartialRun, FullRun, EventLoop, Phases, Styles, watcherVars,
          trackerVars, engineVars
  <1>1. ASSUME NEW q \in Paths, Change(q) PROVE IInv'
    BY <1>1 DEF Change
  <1>2. ASSUME NEW q \in Paths, LoseChange(q) PROVE IInv'
    BY <1>2 DEF LoseChange
  <1>3. ASSUME NEW q \in Paths, Discover(q) PROVE IInv'
    BY <1>3 DEF Discover
  <1>4. ASSUME NEW q \in Paths, ItemSucceeds(q) PROVE IInv'
    BY <1>4 DEF ItemSucceeds, Completing, Wiped
  <1>5. ASSUME NEW q \in Paths, ItemPostponed(q) PROVE IInv'
    BY <1>5 DEF ItemPostponed, Completing, Wiped
  <1>6. ASSUME NEW q \in Paths, ItemFails(q) PROVE IInv'
    BY <1>6 DEF ItemFails, Completing, Retried
  <1>7. CASE BecomeUnreliable
    BY <1>7 DEF BecomeUnreliable
  <1>8. CASE AddChanges
    BY <1>8 DEF AddChanges
  <1>9. CASE WatchedPathsChanged
    BY <1>9 DEF WatchedPathsChanged, NeedSync
  <1>10. CASE NextSyncFullLocalDiscovery
    BY <1>10 DEF NextSyncFullLocalDiscovery
  <1>11. CASE FullDiscoveryExpires
    BY <1>11 DEF FullDiscoveryExpires
  <1>12. CASE Enqueue
    BY <1>12 DEF Enqueue
  <1>13. CASE StartFromQueue
    BY <1>13 DEF StartFromQueue, StartSync, NeedSync, MayReadDatabase, Looked
  <1>14. CASE StartFromFinished
    BY <1>14 DEF StartFromFinished, StartSync
  <1>15. CASE EngineStart
    BY <1>15 DEF EngineStart, DiscoverRoot
  <1>16. CASE EngineStartFails
    <2>1. tails' = <<[success |-> FALSE, emitting |-> TRUE]>>
      BY <1>16, FirstFrame DEF EngineStartFails, Finalize
    <2>a. tails' # <<>> /\ (tails'[1].success <=> FALSE)
      BY <1>16, <2>1, OneFrame DEF EngineStartFails, Finalize
    <2>b. phase' = "idle"
      BY <1>16 DEF EngineStartFails, Finalize
    <2>2. Shallow'
      BY <2>1, <2>b, Zenon DEF Shallow
    <2>3. Typed' /\ Quiet' /\ FullIsDue'
      BY <1>16 DEF EngineStartFails, Finalize
    <2>4. \A p \in changed' : Covered(p)'
      BY <1>16, <2>a, <2>b DEF EngineStartFails, Finalize
    <2> QED  BY <2>2, <2>3, <2>4
  <1>17. CASE DiscoveryFinished
    BY <1>17 DEF DiscoveryFinished
  <1>18. CASE PropagationFinished
    <2>1. tails' = <<[success |-> ~failed, emitting |-> TRUE]>>
      BY <1>18, FirstFrame DEF PropagationFinished, Finalize
    <2>a. tails' # <<>> /\ (tails'[1].success <=> ~failed)
      BY <1>18, <2>1, OneFrame DEF PropagationFinished, Finalize
    <2>b. phase' = "idle"
      BY <1>18 DEF PropagationFinished, Finalize
    <2>2. Shallow'
      BY <2>1, <2>b, Zenon DEF Shallow
    <2>3. Typed' /\ Quiet' /\ FullIsDue'
      BY <1>18 DEF PropagationFinished, Finalize
    <2>4. \A p \in changed' : Covered(p)'
      BY <1>18, <2>a, <2>b DEF PropagationFinished, Finalize
    <2> QED  BY <2>2, <2>3, <2>4
  <1>19. CASE Abort
    <2>1. tails' = <<[success |-> FALSE, emitting |-> TRUE]>>
      BY <1>19, FirstFrame DEF Abort, Finalize
    <2>a. tails' # <<>> /\ (tails'[1].success <=> FALSE)
      BY <1>19, <2>1, OneFrame DEF Abort, Finalize
    <2>b. phase' = "idle"
      BY <1>19 DEF Abort, Finalize
    <2>2. Shallow'
      BY <2>1, <2>b, Zenon DEF Shallow
    <2>3. Typed' /\ Quiet' /\ FullIsDue'
      BY <1>19 DEF Abort, Finalize
    <2>4. \A p \in changed' : Covered(p)'
      BY <1>19, <2>a, <2>b DEF Abort, Finalize
    <2> QED  BY <2>2, <2>3, <2>4
  <1>20. CASE TellTracker
    <2>1. Len(tails) = 1 /\ tails' = <<>>
      BY <1>20, LastFrame DEF TellTracker, EngineForgets
    <2>2. /\ phase = "idle" /\ phase' = "idle" /\ fullDone' = fullDone
          /\ changed' = changed /\ notices' = notices /\ changeSet' = changeSet
          /\ reliable' = reliable /\ lost' = lost /\ tails # <<>>
      BY <1>20 DEF TellTracker, EngineForgets
    <2>3. paths' = IF tails[1].success THEN paths ELSE paths \cup previous
      BY <1>20, <2>1 DEF TellTracker, EngineForgets, Merged
    <2>4. \A p \in changed' : Covered(p)'
      BY <2>2, <2>3
    <2>5. Shallow'
      BY <2>1 DEF Shallow
    <2>6. Typed' /\ Quiet' /\ FullIsDue'
      BY <1>20, <2>2, <2>3 DEF TellTracker, EngineForgets
    <2> QED  BY <2>4, <2>5, <2>6
  <1>21. CASE UNCHANGED vars
    BY <1>21 DEF vars
  <1> QED
    BY <1>1, <1>2, <1>3, <1>4, <1>5, <1>6, <1>7, <1>8, <1>9, <1>10, <1>11,
       <1>12, <1>13, <1>14, <1>15, <1>16, <1>17, <1>18, <1>19, <1>20, <1>21
       DEF Next, FileSystem, Watching, SyncRun

\* What covers a change is known to somebody.
LEMMA CoveredIsRemembered == IInv => NothingForgotten
  BY DEF IInv, Typed, Shallow, Quiet, FullIsDue, Covered, Blind, Fresh, InRun,
         Ahead, DiscoverDir, Waiting, Returned, Starting, PartialRun, FullRun,
         Phases, Styles, NothingForgotten, Remembered, NextIsFull,
         MayReadDatabase

(***************************************************************************)
(* For any set of files: unless runs are started from the end of another   *)
(* one, files are too young to be uploaded or changes are lost during a    *)
(* run, no change of a local file is forgotten before it is synced.        *)
(***************************************************************************)
THEOREM ChangesAreRemembered == Spec => []NoChangeForgotten
  <1>1. Init => CalmIInv
    BY InitCovered DEF CalmIInv
  <1>2. CalmIInv /\ [Next]_vars => CalmIInv'
    <2>1. [Next]_vars => scenario' = scenario
      BY DEF Next, vars
    <2>2. Calm' /\ [Next]_vars => Calm
      BY <2>1 DEF Calm
    <2> QED  BY <2>2, StepCovered DEF CalmIInv
  <1>3. CalmIInv => NoChangeForgotten
    BY CoveredIsRemembered DEF CalmIInv, Calm, NoChangeForgotten
  <1> QED
    BY <1>1, <1>2, <1>3, PTL DEF Spec
---------------------------------------------------------------------------
(***************************************************************************)
(* In every scenario.                                                      *)
(***************************************************************************)

\* The stack of finalize calls, as TellTracker and StartFromFinished change it.
LEMMA Stack ==
  ASSUME NEW t \in Seq(Frame)
  PROVE  /\ Len(t) \in Nat
         /\ \A f \in Frame : /\ Append(t, f) \in Seq(Frame)
                            /\ Len(Append(t, f)) = Len(t) + 1
                            /\ Append(t, f)[Len(t) + 1] = f
                            /\ \A i \in 1 .. Len(t) : Append(t, f)[i] = t[i]
         /\ t # <<>> =>
              /\ Len(t) >= 1 /\ t[Len(t)] \in Frame
              /\ SubSeq(t, 1, Len(t) - 1) \in Seq(Frame)
              /\ Len(SubSeq(t, 1, Len(t) - 1)) = Len(t) - 1
              /\ \A i \in 1 .. Len(t) - 1 : SubSeq(t, 1, Len(t) - 1)[i] = t[i]
              /\ LET u == [t EXCEPT ![Len(t)].emitting = FALSE]
                 IN  /\ u \in Seq(Frame) /\ Len(u) = Len(t)
                     /\ \A i \in 1 .. Len(t) :
                          u[i].emitting = (IF i = Len(t) THEN FALSE ELSE t[i].emitting)
  <1>1. Len(t) \in Nat
    OBVIOUS
  <1>2. ASSUME NEW f \in Frame
        PROVE  /\ Append(t, f) \in Seq(Frame) /\ Len(Append(t, f)) = Len(t) + 1
               /\ Append(t, f)[Len(t) + 1] = f
               /\ \A i \in 1 .. Len(t) : Append(t, f)[i] = t[i]
    BY <1>2, AppendProperties
  <1>3. ASSUME t # <<>>
        PROVE  /\ Len(t) >= 1 /\ t[Len(t)] \in Frame
               /\ SubSeq(t, 1, Len(t) - 1) \in Seq(Frame)
               /\ Len(SubSeq(t, 1, Len(t) - 1)) = Len(t) - 1
               /\ \A i \in 1 .. Len(t) - 1 : SubSeq(t, 1, Len(t) - 1)[i] = t[i]
               /\ LET u == [t EXCEPT ![Len(t)].emitting = FALSE]
                  IN  /\ u \in Seq(Frame) /\ Len(u) = Len(t)
                      /\ \A i \in 1 .. Len(t) :
                           u[i].emitting = (IF i = Len(t) THEN FALSE ELSE t[i].emitting)
    <2>1. Len(t) >= 1 /\ t[Len(t)] \in Frame
      BY <1>1, <1>3, EmptySeq
    <2>2. /\ SubSeq(t, 1, Len(t) - 1) \in Seq(Frame)
          /\ Len(SubSeq(t, 1, Len(t) - 1)) = Len(t) - 1
          /\ \A i \in 1 .. Len(t) - 1 : SubSeq(t, 1, Len(t) - 1)[i] = t[i]
      <3>1. \A i \in 1 .. Len(t) - 1 : t[i] \in Frame
        BY <1>1
      <3>2. 1 \in Int /\ Len(t) - 1 \in Int
        BY <1>1
      <3>3. /\ SubSeq(t, 1, Len(t) - 1) \in Seq(Frame)
            /\ Len(SubSeq(t, 1, Len(t) - 1)) =
                 IF 1 <= Len(t) - 1 THEN (Len(t) - 1) - 1 + 1 ELSE 0
            /\ \A i \in 1 .. (Len(t) - 1) - 1 + 1 :
                 SubSeq(t, 1, Len(t) - 1)[i] = t[1 + i - 1]
        BY <3>1, <3>2, SubSeqProperties
      <3> DEFINE n == Len(t)  q == SubSeq(t, 1, n - 1)
      <3>4. n \in Nat /\ n >= 1 /\ q \in Seq(Frame)
            /\ Len(q) = (IF 1 <= n - 1 THEN (n - 1) - 1 + 1 ELSE 0)
            /\ \A i \in 1 .. (n - 1) - 1 + 1 : q[i] = t[1 + i - 1]
        BY <1>1, <2>1, <3>3
      <3> SUFFICES q \in Seq(Frame) /\ Len(q) = n - 1 /\ \A i \in 1 .. n - 1 : q[i] = t[i]
        OBVIOUS
      <3> HIDE DEF n, q
      <3>5. Len(q) = n - 1
        BY <3>4
      <3>6. ASSUME NEW i \in 1 .. n - 1  PROVE q[i] = t[i]
        <4>1. i \in 1 .. (n - 1) - 1 + 1 /\ 1 + i - 1 = i
          BY <3>4
        <4> QED  BY <3>4, <4>1
      <3> QED  BY <3>4, <3>5, <3>6
    <2> DEFINE last == [t[Len(t)] EXCEPT !.emitting = FALSE]
               u == [t EXCEPT ![Len(t)] = last]
    <2>3. last \in Frame /\ last.emitting = FALSE
      BY <2>1 DEF Frame
    <2> HIDE DEF last
    <2>4. /\ u \in Seq(Frame) /\ Len(u) = Len(t)
          /\ \A i \in 1 .. Len(t) : u[i] = (IF i = Len(t) THEN last ELSE t[i])
      BY <1>1, <2>1, <2>3, ExceptSeq
    <2>5. u = [t EXCEPT ![Len(t)].emitting = FALSE]
      BY DEF last
    <2> HIDE DEF u
    <2> QED  BY <2>1, <2>2, <2>3, <2>4, <2>5
  <1> QED  BY <1>1, <1>2, <1>3

\* Every value but that of the stack.
Values ==
    /\ scenario \in Scenarios
    /\ changed \subseteq Paths /\ notices \subseteq Paths
    /\ changeSet \subseteq Paths /\ paths \subseteq Paths
    /\ previous \subseteq Paths /\ enginePaths \subseteq Paths
    /\ todo \subseteq Paths /\ items \subseteq Paths
    /\ outdated \subseteq items /\ infos \subseteq Paths
    /\ settled \subseteq Paths
    /\ lost \in BOOLEAN /\ reliable \in BOOLEAN /\ fullDone \in BOOLEAN
    /\ queued \in BOOLEAN /\ failed \in BOOLEAN /\ wanted \in BOOLEAN
    /\ phase \in Phases /\ style \in Styles /\ lastStyle \in Styles
    /\ rootQuery \in Queries

LEMMA TypeIsValues == TypeOK <=> Values /\ CleanBetweenRuns /\ tails \in Seq(Frame)
  BY DEF TypeOK, Values

\* The end of a run puts its finalize on the stack.
LEMMA EndPushes ==
  ASSUME TypeOK, EngineStartFails \/ PropagationFinished \/ Abort
  PROVE  \E f \in Frame : f.emitting /\ tails' = Append(tails, f)
  <1>1. ASSUME NEW s \in BOOLEAN, NEW e, Finalize(s, e)
        PROVE  \E f \in Frame : f.emitting /\ tails' = Append(tails, f)
    <2>1. tails' = Append(tails, [success |-> s, emitting |-> TRUE])
      BY <1>1 DEF Finalize
    <2> QED  BY <2>1 DEF Frame
  <1>2. failed \in BOOLEAN
    BY DEF TypeOK
  <1> QED  BY <1>1, <1>2 DEF EngineStartFails, PropagationFinished, Abort

\* How a step changes the stack: a run ends, a nested one starts, or the
\* tracker is told.
LEMMA TailsStep ==
  ASSUME TypeOK, [Next]_vars
  PROVE  \/ UNCHANGED tails
         \/ \E f \in Frame : f.emitting /\ tails' = Append(tails, f)
         \/ StartFromFinished /\ tails' = [tails EXCEPT ![Len(tails)].emitting = FALSE]
         \/ TellTracker /\ tails' = SubSeq(tails, 1, Len(tails) - 1)
  <1>2. EngineStartFails \/ PropagationFinished \/ Abort
          => \E f \in Frame : f.emitting /\ tails' = Append(tails, f)
    BY EndPushes
  <1>3. ASSUME FileSystem \/ Watching \/ FullDiscoveryExpires \/ Enqueue
        PROVE  UNCHANGED tails
    BY <1>3 DEF FileSystem, Watching, FullDiscoveryExpires, Enqueue, Change, LoseChange,
                BecomeUnreliable, AddChanges, WatchedPathsChanged, NextSyncFullLocalDiscovery
  <1>4. ASSUME \/ StartFromQueue \/ EngineStart \/ DiscoveryFinished
               \/ \E p \in Paths : Discover(p) \/ ItemSucceeds(p) \/ ItemPostponed(p) \/ ItemFails(p)
        PROVE  UNCHANGED tails
    BY <1>4 DEF StartFromQueue, EngineStart, DiscoveryFinished, Discover, ItemSucceeds,
                ItemPostponed, ItemFails, Completing
  <1>5. StartFromFinished => tails' = [tails EXCEPT ![Len(tails)].emitting = FALSE]
    BY DEF StartFromFinished
  <1>6. TellTracker => tails' = SubSeq(tails, 1, Len(tails) - 1)
    BY DEF TellTracker, EngineForgets
  <1>7. UNCHANGED vars => UNCHANGED tails
    BY DEF vars
  <1> QED  BY <1>2, <1>3, <1>4, <1>5, <1>6, <1>7 DEF Next, SyncRun

LEMMA TailsTyped ==
  ASSUME TypeOK, [Next]_vars
  PROVE  tails' \in Seq(Frame)
  <1>1. tails \in Seq(Frame)
    BY DEF TypeOK
  <1>2. ASSUME StartFromFinished \/ TellTracker
        PROVE  tails # <<>>
    BY <1>2 DEF StartFromFinished, TellTracker
  <1>3. CASE \E f \in Frame : f.emitting /\ tails' = Append(tails, f)
    BY <1>1, <1>3, Stack
  <1>4. CASE StartFromFinished /\ tails' = [tails EXCEPT ![Len(tails)].emitting = FALSE]
    BY <1>1, <1>2, <1>4, Stack
  <1>5. CASE TellTracker /\ tails' = SubSeq(tails, 1, Len(tails) - 1)
    BY <1>1, <1>2, <1>5, Stack
  <1> QED  BY <1>1, <1>3, <1>4, <1>5, TailsStep

LEMMA ValuesStep ==
  ASSUME Values, Next
  PROVE  Values'
  <1> USE DEF Values, watcherVars, trackerVars, engineVars
  <1>0. UNCHANGED scenario
    BY DEF Next
  <1>6. CASE BecomeUnreliable
    BY <1>0, <1>6 DEF BecomeUnreliable
  <1>14. CASE FullDiscoveryExpires
    BY <1>0, <1>14 DEF FullDiscoveryExpires
  <1>19. CASE Enqueue
    BY <1>0, <1>19 DEF Enqueue
  <1> USE DEF Phases, Styles, Queries
  <1>1. ASSUME NEW q \in Paths, Change(q) PROVE Values'
    BY <1>0, <1>1 DEF Change
  <1>11. ASSUME NEW q \in Paths, LoseChange(q) PROVE Values'
    BY <1>0, <1>11 DEF LoseChange
  <1>2. ASSUME NEW q \in Paths, Discover(q) PROVE Values'
    BY <1>0, <1>2 DEF Discover
  <1>3. ASSUME NEW q \in Paths, ItemSucceeds(q) PROVE Values'
    BY <1>0, <1>3 DEF ItemSucceeds, Completing, Wiped
  <1>4. ASSUME NEW q \in Paths, ItemPostponed(q) PROVE Values'
    BY <1>0, <1>4 DEF ItemPostponed, Completing, Wiped
  <1>5. ASSUME NEW q \in Paths, ItemFails(q) PROVE Values'
    BY <1>0, <1>5 DEF ItemFails, Completing, Retried
  <1>12. CASE AddChanges
    BY <1>0, <1>12 DEF AddChanges
  <1>15. CASE NextSyncFullLocalDiscovery
    BY <1>0, <1>15 DEF NextSyncFullLocalDiscovery
  <1>13. CASE WatchedPathsChanged
    BY <1>0, <1>13 DEF WatchedPathsChanged, NeedSync
  <1>7. CASE StartFromQueue \/ StartFromFinished
    <2>1. StartSync
      BY <1>7 DEF StartFromQueue, StartFromFinished
    <2> QED  BY <1>0, <2>1 DEF StartSync, NeedSync, Looked
  <1>8. CASE EngineStart
    BY <1>0, <1>8 DEF EngineStart, DiscoverRoot
  <1>16. CASE DiscoveryFinished
    BY <1>0, <1>16 DEF DiscoveryFinished
  <1>9. CASE EngineStartFails
    BY <1>0, <1>9 DEF EngineStartFails, Finalize
  <1>17. CASE PropagationFinished
    BY <1>0, <1>17 DEF PropagationFinished, Finalize
  <1>18. CASE Abort
    BY <1>0, <1>18 DEF Abort, Finalize
  <1>10. CASE TellTracker
    BY <1>0, <1>10 DEF TellTracker, EngineForgets, Merged
  <1> HIDE DEF Values, watcherVars, trackerVars, engineVars, Phases, Styles, Queries
  <1> QED
    BY <1>1, <1>2, <1>3, <1>4, <1>5, <1>6, <1>7, <1>8, <1>9, <1>10, <1>11, <1>12, <1>13,
       <1>14, <1>15, <1>16, <1>17, <1>18, <1>19 DEF Next, FileSystem, Watching, SyncRun

\* The last end of a run on the stack leaves nothing behind, and only a start
\* puts something into the lists.
LEMMA CleanStep ==
  ASSUME TypeOK, [Next]_vars
  PROVE  CleanBetweenRuns'
  <1> USE DEF CleanBetweenRuns, watcherVars, trackerVars, engineVars
  <1>1. tails \in Seq(Frame) /\ CleanBetweenRuns
    BY DEF TypeOK
  <1>2. CASE FileSystem \/ Watching \/ FullDiscoveryExpires \/ Enqueue
    BY <1>1, <1>2 DEF FileSystem, Watching, FullDiscoveryExpires, Enqueue, Change, LoseChange,
       BecomeUnreliable, AddChanges, WatchedPathsChanged, NextSyncFullLocalDiscovery
  <1>3. CASE StartFromQueue \/ StartFromFinished \/ EngineStart
    BY <1>3 DEF StartFromQueue, StartFromFinished, StartSync, EngineStart
  <1>4. CASE \/ DiscoveryFinished
             \/ \E p \in Paths : Discover(p) \/ ItemSucceeds(p) \/ ItemPostponed(p) \/ ItemFails(p)
    BY <1>4 DEF DiscoveryFinished, Discover, ItemSucceeds, ItemPostponed, ItemFails, Completing
  <1>5. CASE EngineStartFails \/ PropagationFinished \/ Abort
    <2>1. PICK f \in Frame : tails' = Append(tails, f)
      BY <1>5, EndPushes
    <2>2. tails' # <<>>
      BY <1>1, <2>1, Stack
    <2> QED  BY <2>2
  <1>6. CASE TellTracker
    BY <1>6 DEF TellTracker, EngineForgets
  <1>7. CASE UNCHANGED vars
    BY <1>1, <1>7 DEF vars
  <1> QED  BY <1>2, <1>3, <1>4, <1>5, <1>6, <1>7 DEF Next, SyncRun

LEMMA TypeInit == Init => TypeOK
  <1> SUFFICES ASSUME Init  PROVE TypeOK
    OBVIOUS
  <1>1. Values
    BY DEF Init, Values, Phases, Styles, Queries
  <1>2. tails \in Seq(Frame) /\ CleanBetweenRuns
    BY DEF Init, CleanBetweenRuns
  <1> QED  BY <1>1, <1>2, TypeIsValues

LEMMA TypeStep == TypeOK /\ [Next]_vars => TypeOK'
  <1> SUFFICES ASSUME TypeOK, [Next]_vars  PROVE TypeOK'
    OBVIOUS
  <1>1. Values' /\ tails' \in Seq(Frame)
    BY TypeIsValues, TailsTyped, ValuesStep DEF vars, Values, watcherVars, trackerVars, engineVars
  <1>2. CleanBetweenRuns'
    BY CleanStep
  <1> QED  BY <1>1, <1>2 DEF TypeOK, Values

\* The values of the variables, in every scenario, and that engine and tracker
\* hold nothing between two runs (Folder, FolderWatcher, LocalDiscoveryTracker
\* and SyncEngine).
THEOREM TypeCorrect == Spec => []TypeOK
  BY TypeInit, TypeStep, PTL DEF Spec

---------------------------------------------------------------------------
\* From Folder::startSync to the end of the discovery engine and tracker have
\* the same list, but for the uploads to be resumed.
LooksAlike ==
    phase \in {"starting", "discovery"} /\ style = "DatabaseAndFilesystem" =>
        previous \subseteq enginePaths /\ enginePaths \subseteq previous \cup infos

LEMMA LooksAlikeStep ==
  ASSUME TypeOK, LooksAlike, [Next]_vars
  PROVE  LooksAlike'
  <1>1. CASE UNCHANGED <<phase, style, previous, enginePaths, infos>>
    BY <1>1 DEF LooksAlike
  <1>2. CASE phase' \notin {"starting", "discovery"} \/ style' = "FilesystemOnly"
    BY <1>2 DEF LooksAlike
  <1>3. CASE StartFromQueue \/ StartFromFinished
    <2>1. StartSync
      BY <1>3 DEF StartFromQueue, StartFromFinished
    <2> QED  BY <2>1 DEF StartSync, Looked, LooksAlike
  <1>4. CASE EngineStart
    BY <1>4 DEF EngineStart, LooksAlike, trackerVars
  <1>5. ASSUME FileSystem \/ Watching \/ FullDiscoveryExpires \/ Enqueue \/ \E p \in Paths : Discover(p)
        PROVE  UNCHANGED <<phase, style, previous, enginePaths, infos>>
    BY <1>5 DEF FileSystem, Watching, FullDiscoveryExpires, Enqueue, Change, LoseChange, Discover,
                BecomeUnreliable, AddChanges, WatchedPathsChanged, NextSyncFullLocalDiscovery,
                trackerVars, engineVars
  <1>6. ASSUME \/ EngineStartFails \/ PropagationFinished \/ Abort \/ DiscoveryFinished
               \/ \E p \in Paths : ItemSucceeds(p) \/ ItemPostponed(p) \/ ItemFails(p)
        PROVE  phase' \notin {"starting", "discovery"}
    BY <1>6 DEF EngineStartFails, PropagationFinished, Abort, Finalize, DiscoveryFinished,
                ItemSucceeds, ItemPostponed, ItemFails, Completing
  <1>7. TellTracker => style' = "FilesystemOnly"
    BY DEF TellTracker, EngineForgets
  <1>8. UNCHANGED vars => UNCHANGED <<phase, style, previous, enginePaths, infos>>
    BY DEF vars, trackerVars, engineVars
  <1> QED  BY <1>1, <1>2, <1>3, <1>4, <1>5, <1>6, <1>7, <1>8 DEF Next, SyncRun

\* What a partial discovery reads because the tracker named it, the tracker
\* still has when the run fails (Folder::startSync, slotSyncFinished).
THEOREM ListsAgree == Spec => []EngineLooksWhereTrackerSays
  <1>1. Init => LooksAlike
    BY DEF Init, LooksAlike
  <1>2. TypeOK /\ LooksAlike /\ [Next]_vars => LooksAlike'
    BY LooksAlikeStep
  <1>3. LooksAlike => EngineLooksWhereTrackerSays
    BY DEF LooksAlike, EngineLooksWhereTrackerSays
  <1> QED  BY <1>1, <1>2, <1>3, TypeCorrect, PTL DEF Spec

---------------------------------------------------------------------------
LEMMA SettledStep ==
  ASSUME TypeOK, SettledIsLeftAlone, [Next]_vars
  PROVE  SettledIsLeftAlone'
  <1> USE DEF SettledIsLeftAlone
  <1>1. CASE UNCHANGED <<paths, previous>> /\ settled' \subseteq settled
    BY <1>1
  <1>2. CASE StartFromQueue \/ StartFromFinished
    BY <1>2 DEF StartFromQueue, StartFromFinished, StartSync
  <1>3. CASE WatchedPathsChanged
    BY <1>3 DEF WatchedPathsChanged
  <1>4. ASSUME NEW p \in Paths, ItemSucceeds(p) \/ ItemPostponed(p) \/ ItemFails(p)
        PROVE  SettledIsLeftAlone'
    BY <1>4 DEF ItemSucceeds, ItemPostponed, ItemFails, Wiped, Retried
  <1>5. CASE TellTracker
    BY <1>5 DEF TellTracker, EngineForgets, Merged
  <1>6. ASSUME \/ FileSystem \/ AddChanges \/ NextSyncFullLocalDiscovery \/ FullDiscoveryExpires
               \/ Enqueue \/ EngineStart \/ DiscoveryFinished \/ \E p \in Paths : Discover(p)
        PROVE  UNCHANGED <<paths, previous>> /\ settled' \subseteq settled
    BY <1>6 DEF FileSystem, AddChanges, NextSyncFullLocalDiscovery, FullDiscoveryExpires, Enqueue,
                EngineStart, DiscoveryFinished, Discover, Change, LoseChange, BecomeUnreliable,
                trackerVars
  <1>7. ASSUME EngineStartFails \/ PropagationFinished \/ Abort
        PROVE  UNCHANGED <<paths, previous>> /\ settled' \subseteq settled
    BY <1>7 DEF EngineStartFails, PropagationFinished, Abort, Finalize, trackerVars
  <1>8. UNCHANGED vars => UNCHANGED <<paths, previous>> /\ settled' \subseteq settled
    BY DEF vars, trackerVars
  <1> QED  BY <1>1, <1>2, <1>3, <1>4, <1>5, <1>6, <1>7, <1>8 DEF Next, Watching, SyncRun

\* A file that was synced and not touched since is not looked at again, whatever
\* becomes of its run (LocalDiscoveryTracker::slotItemCompleted).
THEOREM SyncedIsLeftAlone == Spec => []SettledIsLeftAlone
  <1>1. Init => SettledIsLeftAlone
    BY DEF Init, SettledIsLeftAlone
  <1>2. TypeOK /\ SettledIsLeftAlone /\ [Next]_vars => SettledIsLeftAlone'
    BY SettledStep
  <1> QED  BY <1>1, <1>2, TypeCorrect, PTL DEF Spec

---------------------------------------------------------------------------
\* A run may follow from the end of this one.
MayFollow == tails # <<>> /\ tails[Len(tails)].emitting

\* The first nested start takes the changes the watcher has read, the second
\* one finds none and does not queue its folder again.
Nesting ==
    /\ \A i \in 1 .. Len(tails) : tails[i].emitting => i = Len(tails) /\ phase = "idle"
    /\ (Len(tails) >= 1 /\ phase = "starting") \/ (Len(tails) >= 2 /\ MayFollow) => changeSet = {}
    /\ (Len(tails) >= 2 /\ phase = "starting") \/ (Len(tails) >= 3 /\ MayFollow) => ~queued
    /\ phase = "starting" => Len(tails) <= 2
    /\ Len(tails) <= 3

LEMMA NestingStep ==
  ASSUME TypeOK, Nesting, [Next]_vars
  PROVE  Nesting'
  <1>0. /\ tails \in Seq(Frame) /\ Len(tails) \in Nat /\ (tails = <<>> => Len(tails) = 0)
        /\ (tails # <<>> => Len(tails) >= 1)
    BY Stack DEF TypeOK
  <1>1. CASE UNCHANGED <<tails, phase, changeSet, queued>>
    BY <1>1 DEF Nesting, MayFollow
  <1>2. CASE tails' = <<>>
    BY <1>2 DEF Nesting, MayFollow
  <1>3. CASE EngineStartFails \/ PropagationFinished \/ Abort
    <2>1. PICK f \in Frame : f.emitting /\ tails' = Append(tails, f)
      <3>1. ASSUME NEW s \in BOOLEAN, NEW e, Finalize(s, e)
            PROVE  \E f \in Frame : f.emitting /\ tails' = Append(tails, f)
        <4>1. tails' = Append(tails, [success |-> s, emitting |-> TRUE])
          BY <3>1 DEF Finalize
        <4> QED  BY <4>1 DEF Frame
      <3>2. failed \in BOOLEAN
        BY DEF TypeOK
      <3> QED  BY <1>3, <3>1, <3>2 DEF EngineStartFails, PropagationFinished, Abort
    <2>2. /\ Len(tails') = Len(tails) + 1 /\ tails'[Len(tails) + 1] = f
          /\ \A i \in 1 .. Len(tails) : tails'[i] = tails[i]
      BY <1>0, <2>1, Stack
    <2>3. phase' = "idle" /\ UNCHANGED <<changeSet, queued>>
      BY <1>3 DEF EngineStartFails, PropagationFinished, Abort, Finalize, watcherVars
    <2>4. phase = "starting" \/ (tails = <<>> /\ phase # "starting")
      BY <1>3 DEF EngineStartFails, PropagationFinished, Abort, EventLoop
    <2>5. \A i \in 1 .. Len(tails) : ~tails'[i].emitting
      BY <1>0, <2>2, <2>4 DEF Nesting
    <2>6. Len(tails') <= 3
      BY <1>0, <2>2, <2>4 DEF Nesting
    <2>7. \A i \in 1 .. Len(tails') : tails'[i].emitting => i = Len(tails')
      BY <1>0, <2>2, <2>5
    <2>8. Len(tails') >= 2 => changeSet = {}
      BY <1>0, <2>2, <2>4 DEF Nesting
    <2>9. Len(tails') >= 3 => ~queued
      BY <1>0, <2>2, <2>4 DEF Nesting
    <2> QED  BY <2>3, <2>6, <2>7, <2>8, <2>9 DEF Nesting
  <1>4. CASE StartFromQueue
    <2>1. tails' = <<>>
      BY <1>4 DEF StartFromQueue
    <2> QED  BY <1>2, <2>1
  <1>5. CASE StartFromFinished
    <2>1. StartSync /\ MayFollow /\ tails # <<>>
          /\ tails' = [tails EXCEPT ![Len(tails)].emitting = FALSE]
      BY <1>5 DEF StartFromFinished, MayFollow
    <2>2. /\ Len(tails') = Len(tails)
          /\ \A i \in 1 .. Len(tails) :
               tails'[i].emitting = (IF i = Len(tails) THEN FALSE ELSE tails[i].emitting)
      BY <1>0, <2>1, Stack
    <2>3. \A i \in 1 .. Len(tails') : ~tails'[i].emitting
      BY <1>0, <2>2 DEF Nesting
    <2>4. queued /\ phase' = "starting" /\ changeSet' = {} /\ queued' = NeedSync(changeSet)
      BY <2>1 DEF StartSync
    <2>5. Len(tails') <= 2
      BY <1>0, <2>1, <2>2, <2>4 DEF Nesting
    <2>6. Len(tails') >= 2 => ~queued'
      BY <1>0, <2>1, <2>2, <2>4 DEF Nesting, NeedSync
    <2>7. ~MayFollow'
      BY <1>0, <2>1, <2>2, <2>3 DEF MayFollow
    <2> QED  BY <1>0, <2>2, <2>3, <2>4, <2>5, <2>6, <2>7 DEF Nesting
  <1>6. CASE TellTracker
    <2>1. /\ tails # <<>> /\ phase # "starting" /\ UNCHANGED <<phase, changeSet, queued>>
          /\ tails' = SubSeq(tails, 1, Len(tails) - 1)
      BY <1>6 DEF TellTracker, EngineForgets, watcherVars
    <2>2. /\ Len(tails') = Len(tails) - 1
          /\ \A i \in 1 .. Len(tails) - 1 : tails'[i] = tails[i]
      BY <1>0, <2>1, Stack
    <2>3. \A i \in 1 .. Len(tails') : ~tails'[i].emitting
      BY <1>0, <2>1, <2>2 DEF Nesting
    <2>4. ~MayFollow'
      <3>1. tails' \in Seq(Frame)
        BY <1>0, <2>1, Stack
      <3>2. tails' # <<>> => Len(tails') \in 1 .. Len(tails')
        BY <3>1, EmptySeq, LenProperties
      <3> QED  BY <2>3, <3>2 DEF MayFollow
    <2> QED  BY <1>0, <2>1, <2>2, <2>3, <2>4 DEF Nesting
  <1>7. CASE EngineStart \/ DiscoveryFinished
    <2>1. /\ UNCHANGED <<tails, changeSet, queued>> /\ phase' \in {"discovery", "propagation"}
          /\ phase \in {"starting", "discovery"}
      BY <1>7 DEF EngineStart, DiscoveryFinished, watcherVars
    <2>2. \A i \in 1 .. Len(tails') : ~tails'[i].emitting
      BY <2>1 DEF Nesting
    <2>3. ~MayFollow'
      BY <1>0, <2>1, <2>2 DEF MayFollow
    <2> QED  BY <1>0, <2>1, <2>2, <2>3 DEF Nesting
  <1>8. ASSUME Watching \/ Enqueue
        PROVE  tails' = <<>>
    BY <1>8 DEF Watching, AddChanges, WatchedPathsChanged, NextSyncFullLocalDiscovery, Enqueue,
                EventLoop
  <1>9. ASSUME \/ FileSystem \/ FullDiscoveryExpires
               \/ \E p \in Paths : Discover(p) \/ ItemSucceeds(p) \/ ItemPostponed(p) \/ ItemFails(p)
        PROVE  UNCHANGED <<tails, phase, changeSet, queued>>
    BY <1>9 DEF FileSystem, FullDiscoveryExpires, Discover, ItemSucceeds, ItemPostponed, ItemFails,
                Completing, Change, LoseChange, BecomeUnreliable, watcherVars, engineVars
  <1>10. UNCHANGED vars => UNCHANGED <<tails, phase, changeSet, queued>>
    BY DEF vars, watcherVars, engineVars
  <1> QED  BY <1>1, <1>2, <1>3, <1>4, <1>5, <1>6, <1>7, <1>8, <1>9, <1>10 DEF Next, SyncRun

\* Runs that fail at once and start each other from SyncEngine::finalize end,
\* however many files there are: the stack of the thread does not run full.
THEOREM RunsUnwind == Spec => []NestingEnds
  <1>1. Init => Nesting
    BY DEF Init, Nesting, MayFollow
  <1>2. TypeOK /\ Nesting /\ [Next]_vars => Nesting'
    BY NestingStep
  <1>3. Nesting => NestingEnds
    BY DEF Nesting, NestingEnds
  <1> QED  BY <1>1, <1>2, <1>3, TypeCorrect, PTL DEF Spec
=============================================================================
