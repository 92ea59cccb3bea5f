------------------------- MODULE SyncSchedulerProofs -------------------------
(***************************************************************************)
(* The scheduler of syncs, for any folders, accounts and scenarios: types, *)
(* the agreement of queue and map, that what is taken from the queue is    *)
(* synced, that a paused folder is left alone, that only the current sync  *)
(* runs, and that no wake-up is lost.                                      *)
(***************************************************************************)
EXTENDS SyncScheduler, SequenceTheorems, FiniteSetTheorems, TLAPS

\* The calls of which the folder matters; the others are called with any.
FolderCalls ==
    Calls \ {"startNext", "popIgnored", "terminateCurrentSync", "clearCurrent",
             "start"}

GoodFrames ==
    {fr \in Frames : /\ fr.call \in FolderCalls => fr.f \in Folders
                     /\ fr.call = "enqueueFolder" => fr.arg \in Priorities}

\* What slotPropagationFinished is called with.
Results == {fr \in GoodFrames : fr.call = "finalize"}

Typed ==
    /\ TypeOK
    /\ stack \in Seq(GoodFrames) /\ posted \in Seq(Results)

\* The frames of the stack: all of them, and those under the running call.
Pending == {stack[i] : i \in 1 .. Len(stack)}
Below == {stack[i] : i \in 2 .. Len(stack)}
HeadIs(call, f) == On(call) /\ stack[1].f = f

----------------------------------------------------------------------------
\* In every scenario.

\* f is about to be handed to its engine.
Starting(f) == Cur = f /\ isSyncRunning(f) /\ ~folder[f].paused

\* engineStart is the running call or the next one, after the request of
\* another sync of the same folder; nothing of the kind waits further down.
StartsInTurn ==
    /\ On("startSync") => Cur = stack[1].f
    /\ On("engineStart") => Starting(stack[1].f)
    /\ \A i \in 2 .. Len(stack) :
         /\ stack[i].call \notin {"startSync", "popIgnored"}
         /\ stack[i].call = "engineStart" =>
              i = 2 /\ On("enqueueFolder") /\ Starting(stack[i].f)

\* A folder that is not of the scenario neither lives nor waits; the others are
\* only taken away where folders are removed.
OthersAreGone ==
    \A f \in Folders :
      /\ f \notin net.scenario.folders => folder[f].life = "deleted" /\ f \notin Queued
      /\ f \in net.scenario.folders /\ "remove" \notin Operations => folder[f].life = "alive"

\* A folder is wiped by the last call of the handler that removes it.
WipesLast ==
    \A i \in 1 .. Len(stack) : stack[i].call = "wipe" =>
      /\ i = Len(stack) /\ "remove" \in Operations
      /\ stack[i].f \in net.scenario.folders

\* PopIgnored empties a queue of a removed folder.
IgnoresNone ==
    On("popIgnored") /\ (Sole \/ "remove" \notin Operations) =>
        \A f \in Queued : folder[f].life = "deleted"

\* A discovery belongs to an engine that runs, a propagator too, or finalize has
\* still to take it away.
EnginesAgree ==
    \A f \in Folders :
      /\ engine[f].discovery => engine[f].running
      /\ engine[f].propagator # "none" =>
           engine[f].running \/ Frame("resetEngine", f, 0) \in Pending

Basics ==
    /\ Typed /\ QueueAgrees
    /\ StartsInTurn /\ WipesLast /\ OthersAreGone /\ IgnoresNone /\ EnginesAgree

----------------------------------------------------------------------------
\* Where a sync that is terminated leaves none to be started.

Silent(f) ==
    /\ ~engine[f].running /\ folder[f].listeners = 0 /\ ~isSyncRunning(f)
NoneSyncs == \A f \in Folders : Silent(f)
Nothing == Cur = NoFolder /\ NoneSyncs

Alone(f) ==
    /\ Cur = f /\ f \in Folders
    /\ folder[f].life = "alive" /\ folder[f].ready /\ folder[f].listeners = 1
    /\ \A g \in Folders \ {f} : Silent(g)
Stopped(f) == Alone(f) /\ ~engine[f].running
Runs(f) == Alone(f) /\ engine[f].running
Syncing(f) == Runs(f) /\ engine[f].discovery
Shown(f) == Syncing(f) /\ isSyncRunning(f) /\ ~folder[f].paused
Settled == Nothing \/ Shown(Cur)

\* No startNext makes a folder the current sync.
NoStart == ~sched.running \/ \A f \in Folders : ~CanSync(f)

SettledCalls ==
    {"startNext", "popIgnored", "clearCurrent", "start", "resetEngine",
     "followUp", "finalizeVfsSwitch", "down"}
PassiveCalls ==
    (SettledCalls \ {"popIgnored", "down"}) \cup {"enqueueFolder", "engineStart"}

\* How far the running call has got with the current sync.
Progress ==
    /\ Idle => Settled
    /\ ~Idle =>
         LET call == stack[1].call  f == stack[1].f IN
           /\ call # "wipe"
           /\ call \in SettledCalls => Settled
           /\ call = "terminateCurrentSync" => (Nothing \/ Syncing(Cur)) /\ NoStart
           /\ call = "abort" => Syncing(f)
           /\ call = "finalize" => Runs(f)
           /\ call = "slotSyncFinished" => Stopped(f)
           /\ call = "syncFinished" => Cur = f /\ NoneSyncs
           /\ call = "startSync" => Stopped(f) /\ CanSync(f) /\ ~isSyncRunning(f)
           /\ call = "engineStart" => Stopped(f) /\ Starting(f)
           /\ call = "enqueueFolder" =>
                IF 2 \in 1 .. Len(stack) /\ stack[2].call = "engineStart"
                  THEN Stopped(stack[2].f) /\ Starting(stack[2].f)
                  ELSE Settled \/ (Cur = f /\ NoneSyncs /\ CanSync(f))
    /\ \A fr \in Below : fr.call \in PassiveCalls

\* start is the last thing a handler calls.
StartIsLast == \A i \in 1 .. Len(stack) - 1 : stack[i].call # "start"

Ending == ~Idle /\ stack[1].call \in {"abort", "finalize", "slotSyncFinished", "syncFinished"}

\* When terminateCurrentSync clears the current sync there is none.
ClearsNone ==
    (\E fr \in Pending : fr.call = "clearCurrent") =>
        NoStart /\ (Cur = NoFolder \/ Ending)

\* A folder changes its plugin while it is paused, at the end of its sync.
Switching == \E fr \in Pending : fr.call = "finalizeVfsSwitch"
SwitchesAtEnd ==
    /\ \A f \in Folders : folder[f].switch # "no" =>
         /\ Sole /\ f \in net.scenario.folders /\ folder[f].paused
         /\ \/ On("terminateCurrentSync") /\ Cur = f
            \/ ~Idle /\ stack[1].call \in {"abort", "finalize", "slotSyncFinished"} /\ stack[1].f = f
            \/ Switching
    /\ \A fr \in Pending : fr.call = "finalizeVfsSwitch" => fr.f \in net.scenario.folders
    /\ Switching =>
         /\ Sole /\ \A f \in Folders : ~CanSync(f)
         /\ Cur = NoFolder \/ On("syncFinished")

\* Whoever leaves the scheduler without a current sync looks for the next one.
WakesUp ==
    sched.running /\ Cur = NoFolder =>
        \/ sched.startPosted
        \/ \E fr \in Pending : fr.call = "startNext"
        \/ \A f \in Queued : folder[f].life # "alive"

Order == Progress /\ StartIsLast /\ ClearsNone /\ SwitchesAtEnd
AloneIInv == TerminatesAlone => Order /\ WakesUp
IInv == Basics /\ AloneIInv

----------------------------------------------------------------------------
\* The stack.

\* Lists of one and of two calls.
LEMMA Lists ==
    ASSUME NEW S, NEW a \in S, NEW b \in S
    PROVE  /\ <<a>> \in Seq(S) /\ <<a, b>> \in Seq(S)
           /\ <<>> \o <<a>> = <<a>> /\ <<a>> \o <<b>> = <<a, b>>
<1> DEFINE s == <<a>>  t == <<b>>  u == <<a, b>>
<1>1. /\ s \in Seq(S) /\ t \in Seq(S) /\ u \in Seq(S)
      /\ Len(s) = 1 /\ Len(t) = 1 /\ Len(u) = 2
      /\ s[1] = a /\ t[1] = b /\ u[1] = a /\ u[2] = b
  OBVIOUS
<1> HIDE DEF s, t, u
<1>2. /\ s \o t \in Seq(S) /\ Len(s \o t) = 2
      /\ \A i \in 1 .. 2 : (s \o t)[i] = IF i <= 1 THEN s[i] ELSE t[i - 1]
  BY <1>1, ConcatProperties
<1>3. \A i \in 1 .. 2 : (s \o t)[i] = u[i]
  BY <1>1, <1>2
<1>4. s \o t = u
  BY <1>1, <1>2, <1>3, SeqEqual
<1>5. <<>> \o s = s
  BY <1>1, ConcatEmptySeq
<1> QED  BY <1>1, <1>4, <1>5 DEF s, t, u

\* A stack whose head is replaced by a list of calls.
LEMMA Replaced ==
    ASSUME NEW S, NEW s \in Seq(S), s # <<>>, NEW frames \in Seq(S)
    PROVE  LET t == frames \o Tail(s)
           IN  /\ t \in Seq(S)
               /\ Len(t) = Len(frames) + Len(s) - 1
               /\ \A i \in 1 .. Len(frames) : t[i] = frames[i]
               /\ \A i \in Len(frames) + 1 .. Len(t) : t[i] = s[i - Len(frames) + 1]
<1>1. /\ Tail(s) \in Seq(S) /\ Len(Tail(s)) = Len(s) - 1
      /\ \A i \in 1 .. Len(Tail(s)) : Tail(s)[i] = s[i + 1]
  BY HeadTailProperties
<1>2. Len(frames) \in Nat /\ Len(s) \in Nat
  BY LenProperties
<1>3. /\ frames \o Tail(s) \in Seq(S)
      /\ Len(frames \o Tail(s)) = Len(frames) + Len(Tail(s))
      /\ \A i \in 1 .. Len(frames) + Len(Tail(s)) : (frames \o Tail(s))[i] =
           IF i <= Len(frames) THEN frames[i] ELSE Tail(s)[i - Len(frames)]
  BY <1>1, ConcatProperties
<1> QED  BY <1>1, <1>2, <1>3

\* The three usual cases: no call, one, two.
LEMMA Returned ==
    ASSUME NEW S, NEW s \in Seq(S), s # <<>>
    PROVE  /\ Tail(s) \in Seq(S) /\ Len(Tail(s)) = Len(s) - 1
           /\ \A i \in 1 .. Len(s) - 1 : Tail(s)[i] = s[i + 1]
BY HeadTailProperties

LEMMA OneCall ==
    ASSUME NEW S, NEW s \in Seq(S), s # <<>>, NEW a \in S
    PROVE  LET t == <<a>> \o Tail(s)
           IN  /\ t \in Seq(S) /\ Len(t) = Len(s) /\ t[1] = a
               /\ \A i \in 2 .. Len(s) : t[i] = s[i]
<1>1. <<a>> \in Seq(S) /\ Len(<<a>>) = 1 /\ <<a>>[1] = a
  OBVIOUS
<1>2. Len(s) \in Nat
  BY LenProperties
<1> QED  BY <1>1, <1>2, Replaced

LEMMA TwoCalls ==
    ASSUME NEW S, NEW s \in Seq(S), s # <<>>, NEW a \in S, NEW b \in S
    PROVE  LET t == <<a, b>> \o Tail(s)
           IN  /\ t \in Seq(S) /\ Len(t) = Len(s) + 1 /\ t[1] = a /\ t[2] = b
               /\ \A i \in 3 .. Len(s) + 1 : t[i] = s[i - 1]
<1>1. /\ <<a, b>> \in Seq(S) /\ Len(<<a, b>>) = 2
      /\ <<a, b>>[1] = a /\ <<a, b>>[2] = b
  OBVIOUS
<1>2. Len(s) \in Nat
  BY LenProperties
<1> QED  BY <1>1, <1>2, Replaced

----------------------------------------------------------------------------
\* Types.

LEMMA FolderFrame ==
    ASSUME NEW call \in Calls \ {"enqueueFolder"}, NEW f \in Folders, NEW arg \in 0 .. High
    PROVE  /\ Frame(call, f, arg) \in GoodFrames
           /\ Frame(call, f, arg).call = call /\ Frame(call, f, arg).f = f
           /\ Frame(call, f, arg).arg = arg
BY DEF Frame, Frames, GoodFrames

LEMMA EnqueueFrame ==
    ASSUME NEW f \in Folders, NEW p \in Priorities
    PROVE  /\ Frame("enqueueFolder", f, p) \in GoodFrames
           /\ Frame("enqueueFolder", f, p).call = "enqueueFolder"
           /\ Frame("enqueueFolder", f, p).f = f
           /\ Frame("enqueueFolder", f, p).arg = p
BY DEF Frame, Frames, GoodFrames, Calls, Priorities, Low, High

LEMMA NullFrame ==
    ASSUME NEW call \in Calls \ FolderCalls, NEW f \in Folders \cup {NoFolder}
    PROVE  /\ Frame(call, f, 0) \in GoodFrames
           /\ Frame(call, f, 0).call = call /\ Frame(call, f, 0).f = f
BY DEF Frame, Frames, GoodFrames, Calls, FolderCalls, High

\* What the head of the stack is called with.
LEMMA HeadTyped ==
    ASSUME Typed, ~Idle
    PROVE  /\ stack[1] \in GoodFrames /\ stack[1] \in Frames /\ stack[1].call \in Calls
           /\ stack[1].f \in Folders \cup {NoFolder} /\ stack[1].arg \in 0 .. High
           /\ stack[1].call \in FolderCalls => stack[1].f \in Folders
           /\ stack[1].call = "enqueueFolder" =>
                stack[1].f \in Folders /\ stack[1].arg \in Priorities
           /\ Tail(stack) \in Seq(GoodFrames)
<1>1. stack \in Seq(GoodFrames) /\ stack # <<>>
  BY DEF Typed, Idle
<1>2. stack[1] \in GoodFrames
  BY <1>1
<1>3. Tail(stack) \in Seq(GoodFrames)
  BY <1>1, Returned
<1> QED  BY <1>2, <1>3 DEF GoodFrames, Frames, FolderCalls, Calls

Maps == UNION {[S -> Priorities] : S \in SUBSET Folders}
Scheds ==
    [running : BOOLEAN, startPosted : BOOLEAN, cur : Folders \cup {NoFolder},
     queue : SUBSET Elements, scheduled : Maps]

LEMMA MapsTyped ==
    /\ \A m \in Maps : m \in [DOMAIN m -> Priorities] /\ DOMAIN m \in SUBSET Folders
    /\ \A S \in SUBSET Folders : \A m \in [S -> Priorities] : m \in Maps
BY DEF Maps

LEMMA EnqueuedTyped ==
    ASSUME NEW s \in Scheds, NEW f \in Folders, NEW p \in Priorities
    PROVE  Enqueued(s, f, p) \in Scheds
<1>1. s.scheduled \in [DOMAIN s.scheduled -> Priorities] /\ DOMAIN s.scheduled \subseteq Folders
  BY MapsTyped DEF Scheds
<1>2. CASE f \notin DOMAIN s.scheduled
  <2> DEFINE S == DOMAIN s.scheduled \cup {f}
             m == [g \in S |-> IF g = f THEN p ELSE s.scheduled[g]]
  <2>1. m \in [S -> Priorities] /\ S \in SUBSET Folders
    BY <1>1
  <2>2. Enqueued(s, f, p) = [s EXCEPT !.queue = @ \cup {<<f, p>>}, !.scheduled = m]
    BY <1>2 DEF Enqueued, Scheds
  <2>3. m \in Maps
    BY <2>1, MapsTyped
  <2>4. <<f, p>> \in Elements
    BY DEF Elements
  <2> HIDE DEF m
  <2> QED  BY <2>4, <2>2, <2>3 DEF Scheds
<1>3. CASE f \in DOMAIN s.scheduled /\ p > s.scheduled[f]
  <2> DEFINE S == DOMAIN s.scheduled
             m == [s.scheduled EXCEPT ![f] = p]
  <2>1. m \in [S -> Priorities] /\ S \in SUBSET Folders
    BY <1>1
  <2>2. Enqueued(s, f, p) =
          [s EXCEPT !.queue = (@ \ {<<f, s.scheduled[f]>>}) \cup {<<f, p>>}, !.scheduled = m]
    BY <1>3 DEF Enqueued, Scheds
  <2>3. m \in Maps
    BY <2>1, MapsTyped
  <2>4. <<f, p>> \in Elements
    BY DEF Elements
  <2> HIDE DEF m
  <2> QED  BY <2>4, <2>2, <2>3 DEF Scheds
<1> QED  BY <1>2, <1>3 DEF Enqueued

LEMMA PoppedTyped ==
    ASSUME NEW s \in Scheds, NEW e \in Elements
    PROVE  Popped(s, e) \in Scheds
<1> DEFINE S == DOMAIN s.scheduled \ {e[1]}
           m == [g \in S |-> s.scheduled[g]]
<1>1. s.scheduled \in [DOMAIN s.scheduled -> Priorities] /\ DOMAIN s.scheduled \subseteq Folders
  BY MapsTyped DEF Scheds
<1>2. m \in [S -> Priorities] /\ S \in SUBSET Folders
  BY <1>1
<1>3. Popped(s, e) = [s EXCEPT !.queue = @ \ {e}, !.scheduled = m]
  BY DEF Popped, Scheds
<1>4. m \in Maps
  BY <1>2, MapsTyped
<1> HIDE DEF m
<1> QED  BY <1>3, <1>4 DEF Scheds

Records == /\ net \in [ready : [Accounts -> BOOLEAN], pause : BOOLEAN,
                       metered : BOOLEAN, scenario : Scenarios]
           /\ folder \in [Folders -> FolderRecords]
           /\ engine \in [Folders -> EngineRecords]

LEMMA Values ==
    /\ \A x \in {"alive", "removed", "deleted"} : x \in Lives
    /\ \A x \in {"no", "resume", "stay"} : x \in Switches
    /\ \A x \in {"Undefined", "Queued", "SyncRunning", "Success", "Error", "Paused"} :
         x \in Statuses
    /\ \A x \in {"none", "running", "finished"} : x \in Propagators
    /\ 0 \in Listeners
    /\ \A n \in Listeners : (IF n < MaxListeners THEN n + 1 ELSE n) \in Listeners
BY SchedulerAssumption DEF Lives, Switches, Statuses, Propagators, Listeners

LEMMA CountsTyped ==
    ASSUME retrySyncLimitC \in Nat
    PROVE  /\ 0 \in Counts
           /\ \A n \in Counts : Capped(n) \in Counts
BY DEF Counts, Capped

LEMMA Updated ==
    ASSUME NEW S, NEW fs \in [Folders -> S], NEW f \in Folders, NEW r \in S
    PROVE  [fs EXCEPT ![f] = r] \in [Folders -> S]
OBVIOUS

\* The calls: what each is the top of the stack for, and what it leaves alone.
LEMMA RunFrames ==
    /\ (EnqueueFolder => On("enqueueFolder") /\ UNCHANGED <<net, engine, posted>>)
    /\ (StartNext => On("startNext") /\ UNCHANGED <<net, engine, posted>>)
    /\ (PopIgnored => On("popIgnored") /\ UNCHANGED <<net, folder, engine, posted>>)
    /\ (TerminateCurrentSync => On("terminateCurrentSync")
                                /\ UNCHANGED <<sched, net, folder, engine, posted>>)
    /\ (ClearCurrent => On("clearCurrent") /\ UNCHANGED <<net, folder, engine, posted>>)
    /\ (Start => On("start") /\ UNCHANGED <<net, folder, engine, posted>>)
    /\ (StartSync => On("startSync") /\ UNCHANGED <<sched, net, engine, posted>>)
    /\ (EngineStart => On("engineStart") /\ UNCHANGED <<sched, net, posted>>)
    /\ (Abort => On("abort") /\ UNCHANGED <<sched, net, engine, posted>>)
    /\ (Finalize => On("finalize") /\ UNCHANGED <<sched, net, folder, posted>>)
    /\ (ResetEngine => On("resetEngine") /\ UNCHANGED <<sched, net, folder, posted>>)
    /\ (SlotSyncFinished => On("slotSyncFinished")
                            /\ UNCHANGED <<sched, net, engine, posted>>)
    /\ (SyncFinished => On("syncFinished") /\ UNCHANGED <<net, folder, engine, posted>>)
    /\ (FollowUp => On("followUp") /\ UNCHANGED <<sched, net, engine, posted>>)
    /\ (FinalizeVfsSwitch => On("finalizeVfsSwitch")
                             /\ UNCHANGED <<sched, net, engine, posted>>)
    /\ (Wipe => On("wipe") /\ UNCHANGED <<sched, net, engine, posted>>)
<1>1. (EnqueueFolder => On("enqueueFolder") /\ UNCHANGED <<net, engine, posted>>)
  BY DEF EnqueueFolder
<1>2. (StartNext => On("startNext") /\ UNCHANGED <<net, engine, posted>>)
  BY DEF StartNext
<1>3. (PopIgnored => On("popIgnored") /\ UNCHANGED <<net, folder, engine, posted>>)
  BY DEF PopIgnored
<1>4. (TerminateCurrentSync => On("terminateCurrentSync")
                               /\ UNCHANGED <<sched, net, folder, engine, posted>>)
  BY DEF TerminateCurrentSync
<1>5. (ClearCurrent => On("clearCurrent") /\ UNCHANGED <<net, folder, engine, posted>>)
  BY DEF ClearCurrent
<1>6. (Start => On("start") /\ UNCHANGED <<net, folder, engine, posted>>)
  BY DEF Start
<1>7. (StartSync => On("startSync") /\ UNCHANGED <<sched, net, engine, posted>>)
  BY DEF StartSync
<1>8. (EngineStart => On("engineStart") /\ UNCHANGED <<sched, net, posted>>)
  BY DEF EngineStart
<1>9. (Abort => On("abort") /\ UNCHANGED <<sched, net, engine, posted>>)
  BY DEF Abort
<1>10. (Finalize => On("finalize") /\ UNCHANGED <<sched, net, folder, posted>>)
  BY DEF Finalize
<1>11. (ResetEngine => On("resetEngine") /\ UNCHANGED <<sched, net, folder, posted>>)
  BY DEF ResetEngine
<1>12. (SlotSyncFinished => On("slotSyncFinished")
                            /\ UNCHANGED <<sched, net, engine, posted>>)
  BY DEF SlotSyncFinished
<1>13. (SyncFinished => On("syncFinished") /\ UNCHANGED <<net, folder, engine, posted>>)
  BY DEF SyncFinished
<1>14. (FollowUp => On("followUp") /\ UNCHANGED <<sched, net, engine, posted>>)
  BY DEF FollowUp
<1>15. (FinalizeVfsSwitch => On("finalizeVfsSwitch")
                             /\ UNCHANGED <<sched, net, engine, posted>>)
  BY DEF FinalizeVfsSwitch
<1>16. (Wipe => On("wipe") /\ UNCHANGED <<sched, net, engine, posted>>)
  BY DEF Wipe
<1> QED
  BY <1>1, <1>2, <1>3, <1>4, <1>5, <1>6, <1>7, <1>8, <1>9, <1>10, <1>11, <1>12, <1>13,
     <1>14, <1>15, <1>16

\* The events find the stack empty; what they leave alone.
LEMMA EventFrames ==
    /\ (SlotPropagationFinished => Idle /\ UNCHANGED <<sched, net, folder>>)
    /\ (PostedStart => Idle /\ UNCHANGED <<net, folder, engine, posted>>)
    /\ (PauseAll => Idle /\ UNCHANGED <<net, folder, engine, posted>>)
    /\ (ResumeAll => Idle /\ UNCHANGED <<sched, net, folder, engine, posted>>)
    /\ (MeteredChanged => Idle /\ UNCHANGED <<sched, folder, engine, posted>>)
    /\ (\A f \in Folders : DiscoveryFinished(f) => Idle /\ UNCHANGED <<sched, net, posted>>)
    /\ (\A f \in Folders : DiscoveryFailed(f) =>
            Idle /\ UNCHANGED <<sched, net, folder, engine, posted>>)
    /\ (\A f \in Folders : PropagationEnds(f) => Idle /\ UNCHANGED <<sched, net>>)
    /\ (\A f \in Folders : RetryTimer(f) => Idle /\ UNCHANGED <<sched, net, engine, posted>>)
    /\ (\A f \in Folders : WatcherReports(f) => Idle /\ UNCHANGED <<sched, net, engine, posted>>)
    /\ (\A f \in Folders : VfsStarted(f) => Idle /\ UNCHANGED <<sched, net, engine, posted>>)
    /\ (\A f \in Folders : Delete(f) => Idle /\ UNCHANGED <<net, posted>>)
    /\ (\A f \in Folders : WatcherDetects(f) => Idle /\ UNCHANGED <<sched, net, engine, posted>>)
    /\ (\A f \in Folders : Pause(f) => Idle /\ UNCHANGED <<sched, net, engine, posted>>)
    /\ (\A f \in Folders : Resume(f) => Idle /\ UNCHANGED <<sched, net, engine, posted>>)
    /\ (\A f \in Folders : ForceSync(f) => Idle /\ UNCHANGED <<net, folder, engine, posted>>)
    /\ (\A f \in Folders : ChangeVfsMode(f) => Idle /\ UNCHANGED <<sched, net, engine, posted>>)
    /\ (\A f \in Folders : RemoveFolder(f) =>
            Idle /\ UNCHANGED <<sched, net, folder, engine, posted>>)
    /\ (\A a \in Accounts : ServerUnsupported(a) =>
            Idle /\ UNCHANGED <<sched, net, engine, posted>>)
    /\ (\A a \in Accounts : AccountReady(a) => Idle /\ UNCHANGED <<sched, folder, engine, posted>>)
    /\ (\A a \in Accounts : AccountLost(a) => Idle /\ UNCHANGED <<sched, folder, engine, posted>>)
    /\ (\A f \in Folders : \A p \in Requests : Request(f, p) =>
            Idle /\ UNCHANGED <<sched, net, folder, engine, posted>>)
    /\ (\A b \in BOOLEAN : SetPauseSyncWhenMetered(b) =>
            Idle /\ UNCHANGED <<sched, folder, engine, posted>>)
<1>1. (SlotPropagationFinished => Idle /\ UNCHANGED <<sched, net, folder>>)
  BY DEF SlotPropagationFinished, Handle
<1>2. (PostedStart => Idle /\ UNCHANGED <<net, folder, engine, posted>>)
  BY DEF PostedStart, Handle
<1>3. (PauseAll => Idle /\ UNCHANGED <<net, folder, engine, posted>>)
  BY DEF PauseAll, Handle
<1>4. (ResumeAll => Idle /\ UNCHANGED <<sched, net, folder, engine, posted>>)
  BY DEF ResumeAll, Handle
<1>5. (MeteredChanged => Idle /\ UNCHANGED <<sched, folder, engine, posted>>)
  BY DEF MeteredChanged, Handle
<1>6. (\A f \in Folders : DiscoveryFinished(f) => Idle /\ UNCHANGED <<sched, net, posted>>)
  BY DEF DiscoveryFinished, Handle
<1>7. (\A f \in Folders : DiscoveryFailed(f) =>
           Idle /\ UNCHANGED <<sched, net, folder, engine, posted>>)
  BY DEF DiscoveryFailed, Handle
<1>8. (\A f \in Folders : PropagationEnds(f) => Idle /\ UNCHANGED <<sched, net>>)
  BY DEF PropagationEnds, Handle
<1>9. (\A f \in Folders : RetryTimer(f) => Idle /\ UNCHANGED <<sched, net, engine, posted>>)
  BY DEF RetryTimer, Handle
<1>10. (\A f \in Folders : WatcherReports(f) => Idle /\ UNCHANGED <<sched, net, engine, posted>>)
  BY DEF WatcherReports, Handle
<1>11. (\A f \in Folders : VfsStarted(f) => Idle /\ UNCHANGED <<sched, net, engine, posted>>)
  BY DEF VfsStarted, Handle
<1>12. (\A f \in Folders : Delete(f) => Idle /\ UNCHANGED <<net, posted>>)
  BY DEF Delete, Handle
<1>13. (\A f \in Folders : WatcherDetects(f) => Idle /\ UNCHANGED <<sched, net, engine, posted>>)
  BY DEF WatcherDetects, Handle
<1>14. (\A f \in Folders : Pause(f) => Idle /\ UNCHANGED <<sched, net, engine, posted>>)
  BY DEF Pause, Handle
<1>15. (\A f \in Folders : Resume(f) => Idle /\ UNCHANGED <<sched, net, engine, posted>>)
  BY DEF Resume, Handle
<1>16. (\A f \in Folders : ForceSync(f) => Idle /\ UNCHANGED <<net, folder, engine, posted>>)
  BY DEF ForceSync, Handle
<1>17. (\A f \in Folders : ChangeVfsMode(f) => Idle /\ UNCHANGED <<sched, net, engine, posted>>)
  BY DEF ChangeVfsMode, Handle
<1>18. (\A f \in Folders : RemoveFolder(f) =>
            Idle /\ UNCHANGED <<sched, net, folder, engine, posted>>)
  BY DEF RemoveFolder, Handle
<1>19. (\A a \in Accounts : ServerUnsupported(a) =>
            Idle /\ UNCHANGED <<sched, net, engine, posted>>)
  BY DEF ServerUnsupported, Handle
<1>20. (\A a \in Accounts : AccountReady(a) => Idle /\ UNCHANGED <<sched, folder, engine, posted>>)
  BY DEF AccountReady, Handle
<1>21. (\A a \in Accounts : AccountLost(a) => Idle /\ UNCHANGED <<sched, folder, engine, posted>>)
  BY DEF AccountLost, Handle
<1>22. (\A f \in Folders : \A p \in Requests : Request(f, p) =>
            Idle /\ UNCHANGED <<sched, net, folder, engine, posted>>)
  BY DEF Request, Handle
<1>23. (\A b \in BOOLEAN : SetPauseSyncWhenMetered(b) =>
            Idle /\ UNCHANGED <<sched, folder, engine, posted>>)
  BY DEF SetPauseSyncWhenMetered, Handle
<1> QED
  BY <1>1, <1>2, <1>3, <1>4, <1>5, <1>6, <1>7, <1>8, <1>9, <1>10, <1>11, <1>12, <1>13,
     <1>14, <1>15, <1>16, <1>17, <1>18, <1>19, <1>20, <1>21, <1>22, <1>23

\* The actions that write sched.
LEMMA SchedWriters ==
    ASSUME [Next]_vars
    PROVE  \/ sched' = sched
           \/ EnqueueFolder \/ StartNext \/ PopIgnored \/ ClearCurrent \/ Start
           \/ SyncFinished \/ PostedStart \/ PauseAll
           \/ \E f \in Folders : Delete(f) \/ ForceSync(f)
BY RunFrames, EventFrames DEF Next, Run, EngineStep, Interference, vars

\* The actions that write net.
LEMMA NetWriters ==
    ASSUME [Next]_vars
    PROVE  \/ net' = net
           \/ MeteredChanged
           \/ \E a \in Accounts : AccountReady(a) \/ AccountLost(a)
           \/ \E b \in BOOLEAN : SetPauseSyncWhenMetered(b)
BY RunFrames, EventFrames DEF Next, Run, EngineStep, Interference, vars

\* The actions that write folder.
LEMMA FolderWriters ==
    ASSUME [Next]_vars
    PROVE  \/ folder' = folder
           \/ EnqueueFolder \/ StartNext \/ StartSync \/ EngineStart \/ Abort
           \/ SlotSyncFinished \/ FollowUp \/ FinalizeVfsSwitch \/ Wipe
           \/ \E f \in Folders :
                \/ DiscoveryFinished(f) \/ PropagationEnds(f) \/ RetryTimer(f)
                \/ WatcherReports(f) \/ VfsStarted(f) \/ Delete(f)
                \/ WatcherDetects(f) \/ Pause(f) \/ Resume(f) \/ ChangeVfsMode(f)
           \/ \E a \in Accounts : ServerUnsupported(a)
BY RunFrames, EventFrames DEF Next, Run, EngineStep, Interference, vars

\* The actions that write engine.
LEMMA EngineWriters ==
    ASSUME [Next]_vars
    PROVE  \/ engine' = engine
           \/ EngineStart \/ Finalize \/ ResetEngine \/ SlotPropagationFinished
           \/ \E f \in Folders : DiscoveryFinished(f) \/ PropagationEnds(f)
                              \/ Delete(f)
BY RunFrames, EventFrames DEF Next, Run, EngineStep, Interference, vars

\* The actions that write posted.
LEMMA PostedWriters ==
    ASSUME [Next]_vars
    PROVE  \/ posted' = posted
           \/ SlotPropagationFinished
           \/ \E f \in Folders : PropagationEnds(f)
BY RunFrames, EventFrames DEF Next, Run, EngineStep, Interference, vars

\* The folder's record in Wiped.
WipedRecord(r) ==
    [r EXCEPT !.life = "removed", !.ready = FALSE, !.starting = FALSE,
              !.changed = FALSE, !.paused = TRUE,
              !.state = IF r.paused THEN @ ELSE "Paused"]

LEMMA WipedUpdates ==
    ASSUME NEW fs \in [Folders -> FolderRecords], NEW f \in Folders
    PROVE  /\ Wiped(fs, f) = [fs EXCEPT ![f] = WipedRecord(fs[f])]
           /\ WipedRecord(fs[f]) \in FolderRecords
           /\ WipedRecord(fs[f]).life = "removed"
<1> DEFINE r == fs[f]
<1>1. r \in FolderRecords
  OBVIOUS
<1>2. /\ WipedRecord(r) \in FolderRecords
      /\ WipedRecord(r).life = "removed"
  <2> HIDE DEF r
  <2> QED  BY <1>1, Values DEF WipedRecord, FolderRecords
<1>3. Wiped(fs, f) = [fs EXCEPT ![f] = WipedRecord(fs[f])]
  BY DEF Wiped, WipedRecord, FolderRecords
<1> QED  BY <1>2, <1>3

LEMMA RecordsRun ==
    ASSUME Typed, Run
    PROVE  Records'
<1>0. Records /\ ~Idle /\ net' = net
  BY RunFrames DEF Records, Typed, TypeOK, Run, On, Idle
<1> DEFINE f == stack[1].f
<1>1. stack[1].call \in FolderCalls => f \in Folders
  BY <1>0, HeadTyped
<1> HIDE DEF f
<1>2. 0 \in Counts /\ \A n \in Counts : Capped(n) \in Counts
  BY <1>0, CountsTyped, SchedulerAssumption DEF Records, AllScenarios, retrySyncLimitC
<1>3. FolderRecords' = FolderRecords /\ EngineRecords' = EngineRecords
  BY <1>0 DEF FolderRecords, EngineRecords, Counts, retrySyncLimitC
<1>4. folder \in [Folders -> FolderRecords] /\ engine \in [Folders -> EngineRecords]
  BY <1>0 DEF Records
<1>0a. \A g \in Folders : folder[g] \in FolderRecords /\ engine[g] \in EngineRecords
  BY <1>4
<1>5. ASSUME folder' \in [Folders -> FolderRecords], engine' \in [Folders -> EngineRecords]
      PROVE  Records'
  BY <1>0, <1>3, <1>5 DEF Records
<1>6. CASE EnqueueFolder
  <2>1. f \in Folders /\ engine' = engine
    BY <1>1, <1>6 DEF f, EnqueueFolder, On, FolderCalls, Calls
  <2>2. \/ folder' = folder
        \/ folder' = [folder EXCEPT ![f].state = "Queued"]
    BY <1>6 DEF f, EnqueueFolder
  <2>3. [folder[f] EXCEPT !.state = "Queued"] \in FolderRecords
    BY <1>0a, <2>1, Values DEF FolderRecords
  <2> QED  BY <1>4, <1>5, <2>1, <2>2, <2>3, Updated
<1>7. CASE StartNext
  <2> DEFINE r(g) == [folder[g] EXCEPT !.listeners = IF @ < MaxListeners THEN @ + 1 ELSE @]
  <2>1. engine' = engine
    BY <1>7 DEF StartNext
  <2>2. \/ folder' = folder
        \/ \E e \in Tops(sched) : folder' = [folder EXCEPT ![e[1]] = r(e[1])]
    BY <1>4, <1>7 DEF f, StartNext
  <2>3. \A e \in Tops(sched) : e[1] \in Folders
    BY DEF Tops, Typed, TypeOK, Elements
  <2>4. \A g \in Folders : r(g) \in FolderRecords
    BY <1>0a, Values DEF FolderRecords
  <2> HIDE DEF r
  <2> QED  BY <1>4, <1>5, <2>1, <2>2, <2>3, <2>4, Updated
<1>8. CASE PopIgnored \/ TerminateCurrentSync \/ ClearCurrent \/ Start \/ SyncFinished
  BY <1>4, <1>5, <1>8 DEF PopIgnored, TerminateCurrentSync, ClearCurrent, Start, SyncFinished
<1>9. CASE StartSync
  <2> DEFINE r == [folder[f] EXCEPT !.state = "SyncRunning", !.errors = FALSE, !.changed = FALSE]
  <2>1. f \in Folders /\ engine' = engine
    BY <1>1, <1>9 DEF f, StartSync, On, FolderCalls, Calls
  <2>2. folder' = folder \/ folder' = [folder EXCEPT ![f] = r]
    BY <1>4, <1>9, <2>1 DEF f, StartSync
  <2>3. r \in FolderRecords
    BY <1>0a, <2>1, Values DEF FolderRecords
  <2> HIDE DEF r
  <2> QED  BY <1>4, <1>5, <2>1, <2>2, <2>3, Updated
<1>10. CASE EngineStart
  <2>1. f \in Folders
    BY <1>1, <1>10 DEF f, EngineStart, On, FolderCalls, Calls
  <2>2. folder' = folder \/ folder' = [folder EXCEPT ![f] = [@ EXCEPT !.errors = TRUE]]
    BY <1>4, <1>10, <2>1 DEF f, EngineStart
  <2>3. [folder[f] EXCEPT !.errors = TRUE] \in FolderRecords
    BY <1>0a, <2>1, Values DEF FolderRecords
  <2>4. \/ engine' = engine
        \/ engine' = [engine EXCEPT ![f] = [@ EXCEPT !.running = TRUE, !.another = FALSE,
                                                     !.discovery = TRUE]]
        \/ engine' = [engine EXCEPT ![f] = [@ EXCEPT !.running = TRUE, !.another = FALSE]]
    BY <1>4, <1>10, <2>1 DEF f, EngineStart
  <2>5. /\ [engine[f] EXCEPT !.running = TRUE, !.another = FALSE, !.discovery = TRUE] \in EngineRecords
        /\ [engine[f] EXCEPT !.running = TRUE, !.another = FALSE] \in EngineRecords
    BY <1>0a, <2>1, Values DEF EngineRecords
  <2>6. folder' \in [Folders -> FolderRecords]
    BY <1>4, <2>1, <2>2, <2>3
  <2>7. engine' \in [Folders -> EngineRecords]
    BY <1>4, <2>1, <2>4, <2>5
  <2> QED  BY <1>5, <2>6, <2>7
<1>11. CASE Abort
  <2>1. f \in Folders /\ engine' = engine
    BY <1>1, <1>11 DEF f, Abort, On, FolderCalls, Calls
  <2>2. folder' = folder \/ folder' = [folder EXCEPT ![f] = [@ EXCEPT !.errors = TRUE]]
    BY <1>4, <1>11, <2>1 DEF f, Abort
  <2>3. [folder[f] EXCEPT !.errors = TRUE] \in FolderRecords
    BY <1>0a, <2>1, Values DEF FolderRecords
  <2> QED  BY <1>4, <1>5, <2>1, <2>2, <2>3, Updated
<1>12. CASE Finalize
  <2>1. f \in Folders /\ folder' = folder
    BY <1>1, <1>12 DEF f, Finalize, On, FolderCalls, Calls
  <2>2. engine' = [engine EXCEPT ![f] = [@ EXCEPT !.running = FALSE, !.discovery = FALSE]]
    BY <1>4, <1>12, <2>1 DEF f, Finalize
  <2>3. [engine[f] EXCEPT !.running = FALSE, !.discovery = FALSE] \in EngineRecords
    BY <1>0a, <2>1, Values DEF EngineRecords
  <2> QED  BY <1>4, <1>5, <2>1, <2>2, <2>3
<1>13. CASE ResetEngine
  <2>1. f \in Folders /\ folder' = folder
    BY <1>1, <1>13 DEF f, ResetEngine, On, FolderCalls, Calls
  <2>2. engine' = [engine EXCEPT ![f] = [@ EXCEPT !.propagator = "none"]]
    BY <1>4, <1>13, <2>1 DEF f, ResetEngine
  <2>3. [engine[f] EXCEPT !.propagator = "none"] \in EngineRecords
    BY <1>0a, <2>1, Values DEF EngineRecords
  <2> QED  BY <1>4, <1>5, <2>1, <2>2, <2>3
<1>14. CASE SlotSyncFinished
  <2> DEFINE status == FinishedStatus(f)
             fails == IF status = "Success" THEN 0 ELSE Capped(folder[f].fails)
             r == [folder[f] EXCEPT !.state = status, !.fails = fails, !.listeners = 0]
  <2>1. f \in Folders /\ engine' = engine
    BY <1>1, <1>14 DEF f, SlotSyncFinished, On, FolderCalls, Calls
  <2>2. \/ folder' = folder
        \/ folder' = [folder EXCEPT ![f].state = status, ![f].fails = fails,
                                    ![f].listeners = 0]
    BY <1>14 DEF f, SlotSyncFinished
  <2>3. status \in Statuses
    BY Values DEF FinishedStatus
  <2>4. folder[f].fails \in Counts
    BY <1>4, <2>1 DEF FolderRecords
  <2>5. fails \in Counts
    BY <1>2, <2>4
  <2> HIDE DEF status, fails
  <2>6. folder' = folder \/ folder' = [folder EXCEPT ![f] = r]
    BY <1>4, <2>1, <2>2
  <2>7. r \in FolderRecords
    BY <1>0a, <2>1, <2>3, <2>5, Values DEF FolderRecords
  <2> HIDE DEF r
  <2> QED  BY <1>4, <1>5, <2>1, <2>6, <2>7, Updated
<1>15. CASE FollowUp
  <2> DEFINE count == IF engine[f].another THEN Capped(folder[f].followUps) ELSE 0
             again == \/ stack[1].arg = Flag(TRUE)
                      \/ engine[f].another /\ count <= retrySyncLimitC
             timer == folder[f].timer \/ (again /\ CanSync(f))
             r == [folder[f] EXCEPT !.followUps = count, !.timer = timer]
  <2>1. f \in Folders /\ engine' = engine
    BY <1>1, <1>15 DEF f, FollowUp, On, FolderCalls, Calls
  <2>2. folder' = [folder EXCEPT ![f] = r]
    BY <1>4, <1>15, <2>1 DEF f, FollowUp
  <2>3. folder[f].followUps \in Counts
    BY <1>4, <2>1 DEF FolderRecords
  <2>4. count \in Counts
    BY <1>2, <2>3
  <2>5. timer \in BOOLEAN
    OBVIOUS
  <2> HIDE DEF count, timer
  <2>6. r \in FolderRecords
    BY <1>0a, <2>1, <2>4, <2>5, Values DEF FolderRecords
  <2> HIDE DEF r
  <2> QED  BY <1>4, <1>5, <2>1, <2>2, <2>6, Updated
<1>16. CASE FinalizeVfsSwitch
  <2> DEFINE resume == folder[f].switch = "resume"
             st == IF resume /\ folder[f].paused THEN "Success" ELSE folder[f].state
             paused == folder[f].paused /\ ~resume
             r == [folder[f] EXCEPT !.ready = FALSE, !.starting = TRUE, !.switch = "no",
                                    !.paused = paused, !.state = st]
  <2>1. f \in Folders /\ engine' = engine
    BY <1>1, <1>16 DEF f, FinalizeVfsSwitch, On, FolderCalls, Calls
  <2>2. folder' = SwitchedVfs(folder, f, resume)
    BY <1>16 DEF f, FinalizeVfsSwitch
  <2>2a. folder' = [folder EXCEPT ![f] = r]
    BY <1>4, <2>1, <2>2 DEF SwitchedVfs
  <2>3. st \in Statuses
    BY <1>4, <2>1, Values DEF FolderRecords
  <2>4. paused \in BOOLEAN
    OBVIOUS
  <2> HIDE DEF st, paused
  <2>5. r \in FolderRecords
    BY <1>0a, <2>1, <2>3, <2>4, Values DEF FolderRecords
  <2> HIDE DEF r
  <2> QED  BY <1>4, <1>5, <2>1, <2>2a, <2>5, Updated
<1>17. CASE Wipe
  <2>1. f \in Folders /\ engine' = engine
    BY <1>1, <1>17 DEF f, Wipe, On, FolderCalls, Calls
  <2>2. folder' = Wiped(folder, f)
    BY <1>17 DEF f, Wipe
  <2> QED  BY <1>4, <1>5, <2>1, <2>2, WipedUpdates, Updated
<1> QED
  BY <1>6, <1>7, <1>8, <1>9, <1>10, <1>11, <1>12, <1>13, <1>14, <1>15, <1>16, <1>17 DEF Run

LoopStep ==
    \/ SlotPropagationFinished \/ PostedStart
    \/ \E f \in Folders : \/ EngineStep(f) \/ RetryTimer(f) \/ WatcherReports(f)
                          \/ VfsStarted(f) \/ Delete(f)
    \/ Interference

\* A handler of the event loop finds the stack empty, and no step changes the
\* scenario.
LEMMA ScenarioStays ==
    ASSUME Typed, [Next]_vars
    PROVE  net'.scenario = net.scenario
<1>0. net \in [ready : [Accounts -> BOOLEAN], pause : BOOLEAN,
               metered : BOOLEAN, scenario : Scenarios]
  BY DEF Typed, TypeOK
<1>1. CASE net' = net
  BY <1>1
<1>2. CASE \E a \in Accounts : AccountReady(a) \/ AccountLost(a)
  BY <1>0, <1>2 DEF AccountReady, AccountLost
<1>3. CASE MeteredChanged \/ \E b \in BOOLEAN : SetPauseSyncWhenMetered(b)
  BY <1>0, <1>3 DEF MeteredChanged, SetPauseSyncWhenMetered
<1> QED
  BY <1>1, <1>2, <1>3, NetWriters

\* What a folder is after the pause of some.
LEMMA PausedEntries ==
    ASSUME folder \in [Folders -> FolderRecords], NEW S, NEW g \in Folders
    PROVE  /\ Paused(S)[g] \in FolderRecords
           /\ Paused(S)[g].life = folder[g].life
           /\ Paused(S)[g].ready = folder[g].ready
           /\ Paused(S)[g].switch = folder[g].switch
           /\ Paused(S)[g].listeners = folder[g].listeners
           /\ g \in S /\ ~folder[g].paused =>
                Paused(S)[g].paused /\ Paused(S)[g].state = "Paused"
           /\ ~(g \in S /\ ~folder[g].paused) => Paused(S)[g] = folder[g]
<1> DEFINE old == folder[g]  new == Paused(S)[g]
<1>1. old \in FolderRecords
  OBVIOUS
<1>2. new = IF g \in S /\ ~old.paused
              THEN [old EXCEPT !.paused = TRUE, !.state = "Paused"] ELSE old
  BY DEF Paused
<1> HIDE DEF old, new
<1>3. CASE g \in S /\ ~old.paused
  <2>1. new = [old EXCEPT !.paused = TRUE, !.state = "Paused"]
    BY <1>2, <1>3
  <2>2. /\ new \in FolderRecords /\ new.life = old.life /\ new.ready = old.ready
        /\ new.switch = old.switch /\ new.listeners = old.listeners
        /\ new.paused /\ new.state = "Paused"
    BY <1>1, <2>1, Values DEF FolderRecords
  <2> QED  BY <1>3, <2>2 DEF old, new
<1>4. CASE ~(g \in S /\ ~old.paused)
  <2>1. new = old
    BY <1>2, <1>4
  <2> QED  BY <1>1, <1>4, <2>1 DEF old, new
<1> QED  BY <1>3, <1>4

LEMMA PausedTyped ==
    ASSUME folder \in [Folders -> FolderRecords], NEW S
    PROVE  Paused(S) \in [Folders -> FolderRecords]
<1>1. \A f \in Folders : Paused(S)[f] \in FolderRecords
  BY PausedEntries
<1>2. Paused(S) = [f \in Folders |-> Paused(S)[f]]
  BY DEF Paused
<1> QED  BY <1>1, <1>2

LEMMA SwitchedTyped ==
    ASSUME NEW fs \in [Folders -> FolderRecords], NEW f \in Folders, NEW resume \in BOOLEAN
    PROVE  SwitchedVfs(fs, f, resume) \in [Folders -> FolderRecords]
<1> DEFINE st == IF resume /\ fs[f].paused THEN "Success" ELSE fs[f].state
           paused == fs[f].paused /\ ~resume
           r == [fs[f] EXCEPT !.ready = FALSE, !.starting = TRUE, !.switch = "no",
                              !.paused = paused, !.state = st]
<1>1. SwitchedVfs(fs, f, resume) = [fs EXCEPT ![f] = r]
  BY DEF SwitchedVfs
<1>2. fs[f] \in FolderRecords
  OBVIOUS
<1>3. st \in Statuses /\ paused \in BOOLEAN
  BY <1>2, Values DEF FolderRecords
<1> HIDE DEF st, paused
<1>4. r \in FolderRecords
  BY <1>2, <1>3, Values DEF FolderRecords
<1> HIDE DEF r
<1> QED  BY <1>1, <1>4, Updated

LEMMA RecordsLoop ==
    ASSUME Typed, LoopStep
    PROVE  Records'
<1>1. Records
  BY DEF Records, Typed, TypeOK
<1>2. net'.scenario = net.scenario
  BY ScenarioStays DEF LoopStep, Next
<1>3. FolderRecords' = FolderRecords /\ EngineRecords' = EngineRecords
  BY <1>2 DEF FolderRecords, EngineRecords, Counts, retrySyncLimitC
<1>4. folder \in [Folders -> FolderRecords] /\ engine \in [Folders -> EngineRecords]
  BY <1>1 DEF Records
<1>5. \A g \in Folders : folder[g] \in FolderRecords /\ engine[g] \in EngineRecords
  BY <1>4
<1> DEFINE NetTyped == net' \in [ready : [Accounts -> BOOLEAN], pause : BOOLEAN,
                                 metered : BOOLEAN, scenario : Scenarios]
<1>6. ASSUME NetTyped, folder' \in [Folders -> FolderRecords],
             engine' \in [Folders -> EngineRecords]
      PROVE  Records'
  BY <1>6, <1>3 DEF Records
<1>n. net' = net => NetTyped
  BY <1>1 DEF Records
<1> HIDE DEF NetTyped
<1>7. ASSUME NEW f \in Folders, DiscoveryFinished(f)
      PROVE  Records'
  <2>1. net' = net
    BY <1>7 DEF DiscoveryFinished
  <2>2. folder' \in [Folders -> FolderRecords]
    <3>1. folder' = folder \/ folder' = [folder EXCEPT ![f] = [@ EXCEPT !.errors = TRUE]]
      BY <1>4, <1>7 DEF DiscoveryFinished
    <3>2. [folder[f] EXCEPT !.errors = TRUE] \in FolderRecords
      BY <1>5 DEF FolderRecords
    <3> QED  BY <1>4, <3>1, <3>2, Updated
  <2>3. engine' \in [Folders -> EngineRecords]
    <3>1. SUFFICES ASSUME engine' # engine  PROVE engine' \in [Folders -> EngineRecords]
      BY <1>4
    <3>2. PICK more \in BOOLEAN : engine' = [engine EXCEPT ![f].propagator = "running",
                                                         ![f].another = @ \/ more]
      BY <1>7, <3>1 DEF DiscoveryFinished
    <3> DEFINE b == engine[f].another \/ more
               r == [engine[f] EXCEPT !.propagator = "running", !.another = b]
    <3>3. engine' = [engine EXCEPT ![f] = r]
      BY <1>4, <3>2
    <3>4. b \in BOOLEAN
      OBVIOUS
    <3> HIDE DEF b
    <3>5. r \in EngineRecords
      BY <1>5, <3>4, Values DEF EngineRecords
    <3> HIDE DEF r
    <3> QED  BY <1>4, <3>3, <3>5
  <2> QED  BY <1>6, <1>n, <2>1, <2>2, <2>3
<1>8. ASSUME NEW f \in Folders, PropagationEnds(f)
      PROVE  Records'
  <2>1. net' = net
    BY <1>8 DEF PropagationEnds
  <2>2. folder' \in [Folders -> FolderRecords]
    <3>1. \E ok \in BOOLEAN : folder' = [folder EXCEPT ![f] = [@ EXCEPT !.errors = folder[f].errors \/ ~ok]]
      BY <1>4, <1>8 DEF PropagationEnds
    <3>2. ASSUME NEW ok \in BOOLEAN
          PROVE  [folder[f] EXCEPT !.errors = folder[f].errors \/ ~ok] \in FolderRecords
      BY <1>5 DEF FolderRecords
    <3> QED  BY <1>4, <3>1, <3>2
  <2>3. engine' \in [Folders -> EngineRecords]
    <3>1. engine' = [engine EXCEPT ![f] = [@ EXCEPT !.propagator = "finished"]]
      BY <1>4, <1>8 DEF PropagationEnds
    <3>2. [engine[f] EXCEPT !.propagator = "finished"] \in EngineRecords
      BY <1>5, Values DEF EngineRecords
    <3> QED  BY <1>4, <3>1, <3>2
  <2> QED  BY <1>6, <1>n, <2>1, <2>2, <2>3
<1>9. CASE SlotPropagationFinished
  <2> DEFINE f == posted[1].f
  <2>1. f \in Folders
    <3>1. posted \in Seq(Results) /\ posted # <<>>
      BY <1>9 DEF SlotPropagationFinished, Typed
    <3>2. posted[1] \in Results
      BY <3>1
    <3> QED  BY <3>2 DEF Results, GoodFrames, FolderCalls, Calls
  <2>2. net' = net /\ folder' = folder
    BY <1>9 DEF SlotPropagationFinished
  <2>3. engine' = engine \/ \E more \in BOOLEAN :
          engine' = [engine EXCEPT ![f] = [@ EXCEPT !.another = engine[f].another \/ more]]
    BY <1>4, <1>9, <2>1 DEF SlotPropagationFinished
  <2>4. ASSUME NEW more \in BOOLEAN
        PROVE  [engine[f] EXCEPT !.another = engine[f].another \/ more] \in EngineRecords
    BY <1>5, <2>1 DEF EngineRecords
  <2>5. engine' \in [Folders -> EngineRecords]
    BY <1>4, <2>1, <2>3, <2>4
  <2> QED  BY <1>4, <1>6, <1>n, <2>2, <2>5
<1>10. ASSUME NEW f \in Folders, RetryTimer(f)
       PROVE  Records'
  <2>1. net' = net /\ engine' = engine
    BY <1>10 DEF RetryTimer
  <2>2. folder' = [folder EXCEPT ![f] = [@ EXCEPT !.timer = FALSE]]
    BY <1>4, <1>10 DEF RetryTimer
  <2>3. [folder[f] EXCEPT !.timer = FALSE] \in FolderRecords
    BY <1>5 DEF FolderRecords
  <2> QED  BY <1>4, <1>6, <1>n, <2>1, <2>2, <2>3
<1>11. ASSUME NEW f \in Folders, WatcherDetects(f) \/ WatcherReports(f)
       PROVE  Records'
  <2>1. net' = net /\ engine' = engine
    BY <1>11 DEF WatcherDetects, WatcherReports
  <2>2. folder[f].state \in Statuses
    BY <1>5 DEF FolderRecords
  <2>3. CASE WatcherDetects(f)
    <3> DEFINE st == IF CanSync(f) /\ ~isSyncRunning(f) THEN "Queued" ELSE folder[f].state
               r == [folder[f] EXCEPT !.changed = TRUE, !.state = st]
    <3>1. folder' = [folder EXCEPT ![f] = r]
      BY <1>4, <2>3 DEF WatcherDetects
    <3>2. st \in Statuses
      BY <2>2, Values
    <3> HIDE DEF st
    <3>3. r \in FolderRecords
      BY <1>5, <3>2 DEF FolderRecords
    <3> HIDE DEF r
    <3> QED  BY <1>4, <1>6, <1>n, <2>1, <3>1, <3>3, Updated
  <2>4. CASE WatcherReports(f)
    <3>1. PICK real \in BOOLEAN : folder' = [folder EXCEPT
            ![f].changed = FALSE,
            ![f].state = IF /\ ~real /\ folder[f].ready
                            /\ @ = "Queued" /\ f \in Queued
                           THEN "Success" ELSE @]
      BY <2>4 DEF WatcherReports
    <3> DEFINE st == IF /\ ~real /\ folder[f].ready
                        /\ folder[f].state = "Queued" /\ f \in Queued
                     THEN "Success" ELSE folder[f].state
               r == [folder[f] EXCEPT !.changed = FALSE, !.state = st]
    <3>2. folder' = [folder EXCEPT ![f] = r]
      BY <1>4, <3>1
    <3>3. st \in Statuses
      BY <2>2, Values
    <3> HIDE DEF st
    <3>4. r \in FolderRecords
      BY <1>5, <3>3 DEF FolderRecords
    <3> HIDE DEF r
    <3> QED  BY <1>4, <1>6, <1>n, <2>1, <3>2, <3>4, Updated
  <2> QED  BY <1>11, <2>3, <2>4
<1>12. ASSUME NEW f \in Folders, VfsStarted(f)
       PROVE  Records'
  <2>1. net' = net /\ engine' = engine
    BY <1>12 DEF VfsStarted
  <2>2. folder' = [folder EXCEPT ![f] = [@ EXCEPT !.starting = FALSE, !.ready = TRUE]]
    BY <1>4, <1>12 DEF VfsStarted
  <2>3. [folder[f] EXCEPT !.starting = FALSE, !.ready = TRUE] \in FolderRecords
    BY <1>5 DEF FolderRecords
  <2> QED  BY <1>4, <1>6, <1>n, <2>1, <2>2, <2>3
<1>13. ASSUME NEW f \in Folders, Delete(f)
       PROVE  Records'
  <2> DEFINE e == [running |-> FALSE, discovery |-> FALSE,
                   propagator |-> "none", another |-> FALSE]
  <2>1. net' = net /\ engine' = [engine EXCEPT ![f] = e]
    BY <1>13 DEF Delete
  <2>2. e \in EngineRecords
    BY Values DEF EngineRecords
  <2> HIDE DEF e
  <2>3. folder' = [folder EXCEPT ![f] = [@ EXCEPT !.life = "deleted", !.timer = FALSE]]
    BY <1>4, <1>13 DEF Delete
  <2>4. [folder[f] EXCEPT !.life = "deleted", !.timer = FALSE] \in FolderRecords
    BY <1>5, Values DEF FolderRecords
  <2> QED  BY <1>4, <1>6, <1>n, <2>1, <2>2, <2>3, <2>4
<1>14. ASSUME NEW f \in Folders, Pause(f)
       PROVE  Records'
  BY <1>4, <1>6, <1>n, <1>14, PausedTyped DEF Pause
<1>15. ASSUME NEW f \in Folders, Resume(f)
       PROVE  Records'
  <2>1. net' = net /\ engine' = engine
    BY <1>15 DEF Resume
  <2>2. folder' = [folder EXCEPT ![f] = [@ EXCEPT !.paused = FALSE, !.state = "Success"]]
    BY <1>4, <1>15 DEF Resume
  <2>3. [folder[f] EXCEPT !.paused = FALSE, !.state = "Success"] \in FolderRecords
    BY <1>5, Values DEF FolderRecords
  <2> QED  BY <1>4, <1>6, <1>n, <2>1, <2>2, <2>3
<1>16. ASSUME NEW f \in Folders, ChangeVfsMode(f)
       PROVE  Records'
  <2> DEFINE switch == IF folder[f].paused THEN "stay" ELSE "resume"
  <2>1. net' = net /\ engine' = engine
    BY <1>16 DEF ChangeVfsMode
  <2>2. Paused({f}) \in [Folders -> FolderRecords]
    BY <1>4, PausedTyped
  <2>3. CASE folder' = [Paused({f}) EXCEPT ![f].switch = switch]
    <3>1. folder' = [Paused({f}) EXCEPT ![f] = [@ EXCEPT !.switch = switch]]
      BY <2>2, <2>3
    <3>2. Paused({f})[f] \in FolderRecords
      BY <2>2
    <3>3. switch \in Switches
      BY Values
    <3> HIDE DEF switch
    <3>4. [Paused({f})[f] EXCEPT !.switch = switch] \in FolderRecords
      BY <3>2, <3>3 DEF FolderRecords
    <3> QED  BY <1>4, <1>6, <1>n, <2>1, <2>2, <3>1, <3>4
  <2>4. CASE folder' = SwitchedVfs(Paused({f}), f, switch = "resume")
    BY <1>4, <1>6, <1>n, <2>1, <2>2, <2>4, SwitchedTyped
  <2> QED  BY <1>16, <2>3, <2>4 DEF ChangeVfsMode
<1>17. ASSUME NEW a \in Accounts, ServerUnsupported(a)
       PROVE  Records'
  BY <1>4, <1>6, <1>n, <1>17, PausedTyped DEF ServerUnsupported
<1>18. ASSUME NEW a \in Accounts, AccountReady(a) \/ AccountLost(a)
       PROVE  Records'
  <2>1. folder' = folder /\ engine' = engine
    BY <1>18 DEF AccountReady, AccountLost
  <2>2. \E b \in BOOLEAN : net' = [net EXCEPT !.ready[a] = b]
    BY <1>18 DEF AccountReady, AccountLost
  <2>3. NetTyped
    BY <1>1, <2>2 DEF NetTyped, Records
  <2> QED  BY <1>4, <1>6, <2>1, <2>3
<1>19. CASE MeteredChanged \/ \E b \in BOOLEAN : SetPauseSyncWhenMetered(b)
  <2>1. folder' = folder /\ engine' = engine
    BY <1>19 DEF MeteredChanged, SetPauseSyncWhenMetered
  <2>2. NetTyped
    BY <1>1, <1>19 DEF MeteredChanged, SetPauseSyncWhenMetered, NetTyped, Records
  <2> QED  BY <1>4, <1>6, <2>1, <2>2
<1>20. CASE UNCHANGED <<net, folder, engine>>
  BY <1>4, <1>6, <1>n, <1>20
<1> QED
  BY <1>7, <1>8, <1>9, <1>10, <1>11, <1>12, <1>13, <1>14, <1>15, <1>16, <1>17,
     <1>18, <1>19, <1>20
     DEF LoopStep, EngineStep, Interference, DiscoveryFailed, PostedStart,
         Request, ForceSync, RemoveFolder, PauseAll, ResumeAll

----------------------------------------------------------------------------
\* The queue.

AgreesIn(s) == s.queue = {<<f, s.scheduled[f]>> : f \in DOMAIN s.scheduled}

\* An insertion into the queue keeps queue and map in agreement.
LEMMA EnqueuedAgrees ==
    ASSUME NEW s \in Scheds, NEW f \in Folders, NEW p \in Priorities, AgreesIn(s)
    PROVE  LET t == Enqueued(s, f, p)
           IN  /\ AgreesIn(t)
               /\ DOMAIN t.scheduled = DOMAIN s.scheduled \cup {f}
               /\ t.running = s.running /\ t.startPosted = s.startPosted /\ t.cur = s.cur
<1>0. s.scheduled \in [DOMAIN s.scheduled -> Priorities]
  BY MapsTyped DEF Scheds
<1>1. CASE f \notin DOMAIN s.scheduled
  <2> DEFINE m == [g \in DOMAIN s.scheduled \cup {f} |-> IF g = f THEN p ELSE s.scheduled[g]]
             t == Enqueued(s, f, p)
  <2>1. /\ t.queue = s.queue \cup {<<f, p>>} /\ t.scheduled = m
        /\ t.running = s.running /\ t.startPosted = s.startPosted /\ t.cur = s.cur
    BY <1>1 DEF Enqueued, Scheds
  <2>2. \A g \in DOMAIN s.scheduled : m[g] = s.scheduled[g]
    BY <1>1
  <2>3. m[f] = p /\ DOMAIN m = DOMAIN s.scheduled \cup {f}
    OBVIOUS
  <2> HIDE DEF m, t
  <2>4. AgreesIn(t)
    BY <2>1, <2>2, <2>3 DEF AgreesIn
  <2> QED  BY <2>1, <2>3, <2>4 DEF t
<1>2. CASE f \in DOMAIN s.scheduled /\ p > s.scheduled[f]
  <2> DEFINE m == [s.scheduled EXCEPT ![f] = p]
             t == Enqueued(s, f, p)
  <2>1. /\ t.queue = (s.queue \ {<<f, s.scheduled[f]>>}) \cup {<<f, p>>} /\ t.scheduled = m
        /\ t.running = s.running /\ t.startPosted = s.startPosted /\ t.cur = s.cur
    BY <1>2 DEF Enqueued, Scheds
  <2>2. \A g \in DOMAIN s.scheduled \ {f} : m[g] = s.scheduled[g]
    BY <1>0
  <2>3. m[f] = p /\ DOMAIN m = DOMAIN s.scheduled
    BY <1>0, <1>2
  <2> HIDE DEF m, t
  <2>4. AgreesIn(t)
    <3>1. \A e \in t.queue : \E g \in DOMAIN m : e = <<g, m[g]>>
      BY <2>1, <2>2, <2>3, <1>2 DEF AgreesIn
    <3>2. \A g \in DOMAIN m : <<g, m[g]>> \in t.queue
      BY <2>1, <2>2, <2>3, <1>2 DEF AgreesIn
    <3> QED  BY <3>1, <3>2, <2>1 DEF AgreesIn
  <2> QED  BY <1>2, <2>1, <2>3, <2>4 DEF t
<1>3. CASE f \in DOMAIN s.scheduled /\ ~(p > s.scheduled[f])
  BY <1>3 DEF Enqueued
<1> QED  BY <1>1, <1>2, <1>3

\* So does the removal of its top.
LEMMA PoppedAgrees ==
    ASSUME NEW s \in Scheds, NEW e \in s.queue, AgreesIn(s)
    PROVE  LET t == Popped(s, e)
           IN  /\ t \in Scheds /\ AgreesIn(t) /\ e \in Elements
               /\ e[1] \in DOMAIN s.scheduled
               /\ DOMAIN t.scheduled = DOMAIN s.scheduled \ {e[1]}
               /\ t.running = s.running /\ t.startPosted = s.startPosted /\ t.cur = s.cur
<1> DEFINE m == [g \in DOMAIN s.scheduled \ {e[1]} |-> s.scheduled[g]]
           t == Popped(s, e)
<1>1. /\ t.queue = s.queue \ {e} /\ t.scheduled = m
      /\ t.running = s.running /\ t.startPosted = s.startPosted /\ t.cur = s.cur
  BY DEF Popped, Scheds
<1>2. e \in Elements
  BY DEF Scheds
<1>3. PICK f \in DOMAIN s.scheduled : e = <<f, s.scheduled[f]>>
  BY DEF AgreesIn
<1>4. t \in Scheds
  BY <1>2, PoppedTyped
<1>5. /\ DOMAIN m = DOMAIN s.scheduled \ {f} /\ e[1] = f
      /\ \A g \in DOMAIN m : m[g] = s.scheduled[g]
  BY <1>3
<1> HIDE DEF m, t
<1>6. AgreesIn(t)
  <2>1. \A d \in t.queue : \E g \in DOMAIN m : d = <<g, m[g]>>
    BY <1>1, <1>3, <1>5 DEF AgreesIn
  <2>2. \A g \in DOMAIN m : <<g, m[g]>> \in t.queue
    BY <1>1, <1>3, <1>5 DEF AgreesIn
  <2> QED  BY <2>1, <2>2, <1>1 DEF AgreesIn
<1> QED  BY <1>1, <1>2, <1>3, <1>4, <1>5, <1>6 DEF t

\* What switches the scheduler on and off leaves the queue and the current sync.
LEMMA FlagsWritten ==
    ASSUME sched \in Scheds,
           PauseAll \/ Start \/ PostedStart \/ \E f \in Folders : ForceSync(f)
    PROVE  /\ sched' \in Scheds /\ sched'.queue = sched.queue
           /\ sched'.scheduled = sched.scheduled /\ sched'.cur = sched.cur
<1>1. CASE PauseAll
  <2>1. sched' = [sched EXCEPT !.running = FALSE]
    BY <1>1 DEF PauseAll
  <2> QED  BY <2>1 DEF Scheds
<1>2. CASE Start
  <2>1. sched' = [sched EXCEPT !.running = TRUE, !.startPosted = TRUE]
    BY <1>2 DEF Start
  <2> QED  BY <2>1 DEF Scheds
<1>3. CASE PostedStart
  <2>1. sched' = [sched EXCEPT !.startPosted = FALSE]
    BY <1>3 DEF PostedStart
  <2> QED  BY <2>1 DEF Scheds
<1>4. ASSUME NEW f \in Folders, ForceSync(f)
      PROVE  sched' = [sched EXCEPT !.running = FALSE]
  BY <1>4 DEF ForceSync
<1>5. CASE \E f \in Folders : ForceSync(f)
  <2>1. sched' = [sched EXCEPT !.running = FALSE]
    BY <1>4, <1>5
  <2> QED  BY <2>1 DEF Scheds
<1> QED  BY <1>1, <1>2, <1>3, <1>5

\* What any step may do to the scheduler.
LEMMA SchedStep ==
    ASSUME Typed, QueueAgrees, [Next]_vars
    PROVE  sched' \in Scheds /\ QueueAgrees'
<1>0. sched \in Scheds /\ AgreesIn(sched) /\ Cur \in Folders \cup {NoFolder}
  BY DEF Typed, TypeOK, Scheds, Maps, QueueAgrees, AgreesIn, Queued, Cur
<1> SUFFICES sched' \in Scheds /\ AgreesIn(sched')
  BY DEF QueueAgrees, AgreesIn, Queued
<1>1. ASSUME NEW s \in Scheds, AgreesIn(s), NEW c \in Folders \cup {NoFolder},
             sched' = s \/ sched' = [s EXCEPT !.cur = c]
      PROVE  sched' \in Scheds /\ AgreesIn(sched')
  BY <1>1 DEF Scheds, AgreesIn
<1>2. CASE sched' = sched
  BY <1>0, <1>2
<1>3. CASE EnqueueFolder
  <2> DEFINE f == stack[1].f  p == stack[1].arg
  <2>1. f \in Folders /\ p \in Priorities
    BY <1>3, HeadTyped DEF EnqueueFolder, On, Idle
  <2>2. Enqueued(sched, f, p) \in Scheds /\ AgreesIn(Enqueued(sched, f, p))
    BY <1>0, <2>1, EnqueuedTyped, EnqueuedAgrees
  <2>3. \/ sched' = sched \/ sched' = Enqueued(sched, f, p)
        \/ sched' = [Enqueued(sched, f, p) EXCEPT !.cur = NoFolder]
    BY <1>3 DEF EnqueueFolder
  <2> HIDE DEF f, p
  <2> QED  BY <1>1, <1>2, <2>2, <2>3
<1>4. CASE StartNext
  <2>1. CASE sched' = sched
    BY <1>2, <2>1
  <2>2. CASE sched' # sched
    <3>1. PICK e \in Tops(sched) :
            \/ sched' = Popped(sched, e)
            \/ sched' = [Popped(sched, e) EXCEPT !.cur = e[1]]
      BY <1>4, <2>2 DEF StartNext, Declined
    <3>2. e \in sched.queue
      BY DEF Tops
    <3>3. Popped(sched, e) \in Scheds /\ AgreesIn(Popped(sched, e)) /\ e[1] \in Folders
      BY <1>0, <3>2, PoppedAgrees DEF Elements
    <3> QED  BY <1>1, <3>1, <3>3
  <2> QED  BY <2>1, <2>2
<1>5. CASE PopIgnored
  <2>1. sched' = sched \/ \E e \in sched.queue : sched' = Popped(sched, e)
    BY <1>5 DEF PopIgnored, Tops
  <2> QED  BY <1>0, <1>2, <2>1, PoppedAgrees
<1>6. CASE ClearCurrent \/ SyncFinished \/ \E f \in Folders : Delete(f)
  BY <1>0, <1>1, <1>6 DEF ClearCurrent, SyncFinished, Delete
<1>7. CASE PauseAll \/ Start \/ PostedStart \/ \E f \in Folders : ForceSync(f)
  <2> QED  BY <1>0, <1>7, FlagsWritten DEF AgreesIn
<1> QED
  BY <1>2, <1>3, <1>4, <1>5, <1>6, <1>7, SchedWriters

----------------------------------------------------------------------------
\* The stack of calls and the posted results.

LEMMA CallTyped ==
    ASSUME Typed, ~Idle, NEW frames \in Seq(GoodFrames), Call(frames)
    PROVE  stack' \in Seq(GoodFrames)
BY Replaced DEF Call, Typed, Idle

\* The calls slotSyncFinished makes.
FinishCalls(f, arg) ==
    [i \in 1 .. folder[f].listeners |-> Frame("syncFinished", f, 0)]
      \o (IF folder[f].switch = "no" THEN <<>> ELSE <<Frame("finalizeVfsSwitch", f, 0)>>)
      \o <<Frame("followUp", f, arg)>>

LEMMA FinishCallsMade ==
    ASSUME SlotSyncFinished
    PROVE  LET f == stack[1].f
           IN  IF folder[f].life = "alive" /\ folder[f].ready
                 THEN \E arg \in 0 .. 1 : Call(FinishCalls(f, arg))
                 ELSE Return
<1> DEFINE f == stack[1].f
           status == FinishedStatus(f)
           fails == IF status = "Success" THEN 0 ELSE Capped(folder[f].fails)
           retry == status # "Success" /\ fails <= retrySyncLimitC
<1>1. IF folder[f].life = "alive" /\ folder[f].ready THEN Call(FinishCalls(f, Flag(retry)))
      ELSE Return
  BY DEF SlotSyncFinished, FinishCalls
<1> HIDE DEF f, retry
<1>2. Flag(retry) \in 0 .. 1
  BY DEF Flag
<1> QED  BY <1>1, <1>2 DEF f

\* The orders of a set of folders are lists of them.
LEMMA OrdersTyped ==
    ASSUME NEW S \in SUBSET Folders, NEW order \in Orders(S)
    PROVE  /\ Cardinality(S) \in Nat /\ DOMAIN order = 1 .. Cardinality(S)
           /\ \A i \in DOMAIN order : order[i] \in S
<1>1. IsFiniteSet(S)
  BY SchedulerAssumption, FS_Subset
<1>2. Cardinality(S) \in Nat
  BY <1>1, FS_CardinalityType
<1> QED  BY <1>2 DEF Orders

\* What a call makes next, startNext and startSync aside.
Made ==
    {fr \in GoodFrames : fr.call \in
       {"enqueueFolder", "startNext", "clearCurrent", "abort", "finalize", "resetEngine",
        "slotSyncFinished", "syncFinished", "finalizeVfsSwitch", "followUp"}}

LEMMA FinishCallsTyped ==
    ASSUME NEW f \in Folders, NEW arg \in 0 .. 1, folder[f].listeners \in Nat
    PROVE  FinishCalls(f, arg) \in Seq(Made)
<1> DEFINE a == [i \in 1 .. folder[f].listeners |-> Frame("syncFinished", f, 0)]
           b == IF folder[f].switch = "no" THEN <<>> ELSE <<Frame("finalizeVfsSwitch", f, 0)>>
           c == <<Frame("followUp", f, arg)>>
<1>1. a \in Seq(Made)
  <2>1. Frame("syncFinished", f, 0) \in Made
    BY FolderFrame DEF Calls, High, Made
  <2> QED  BY <2>1, IsASeq
<1>2. b \in Seq(Made)
  <2>1. Frame("finalizeVfsSwitch", f, 0) \in Made
    BY FolderFrame DEF Calls, High, Made
  <2> QED  BY <2>1
<1>3. c \in Seq(Made)
  <2>1. Frame("followUp", f, arg) \in Made
    BY FolderFrame DEF Calls, High, Made
  <2> QED  BY <2>1
<1> HIDE DEF a, b, c
<1>4. (a \o b) \o c \in Seq(Made)
  BY <1>1, <1>2, <1>3, ConcatProperties
<1> QED  BY <1>4 DEF FinishCalls, a, b, c

LEMMA RunCalls ==
    ASSUME Typed, Run
    PROVE  ~Idle
BY RunFrames DEF Run, On, Idle

LEMMA RunMakes ==
    ASSUME Typed, Run, ~StartNext, ~StartSync
    PROVE  \/ PopIgnored /\ stack' = stack
           \/ \E frames \in Seq(Made) : Call(frames)
<1> DEFINE f == stack[1].f
<1>0. ~Idle
  BY RunCalls
<1>1. /\ stack \in Seq(GoodFrames) /\ Tail(stack) \in Seq(GoodFrames)
      /\ stack[1].call \in FolderCalls => f \in Folders
      /\ stack[1].call \in Calls /\ stack[1] \in GoodFrames /\ f \in Folders \cup {NoFolder}
      /\ stack[1].arg \in 0 .. High
  BY <1>0, HeadTyped DEF Typed
<1>2. /\ Frame("startNext", NoFolder, 0) \in Made
      /\ Frame("clearCurrent", NoFolder, 0) \in Made
  BY NullFrame DEF Calls, FolderCalls, Made
<1>3. \A g \in Folders : \A arg \in 0 .. 3 :
        \A call \in {"abort", "finalize", "resetEngine", "slotSyncFinished"} :
          Frame(call, g, arg) \in Made
  BY FolderFrame DEF High, Calls, Made
<1>5. CASE Return
  <2>1. <<>> \in Seq(Made) /\ <<>> \o Tail(stack) = Tail(stack)
    BY <1>1, ConcatEmptySeq
  <2> QED  BY <1>5, <2>1 DEF Return, Call
<1>6. ASSUME NEW a \in Made, Call(<<a>>)
      PROVE  \E frames \in Seq(Made) : Call(frames)
  BY <1>6, Lists
<1>7. ASSUME NEW a \in Made, NEW b \in Made, Call(<<a, b>>)
      PROVE  \E frames \in Seq(Made) : Call(frames)
  BY <1>7, Lists
<1>8. CASE EnqueueFolder
  BY <1>2, <1>5, <1>6, <1>8 DEF EnqueueFolder
<1>10. CASE PopIgnored
  BY <1>1, <1>5, <1>10 DEF PopIgnored
<1>11. CASE TerminateCurrentSync
  <2>1. CASE Return
    BY <1>5, <2>1
  <2>2. CASE Cur # NoFolder /\ engine[Cur].running /\ ~Return
    <3>1. Cur \in Folders
      BY <2>2 DEF Typed, TypeOK, Cur
    <3>2. Frame("abort", Cur, 0) \in Made
      BY <1>3, <3>1
    <3>3. stack' = (<<Frame("abort", Cur, 0)>> \o <<Frame("clearCurrent", NoFolder, 0)>>) \o Tail(stack)
      BY <1>11, <2>2 DEF TerminateCurrentSync, Call
    <3>4. <<Frame("abort", Cur, 0)>> \o <<Frame("clearCurrent", NoFolder, 0)>>
            = <<Frame("abort", Cur, 0), Frame("clearCurrent", NoFolder, 0)>>
      BY <1>2, <3>2, Lists
    <3> QED  BY <1>2, <1>7, <3>2, <3>3, <3>4 DEF Call
  <2>3. CASE ~(Cur # NoFolder /\ engine[Cur].running) /\ ~Return
    <3>1. stack' = (<<>> \o <<Frame("clearCurrent", NoFolder, 0)>>) \o Tail(stack)
      BY <1>11, <2>3 DEF TerminateCurrentSync, Call
    <3>2. <<>> \o <<Frame("clearCurrent", NoFolder, 0)>> = <<Frame("clearCurrent", NoFolder, 0)>>
      OBVIOUS
    <3> QED  BY <1>2, <1>6, <3>1, <3>2 DEF Call
  <2> QED  BY <2>1, <2>2, <2>3
<1>13. CASE EngineStart \/ Abort
  <2>1. f \in Folders
    BY <1>1, <1>13, RunFrames DEF On, FolderCalls, Calls
  <2>2. Frame("finalize", f, Flag(FALSE)) \in Made
    BY <1>3, <2>1 DEF Flag
  <2> QED  BY <1>5, <1>6, <1>13, <2>2 DEF EngineStart, Abort
<1>14. CASE Finalize
  <2>1. f \in Folders
    BY <1>1, <1>14 DEF Finalize, On, FolderCalls, Calls
  <2>2. Frame("slotSyncFinished", f, stack[1].arg) \in Made
    BY <1>1, <1>3, <2>1 DEF High
  <2>3. Frame("resetEngine", f, 0) \in Made
    BY <1>3, <2>1
  <2> QED  BY <1>7, <1>14, <2>2, <2>3 DEF Finalize
<1>15. CASE SlotSyncFinished
  <2>1. f \in Folders
    BY <1>1, <1>15 DEF SlotSyncFinished, On, FolderCalls, Calls
  <2>2. Return \/ \E arg \in 0 .. 1 : Call(FinishCalls(f, arg))
    BY <1>15, FinishCallsMade
  <2>3. folder[f].listeners \in Nat
    <3>1. folder[f] \in FolderRecords
      BY <2>1 DEF Typed, TypeOK
    <3> QED  BY <3>1, SchedulerAssumption DEF FolderRecords, Listeners
  <2> QED  BY <1>0, <1>5, <2>1, <2>2, <2>3, FinishCallsTyped
<1>16. CASE SyncFinished
  BY <1>2, <1>6, <1>16 DEF SyncFinished, AfterSync
<1>17. CASE ClearCurrent \/ Start \/ ResetEngine \/ FollowUp \/ FinalizeVfsSwitch \/ Wipe
  BY <1>5, <1>17 DEF ClearCurrent, Start, ResetEngine, FollowUp, FinalizeVfsSwitch, Wipe
<1> QED
  BY <1>8, <1>10, <1>11, <1>13, <1>14, <1>15, <1>16, <1>17 DEF Run

LEMMA StackRun ==
    ASSUME Typed, Run
    PROVE  stack' \in Seq(GoodFrames)
<1> DEFINE f == stack[1].f
<1>0. ~Idle
  BY RunCalls
<1>1. /\ stack \in Seq(GoodFrames) /\ Tail(stack) \in Seq(GoodFrames)
      /\ stack[1].call \in FolderCalls => f \in Folders
      /\ stack[1].call \in Calls /\ stack[1] \in GoodFrames /\ f \in Folders \cup {NoFolder}
      /\ stack[1].arg \in 0 .. High
  BY <1>0, HeadTyped DEF Typed
<1>2. \A p \in Folders \cup {NoFolder} : \A call \in {"startNext", "popIgnored", "clearCurrent"} :
        Frame(call, p, 0) \in GoodFrames
  BY NullFrame DEF Calls, FolderCalls
<1>3. \A g \in Folders : \A arg \in 0 .. 3 :
        \A call \in Calls \ {"enqueueFolder"} : Frame(call, g, arg) \in GoodFrames
  BY FolderFrame DEF High
<1>4. \A g \in Folders : \A p \in Priorities : Frame("enqueueFolder", g, p) \in GoodFrames
  BY EnqueueFrame
<1>5. CASE Return
  BY <1>1, <1>5 DEF Return
<1>6. ASSUME NEW a \in GoodFrames, Call(<<a>>)
      PROVE  stack' \in Seq(GoodFrames)
  BY <1>0, <1>6, Lists, CallTyped
<1>7. ASSUME NEW a \in GoodFrames, NEW b \in GoodFrames, Call(<<a, b>>)
      PROVE  stack' \in Seq(GoodFrames)
  BY <1>0, <1>7, Lists, CallTyped
<1>9. CASE StartNext
  <2>1. \A e \in Tops(sched) : e[1] \in Folders /\ e[2] \in Priorities
    BY DEF Tops, Typed, TypeOK, Elements
  <2>2. \/ Return \/ UNCHANGED stack
        \/ Call(<<Frame("popIgnored", NoFolder, 0), stack[1]>>)
        \/ \E e \in Tops(sched) : \/ Call(<<Frame("enqueueFolder", e[1], e[2])>>)
                                  \/ Call(<<Frame("startSync", e[1], 0)>>)
    BY <1>9 DEF StartNext
  <2>3. \A e \in Tops(sched) : Frame("startSync", e[1], 0) \in GoodFrames
    BY <1>3, <2>1 DEF Calls
  <2> QED  BY <1>1, <1>2, <1>4, <1>5, <1>6, <1>7, <2>1, <2>2, <2>3
<1>12. CASE StartSync
  <2>1. f \in Folders
    BY <1>1, <1>12 DEF StartSync, On, FolderCalls, Calls
  <2>2. Frame("engineStart", f, 0) \in GoodFrames /\ Frame("enqueueFolder", f, Low) \in GoodFrames
    BY <1>3, <1>4, <2>1 DEF Calls, Priorities, Low, High
  <2>3. \/ Return
        \/ stack' = (<<Frame("enqueueFolder", f, Low)>> \o <<Frame("engineStart", f, 0)>>) \o Tail(stack)
        \/ stack' = (<<>> \o <<Frame("engineStart", f, 0)>>) \o Tail(stack)
    BY <1>12 DEF StartSync, Call
  <2>4. /\ <<Frame("enqueueFolder", f, Low)>> \o <<Frame("engineStart", f, 0)>>
            = <<Frame("enqueueFolder", f, Low), Frame("engineStart", f, 0)>>
        /\ <<>> \o <<Frame("engineStart", f, 0)>> = <<Frame("engineStart", f, 0)>>
    BY <2>2, Lists
  <2> QED  BY <1>5, <1>6, <1>7, <2>2, <2>3, <2>4 DEF Call
<1>13. CASE ~StartNext /\ ~StartSync
  <2>1. Made \subseteq GoodFrames
    BY DEF Made
  <2>2. ASSUME NEW frames \in Seq(Made), Call(frames)
        PROVE  stack' \in Seq(GoodFrames)
    <3>1. frames \in Seq(GoodFrames)
      BY <2>1, SeqMonotonic
    <3> QED  BY <1>0, <2>2, <3>1, CallTyped
  <2> QED  BY <1>1, <1>13, <2>2, RunMakes
<1> QED  BY <1>9, <1>12, <1>13

\* What a handler of the event loop calls.
Handed ==
    {fr \in GoodFrames : fr.call \in
       {"enqueueFolder", "startNext", "terminateCurrentSync", "start", "abort", "finalize",
        "down"}}

LEMMA LoopHands ==
    ASSUME Typed, LoopStep, \A f \in Folders : ~RemoveFolder(f)
    PROVE  Idle /\ stack' \in Seq(Handed)
<1> SUFFICES ASSUME Idle  PROVE stack' \in Seq(Handed)
  BY EventFrames DEF LoopStep, EngineStep, Interference
<1>0. stack = <<>> /\ stack \in Seq(Handed)
  BY DEF Idle
<1>1. /\ \A f \in Folders : \A p \in Priorities : Frame("enqueueFolder", f, p) \in Handed
      /\ Low \in Priorities /\ High \in Priorities /\ Low \in 0 .. 3
  BY EnqueueFrame DEF Priorities, Low, High, Handed
<1>2. \A f \in Folders : \A call \in {"finalize", "abort", "down"} :
        /\ Frame(call, f, 0) \in Handed
        /\ Frame(call, f, Flag(FALSE)) \in Handed
  BY FolderFrame DEF Calls, High, Flag, Handed
<1>3. \A f \in Folders \cup {NoFolder} :
        \A call \in {"startNext", "terminateCurrentSync", "start"} :
        Frame(call, f, 0) \in Handed
  BY NullFrame DEF Calls, FolderCalls, Handed
<1>4. Cur \in Folders \cup {NoFolder}
  BY DEF Typed, TypeOK, Cur
<1>5. \A S : \A a, b, c \in S : /\ <<>> \in Seq(S) /\ <<a>> \in Seq(S) /\ <<a, b>> \in Seq(S)
  OBVIOUS
<1>6. ASSUME NEW f \in Folders, DiscoveryFinished(f) \/ DiscoveryFailed(f) \/ RetryTimer(f)
                                \/ WatcherReports(f) \/ VfsStarted(f) \/ Delete(f)
      PROVE  stack' \in Seq(Handed)
  BY <1>1, <1>2, <1>3, <1>5, <1>6 DEF DiscoveryFinished, DiscoveryFailed, RetryTimer,
     WatcherReports, VfsStarted, Delete, Handle
<1>7. ASSUME NEW f \in Folders, WatcherDetects(f) \/ Resume(f) \/ ChangeVfsMode(f) \/ Pause(f)
      PROVE  stack' \in Seq(Handed)
  <2>1. CASE WatcherDetects(f) \/ Resume(f)
    BY <1>1, <1>5, <2>1 DEF WatcherDetects, Resume, Handle
  <2>2. CASE ChangeVfsMode(f)
    <3>1. \/ stack' = <<>>
          \/ stack' = <<Frame("terminateCurrentSync", f, 0), Frame("enqueueFolder", f, Low)>>
      BY <2>2 DEF ChangeVfsMode, Handle
    <3> QED  BY <1>1, <1>3, <1>5, <3>1
  <2>3. CASE Pause(f)
    <3>1. stack' = <<>> \/ stack' = <<Frame("terminateCurrentSync", f, 0)>>
      BY <2>3 DEF Pause, Handle
    <3> QED  BY <1>3, <1>5, <3>1
  <2> QED  BY <1>7, <2>1, <2>2, <2>3
<1>9. ASSUME NEW f \in Folders, ForceSync(f)
      PROVE  stack' \in Seq(Handed)
  <2> DEFINE a == IF Cur = NoFolder THEN <<>>
                  ELSE <<Frame("terminateCurrentSync", Cur, 0), Frame("enqueueFolder", Cur, Low)>>
             b == <<Frame("enqueueFolder", f, High), Frame("start", f, 0)>>
  <2>1. a \in Seq(Handed)
    BY <1>1, <1>3, <1>4, <1>5
  <2>2. b \in Seq(Handed)
    BY <1>1, <1>3, <1>5
  <2>3. stack' = a \o b
    BY <1>9 DEF ForceSync, Handle
  <2> HIDE DEF a, b
  <2> QED  BY <2>1, <2>2, <2>3, ConcatProperties
<1>10. ASSUME NEW a \in Accounts, AccountReady(a)
       PROVE  stack' \in Seq(Handed)
  <2> DEFINE S == {f \in Folders : AccountOf[f] = a /\ folder[f].life = "alive"}
  <2>1. CASE \E order \in Orders(S) :
               stack' = [i \in DOMAIN order |-> Frame("enqueueFolder", order[i], Low)]
    <3>1. PICK order \in Orders(S) :
            stack' = [i \in DOMAIN order |-> Frame("enqueueFolder", order[i], Low)]
      BY <2>1
    <3>2. /\ Cardinality(S) \in Nat /\ DOMAIN order = 1 .. Cardinality(S)
          /\ \A i \in DOMAIN order : order[i] \in S
      BY OrdersTyped
    <3>3. \A i \in 1 .. Cardinality(S) : Frame("enqueueFolder", order[i], Low) \in Handed
      BY <1>1, <3>2
    <3> HIDE DEF S
    <3> QED  BY <3>1, <3>2, <3>3, IsASeq
  <2>2. CASE stack' = <<>>
    BY <2>2, <1>5
  <2> QED  BY <1>10, <2>1, <2>2 DEF AccountReady, Handle
<1>11. CASE SlotPropagationFinished
  <2>1. posted \in Seq(Results) /\ posted # <<>>
    BY <1>11 DEF SlotPropagationFinished, Typed
  <2>2. posted[1] \in Handed /\ posted[1].f \in Folders
    <3>1. posted[1] \in Results
      BY <2>1
    <3> QED  BY <3>1 DEF Results, GoodFrames, FolderCalls, Calls, Handed
  <2>3. \/ stack' = stack \/ stack' = <<posted[1]>>
        \/ stack' = <<Frame("down", posted[1].f, 0)>>
    BY <1>11 DEF SlotPropagationFinished
  <2>4. Frame("down", posted[1].f, 0) \in Handed
    BY <1>2, <2>2
  <2> QED  BY <1>0, <2>2, <2>3, <2>4, <1>5
<1>12. CASE PostedStart \/ PauseAll \/ ResumeAll \/ MeteredChanged
            \/ (\E b \in BOOLEAN : SetPauseSyncWhenMetered(b))
            \/ (\E a \in Accounts : ServerUnsupported(a) \/ AccountLost(a))
            \/ (\E f \in Folders, p \in Requests : Request(f, p))
  <2>1. Requests \subseteq Priorities
    BY SchedulerAssumption DEF Typed, TypeOK, Requests, AllScenarios
  <2>2. \/ stack' = <<>>
        \/ stack' = <<Frame("startNext", NoFolder, 0)>>
        \/ stack' = <<Frame("terminateCurrentSync", NoFolder, 0)>>
        \/ stack' = <<Frame("start", NoFolder, 0)>>
        \/ \E f \in Folders, p \in Requests : stack' = <<Frame("enqueueFolder", f, p)>>
    BY <1>12 DEF PostedStart, PauseAll, ResumeAll, MeteredChanged,
       SetPauseSyncWhenMetered, ServerUnsupported, AccountLost, Request, Handle
  <2> QED  BY <1>1, <1>3, <1>5, <2>1, <2>2
<1>13. ASSUME NEW f \in Folders, PropagationEnds(f)
       PROVE  stack' \in Seq(Handed)
  BY <1>0, <1>13 DEF PropagationEnds
<1> QED
  BY <1>6, <1>7, <1>9, <1>10, <1>11, <1>12, <1>13
     DEF LoopStep, EngineStep, Interference

LEMMA RemoveHands ==
    ASSUME Typed, NEW f \in Folders, RemoveFolder(f)
    PROVE  /\ Idle /\ Frame("terminateCurrentSync", f, 0) \in GoodFrames
           /\ Frame("wipe", f, 0) \in GoodFrames
           /\ \/ stack' = <<Frame("terminateCurrentSync", f, 0), Frame("wipe", f, 0)>>
              \/ stack' = <<Frame("wipe", f, 0)>>
<1>1. Frame("terminateCurrentSync", f, 0) \in GoodFrames /\ Frame("wipe", f, 0) \in GoodFrames
  BY NullFrame, FolderFrame DEF Calls, FolderCalls, High
<1>2. \/ stack' = <<Frame("terminateCurrentSync", f, 0)>> \o <<Frame("wipe", f, 0)>>
      \/ stack' = <<>> \o <<Frame("wipe", f, 0)>>
  BY DEF RemoveFolder, Handle
<1>3. Idle
  BY DEF RemoveFolder, Handle
<1> QED  BY <1>1, <1>2, <1>3, Lists

LEMMA StackLoop ==
    ASSUME Typed, LoopStep
    PROVE  /\ Idle /\ stack' \in Seq(GoodFrames)
           /\ \A i \in 1 .. Len(stack') :
                stack'[i].call \in {"enqueueFolder", "startNext", "terminateCurrentSync",
                                   "start", "abort", "finalize", "wipe", "down"}
<1>1. CASE \A f \in Folders : ~RemoveFolder(f)
  <2>1. Idle /\ stack' \in Seq(Handed)
    BY <1>1, LoopHands
  <2>2. Handed \subseteq GoodFrames
    BY DEF Handed
  <2>3. stack' \in Seq(GoodFrames)
    BY <2>1, <2>2, SeqMonotonic
  <2>4. \A i \in 1 .. Len(stack') : stack'[i] \in Handed
    BY <2>1
  <2> QED  BY <2>1, <2>3, <2>4 DEF Handed
<1>2. ASSUME NEW f \in Folders, RemoveFolder(f)
      PROVE  /\ Idle /\ stack' \in Seq(GoodFrames)
             /\ \A i \in 1 .. Len(stack') : stack'[i].call \in {"terminateCurrentSync", "wipe"}
  <2> DEFINE t == Frame("terminateCurrentSync", f, 0)  w == Frame("wipe", f, 0)
  <2>1. /\ Idle /\ t \in GoodFrames /\ w \in GoodFrames
        /\ stack' = <<t, w>> \/ stack' = <<w>>
    BY <1>2, RemoveHands
  <2>2. t.call = "terminateCurrentSync" /\ w.call = "wipe"
    BY DEF Frame
  <2> HIDE DEF t, w
  <2>3. \/ Len(stack') = 2 /\ stack'[1] = t /\ stack'[2] = w
        \/ Len(stack') = 1 /\ stack'[1] = w
    BY <2>1
  <2>4. \A i \in 1 .. Len(stack') : stack'[i] \in {t, w}
    BY <2>3
  <2>5. stack' \in Seq(GoodFrames)
    <3>1. <<t, w>> \in Seq(GoodFrames) /\ <<w>> \in Seq(GoodFrames)
      BY <2>1
    <3> QED  BY <2>1, <3>1
  <2> QED  BY <2>1, <2>2, <2>4, <2>5
<1> QED  BY <1>1, <1>2

LEMMA PostedStep ==
    ASSUME Typed, [Next]_vars
    PROVE  posted' \in Seq(Results) /\ Len(posted') \in Nat /\ Len(posted') <= MaxPosted
<1>0. posted \in Seq(Results) /\ Len(posted) <= MaxPosted /\ Len(posted) \in Nat
      /\ MaxPosted \in Nat
  BY SchedulerAssumption, LenProperties DEF Typed, TypeOK
<1>1. CASE posted' = posted
  BY <1>0, <1>1
<1>2. CASE SlotPropagationFinished
  <2>1. posted # <<>> /\ posted' = Tail(posted)
    BY <1>2 DEF SlotPropagationFinished
  <2> QED  BY <1>0, <2>1, HeadTailProperties
<1>3. ASSUME NEW f \in Folders, PropagationEnds(f)
      PROVE  posted' \in Seq(Results) /\ Len(posted') \in Nat /\ Len(posted') <= MaxPosted
  <2>1. PICK ok \in BOOLEAN : posted' = Append(posted, Frame("finalize", f, Flag(ok)))
    BY <1>3 DEF PropagationEnds
  <2>2. Frame("finalize", f, Flag(ok)) \in Results
    BY FolderFrame DEF Results, Calls, Flag, High
  <2>3. Len(posted) < MaxPosted
    BY <1>3 DEF PropagationEnds
  <2> QED  BY <1>0, <2>1, <2>2, <2>3, AppendProperties
<1> QED
  BY <1>1, <1>2, <1>3, PostedWriters

\* A step runs the next call of a handler, or is one of the event loop.
LEMMA NextSplit == Next => Run \/ LoopStep
BY DEF Next, LoopStep

LEMMA PausedLife ==
    ASSUME Typed, NEW S, NEW g \in Folders
    PROVE  Paused(S)[g].life = folder[g].life
<1>1. folder[g] \in FolderRecords
  BY DEF Typed, TypeOK
<1>2. Paused(S)[g] = IF g \in S /\ ~folder[g].paused
                       THEN [folder[g] EXCEPT !.paused = TRUE, !.state = "Paused"]
                       ELSE folder[g]
  BY DEF Paused
<1> QED  BY <1>1, <1>2 DEF FolderRecords

\* A folder lives until it is wiped, and is deleted by a later event.
LEMMA LivesStep ==
    ASSUME Typed, [Next]_vars, NEW g \in Folders
    PROVE  \/ folder'[g].life = folder[g].life
           \/ Wipe /\ stack[1].f = g /\ folder'[g].life = "removed"
           \/ /\ folder[g].life = "removed" /\ folder'[g].life = "deleted"
              /\ Delete(g)
<1>1. folder \in [Folders -> FolderRecords] /\ \A h \in Folders : folder[h] \in FolderRecords
  BY DEF Typed, TypeOK
<1>2. CASE folder' = folder
  BY <1>2
<1>3. CASE EnqueueFolder \/ StartNext \/ StartSync
  <2>1. CASE EnqueueFolder
    BY <1>1, <2>1 DEF EnqueueFolder, FolderRecords
  <2>2. CASE StartNext
    <3>1. \/ folder' = folder
          \/ \E f : folder' = [folder EXCEPT ![f].listeners = IF @ < MaxListeners THEN @ + 1 ELSE @]
      BY <2>2 DEF StartNext
    <3> QED  BY <1>1, <3>1 DEF FolderRecords
  <2>3. CASE StartSync
    BY <1>1, <2>3 DEF StartSync, FolderRecords
  <2> QED  BY <1>3, <2>1, <2>2, <2>3
<1>4. CASE EngineStart \/ Abort \/ SlotSyncFinished \/ FollowUp
  <2>1. CASE EngineStart
    BY <1>1, <2>1 DEF EngineStart, FolderRecords
  <2>2. CASE Abort
    BY <1>1, <2>2 DEF Abort, FolderRecords
  <2>3. CASE SlotSyncFinished
    <3> DEFINE f == stack[1].f
               status == FinishedStatus(f)
               fails == IF status = "Success" THEN 0 ELSE Capped(folder[f].fails)
    <3>1. \/ folder' = folder
          \/ folder' = [folder EXCEPT ![f].state = status, ![f].fails = fails,
                                      ![f].listeners = 0]
      BY <2>3 DEF SlotSyncFinished
    <3> HIDE DEF f, status, fails
    <3> QED  BY <1>1, <3>1 DEF FolderRecords
  <2>4. CASE FollowUp
    <3>1. \E f, count, again :
            folder' = [folder EXCEPT ![f].followUps = count,
                                     ![f].timer = @ \/ (again /\ CanSync(f))]
      BY <2>4 DEF FollowUp
    <3> QED  BY <1>1, <3>1 DEF FolderRecords
  <2> QED  BY <1>4, <2>1, <2>2, <2>3, <2>4
<1>5. CASE FinalizeVfsSwitch
  <2>1. \E f, resume : folder' = SwitchedVfs(folder, f, resume)
    BY <1>5 DEF FinalizeVfsSwitch
  <2> QED  BY <1>1, <2>1 DEF SwitchedVfs, FolderRecords
<1>6. CASE Wipe
  <2>1. folder' = Wiped(folder, stack[1].f) /\ stack[1].f \in Folders
    BY <1>6, HeadTyped DEF Wipe, On, Idle, FolderCalls, Calls
  <2> QED  BY <1>1, <1>6, <2>1, WipedUpdates
<1>7. ASSUME NEW f \in Folders, DiscoveryFinished(f) \/ PropagationEnds(f) \/ RetryTimer(f)
      PROVE  folder'[g].life = folder[g].life
  <2>1. CASE DiscoveryFinished(f)
    BY <1>1, <2>1 DEF DiscoveryFinished, FolderRecords
  <2>2. CASE PropagationEnds(f)
    BY <1>1, <2>2 DEF PropagationEnds, FolderRecords
  <2>3. CASE RetryTimer(f)
    BY <1>1, <2>3 DEF RetryTimer, FolderRecords
  <2> QED  BY <1>7, <2>1, <2>2, <2>3
<1>8. ASSUME NEW f \in Folders, WatcherDetects(f) \/ WatcherReports(f) \/ VfsStarted(f)
      PROVE  folder'[g].life = folder[g].life
  <2>1. CASE WatcherDetects(f)
    <3> DEFINE st == IF CanSync(f) /\ ~isSyncRunning(f) THEN "Queued" ELSE folder[f].state
    <3>1. folder' = [folder EXCEPT ![f] = [@ EXCEPT !.changed = TRUE, !.state = st]]
      BY <1>1, <2>1 DEF WatcherDetects, FolderRecords
    <3> HIDE DEF st
    <3> QED  BY <1>1, <3>1 DEF FolderRecords
  <2>2. CASE WatcherReports(f)
    <3>1. PICK real \in BOOLEAN :
            folder' = [folder EXCEPT ![f].changed = FALSE,
                                     ![f].state = IF /\ ~real /\ folder[f].ready
                                                     /\ @ = "Queued" /\ f \in Queued
                                                    THEN "Success" ELSE @]
      BY <2>2 DEF WatcherReports
    <3> QED  BY <1>1, <3>1 DEF FolderRecords
  <2>3. CASE VfsStarted(f)
    BY <1>1, <2>3 DEF VfsStarted, FolderRecords
  <2> QED  BY <1>8, <2>1, <2>2, <2>3
<1>9. ASSUME NEW f \in Folders, Delete(f)
      PROVE  \/ folder'[g].life = folder[g].life
             \/ f = g /\ folder[g].life = "removed" /\ folder'[g].life = "deleted"
  BY <1>1, <1>9 DEF Delete, FolderRecords
<1>10. ASSUME NEW f \in Folders, Pause(f) \/ Resume(f)
       PROVE  folder'[g].life = folder[g].life
  <2>1. CASE Pause(f)
    BY <2>1, PausedLife DEF Pause
  <2>2. CASE Resume(f)
    BY <1>1, <2>2 DEF Resume, FolderRecords
  <2> QED  BY <1>10, <2>1, <2>2
<1>11. ASSUME NEW a \in Accounts, ServerUnsupported(a)
       PROVE  folder'[g].life = folder[g].life
  BY <1>11, PausedLife DEF ServerUnsupported
<1>12. ASSUME NEW f \in Folders, ChangeVfsMode(f)
       PROVE  folder'[g].life = folder[g].life
  <2> DEFINE P == Paused({f})
  <2>1. P \in [Folders -> FolderRecords] /\ P[g] \in FolderRecords
    BY <1>1, PausedTyped
  <2>2. P[g].life = folder[g].life
    BY PausedLife
  <2>3. CASE \E switch : folder' = [P EXCEPT ![f].switch = switch]
    BY <2>1, <2>2, <2>3 DEF FolderRecords
  <2> HIDE DEF P
  <2>4. CASE \E resume : folder' = SwitchedVfs(P, f, resume)
    BY <2>1, <2>2, <2>4 DEF SwitchedVfs, FolderRecords
  <2> QED  BY <1>12, <2>3, <2>4 DEF ChangeVfsMode, P
<1> QED
  BY <1>2, <1>3, <1>4, <1>5, <1>6, <1>7, <1>8, <1>9, <1>10, <1>11, <1>12, FolderWriters

\* A folder becomes the current sync, or has a retry ahead, only if it can sync.
LEMMA CurStep ==
    ASSUME Typed, QueueAgrees, [Next]_vars, NEW g \in Folders, Cur' = g
    PROVE  Cur = g \/ CanSync(g)
<1>0. sched \in Scheds /\ AgreesIn(sched) /\ NoFolder \notin Folders
  BY SchedulerAssumption DEF Typed, TypeOK, Scheds, Maps, QueueAgrees, AgreesIn, Queued
<1>1. ASSUME NEW s \in Scheds, NEW c
      PROVE  [s EXCEPT !.cur = c].cur = c
  BY DEF Scheds
<1>2. CASE sched' = sched
  BY <1>2 DEF Cur
<1>3. CASE EnqueueFolder
  <2> DEFINE t == Enqueued(sched, stack[1].f, stack[1].arg)
  <2>1. stack[1].f \in Folders /\ stack[1].arg \in Priorities
    BY <1>3, HeadTyped DEF EnqueueFolder, On, Idle
  <2>2. t \in Scheds /\ t.cur = sched.cur
    BY <1>0, <2>1, EnqueuedTyped, EnqueuedAgrees
  <2>3. sched' = sched \/ sched' = t \/ sched' = [t EXCEPT !.cur = NoFolder]
    BY <1>3 DEF EnqueueFolder
  <2> HIDE DEF t
  <2> QED  BY <1>0, <1>1, <2>2, <2>3 DEF Cur
<1>4. CASE StartNext
  <2>1. CASE sched' # sched
    <3>1. PICK e \in Tops(sched) :
            \/ sched' = Popped(sched, e)
            \/ CanSync(e[1]) /\ sched' = [Popped(sched, e) EXCEPT !.cur = e[1]]
      BY <1>4, <2>1 DEF StartNext, Declined, CanSync
    <3>2. Popped(sched, e) \in Scheds /\ Popped(sched, e).cur = sched.cur
      BY <1>0, PoppedAgrees DEF Tops
    <3> QED  BY <1>1, <3>1, <3>2 DEF Cur
  <2> QED  BY <1>2, <2>1
<1>5. CASE PopIgnored
  <2>1. sched' = sched \/ \E e \in sched.queue : sched' = Popped(sched, e)
    BY <1>5 DEF PopIgnored, Tops
  <2> QED  BY <1>0, <2>1, PoppedAgrees DEF Cur
<1>6. CASE ClearCurrent \/ SyncFinished \/ \E f \in Folders : Delete(f)
  <2>1. sched' = sched \/ sched' = [sched EXCEPT !.cur = NoFolder]
    BY <1>6 DEF ClearCurrent, SyncFinished, Delete
  <2> QED  BY <1>0, <1>1, <2>1 DEF Cur
<1>7. CASE PauseAll \/ Start \/ PostedStart \/ \E f \in Folders : ForceSync(f)
  BY <1>0, <1>7, FlagsWritten DEF Cur
<1> QED
  BY <1>2, <1>3, <1>4, <1>5, <1>6, <1>7, SchedWriters

\* What pauses and restarts folders leaves their timers alone.
LEMMA PausedTimer ==
    ASSUME Typed, NEW S, NEW g \in Folders
    PROVE  Paused(S)[g].timer = folder[g].timer
<1>1. folder[g] \in FolderRecords
  BY DEF Typed, TypeOK
<1>2. Paused(S)[g] = IF g \in S /\ ~folder[g].paused
                       THEN [folder[g] EXCEPT !.paused = TRUE, !.state = "Paused"]
                       ELSE folder[g]
  BY DEF Paused
<1> QED  BY <1>1, <1>2 DEF FolderRecords

LEMMA TimerStep ==
    ASSUME Typed, [Next]_vars, NEW g \in Folders, folder'[g].timer, ~CanSync(g)
    PROVE  folder[g].timer
<1>1. folder \in [Folders -> FolderRecords] /\ \A h \in Folders : folder[h] \in FolderRecords
  BY DEF Typed, TypeOK
<1>2. CASE folder' = folder
  BY <1>2
<1>3. CASE EnqueueFolder \/ StartNext \/ StartSync
  <2>1. CASE EnqueueFolder
    BY <1>1, <2>1 DEF EnqueueFolder, FolderRecords
  <2>2. CASE StartNext
    <3>1. \/ folder' = folder
          \/ \E f : folder' = [folder EXCEPT ![f].listeners = IF @ < MaxListeners THEN @ + 1 ELSE @]
      BY <2>2 DEF StartNext
    <3> QED  BY <1>1, <3>1 DEF FolderRecords
  <2>3. CASE StartSync
    BY <1>1, <2>3 DEF StartSync, FolderRecords
  <2> QED  BY <1>3, <2>1, <2>2, <2>3
<1>4. CASE EngineStart \/ Abort \/ SlotSyncFinished
  <2>1. CASE EngineStart
    BY <1>1, <2>1 DEF EngineStart, FolderRecords
  <2>2. CASE Abort
    BY <1>1, <2>2 DEF Abort, FolderRecords
  <2>3. CASE SlotSyncFinished
    <3> DEFINE f == stack[1].f
               status == FinishedStatus(f)
               fails == IF status = "Success" THEN 0 ELSE Capped(folder[f].fails)
    <3>1. \/ folder' = folder
          \/ folder' = [folder EXCEPT ![f].state = status, ![f].fails = fails,
                                      ![f].listeners = 0]
      BY <2>3 DEF SlotSyncFinished
    <3> HIDE DEF f, status, fails
    <3> QED  BY <1>1, <3>1 DEF FolderRecords
  <2> QED  BY <1>4, <2>1, <2>2, <2>3
<1>5. CASE FollowUp
  <2> DEFINE f == stack[1].f
             count == IF engine[f].another THEN Capped(folder[f].followUps) ELSE 0
             again == \/ stack[1].arg = Flag(TRUE)
                      \/ engine[f].another /\ count <= retrySyncLimitC
             timer == folder[f].timer \/ (again /\ CanSync(f))
             r == [folder[f] EXCEPT !.followUps = count, !.timer = timer]
  <2>1. f \in Folders
    BY <1>5, HeadTyped DEF FollowUp, On, Idle, FolderCalls, Calls
  <2>2. folder' = [folder EXCEPT ![f] = r]
    BY <1>1, <1>5, <2>1 DEF FollowUp
  <2>3. folder[f] \in FolderRecords /\ (f = g => (timer => folder[g].timer))
    BY <1>1, <2>1
  <2> HIDE DEF f, count, timer
  <2>4. r.timer = timer
    BY <2>3 DEF FolderRecords
  <2> HIDE DEF r
  <2>5. folder'[g] = IF f = g THEN r ELSE folder[g]
    BY <1>1, <2>1, <2>2
  <2> QED  BY <2>3, <2>4, <2>5
<1>6. CASE FinalizeVfsSwitch
  <2>1. \E f, resume : folder' = SwitchedVfs(folder, f, resume)
    BY <1>6 DEF FinalizeVfsSwitch
  <2> QED  BY <1>1, <2>1 DEF SwitchedVfs, FolderRecords
<1>7. CASE Wipe
  <2> DEFINE f == stack[1].f
  <2>1. folder' = Wiped(folder, f) /\ f \in Folders
    BY <1>7, HeadTyped DEF Wipe, On, Idle, FolderCalls, Calls
  <2> HIDE DEF f
  <2>2. folder' = [folder EXCEPT ![f] = WipedRecord(folder[f])]
    BY <1>1, <2>1 DEF Wiped, WipedRecord, FolderRecords
  <2>3. WipedRecord(folder[f]).timer = folder[f].timer
    BY <1>1, <2>1 DEF WipedRecord, FolderRecords
  <2> QED  BY <1>1, <2>1, <2>2, <2>3
<1>8. ASSUME NEW f \in Folders,
             \/ DiscoveryFinished(f) \/ PropagationEnds(f) \/ RetryTimer(f)
             \/ WatcherReports(f) \/ VfsStarted(f) \/ WatcherDetects(f)
      PROVE  folder[g].timer
  <2>1. CASE DiscoveryFinished(f)
    BY <1>1, <2>1 DEF DiscoveryFinished, FolderRecords
  <2>2. CASE PropagationEnds(f)
    BY <1>1, <2>2 DEF PropagationEnds, FolderRecords
  <2>3. CASE RetryTimer(f)
    BY <1>1, <2>3 DEF RetryTimer, FolderRecords
  <2>4. CASE WatcherDetects(f)
    <3>1. \E st : folder' = [folder EXCEPT ![f].changed = TRUE, ![f].state = st]
      BY <2>4 DEF WatcherDetects
    <3> QED  BY <1>1, <3>1 DEF FolderRecords
  <2>5. CASE WatcherReports(f)
    <3>1. \E st : folder' = [folder EXCEPT ![f].changed = FALSE, ![f].state = st]
      <4>1. PICK real \in BOOLEAN :
              folder' = [folder EXCEPT ![f].changed = FALSE,
                                       ![f].state = IF /\ ~real /\ folder[f].ready
                                                       /\ @ = "Queued" /\ f \in Queued
                                                      THEN "Success" ELSE @]
        BY <2>5 DEF WatcherReports
      <4> QED  BY <1>1, <4>1
    <3> QED  BY <1>1, <3>1 DEF FolderRecords
  <2>6. CASE VfsStarted(f)
    BY <1>1, <2>6 DEF VfsStarted, FolderRecords
  <2> QED  BY <1>8, <2>1, <2>2, <2>3, <2>4, <2>5, <2>6
<1>9. ASSUME NEW f \in Folders, Delete(f)
      PROVE  folder[g].timer
  BY <1>1, <1>9 DEF Delete, FolderRecords
<1>10. ASSUME NEW f \in Folders, Pause(f) \/ Resume(f)
       PROVE  folder[g].timer
  <2>1. CASE Pause(f)
    BY <2>1, PausedTimer DEF Pause
  <2>2. CASE Resume(f)
    BY <1>1, <2>2 DEF Resume, FolderRecords
  <2> QED  BY <1>10, <2>1, <2>2
<1>11. ASSUME NEW a \in Accounts, ServerUnsupported(a)
       PROVE  folder[g].timer
  BY <1>11, PausedTimer DEF ServerUnsupported
<1>12. ASSUME NEW f \in Folders, ChangeVfsMode(f)
       PROVE  folder[g].timer
  <2> DEFINE P == Paused({f})
  <2>1. P \in [Folders -> FolderRecords] /\ P[g] \in FolderRecords
    BY <1>1, PausedTyped
  <2>2. P[g].timer = folder[g].timer
    BY PausedTimer
  <2>3. CASE \E switch : folder' = [P EXCEPT ![f].switch = switch]
    BY <2>1, <2>2, <2>3 DEF FolderRecords
  <2> HIDE DEF P
  <2>4. CASE \E resume : folder' = SwitchedVfs(P, f, resume)
    BY <2>1, <2>2, <2>4 DEF SwitchedVfs, FolderRecords
  <2> QED  BY <1>12, <2>3, <2>4 DEF ChangeVfsMode, P
<1> QED
  BY <1>2, <1>3, <1>4, <1>5, <1>6, <1>7, <1>8, <1>9, <1>10, <1>11, <1>12, FolderWriters

\* Nothing but the queue points to a folder that is deleted.
LEMMA DeletedStep ==
    ASSUME Typed, QueueAgrees, [Next]_vars
    PROVE  DeletedIsGone'
<1> SUFFICES ASSUME NEW g \in Folders, folder'[g].life = "deleted"
             PROVE  Cur' # g /\ ~folder'[g].timer
  BY DEF DeletedIsGone
<1>1. CASE folder[g].life = "deleted"
  <2>1. Cur # g /\ ~folder[g].timer /\ ~CanSync(g)
    BY <1>1 DEF Typed, TypeOK, DeletedIsGone, CanSync
  <2> QED  BY <2>1, CurStep, TimerStep
<1>2. CASE Delete(g)
  <2>1. ~folder'[g].timer
    BY <1>2 DEF Delete, Typed, TypeOK, FolderRecords
  <2>2. Cur' = NoFolder \/ (Cur # g /\ Cur' = Cur)
    BY <1>2 DEF Delete, Cur, Typed, TypeOK
  <2> QED  BY <2>1, <2>2, SchedulerAssumption
<1> QED  BY <1>1, <1>2, LivesStep

\* Every step keeps the types and the agreement of queue and map.
LEMMA TypedStep ==
    ASSUME Typed, QueueAgrees, [Next]_vars
    PROVE  Typed' /\ QueueAgrees'
<1>1. Records'
  <2>1. CASE Run
    BY <2>1, RecordsRun
  <2>2. CASE LoopStep
    BY <2>2, RecordsLoop
  <2>3. CASE UNCHANGED vars
    <3>1. Records
      BY DEF Typed, TypeOK, Records
    <3> QED  BY <2>3, <3>1 DEF vars, Records, FolderRecords, EngineRecords, Counts, retrySyncLimitC
  <2> QED  BY <2>1, <2>2, <2>3, NextSplit
<1>2. stack' \in Seq(GoodFrames)
  <2>1. CASE UNCHANGED vars
    BY <2>1 DEF vars, Typed
  <2> QED  BY <2>1, StackLoop, StackRun, NextSplit
<1>3. posted' \in Seq(Results) /\ Len(posted') <= MaxPosted
  BY PostedStep
<1>4. sched' \in Scheds /\ QueueAgrees'
  BY SchedStep
<1>5. GoodFrames \subseteq Frames /\ Results \subseteq Frames
  BY DEF GoodFrames, Results
<1>6. stack' \in Seq(Frames) /\ posted' \in Seq(Frames)
  BY <1>2, <1>3, <1>5, SeqMonotonic
<1>7. TypeOK'
  BY <1>1, <1>3, <1>4, <1>6, DeletedStep DEF TypeOK, Records, Scheds, Maps
<1> QED  BY <1>2, <1>3, <1>4, <1>7 DEF Typed

\* At the start nothing runs and nothing waits.
LEMMA TypedInit == Init => Typed /\ QueueAgrees
<1> SUFFICES ASSUME Init  PROVE Typed /\ QueueAgrees
  OBVIOUS
<1>1. [f \in {} |-> Low] \in Maps /\ DOMAIN [f \in {} |-> Low] = {}
  <2>1. [f \in {} |-> Low] \in [{} -> Priorities] /\ {} \in SUBSET Folders
    OBVIOUS
  <2> QED  BY <2>1, MapsTyped
<1>2. sched \in Scheds /\ sched.queue = {} /\ Queued = {}
  BY <1>1 DEF Init, Scheds, Queued
<1>3. net \in [ready : [Accounts -> BOOLEAN], pause : BOOLEAN,
               metered : BOOLEAN, scenario : Scenarios]
  <2>1. [a \in Accounts |-> FALSE] \in [Accounts -> BOOLEAN]
    OBVIOUS
  <2> QED  BY <2>1 DEF Init
<1>4. retrySyncLimitC \in Nat
  BY <1>3, SchedulerAssumption DEF AllScenarios, retrySyncLimitC
<1>5. folder \in [Folders -> FolderRecords]
  <2>1. 0 \in Counts
    BY <1>4, CountsTyped
  <2> QED  BY <2>1, Values DEF Init, FolderRecords
<1>6. engine \in [Folders -> EngineRecords]
  BY Values DEF Init, EngineRecords
<1>7. posted = <<>> /\ stack = <<>>
  BY DEF Init
<1>8. \A S : <<>> \in Seq(S) /\ Len(<<>>) = 0
  OBVIOUS
<1>8a. DeletedIsGone
  <2>1. Cur = NoFolder /\ \A f \in Folders : ~folder[f].timer
    BY DEF Init, Cur
  <2> QED  BY <2>1, SchedulerAssumption DEF DeletedIsGone
<1>9. Typed
  BY <1>2, <1>3, <1>5, <1>6, <1>7, <1>8, <1>8a, SchedulerAssumption
     DEF Typed, TypeOK, Scheds, Maps
<1> QED  BY <1>2, <1>9 DEF QueueAgrees

\* Types: every variable keeps its type, and the priority queue and the map
\* beside it (FolderPriorityQueue) hold the same folders with the same priorities.
THEOREM TypeCorrect == Spec => []TypeOK
<1>1. Init => Typed /\ QueueAgrees
  BY TypedInit
<1>2. (Typed /\ QueueAgrees) /\ [Next]_vars => (Typed /\ QueueAgrees)'
  BY TypedStep
<1>3. Typed => TypeOK
  BY DEF Typed
<1> QED  BY <1>1, <1>2, <1>3, PTL DEF Spec

\* The heap of FolderPriorityQueue and its map hold the same folders with the
\* same priorities, and no folder twice.
THEOREM QueueIsOne == Spec => []QueueAgrees
<1>1. Init => Typed /\ QueueAgrees
  BY TypedInit
<1>2. (Typed /\ QueueAgrees) /\ [Next]_vars => (Typed /\ QueueAgrees)'
  BY TypedStep
<1> QED  BY <1>1, <1>2, PTL DEF Spec

----------------------------------------------------------------------------
\* The order of the calls, in every scenario.

\* Where the calls of the next stack come from.
LEMMA Pushed ==
    ASSUME Typed, ~Idle, NEW frames \in Seq(Made), Call(frames)
    PROVE  /\ Len(frames) \in Nat /\ Len(stack) \in Nat \ {0}
           /\ stack' \in Seq(GoodFrames) /\ Len(stack') = Len(frames) + Len(stack) - 1
           /\ \A i \in 1 .. Len(frames) : stack'[i] \in Made
           /\ \A i \in Len(frames) + 1 .. Len(stack') :
                stack'[i] = stack[i - Len(frames) + 1]
<1>1. /\ stack \in Seq(GoodFrames) /\ stack # <<>>
      /\ Made \subseteq GoodFrames
  BY DEF Typed, Idle, Made
<1>2. frames \in Seq(GoodFrames)
  BY <1>1, SeqMonotonic
<1>3. Len(frames) \in Nat /\ Len(stack) \in Nat \ {0}
  BY <1>1, LenProperties, EmptySeq
<1>4. \A i \in 1 .. Len(frames) : frames[i] \in Made
  OBVIOUS
<1> QED  BY <1>1, <1>2, <1>3, <1>4, Replaced DEF Call

\* The running call is the one its action is named for.
LEMMA OtherCalls ==
    ASSUME Typed, Run, ~StartNext, ~StartSync, ~EnqueueFolder
    PROVE  stack[1].call \notin {"startNext", "startSync", "enqueueFolder"}
BY RunFrames DEF Run, On

\* A folder is asked to start only as what was taken from the queue.
LEMMA StartsInTurnStep ==
    ASSUME Typed, StartsInTurn, [Next]_vars
    PROVE  StartsInTurn'
<1>1. CASE UNCHANGED vars
  BY <1>1 DEF vars, StartsInTurn, Starting, On, isSyncRunning, Cur
<1>2. CASE LoopStep
  <2>1. stack' \in Seq(GoodFrames)
    BY <1>2, StackLoop
  <2>2. \A i \in 1 .. Len(stack') :
          stack'[i].call \notin {"startSync", "engineStart", "popIgnored"}
    BY <1>2, StackLoop
  <2>3. stack' # <<>> => 1 \in 1 .. Len(stack')
    BY <2>1, LenProperties, EmptySeq
  <2> QED  BY <2>2, <2>3 DEF StartsInTurn, On
<1>3. ASSUME Run, stack[1].call # "enqueueFolder"
      PROVE  \A i \in 2 .. Len(stack) :
               stack[i].call \notin {"startSync", "engineStart", "popIgnored"}
  BY <1>3 DEF StartsInTurn, On
<1>4. CASE Run /\ ~StartNext /\ ~StartSync /\ ~EnqueueFolder
  <2>1. /\ ~Idle /\ stack \in Seq(GoodFrames) /\ Len(stack) \in Nat
        /\ stack[1].call # "enqueueFolder"
    BY <1>4, RunCalls, OtherCalls, LenProperties DEF Typed
  <2>2. CASE PopIgnored /\ stack' = stack
    <3>1. On("popIgnored")
      BY <2>2 DEF PopIgnored
    <3> QED  BY <1>3, <1>4, <2>1, <2>2, <3>1 DEF StartsInTurn, On
  <2>3. ASSUME NEW frames \in Seq(Made), Call(frames)
        PROVE  StartsInTurn'
    <3>1. /\ Len(frames) \in Nat /\ Len(stack) \in Nat \ {0}
          /\ stack' \in Seq(GoodFrames) /\ Len(stack') = Len(frames) + Len(stack) - 1
          /\ \A i \in 1 .. Len(frames) : stack'[i] \in Made
          /\ \A i \in Len(frames) + 1 .. Len(stack') :
               stack'[i] = stack[i - Len(frames) + 1]
      BY <2>1, <2>3, Pushed
    <3>2. \A i \in 1 .. Len(stack') :
            stack'[i].call \notin {"startSync", "engineStart", "popIgnored"}
      <4>1. \A i \in 1 .. Len(frames) :
              stack'[i].call \notin {"startSync", "engineStart", "popIgnored"}
        BY <3>1 DEF Made
      <4>2. \A i \in Len(frames) + 1 .. Len(stack') : i - Len(frames) + 1 \in 2 .. Len(stack)
        BY <3>1
      <4>3. \A i \in Len(frames) + 1 .. Len(stack') :
              stack'[i].call \notin {"startSync", "engineStart", "popIgnored"}
        BY <1>3, <1>4, <2>1, <3>1, <4>2
      <4>4. \A i \in 1 .. Len(stack') :
              i \in 1 .. Len(frames) \/ i \in Len(frames) + 1 .. Len(stack')
        BY <3>1
      <4> QED  BY <4>1, <4>3, <4>4
    <3>3. stack' # <<>> => 1 \in 1 .. Len(stack')
      BY <3>1, LenProperties, EmptySeq
    <3> QED  BY <3>2, <3>3 DEF StartsInTurn, On
  <2> QED  BY <1>4, <2>2, <2>3, RunMakes
<1>5. CASE EnqueueFolder
  <2> DEFINE f == stack[1].f
  <2>0. /\ ~Idle /\ f \in Folders /\ On("enqueueFolder")
        /\ stack \in Seq(GoodFrames) /\ stack # <<>> /\ Len(stack) \in Nat \ {0}
    <3>1. stack \in Seq(GoodFrames) /\ stack # <<>>
      BY <1>5 DEF EnqueueFolder, On, Typed
    <3> QED  BY <1>5, <3>1, HeadTyped, LenProperties, EmptySeq DEF EnqueueFolder, On, Idle
  <2>1. \A i \in 2 .. Len(stack) :
          /\ stack[i].call \notin {"startSync", "popIgnored"}
          /\ stack[i].call = "engineStart" => i = 2 /\ Starting(stack[i].f)
    BY DEF StartsInTurn
  <2>2. CASE Return
    <3>1. /\ stack' \in Seq(GoodFrames) /\ Len(stack') = Len(stack) - 1
          /\ \A i \in 1 .. Len(stack) - 1 : stack'[i] = stack[i + 1]
      BY <2>0, <2>2, Returned DEF Return
    <3>2. stack' # <<>> => 1 \in 1 .. Len(stack') /\ 2 \in 2 .. Len(stack) /\ stack'[1] = stack[2]
      BY <2>0, <3>1, EmptySeq
    <3>3. \A i \in 2 .. Len(stack') : i + 1 \in 3 .. Len(stack) /\ stack'[i] = stack[i + 1]
      BY <2>0, <3>1
    <3>4. \A i \in 2 .. Len(stack') :
            stack'[i].call \notin {"startSync", "engineStart", "popIgnored"}
      BY <2>0, <2>1, <3>3
    <3>5. ASSUME stack' # <<>>, stack[2].call = "engineStart"
          PROVE  /\ sched'.cur = stack[2].f /\ folder'[stack[2].f].state = "SyncRunning"
                 /\ ~folder'[stack[2].f].paused
      <4> DEFINE g == stack[2].f
      <4>1. Starting(g) /\ Cur = g /\ isSyncRunning(Cur) /\ g \in Folders
        <5>1. Starting(g)
          BY <2>1, <3>2, <3>5
        <5>2. stack[2] \in GoodFrames
          BY <2>0, <3>2, <3>5
        <5> QED  BY <3>5, <5>1, <5>2 DEF Starting, GoodFrames, FolderCalls, Calls
      <4>2. Busy
        BY <4>1, SchedulerAssumption DEF Busy, Cur
      <4>3. folder' = folder \/ (f # Cur /\ folder' = [folder EXCEPT ![f].state = "Queued"])
        BY <1>5 DEF EnqueueFolder
      <4>4. sched'.cur = sched.cur
        <5>1. \/ sched' = sched \/ sched' = Enqueued(sched, f, stack[1].arg)
          BY <1>5, <4>1, <4>2 DEF EnqueueFolder
        <5>2. sched \in Scheds
          BY DEF Typed, TypeOK, Scheds, Maps
        <5>3. Enqueued(sched, f, stack[1].arg).cur = sched.cur
          BY <5>2 DEF Enqueued, Scheds
        <5> QED  BY <5>1, <5>3
      <4>5. folder'[g] = folder[g]
        <5>1. folder \in [Folders -> FolderRecords]
          BY DEF Typed, TypeOK
        <5> QED  BY <2>0, <4>1, <4>3, <5>1
      <4> QED  BY <4>1, <4>4, <4>5 DEF Starting, isSyncRunning, Cur
    <3>6. ASSUME stack' # <<>>, stack'[1].call = "engineStart"
          PROVE  /\ sched'.cur = stack'[1].f /\ folder'[stack'[1].f].state = "SyncRunning"
                 /\ ~folder'[stack'[1].f].paused
      BY <3>2, <3>5, <3>6
    <3>7. ~On("startSync")'
      BY <2>1, <3>2 DEF On
    <3> QED  BY <3>4, <3>6, <3>7 DEF StartsInTurn, On, Starting, Cur, isSyncRunning
  <2>3. CASE Call(<<Frame("startNext", NoFolder, 0)>>) /\ ~Return
    <3> DEFINE a == Frame("startNext", NoFolder, 0)
    <3>0. a \in GoodFrames /\ a.call = "startNext"
      BY NullFrame DEF Calls, FolderCalls
    <3> HIDE DEF a
    <3>1. /\ stack' \in Seq(GoodFrames) /\ Len(stack') = Len(stack) /\ stack'[1] = a
          /\ \A i \in 2 .. Len(stack) : stack'[i] = stack[i]
      BY <2>0, <2>3, <3>0, OneCall DEF Call, a
    <3>2. ~Busy \/ ~isSyncRunning(Cur)
      BY <1>5, <2>3 DEF EnqueueFolder
    <3>3. \A i \in 2 .. Len(stack) :
            stack[i].call \notin {"startSync", "engineStart", "popIgnored"}
      <4>1. ASSUME NEW i \in 2 .. Len(stack), stack[i].call = "engineStart"
            PROVE  FALSE
        <5>1. Starting(stack[i].f) /\ stack[i] \in GoodFrames
          BY <2>0, <2>1, <4>1
        <5>2. stack[i].f \in Folders
          BY <4>1, <5>1 DEF GoodFrames, FolderCalls, Calls
        <5> QED  BY <3>2, <5>1, <5>2, SchedulerAssumption DEF Starting, Busy, Cur
      <4> QED  BY <2>1, <4>1
    <3> QED  BY <3>0, <3>1, <3>3 DEF StartsInTurn, On
  <2> QED  BY <1>5, <2>2, <2>3 DEF EnqueueFolder
<1>6. CASE StartNext
  <2>0. /\ ~Idle /\ On("startNext") /\ stack \in Seq(GoodFrames) /\ stack # <<>>
        /\ Len(stack) \in Nat \ {0} /\ stack[1] \in GoodFrames /\ stack[1].call = "startNext"
    <3>1. stack \in Seq(GoodFrames) /\ stack # <<>> /\ On("startNext")
      BY <1>6 DEF StartNext, On, Typed
    <3> QED  BY <3>1, LenProperties, EmptySeq, HeadTyped DEF On, Idle
  <2>1. \A i \in 2 .. Len(stack) :
          stack[i].call \notin {"startSync", "engineStart", "popIgnored"}
    BY <2>0 DEF StartsInTurn, On
  <2>2. CASE Return
    <3>1. /\ Len(stack') = Len(stack) - 1 /\ stack' \in Seq(GoodFrames)
          /\ \A i \in 1 .. Len(stack) - 1 : stack'[i] = stack[i + 1]
      BY <2>0, <2>2, Returned DEF Return
    <3>2. \A i \in 1 .. Len(stack') : i + 1 \in 2 .. Len(stack) /\ stack'[i] = stack[i + 1]
      BY <2>0, <3>1
    <3>3. stack' # <<>> => 1 \in 1 .. Len(stack')
      BY <3>1, LenProperties, EmptySeq
    <3> QED  BY <2>1, <3>2, <3>3 DEF StartsInTurn, On
  <2>3. CASE UNCHANGED stack
    BY <2>0, <2>1, <2>3 DEF StartsInTurn, On
  <2>4. CASE Call(<<Frame("popIgnored", NoFolder, 0), stack[1]>>)
    <3> DEFINE a == Frame("popIgnored", NoFolder, 0)  b == stack[1]
    <3>0. a \in GoodFrames /\ a.call = "popIgnored"
      BY NullFrame DEF Calls, FolderCalls
    <3> HIDE DEF a, b
    <3>1. /\ Len(stack') = Len(stack) + 1 /\ stack'[1] = a /\ stack'[2] = b
          /\ \A i \in 3 .. Len(stack) + 1 : stack'[i] = stack[i - 1]
      BY <2>0, <2>4, <3>0, TwoCalls DEF Call, a, b
    <3>2. \A i \in 2 .. Len(stack') : i = 2 \/ (i - 1 \in 2 .. Len(stack) /\ stack'[i] = stack[i - 1])
      BY <2>0, <3>1
    <3> QED  BY <2>0, <2>1, <3>0, <3>1, <3>2 DEF StartsInTurn, On, b
  <2>5. ASSUME NEW e \in Tops(sched),
               \/ Call(<<Frame("enqueueFolder", e[1], e[2])>>)
               \/ Call(<<Frame("startSync", e[1], 0)>>) /\ sched'.cur = e[1]
        PROVE  StartsInTurn'
    <3>1. e[1] \in Folders /\ e[2] \in Priorities
      BY DEF Tops, Typed, TypeOK, Elements
    <3>2. PICK fr \in GoodFrames :
             /\ Call(<<fr>>) /\ fr.call \in {"enqueueFolder", "startSync"}
             /\ fr.call = "startSync" => sched'.cur = fr.f
      <4>1. /\ Frame("startSync", e[1], 0) \in GoodFrames
            /\ Frame("startSync", e[1], 0).call = "startSync"
            /\ Frame("startSync", e[1], 0).f = e[1]
        BY <3>1, FolderFrame DEF Calls, High
      <4>2. /\ Frame("enqueueFolder", e[1], e[2]) \in GoodFrames
            /\ Frame("enqueueFolder", e[1], e[2]).call = "enqueueFolder"
        BY <3>1, EnqueueFrame
      <4> QED  BY <2>5, <4>1, <4>2
    <3>3. /\ Len(stack') = Len(stack) /\ stack'[1] = fr
          /\ \A i \in 2 .. Len(stack) : stack'[i] = stack[i]
      BY <2>0, <3>2, OneCall DEF Call
    <3> QED  BY <2>1, <3>2, <3>3 DEF StartsInTurn, On, Cur
  <2>6. sched \in Scheds
    BY DEF Typed, TypeOK, Scheds, Maps
  <2>7. \A e : \A c : [Popped(sched, e) EXCEPT !.cur = c].cur = c
    BY <2>6 DEF Popped, Scheds
  <2>8. \/ Return \/ UNCHANGED stack
        \/ Call(<<Frame("popIgnored", NoFolder, 0), stack[1]>>)
        \/ \E e \in Tops(sched) :
             \/ Call(<<Frame("enqueueFolder", e[1], e[2])>>)
             \/ /\ Call(<<Frame("startSync", e[1], 0)>>)
                /\ sched' = [Popped(sched, e) EXCEPT !.cur = e[1]]
    BY <1>6 DEF StartNext
  <2>9. ASSUME NEW e \in Tops(sched),
               \/ Call(<<Frame("enqueueFolder", e[1], e[2])>>)
               \/ /\ Call(<<Frame("startSync", e[1], 0)>>)
                  /\ sched' = [Popped(sched, e) EXCEPT !.cur = e[1]]
        PROVE  StartsInTurn'
    <3>1. [Popped(sched, e) EXCEPT !.cur = e[1]].cur = e[1]
      BY <2>7
    <3>2. CASE Call(<<Frame("enqueueFolder", e[1], e[2])>>)
      BY <2>5, <3>2
    <3>3. CASE /\ Call(<<Frame("startSync", e[1], 0)>>)
               /\ sched' = [Popped(sched, e) EXCEPT !.cur = e[1]]
      <4>1. sched'.cur = e[1]
        BY <3>1, <3>3
      <4> QED  BY <2>5, <3>3, <4>1
    <3> QED  BY <2>9, <3>2, <3>3
  <2> QED  BY <2>2, <2>3, <2>4, <2>8, <2>9
<1>7. CASE StartSync
  <2> DEFINE f == stack[1].f
  <2>0. /\ ~Idle /\ f \in Folders /\ On("startSync") /\ Cur = f
        /\ stack \in Seq(GoodFrames) /\ stack # <<>> /\ Len(stack) \in Nat \ {0}
    <3>1. stack \in Seq(GoodFrames) /\ stack # <<>> /\ On("startSync")
      BY <1>7 DEF StartSync, On, Typed
    <3>2. f \in Folders
      BY <3>1, HeadTyped DEF On, Idle, FolderCalls, Calls
    <3> QED  BY <3>1, <3>2, LenProperties, EmptySeq DEF StartsInTurn, Idle
  <2>1. \A i \in 2 .. Len(stack) :
          stack[i].call \notin {"startSync", "engineStart", "popIgnored"}
    BY <2>0 DEF StartsInTurn, On
  <2>2. CASE Return
    <3>1. /\ Len(stack') = Len(stack) - 1 /\ stack' \in Seq(GoodFrames)
          /\ \A i \in 1 .. Len(stack) - 1 : stack'[i] = stack[i + 1]
      BY <2>0, <2>2, Returned DEF Return
    <3>2. \A i \in 1 .. Len(stack') : i + 1 \in 2 .. Len(stack) /\ stack'[i] = stack[i + 1]
      BY <2>0, <3>1
    <3>3. stack' # <<>> => 1 \in 1 .. Len(stack')
      BY <3>1, LenProperties, EmptySeq
    <3> QED  BY <2>1, <3>2, <3>3 DEF StartsInTurn, On
  <2>3. CASE ~Return
    <3> DEFINE a == Frame("enqueueFolder", f, Low)  b == Frame("engineStart", f, 0)
    <3>1. /\ a \in GoodFrames /\ a.call = "enqueueFolder"
          /\ b \in GoodFrames /\ b.call = "engineStart" /\ b.f = f
      BY <2>0, EnqueueFrame, FolderFrame DEF Calls, Priorities, Low, High
    <3>2. sched'.cur = f /\ folder'[f].state = "SyncRunning" /\ ~folder'[f].paused
      <4>1. CanSync(f) /\ sched' = sched
        BY <1>7, <2>3 DEF StartSync
      <4>2. folder'[f].state = "SyncRunning" /\ folder'[f].paused = folder[f].paused
        <5>1. folder \in [Folders -> FolderRecords] /\ folder[f] \in FolderRecords
          BY <2>0 DEF Typed, TypeOK
        <5>2. folder' = [folder EXCEPT ![f] = [@ EXCEPT !.state = "SyncRunning",
                                                 !.errors = FALSE, !.changed = FALSE]]
          BY <1>7, <2>0, <2>3, <5>1 DEF StartSync
        <5>3. folder'[f] = [folder[f] EXCEPT !.state = "SyncRunning",
                                                 !.errors = FALSE, !.changed = FALSE]
          BY <2>0, <5>1, <5>2
        <5> QED  BY <5>1, <5>3 DEF FolderRecords
      <4> QED  BY <2>0, <4>1, <4>2 DEF CanSync, Cur
    <3>3. \/ stack' = (<<a>> \o <<b>>) \o Tail(stack)
          \/ stack' = (<<>> \o <<b>>) \o Tail(stack)
      BY <1>7, <2>3 DEF StartSync, Call
    <3> HIDE DEF a, b
    <3>4. <<a>> \o <<b>> = <<a, b>> /\ <<>> \o <<b>> = <<b>>
      BY <3>1, Lists
    <3>5. CASE stack' = <<a, b>> \o Tail(stack)
      <4>1. /\ Len(stack') = Len(stack) + 1 /\ stack'[1] = a /\ stack'[2] = b
            /\ \A i \in 3 .. Len(stack) + 1 : stack'[i] = stack[i - 1]
        BY <2>0, <3>1, <3>5, TwoCalls
      <4>2. \A i \in 2 .. Len(stack') :
              i = 2 \/ (i - 1 \in 2 .. Len(stack) /\ stack'[i] = stack[i - 1])
        BY <2>0, <4>1
      <4>3. stack' # <<>>
        BY <2>0, <3>1, <3>5, TwoCalls, EmptySeq
      <4> QED  BY <2>1, <3>1, <3>2, <4>1, <4>2, <4>3
              DEF StartsInTurn, On, Starting, Cur, isSyncRunning
    <3>6. CASE stack' = <<b>> \o Tail(stack)
      <4>1. /\ Len(stack') = Len(stack) /\ stack'[1] = b
            /\ \A i \in 2 .. Len(stack) : stack'[i] = stack[i]
        BY <2>0, <3>1, <3>6, OneCall
      <4> QED  BY <2>1, <3>1, <3>2, <4>1
              DEF StartsInTurn, On, Starting, Cur, isSyncRunning
    <3> QED  BY <3>3, <3>4, <3>5, <3>6
  <2> QED  BY <2>2, <2>3
<1> QED  BY <1>1, <1>2, <1>4, <1>5, <1>6, <1>7, NextSplit

----------------------------------------------------------------------------
\* What a step does to the queue, to the life of a folder and to its engine.

LEMMA QueuedStep ==
    ASSUME Typed, QueueAgrees, [Next]_vars
    PROVE  \/ Queued' = Queued
           \/ EnqueueFolder /\ CanSync(stack[1].f) /\ Queued' = Queued \cup {stack[1].f}
           \/ \E e \in Tops(sched) :
                /\ e[1] \in Queued /\ Queued' = Queued \ {e[1]}
                /\ PopIgnored \/ (StartNext /\ (CanSync(e[1]) => sched'.cur = e[1]))
<1>0. sched \in Scheds /\ AgreesIn(sched) /\ \A e \in Tops(sched) : e \in sched.queue
  BY DEF Typed, TypeOK, Scheds, Maps, QueueAgrees, AgreesIn, Queued, Tops
<1>1. ASSUME NEW s \in Scheds, NEW c
      PROVE  [s EXCEPT !.cur = c].scheduled = s.scheduled /\ [s EXCEPT !.cur = c].cur = c
  BY DEF Scheds
<1>2. CASE EnqueueFolder
  <2> DEFINE f == stack[1].f  p == stack[1].arg
  <2>1. f \in Folders /\ p \in Priorities
    BY <1>2, HeadTyped DEF EnqueueFolder, On, Idle
  <2>2. /\ Enqueued(sched, f, p) \in Scheds
        /\ DOMAIN Enqueued(sched, f, p).scheduled = Queued \cup {f}
    BY <1>0, <2>1, EnqueuedTyped, EnqueuedAgrees DEF Queued
  <2>3. \/ sched' = sched
        \/ /\ CanSync(f)
           /\ \/ sched' = Enqueued(sched, f, p)
              \/ sched' = [Enqueued(sched, f, p) EXCEPT !.cur = NoFolder]
    BY <1>2 DEF EnqueueFolder
  <2>4. Queued' = Queued \/ (CanSync(f) /\ Queued' = Queued \cup {f})
    <3>1. [Enqueued(sched, f, p) EXCEPT !.cur = NoFolder].scheduled = Enqueued(sched, f, p).scheduled
      BY <1>1, <2>2
    <3> QED  BY <2>2, <2>3, <3>1 DEF Queued
  <2> QED  BY <1>2, <2>4
<1>3. CASE StartNext
  <2>1. CASE sched' = sched
    BY <2>1 DEF Queued
  <2>2. CASE sched' # sched
    <3>1. PICK e \in Tops(sched) :
            \/ sched' = Popped(sched, e) /\ ~CanSync(e[1])
            \/ sched' = [Popped(sched, e) EXCEPT !.cur = e[1]]
      BY <1>3, <2>2 DEF StartNext, Declined, CanSync
    <3>2. /\ Popped(sched, e) \in Scheds /\ e[1] \in Queued
          /\ DOMAIN Popped(sched, e).scheduled = Queued \ {e[1]}
      BY <1>0, PoppedAgrees DEF Queued
    <3>3. /\ [Popped(sched, e) EXCEPT !.cur = e[1]].scheduled = Popped(sched, e).scheduled
          /\ [Popped(sched, e) EXCEPT !.cur = e[1]].cur = e[1]
      BY <1>1, <3>2
    <3>4. Queued' = Queued \ {e[1]} /\ (CanSync(e[1]) => sched'.cur = e[1])
      BY <3>1, <3>2, <3>3 DEF Queued
    <3> QED  BY <1>3, <3>2, <3>4
  <2> QED  BY <2>1, <2>2
<1>4. CASE PopIgnored
  <2>1. sched' = sched \/ \E e \in Tops(sched) : sched' = Popped(sched, e)
    BY <1>4 DEF PopIgnored
  <2>2. \A e \in Tops(sched) : /\ e[1] \in Queued
                               /\ DOMAIN Popped(sched, e).scheduled = Queued \ {e[1]}
    BY <1>0, PoppedAgrees DEF Queued
  <2> QED  BY <1>4, <2>1, <2>2 DEF Queued
<1>5. CASE sched' = sched
  BY <1>5 DEF Queued
<1>6. CASE ClearCurrent \/ SyncFinished \/ \E f \in Folders : Delete(f)
  <2>1. sched' = sched \/ sched' = [sched EXCEPT !.cur = NoFolder]
    BY <1>6 DEF ClearCurrent, SyncFinished, Delete
  <2>2. [sched EXCEPT !.cur = NoFolder].scheduled = sched.scheduled
    BY <1>0, <1>1
  <2> QED  BY <2>1, <2>2 DEF Queued
<1>7. CASE PauseAll \/ Start \/ PostedStart \/ \E f \in Folders : ForceSync(f)
  <2> QED  BY <1>0, <1>7, FlagsWritten DEF Queued
<1> QED
  BY <1>2, <1>3, <1>4, <1>5, <1>6, <1>7, SchedWriters

\* The fields of an engine that matter, step by step.
LEMMA EnginesStep ==
    ASSUME Typed, [Next]_vars, NEW g \in Folders
    PROVE  \/ /\ engine'[g].running = engine[g].running
              /\ engine'[g].discovery = engine[g].discovery
              /\ engine'[g].propagator = engine[g].propagator
           \/ /\ EngineStart /\ stack[1].f = g /\ engine'[g].running
              /\ engine'[g].propagator = engine[g].propagator
           \/ /\ Finalize /\ stack[1].f = g
              /\ ~engine'[g].running /\ ~engine'[g].discovery
           \/ /\ ResetEngine /\ stack[1].f = g /\ engine'[g].propagator = "none"
              /\ engine'[g].running = engine[g].running
              /\ engine'[g].discovery = engine[g].discovery
           \/ /\ Delete(g) /\ ~engine'[g].running /\ ~engine'[g].discovery
              /\ engine'[g].propagator = "none"
           \/ /\ Idle /\ engine'[g].running = engine[g].running
              /\ engine'[g].discovery = engine[g].discovery
              /\ \/ DiscoveryFinished(g) /\ engine[g].discovery
                 \/ PropagationEnds(g) /\ engine[g].propagator = "running"
<1>1. engine \in [Folders -> EngineRecords] /\ \A h \in Folders : engine[h] \in EngineRecords
  BY DEF Typed, TypeOK
<1>2. CASE engine' = engine
  BY <1>2
<1>3. CASE EngineStart
  BY <1>1, <1>3 DEF EngineStart, EngineRecords
<1>4. CASE Finalize
  BY <1>1, <1>4 DEF Finalize, EngineRecords
<1>5. CASE ResetEngine
  BY <1>1, <1>5 DEF ResetEngine, EngineRecords
<1>6. ASSUME NEW f \in Folders, DiscoveryFinished(f)
      PROVE  \/ /\ f = g /\ Idle /\ engine[g].discovery
                /\ engine'[g].running = engine[g].running
                /\ engine'[g].discovery = engine[g].discovery
             \/ engine'[g] = engine[g]
  <2>1. Idle /\ engine[f].discovery
    BY <1>6 DEF DiscoveryFinished, Handle
  <2>2. \/ engine' = engine
        \/ \E more \in BOOLEAN :
             engine' = [engine EXCEPT ![f].propagator = "running", ![f].another = @ \/ more]
    BY <1>6 DEF DiscoveryFinished
  <2> QED  BY <1>1, <2>1, <2>2 DEF EngineRecords
<1>7. ASSUME NEW f \in Folders, PropagationEnds(f)
      PROVE  \/ /\ f = g /\ Idle /\ engine[g].propagator = "running"
                /\ engine'[g].running = engine[g].running
                /\ engine'[g].discovery = engine[g].discovery
             \/ engine'[g] = engine[g]
  BY <1>1, <1>7 DEF PropagationEnds, EngineRecords
<1>8. CASE SlotPropagationFinished
  <2>1. \/ engine' = engine
        \/ \E f, more : engine' = [engine EXCEPT ![f].another = @ \/ more]
    BY <1>8 DEF SlotPropagationFinished
  <2> QED  BY <1>1, <2>1 DEF EngineRecords
<1>9. ASSUME NEW f \in Folders, Delete(f)
      PROVE  \/ engine'[g] = engine[g]
             \/ /\ f = g /\ ~engine'[g].running /\ ~engine'[g].discovery
                /\ engine'[g].propagator = "none"
  BY <1>1, <1>9 DEF Delete
<1> QED
  BY <1>2, <1>3, <1>4, <1>5, <1>6, <1>7, <1>8, <1>9, EngineWriters

\* A call that waits is made later.
LEMMA PendingStep ==
    ASSUME Typed, [Next]_vars, NEW fr \in Pending, fr # stack[1]
    PROVE  fr \in Pending'
<1>1. PICK k \in 1 .. Len(stack) : fr = stack[k]
  BY DEF Pending
<1>2. /\ stack \in Seq(GoodFrames) /\ Len(stack) \in Nat \ {0} /\ stack # <<>> /\ ~Idle
      /\ k \in 2 .. Len(stack)
  <2>1. stack \in Seq(GoodFrames) /\ Len(stack) \in Nat
    BY LenProperties DEF Typed
  <2> QED  BY <1>1, <2>1, EmptySeq DEF Idle
<1>3. CASE UNCHANGED stack
  BY <1>3 DEF Pending
<1>4. ASSUME NEW frames \in Seq(GoodFrames), Call(frames)
      PROVE  fr \in Pending'
  <2>1. /\ Len(frames) \in Nat /\ Len(stack') = Len(frames) + Len(stack) - 1
        /\ \A i \in Len(frames) + 1 .. Len(stack') : stack'[i] = stack[i - Len(frames) + 1]
    BY <1>2, <1>4, Replaced, LenProperties DEF Call
  <2> DEFINE j == k + Len(frames) - 1
  <2>2. j \in Len(frames) + 1 .. Len(stack') /\ j - Len(frames) + 1 = k
    BY <1>2, <2>1
  <2>3. j \in 1 .. Len(stack') /\ stack'[j] = fr
    BY <1>1, <2>1, <2>2
  <2> QED  BY <2>3 DEF Pending
<1>5. CASE Return
  <2>1. <<>> \in Seq(GoodFrames) /\ <<>> \o Tail(stack) = Tail(stack)
    BY <1>2, Returned, ConcatEmptySeq
  <2> QED  BY <1>4, <1>5, <2>1 DEF Return, Call
<1>6. CASE Run /\ ~StartNext /\ ~StartSync
  <2>1. Made \subseteq GoodFrames
    BY DEF Made
  <2>2. Seq(Made) \subseteq Seq(GoodFrames)
    BY <2>1, SeqMonotonic
  <2> QED  BY <1>3, <1>4, <1>6, <2>2, RunMakes
<1>7. CASE StartNext
  <2>1. stack[1] \in GoodFrames
    BY <1>2
  <2>2. \A e \in Tops(sched) : e[1] \in Folders /\ e[2] \in Priorities
    BY DEF Tops, Typed, TypeOK, Elements
  <2>3. \A e \in Tops(sched) : /\ Frame("enqueueFolder", e[1], e[2]) \in GoodFrames
                               /\ Frame("startSync", e[1], 0) \in GoodFrames
    BY <2>2, EnqueueFrame, FolderFrame DEF Calls, High
  <2>4. Frame("popIgnored", NoFolder, 0) \in GoodFrames
    BY NullFrame DEF Calls, FolderCalls
  <2>5. \/ Return \/ UNCHANGED stack
        \/ Call(<<Frame("popIgnored", NoFolder, 0), stack[1]>>)
        \/ \E e \in Tops(sched) : \/ Call(<<Frame("enqueueFolder", e[1], e[2])>>)
                                  \/ Call(<<Frame("startSync", e[1], 0)>>)
    BY <1>7 DEF StartNext
  <2> QED  BY <1>3, <1>4, <1>5, <2>1, <2>3, <2>4, <2>5, Lists
<1>8. CASE StartSync
  <2> DEFINE f == stack[1].f  a == Frame("enqueueFolder", f, Low)  b == Frame("engineStart", f, 0)
  <2>1. f \in Folders
    BY <1>8, HeadTyped DEF StartSync, On, Idle, FolderCalls, Calls
  <2>2. a \in GoodFrames /\ b \in GoodFrames
    BY <2>1, EnqueueFrame, FolderFrame DEF Calls, Priorities, Low, High
  <2>3. Return \/ Call(<<a>> \o <<b>>) \/ Call(<<>> \o <<b>>)
    BY <1>8 DEF StartSync
  <2> HIDE DEF a, b
  <2>4. <<a>> \o <<b>> \in Seq(GoodFrames) /\ <<>> \o <<b>> \in Seq(GoodFrames)
    BY <2>2, Lists
  <2> QED  BY <1>4, <1>5, <2>3, <2>4
<1>9. CASE LoopStep
  BY <1>2, <1>9, StackLoop
<1> QED  BY <1>3, <1>6, <1>7, <1>8, <1>9, NextSplit DEF vars

\* A folder is wiped by the last call of its removal.
LEMMA WipesLastStep ==
    ASSUME Typed, WipesLast, OthersAreGone, [Next]_vars
    PROVE  WipesLast'
<1>0. Operations' = Operations /\ net'.scenario = net.scenario
  BY ScenarioStays DEF Operations
<1>1. CASE UNCHANGED stack
  BY <1>0, <1>1 DEF WipesLast
<1>2. CASE LoopStep /\ \A f \in Folders : ~RemoveFolder(f)
  <2>1. stack' \in Seq(Handed)
    BY <1>2, LoopHands
  <2>2. \A i \in 1 .. Len(stack') : stack'[i].call # "wipe"
    BY <2>1 DEF Handed
  <2> QED  BY <2>2 DEF WipesLast
<1>3. ASSUME NEW f \in Folders, RemoveFolder(f)
      PROVE  WipesLast'
  <2> DEFINE t == Frame("terminateCurrentSync", f, 0)  w == Frame("wipe", f, 0)
  <2>1. /\ t \in GoodFrames /\ w \in GoodFrames
        /\ stack' = <<t, w>> \/ stack' = <<w>>
    BY <1>3, RemoveHands
  <2>2. t.call = "terminateCurrentSync" /\ w.call = "wipe" /\ w.f = f
    BY DEF Frame
  <2>3. "remove" \in Operations /\ f \in net.scenario.folders
    BY <1>3 DEF RemoveFolder, OthersAreGone
  <2> HIDE DEF t, w
  <2>5. \/ Len(stack') = 2 /\ stack'[1] = t /\ stack'[2] = w
        \/ Len(stack') = 1 /\ stack'[1] = w
    BY <2>1
  <2>4. \A i \in 1 .. Len(stack') : stack'[i].call = "wipe" => i = Len(stack') /\ stack'[i].f = f
    <3>1. CASE Len(stack') = 2 /\ stack'[1] = t /\ stack'[2] = w
      <4>1. \A i \in 1 .. Len(stack') : i = 1 \/ i = Len(stack')
        BY <3>1
      <4> QED  BY <2>2, <3>1, <4>1
    <3>2. CASE Len(stack') = 1 /\ stack'[1] = w
      BY <2>2, <3>2
    <3> QED  BY <2>5, <3>1, <3>2
  <2> QED  BY <1>0, <2>3, <2>4 DEF WipesLast
<1>4. ASSUME ~Idle, NEW frames \in Seq(GoodFrames), Call(frames),
             \A i \in 1 .. Len(frames) : frames[i].call # "wipe"
      PROVE  WipesLast'
  <2>0. stack \in Seq(GoodFrames) /\ stack # <<>> /\ Len(stack) \in Nat \ {0}
    BY <1>4, LenProperties, EmptySeq DEF Typed, Idle
  <2>1. /\ Len(frames) \in Nat /\ Len(stack') = Len(frames) + Len(stack) - 1
        /\ \A i \in 1 .. Len(frames) : stack'[i] = frames[i]
        /\ \A i \in Len(frames) + 1 .. Len(stack') : stack'[i] = stack[i - Len(frames) + 1]
    BY <1>4, <2>0, Replaced, LenProperties DEF Call
  <2>2. ASSUME NEW i \in 1 .. Len(stack'), stack'[i].call = "wipe"
        PROVE  i = Len(stack') /\ "remove" \in Operations /\ stack'[i].f \in net.scenario.folders
    <3>1. i \in Len(frames) + 1 .. Len(stack')
      BY <1>4, <2>1, <2>2
    <3> DEFINE k == i - Len(frames) + 1
    <3>2. k \in 1 .. Len(stack) /\ stack'[i] = stack[k]
      BY <2>0, <2>1, <3>1
    <3>3. k = Len(stack) /\ "remove" \in Operations /\ stack[k].f \in net.scenario.folders
      BY <2>2, <3>2 DEF WipesLast
    <3> QED  BY <2>0, <2>1, <3>2, <3>3
  <2> QED  BY <1>0, <2>2 DEF WipesLast
<1>5. CASE Return /\ ~Idle
  <2>1. /\ <<>> \in Seq(GoodFrames) /\ <<>> \o Tail(stack) = Tail(stack)
        /\ \A i \in 1 .. Len(<<>>) : FALSE
    BY <1>5, Returned, ConcatEmptySeq DEF Typed, Idle
  <2> QED  BY <1>4, <1>5, <2>1 DEF Return, Call
<1>6. CASE Run /\ ~StartNext /\ ~StartSync
  <2>1. ASSUME NEW frames \in Seq(Made)
        PROVE  frames \in Seq(GoodFrames) /\ \A i \in 1 .. Len(frames) : frames[i].call # "wipe"
    <3>1. Made \subseteq GoodFrames
      BY DEF Made
    <3>2. \A i \in 1 .. Len(frames) : frames[i] \in Made
      OBVIOUS
    <3> QED  BY <3>1, <3>2, SeqMonotonic DEF Made
  <2> QED  BY <1>1, <1>4, <1>6, <2>1, RunMakes, RunCalls
<1>7. CASE StartNext
  <2>0. ~Idle /\ stack[1] \in GoodFrames /\ stack[1].call = "startNext"
    BY <1>7, HeadTyped DEF StartNext, On, Idle
  <2>1. \A e \in Tops(sched) : e[1] \in Folders /\ e[2] \in Priorities
    BY DEF Tops, Typed, TypeOK, Elements
  <2>2. \/ Return \/ UNCHANGED stack
        \/ Call(<<Frame("popIgnored", NoFolder, 0), stack[1]>>)
        \/ \E e \in Tops(sched) : \/ Call(<<Frame("enqueueFolder", e[1], e[2])>>)
                                  \/ Call(<<Frame("startSync", e[1], 0)>>)
    BY <1>7 DEF StartNext
  <2>3. CASE Call(<<Frame("popIgnored", NoFolder, 0), stack[1]>>)
    <3> DEFINE a == Frame("popIgnored", NoFolder, 0)  b == stack[1]
    <3>1. a \in GoodFrames /\ a.call = "popIgnored"
      BY NullFrame DEF Calls, FolderCalls
    <3> HIDE DEF a, b
    <3>2. <<a, b>> \in Seq(GoodFrames) /\ \A i \in 1 .. Len(<<a, b>>) : <<a, b>>[i].call # "wipe"
      BY <2>0, <3>1 DEF b
    <3> QED  BY <1>4, <2>0, <2>3, <3>2 DEF a, b
  <2>4. ASSUME NEW fr \in GoodFrames, fr.call # "wipe", Call(<<fr>>)
        PROVE  WipesLast'
    <3>1. <<fr>> \in Seq(GoodFrames) /\ \A i \in 1 .. Len(<<fr>>) : <<fr>>[i].call # "wipe"
      BY <2>4
    <3> QED  BY <1>4, <2>0, <2>4, <3>1
  <2>5. \A e \in Tops(sched) :
          \A fr \in {Frame("enqueueFolder", e[1], e[2]), Frame("startSync", e[1], 0)} :
            fr \in GoodFrames /\ fr.call # "wipe"
    BY <2>1, EnqueueFrame, FolderFrame DEF Calls, High
  <2> QED  BY <1>1, <1>5, <2>0, <2>2, <2>3, <2>4, <2>5
<1>8. CASE StartSync
  <2> DEFINE f == stack[1].f  a == Frame("enqueueFolder", f, Low)  b == Frame("engineStart", f, 0)
  <2>0. ~Idle /\ f \in Folders
    BY <1>8, HeadTyped DEF StartSync, On, Idle, FolderCalls, Calls
  <2>1. a \in GoodFrames /\ a.call # "wipe" /\ b \in GoodFrames /\ b.call # "wipe"
    BY <2>0, EnqueueFrame, FolderFrame DEF Calls, Priorities, Low, High
  <2>2. Return \/ Call(<<a>> \o <<b>>) \/ Call(<<>> \o <<b>>)
    BY <1>8 DEF StartSync
  <2> HIDE DEF a, b
  <2>3. <<a>> \o <<b>> = <<a, b>> /\ <<>> \o <<b>> = <<b>>
    BY <2>1, Lists
  <2>4. /\ <<a, b>> \in Seq(GoodFrames) /\ \A i \in 1 .. Len(<<a, b>>) : <<a, b>>[i].call # "wipe"
        /\ <<b>> \in Seq(GoodFrames) /\ \A i \in 1 .. Len(<<b>>) : <<b>>[i].call # "wipe"
    BY <2>1
  <2> QED  BY <1>4, <1>5, <2>0, <2>2, <2>3, <2>4
<1> QED  BY <1>1, <1>2, <1>3, <1>6, <1>7, <1>8, NextSplit DEF vars

LEMMA OthersAreGoneStep ==
    ASSUME Typed, QueueAgrees, WipesLast, OthersAreGone, [Next]_vars
    PROVE  OthersAreGone'
<1>0. Operations' = Operations /\ net'.scenario = net.scenario
  BY ScenarioStays DEF Operations
<1>1. ASSUME NEW g \in Folders, Wipe, stack[1].f = g
      PROVE  "remove" \in Operations /\ g \in net.scenario.folders
  <2>1. ~Idle /\ stack[1].call = "wipe" /\ stack \in Seq(GoodFrames) /\ stack # <<>>
    BY <1>1 DEF Wipe, On, Idle, Typed
  <2>2. 1 \in 1 .. Len(stack)
    BY <2>1, LenProperties, EmptySeq
  <2> QED  BY <1>1, <2>1, <2>2 DEF WipesLast
<1>2. ASSUME NEW g \in Folders
      PROVE  /\ g \notin net.scenario.folders => folder'[g].life = "deleted" /\ g \notin Queued'
             /\ g \in net.scenario.folders /\ "remove" \notin Operations
                  => folder'[g].life = "alive"
  <2>1. /\ g \notin net.scenario.folders => folder[g].life = "deleted" /\ g \notin Queued
        /\ g \in net.scenario.folders /\ "remove" \notin Operations => folder[g].life = "alive"
    BY DEF OthersAreGone
  <2>2. \/ folder'[g].life = folder[g].life
        \/ /\ "remove" \in Operations /\ g \in net.scenario.folders
        \/ folder[g].life = "removed" /\ folder'[g].life = "deleted"
    BY <1>1, LivesStep
  <2>3. g \in Queued' => g \in Queued \/ folder[g].life = "alive"
    BY QueuedStep DEF CanSync
  <2> QED  BY <2>1, <2>2, <2>3
<1> QED  BY <1>0, <1>2 DEF OthersAreGone

\* popIgnored is called when startNext meets a deleted folder on top.
LEMMA IgnoredFrom ==
    ASSUME Typed, StartsInTurn, [Next]_vars, On("popIgnored")', ~UNCHANGED stack
    PROVE  StartNext /\ \E e \in Tops(sched) : folder[e[1]].life = "deleted"
<1>0. stack' # <<>> /\ stack'[1].call = "popIgnored"
  BY DEF On
<1>1. CASE LoopStep
  <2>1. /\ stack' \in Seq(GoodFrames)
        /\ \A i \in 1 .. Len(stack') : stack'[i].call # "popIgnored"
    BY <1>1, StackLoop
  <2>2. 1 \in 1 .. Len(stack')
    BY <1>0, <2>1, LenProperties, EmptySeq
  <2> QED  BY <1>0, <2>1, <2>2
<1>2. ASSUME ~Idle
      PROVE  /\ stack \in Seq(GoodFrames) /\ stack # <<>> /\ Len(stack) \in Nat \ {0}
             /\ \A i \in 2 .. Len(stack) : stack[i].call # "popIgnored"
  BY <1>2, LenProperties, EmptySeq DEF Typed, Idle, StartsInTurn
<1>3. ~(Return /\ ~Idle)
  <2> SUFFICES ASSUME Return, ~Idle  PROVE FALSE
    OBVIOUS
  <2>1. /\ Len(stack') = Len(stack) - 1 /\ stack' \in Seq(GoodFrames)
        /\ \A i \in 1 .. Len(stack) - 1 : stack'[i] = stack[i + 1]
    BY <1>2, Returned DEF Return
  <2>2. 1 \in 1 .. Len(stack) - 1
    BY <1>0, <1>2, <2>1, LenProperties, EmptySeq
  <2> QED  BY <1>0, <1>2, <2>1, <2>2
<1>4. ASSUME ~Idle, NEW a \in GoodFrames, Call(<<a>>)
      PROVE  a.call = "popIgnored"
  BY <1>0, <1>2, <1>4, OneCall DEF Call
<1>5. ASSUME ~Idle, NEW a \in GoodFrames, NEW b \in GoodFrames, Call(<<a, b>>)
      PROVE  a.call = "popIgnored"
  BY <1>0, <1>2, <1>5, TwoCalls DEF Call
<1>6. CASE Run /\ ~StartNext /\ ~StartSync
  <2>1. PICK frames \in Seq(Made) : Call(frames)
    BY <1>6, RunMakes
  <2>2. ~Idle
    BY <1>6, RunCalls
  <2>3. /\ Len(frames) \in Nat /\ Len(stack') = Len(frames) + Len(stack) - 1
        /\ stack' \in Seq(GoodFrames)
        /\ \A i \in 1 .. Len(frames) : stack'[i] \in Made
        /\ \A i \in Len(frames) + 1 .. Len(stack') : stack'[i] = stack[i - Len(frames) + 1]
    BY <2>1, <2>2, Pushed
  <2>4. 1 \in 1 .. Len(stack')
    BY <1>0, <2>3, LenProperties, EmptySeq
  <2>5. CASE Len(frames) = 0
    <3>1. stack'[1] = stack[2] /\ 2 \in 2 .. Len(stack)
      BY <1>2, <2>2, <2>3, <2>4, <2>5
    <3> QED  BY <1>0, <1>2, <2>2, <3>1
  <2>6. CASE Len(frames) # 0
    <3>1. stack'[1] \in Made
      BY <2>3, <2>6
    <3> QED  BY <1>0, <3>1 DEF Made
  <2> QED  BY <2>5, <2>6
<1>7. CASE StartNext
  <2>0. ~Idle
    BY <1>7 DEF StartNext, On, Idle
  <2>1. \A e \in Tops(sched) : e[1] \in Folders /\ e[2] \in Priorities
    BY DEF Tops, Typed, TypeOK, Elements
  <2>2. \A e \in Tops(sched) :
          \A fr \in {Frame("enqueueFolder", e[1], e[2]), Frame("startSync", e[1], 0)} :
            fr \in GoodFrames /\ fr.call # "popIgnored"
    BY <2>1, EnqueueFrame, FolderFrame DEF Calls, High
  <2>3. \/ Return \/ UNCHANGED stack
        \/ \E e \in Tops(sched) :
             \/ folder[e[1]].life = "deleted"
             \/ Call(<<Frame("enqueueFolder", e[1], e[2])>>)
             \/ Call(<<Frame("startSync", e[1], 0)>>)
    BY <1>7 DEF StartNext
  <2> QED  BY <1>3, <1>4, <1>7, <2>0, <2>2, <2>3
<1>8. CASE StartSync
  <2> DEFINE f == stack[1].f  a == Frame("enqueueFolder", f, Low)  b == Frame("engineStart", f, 0)
  <2>0. ~Idle /\ f \in Folders
    BY <1>8, HeadTyped DEF StartSync, On, Idle, FolderCalls, Calls
  <2>1. a \in GoodFrames /\ a.call # "popIgnored" /\ b \in GoodFrames /\ b.call # "popIgnored"
    BY <2>0, EnqueueFrame, FolderFrame DEF Calls, Priorities, Low, High
  <2>2. Return \/ Call(<<a>> \o <<b>>) \/ Call(<<>> \o <<b>>)
    BY <1>8 DEF StartSync
  <2> HIDE DEF a, b
  <2>3. <<a>> \o <<b>> = <<a, b>> /\ <<>> \o <<b>> = <<b>>
    BY <2>1, Lists
  <2> QED  BY <1>3, <1>4, <1>5, <2>0, <2>1, <2>2, <2>3
<1> QED  BY <1>1, <1>6, <1>7, <1>8, NextSplit DEF vars

LEMMA IgnoresNoneStep ==
    ASSUME Typed, QueueAgrees, StartsInTurn, WipesLast, OthersAreGone, IgnoresNone, [Next]_vars
    PROVE  IgnoresNone'
<1>0. Operations' = Operations /\ net'.scenario = net.scenario /\ (Sole' <=> Sole)
  BY ScenarioStays DEF Operations, Sole
<1> SUFFICES ASSUME On("popIgnored")', Sole \/ "remove" \notin Operations,
                    NEW f \in Queued'
             PROVE  folder'[f].life = "deleted"
  BY <1>0 DEF IgnoresNone
<1>1. Queued \subseteq Folders /\ Queued' \subseteq Folders
  <2>1. sched \in Scheds /\ sched' \in Scheds
    BY SchedStep DEF Typed, TypeOK, Scheds, Maps
  <2> QED  BY <2>1, MapsTyped DEF Scheds, Queued
<1>2. CASE UNCHANGED stack
  <2>1. On("popIgnored")
    BY <1>2 DEF On
  <2>2. ~EnqueueFolder /\ ~Wipe /\ ~StartNext /\ ~Idle
    BY <2>1 DEF On, EnqueueFolder, Wipe, StartNext, Idle
  <2>3. f \in Queued
    BY <2>2, QueuedStep
  <2>4. folder[f].life = "deleted"
    BY <2>1, <2>3 DEF IgnoresNone
  <2> QED  BY <1>1, <2>2, <2>3, <2>4, LivesStep
<1>3. CASE ~UNCHANGED stack
  <2>1. StartNext /\ \E e \in Tops(sched) : folder[e[1]].life = "deleted"
    BY <1>3, IgnoredFrom
  <2>2. PICK e \in Tops(sched) : folder[e[1]].life = "deleted"
    BY <2>1
  <2>3. ~EnqueueFolder /\ ~Wipe /\ ~Idle
    BY <2>1 DEF On, EnqueueFolder, Wipe, StartNext, Idle
  <2>4. e[1] \in Queued /\ e[1] \in Folders
    BY <1>1, <2>2 DEF Tops, QueueAgrees
  <2>5. f \in Queued /\ f \in Folders
    BY <1>1, <2>3, QueuedStep
  <2>6. Sole
    BY <2>2, <2>4 DEF OthersAreGone
  <2>7. f = e[1]
    BY <2>4, <2>5, <2>6 DEF OthersAreGone, Sole
  <2>8. folder'[f].life = folder[f].life \/ folder'[f].life = "deleted"
    BY <2>3, <2>5, LivesStep
  <2> QED  BY <2>2, <2>7, <2>8
<1> QED  BY <1>2, <1>3

LEMMA EnginesAgreeStep ==
    ASSUME Typed, EnginesAgree, [Next]_vars
    PROVE  EnginesAgree'
<1> SUFFICES ASSUME NEW g \in Folders
             PROVE  /\ engine'[g].discovery => engine'[g].running
                    /\ engine'[g].propagator # "none" =>
                         engine'[g].running \/ Frame("resetEngine", g, 0) \in Pending'
  BY DEF EnginesAgree
<1> DEFINE fr == Frame("resetEngine", g, 0)
<1>1. /\ engine[g].discovery => engine[g].running
      /\ engine[g].propagator # "none" => engine[g].running \/ fr \in Pending
  BY DEF EnginesAgree
<1>2. CASE ResetEngine /\ stack[1].f = g
  <2>1. engine'[g].propagator = "none"
    <3>1. engine \in [Folders -> EngineRecords] /\ engine[g] \in EngineRecords
      BY DEF Typed, TypeOK
    <3> QED  BY <1>2, <3>1 DEF ResetEngine, EngineRecords
  <2>2. ~EngineStart /\ ~Finalize /\ ~Idle
    BY <1>2 DEF ResetEngine, EngineStart, Finalize, On, Idle
  <2>3. engine'[g].discovery => engine'[g].running
    BY <1>1, <2>2, EnginesStep
  <2> QED  BY <2>1, <2>3
<1>3. CASE Finalize /\ stack[1].f = g
  <2> DEFINE a == Frame("slotSyncFinished", g, stack[1].arg)
  <2>0. ~Idle /\ stack[1].arg \in 0 .. High /\ stack \in Seq(GoodFrames) /\ stack # <<>>
        /\ Len(stack) \in Nat \ {0}
    <3>1. ~Idle /\ stack \in Seq(GoodFrames) /\ stack # <<>>
      BY <1>3 DEF Finalize, On, Idle, Typed
    <3> QED  BY <3>1, HeadTyped, LenProperties, EmptySeq
  <2>1. a \in GoodFrames /\ fr \in GoodFrames
    BY <2>0, FolderFrame DEF Calls, High
  <2>2. stack' = <<a, fr>> \o Tail(stack)
    BY <1>3 DEF Finalize, Call
  <2> HIDE DEF a, fr
  <2>3. stack'[2] = fr /\ Len(stack') = Len(stack) + 1
    BY <2>0, <2>1, <2>2, TwoCalls
  <2>4. fr \in Pending'
    BY <2>0, <2>3 DEF Pending
  <2>5. ~engine'[g].running /\ ~engine'[g].discovery
    <3>1. engine \in [Folders -> EngineRecords] /\ engine[g] \in EngineRecords
      BY DEF Typed, TypeOK
    <3> QED  BY <1>3, <3>1 DEF Finalize, EngineRecords
  <2> QED  BY <2>4, <2>5 DEF fr
<1>4. ASSUME fr \in Pending, ~(ResetEngine /\ stack[1].f = g)
      PROVE  fr \in Pending' \/ ~[Next]_vars \/ engine'[g].propagator = "none"
  <2>1. CASE fr # stack[1]
    BY <1>4, <2>1, PendingStep
  <2>2. CASE fr = stack[1]
    <3>1. stack[1].call = "resetEngine" /\ stack[1].f = g /\ stack # <<>>
      <4>1. stack # <<>>
        BY <1>4 DEF Pending
      <4> QED  BY <2>2, <4>1 DEF Frame
    <3>2. CASE UNCHANGED vars
      BY <1>4, <3>2 DEF vars, Pending
    <3>3. CASE LoopStep
      BY <3>1, <3>3, StackLoop DEF Idle
    <3>4. CASE Run
      BY <1>4, <3>1, <3>4 DEF Run, On, EnqueueFolder, StartNext,
         PopIgnored, TerminateCurrentSync, ClearCurrent, Start, StartSync,
         EngineStart, Abort, Finalize, SlotSyncFinished,
         SyncFinished, FollowUp, FinalizeVfsSwitch, Wipe
    <3> QED  BY <3>2, <3>3, <3>4, NextSplit
  <2> QED  BY <2>1, <2>2
<1>5. CASE ~(ResetEngine /\ stack[1].f = g) /\ ~(Finalize /\ stack[1].f = g)
  <2>1. Idle => fr \notin Pending
    BY DEF Idle, Pending
  <2> HIDE DEF fr
  <2>2. \/ /\ engine'[g].running = engine[g].running
           /\ engine'[g].discovery = engine[g].discovery
           /\ engine'[g].propagator = engine[g].propagator
        \/ engine'[g].running
        \/ ~engine'[g].running /\ ~engine'[g].discovery /\ engine'[g].propagator = "none"
    <3>1. CASE /\ Idle /\ engine'[g].running = engine[g].running
               /\ engine'[g].discovery = engine[g].discovery
               /\ engine[g].discovery \/ engine[g].propagator = "running"
      BY <1>1, <2>1, <3>1
    <3> QED  BY <1>5, <3>1, EnginesStep
  <2> QED  BY <1>1, <1>4, <1>5, <2>2 DEF fr
<1> QED  BY <1>2, <1>3, <1>5

\* The basic invariant holds at the start.
LEMMA BasicsInit == Init => Basics
<1> SUFFICES ASSUME Init  PROVE Basics
  OBVIOUS
<1>1. Typed /\ QueueAgrees
  BY TypedInit
<1>2. stack = <<>> /\ Len(stack) = 0 /\ Queued = {}
  BY DEF Init, Queued
<1>3. StartsInTurn /\ WipesLast /\ IgnoresNone
  BY <1>2 DEF StartsInTurn, WipesLast, IgnoresNone, On
<1>4. OthersAreGone
  BY <1>2 DEF OthersAreGone, Init
<1>5. EnginesAgree
  BY DEF EnginesAgree, Init
<1> QED  BY <1>1, <1>3, <1>4, <1>5 DEF Basics

\* Every step keeps the basic invariant.
LEMMA BasicsStep ==
    ASSUME Basics, [Next]_vars
    PROVE  Basics'
BY TypedStep, StartsInTurnStep, WipesLastStep, OthersAreGoneStep, IgnoresNoneStep,
   EnginesAgreeStep DEF Basics

\* A folder that can sync leaves the queue only to be synced, unless the queue
\* may also hold a folder that is removed.
THEOREM NotForgotten == Spec => TakenToBeSynced
<1> DEFINE Taken == Sole \/ "remove" \notin Operations =>
             \A f \in Queued : CanSync(f) => f \in Queued' \/ sched'.cur = f
<1>1. ASSUME Basics, [Next]_vars  PROVE Taken
  <2> SUFFICES ASSUME Sole \/ "remove" \notin Operations, NEW f \in Queued, CanSync(f),
                      f \notin Queued'
               PROVE  sched'.cur = f
    OBVIOUS
  <2>1. ~PopIgnored
    BY <1>1 DEF PopIgnored, Basics, IgnoresNone, CanSync
  <2> QED  BY <1>1, <2>1, QueuedStep DEF Basics
<1>2. Basics /\ [Next]_vars => Basics' /\ [Taken]_vars
  BY <1>1, BasicsStep
<1> QED  BY <1>2, BasicsInit, PTL DEF Spec, TakenToBeSynced

\* A paused folder begins no sync, whatever is on the stack when it is paused.
THEOREM PausedIsLeftAlone == Spec => PausedStaysStill
<1> DEFINE Still == \A f \in Folders : folder[f].paused /\ ~engine[f].running
                                         => ~engine'[f].running
<1>1. ASSUME Basics, [Next]_vars  PROVE Still
  <2> SUFFICES ASSUME NEW f \in Folders, folder[f].paused, ~engine[f].running
               PROVE  ~engine'[f].running
    OBVIOUS
  <2>1. ~(EngineStart /\ stack[1].f = f)
    BY <1>1 DEF EngineStart, Basics, StartsInTurn, Starting
  <2> QED  BY <1>1, <2>1, EnginesStep DEF Basics
<1>2. Basics /\ [Next]_vars => Basics' /\ [Still]_vars
  BY <1>1, BasicsStep
<1> QED  BY <1>2, BasicsInit, PTL DEF Spec, PausedStaysStill

----------------------------------------------------------------------------
\* Where a termination leaves none to be started: what the steps keep.

\* Every folder of the scenario lives, and stays.
LEMMA AllStay ==
    ASSUME Basics, TerminatesAlone
    PROVE  /\ \A f \in Folders : f \in net.scenario.folders <=> folder[f].life = "alive"
           /\ \A f \in Queued : folder[f].life = "alive" /\ f \in Folders
           /\ ~Wipe /\ \A f \in Folders : ~Delete(f) /\ ~RemoveFolder(f)
           /\ \A a \in Accounts : ~ServerUnsupported(a)
<1>1. "remove" \notin Operations /\ "unsupported" \notin Operations
  BY DEF TerminatesAlone
<1>2. \A f \in Folders : f \in net.scenario.folders <=> folder[f].life = "alive"
  BY <1>1 DEF Basics, OthersAreGone
<1>3. Queued \subseteq Folders
  <2>1. sched \in Scheds
    BY DEF Basics, Typed, TypeOK, Scheds, Maps
  <2> QED  BY <2>1, MapsTyped DEF Scheds, Queued
<1>4. \A f \in Queued : folder[f].life = "alive"
  BY <1>1, <1>3 DEF Basics, OthersAreGone
<1>5. ~Wipe
  <2> SUFFICES ASSUME Wipe  PROVE FALSE
    OBVIOUS
  <2>1. stack[1].call = "wipe" /\ stack \in Seq(GoodFrames) /\ stack # <<>>
    BY DEF Wipe, On, Basics, Typed
  <2>2. 1 \in 1 .. Len(stack)
    BY <2>1, LenProperties, EmptySeq
  <2> QED  BY <1>1, <2>1, <2>2 DEF Basics, WipesLast
<1>6. \A f \in Folders : ~Delete(f) /\ ~RemoveFolder(f)
  BY <1>1, <1>2 DEF Delete, RemoveFolder, Basics, OthersAreGone
<1>7. \A a \in Accounts : ~ServerUnsupported(a)
  BY <1>1 DEF ServerUnsupported
<1> QED  BY <1>2, <1>3, <1>4, <1>5, <1>6, <1>7

\* All that matters of a folder, but the state it shows.
Kept(g) ==
    /\ folder'[g].life = folder[g].life /\ folder'[g].ready = folder[g].ready
    /\ folder'[g].paused = folder[g].paused /\ folder'[g].switch = folder[g].switch
    /\ folder'[g].listeners = folder[g].listeners
Same(g) == Kept(g) /\ folder'[g].state = folder[g].state

LEMMA FoldersTyped ==
    ASSUME Typed
    PROVE  /\ folder \in [Folders -> FolderRecords]
           /\ \A g \in Folders : folder[g] \in FolderRecords
           /\ engine \in [Folders -> EngineRecords]
           /\ \A g \in Folders : engine[g] \in EngineRecords
           /\ Cur \in Folders \cup {NoFolder} /\ NoFolder \notin Folders
BY SchedulerAssumption DEF Typed, TypeOK, Cur

\* What SlotSyncFinished makes of the folders.
Finishes(fs, f, st, n) == [fs EXCEPT ![f].state = st, ![f].fails = n, ![f].listeners = 0]

LEMMA FinishWrites ==
    ASSUME SlotSyncFinished
    PROVE  LET f == stack[1].f
           IN  IF folder[f].life = "alive" /\ folder[f].ready
                 THEN \E n : folder' = Finishes(folder, f, FinishedStatus(f), n)
                 ELSE folder' = folder
<1> DEFINE f == stack[1].f
           status == FinishedStatus(f)
           fails == IF status = "Success" THEN 0 ELSE Capped(folder[f].fails)
<1>1. IF folder[f].life = "alive" /\ folder[f].ready
        THEN folder' = Finishes(folder, f, status, fails)
        ELSE folder' = folder
  BY DEF SlotSyncFinished, Finishes
<1> HIDE DEF fails
<1> QED  BY <1>1

LEMMA FinishesIs ==
    ASSUME NEW fs \in [Folders -> FolderRecords], NEW f \in Folders, NEW st, NEW n,
           NEW g \in Folders
    PROVE  LET r == Finishes(fs, f, st, n)[g]
           IN  /\ g # f => r = fs[g]
               /\ g = f => /\ r.life = fs[g].life /\ r.ready = fs[g].ready
                          /\ r.paused = fs[g].paused /\ r.switch = fs[g].switch
                          /\ r.listeners = 0 /\ r.state = st
<1> DEFINE r == [fs[f] EXCEPT !.state = st, !.fails = n, !.listeners = 0]
<1>1. Finishes(fs, f, st, n) = [fs EXCEPT ![f] = r]
  BY DEF Finishes
<1>2. /\ r.life = fs[f].life /\ r.ready = fs[f].ready /\ r.paused = fs[f].paused
      /\ r.switch = fs[f].switch /\ r.listeners = 0 /\ r.state = st
  BY DEF FolderRecords
<1> HIDE DEF r
<1> QED  BY <1>1, <1>2

LEMMA SwitchedIs ==
    ASSUME NEW fs \in [Folders -> FolderRecords], NEW f \in Folders, NEW resume,
           NEW g \in Folders
    PROVE  LET r == SwitchedVfs(fs, f, resume)[g]
           IN  /\ g # f => r = fs[g]
               /\ r.life = fs[g].life /\ r.listeners = fs[g].listeners
               /\ g = f => /\ ~r.ready /\ r.switch = "no"
                          /\ r.state \in {fs[g].state, "Success"}
<1> DEFINE p == fs[f].paused /\ ~resume
           st == IF resume /\ fs[f].paused THEN "Success" ELSE fs[f].state
           r == [fs[f] EXCEPT !.ready = FALSE, !.starting = TRUE, !.switch = "no",
                              !.paused = p, !.state = st]
<1>1. SwitchedVfs(fs, f, resume) = [fs EXCEPT ![f] = r]
  BY DEF SwitchedVfs
<1>2. st \in {fs[f].state, "Success"}
  OBVIOUS
<1> HIDE DEF p, st
<1>3. /\ r.life = fs[f].life /\ r.listeners = fs[f].listeners
      /\ ~r.ready /\ r.switch = "no" /\ r.state = st
  BY DEF FolderRecords
<1> HIDE DEF r
<1> QED  BY <1>1, <1>2, <1>3

LEMMA FacesSame ==
    ASSUME Typed, NEW g \in Folders,
           \/ folder' = folder \/ EngineStart \/ Abort \/ FollowUp
           \/ \E f \in Folders : DiscoveryFinished(f) \/ PropagationEnds(f) \/ RetryTimer(f)
    PROVE  Same(g)
<1>1. folder \in [Folders -> FolderRecords] /\ \A h \in Folders : folder[h] \in FolderRecords
  BY FoldersTyped
<1>2. CASE folder' = folder
  BY <1>2 DEF Same, Kept
<1>3. CASE EngineStart \/ Abort
  <2>1. \/ folder' = folder
        \/ folder' = [folder EXCEPT ![stack[1].f].errors = TRUE]
    <3>1. CASE EngineStart
      BY <3>1 DEF EngineStart
    <3>2. CASE Abort
      BY <3>2 DEF Abort
    <3> QED  BY <1>3, <3>1, <3>2
  <2> QED  BY <1>1, <2>1 DEF Same, Kept, FolderRecords
<1>4. CASE FollowUp
  <2> DEFINE f == stack[1].f
             c == IF engine[f].another THEN Capped(folder[f].followUps) ELSE 0
             b == \/ stack[1].arg = Flag(TRUE)
                  \/ engine[f].another /\ c <= retrySyncLimitC
  <2>1. folder' = [folder EXCEPT ![f].followUps = c, ![f].timer = @ \/ (b /\ CanSync(f))]
    BY <1>4 DEF FollowUp
  <2> HIDE DEF f, c, b
  <2> QED  BY <1>1, <2>1 DEF Same, Kept, FolderRecords
<1>5. ASSUME NEW f \in Folders, DiscoveryFinished(f) \/ PropagationEnds(f) \/ RetryTimer(f)
      PROVE  Same(g)
  <2>1. CASE DiscoveryFinished(f)
    BY <1>1, <2>1 DEF DiscoveryFinished, FolderRecords, Same, Kept
  <2>2. CASE PropagationEnds(f)
    BY <1>1, <2>2 DEF PropagationEnds, FolderRecords, Same, Kept
  <2>3. CASE RetryTimer(f)
    BY <1>1, <2>3 DEF RetryTimer, FolderRecords, Same, Kept
  <2> QED  BY <1>5, <2>1, <2>2, <2>3
<1> QED  BY <1>2, <1>3, <1>4, <1>5

LEMMA FacesShown ==
    ASSUME Typed, NEW g \in Folders
    PROVE  /\ EnqueueFolder =>
                /\ Kept(g)
                /\ \/ folder'[g].state = folder[g].state
                   \/ g = stack[1].f /\ g # Cur /\ folder'[g].state = "Queued"
           /\ StartSync =>
                /\ Kept(g)
                /\ g # stack[1].f => folder'[g].state = folder[g].state
           /\ \A f \in Folders : WatcherDetects(f) =>
                /\ Kept(g)
                /\ \/ folder'[g].state = folder[g].state
                   \/ folder[g].state # "SyncRunning" /\ folder'[g].state = "Queued"
           /\ \A f \in Folders : WatcherReports(f) =>
                /\ Kept(g)
                /\ \/ folder'[g].state = folder[g].state
                   \/ folder[g].state = "Queued" /\ folder'[g].state = "Success"
<1>1. folder \in [Folders -> FolderRecords] /\ \A h \in Folders : folder[h] \in FolderRecords
  BY FoldersTyped
<1>2. ASSUME EnqueueFolder
      PROVE  /\ Kept(g)
             /\ \/ folder'[g].state = folder[g].state
                \/ g = stack[1].f /\ g # Cur /\ folder'[g].state = "Queued"
  BY <1>1, <1>2 DEF EnqueueFolder, FolderRecords, Kept
<1>3. ASSUME StartSync
      PROVE  Kept(g) /\ (g # stack[1].f => folder'[g].state = folder[g].state)
  BY <1>1, <1>3 DEF StartSync, FolderRecords, Kept
<1>4. ASSUME NEW f \in Folders, WatcherDetects(f)
      PROVE  /\ Kept(g)
             /\ \/ folder'[g].state = folder[g].state
                \/ folder[g].state # "SyncRunning" /\ folder'[g].state = "Queued"
  BY <1>1, <1>4 DEF WatcherDetects, FolderRecords, Kept, isSyncRunning
<1>5. ASSUME NEW f \in Folders, WatcherReports(f)
      PROVE  /\ Kept(g)
             /\ \/ folder'[g].state = folder[g].state
                \/ folder[g].state = "Queued" /\ folder'[g].state = "Success"
  BY <1>1, <1>5 DEF WatcherReports, FolderRecords, Kept
<1> QED  BY <1>2, <1>3, <1>4, <1>5

LEMMA FacesOthers ==
    ASSUME Typed, NEW g \in Folders
    PROVE  /\ SlotSyncFinished =>
                \/ Same(g)
                \/ /\ g = stack[1].f /\ folder'[g].life = folder[g].life
                   /\ folder'[g].ready = folder[g].ready /\ folder'[g].paused = folder[g].paused
                   /\ folder'[g].switch = folder[g].switch /\ folder'[g].listeners = 0
                   /\ folder'[g].state # "SyncRunning"
           /\ FinalizeVfsSwitch =>
                \/ g # stack[1].f /\ Same(g)
                \/ /\ g = stack[1].f /\ folder'[g].life = folder[g].life
                   /\ ~folder'[g].ready /\ folder'[g].switch = "no"
                   /\ folder'[g].listeners = folder[g].listeners
                   /\ folder'[g].state \in {folder[g].state, "Success"}
           /\ \A f \in Folders : VfsStarted(f) =>
                \/ g # f /\ Same(g)
                \/ /\ g = f /\ folder'[g].ready /\ folder'[g].life = folder[g].life
                   /\ folder'[g].paused = folder[g].paused /\ folder'[g].switch = folder[g].switch
                   /\ folder'[g].listeners = folder[g].listeners
                   /\ folder'[g].state = folder[g].state
           /\ \A f \in Folders : Pause(f) \/ Resume(f) =>
                \/ g # f /\ Same(g)
                \/ /\ g = f /\ folder'[g].life = folder[g].life
                   /\ folder'[g].ready = folder[g].ready /\ folder'[g].switch = folder[g].switch
                   /\ folder'[g].listeners = folder[g].listeners
                   /\ Pause(f) => folder'[g].state = "Paused" /\ folder'[g].paused
                   /\ Resume(f) => folder'[g].state = "Success" /\ ~folder'[g].paused
<1>1. folder \in [Folders -> FolderRecords] /\ \A h \in Folders : folder[h] \in FolderRecords
  BY FoldersTyped
<1>2. ASSUME SlotSyncFinished
      PROVE  \/ Same(g)
             \/ /\ g = stack[1].f /\ folder'[g].life = folder[g].life
                /\ folder'[g].ready = folder[g].ready /\ folder'[g].paused = folder[g].paused
                /\ folder'[g].switch = folder[g].switch /\ folder'[g].listeners = 0
                /\ folder'[g].state # "SyncRunning"
  <2> DEFINE f == stack[1].f
  <2>1. f \in Folders
    BY <1>2, HeadTyped, RunFrames DEF On, Idle, FolderCalls, Calls
  <2>2. FinishedStatus(f) # "SyncRunning"
    BY DEF FinishedStatus
  <2>3. folder' = folder \/ \E n : folder' = Finishes(folder, f, FinishedStatus(f), n)
    BY <1>2, FinishWrites
  <2> HIDE DEF f
  <2> QED  BY <1>1, <2>1, <2>2, <2>3, FinishesIs DEF Same, Kept, f
<1>3. ASSUME FinalizeVfsSwitch
      PROVE  \/ g # stack[1].f /\ Same(g)
             \/ /\ g = stack[1].f /\ folder'[g].life = folder[g].life
                /\ ~folder'[g].ready /\ folder'[g].switch = "no"
                /\ folder'[g].listeners = folder[g].listeners
                /\ folder'[g].state \in {folder[g].state, "Success"}
  <2> DEFINE f == stack[1].f
  <2>1. f \in Folders
    BY <1>3, HeadTyped, RunFrames DEF On, Idle, FolderCalls, Calls
  <2>2. folder' = SwitchedVfs(folder, f, folder[f].switch = "resume")
    BY <1>3 DEF FinalizeVfsSwitch
  <2> DEFINE r == SwitchedVfs(folder, f, folder[f].switch = "resume")[g]
  <2> HIDE DEF f
  <2>3. /\ g # f => r = folder[g]
        /\ r.life = folder[g].life /\ r.listeners = folder[g].listeners
        /\ g = f => ~r.ready /\ r.switch = "no" /\ r.state \in {folder[g].state, "Success"}
    BY <1>1, <2>1, SwitchedIs
  <2>4. folder'[g] = r
    BY <2>2
  <2> HIDE DEF r
  <2> QED  BY <2>3, <2>4 DEF Same, Kept, f
<1>4. ASSUME NEW f \in Folders, VfsStarted(f)
      PROVE  \/ g # f /\ Same(g)
             \/ /\ g = f /\ folder'[g].ready /\ folder'[g].life = folder[g].life
                /\ folder'[g].paused = folder[g].paused /\ folder'[g].switch = folder[g].switch
                /\ folder'[g].listeners = folder[g].listeners
                /\ folder'[g].state = folder[g].state
  BY <1>1, <1>4 DEF VfsStarted, Same, Kept, FolderRecords
<1>5. ASSUME NEW f \in Folders, Pause(f)
      PROVE  \/ g # f /\ Same(g)
             \/ /\ g = f /\ folder'[g].life = folder[g].life
                /\ folder'[g].ready = folder[g].ready /\ folder'[g].switch = folder[g].switch
                /\ folder'[g].listeners = folder[g].listeners
                /\ folder'[g].state = "Paused" /\ folder'[g].paused /\ ~folder[g].paused
  <2>1. ~folder[f].paused /\ folder' = Paused({f})
    BY <1>5 DEF Pause
  <2>2. folder[g] \in FolderRecords
    BY <1>1
  <2> DEFINE P == Paused({f})
  <2>3. folder' = P
    BY <2>1
  <2>4. /\ P[g].life = folder[g].life /\ P[g].ready = folder[g].ready
        /\ P[g].switch = folder[g].switch /\ P[g].listeners = folder[g].listeners
        /\ g = f => P[g].paused /\ P[g].state = "Paused"
        /\ g # f => P[g] = folder[g]
    BY <1>1, <2>1, PausedEntries
  <2> HIDE DEF P
  <2> QED  BY <2>1, <2>3, <2>4 DEF Same, Kept
<1>6. ASSUME NEW f \in Folders, Resume(f)
      PROVE  \/ g # f /\ Same(g)
             \/ /\ g = f /\ folder'[g].life = folder[g].life
                /\ folder'[g].ready = folder[g].ready /\ folder'[g].switch = folder[g].switch
                /\ folder'[g].listeners = folder[g].listeners
                /\ folder'[g].state = "Success" /\ ~folder'[g].paused /\ folder[g].paused
  BY <1>1, <1>6 DEF Resume, Same, Kept, FolderRecords
<1>7. ASSUME NEW f \in Folders, Pause(f) \/ Resume(f)
      PROVE  \/ g # f /\ Same(g)
             \/ /\ g = f /\ folder'[g].life = folder[g].life
                /\ folder'[g].ready = folder[g].ready /\ folder'[g].switch = folder[g].switch
                /\ folder'[g].listeners = folder[g].listeners
                /\ Pause(f) => folder'[g].state = "Paused" /\ folder'[g].paused
                /\ Resume(f) => folder'[g].state = "Success" /\ ~folder'[g].paused
  <2>1. ~(Pause(f) /\ Resume(f))
    BY DEF Pause, Resume
  <2> QED  BY <1>5, <1>6, <1>7, <2>1
<1> QED  BY <1>2, <1>3, <1>4, <1>7

LEMMA EnginesSame ==
    ASSUME Typed, [Next]_vars, ~EngineStart, ~Finalize, NEW g \in Folders, ~Delete(g)
    PROVE  /\ engine'[g].running = engine[g].running
           /\ engine'[g].discovery = engine[g].discovery
BY EnginesStep

\* The queue is changed, and nothing else of the scheduler.
LEMMA QueueOnly ==
    ASSUME NEW s \in Scheds, NEW q, NEW m
    PROVE  LET t == [s EXCEPT !.queue = q, !.scheduled = m]
           IN  t.cur = s.cur /\ t.running = s.running /\ t.startPosted = s.startPosted
<1> DEFINE r == [s EXCEPT !.queue = q]  t == [r EXCEPT !.scheduled = m]
<1>1. /\ DOMAIN r = {"running", "startPosted", "cur", "queue", "scheduled"}
      /\ r.cur = s.cur /\ r.running = s.running /\ r.startPosted = s.startPosted
  BY DEF Scheds
<1> HIDE DEF r
<1>2. t.cur = r.cur /\ t.running = r.running /\ t.startPosted = r.startPosted
  BY <1>1
<1> QED  BY <1>1, <1>2 DEF r

LEMMA PoppedKeeps ==
    ASSUME NEW s \in Scheds, NEW e
    PROVE  LET t == Popped(s, e)
           IN  t.cur = s.cur /\ t.running = s.running /\ t.startPosted = s.startPosted
<1> DEFINE t == Popped(s, e)
           q == s.queue \ {e}
           m == [g \in DOMAIN s.scheduled \ {e[1]} |-> s.scheduled[g]]
<1>1. t = [s EXCEPT !.queue = q, !.scheduled = m]
  BY DEF Popped, Scheds
<1> HIDE DEF q, m
<1> QED  BY <1>1, QueueOnly

LEMMA CurSame ==
    ASSUME Typed, [Next]_vars, ~EnqueueFolder, ~StartNext, ~ClearCurrent, ~SyncFinished,
           \A f \in Folders : ~Delete(f)
    PROVE  sched'.cur = sched.cur
<1>1. sched \in Scheds
  BY DEF Typed, TypeOK, Scheds, Maps
<1>2. CASE sched' = sched
  BY <1>2
<1>3. CASE PopIgnored
  <2>1. sched' = sched \/ \E e : sched' = Popped(sched, e)
    BY <1>3 DEF PopIgnored
  <2> QED  BY <1>1, <2>1, PoppedKeeps
<1>4. CASE PauseAll \/ Start \/ PostedStart \/ \E f \in Folders : ForceSync(f)
  <2> QED  BY <1>1, <1>4, FlagsWritten
<1> QED
  BY <1>2, <1>3, <1>4, SchedWriters

LEMMA SettledKept ==
    ASSUME Typed, Settled, sched'.cur = sched.cur,
           \A g \in Folders : Silent(g) =>
              /\ ~engine'[g].running /\ folder'[g].listeners = 0
              /\ folder'[g].state # "SyncRunning",
           \A g \in Folders : Shown(g) =>
              /\ engine'[g].running /\ engine'[g].discovery
              /\ folder'[g].life = "alive" /\ folder'[g].ready /\ folder'[g].listeners = 1
              /\ folder'[g].state = "SyncRunning" /\ ~folder'[g].paused
    PROVE  Settled'
<1>1. CASE Nothing
  BY <1>1 DEF Settled, Nothing, NoneSyncs, Silent, Cur, isSyncRunning
<1>2. CASE Shown(Cur)
  <2>1. Cur \in Folders /\ \A g \in Folders \ {Cur} : Silent(g)
    BY <1>2 DEF Shown, Syncing, Runs, Alone
  <2>2. \A g \in Folders \ {Cur} :
              /\ ~engine'[g].running /\ folder'[g].listeners = 0
              /\ folder'[g].state # "SyncRunning"
    BY <2>1
  <2>3. /\ engine'[Cur].running /\ engine'[Cur].discovery
        /\ folder'[Cur].life = "alive" /\ folder'[Cur].ready /\ folder'[Cur].listeners = 1
        /\ folder'[Cur].state = "SyncRunning" /\ ~folder'[Cur].paused
    BY <1>2, <2>1
  <2> QED
    BY <2>1, <2>2, <2>3 DEF Settled, Shown, Syncing, Runs, Alone, Silent, Cur, isSyncRunning
<1> QED  BY <1>1, <1>2 DEF Settled

LEMMA SettledSame ==
    ASSUME Typed, Settled, sched'.cur = sched.cur,
           \A g \in Folders : /\ Same(g) /\ engine'[g].running = engine[g].running
                              /\ engine'[g].discovery = engine[g].discovery
    PROVE  Settled'
BY SettledKept DEF Same, Kept, Silent, Shown, Syncing, Runs, Alone, isSyncRunning

\* The handler goes on with what was called before, and all is settled.
LEMMA GoesOn ==
    ASSUME Typed, ~Idle, Return, Settled',
           \A i \in 2 .. Len(stack) : stack[i].call \in PassiveCalls \ {"engineStart"}
    PROVE  Progress'
<1>1. stack \in Seq(GoodFrames) /\ stack # <<>> /\ Len(stack) \in Nat \ {0}
  BY LenProperties, EmptySeq DEF Typed, Idle
<1>2. /\ stack' \in Seq(GoodFrames) /\ Len(stack') = Len(stack) - 1
      /\ \A i \in 1 .. Len(stack) - 1 : stack'[i] = stack[i + 1]
  BY <1>1, Returned DEF Return
<1>3. \A i \in 1 .. Len(stack') : stack'[i].call \in PassiveCalls \ {"engineStart"}
  <2>1. \A i \in 1 .. Len(stack') : i + 1 \in 2 .. Len(stack) /\ stack'[i] = stack[i + 1]
    BY <1>1, <1>2
  <2> QED  BY <2>1
<1>4. ASSUME stack' # <<>>
      PROVE  /\ 1 \in 1 .. Len(stack')
             /\ 2 \in 1 .. Len(stack') => stack'[2].call # "engineStart"
  BY <1>2, <1>3, <1>4, LenProperties, EmptySeq
<1>5. \A fr \in Below' : fr.call \in PassiveCalls
  BY <1>1, <1>2, <1>3 DEF Below
<1>6. stack' # <<>> => stack'[1].call \in PassiveCalls \ {"engineStart"}
  BY <1>3, <1>4
<1> QED
  BY <1>4, <1>5, <1>6 DEF Progress, Idle, PassiveCalls, SettledCalls

\* It makes calls, of which all but the first are passive.
LEMMA CallsNext ==
    ASSUME Typed, ~Idle, Progress, NEW frames \in Seq(GoodFrames), Call(frames),
           Len(frames) \in Nat \ {0},
           \A i \in 2 .. Len(frames) : frames[i].call \in PassiveCalls
    PROVE  /\ stack' # <<>> /\ stack'[1] = frames[1]
           /\ \A fr \in Below' : fr.call \in PassiveCalls
           /\ Len(frames) = 1 /\ 2 \in 1 .. Len(stack') =>
                2 \in 2 .. Len(stack) /\ stack'[2] = stack[2]
           /\ Len(frames) > 1 => 2 \in 1 .. Len(stack') /\ stack'[2] = frames[2]
<1>1. stack \in Seq(GoodFrames) /\ stack # <<>> /\ Len(stack) \in Nat \ {0}
  BY LenProperties, EmptySeq DEF Typed, Idle
<1>2. /\ stack' \in Seq(GoodFrames) /\ Len(stack') = Len(frames) + Len(stack) - 1
      /\ \A i \in 1 .. Len(frames) : stack'[i] = frames[i]
      /\ \A i \in Len(frames) + 1 .. Len(stack') : stack'[i] = stack[i - Len(frames) + 1]
  BY <1>1, Replaced DEF Call
<1>3. Len(stack') \in Nat \ {0}
  BY <1>1, <1>2
<1>4. stack' # <<>>
  BY <1>2, <1>3, EmptySeq
<1>5. \A i \in 2 .. Len(stack) : stack[i].call \in PassiveCalls
  BY DEF Progress, Below
<1>6. \A i \in 2 .. Len(stack') : stack'[i].call \in PassiveCalls
  <2> SUFFICES ASSUME NEW i \in 2 .. Len(stack')  PROVE stack'[i].call \in PassiveCalls
    OBVIOUS
  <2>1. CASE i <= Len(frames)
    <3>1. i \in 2 .. Len(frames) /\ i \in 1 .. Len(frames)
      BY <1>2, <1>3, <2>1
    <3>2. stack'[i] = frames[i] /\ frames[i].call \in PassiveCalls
      BY <1>2, <3>1
    <3> QED  BY <3>2
  <2>2. CASE i > Len(frames)
    <3> DEFINE k == i - Len(frames) + 1
    <3>1. k \in 2 .. Len(stack) /\ i \in Len(frames) + 1 .. Len(stack')
      BY <1>1, <1>2, <1>3, <2>2
    <3>2. stack'[i] = stack[k] /\ stack[k].call \in PassiveCalls
      BY <1>2, <1>5, <3>1
    <3> QED  BY <3>2
  <2> QED  BY <1>3, <2>1, <2>2
<1>7. \A fr \in Below' : fr.call \in PassiveCalls
  BY <1>6 DEF Below
<1>8. ASSUME Len(frames) = 1, 2 \in 1 .. Len(stack')
      PROVE  2 \in 2 .. Len(stack) /\ stack'[2] = stack[2]
  BY <1>1, <1>2, <1>8
<1>9. ASSUME Len(frames) > 1
      PROVE  2 \in 1 .. Len(stack') /\ stack'[2] = frames[2]
  BY <1>1, <1>2, <1>9
<1>10. stack'[1] = frames[1]
  BY <1>2
<1> QED  BY <1>4, <1>7, <1>8, <1>9, <1>10

\* The two usual cases.
LEMMA CallsOne ==
    ASSUME Typed, ~Idle, Progress, NEW a \in GoodFrames, Call(<<a>>)
    PROVE  /\ stack' # <<>> /\ stack'[1] = a
           /\ \A fr \in Below' : fr.call \in PassiveCalls
           /\ 2 \in 1 .. Len(stack') => 2 \in 2 .. Len(stack) /\ stack'[2] = stack[2]
<1> DEFINE s == <<a>>
<1>1. s \in Seq(GoodFrames) /\ Len(s) = 1 /\ s[1] = a /\ Call(s)
  OBVIOUS
<1> HIDE DEF s
<1>2. \A i \in 2 .. Len(s) : s[i].call \in PassiveCalls
  BY <1>1
<1>0. Len(s) \in Nat \ {0}
  BY <1>1
<1>3. /\ stack' # <<>> /\ stack'[1] = s[1]
      /\ \A fr \in Below' : fr.call \in PassiveCalls
      /\ 2 \in 1 .. Len(stack') => 2 \in 2 .. Len(stack) /\ stack'[2] = stack[2]
  BY Zenon, <1>0, <1>1, <1>2, CallsNext
<1> QED  BY <1>1, <1>3

LEMMA CallsTwo ==
    ASSUME Typed, ~Idle, Progress, NEW a \in GoodFrames, NEW b \in GoodFrames,
           Call(<<a, b>>), b.call \in PassiveCalls
    PROVE  /\ stack' # <<>> /\ stack'[1] = a
           /\ \A fr \in Below' : fr.call \in PassiveCalls
           /\ 2 \in 1 .. Len(stack') /\ stack'[2] = b
<1> DEFINE s == <<a, b>>
<1>1. s \in Seq(GoodFrames) /\ Len(s) = 2 /\ s[1] = a /\ s[2] = b /\ Call(s)
  OBVIOUS
<1> HIDE DEF s
<1>2. \A i \in 2 .. Len(s) : s[i].call \in PassiveCalls
  BY <1>1
<1>3. Len(s) \in Nat \ {0} /\ Len(s) > 1
  BY <1>1
<1>4. /\ stack' # <<>> /\ stack'[1] = s[1]
      /\ \A fr \in Below' : fr.call \in PassiveCalls
      /\ 2 \in 1 .. Len(stack') /\ stack'[2] = s[2]
  BY <1>1, <1>2, <1>3, CallsNext
<1> QED  BY <1>1, <1>4

\* What the running call can count on.
LEMMA HeadNeeds ==
    ASSUME Basics, Progress, ~Idle
    PROVE  /\ Typed /\ stack \in Seq(GoodFrames) /\ stack # <<>> /\ Len(stack) \in Nat \ {0}
           /\ stack[1] \in GoodFrames
           /\ stack[1].call \in FolderCalls => stack[1].f \in Folders
           /\ stack[1].call # "enqueueFolder" =>
                \A i \in 2 .. Len(stack) : stack[i].call \in PassiveCalls \ {"engineStart"}
           /\ \A i \in 3 .. Len(stack) : stack[i].call \in PassiveCalls \ {"engineStart"}
           /\ 2 \in 1 .. Len(stack) => stack[2].call \in PassiveCalls
<1>1. Typed /\ stack \in Seq(GoodFrames) /\ stack # <<>> /\ Len(stack) \in Nat \ {0}
  BY LenProperties, EmptySeq DEF Basics, Typed, Idle
<1>2. \A i \in 2 .. Len(stack) : stack[i].call \in PassiveCalls
  BY DEF Progress, Below
<1>3. \A i \in 2 .. Len(stack) : stack[i].call = "engineStart" => i = 2 /\ On("enqueueFolder")
  BY DEF Basics, StartsInTurn
<1> QED  BY <1>1, <1>2, <1>3, HeadTyped DEF On

----------------------------------------------------------------------------
\* How far the sync has got: the calls.

LEMMA EnqueueProgress ==
    ASSUME Basics, TerminatesAlone, Progress, EnqueueFolder
    PROVE  Progress'
<1> DEFINE f == stack[1].f  n == Frame("startNext", NoFolder, 0)
<1>1. ~Idle /\ stack[1].call = "enqueueFolder" /\ On("enqueueFolder")
  BY DEF EnqueueFolder, On, Idle
<1>2. /\ Typed /\ stack \in Seq(GoodFrames) /\ stack # <<>> /\ Len(stack) \in Nat \ {0}
      /\ f \in Folders
      /\ \A i \in 3 .. Len(stack) : stack[i].call \in PassiveCalls \ {"engineStart"}
      /\ 2 \in 1 .. Len(stack) => stack[2].call \in PassiveCalls
  BY <1>1, HeadNeeds DEF FolderCalls, Calls
<1>3. \A g \in Folders :
        /\ Kept(g)
        /\ folder'[g].state = folder[g].state \/ (g = f /\ g # Cur /\ folder'[g].state = "Queued")
        /\ engine'[g] = engine[g]
  BY <1>2, FacesShown DEF EnqueueFolder
<1>4. Cur \in Folders \cup {NoFolder} /\ NoFolder \notin Folders /\ (Busy <=> Cur # NoFolder)
  BY <1>2, FoldersTyped DEF Busy
<1>5. n \in GoodFrames /\ n.call = "startNext"
  BY NullFrame DEF Calls, FolderCalls
<1>c. /\ sched'.cur = sched.cur \/ sched'.cur = NoFolder
      /\ ~CanSync(f) => sched' = sched /\ folder' = folder /\ Return
      /\ CanSync(f) /\ Busy /\ isSyncRunning(Cur) => sched'.cur = sched.cur /\ Return
      /\ CanSync(f) /\ ~(Busy /\ isSyncRunning(Cur)) => sched'.cur = NoFolder /\ Call(<<n>>)
  <2>1. sched \in Scheds /\ stack[1].arg \in Priorities
    BY <1>1, <1>2, HeadTyped DEF Typed, TypeOK, Scheds, Maps
  <2>2. /\ Enqueued(sched, f, stack[1].arg).cur = sched.cur
        /\ Enqueued(sched, f, stack[1].arg) \in Scheds
    <3>1. Enqueued(sched, f, stack[1].arg) \in Scheds
      BY <1>2, <2>1, EnqueuedTyped
    <3>2. Enqueued(sched, f, stack[1].arg).cur = sched.cur
      <4> DEFINE p == stack[1].arg
      <4> HIDE DEF p
      <4> QED  BY <2>1 DEF Enqueued, Scheds, p
    <3> QED  BY <3>1, <3>2
  <2>3. [Enqueued(sched, f, stack[1].arg) EXCEPT !.cur = NoFolder].cur = NoFolder
    BY <2>2 DEF Scheds
  <2> QED  BY <2>2, <2>3 DEF EnqueueFolder
<1> HIDE DEF f, n
<1>6. CASE 2 \in 1 .. Len(stack) /\ stack[2].call = "engineStart"
  <2>1. PICK g \in Folders :
          g = stack[2].f /\ Stopped(g) /\ Starting(g) /\ Cur = g /\ isSyncRunning(Cur)
    BY <1>1, <1>6 DEF Progress, Starting, Stopped, Alone
  <2>2. Return /\ sched'.cur = g
    BY <1>4, <1>c, <2>1 DEF Cur
  <2>3. /\ stack' \in Seq(GoodFrames) /\ Len(stack') = Len(stack) - 1
        /\ \A i \in 1 .. Len(stack) - 1 : stack'[i] = stack[i + 1]
    BY <1>2, <2>2, Returned DEF Return
  <2>4. stack' # <<>> /\ stack'[1] = stack[2] /\ Len(stack') \in Nat
    BY <1>2, <1>6, <2>3, EmptySeq
  <2>5. \A i \in 2 .. Len(stack') : i + 1 \in 3 .. Len(stack) /\ stack'[i] = stack[i + 1]
    BY <1>2, <2>3
  <2>6. \A fr \in Below' : fr.call \in PassiveCalls
    BY <1>2, <2>5 DEF Below
  <2>7. Kept(g) /\ folder'[g].state = folder[g].state /\ engine'[g] = engine[g]
    BY <1>3, <2>1
  <2>8. Alone(g)'
    BY <1>3, <2>1, <2>2, <2>7 DEF Stopped, Alone, Silent, Kept, Cur, isSyncRunning
  <2>9. Stopped(g)' /\ Starting(g)'
    BY <2>1, <2>2, <2>7, <2>8 DEF Stopped, Starting, Kept, Cur, isSyncRunning
  <2>10. stack'[1].call = "engineStart" /\ stack'[1].f = g
    BY <1>6, <2>1, <2>4
  <2>11. ~Idle'
    BY <2>4 DEF Idle
  <2> QED
    BY <2>6, <2>9, <2>10, <2>11 DEF Progress, SettledCalls, Stopped, Alone, Starting, Cur, isSyncRunning
<1>7. CASE ~(2 \in 1 .. Len(stack) /\ stack[2].call = "engineStart")
  <2>0. Settled \/ (Cur = f /\ NoneSyncs /\ CanSync(f))
    BY <1>1, <1>7 DEF Progress, f
  <2>1. \A i \in 2 .. Len(stack) : stack[i].call \in PassiveCalls \ {"engineStart"}
    BY <1>2, <1>7
  <2>2. CASE Call(<<n>>) /\ sched'.cur = NoFolder
    <3>1. NoneSyncs
      BY <1>4, <1>c, <2>0, <2>2 DEF Settled, Nothing, Shown, Syncing, Runs, Alone, Cur
    <3>2. Nothing'
      BY <1>3, <2>2, <3>1 DEF Nothing, NoneSyncs, Silent, Kept, Cur, isSyncRunning
    <3>3. /\ stack' # <<>> /\ stack'[1] = n
          /\ \A fr \in Below' : fr.call \in PassiveCalls
      BY <1>1, <1>2, <1>5, <2>2, CallsOne
    <3> QED  BY <1>5, <3>2, <3>3 DEF Progress, Idle, Settled, SettledCalls
  <2>3. CASE Return /\ sched'.cur = sched.cur /\ Settled
    <3>1. Settled'
      <4>1. \A g \in Folders : Silent(g) =>
              /\ ~engine'[g].running /\ folder'[g].listeners = 0
              /\ folder'[g].state # "SyncRunning"
        BY <1>3 DEF Silent, Kept, isSyncRunning
      <4>2. \A g \in Folders : Shown(g) => g = Cur
        BY DEF Shown, Syncing, Runs, Alone
      <4>3. \A g \in Folders : Shown(g) =>
              /\ engine'[g].running /\ engine'[g].discovery
              /\ folder'[g].life = "alive" /\ folder'[g].ready /\ folder'[g].listeners = 1
              /\ folder'[g].state = "SyncRunning" /\ ~folder'[g].paused
        BY <1>3, <4>2 DEF Shown, Syncing, Runs, Alone, Kept, isSyncRunning
      <4> QED  BY <1>2, <2>3, <4>1, <4>3, SettledKept
    <3> QED  BY <1>1, <1>2, <2>1, <2>3, <3>1, GoesOn
  <2>4. CASE Cur = f /\ NoneSyncs /\ CanSync(f)
    <3>1. ~isSyncRunning(Cur)
      BY <1>2, <2>4 DEF NoneSyncs, Silent
    <3> QED  BY <1>c, <2>2, <2>4, <3>1
  <2> QED  BY <1>c, <2>0, <2>2, <2>3, <2>4
<1> QED  BY <1>6, <1>7

\* The same of startNext: it starts a sync, or nothing may start.
LEMMA StartNextProgress ==
    ASSUME Basics, TerminatesAlone, Progress, StartNext
    PROVE  Progress'
<1>1. ~Idle /\ stack[1].call = "startNext" /\ On("startNext")
  BY DEF StartNext, On, Idle
<1>2. /\ Typed /\ stack \in Seq(GoodFrames) /\ stack # <<>>
      /\ \A i \in 2 .. Len(stack) : stack[i].call \in PassiveCalls \ {"engineStart"}
      /\ Settled
  <2>1. Settled
    BY <1>1 DEF Progress, SettledCalls
  <2> QED  BY <1>1, <2>1, HeadNeeds
<1>3. /\ sched \in Scheds
      /\ \A e \in Tops(sched) : /\ e[1] \in Folders /\ e[2] \in Priorities
                                /\ folder[e[1]].life # "deleted"
                                /\ Popped(sched, e) \in Scheds
                                /\ Popped(sched, e).cur = sched.cur
  <2>1. sched \in Scheds /\ AgreesIn(sched)
    BY DEF Basics, Typed, TypeOK, Scheds, Maps, QueueAgrees, AgreesIn, Queued
  <2>2. \A e \in Tops(sched) : e \in sched.queue
    BY DEF Tops
  <2>3. \A e \in Tops(sched) : e[1] \in Queued /\ e[1] \in Folders /\ e[2] \in Priorities
    BY <2>1, <2>2, PoppedAgrees DEF Queued, Elements
  <2> QED  BY <2>1, <2>2, <2>3, AllStay, PoppedAgrees
<1>4. engine' = engine /\ net' = net
  BY DEF StartNext
<1>5. CASE (Return \/ UNCHANGED stack) /\ folder' = folder /\ sched'.cur = sched.cur
  <2>1. \A g \in Folders : Same(g)
    BY <1>2, <1>5, FacesSame
  <2>2. Settled'
    BY <1>2, <1>4, <1>5, <2>1, SettledSame
  <2>3. CASE Return
    BY <1>1, <1>2, <2>2, <2>3, GoesOn
  <2>4. CASE UNCHANGED stack
    <3>1. stack'[1].call = "startNext" /\ ~Idle' /\ \A fr \in Below' : fr.call \in PassiveCalls
      BY <1>1, <2>4 DEF Idle, Below, Progress
    <3> QED  BY <2>2, <3>1 DEF Progress, SettledCalls
  <2> QED  BY <1>5, <2>3, <2>4
<1>6. ASSUME NEW e \in Tops(sched), CanSync(e[1]), ~Busy, folder' = folder,
             sched' = [Popped(sched, e) EXCEPT !.cur = e[1]],
             Call(<<Frame("enqueueFolder", e[1], e[2])>>)
      PROVE  Progress'
  <2> DEFINE f == e[1]  a == Frame("enqueueFolder", f, e[2])
  <2>1. a \in GoodFrames /\ a.call = "enqueueFolder" /\ a.f = f /\ f \in Folders
    BY <1>3, EnqueueFrame
  <2>2. sched'.cur = f
    BY <1>3, <1>6 DEF Scheds
  <2> HIDE DEF f, a
  <2>3. /\ stack' # <<>> /\ stack'[1] = a
        /\ \A fr \in Below' : fr.call \in PassiveCalls
        /\ 2 \in 1 .. Len(stack') => 2 \in 2 .. Len(stack) /\ stack'[2] = stack[2]
    BY <1>1, <1>2, <1>6, <2>1, CallsOne DEF f, a
  <2>4. NoneSyncs
    BY <1>2, <1>6, FoldersTyped DEF Settled, Nothing, Shown, Syncing, Runs, Alone, Busy
  <2>5. NoneSyncs' /\ CanSync(f)'
    BY <1>4, <1>6, <2>4 DEF NoneSyncs, Silent, isSyncRunning, CanSync, f
  <2>6. 2 \in 1 .. Len(stack') => stack'[2].call # "engineStart"
    BY <1>2, <2>3
  <2>7. ~Idle' /\ stack'[1].call = "enqueueFolder" /\ stack'[1].f = f /\ Cur' = f
    BY <2>1, <2>2, <2>3 DEF Idle, Cur
  <2> QED
    BY <2>3, <2>5, <2>6, <2>7 DEF Progress, SettledCalls, CanSync
<1>7. ASSUME NEW e \in Tops(sched), CanSync(e[1]), ~Busy,
             folder' = [folder EXCEPT ![e[1]].listeners =
                          IF @ < MaxListeners THEN @ + 1 ELSE @],
             sched' = [Popped(sched, e) EXCEPT !.cur = e[1]],
             Call(<<Frame("startSync", e[1], 0)>>)
      PROVE  Progress'
  <2> DEFINE f == e[1]  a == Frame("startSync", f, 0)
  <2>1. a \in GoodFrames /\ a.call = "startSync" /\ a.f = f /\ f \in Folders
    BY <1>3, FolderFrame DEF Calls, High
  <2>2. sched'.cur = f
    BY <1>3, <1>7 DEF Scheds
  <2> HIDE DEF a
  <2>3. /\ stack' # <<>> /\ stack'[1] = a
        /\ \A fr \in Below' : fr.call \in PassiveCalls
    BY <1>1, <1>2, <1>7, <2>1, CallsOne DEF a
  <2>4. NoneSyncs
    BY <1>2, <1>7, FoldersTyped DEF Settled, Nothing, Shown, Syncing, Runs, Alone, Busy
  <2>5. /\ folder'[f].life = folder[f].life /\ folder'[f].ready = folder[f].ready
        /\ folder'[f].paused = folder[f].paused /\ folder'[f].state = folder[f].state
        /\ folder'[f].listeners = 1
        /\ \A g \in Folders \ {f} : folder'[g] = folder[g]
    <3>1. folder \in [Folders -> FolderRecords] /\ folder[f] \in FolderRecords
      BY <1>2, <2>1, FoldersTyped
    <3>2. folder[f].listeners = 0
      BY <2>1, <2>4 DEF NoneSyncs, Silent
    <3>3. (IF 0 < MaxListeners THEN 0 + 1 ELSE 0) = 1
      BY SchedulerAssumption
    <3>4. folder' = [folder EXCEPT ![f] = [folder[f] EXCEPT !.listeners = 1]]
      BY <1>7, <2>1, <3>1, <3>2, <3>3
    <3>5. folder'[f] = [folder[f] EXCEPT !.listeners = 1]
      BY <2>1, <3>1, <3>4
    <3> QED  BY <2>1, <3>1, <3>4, <3>5 DEF FolderRecords
  <2>6. CanSync(f)
    BY <1>7
  <2> HIDE DEF f
  <2>7. Stopped(f)' /\ CanSync(f)' /\ ~isSyncRunning(f)'
    BY <1>4, <2>1, <2>2, <2>4, <2>5, <2>6
       DEF Stopped, Alone, NoneSyncs, Silent, CanSync, Cur, isSyncRunning
  <2>8. ~Idle' /\ stack'[1].call = "startSync" /\ stack'[1].f = f
    BY <2>1, <2>3 DEF Idle
  <2> QED
    BY <2>3, <2>7, <2>8 DEF Progress, SettledCalls, Stopped, Alone, CanSync, isSyncRunning
<1> QED
  <2>1. \/ Return /\ folder' = folder /\ sched' = sched
        \/ \E e \in Tops(sched) :
             \/ folder[e[1]].life = "deleted"
             \/ UNCHANGED stack /\ folder' = folder /\ sched' = Popped(sched, e)
             \/ /\ CanSync(e[1]) /\ ~Busy /\ folder' = folder
                /\ sched' = [Popped(sched, e) EXCEPT !.cur = e[1]]
                /\ Call(<<Frame("enqueueFolder", e[1], e[2])>>)
             \/ /\ CanSync(e[1]) /\ ~Busy
                /\ folder' = [folder EXCEPT ![e[1]].listeners =
                                IF @ < MaxListeners THEN @ + 1 ELSE @]
                /\ sched' = [Popped(sched, e) EXCEPT !.cur = e[1]]
                /\ Call(<<Frame("startSync", e[1], 0)>>)
    BY DEF StartNext, Declined
  <2>2. ASSUME NEW e \in Tops(sched), UNCHANGED stack, folder' = folder,
               sched' = Popped(sched, e)
        PROVE  Progress'
    BY <1>3, <1>5, <2>2
  <2> QED  BY <1>3, <1>5, <1>6, <1>7, <2>1, <2>2

\* What slotSyncFinished calls when the scheduler listens once.
LEMMA FinishCallsOne ==
    ASSUME NEW f \in Folders, NEW arg \in 0 .. 1, folder[f].listeners = 1
    PROVE  LET s == FinishCalls(f, arg)
           IN  /\ s \in Seq(GoodFrames) /\ Len(s) \in Nat /\ Len(s) >= 2
               /\ s[1] = Frame("syncFinished", f, 0)
               /\ \A i \in 2 .. Len(s) :
                    s[i].f = f /\ s[i].call \in {"finalizeVfsSwitch", "followUp"}
               /\ folder[f].switch # "no" =>
                    \E i \in 2 .. Len(s) : s[i].call = "finalizeVfsSwitch"
               /\ folder[f].switch = "no" =>
                    \A i \in 2 .. Len(s) : s[i].call = "followUp"
<1> DEFINE x == Frame("syncFinished", f, 0)  y == Frame("finalizeVfsSwitch", f, 0)
           z == Frame("followUp", f, arg)
           a == [i \in 1 .. folder[f].listeners |-> x]
<1>1. /\ x \in GoodFrames /\ y \in GoodFrames /\ z \in GoodFrames
      /\ y.f = f /\ z.f = f /\ y.call = "finalizeVfsSwitch" /\ z.call = "followUp"
  BY FolderFrame DEF Calls, High
<1>2. FinishCalls(f, arg) =
        (a \o (IF folder[f].switch = "no" THEN <<>> ELSE <<y>>)) \o <<z>>
  BY DEF FinishCalls
<1> HIDE DEF x, y, z
<1>3. a = <<x>>
  <2>1. a \in Seq(GoodFrames) /\ Len(a) = 1 /\ a[1] = x
    BY <1>1, IsASeq
  <2>2. <<x>> \in Seq(GoodFrames) /\ Len(<<x>>) = 1 /\ <<x>>[1] = x
    BY <1>1
  <2> HIDE DEF a
  <2> QED  BY <2>1, <2>2, SeqEqual
<1> HIDE DEF a
<1>4. <<x>> \o <<>> = <<x>> /\ <<x>> \o <<y>> = <<x, y>> /\ <<x>> \o <<z>> = <<x, z>>
  <2>1. <<x>> \in Seq(GoodFrames)
    BY <1>1
  <2> QED  BY <1>1, <2>1, Lists, ConcatEmptySeq
<1>5. CASE folder[f].switch = "no"
  <2>1. FinishCalls(f, arg) = <<x, z>>
    BY <1>2, <1>3, <1>4, <1>5
  <2>2. /\ <<x, z>> \in Seq(GoodFrames) /\ Len(<<x, z>>) = 2
        /\ <<x, z>>[1] = x /\ <<x, z>>[2] = z
    BY <1>1
  <2> QED  BY <1>1, <1>5, <2>1, <2>2 DEF x
<1>6. CASE folder[f].switch # "no"
  <2> DEFINE t == <<x, y>>  u == <<z>>  s == t \o u
  <2>1. FinishCalls(f, arg) = s
    BY <1>2, <1>3, <1>4, <1>6
  <2>2. /\ t \in Seq(GoodFrames) /\ Len(t) = 2 /\ t[1] = x /\ t[2] = y
        /\ u \in Seq(GoodFrames) /\ Len(u) = 1 /\ u[1] = z
    BY <1>1
  <2> HIDE DEF t, u
  <2>3. /\ s \in Seq(GoodFrames) /\ Len(s) = 3
        /\ \A i \in 1 .. 3 : s[i] = IF i <= 2 THEN t[i] ELSE u[i - 2]
    BY <2>2, ConcatProperties
  <2> HIDE DEF s
  <2>4. s[1] = x /\ s[2] = y /\ s[3] = z
    BY <2>2, <2>3
  <2>5. \A i \in 2 .. 3 : i = 2 \/ i = 3
    OBVIOUS
  <2> QED  BY <1>1, <1>6, <2>1, <2>3, <2>4, <2>5 DEF x
<1> QED  BY <1>5, <1>6

\* The calls that leave folders and engines as they are.
LEMMA QuietProgress ==
    ASSUME Basics, TerminatesAlone, Progress, ClearsNone, StartIsLast,
           PopIgnored \/ ClearCurrent \/ Start \/ ResetEngine \/ FollowUp
    PROVE  Progress'
<1>0. [Next]_vars
  BY DEF Next, Run
<1>1. /\ ~Idle /\ Settled
      /\ stack[1].call \in {"popIgnored", "clearCurrent", "start", "resetEngine", "followUp"}
  <2>1. /\ ~Idle
        /\ stack[1].call \in {"popIgnored", "clearCurrent", "start", "resetEngine", "followUp"}
    BY DEF PopIgnored, ClearCurrent, Start, ResetEngine, FollowUp, On, Idle
  <2> QED  BY <2>1 DEF Progress, SettledCalls
<1>2. /\ Typed /\ stack \in Seq(GoodFrames) /\ stack # <<>> /\ Len(stack) \in Nat \ {0}
      /\ \A i \in 2 .. Len(stack) : stack[i].call \in PassiveCalls \ {"engineStart"}
  BY <1>1, HeadNeeds
<1>3. \A g \in Folders : ~Delete(g)
  BY AllStay
<1>4. sched'.cur = sched.cur
  <2>1. CASE ClearCurrent
    <3>1. stack[1] \in Pending /\ stack[1].call = "clearCurrent"
      BY <1>2, <2>1 DEF Pending, ClearCurrent, On
    <3>2. Cur = NoFolder
      BY <3>1 DEF ClearsNone, Ending
    <3> QED  BY <2>1, <3>2 DEF ClearCurrent, Cur, Basics, Typed, TypeOK
  <2>2. CASE ~ClearCurrent
    <3>1. ~EnqueueFolder /\ ~StartNext /\ ~SyncFinished
      BY <1>1 DEF EnqueueFolder, StartNext, SyncFinished, On
    <3> QED  BY <1>0, <1>2, <1>3, <2>2, <3>1, CurSame
  <2> QED  BY <2>1, <2>2
<1>5. \A g \in Folders : Same(g)
  BY <1>2, FacesSame DEF PopIgnored, ClearCurrent, Start, ResetEngine
<1>6. \A g \in Folders : /\ engine'[g].running = engine[g].running
                         /\ engine'[g].discovery = engine[g].discovery
  <2>1. ~EngineStart /\ ~Finalize
    BY <1>1, RunFrames DEF On
  <2> QED  BY <1>0, <1>2, <1>3, <2>1, EnginesSame
<1>7. Settled'
  BY <1>1, <1>2, <1>4, <1>5, <1>6, SettledSame
<1>8. CASE Return
  BY <1>1, <1>2, <1>7, <1>8, GoesOn
<1>9. CASE PopIgnored /\ UNCHANGED stack
  <2>1. ~Idle' /\ stack'[1].call = "popIgnored" /\ \A fr \in Below' : fr.call \in PassiveCalls
    BY <1>1, <1>9 DEF Idle, Below, Progress, PopIgnored, On
  <2> QED  BY <1>7, <2>1 DEF Progress, SettledCalls
<1> QED  BY <1>8, <1>9 DEF PopIgnored, ClearCurrent, Start, ResetEngine, FollowUp

\* The same of terminateCurrentSync.
LEMMA TerminateProgress ==
    ASSUME Basics, TerminatesAlone, Progress, TerminateCurrentSync
    PROVE  Progress'
<1>1. ~Idle /\ stack[1].call = "terminateCurrentSync" /\ (Nothing \/ Syncing(Cur))
  <2>1. ~Idle /\ stack[1].call = "terminateCurrentSync"
    BY DEF TerminateCurrentSync, On, Idle
  <2> QED  BY <2>1 DEF Progress
<1>2. /\ Typed /\ stack \in Seq(GoodFrames) /\ stack # <<>>
      /\ \A i \in 2 .. Len(stack) : stack[i].call \in PassiveCalls \ {"engineStart"}
  BY <1>1, HeadNeeds
<1>3. sched' = sched /\ folder' = folder /\ engine' = engine
  BY DEF TerminateCurrentSync
<1>4. CASE Nothing
  <2>1. Return
    BY <1>4 DEF TerminateCurrentSync, Nothing
  <2>2. Settled'
    BY <1>3, <1>4 DEF Settled, Nothing, NoneSyncs, Silent, Cur, isSyncRunning
  <2> QED  BY <1>1, <1>2, <2>1, <2>2, GoesOn
<1>5. CASE Syncing(Cur)
  <2>1. PICK f \in Folders : f = Cur /\ Syncing(f)
    BY <1>5 DEF Syncing, Runs, Alone
  <2> DEFINE a == Frame("abort", f, 0)  b == Frame("clearCurrent", NoFolder, 0)
  <2>2. a \in GoodFrames /\ a.call = "abort" /\ a.f = f /\ b \in GoodFrames /\ b.call = "clearCurrent"
    BY FolderFrame, NullFrame DEF Calls, FolderCalls, High
  <2>3. Call(<<a>> \o <<b>>)
    BY <1>2, <2>1, FoldersTyped DEF TerminateCurrentSync, Syncing, Runs, Alone
  <2> HIDE DEF a, b
  <2>4. Call(<<a, b>>)
    BY <2>2, <2>3, Lists
  <2>5. /\ stack' # <<>> /\ stack'[1] = a
        /\ \A fr \in Below' : fr.call \in PassiveCalls
    BY <1>1, <1>2, <2>2, <2>4, CallsTwo DEF PassiveCalls, SettledCalls
  <2>6. Syncing(f)'
    BY <1>3, <2>1 DEF Syncing, Runs, Alone, Silent, Cur, isSyncRunning
  <2>7. ~Idle' /\ stack'[1].call = "abort" /\ stack'[1].f = f
    BY <2>2, <2>5 DEF Idle
  <2> QED
    BY <2>5, <2>6, <2>7 DEF Progress, SettledCalls, Syncing, Runs, Alone
<1> QED  BY <1>1, <1>4, <1>5

LEMMA StartSyncProgress ==
    ASSUME Basics, TerminatesAlone, Progress, StartSync
    PROVE  Progress'
<1>1. ~Idle /\ stack[1].call = "startSync"
  BY DEF StartSync, On, Idle
<1>2. /\ Typed /\ stack \in Seq(GoodFrames) /\ stack # <<>> /\ stack[1].f \in Folders
      /\ \A i \in 2 .. Len(stack) : stack[i].call \in PassiveCalls \ {"engineStart"}
  BY <1>1, HeadNeeds DEF FolderCalls, Calls
<1>3. PICK f \in Folders : f = stack[1].f /\ Stopped(f) /\ CanSync(f) /\ ~isSyncRunning(f)
  BY <1>1, <1>2 DEF Progress
<1> DEFINE a == Frame("enqueueFolder", f, Low)  b == Frame("engineStart", f, 0)
<1>4. /\ a \in GoodFrames /\ a.call = "enqueueFolder"
      /\ b \in GoodFrames /\ b.call = "engineStart" /\ b.f = f
  BY EnqueueFrame, FolderFrame DEF Calls, Priorities, Low, High
<1>5. Call(<<a>> \o <<b>>) \/ Call(<<>> \o <<b>>)
  BY <1>3 DEF StartSync
<1> HIDE DEF a, b
<1>6. Call(<<a, b>>) \/ Call(<<b>>)
  BY <1>4, <1>5, Lists
<1>7. folder'[f].state = "SyncRunning" /\ sched' = sched /\ engine' = engine
  <2>1. folder \in [Folders -> FolderRecords] /\ folder[f] \in FolderRecords
    BY <1>2, FoldersTyped
  <2>2. folder' = [folder EXCEPT ![f] = [@ EXCEPT !.state = "SyncRunning",
                                           !.errors = FALSE, !.changed = FALSE]]
    BY <1>3, <2>1 DEF StartSync
  <2>3. folder'[f] = [folder[f] EXCEPT !.state = "SyncRunning",
                                           !.errors = FALSE, !.changed = FALSE]
    BY <2>1, <2>2
  <2>4. folder'[f].state = "SyncRunning"
    BY <2>1, <2>3 DEF FolderRecords
  <2> QED  BY <2>4 DEF StartSync
<1>8. \A g \in Folders : Kept(g) /\ (g # f => folder'[g].state = folder[g].state)
  BY <1>2, <1>3, FacesShown
<1>9. Stopped(f)' /\ Starting(f)'
  BY <1>3, <1>7, <1>8 DEF Stopped, Alone, Starting, Silent, CanSync, Kept, Cur, isSyncRunning
<1>10. CASE Call(<<a, b>>)
  <2>1. /\ stack' # <<>> /\ stack'[1] = a
        /\ \A fr \in Below' : fr.call \in PassiveCalls
        /\ 2 \in 1 .. Len(stack') /\ stack'[2] = b
    BY <1>1, <1>2, <1>4, <1>10, CallsTwo DEF PassiveCalls
  <2>2. ~Idle' /\ stack'[1].call = "enqueueFolder" /\ stack'[2].call = "engineStart" /\ stack'[2].f = f
    BY <1>4, <2>1 DEF Idle
  <2> QED
    BY <1>9, <2>1, <2>2 DEF Progress, SettledCalls, Stopped, Alone, Starting, Cur, isSyncRunning
<1>11. CASE Call(<<b>>)
  <2>1. /\ stack' # <<>> /\ stack'[1] = b
        /\ \A fr \in Below' : fr.call \in PassiveCalls
    BY <1>1, <1>2, <1>4, <1>11, CallsOne
  <2>2. ~Idle' /\ stack'[1].call = "engineStart" /\ stack'[1].f = f
    BY <1>4, <2>1 DEF Idle
  <2> QED
    BY <1>9, <2>1, <2>2 DEF Progress, SettledCalls, Stopped, Alone, Starting, Cur, isSyncRunning
<1> QED  BY <1>6, <1>10, <1>11

\* The three ways a run comes to its end: engineStart may fail, abort ends it.
LEMMA EndProgress ==
    ASSUME Basics, TerminatesAlone, Progress, NEW f \in Folders, Runs(f)',
           ~Idle, Call(<<Frame("finalize", f, Flag(FALSE))>>)
    PROVE  Progress'
<1> DEFINE a == Frame("finalize", f, Flag(FALSE))
<1>1. a \in GoodFrames /\ a.call = "finalize" /\ a.f = f
  BY FolderFrame DEF Calls, High, Flag
<1> HIDE DEF a
<1>2. /\ stack' # <<>> /\ stack'[1] = a
      /\ \A fr \in Below' : fr.call \in PassiveCalls
  BY <1>1, CallsOne DEF Basics, a
<1>3. ~Idle' /\ stack'[1].call = "finalize" /\ stack'[1].f = f
  BY <1>1, <1>2 DEF Idle
<1> QED  BY <1>2, <1>3 DEF Progress, SettledCalls, Runs, Alone

LEMMA EngineStartProgress ==
    ASSUME Basics, TerminatesAlone, Progress, EngineStart
    PROVE  Progress'
<1>1. ~Idle /\ stack[1].call = "engineStart"
  BY DEF EngineStart, On, Idle
<1>2. /\ Typed /\ stack \in Seq(GoodFrames) /\ stack # <<>> /\ stack[1].f \in Folders
      /\ \A i \in 2 .. Len(stack) : stack[i].call \in PassiveCalls \ {"engineStart"}
  BY <1>1, HeadNeeds DEF FolderCalls, Calls
<1>3. PICK f \in Folders : f = stack[1].f /\ Stopped(f) /\ Starting(f)
  BY <1>1, <1>2 DEF Progress
<1>4. \A g \in Folders : Same(g)
  BY <1>2, FacesSame
<1>5. /\ sched' = sched /\ engine'[f].running
      /\ \A g \in Folders \ {f} : engine'[g].running = engine[g].running
  <2>1. engine \in [Folders -> EngineRecords] /\ \A g \in Folders : engine[g] \in EngineRecords
    BY <1>2, FoldersTyped
  <2>2. ~engine[f].running
    BY <1>3 DEF Stopped
  <2> QED  BY <1>3, <2>1, <2>2 DEF EngineStart, EngineRecords
<1>6. Runs(f)'
  BY <1>3, <1>4, <1>5 DEF Stopped, Runs, Alone, Silent, Same, Kept, Cur, isSyncRunning
<1>7. CASE Return
  <2>1. engine'[f].discovery
    <3>1. engine \in [Folders -> EngineRecords] /\ engine[f] \in EngineRecords
      BY <1>2, FoldersTyped
    <3>2. engine' = [engine EXCEPT ![f].running = TRUE, ![f].another = FALSE,
                                   ![f].discovery = TRUE]
      <4>1. ~Call(<<Frame("finalize", f, Flag(FALSE))>>)
        <5> DEFINE a == Frame("finalize", f, Flag(FALSE))
        <5>1. a \in GoodFrames
          BY FolderFrame DEF Calls, High, Flag
        <5>2. Len(<<a>> \o Tail(stack)) = Len(stack) /\ Len(stack) \in Nat
          BY <1>2, <5>1, OneCall, LenProperties
        <5>3. Len(Tail(stack)) = Len(stack) - 1
          BY <1>2, Returned
        <5> QED  BY <1>7, <5>2, <5>3 DEF Call, Return
      <4> QED  BY <1>3, <4>1 DEF EngineStart, Stopped
    <3> QED  BY <3>1, <3>2 DEF EngineRecords
  <2>2. Shown(f)' /\ Cur' = f
    BY <1>3, <1>4, <1>5, <1>6, <2>1 DEF Shown, Syncing, Runs, Alone, Starting, Same, Kept, Cur, isSyncRunning
  <2>3. Settled'
    BY <2>2 DEF Settled, Shown, Syncing, Runs, Alone, Silent, Cur, isSyncRunning
  <2> QED  BY <1>1, <1>2, <1>7, <2>3, GoesOn
<1>8. CASE Call(<<Frame("finalize", f, Flag(FALSE))>>)
  BY <1>1, <1>6, <1>8, EndProgress
<1> QED  BY <1>3, <1>7, <1>8 DEF EngineStart

LEMMA AbortProgress ==
    ASSUME Basics, TerminatesAlone, Progress, Abort
    PROVE  Progress'
<1>1. ~Idle /\ stack[1].call = "abort"
  BY DEF Abort, On, Idle
<1>2. Typed /\ stack[1].f \in Folders
  BY <1>1, HeadNeeds DEF FolderCalls, Calls
<1>3. PICK f \in Folders : f = stack[1].f /\ Syncing(f)
  BY <1>1, <1>2 DEF Progress
<1>4. \A g \in Folders : Same(g)
  BY <1>2, FacesSame
<1>5. sched' = sched /\ engine' = engine /\ Call(<<Frame("finalize", f, Flag(FALSE))>>)
  BY <1>3 DEF Abort, Syncing
<1>6. Runs(f)'
  BY <1>3, <1>4, <1>5 DEF Syncing, Runs, Alone, Silent, Same, Kept, Cur, isSyncRunning
<1> QED  BY <1>1, <1>5, <1>6, EndProgress

LEMMA FinalizeProgress ==
    ASSUME Basics, TerminatesAlone, Progress, Finalize
    PROVE  Progress'
<1>1. ~Idle /\ stack[1].call = "finalize"
  BY DEF Finalize, On, Idle
<1>2. Typed /\ stack[1].f \in Folders /\ stack[1].arg \in 0 .. High
  BY <1>1, HeadNeeds, HeadTyped DEF FolderCalls, Calls
<1>3. PICK f \in Folders : f = stack[1].f /\ Runs(f)
  BY <1>1, <1>2 DEF Progress
<1> DEFINE a == Frame("slotSyncFinished", f, stack[1].arg)  b == Frame("resetEngine", f, 0)
<1>4. /\ a \in GoodFrames /\ a.call = "slotSyncFinished" /\ a.f = f
      /\ b \in GoodFrames /\ b.call = "resetEngine"
  BY <1>2, FolderFrame DEF Calls, High
<1>5. Call(<<a, b>>) /\ sched' = sched /\ folder' = folder
  BY <1>3 DEF Finalize
<1> HIDE DEF a, b
<1>6. /\ stack' # <<>> /\ stack'[1] = a
      /\ \A fr \in Below' : fr.call \in PassiveCalls
  BY <1>1, <1>2, <1>4, <1>5, CallsTwo DEF PassiveCalls, SettledCalls
<1>7. ~engine'[f].running /\ \A g \in Folders \ {f} : engine'[g] = engine[g]
  <2>1. engine \in [Folders -> EngineRecords] /\ \A g \in Folders : engine[g] \in EngineRecords
    BY <1>2, FoldersTyped
  <2> QED  BY <1>3, <2>1 DEF Finalize, EngineRecords
<1>8. Stopped(f)'
  BY <1>3, <1>5, <1>7 DEF Stopped, Runs, Alone, Silent, Cur, isSyncRunning
<1>9. ~Idle' /\ stack'[1].call = "slotSyncFinished" /\ stack'[1].f = f
  BY <1>4, <1>6 DEF Idle
<1> QED  BY <1>6, <1>8, <1>9 DEF Progress, SettledCalls, Stopped, Alone

LEMMA SlotSyncFinishedProgress ==
    ASSUME Basics, TerminatesAlone, Progress, SlotSyncFinished
    PROVE  Progress'
<1>1. ~Idle /\ stack[1].call = "slotSyncFinished"
  BY DEF SlotSyncFinished, On, Idle
<1>2. Typed /\ stack[1].f \in Folders
  BY <1>1, HeadNeeds DEF FolderCalls, Calls
<1>3. PICK f \in Folders : f = stack[1].f /\ Stopped(f)
  BY <1>1, <1>2 DEF Progress
<1>4. PICK arg \in 0 .. 1 : Call(FinishCalls(f, arg))
  BY <1>3, FinishCallsMade DEF Stopped, Alone
<1>5. /\ FinishCalls(f, arg) \in Seq(GoodFrames) /\ Len(FinishCalls(f, arg)) \in Nat \ {0}
      /\ FinishCalls(f, arg)[1] = Frame("syncFinished", f, 0)
      /\ \A i \in 2 .. Len(FinishCalls(f, arg)) : FinishCalls(f, arg)[i].call \in PassiveCalls
  BY <1>3, FinishCallsOne DEF Stopped, Alone, PassiveCalls, SettledCalls
<1>6. /\ stack' # <<>> /\ stack'[1] = Frame("syncFinished", f, 0)
      /\ \A fr \in Below' : fr.call \in PassiveCalls
  BY <1>1, <1>2, <1>4, <1>5, CallsNext
<1>7. sched' = sched /\ engine' = engine
  BY DEF SlotSyncFinished
<1>8. folder'[f].listeners = 0 /\ folder'[f].state # "SyncRunning"
  <2>1. folder \in [Folders -> FolderRecords] /\ folder[f] \in FolderRecords
    BY <1>2, FoldersTyped
  <2>2. \E n : folder' = Finishes(folder, f, FinishedStatus(f), n)
    BY <1>3, FinishWrites DEF Stopped, Alone
  <2>3. FinishedStatus(f) # "SyncRunning"
    BY DEF FinishedStatus
  <2> QED  BY <2>1, <2>2, <2>3, FinishesIs
<1>9. \A g \in Folders \ {f} : Same(g)
  BY <1>2, <1>3, FacesOthers
<1>10. NoneSyncs' /\ Cur' = f
  BY <1>3, <1>7, <1>8, <1>9 DEF NoneSyncs, Silent, Stopped, Alone, Same, Kept, Cur, isSyncRunning
<1>11. ~Idle' /\ stack'[1].call = "syncFinished" /\ stack'[1].f = f
  BY <1>6 DEF Idle, Frame
<1> QED  BY <1>6, <1>10, <1>11 DEF Progress, SettledCalls

LEMMA SyncFinishedProgress ==
    ASSUME Basics, TerminatesAlone, Progress, SyncFinished
    PROVE  Progress'
<1>1. ~Idle /\ stack[1].call = "syncFinished"
  BY DEF SyncFinished, On, Idle
<1>2. Typed /\ NoneSyncs
  BY <1>1 DEF Basics, Progress
<1> DEFINE n == Frame("startNext", NoFolder, 0)
<1>3. n \in GoodFrames /\ n.call = "startNext"
  BY NullFrame DEF Calls, FolderCalls
<1>4. Call(<<n>>) /\ folder' = folder /\ engine' = engine
  BY DEF SyncFinished, AfterSync
<1>5. sched'.cur = NoFolder
  BY <1>2 DEF SyncFinished, Typed, TypeOK
<1> HIDE DEF n
<1>6. /\ stack' # <<>> /\ stack'[1] = n
      /\ \A fr \in Below' : fr.call \in PassiveCalls
  BY <1>1, <1>2, <1>3, <1>4, CallsOne
<1>7. Settled'
  BY <1>2, <1>4, <1>5 DEF Settled, Nothing, NoneSyncs, Silent, Cur, isSyncRunning
<1> QED  BY <1>3, <1>6, <1>7 DEF Progress, Idle, SettledCalls

LEMMA FinalizeVfsSwitchProgress ==
    ASSUME Basics, TerminatesAlone, Progress, SwitchesAtEnd, FinalizeVfsSwitch
    PROVE  Progress'
<1>1. ~Idle /\ stack[1].call = "finalizeVfsSwitch" /\ Settled
  <2>1. ~Idle /\ stack[1].call = "finalizeVfsSwitch"
    BY DEF FinalizeVfsSwitch, On, Idle
  <2> QED  BY <2>1 DEF Progress, SettledCalls
<1>2. /\ Typed /\ stack \in Seq(GoodFrames) /\ stack # <<>> /\ Len(stack) \in Nat \ {0}
      /\ \A i \in 2 .. Len(stack) : stack[i].call \in PassiveCalls \ {"engineStart"}
  BY <1>1, HeadNeeds
<1>3. Cur = NoFolder
  <2>1. stack[1] \in Pending
    BY <1>2 DEF Pending
  <2>2. Switching
    BY <1>1, <2>1 DEF Switching
  <2> QED  BY <1>1, <2>2 DEF SwitchesAtEnd, On
<1>4. Nothing
  BY <1>1, <1>2, <1>3, FoldersTyped DEF Settled, Shown, Syncing, Runs, Alone
<1>5. Return /\ sched' = sched /\ engine' = engine
  BY DEF FinalizeVfsSwitch
<1>6. \A g \in Folders : /\ folder'[g].listeners = folder[g].listeners
                         /\ folder'[g].state \in {folder[g].state, "Success"}
  BY <1>2, FacesOthers DEF Same, Kept
<1>7. Settled'
  BY <1>4, <1>5, <1>6 DEF Settled, Nothing, NoneSyncs, Silent, Cur, isSyncRunning
<1> QED  BY <1>1, <1>2, <1>5, <1>7, GoesOn

----------------------------------------------------------------------------
\* How far the sync has got: the handlers.

\* What a change of the plugin does to the face of a folder.
LEMMA FacesSwitched ==
    ASSUME Typed, NEW g \in Folders, NEW f \in Folders, ChangeVfsMode(f)
    PROVE  /\ g # f => Same(g)
           /\ g = f =>
                /\ folder'[g].life = folder[g].life
                /\ folder'[g].listeners = folder[g].listeners
                /\ \/ Cur = g /\ folder'[g].ready = folder[g].ready /\ folder'[g].paused
                      /\ folder'[g].state \in {folder[g].state, "Paused"}
                   \/ Cur # g /\ ~folder'[g].ready /\ folder'[g].switch = "no"
                      /\ folder'[g].state \in {folder[g].state, "Paused", "Success"}
<1> DEFINE P == Paused({f})
<1>1. folder \in [Folders -> FolderRecords] /\ \A h \in Folders : folder[h] \in FolderRecords
  BY FoldersTyped
<1>2. P \in [Folders -> FolderRecords] /\ \A h \in Folders : P[h] \in FolderRecords
  BY <1>1, PausedTyped
<1>3. /\ \A h \in Folders \ {f} : P[h] = folder[h]
      /\ P[f].life = folder[f].life /\ P[f].ready = folder[f].ready /\ P[f].paused
      /\ P[f].listeners = folder[f].listeners /\ P[f].switch = folder[f].switch
      /\ P[f].state \in {folder[f].state, "Paused"}
  BY <1>1, PausedEntries
<1> HIDE DEF P
<1>4. CASE Cur = f
  <2>1. PICK switch : folder' = [P EXCEPT ![f].switch = switch]
    BY <1>4 DEF ChangeVfsMode, P
  <2>2. folder' = [P EXCEPT ![f] = [P[f] EXCEPT !.switch = switch]]
    BY <1>2, <2>1
  <2>3. /\ \A h \in Folders \ {f} : folder'[h] = P[h]
        /\ folder'[f] = [P[f] EXCEPT !.switch = switch]
    BY <1>2, <2>2
  <2>4. /\ folder'[f].life = P[f].life /\ folder'[f].ready = P[f].ready
        /\ folder'[f].paused = P[f].paused /\ folder'[f].listeners = P[f].listeners
        /\ folder'[f].state = P[f].state
    BY <1>2, <2>3 DEF FolderRecords
  <2>5. ASSUME g # f  PROVE Same(g)
    <3>1. folder'[g] = folder[g]
      BY <1>3, <2>3, <2>5
    <3> QED  BY <3>1 DEF Same, Kept
  <2> QED  BY <1>3, <1>4, <2>4, <2>5
<1>5. CASE Cur # f
  <2>1. PICK resume : folder' = SwitchedVfs(P, f, resume)
    BY <1>5 DEF ChangeVfsMode, P
  <2>2. /\ folder'[f].life = P[f].life /\ ~folder'[f].ready /\ folder'[f].switch = "no"
        /\ folder'[f].listeners = P[f].listeners
        /\ folder'[f].state \in {P[f].state, "Success"}
    BY <1>2, <2>1, SwitchedIs
  <2>3. folder'[f].state \in {folder[f].state, "Paused", "Success"}
    BY <1>3, <2>2
  <2>4. ASSUME g # f  PROVE Same(g)
    <3>1. folder'[g] = folder[g]
      BY <1>2, <1>3, <2>1, <2>4, SwitchedIs
    <3> QED  BY <3>1 DEF Same, Kept
  <2>5. ASSUME g = f
        PROVE  /\ folder'[g].life = folder[g].life
               /\ folder'[g].listeners = folder[g].listeners
    BY <1>3, <2>2, <2>5
  <2> QED  BY <1>5, <2>2, <2>3, <2>4, <2>5
<1> QED  BY <1>4, <1>5

\* The handlers leave the faces of the folders, but those of one that is paused
\* or that changes its plugin.
LEMMA LoopFaces ==
    ASSUME Basics, TerminatesAlone, LoopStep, NEW g \in Folders
    PROVE  /\ folder'[g].life = folder[g].life /\ folder'[g].listeners = folder[g].listeners
           /\ folder[g].ready => folder'[g].ready \/ (ChangeVfsMode(g) /\ Cur # g)
           /\ \/ folder'[g].switch = folder[g].switch \/ folder'[g].switch = "no"
              \/ ChangeVfsMode(g) /\ Cur = g
           /\ folder[g].state # "SyncRunning" => folder'[g].state # "SyncRunning"
           /\ folder[g].state = "SyncRunning" /\ ~folder[g].paused /\ ~Pause(g)
                  /\ ~ChangeVfsMode(g)
                => folder'[g].state = "SyncRunning" /\ ~folder'[g].paused
<1> DEFINE Good ==
           /\ folder'[g].life = folder[g].life /\ folder'[g].listeners = folder[g].listeners
           /\ folder[g].ready => folder'[g].ready \/ (ChangeVfsMode(g) /\ Cur # g)
           /\ \/ folder'[g].switch = folder[g].switch \/ folder'[g].switch = "no"
              \/ ChangeVfsMode(g) /\ Cur = g
           /\ folder[g].state # "SyncRunning" => folder'[g].state # "SyncRunning"
           /\ folder[g].state = "SyncRunning" /\ ~folder[g].paused /\ ~Pause(g)
                  /\ ~ChangeVfsMode(g)
                => folder'[g].state = "SyncRunning" /\ ~folder'[g].paused
<1>0. Typed
  BY DEF Basics
<1>1. Same(g) => Good
  BY DEF Same, Kept
<1>2. ASSUME \/ folder' = folder
             \/ \E f \in Folders : DiscoveryFinished(f) \/ PropagationEnds(f) \/ RetryTimer(f)
      PROVE  Good
  BY <1>0, <1>1, <1>2, FacesSame
<1>3. ASSUME NEW f \in Folders, WatcherDetects(f) \/ WatcherReports(f)
      PROVE  Good
  BY <1>0, <1>3, FacesShown DEF Kept
<1>4. ASSUME NEW f \in Folders, VfsStarted(f)
      PROVE  Good
  BY <1>0, <1>1, <1>4, FacesOthers
<1>5. ASSUME NEW f \in Folders, Pause(f)
      PROVE  Good
  BY <1>0, <1>1, <1>5, FacesOthers
<1>6. ASSUME NEW f \in Folders, Resume(f)
      PROVE  Good
  <2>1. folder[f].paused
    BY <1>6 DEF Resume
  <2> QED  BY <1>0, <1>1, <1>6, <2>1, FacesOthers
<1>7. ASSUME NEW f \in Folders, ChangeVfsMode(f)
      PROVE  Good
  BY <1>0, <1>1, <1>7, FacesSwitched
<1>8. /\ \A f \in Folders : ~Delete(f) /\ ~RemoveFolder(f)
      /\ \A a \in Accounts : ~ServerUnsupported(a)
  BY AllStay
<1> HIDE DEF Good
<1>9. Good
  <2>1. \/ folder' = folder
        \/ \E f \in Folders :
             \/ DiscoveryFinished(f) \/ PropagationEnds(f) \/ RetryTimer(f)
             \/ WatcherDetects(f) \/ WatcherReports(f) \/ VfsStarted(f)
             \/ Pause(f) \/ Resume(f) \/ ChangeVfsMode(f)
    BY <1>8 DEF LoopStep, EngineStep, Interference, DiscoveryFailed, SlotPropagationFinished,
       PostedStart, Request, ForceSync, PauseAll, ResumeAll, AccountReady, AccountLost,
       SetPauseSyncWhenMetered, MeteredChanged
  <2>2. CASE folder' = folder
    BY <1>2, <2>2
  <2>3. ASSUME NEW f \in Folders,
               \/ DiscoveryFinished(f) \/ PropagationEnds(f) \/ RetryTimer(f)
               \/ WatcherDetects(f) \/ WatcherReports(f) \/ VfsStarted(f)
               \/ Pause(f) \/ Resume(f) \/ ChangeVfsMode(f)
        PROVE  Good
    <3>1. CASE DiscoveryFinished(f) \/ PropagationEnds(f) \/ RetryTimer(f)
      BY <1>2, <3>1
    <3>2. CASE WatcherDetects(f) \/ WatcherReports(f)
      BY <1>3, <3>2
    <3>3. CASE VfsStarted(f) \/ Pause(f)
      BY <1>4, <1>5, <3>3
    <3>4. CASE Resume(f) \/ ChangeVfsMode(f)
      BY <1>6, <1>7, <3>4
    <3> QED  BY <2>3, <3>1, <3>2, <3>3, <3>4
  <2> QED  BY <2>1, <2>2, <2>3
<1> QED  BY <1>9 DEF Good

\* So they leave the sync, unless they end it.
LEMMA LoopSettles ==
    ASSUME Basics, TerminatesAlone, Settled, LoopStep, [Next]_vars
    PROVE  /\ Idle /\ sched'.cur = sched.cur
           /\ (Nothing /\ Nothing') \/ (Shown(Cur) /\ Syncing(Cur)')
           /\ \/ Settled'
              \/ Cur \in Folders /\ Shown(Cur) /\ (Pause(Cur) \/ ChangeVfsMode(Cur))
<1>1. Typed
  BY DEF Basics
<1>2. Idle
  BY <1>1, StackLoop
<1>3. sched'.cur = sched.cur
  BY <1>1, <1>2, CurSame, AllStay DEF Idle, On, EnqueueFolder, StartNext, ClearCurrent, SyncFinished
<1>4. \A g \in Folders : /\ engine'[g].running = engine[g].running
                         /\ engine'[g].discovery = engine[g].discovery
  BY <1>1, <1>2, EnginesSame, AllStay DEF Idle, On, EngineStart, Finalize
<1>5. \A g \in Folders :
        Silent(g) => /\ ~engine'[g].running /\ folder'[g].listeners = 0
                     /\ folder'[g].state # "SyncRunning"
  BY <1>4, LoopFaces DEF Silent, isSyncRunning
<1>6. CASE Nothing
  <2>1. Nothing'
    BY <1>3, <1>5, <1>6 DEF Nothing, NoneSyncs, Silent, Cur, isSyncRunning
  <2> QED  BY <1>2, <1>3, <1>6, <2>1 DEF Settled
<1>7. CASE Shown(Cur)
  <2>1. PICK f \in Folders : f = Cur /\ Shown(f) /\ \A g \in Folders \ {f} : Silent(g)
    BY <1>7 DEF Shown, Syncing, Runs, Alone
  <2>2. /\ folder'[f].life = "alive" /\ folder'[f].listeners = 1 /\ folder'[f].ready
        /\ engine'[f].running /\ engine'[f].discovery
    BY <1>4, <2>1, LoopFaces DEF Shown, Syncing, Runs, Alone
  <2>3. Cur' = f /\ \A g \in Folders \ {f} : Silent(g)'
    BY <1>3, <1>5, <2>1 DEF Silent, Cur, isSyncRunning
  <2>4. Syncing(f)'
    BY <2>2, <2>3 DEF Syncing, Runs, Alone
  <2>5. CASE ~Pause(f) /\ ~ChangeVfsMode(f)
    <3>1. folder'[f].state = "SyncRunning" /\ ~folder'[f].paused
      BY <2>1, <2>5, LoopFaces DEF Shown, isSyncRunning
    <3>2. Shown(f)'
      BY <2>4, <3>1 DEF Shown, isSyncRunning
    <3> QED  BY <1>2, <1>3, <1>7, <2>1, <2>3, <2>4, <3>2 DEF Settled, Cur
  <2> QED  BY <1>2, <1>3, <1>7, <2>1, <2>3, <2>4, <2>5 DEF Cur
<1> QED  BY <1>6, <1>7 DEF Settled

\* What the calls of a handler have to satisfy.
LEMMA LoopCalls ==
    ASSUME stack' \in Seq(GoodFrames),
           stack' = <<>> => Settled',
           stack' # <<>> =>
             \/ /\ Settled'
                /\ stack'[1].call \in {"enqueueFolder", "startNext", "start", "down"}
             \/ /\ (Nothing \/ Syncing(Cur))' /\ NoStart'
                /\ stack'[1].call = "terminateCurrentSync",
           \A i \in 2 .. Len(stack') : stack'[i].call \in {"enqueueFolder", "start"}
    PROVE  Progress'
<1>1. \A fr \in Below' : fr.call \in PassiveCalls
  BY DEF Below, PassiveCalls, SettledCalls
<1>2. 2 \in 1 .. Len(stack') => stack'[2].call # "engineStart"
  <2>1. Len(stack') \in Nat
    BY LenProperties
  <2> QED  BY <2>1
<1>3. Idle' => Settled'
  BY DEF Idle
<1>4. CASE /\ stack' # <<>> /\ Settled'
           /\ stack'[1].call \in {"enqueueFolder", "startNext", "start", "down"}
  BY <1>1, <1>2, <1>4 DEF Progress, Idle, SettledCalls
<1>5. CASE /\ stack' # <<>> /\ (Nothing \/ Syncing(Cur))' /\ NoStart'
           /\ stack'[1].call = "terminateCurrentSync"
  BY <1>1, <1>5 DEF Progress, Idle, SettledCalls
<1>6. CASE stack' = <<>>
  BY <1>1, <1>3, <1>6 DEF Progress, Idle
<1> QED  BY <1>4, <1>5, <1>6

\* A handler that calls nothing, or one thing, and leaves the sync alone.
LEMMA LoopOne ==
    ASSUME Settled', stack' \in Seq(GoodFrames),
           \/ stack' = <<>>
           \/ \E a \in GoodFrames :
                stack' = <<a>> /\ a.call \in {"enqueueFolder", "startNext", "start", "down"}
    PROVE  Progress'
<1>1. CASE stack' = <<>>
  <2>1. Len(stack') = 0
    BY <1>1
  <2> QED  BY <1>1, <2>1, LoopCalls
<1>2. ASSUME NEW a \in GoodFrames, stack' = <<a>>,
             a.call \in {"enqueueFolder", "startNext", "start", "down"}
      PROVE  Progress'
  <2>1. stack' # <<>> /\ stack'[1] = a /\ Len(stack') = 1
    BY <1>2
  <2> QED  BY <1>2, <2>1, LoopCalls
<1> QED  BY <1>1, <1>2

\* A handler that only terminates the sync.
LEMMA LoopTerminates ==
    ASSUME stack' \in Seq(GoodFrames), (Nothing \/ Syncing(Cur))', NoStart',
           \E a \in GoodFrames : stack' = <<a>> /\ a.call = "terminateCurrentSync"
    PROVE  Progress'
<1>1. PICK a \in GoodFrames : stack' = <<a>> /\ a.call = "terminateCurrentSync"
  OBVIOUS
<1>2. stack' # <<>> /\ stack'[1] = a /\ Len(stack') = 1
  BY <1>1
<1> QED  BY <1>1, <1>2, LoopCalls

\* The engine that runs between two handlers is that of the current sync.
LEMMA RunsIsShown ==
    ASSUME Typed, Settled, NEW f \in Folders, engine[f].running
    PROVE  Cur = f /\ Shown(f)
BY DEF Settled, Nothing, NoneSyncs, Silent, Shown, Syncing, Runs, Alone

\* The engine's own handlers.
LEMMA EngineLoopProgress ==
    ASSUME Basics, TerminatesAlone, Settled, [Next]_vars, NEW f \in Folders, EngineStep(f)
    PROVE  Progress'
<1>1. Typed /\ LoopStep /\ f \in Folders
  BY DEF Basics, LoopStep
<1>2. /\ Idle /\ Cur' = Cur /\ stack' \in Seq(GoodFrames)
      /\ (Nothing /\ Nothing') \/ (Shown(Cur) /\ Syncing(Cur)')
  BY <1>1, LoopSettles, StackLoop DEF Cur
<1>3. ~Pause(Cur) /\ ~ChangeVfsMode(Cur) => Settled'
  BY <1>1, LoopSettles
<1>4. Pending = {}
  <2>1. Len(stack) = 0
    BY <1>2 DEF Idle
  <2> QED  BY <2>1 DEF Pending
<1>5. engine[f].discovery \/ engine[f].propagator # "none" => engine[f].running
  BY <1>4 DEF Basics, EnginesAgree
<1>6. engine[f].running => Cur = f /\ Syncing(f)'
  <2> SUFFICES ASSUME engine[f].running  PROVE Cur = f /\ Syncing(f)'
    OBVIOUS
  <2>1. Cur = f /\ ~Nothing
    BY <1>1, RunsIsShown DEF Nothing, NoneSyncs, Silent
  <2> QED  BY <1>2, <2>1
<1>7. engine[f].discovery \/ engine[f].propagator # "none"
  BY DEF EngineStep, DiscoveryFinished, DiscoveryFailed, PropagationEnds
<1>8. Cur = f /\ Cur' = f /\ Syncing(f)'
  BY <1>2, <1>5, <1>6, <1>7
<1>9. CASE stack' = <<>>
  <2>1. folder' = folder \/ PropagationEnds(f)
    BY <1>9 DEF EngineStep, DiscoveryFinished, DiscoveryFailed, Handle
  <2>2. Same(f) /\ Shown(f)
    BY <1>1, <1>5, <1>7, <2>1, FacesSame, RunsIsShown
  <2>3. Settled'
    BY <1>8, <2>2 DEF Settled, Shown, Same, Kept, isSyncRunning
  <2> QED  BY <1>2, <1>9, <2>3, LoopOne
<1>10. CASE stack' = <<Frame("finalize", f, Flag(FALSE))>>
  <2>1. stack' # <<>> /\ Len(stack') = 1 /\ stack'[1] = Frame("finalize", f, Flag(FALSE))
    BY <1>10
  <2>2. ~Idle' /\ stack'[1].call = "finalize" /\ stack'[1].f = f /\ Below' = {}
    BY <2>1 DEF Idle, Frame, Below
  <2> QED  BY <1>8, <2>2 DEF Progress, SettledCalls, Syncing, Runs, Alone
<1>11. CASE stack' = <<Frame("abort", f, 0)>>
  <2>1. stack' # <<>> /\ Len(stack') = 1 /\ stack'[1] = Frame("abort", f, 0)
    BY <1>11
  <2>2. ~Idle' /\ stack'[1].call = "abort" /\ stack'[1].f = f /\ Below' = {}
    BY <2>1 DEF Idle, Frame, Below
  <2> QED  BY <1>8, <2>2 DEF Progress, SettledCalls, Syncing, Runs, Alone
<1> QED
  BY <1>2, <1>9, <1>10, <1>11
     DEF EngineStep, DiscoveryFinished, DiscoveryFailed, PropagationEnds, Handle, Idle

LEMMA SlotPropagationFinishedProgress ==
    ASSUME Basics, TerminatesAlone, Settled, [Next]_vars, SlotPropagationFinished
    PROVE  Progress'
<1>1. Typed /\ LoopStep
  BY DEF Basics, LoopStep
<1>2. /\ Idle /\ Cur' = Cur /\ stack' \in Seq(GoodFrames)
      /\ (Nothing /\ Nothing') \/ (Shown(Cur) /\ Syncing(Cur)')
  BY <1>1, LoopSettles, StackLoop DEF Cur
<1>3. /\ sched' = sched /\ folder' = folder
      /\ \A g \in Folders : /\ Same(g) /\ engine'[g].running = engine[g].running
                            /\ engine'[g].discovery = engine[g].discovery
  <2>1. sched' = sched /\ folder' = folder
    BY DEF SlotPropagationFinished
  <2>2. \A g \in Folders : /\ engine'[g].running = engine[g].running
                           /\ engine'[g].discovery = engine[g].discovery
    BY <1>1, <1>2, EnginesSame, AllStay DEF Idle, On, EngineStart, Finalize
  <2> QED  BY <1>1, <2>1, <2>2, FacesSame
<1>4. Settled'
  BY <1>1, <1>3, SettledSame
<1>5. posted \in Seq(Results) /\ posted # <<>>
  BY <1>1 DEF SlotPropagationFinished, Typed
<1>6. PICK fr \in Results : fr = posted[1]
  BY <1>5
<1>7. PICK f \in Folders : f = fr.f /\ fr.call = "finalize" /\ fr \in GoodFrames
  BY <1>6 DEF Results, GoodFrames, FolderCalls, Calls
<1>8. CASE stack' = <<>>
  BY <1>2, <1>4, <1>8, LoopOne
<1>9. CASE stack' = <<Frame("down", f, 0)>>
  <2>1. Frame("down", f, 0) \in GoodFrames /\ Frame("down", f, 0).call = "down"
    BY FolderFrame DEF Calls, High
  <2> QED  BY <1>2, <1>4, <1>9, <2>1, LoopOne
<1>10. CASE stack' = <<fr>> /\ engine[f].propagator # "none"
  <2>1. Pending = {}
    <3>1. Len(stack) = 0
      BY <1>2 DEF Idle
    <3> QED  BY <3>1 DEF Pending
  <2>2. engine[f].running
    BY <1>10, <2>1 DEF Basics, EnginesAgree
  <2>3. Cur = f /\ ~Nothing
    BY <1>1, <2>2, RunsIsShown DEF Nothing, NoneSyncs, Silent
  <2>4. Syncing(f)'
    BY <1>2, <2>3
  <2>5. stack' # <<>> /\ Len(stack') = 1 /\ stack'[1] = fr
    BY <1>10
  <2>6. ~Idle' /\ stack'[1].call = "finalize" /\ stack'[1].f = f /\ Below' = {}
    BY <1>7, <2>5 DEF Idle, Below
  <2> QED  BY <2>4, <2>6 DEF Progress, SettledCalls, Syncing, Runs, Alone
<1> QED
  BY <1>2, <1>6, <1>7, <1>8, <1>9, <1>10 DEF SlotPropagationFinished, Idle

\* A handler that terminates nothing.
LEMMA LoopQuiet ==
    ASSUME Basics, TerminatesAlone, Settled, [Next]_vars, LoopStep,
           \/ stack' = <<>>
           \/ \E a \in GoodFrames :
                stack' = <<a>> /\ a.call \in {"enqueueFolder", "startNext", "start", "down"}
    PROVE  Progress'
<1>1. stack' \in Seq(GoodFrames)
  BY StackLoop DEF Basics
<1>2. stack' # <<>> => stack'[1].call # "terminateCurrentSync"
  OBVIOUS
<1>3. ASSUME NEW f \in Folders, f = Cur, Pause(f) \/ ChangeVfsMode(f)
      PROVE  FALSE
  <2> DEFINE t == Frame("terminateCurrentSync", f, 0)  e == Frame("enqueueFolder", f, Low)
  <2>1. stack' = <<t>> \/ stack' = <<t, e>>
    BY <1>3 DEF Pause, ChangeVfsMode, Handle
  <2>2. t.call = "terminateCurrentSync"
    BY DEF Frame
  <2> HIDE DEF t, e
  <2>3. stack' # <<>> /\ stack'[1] = t
    BY <2>1
  <2> QED  BY <1>2, <2>2, <2>3
<1>4. Settled'
  BY <1>3, LoopSettles
<1> QED  BY <1>1, <1>4, LoopOne

\* A handler that terminates the sync, after which none is started.
LEMMA LoopEnds ==
    ASSUME Basics, TerminatesAlone, Settled, [Next]_vars, LoopStep, NoStart',
           stack' # <<>>, stack'[1].call = "terminateCurrentSync",
           \A i \in 2 .. Len(stack') : stack'[i].call \in {"enqueueFolder", "start"}
    PROVE  Progress'
<1>1. stack' \in Seq(GoodFrames)
  BY StackLoop DEF Basics
<1>2. (Nothing \/ Syncing(Cur))'
  <2>1. ((Nothing /\ Nothing') \/ (Shown(Cur) /\ Syncing(Cur)')) /\ sched'.cur = sched.cur
    BY LoopSettles
  <2> QED  BY <2>1, LoopSettles DEF Cur
<1> QED  BY <1>1, <1>2, LoopCalls

\* The events that find the sync to end, and what they take from the others.
LEMMA TerminationProgress ==
    ASSUME Basics, TerminatesAlone, Settled, [Next]_vars,
           \/ PauseAll
           \/ \E a \in Accounts : AccountLost(a) /\ stack' # <<>>
           \/ \E f \in Folders : Cur = f /\ (Pause(f) \/ ChangeVfsMode(f))
    PROVE  Progress'
<1>1. Typed /\ LoopStep
  BY DEF Basics, LoopStep, Interference
<1>2. \A f \in Folders : folder'[f].life = folder[f].life /\ (f \in net.scenario.folders <=> folder[f].life = "alive")
  BY <1>1, LoopFaces, AllStay
<1>3. CASE PauseAll
  <2> DEFINE t == Frame("terminateCurrentSync", NoFolder, 0)
  <2>1. stack' = <<t>> /\ t.call = "terminateCurrentSync"
    BY <1>3 DEF PauseAll, Handle, Frame
  <2>2. ~sched'.running
    BY <1>1, <1>3 DEF PauseAll, Typed, TypeOK
  <2> HIDE DEF t
  <2>3. stack' # <<>> /\ stack'[1] = t /\ Len(stack') = 1
    BY <2>1
  <2>4. NoStart'
    BY <2>2 DEF NoStart
  <2> QED  BY <1>1, <2>1, <2>3, <2>4, LoopEnds
<1>4. ASSUME NEW a \in Accounts, AccountLost(a), stack' # <<>>
      PROVE  Progress'
  <2> DEFINE t == Frame("terminateCurrentSync", NoFolder, 0)
  <2>0. Cur # NoFolder /\ AccountOf[Cur] = a /\ stack' = <<t>>
    BY <1>4 DEF AccountLost, Handle
  <2>1. stack' = <<t>> /\ t.call = "terminateCurrentSync"
    BY <2>0 DEF Frame
  <2> HIDE DEF t
  <2>2. stack' # <<>> /\ stack'[1] = t /\ Len(stack') = 1
    BY <2>1
  <2>3. ~net'.ready[a]
    BY <1>1, <1>4 DEF AccountLost, Typed, TypeOK
  <2>4. Cur \in Folders /\ Cur \in net.scenario.folders
    BY <1>1, <1>2, <2>0, FoldersTyped DEF Settled, Nothing, Shown, Syncing, Runs, Alone
  <2>5. \A f \in net.scenario.folders : AccountOf[f] = a
    BY <1>4, <2>0, <2>4 DEF TerminatesAlone, AccountLost, Sole
  <2>6. NoStart'
    BY <1>2, <2>3, <2>5 DEF NoStart, CanSync
  <2> QED  BY <1>1, <2>1, <2>2, <2>6, LoopEnds
<1>5. ASSUME NEW f \in Folders, Cur = f, Pause(f) \/ ChangeVfsMode(f)
      PROVE  Progress'
  <2> DEFINE t == Frame("terminateCurrentSync", f, 0)  e == Frame("enqueueFolder", f, Low)
  <2>1. stack' = <<t>> \/ stack' = <<t, e>>
    BY <1>5 DEF Pause, ChangeVfsMode, Handle
  <2>2. t.call = "terminateCurrentSync" /\ e.call = "enqueueFolder"
    BY DEF Frame
  <2> HIDE DEF t, e
  <2>3. /\ stack' # <<>> /\ stack'[1] = t
        /\ Len(stack') = 1 \/ (Len(stack') = 2 /\ stack'[2] = e)
    BY <2>1
  <2>4. \A i \in 2 .. Len(stack') : stack'[i].call \in {"enqueueFolder", "start"}
    BY <2>2, <2>3
  <2>5. folder'[f].paused /\ folder[f].life = "alive"
    <3>1. CASE Pause(f)
      BY <1>1, <3>1, FacesOthers DEF Pause, Same, Kept
    <3>2. CASE ChangeVfsMode(f)
      BY <1>1, <1>5, <3>2, FacesSwitched DEF ChangeVfsMode
    <3> QED  BY <1>5, <3>1, <3>2
  <2>6. Sole
    BY <1>5 DEF Pause, ChangeVfsMode, TerminatesAlone
  <2>7. \A g \in Folders : folder'[g].life = "alive" => folder'[g].paused
    BY <1>2, <2>5, <2>6 DEF Sole
  <2>8. NoStart'
    BY <2>7 DEF NoStart, CanSync
  <2> QED  BY <1>1, <2>2, <2>3, <2>4, <2>8, LoopEnds
<1> QED  BY <1>3, <1>4, <1>5

\* A list of four calls, the first two of which may be missing.
LEMMA FourCalls ==
    ASSUME NEW S, NEW a \in S, NEW b \in S, NEW c \in S, NEW d \in S
    PROVE  /\ <<>> \o <<c, d>> = <<c, d>>
           /\ LET s == <<a, b>> \o <<c, d>>
              IN  s # <<>> /\ Len(s) = 4 /\ s[1] = a /\ s[2] = b /\ s[3] = c /\ s[4] = d
<1> DEFINE s == <<a, b>>  t == <<c, d>>
<1>1. /\ s \in Seq(S) /\ Len(s) = 2 /\ s[1] = a /\ s[2] = b
      /\ t \in Seq(S) /\ Len(t) = 2 /\ t[1] = c /\ t[2] = d
  OBVIOUS
<1> HIDE DEF s, t
<1>2. <<>> \o t = t
  BY <1>1, ConcatEmptySeq
<1>3. /\ s \o t \in Seq(S) /\ Len(s \o t) = 4
      /\ \A i \in 1 .. 4 : (s \o t)[i] = IF i <= 2 THEN s[i] ELSE t[i - 2]
  <2>1. /\ s \o t \in Seq(S) /\ Len(s \o t) = Len(s) + Len(t)
        /\ \A i \in 1 .. Len(s) + Len(t) :
             (s \o t)[i] = IF i <= Len(s) THEN s[i] ELSE t[i - Len(s)]
    BY <1>1, ConcatProperties
  <2>2. Len(s) + Len(t) = 4
    BY <1>1
  <2> QED  BY <1>1, <2>1, <2>2
<1>4. s \o t # <<>>
  BY <1>3, EmptySeq
<1>5. (s \o t)[1] = s[1] /\ (s \o t)[2] = s[2] /\ (s \o t)[3] = t[1] /\ (s \o t)[4] = t[2]
  BY <1>3
<1> QED  BY <1>1, <1>2, <1>3, <1>4, <1>5 DEF s, t

LEMMA ForceSyncProgress ==
    ASSUME Basics, TerminatesAlone, Settled, [Next]_vars, NEW f \in Folders, ForceSync(f)
    PROVE  Progress'
<1>1. Typed /\ LoopStep
  BY DEF Basics, LoopStep, Interference
<1>2. stack' \in Seq(GoodFrames) /\ Cur \in Folders \cup {NoFolder}
  BY <1>1, StackLoop, FoldersTyped
<1>3. NoStart'
  <2>1. ~sched'.running
    BY <1>1 DEF ForceSync, Typed, TypeOK
  <2> QED  BY <2>1 DEF NoStart
<1> DEFINE a == Frame("terminateCurrentSync", Cur, 0)  b == Frame("enqueueFolder", Cur, Low)
           c == Frame("enqueueFolder", f, High)  d == Frame("start", f, 0)
<1>4. /\ a.call = "terminateCurrentSync" /\ b.call = "enqueueFolder"
      /\ c.call = "enqueueFolder" /\ d.call = "start"
  BY DEF Frame
<1>5. IF Cur = NoFolder THEN stack' = <<>> \o <<c, d>> ELSE stack' = <<a, b>> \o <<c, d>>
  BY DEF ForceSync, Handle
<1> HIDE DEF a, b, c, d
<1>6. CASE Cur = NoFolder
  <2>1. stack' = <<c, d>>
    BY <1>5, <1>6, FourCalls
  <2>2. stack' # <<>> /\ stack'[1] = c /\ Len(stack') = 2 /\ stack'[2] = d
    BY <2>1
  <2>3. \A i \in 2 .. Len(stack') : stack'[i].call \in {"enqueueFolder", "start"}
    BY <1>4, <2>2
  <2>4. Settled'
    BY <1>1, <1>6, LoopSettles, FoldersTyped
  <2> QED  BY <1>2, <1>4, <2>2, <2>3, <2>4, LoopCalls
<1>7. CASE Cur # NoFolder
  <2>1. /\ stack' # <<>> /\ Len(stack') = 4 /\ stack'[1] = a /\ stack'[2] = b
        /\ stack'[3] = c /\ stack'[4] = d
    BY <1>5, <1>7, FourCalls
  <2>2. \A i \in 2 .. Len(stack') : stack'[i].call \in {"enqueueFolder", "start"}
    BY <1>4, <2>1
  <2> QED  BY <1>1, <1>3, <1>4, <2>1, <2>2, LoopEnds
<1> QED  BY <1>6, <1>7

LEMMA AccountReadyProgress ==
    ASSUME Basics, TerminatesAlone, Settled, [Next]_vars, NEW a \in Accounts, AccountReady(a),
           stack' # <<>>
    PROVE  Progress'
<1>1. Typed /\ LoopStep
  BY DEF Basics, LoopStep, Interference
<1>2. stack' \in Seq(GoodFrames)
  BY <1>1, StackLoop
<1> DEFINE S == {f \in Folders : AccountOf[f] = a /\ folder[f].life = "alive"}
<1>3. PICK order \in Orders(S) :
        stack' = [i \in DOMAIN order |-> Frame("enqueueFolder", order[i], Low)]
  BY DEF AccountReady, Handle
<1>4. \A i \in 1 .. Len(stack') : stack'[i].call = "enqueueFolder"
  <2>1. \A i \in DOMAIN stack' : stack'[i].call = "enqueueFolder"
    BY <1>3 DEF Frame
  <2>2. DOMAIN stack' = 1 .. Len(stack')
    BY <1>2
  <2> QED  BY <2>1, <2>2
<1>5. stack' # <<>> => 1 \in 1 .. Len(stack')
  BY <1>2, LenProperties, EmptySeq
<1>6. \A i \in 2 .. Len(stack') : i \in 1 .. Len(stack')
  BY <1>2, LenProperties
<1>7. Settled'
  <2>1. \A f \in Folders : ~Pause(f) /\ ~ChangeVfsMode(f)
    <3>1. net'.ready[a] /\ ~net.ready[a]
      BY <1>1 DEF AccountReady, Typed, TypeOK
    <3>2. net' # net
      BY <3>1
    <3> QED  BY <3>2 DEF Pause, ChangeVfsMode
  <2> QED  BY <1>1, <2>1, LoopSettles
<1> QED  BY <1>2, <1>4, <1>5, <1>6, <1>7, LoopCalls

\* The handlers of the event loop keep it.
LEMMA LoopProgress ==
    ASSUME Basics, TerminatesAlone, Progress, [Next]_vars, LoopStep
    PROVE  Progress'
<1>1. Typed /\ Idle /\ Settled
  <2>1. Typed /\ Idle
    BY StackLoop DEF Basics
  <2> QED  BY <2>1 DEF Progress
<1>2. Low \in Priorities /\ Requests \subseteq Priorities
  <2>1. Requests \subseteq Priorities
    BY <1>1, SchedulerAssumption DEF Typed, TypeOK, Requests, AllScenarios
  <2> QED  BY <2>1 DEF Low, High, Priorities
<1>3. /\ \A f \in Folders : \A p \in Priorities :
           /\ Frame("enqueueFolder", f, p) \in GoodFrames
           /\ Frame("enqueueFolder", f, p).call = "enqueueFolder"
      /\ \A call \in {"startNext", "start"} :
           /\ Frame(call, NoFolder, 0) \in GoodFrames
           /\ Frame(call, NoFolder, 0).call = call
  BY EnqueueFrame, NullFrame DEF Calls, FolderCalls
<1>4. CASE \/ stack' = <<>> \/ stack' = <<Frame("startNext", NoFolder, 0)>>
           \/ stack' = <<Frame("start", NoFolder, 0)>>
           \/ \E f \in Folders : \E p \in Priorities : stack' = <<Frame("enqueueFolder", f, p)>>
  <2>1. \/ stack' = <<>>
        \/ \E a \in GoodFrames :
             stack' = <<a>> /\ a.call \in {"enqueueFolder", "startNext", "start", "down"}
    BY <1>3, <1>4
  <2> QED  BY <1>1, <2>1, LoopQuiet
<1>5. CASE \/ PostedStart \/ ResumeAll \/ MeteredChanged
           \/ \E b \in BOOLEAN : SetPauseSyncWhenMetered(b)
           \/ \E f \in Folders : \/ RetryTimer(f) \/ WatcherReports(f) \/ VfsStarted(f)
                                 \/ WatcherDetects(f) \/ Resume(f)
                                 \/ \E p \in Requests : Request(f, p)
  BY <1>2, <1>4, <1>5 DEF PostedStart, ResumeAll, MeteredChanged, SetPauseSyncWhenMetered,
     RetryTimer, WatcherReports, VfsStarted, WatcherDetects, Resume, Request, Handle
<1>6. ASSUME NEW f \in Folders, Pause(f) \/ ChangeVfsMode(f)
      PROVE  Progress'
  <2>1. CASE Cur = f
    BY <1>1, <1>6, <2>1, TerminationProgress
  <2>2. CASE Cur # f
    BY <1>4, <1>6, <2>2 DEF Pause, ChangeVfsMode, Handle
  <2> QED  BY <2>1, <2>2
<1>7. ASSUME NEW a \in Accounts, AccountLost(a)
      PROVE  Progress'
  <2>1. CASE stack' # <<>>
    BY <1>1, <1>7, <2>1, TerminationProgress
  <2>2. CASE stack' = <<>>
    BY <1>4, <2>2
  <2> QED  BY <2>1, <2>2
<1>8. CASE PauseAll
  BY <1>1, <1>8, TerminationProgress
<1>9. CASE SlotPropagationFinished
  BY <1>1, <1>9, SlotPropagationFinishedProgress
<1>10. ASSUME NEW f \in Folders, EngineStep(f)
       PROVE  Progress'
  BY <1>1, <1>10, EngineLoopProgress
<1>11. ASSUME NEW f \in Folders, ForceSync(f)
       PROVE  Progress'
  BY <1>1, <1>11, ForceSyncProgress
<1>12. ASSUME NEW a \in Accounts, AccountReady(a)
       PROVE  Progress'
  <2>1. CASE stack' # <<>>
    BY <1>1, <1>12, <2>1, AccountReadyProgress
  <2>2. CASE stack' = <<>>
    BY <1>4, <2>2
  <2> QED  BY <2>1, <2>2
<1>13. /\ \A f \in Folders : ~Delete(f) /\ ~RemoveFolder(f)
       /\ \A a \in Accounts : ~ServerUnsupported(a)
  BY AllStay
<1> QED
  BY <1>5, <1>6, <1>7, <1>8, <1>9, <1>10, <1>11, <1>12, <1>13 DEF LoopStep, Interference

----------------------------------------------------------------------------
\* What the running call does to the folders, to the current sync and to the
\* calls that wait.

LEMMA RunFaces ==
    ASSUME Basics, TerminatesAlone, Run, NEW g \in Folders
    PROVE  /\ folder'[g].life = folder[g].life
           /\ \/ /\ folder'[g].ready = folder[g].ready /\ folder'[g].paused = folder[g].paused
                 /\ folder'[g].switch = folder[g].switch
              \/ /\ FinalizeVfsSwitch /\ stack[1].f = g
                 /\ ~folder'[g].ready /\ folder'[g].switch = "no"
<1>1. Typed /\ ~Wipe
  BY AllStay DEF Basics
<1>2. folder \in [Folders -> FolderRecords] /\ folder[g] \in FolderRecords
  BY <1>1, FoldersTyped
<1>3. CASE StartNext
  <2>1. \/ folder' = folder
        \/ \E f : folder' = [folder EXCEPT ![f].listeners = IF @ < MaxListeners THEN @ + 1 ELSE @]
    BY <1>3 DEF StartNext
  <2> QED  BY <1>2, <2>1 DEF FolderRecords
<1>4. CASE EnqueueFolder \/ StartSync
  BY <1>1, <1>4, FacesShown DEF Kept
<1>5. CASE SlotSyncFinished \/ FinalizeVfsSwitch
  BY <1>1, <1>5, FacesOthers DEF Same, Kept
<1>6. CASE EngineStart \/ Abort \/ FollowUp \/ folder' = folder
  BY <1>1, <1>6, FacesSame DEF Same, Kept
<1> QED
  BY <1>1, <1>3, <1>4, <1>5, <1>6 DEF Run, PopIgnored, TerminateCurrentSync, ClearCurrent,
     Start, Finalize, ResetEngine, SyncFinished

\* The running calls leave the scenario and the account alone.
LEMMA NetStays ==
    ASSUME Run
    PROVE  net' = net
BY RunFrames DEF Run

\* It makes no folder ready for a sync.
LEMMA RunReadiesNone ==
    ASSUME Basics, TerminatesAlone, Run, NEW g \in Folders, CanSync(g)'
    PROVE  CanSync(g)
<1>1. net' = net
  BY NetStays
<1> QED  BY <1>1, RunFaces DEF CanSync

LEMMA EnqueuedKeeps ==
    ASSUME NEW s \in Scheds, NEW f \in Folders, NEW p \in Priorities
    PROVE  LET t == Enqueued(s, f, p)
           IN  t.cur = s.cur /\ t.running = s.running /\ t.startPosted = s.startPosted
<1> DEFINE t == Enqueued(s, f, p)
<1>1. CASE f \notin DOMAIN s.scheduled
  <2> DEFINE q == s.queue \cup {<<f, p>>}
             m == [g \in DOMAIN s.scheduled \cup {f} |-> IF g = f THEN p ELSE s.scheduled[g]]
  <2>1. t = [s EXCEPT !.queue = q, !.scheduled = m]
    BY <1>1 DEF Enqueued, Scheds
  <2> HIDE DEF q, m
  <2> QED  BY <2>1, QueueOnly
<1>2. CASE f \in DOMAIN s.scheduled /\ p > s.scheduled[f]
  <2> DEFINE q == (s.queue \ {<<f, s.scheduled[f]>>}) \cup {<<f, p>>}
             m == [s.scheduled EXCEPT ![f] = p]
  <2>1. t = [s EXCEPT !.queue = q, !.scheduled = m]
    BY <1>2 DEF Enqueued, Scheds
  <2> HIDE DEF q, m
  <2> QED  BY <2>1, QueueOnly
<1> QED  BY <1>1, <1>2 DEF Enqueued

\* It leaves or drops the current sync, or starts the next one.
LEMMA RunSched ==
    ASSUME Basics, TerminatesAlone, Run
    PROVE  /\ \/ sched'.cur = sched.cur
              \/ sched'.cur = NoFolder /\ (EnqueueFolder \/ ClearCurrent \/ SyncFinished)
              \/ /\ StartNext /\ sched.running /\ sched'.cur \in Folders
                 /\ \E f \in Folders : CanSync(f)
           /\ \/ sched'.running = sched.running /\ sched'.startPosted = sched.startPosted
              \/ Start /\ sched'.running /\ sched'.startPosted
<1>1. /\ Typed /\ sched \in Scheds /\ \A f \in Folders : ~Delete(f)
      /\ \A c \in Folders \cup {NoFolder} : \A s \in Scheds :
           /\ [s EXCEPT !.cur = c].cur = c /\ [s EXCEPT !.cur = c].running = s.running
           /\ [s EXCEPT !.cur = c].startPosted = s.startPosted
  BY AllStay DEF Basics, Typed, TypeOK, Scheds, Maps
<1>2. ~Idle
  BY <1>1, RunCalls
<1>3. CASE EnqueueFolder
  <2> DEFINE s == Enqueued(sched, stack[1].f, stack[1].arg)
  <2>1. stack[1].f \in Folders /\ stack[1].arg \in Priorities
    BY <1>1, <1>2, <1>3, HeadTyped DEF EnqueueFolder, On
  <2>2. /\ s \in Scheds /\ s.cur = sched.cur /\ s.running = sched.running
        /\ s.startPosted = sched.startPosted
    BY <1>1, <2>1, EnqueuedTyped, EnqueuedKeeps
  <2>3. sched' \in {sched, s, [s EXCEPT !.cur = NoFolder]}
    BY <1>3 DEF EnqueueFolder
  <2> HIDE DEF s
  <2>4. LET t == [s EXCEPT !.cur = NoFolder]
        IN  t.cur = NoFolder /\ t.running = s.running /\ t.startPosted = s.startPosted
    BY <1>1, <2>2
  <2>5. sched'.running = sched.running /\ sched'.startPosted = sched.startPosted
    BY <2>2, <2>3, <2>4
  <2>6. sched'.cur = sched.cur \/ sched'.cur = NoFolder
    BY <2>2, <2>3, <2>4
  <2> QED  BY <1>3, <2>5, <2>6
<1>4. CASE StartNext
  <2>1. \A e \in Tops(sched) : e \in Elements /\ e[1] \in Folders
    BY <1>1 DEF Tops, Scheds, Elements
  <2>2. \A e \in Tops(sched) :
          /\ Popped(sched, e) \in Scheds /\ Popped(sched, e).cur = sched.cur
          /\ Popped(sched, e).running = sched.running
          /\ Popped(sched, e).startPosted = sched.startPosted
    BY <1>1, <2>1, PoppedTyped, PoppedKeeps
  <2>3. \/ sched' = sched
        \/ \E e \in Tops(sched) :
             \/ sched' = Popped(sched, e)
             \/ /\ sched' = [Popped(sched, e) EXCEPT !.cur = e[1]]
                /\ CanSync(e[1]) /\ sched.running
    BY <1>4 DEF StartNext, Declined, CanSync
  <2>4. ASSUME NEW e \in Tops(sched), sched' = [Popped(sched, e) EXCEPT !.cur = e[1]],
               CanSync(e[1]), sched.running
        PROVE  /\ sched'.cur \in Folders /\ \E f \in Folders : CanSync(f)
               /\ sched'.running = sched.running /\ sched'.startPosted = sched.startPosted
    BY <1>1, <2>1, <2>2, <2>4
  <2> QED  BY <1>4, <2>2, <2>3, <2>4
<1>5. CASE PopIgnored
  <2>1. sched' = sched \/ \E e \in Tops(sched) : sched' = Popped(sched, e)
    BY <1>5 DEF PopIgnored
  <2>2. \A e : /\ Popped(sched, e).cur = sched.cur /\ Popped(sched, e).running = sched.running
              /\ Popped(sched, e).startPosted = sched.startPosted
    BY <1>1, PoppedKeeps
  <2> QED  BY <2>1, <2>2
<1>6. CASE ClearCurrent \/ SyncFinished
  <2>1. sched' = [sched EXCEPT !.cur = NoFolder]
    BY <1>6 DEF ClearCurrent, SyncFinished
  <2>2. /\ sched'.cur = NoFolder /\ sched'.running = sched.running
        /\ sched'.startPosted = sched.startPosted
    BY <1>1, <2>1
  <2> QED  BY <1>6, <2>2
<1>7. CASE Start
  BY <1>1, <1>7 DEF Start, Scheds
<1>8. CASE sched' = sched
  BY <1>8
<1> QED
  BY <1>3, <1>4, <1>5, <1>6, <1>7, <1>8, RunFrames DEF Run

\* A call that the running one makes.
Fits(fr) ==
    /\ fr \in GoodFrames /\ fr.call \notin {"start", "wipe", "terminateCurrentSync", "down"}
    /\ fr.call = "clearCurrent" => TerminateCurrentSync /\ Cur # NoFolder
    /\ fr.call = "finalizeVfsSwitch" =>
         SlotSyncFinished /\ fr.f = stack[1].f /\ folder[fr.f].switch # "no"

LEMMA HeadAgain ==
    ASSUME Typed, ~Idle
    PROVE  stack = <<stack[1]>> \o Tail(stack)
<1> DEFINE a == stack[1]  t == <<a>> \o Tail(stack)
<1>1. stack \in Seq(GoodFrames) /\ stack # <<>> /\ a \in GoodFrames
  BY HeadTyped DEF Typed, Idle
<1> HIDE DEF a
<1>2. /\ t \in Seq(GoodFrames) /\ Len(t) = Len(stack) /\ t[1] = a
      /\ \A i \in 2 .. Len(stack) : t[i] = stack[i]
  BY <1>1, OneCall
<1>3. \A i \in 1 .. Len(stack) : i = 1 \/ i \in 2 .. Len(stack)
  BY <1>1, LenProperties
<1>4. \A i \in 1 .. Len(stack) : t[i] = stack[i]
  BY <1>2, <1>3 DEF a
<1> HIDE DEF t
<1>5. t = stack
  BY <1>1, <1>2, <1>4, SeqEqual
<1> QED  BY <1>5 DEF a, t

\* The calls that a running handler still has to make fit together.
LEMMA RunFits ==
    ASSUME Basics, TerminatesAlone, Progress, Run
    PROVE  \E frames \in Seq(GoodFrames) :
             Call(frames) /\ \A i \in 1 .. Len(frames) : Fits(frames[i])
<1> DEFINE Goal == \E frames \in Seq(GoodFrames) :
             Call(frames) /\ \A i \in 1 .. Len(frames) : Fits(frames[i])
           f == stack[1].f
<1>0. /\ Typed /\ ~Idle /\ stack[1] \in GoodFrames /\ stack \in Seq(GoodFrames)
      /\ Tail(stack) \in Seq(GoodFrames)
      /\ stack[1].call \in FolderCalls => f \in Folders
      /\ stack[1].arg \in 0 .. High /\ Cur \in Folders \cup {NoFolder}
  BY RunCalls, HeadTyped, FoldersTyped DEF Basics, Typed
<1>1. ASSUME Return  PROVE Goal
  <2>1. <<>> \in Seq(GoodFrames) /\ Call(<<>>) /\ \A i \in 1 .. Len(<<>>) : Fits(<<>>[i])
    BY <1>0, <1>1, ConcatEmptySeq DEF Return, Call
  <2>2. \E frames \in Seq(GoodFrames) : Call(frames) /\ \A i \in 1 .. Len(frames) : Fits(frames[i])
    <3> WITNESS <<>> \in Seq(GoodFrames)
    <3> QED  BY <2>1
  <2> QED  BY <2>2
<1>2. ASSUME NEW a, Fits(a), Call(<<a>>)  PROVE Goal
  <2>1. <<a>> \in Seq(GoodFrames) /\ Len(<<a>>) = 1 /\ <<a>>[1] = a
    BY <1>2 DEF Fits
  <2>2. \A i \in 1 .. Len(<<a>>) : Fits(<<a>>[i])
    BY <1>2, <2>1
  <2> QED  BY <1>2, <2>1, <2>2
<1>3. ASSUME NEW a, NEW b, Fits(a), Fits(b), Call(<<a>> \o <<b>>)  PROVE Goal
  <2>1. /\ <<a, b>> \in Seq(GoodFrames) /\ Len(<<a, b>>) = 2
        /\ <<a, b>>[1] = a /\ <<a, b>>[2] = b
        /\ a \in GoodFrames /\ b \in GoodFrames
    BY <1>3 DEF Fits
  <2>2. \A i \in 1 .. Len(<<a, b>>) : Fits(<<a, b>>[i])
    BY <1>3, <2>1
  <2>3. <<a>> \o <<b>> = <<a, b>>
    BY <2>1, Lists
  <2> QED  BY <1>3, <2>1, <2>2, <2>3
<1>4. ASSUME UNCHANGED stack, Fits(stack[1])  PROVE Goal
  BY <1>0, <1>2, <1>4, HeadAgain DEF Call
<1> SUFFICES Goal
  BY DEF Goal
<1> HIDE DEF Goal
<1>5. /\ \A call \in {"startNext", "popIgnored"} : Fits(Frame(call, NoFolder, 0))
      /\ \A g \in Folders : \A p \in Priorities : Fits(Frame("enqueueFolder", g, p))
      /\ \A g \in Folders : \A arg \in 0 .. High :
           \A call \in {"startSync", "engineStart", "abort", "finalize", "slotSyncFinished",
                        "resetEngine"} : Fits(Frame(call, g, arg))
  BY NullFrame, EnqueueFrame, FolderFrame DEF Fits, Calls, FolderCalls
<1>6. 0 \in 0 .. High /\ Flag(FALSE) \in 0 .. High /\ Low \in Priorities
  BY DEF High, Low, Flag, Priorities
<1>7. CASE EnqueueFolder \/ SyncFinished
  BY <1>1, <1>2, <1>5, <1>7 DEF EnqueueFolder, SyncFinished, AfterSync
<1>8. CASE StartNext
  <2>1. \A e \in Tops(sched) : e[1] \in Folders /\ e[2] \in Priorities
    BY <1>0 DEF Tops, Typed, TypeOK, Elements
  <2>2. \A e \in Tops(sched) : /\ Fits(Frame("enqueueFolder", e[1], e[2]))
                               /\ Fits(Frame("startSync", e[1], 0))
    BY <1>5, <1>6, <2>1
  <2>3. Fits(stack[1])
    BY <1>0, <1>8 DEF Fits, StartNext, On
  <2>4. \/ Return \/ UNCHANGED stack
        \/ Call(<<Frame("popIgnored", NoFolder, 0), stack[1]>>)
        \/ \E e \in Tops(sched) : \/ Call(<<Frame("enqueueFolder", e[1], e[2])>>)
                                  \/ Call(<<Frame("startSync", e[1], 0)>>)
    BY <1>8 DEF StartNext
  <2>5. ~Call(<<Frame("popIgnored", NoFolder, 0), stack[1]>>) \/ Goal
    <3> SUFFICES ASSUME Call(<<Frame("popIgnored", NoFolder, 0), stack[1]>>)  PROVE Goal
      OBVIOUS
    <3> DEFINE a == Frame("popIgnored", NoFolder, 0)  b == stack[1]
    <3>1. Fits(a) /\ Fits(b) /\ a \in GoodFrames /\ b \in GoodFrames
      BY <1>5, <2>3 DEF Fits
    <3> HIDE DEF a, b
    <3>2. <<a>> \o <<b>> = <<a, b>>
      BY <3>1, Lists
    <3>3. Call(<<a>> \o <<b>>)
      BY <3>2 DEF a, b
    <3> QED  BY <1>3, <3>1, <3>3
  <2> QED  BY <1>1, <1>2, <1>4, <2>2, <2>3, <2>4, <2>5
<1>9. CASE PopIgnored
  <2>1. Fits(stack[1]) /\ (Return \/ UNCHANGED stack)
    BY <1>0, <1>9 DEF Fits, PopIgnored, On
  <2> QED  BY <1>1, <1>4, <2>1
<1>10. CASE TerminateCurrentSync
  <2> DEFINE b == Frame("clearCurrent", NoFolder, 0)
  <2>1. b \in GoodFrames /\ b.call = "clearCurrent"
    BY NullFrame DEF Calls, FolderCalls
  <2> HIDE DEF b
  <2>2. \/ Return
        \/ Cur # NoFolder /\ Call(<<Frame("abort", Cur, 0)>> \o <<b>>)
        \/ Cur # NoFolder /\ Call(<<>> \o <<b>>)
    BY <1>10 DEF TerminateCurrentSync, b
  <2>3. Cur # NoFolder => Fits(b) /\ Fits(Frame("abort", Cur, 0))
    BY <1>0, <1>5, <1>6, <1>10, <2>1 DEF Fits
  <2>4. <<>> \o <<b>> = <<b>>
    BY <2>1, Lists
  <2> QED  BY <1>1, <1>2, <1>3, <2>2, <2>3, <2>4
<1>11. CASE StartSync
  <2>1. f \in Folders
    BY <1>0, <1>11 DEF StartSync, On, FolderCalls, Calls
  <2> DEFINE a == Frame("enqueueFolder", f, Low)  b == Frame("engineStart", f, 0)
  <2>2. Fits(a) /\ Fits(b) /\ a \in GoodFrames /\ b \in GoodFrames
    BY <1>5, <1>6, <2>1 DEF Fits
  <2>3. Return \/ Call(<<a>> \o <<b>>) \/ Call(<<>> \o <<b>>)
    BY <1>11 DEF StartSync
  <2> HIDE DEF a, b
  <2>4. <<>> \o <<b>> = <<b>>
    BY <2>2, Lists
  <2> QED  BY <1>1, <1>2, <1>3, <2>2, <2>3, <2>4
<1>12. CASE EngineStart \/ Abort
  <2>1. f \in Folders
    BY <1>0, <1>12 DEF EngineStart, Abort, On, FolderCalls, Calls
  <2> QED  BY <1>1, <1>2, <1>5, <1>6, <1>12, <2>1 DEF EngineStart, Abort
<1>13. CASE Finalize
  <2>1. f \in Folders
    BY <1>0, <1>13 DEF Finalize, On, FolderCalls, Calls
  <2> DEFINE a == Frame("slotSyncFinished", f, stack[1].arg)  b == Frame("resetEngine", f, 0)
  <2>2. Fits(a) /\ Fits(b) /\ a \in GoodFrames /\ b \in GoodFrames /\ Call(<<a, b>>)
    BY <1>0, <1>5, <1>6, <1>13, <2>1 DEF Fits, Finalize
  <2> HIDE DEF a, b
  <2> QED  BY <1>3, <2>2, Lists
<1>14. CASE SlotSyncFinished
  <2>1. f \in Folders /\ stack[1].call = "slotSyncFinished"
    BY <1>0, <1>14 DEF SlotSyncFinished, On, FolderCalls, Calls
  <2>2. Stopped(f)
    BY <1>0, <2>1 DEF Progress
  <2>3. PICK arg \in 0 .. 1 : Call(FinishCalls(f, arg))
    BY <1>14, <2>2 DEF SlotSyncFinished, FinishCalls, Flag, Stopped, Alone
  <2> DEFINE s == FinishCalls(f, arg)
  <2>4. /\ s \in Seq(GoodFrames) /\ Len(s) \in Nat
        /\ s[1] = Frame("syncFinished", f, 0)
        /\ \A i \in 2 .. Len(s) : s[i].f = f /\ s[i].call \in {"finalizeVfsSwitch", "followUp"}
        /\ folder[f].switch = "no" => \A i \in 2 .. Len(s) : s[i].call = "followUp"
    BY <2>1, <2>2, <2>3, FinishCallsOne DEF Stopped, Alone
  <2> HIDE DEF s
  <2>5. ASSUME NEW i \in 1 .. Len(s)
        PROVE  Fits(s[i])
    <3>1. s[i] \in GoodFrames
      BY <2>4
    <3>2. CASE i = 1
      BY <2>4, <3>1, <3>2 DEF Fits, Frame
    <3>3. CASE i \in 2 .. Len(s)
      <4>1. /\ s[i].f = f /\ s[i].call \in {"finalizeVfsSwitch", "followUp"}
            /\ folder[f].switch = "no" => s[i].call = "followUp"
        BY <2>4, <3>3
      <4> QED  BY <1>14, <3>1, <4>1 DEF Fits
    <3> QED  BY <2>4, <3>2, <3>3
  <2> QED  BY <2>3, <2>4, <2>5 DEF s, Goal
<1>15. CASE ClearCurrent \/ Start \/ ResetEngine \/ FollowUp \/ FinalizeVfsSwitch
  BY <1>1, <1>15 DEF ClearCurrent, Start, ResetEngine, FollowUp, FinalizeVfsSwitch
<1>16. ~Wipe
  BY AllStay
<1> QED  BY <1>7, <1>8, <1>9, <1>10, <1>11, <1>12, <1>13, <1>14, <1>15, <1>16 DEF Run

\* A call that waits did so before, or is made now.
LEMMA RunPending ==
    ASSUME Basics, TerminatesAlone, Progress, Run
    PROVE  \E n \in Nat :
             /\ Len(stack') = n + Len(stack) - 1
             /\ \A i \in 1 .. n : Fits(stack'[i])
             /\ \A i \in n + 1 .. Len(stack') :
                  i - n + 1 \in 2 .. Len(stack) /\ stack'[i] = stack[i - n + 1]
<1>1. PICK frames \in Seq(GoodFrames) :
        Call(frames) /\ \A i \in 1 .. Len(frames) : Fits(frames[i])
  BY RunFits
<1>2. stack \in Seq(GoodFrames) /\ stack # <<>> /\ Len(stack) \in Nat \ {0}
  BY RunCalls, LenProperties, EmptySeq DEF Basics, Typed, Idle
<1>3. /\ Len(frames) \in Nat /\ Len(stack') = Len(frames) + Len(stack) - 1
      /\ \A i \in 1 .. Len(frames) : stack'[i] = frames[i]
      /\ \A i \in Len(frames) + 1 .. Len(stack') : stack'[i] = stack[i - Len(frames) + 1]
  BY <1>1, <1>2, Replaced, LenProperties DEF Call
<1>4. \A i \in Len(frames) + 1 .. Len(stack') : i - Len(frames) + 1 \in 2 .. Len(stack)
  BY <1>2, <1>3
<1>5. \A i \in 1 .. Len(frames) : Fits(stack'[i])
  BY <1>1, <1>3
<1> QED  BY <1>3, <1>4, <1>5

LEMMA RunWaits ==
    ASSUME Basics, TerminatesAlone, Progress, Run, NEW fr \in Pending'
    PROVE  Fits(fr) \/ (fr \in Below /\ fr \in Pending)
<1>1. PICK n \in Nat :
             /\ Len(stack') = n + Len(stack) - 1
             /\ \A i \in 1 .. n : Fits(stack'[i])
             /\ \A i \in n + 1 .. Len(stack') :
                  i - n + 1 \in 2 .. Len(stack) /\ stack'[i] = stack[i - n + 1]
  BY RunPending
<1>2. PICK i \in 1 .. Len(stack') : fr = stack'[i]
  BY DEF Pending
<1>3. Len(stack) \in Nat \ {0}
  BY RunCalls, LenProperties, EmptySeq DEF Basics, Typed, Idle
<1>4. CASE i \in 1 .. n
  BY <1>1, <1>2, <1>4
<1>5. CASE i \in n + 1 .. Len(stack')
  <2>1. i - n + 1 \in 2 .. Len(stack) /\ fr = stack[i - n + 1]
    BY <1>1, <1>2, <1>5
  <2>2. i - n + 1 \in 1 .. Len(stack)
    BY <1>3, <2>1
  <2> QED  BY <2>1, <2>2 DEF Below, Pending
<1> QED  BY <1>1, <1>2, <1>3, <1>4, <1>5

----------------------------------------------------------------------------
\* The steps of the other parts.

LEMMA StartIsLastStep ==
    ASSUME Basics, TerminatesAlone, Progress, StartIsLast, [Next]_vars
    PROVE  StartIsLast'
<1>1. Typed /\ \A f \in Folders : ~RemoveFolder(f)
  BY AllStay DEF Basics
<1>2. CASE UNCHANGED vars
  BY <1>2 DEF vars, StartIsLast
<1>3. CASE Run
  <2>1. PICK n \in Nat :
             /\ Len(stack') = n + Len(stack) - 1
             /\ \A i \in 1 .. n : Fits(stack'[i])
             /\ \A i \in n + 1 .. Len(stack') :
                  i - n + 1 \in 2 .. Len(stack) /\ stack'[i] = stack[i - n + 1]
    BY <1>3, RunPending
  <2>2. Len(stack) \in Nat \ {0}
    BY <1>1, <1>3, RunCalls, LenProperties, EmptySeq DEF Typed, Idle
  <2>3. ASSUME NEW i \in 1 .. Len(stack') - 1
        PROVE  stack'[i].call # "start"
    <3>1. CASE i \in 1 .. n
      BY <2>1, <3>1 DEF Fits
    <3>2. CASE i \in n + 1 .. Len(stack')
      <4>1. i - n + 1 \in 1 .. Len(stack) - 1 /\ stack'[i] = stack[i - n + 1]
        BY <2>1, <2>2, <3>2
      <4> QED  BY <4>1 DEF StartIsLast
    <3> QED  BY <2>1, <2>2, <3>1, <3>2
  <2> QED  BY <2>3 DEF StartIsLast
<1>4. CASE LoopStep
  <2>0. stack' \in Seq(GoodFrames) /\ Len(stack') \in Nat /\ Idle
    BY <1>1, <1>4, StackLoop, LenProperties
  <2>1. CASE Len(stack') <= 1
    BY <2>0, <2>1 DEF StartIsLast
  <2>2. ASSUME NEW f \in Folders, ForceSync(f)
        PROVE  StartIsLast'
    <3> DEFINE a == Frame("terminateCurrentSync", Cur, 0)  b == Frame("enqueueFolder", Cur, Low)
               c == Frame("enqueueFolder", f, High)  d == Frame("start", f, 0)
    <3>1. a.call # "start" /\ b.call # "start" /\ c.call # "start"
      BY DEF Frame
    <3>2. stack' = <<>> \o <<c, d>> \/ stack' = <<a, b>> \o <<c, d>>
      BY <2>2 DEF ForceSync, Handle
    <3> HIDE DEF a, b, c, d
    <3>3. CASE stack' = <<>> \o <<c, d>>
      <4>1. Len(stack') = 2 /\ stack'[1] = c
        BY <3>3, FourCalls
      <4> QED  BY <3>1, <4>1 DEF StartIsLast
    <3>4. CASE stack' = <<a, b>> \o <<c, d>>
      <4>1. Len(stack') = 4 /\ stack'[1] = a /\ stack'[2] = b /\ stack'[3] = c
        BY <3>4, FourCalls
      <4>2. \A i \in 1 .. 3 : i = 1 \/ i = 2 \/ i = 3
        OBVIOUS
      <4>3. \A i \in 1 .. 3 : stack'[i].call # "start"
        BY <3>1, <4>1, <4>2
      <4> QED  BY <4>1, <4>3 DEF StartIsLast
    <3> QED  BY <3>2, <3>3, <3>4
  <2>3. ASSUME NEW f \in Folders, ChangeVfsMode(f)
        PROVE  StartIsLast'
    <3> DEFINE t == Frame("terminateCurrentSync", f, 0)  e == Frame("enqueueFolder", f, Low)
    <3>1. stack' = <<>> \/ stack' = <<t, e>>
      BY <2>3 DEF ChangeVfsMode, Handle
    <3>2. t.call # "start"
      BY DEF Frame
    <3> HIDE DEF t, e
    <3>3. CASE stack' = <<>>
      BY <2>1, <3>3
    <3>4. CASE stack' = <<t, e>>
      <4>1. Len(stack') = 2 /\ stack'[1] = t
        BY <3>4
      <4>2. \A i \in 1 .. Len(stack') - 1 : i = 1
        BY <4>1
      <4> QED  BY <3>2, <4>1, <4>2 DEF StartIsLast
    <3> QED  BY <3>1, <3>3, <3>4
  <2>4. ASSUME NEW a \in Accounts, AccountReady(a)
        PROVE  StartIsLast'
    <3>1. CASE stack' = <<>>
      BY <2>1, <3>1
    <3>2. CASE stack' # <<>>
      <4>1. \E S : \E order \in Orders(S) :
              stack' = [i \in DOMAIN order |-> Frame("enqueueFolder", order[i], Low)]
        BY <2>4, <3>2 DEF AccountReady, Handle
      <4>2. \A i \in DOMAIN stack' : stack'[i].call # "start"
        BY <4>1 DEF Frame
      <4>3. DOMAIN stack' = 1 .. Len(stack')
        BY <2>0
      <4> QED  BY <2>0, <4>2, <4>3 DEF StartIsLast
    <3> QED  BY <3>1, <3>2
  <2>5. \/ \E f \in Folders : ForceSync(f) \/ ChangeVfsMode(f)
        \/ \E a \in Accounts : AccountReady(a)
        \/ stack' = <<>> \/ \E a : stack' = <<a>>
    <3>1. CASE SlotPropagationFinished
      BY <2>0, <3>1 DEF SlotPropagationFinished, Idle
    <3>2. CASE \E f \in Folders : EngineStep(f)
      BY <2>0, <3>2 DEF EngineStep, DiscoveryFinished, DiscoveryFailed, PropagationEnds, Handle, Idle
    <3>3. CASE \/ PostedStart \/ PauseAll \/ ResumeAll \/ MeteredChanged
               \/ \E b \in BOOLEAN : SetPauseSyncWhenMetered(b)
               \/ \E a \in Accounts : AccountLost(a) \/ ServerUnsupported(a)
      BY <3>3 DEF PostedStart, PauseAll, ResumeAll, MeteredChanged, SetPauseSyncWhenMetered,
         AccountLost, ServerUnsupported, Handle
    <3>4. CASE \E f \in Folders : \/ RetryTimer(f) \/ WatcherReports(f) \/ VfsStarted(f)
                                  \/ Delete(f) \/ WatcherDetects(f) \/ Resume(f) \/ Pause(f)
                                  \/ \E p \in Requests : Request(f, p)
      BY <3>4 DEF RetryTimer, WatcherReports, VfsStarted, Delete, WatcherDetects, Resume,
         Pause, Request, Handle
    <3> QED  BY <1>1, <1>4, <3>1, <3>2, <3>3, <3>4 DEF LoopStep, Interference
  <2>6. (stack' = <<>> \/ \E a : stack' = <<a>>) => Len(stack') <= 1
    <3>1. CASE stack' = <<>>
      BY <3>1
    <3>2. CASE \E a : stack' = <<a>>
      <4>1. PICK a : stack' = <<a>>
        BY <3>2
      <4>2. Len(stack') = 1
        BY <4>1
      <4> QED  BY <4>2
    <3> QED  BY <3>1, <3>2
  <2> QED  BY <2>1, <2>2, <2>3, <2>4, <2>5, <2>6
<1> QED  BY <1>2, <1>3, <1>4, NextSplit

\* The end of a sync goes its way.
LEMMA HeadRuns ==
    ASSUME Run
    PROVE  /\ stack[1].call = "terminateCurrentSync" => TerminateCurrentSync
           /\ stack[1].call = "abort" => Abort
           /\ stack[1].call = "finalize" => Finalize
           /\ stack[1].call = "slotSyncFinished" => SlotSyncFinished
           /\ stack[1].call = "syncFinished" => SyncFinished
           /\ stack[1].call = "finalizeVfsSwitch" => FinalizeVfsSwitch
           /\ stack[1].call = "startNext" => StartNext
BY RunFrames DEF Run, On

LEMMA EndGoesOn ==
    ASSUME Basics, TerminatesAlone, Progress, Run
    PROVE  /\ TerminateCurrentSync /\ Cur # NoFolder =>
                ~Idle' /\ stack'[1].call = "abort" /\ stack'[1].f = Cur
           /\ Abort => ~Idle' /\ stack'[1].call = "finalize" /\ stack'[1].f = stack[1].f
           /\ Finalize => ~Idle' /\ stack'[1].call = "slotSyncFinished" /\ stack'[1].f = stack[1].f
           /\ SlotSyncFinished =>
                /\ ~Idle' /\ stack'[1].call = "syncFinished" /\ stack'[1].f = stack[1].f
                /\ folder[stack[1].f].switch # "no" => Switching'
<1>1. Typed /\ ~Idle
  BY RunCalls DEF Basics
<1>2. ASSUME TerminateCurrentSync, Cur # NoFolder
      PROVE  ~Idle' /\ stack'[1].call = "abort" /\ stack'[1].f = Cur
  <2>1. Syncing(Cur) /\ Cur \in Folders
    BY <1>1, <1>2, FoldersTyped DEF TerminateCurrentSync, On, Progress, Nothing
  <2> DEFINE f == Cur  a == Frame("abort", f, 0)  b == Frame("clearCurrent", NoFolder, 0)
  <2>2. a \in GoodFrames /\ a.call = "abort" /\ a.f = f /\ b \in GoodFrames
        /\ b.call \in PassiveCalls
    BY <2>1, FolderFrame, NullFrame DEF Calls, FolderCalls, High, PassiveCalls, SettledCalls
  <2>3. Call(<<a>> \o <<b>>)
    BY <1>2, <2>1 DEF TerminateCurrentSync, Syncing, Runs, Alone
  <2> HIDE DEF a, b
  <2>4. Call(<<a, b>>)
    BY <2>2, <2>3, Lists
  <2>5. stack' # <<>> /\ stack'[1] = a
    BY <1>1, <2>2, <2>4, CallsTwo
  <2> QED  BY <2>2, <2>5 DEF Idle
<1>3. ASSUME Abort
      PROVE  ~Idle' /\ stack'[1].call = "finalize" /\ stack'[1].f = stack[1].f
  <2> DEFINE f == stack[1].f  a == Frame("finalize", f, Flag(FALSE))
  <2>1. f \in Folders /\ Syncing(f)
    BY <1>1, <1>3, HeadTyped DEF Abort, On, Progress, FolderCalls, Calls
  <2>2. a \in GoodFrames /\ a.call = "finalize" /\ a.f = f
    BY <2>1, FolderFrame DEF Calls, High, Flag
  <2>3. Call(<<a>>)
    BY <1>3, <2>1 DEF Abort, Syncing
  <2> HIDE DEF a
  <2>4. stack' # <<>> /\ stack'[1] = a
    BY <1>1, <2>2, <2>3, CallsOne
  <2> QED  BY <2>2, <2>4 DEF Idle
<1>4. ASSUME Finalize
      PROVE  ~Idle' /\ stack'[1].call = "slotSyncFinished" /\ stack'[1].f = stack[1].f
  <2> DEFINE f == stack[1].f  a == Frame("slotSyncFinished", f, stack[1].arg)
             b == Frame("resetEngine", f, 0)
  <2>1. f \in Folders /\ stack[1].arg \in 0 .. High
    BY <1>1, <1>4, HeadTyped DEF Finalize, On, FolderCalls, Calls
  <2>2. a \in GoodFrames /\ a.call = "slotSyncFinished" /\ a.f = f /\ b \in GoodFrames
        /\ b.call \in PassiveCalls
    BY <2>1, FolderFrame DEF Calls, High, PassiveCalls, SettledCalls
  <2>3. Call(<<a, b>>)
    BY <1>4 DEF Finalize
  <2> HIDE DEF a, b
  <2>4. stack' # <<>> /\ stack'[1] = a
    BY <1>1, <2>2, <2>3, CallsTwo
  <2> QED  BY <2>2, <2>4 DEF Idle
<1>5. ASSUME SlotSyncFinished
      PROVE  /\ ~Idle' /\ stack'[1].call = "syncFinished" /\ stack'[1].f = stack[1].f
             /\ folder[stack[1].f].switch # "no" => Switching'
  <2> DEFINE f == stack[1].f
  <2>1. f \in Folders /\ Stopped(f)
    BY <1>1, <1>5, HeadTyped DEF SlotSyncFinished, On, Progress, FolderCalls, Calls
  <2>2. PICK arg \in 0 .. 1 : Call(FinishCalls(f, arg))
    BY <1>5, <2>1, FinishCallsMade DEF Stopped, Alone
  <2> DEFINE s == FinishCalls(f, arg)
  <2>3. /\ s \in Seq(GoodFrames) /\ Len(s) \in Nat /\ Len(s) >= 2
        /\ s[1] = Frame("syncFinished", f, 0)
        /\ folder[f].switch # "no" => \E i \in 2 .. Len(s) : s[i].call = "finalizeVfsSwitch"
    BY <2>1, <2>2, FinishCallsOne DEF Stopped, Alone
  <2>4. Call(s)
    BY <2>2
  <2> HIDE DEF s
  <2>5. stack \in Seq(GoodFrames) /\ stack # <<>> /\ Len(stack) \in Nat \ {0}
    BY <1>1, LenProperties, EmptySeq DEF Typed, Idle
  <2>6. /\ stack' \in Seq(GoodFrames) /\ Len(stack') = Len(s) + Len(stack) - 1
        /\ \A i \in 1 .. Len(s) : stack'[i] = s[i]
    BY <2>3, <2>4, <2>5, Replaced DEF Call
  <2>7. stack' # <<>> /\ stack'[1] = s[1] /\ \A i \in 1 .. Len(s) : i \in 1 .. Len(stack')
    BY <2>3, <2>5, <2>6, EmptySeq
  <2>8. stack'[1].call = "syncFinished" /\ stack'[1].f = f
    BY <2>3, <2>7 DEF Frame
  <2>9. ASSUME NEW i \in 2 .. Len(s), s[i].call = "finalizeVfsSwitch"
        PROVE  Switching'
    <3>1. i \in 1 .. Len(s) /\ i \in 1 .. Len(stack') /\ stack'[i].call = "finalizeVfsSwitch"
      BY <2>3, <2>6, <2>7, <2>9
    <3> QED  BY <3>1 DEF Switching, Pending
  <2> QED  BY <2>3, <2>7, <2>8, <2>9 DEF Idle
<1> QED  BY <1>2, <1>3, <1>4, <1>5

\* What happens to the current sync and to its end when none can be started.
LEMMA ClearsNoneStep ==
    ASSUME Basics, TerminatesAlone, Progress, StartIsLast, ClearsNone, [Next]_vars
    PROVE  ClearsNone'
<1>1. Typed
  BY DEF Basics
<1>2. CASE UNCHANGED vars
  BY <1>2 DEF vars, ClearsNone, Pending, NoStart, CanSync, Ending, Idle, Cur
<1>3. CASE LoopStep
  <2>1. \A fr \in Pending' : fr.call # "clearCurrent"
    BY <1>1, <1>3, StackLoop DEF Pending
  <2> QED  BY <2>1 DEF ClearsNone
<1>4. CASE Run
  <2> SUFFICES ASSUME NEW fr \in Pending', fr.call = "clearCurrent"
               PROVE  NoStart' /\ (Cur' = NoFolder \/ Ending')
    BY DEF ClearsNone
  <2>0. ~Idle /\ stack \in Seq(GoodFrames) /\ Len(stack) \in Nat \ {0} /\ stack # <<>>
    BY <1>1, <1>4, RunCalls, LenProperties, EmptySeq DEF Typed, Idle
  <2>1. \/ TerminateCurrentSync /\ Cur # NoFolder
        \/ fr \in Below /\ fr \in Pending
    BY <1>4, RunWaits DEF Fits
  <2>2. NoStart
    BY <2>0, <2>1 DEF ClearsNone, Progress, TerminateCurrentSync, On
  <2>3. ~Start
    <3> SUFFICES ASSUME Start  PROVE FALSE
      OBVIOUS
    <3>1. stack[1].call = "start" /\ Return
      BY DEF Start, On
    <3>2. Len(stack) = 1
      <4>1. SUFFICES ASSUME Len(stack) # 1  PROVE FALSE
        OBVIOUS
      <4>2. 1 \in 1 .. Len(stack) - 1
        <5>1. \A n \in Nat \ {0} : n # 1 => 1 \in 1 .. n - 1
          OBVIOUS
        <5> QED  BY <2>0, <4>1, <5>1
      <4> QED  BY <3>1, <4>2 DEF StartIsLast
    <3>3. Len(stack') = 0
      BY <2>0, <3>1, <3>2, Returned DEF Return
    <3> QED  BY <3>3 DEF Pending
  <2>4. NoStart'
    BY <1>4, <2>2, <2>3, RunSched, RunReadiesNone DEF NoStart
  <2>5. Cur' = Cur \/ Cur' = NoFolder
    BY <1>4, <2>2, RunSched DEF NoStart, Cur
  <2>6. CASE TerminateCurrentSync /\ Cur # NoFolder
    BY <1>4, <2>4, <2>6, EndGoesOn DEF Ending
  <2>7. CASE fr \in Pending
    <3>1. Cur = NoFolder \/ Ending
      BY <2>7 DEF ClearsNone
    <3>2. CASE Cur = NoFolder
      BY <2>4, <2>5, <3>2
    <3>3. CASE Ending /\ stack[1].call # "syncFinished"
      <4>1. Abort \/ Finalize \/ SlotSyncFinished
        BY <1>4, <3>3, HeadRuns DEF Ending
      <4> QED  BY <1>4, <2>4, <4>1, EndGoesOn DEF Ending
    <3>4. CASE stack[1].call = "syncFinished"
      <4>1. sched' = [sched EXCEPT !.cur = NoFolder] /\ sched \in Scheds
        BY <1>1, <1>4, <3>4, HeadRuns DEF SyncFinished, Typed, TypeOK, Scheds, Maps
      <4>2. sched'.cur = NoFolder
        BY <4>1 DEF Scheds
      <4> QED  BY <2>4, <4>2 DEF Cur
    <3> QED  BY <3>1, <3>2, <3>3, <3>4
  <2> QED  BY <2>1, <2>6, <2>7
<1> QED  BY <1>2, <1>3, <1>4, NextSplit

\* A folder that changes its plugin goes on to the end of its sync, and changes
\* it there.
LEMMA SwitchesAtEndStep ==
    ASSUME Basics, TerminatesAlone, Progress, SwitchesAtEnd, [Next]_vars
    PROVE  SwitchesAtEnd'
<1>1. Typed /\ net'.scenario = net.scenario /\ (Sole => Sole')
  BY ScenarioStays DEF Basics, Sole
<1>2. CASE UNCHANGED vars
  BY <1>2 DEF vars, SwitchesAtEnd, Switching, Pending, Sole, CanSync, Idle, Cur, On
<1>3. CASE LoopStep
  <2>1. Idle /\ Settled
    BY <1>1, <1>3, StackLoop DEF Progress
  <2>2. \A f \in Folders : folder[f].switch = "no"
    <3>1. Pending = {} /\ ~On("terminateCurrentSync")
      BY <2>1 DEF Idle, Pending, On
    <3> QED  BY <2>1, <3>1 DEF SwitchesAtEnd, Switching
  <2>3. ~Switching' /\ \A fr \in Pending' : fr.call # "finalizeVfsSwitch"
    BY <1>1, <1>3, StackLoop DEF Switching, Pending
  <2>4. ASSUME NEW f \in Folders, folder'[f].switch # "no"
        PROVE  /\ Sole' /\ f \in net'.scenario.folders /\ folder'[f].paused
               /\ On("terminateCurrentSync")' /\ Cur' = f
    <3>1. ChangeVfsMode(f) /\ Cur = f
      BY <1>3, <2>2, <2>4, LoopFaces
    <3>2. Sole /\ folder[f].life = "alive"
      BY <3>1 DEF ChangeVfsMode, TerminatesAlone
    <3>3. f \in net.scenario.folders
      BY <3>2, AllStay
    <3>4. folder'[f].paused
      BY <1>1, <3>1, FacesSwitched
    <3>5. Cur' = f
      BY <1>3, <2>1, <3>1, LoopSettles DEF Cur
    <3>6. stack' = <<Frame("terminateCurrentSync", f, 0), Frame("enqueueFolder", f, Low)>>
      BY <3>1 DEF ChangeVfsMode, Handle
    <3>7. On("terminateCurrentSync")'
      BY <3>6 DEF On, Frame
    <3> QED  BY <1>1, <3>2, <3>3, <3>4, <3>5, <3>7
  <2> QED  BY <2>3, <2>4 DEF SwitchesAtEnd
<1>4. CASE Run
  <2>0. ~Idle
    BY <1>1, <1>4, RunCalls
  <2>1. ASSUME NEW f \in Folders, folder'[f].switch # "no"
        PROVE  /\ Sole' /\ f \in net'.scenario.folders /\ folder'[f].paused
               /\ \/ ~Idle' /\ stack'[1].call \in {"abort", "finalize", "slotSyncFinished"}
                     /\ stack'[1].f = f
                  \/ Switching'
    <3>1. folder'[f].paused = folder[f].paused /\ folder'[f].switch = folder[f].switch
      BY <1>4, <2>1, RunFaces
    <3>2. /\ Sole /\ f \in net.scenario.folders /\ folder[f].paused
          /\ \/ On("terminateCurrentSync") /\ Cur = f
             \/ ~Idle /\ stack[1].call \in {"abort", "finalize", "slotSyncFinished"} /\ stack[1].f = f
             \/ Switching
      BY <2>1, <3>1 DEF SwitchesAtEnd
    <3> SUFFICES \/ ~Idle' /\ stack'[1].call \in {"abort", "finalize", "slotSyncFinished"}
                    /\ stack'[1].f = f
                 \/ Switching'
      BY <1>1, <3>1, <3>2
    <3>3. CASE On("terminateCurrentSync") /\ Cur = f
      <4>1. TerminateCurrentSync /\ Cur # NoFolder
        BY <1>1, <1>4, <3>3, HeadRuns, FoldersTyped DEF On
      <4> QED  BY <1>4, <3>3, <4>1, EndGoesOn
    <3>4. CASE stack[1].call \in {"abort", "finalize", "slotSyncFinished"} /\ stack[1].f = f
      <4>1. Abort \/ Finalize \/ SlotSyncFinished
        BY <1>4, <3>4, HeadRuns
      <4> QED  BY <1>4, <2>1, <3>1, <3>4, <4>1, EndGoesOn
    <3>5. CASE Switching
      <4>1. PICK fr \in Pending : fr.call = "finalizeVfsSwitch"
        BY <3>5 DEF Switching
      <4>2. fr # stack[1]
        <5> SUFFICES ASSUME fr = stack[1]  PROVE FALSE
          OBVIOUS
        <5>1. FinalizeVfsSwitch /\ stack[1].f = f
          BY <1>4, <3>2, <4>1, HeadRuns DEF SwitchesAtEnd, Sole
        <5> QED  BY <1>1, <2>1, <5>1, FacesOthers DEF Same, Kept
      <4>3. fr \in Pending'
        BY <1>1, <4>2, PendingStep
      <4> QED  BY <4>1, <4>3 DEF Switching
    <3> QED  BY <3>2, <3>3, <3>4, <3>5
  <2>2. ASSUME NEW fr \in Pending', fr.call = "finalizeVfsSwitch"
        PROVE  /\ Sole' /\ fr.f \in net'.scenario.folders /\ \A g \in Folders : ~CanSync(g)'
               /\ Cur' = NoFolder \/ On("syncFinished")'
    <3>1. CASE Fits(fr)
      <4>1. SlotSyncFinished /\ fr.f = stack[1].f /\ folder[fr.f].switch # "no"
        BY <2>2, <3>1 DEF Fits
      <4>2. fr.f \in Folders
        BY <1>1, <2>0, <4>1, HeadTyped DEF SlotSyncFinished, On, FolderCalls, Calls
      <4>3. Sole /\ fr.f \in net.scenario.folders /\ folder[fr.f].paused
        BY <4>1, <4>2 DEF SwitchesAtEnd
      <4>4. \A g \in Folders : ~CanSync(g)
        BY <4>3, AllStay DEF CanSync, Sole
      <4>5. On("syncFinished")'
        BY <1>4, <4>1, EndGoesOn DEF On, Idle
      <4> QED  BY <1>1, <1>4, <4>3, <4>4, <4>5, RunReadiesNone
    <3>2. CASE fr \in Pending
      <4>1. /\ Sole /\ fr.f \in net.scenario.folders /\ \A g \in Folders : ~CanSync(g)
            /\ Cur = NoFolder \/ On("syncFinished")
        BY <2>2, <3>2 DEF SwitchesAtEnd, Switching
      <4>2. \A g \in Folders : ~CanSync(g)'
        BY <1>4, <4>1, RunReadiesNone
      <4>3. CASE Cur = NoFolder
        BY <1>1, <1>4, <4>1, <4>2, <4>3, RunSched DEF Cur
      <4>4. CASE On("syncFinished")
        <5>1. sched' = [sched EXCEPT !.cur = NoFolder] /\ sched \in Scheds
          BY <1>1, <1>4, <4>4, HeadRuns DEF On, SyncFinished, Typed, TypeOK, Scheds, Maps
        <5>2. sched'.cur = NoFolder
          BY <5>1 DEF Scheds
        <5> QED  BY <1>1, <4>1, <4>2, <5>2 DEF Cur
      <4> QED  BY <4>1, <4>3, <4>4
    <3> QED  BY <1>4, <3>1, <3>2, RunWaits
  <2>3. Switching' => /\ Sole' /\ \A g \in Folders : ~CanSync(g)'
                      /\ Cur' = NoFolder \/ On("syncFinished")'
    BY <2>2 DEF Switching
  <2> QED  BY <2>1, <2>2, <2>3 DEF SwitchesAtEnd
<1> QED  BY <1>2, <1>3, <1>4, NextSplit

\* A call of startNext is on the stack once it is made.
LEMMA CallsStartNext ==
    ASSUME Typed, ~Idle, Call(<<Frame("startNext", NoFolder, 0)>>)
    PROVE  \E fr \in Pending' : fr.call = "startNext"
<1> DEFINE a == Frame("startNext", NoFolder, 0)
<1>1. a \in GoodFrames /\ a.call = "startNext"
  BY NullFrame DEF Calls, FolderCalls
<1>2. stack' = <<a>> \o Tail(stack) /\ stack \in Seq(GoodFrames) /\ stack # <<>>
  BY DEF Call, Typed, Idle
<1> HIDE DEF a
<1>3. stack' \in Seq(GoodFrames) /\ Len(stack') = Len(stack) /\ stack'[1] = a
  BY <1>1, <1>2, OneCall
<1>4. 1 \in 1 .. Len(stack')
  BY <1>2, <1>3, LenProperties, EmptySeq
<1>5. stack'[1] \in Pending'
  BY <1>4 DEF Pending
<1> QED  BY <1>1, <1>3, <1>5

\* A handler of the event loop at most switches the scheduler off.
LEMMA LoopSched ==
    ASSUME Basics, TerminatesAlone, LoopStep
    PROVE  /\ sched'.running => sched.running
           /\ sched.startPosted => sched'.startPosted \/ PostedStart
<1>1. sched \in Scheds
  BY DEF Basics, Typed, TypeOK, Scheds, Maps
<1>2. CASE sched' = sched \/ PostedStart
  BY <1>1, <1>2 DEF PostedStart, Scheds
<1>3. CASE sched' = [sched EXCEPT !.running = FALSE]
  BY <1>1, <1>3 DEF Scheds
<1>4. CASE SlotPropagationFinished
  BY <1>2, <1>4 DEF SlotPropagationFinished
<1>5. ASSUME NEW f \in Folders, EngineStep(f) \/ RetryTimer(f) \/ WatcherReports(f) \/ VfsStarted(f)
      PROVE  sched' = sched
  BY <1>5 DEF EngineStep, DiscoveryFinished, DiscoveryFailed, PropagationEnds, RetryTimer,
              WatcherReports, VfsStarted
<1>6. ASSUME NEW f \in Folders, (\E p \in Requests : Request(f, p)) \/ WatcherDetects(f) \/ Pause(f)
             \/ Resume(f) \/ ChangeVfsMode(f) \/ RemoveFolder(f)
      PROVE  sched' = sched
  BY <1>6 DEF Request, WatcherDetects, Pause, Resume, ChangeVfsMode, RemoveFolder
<1>7. ASSUME NEW f \in Folders, ForceSync(f)
      PROVE  sched' = [sched EXCEPT !.running = FALSE]
  BY <1>7 DEF ForceSync
<1>8. ASSUME \/ \E a \in Accounts : ServerUnsupported(a) \/ AccountReady(a) \/ AccountLost(a)
             \/ \E b \in BOOLEAN : SetPauseSyncWhenMetered(b)
             \/ ResumeAll \/ MeteredChanged
      PROVE  sched' = sched
  BY <1>8 DEF ServerUnsupported, AccountReady, AccountLost, SetPauseSyncWhenMetered, ResumeAll,
              MeteredChanged
<1>9. PauseAll => sched' = [sched EXCEPT !.running = FALSE]
  BY DEF PauseAll
<1>10. \A f \in Folders : ~Delete(f)
  BY AllStay
<1> QED  BY <1>2, <1>3, <1>4, <1>5, <1>6, <1>7, <1>8, <1>9, <1>10 DEF LoopStep, Interference

\* Whoever clears the current sync or queues a folder looks for the next one.
LEMMA WakesUpStep ==
    ASSUME Basics, TerminatesAlone, Progress, ClearsNone, WakesUp, [Next]_vars
    PROVE  WakesUp'
<1>1. Typed /\ QueueAgrees /\ sched \in Scheds
  BY DEF Basics, Typed, TypeOK, Scheds, Maps
<1>2. CASE UNCHANGED vars
  BY <1>2 DEF vars, WakesUp, Pending, Queued, Cur
<1> SUFFICES ASSUME sched'.running, Cur' = NoFolder, ~UNCHANGED vars,
                    ~sched'.startPosted, \A fr \in Pending' : fr.call # "startNext"
             PROVE  \A f \in Queued' : folder'[f].life # "alive"
  BY <1>2 DEF WakesUp
<1>3. CASE LoopStep
  <2>1. Idle /\ Pending = {}
    BY <1>1, <1>3, StackLoop DEF Idle, Pending
  <2>2. Cur = NoFolder /\ sched.running
    BY <1>3, <2>1, LoopSettles, LoopSched DEF Progress, Cur
  <2>3. ~PostedStart
    <3> SUFFICES ASSUME PostedStart  PROVE FALSE
      OBVIOUS
    <3>1. stack' = <<Frame("startNext", NoFolder, 0)>>
      BY DEF PostedStart, Handle
    <3>2. stack'[1].call = "startNext" /\ 1 \in 1 .. Len(stack')
      BY <3>1 DEF Frame
    <3> QED  BY <3>2 DEF Pending
  <2>4. \A f \in Queued : folder[f].life # "alive"
    BY <1>3, <2>1, <2>2, <2>3, LoopSched DEF WakesUp
  <2>5. Queued = {}
    BY <2>4, AllStay
  <2>6. Queued' = {}
    BY <1>1, <2>1, <2>5, QueuedStep DEF EnqueueFolder, On, Idle
  <2> QED  BY <2>6
<1>4. CASE Run
  <2>0. ~Idle
    BY <1>1, <1>4, RunCalls
  <2>1. sched.running /\ ~sched.startPosted
    BY <1>4, RunSched
  <2>2. EnqueueFolder /\ CanSync(stack[1].f) => Cur # NoFolder /\ sched'.cur = sched.cur
    <3> SUFFICES ASSUME EnqueueFolder, CanSync(stack[1].f)
                 PROVE  Cur # NoFolder /\ sched'.cur = sched.cur
      OBVIOUS
    <3>1. Busy /\ isSyncRunning(Cur) /\ sched' = Enqueued(sched, stack[1].f, stack[1].arg)
      BY <1>1, <2>0, CallsStartNext DEF EnqueueFolder
    <3>2. stack[1].f \in Folders /\ stack[1].arg \in Priorities
      BY <1>1, <2>0, HeadTyped DEF EnqueueFolder, On
    <3> QED  BY <1>1, <3>1, <3>2, EnqueuedKeeps DEF Busy
  <2>3. ~SyncFinished
    BY <1>1, <2>0, CallsStartNext DEF SyncFinished, AfterSync
  <2>4. ClearCurrent => Cur = NoFolder
    <3> SUFFICES ASSUME ClearCurrent  PROVE Cur = NoFolder
      OBVIOUS
    <3>1. stack[1].call = "clearCurrent" /\ stack \in Seq(GoodFrames) /\ stack # <<>>
      BY <1>1 DEF ClearCurrent, On, Typed
    <3>2. stack[1] \in Pending
      BY <3>1, LenProperties, EmptySeq DEF Pending
    <3> QED  BY <3>1, <3>2 DEF ClearsNone, Ending
  <2>5. Cur = NoFolder
    <3>1. CASE sched'.cur = sched.cur
      BY <3>1 DEF Cur
    <3>2. CASE EnqueueFolder /\ ~CanSync(stack[1].f)
      BY <3>2 DEF EnqueueFolder, Cur
    <3>3. Cur' # NoFolder \/ sched'.cur \notin Folders
      BY <1>1, FoldersTyped DEF Cur
    <3> QED  BY <1>1, <1>4, <2>2, <2>3, <2>4, <3>1, <3>2, RunSched, FoldersTyped DEF Cur
  <2>6. Queued = {}
    <3> SUFFICES ASSUME Queued # {}  PROVE FALSE
      OBVIOUS
    <3>1. PICK fr \in Pending : fr.call = "startNext"
      BY <2>1, <2>5, AllStay DEF WakesUp
    <3>2. fr = stack[1]
      BY <1>1, <3>1, PendingStep
    <3>3. StartNext
      BY <1>4, <3>1, <3>2, HeadRuns
    <3>4. sched.queue # {}
      BY <1>1 DEF QueueAgrees
    <3>5. PICK e \in Tops(sched) :
            LET f == e[1]
                s == Popped(sched, e)
            IN CASE folder[f].life = "deleted" ->
                      /\ sched' = s /\ UNCHANGED folder
                      /\ Call(<<Frame("popIgnored", NoFolder, 0), stack[1]>>)
                 [] folder[f].life # "deleted" /\ ~CanSync(f) ->
                      sched' = Declined(sched, e) /\ UNCHANGED <<folder, stack>>
                 [] CanSync(f) /\ net.pause /\ net.metered /\ e[2] # High ->
                      /\ sched' = [s EXCEPT !.cur = f] /\ UNCHANGED folder
                      /\ Call(<<Frame("enqueueFolder", f, e[2])>>)
                 [] OTHER ->
                      /\ sched' = [s EXCEPT !.cur = f]
                      /\ folder' = [folder EXCEPT ![f].listeners =
                                      IF @ < MaxListeners THEN @ + 1 ELSE @]
                      /\ Call(<<Frame("startSync", f, 0)>>)
      BY <2>1, <2>5, <3>3, <3>4 DEF StartNext, Busy
    <3>6. e \in sched.queue /\ e[1] \in Queued /\ Popped(sched, e) \in Scheds
      BY <1>1, <3>5, PoppedAgrees DEF Tops, QueueAgrees, AgreesIn, Queued
    <3>7. folder[e[1]].life = "alive" /\ e[1] \in Folders
      BY <3>6, AllStay
    <3>8. CanSync(e[1])
      <4> SUFFICES ASSUME ~CanSync(e[1])  PROVE FALSE
        OBVIOUS
      <4>1. stack' = stack
        BY <3>5, <3>7
      <4> QED  BY <3>1, <4>1 DEF Pending
    <3>9. sched' = [Popped(sched, e) EXCEPT !.cur = e[1]]
      BY <3>5, <3>7, <3>8
    <3>10. sched'.cur = e[1]
      BY <3>6, <3>9 DEF Scheds
    <3> QED  BY <1>1, <3>7, <3>10, FoldersTyped DEF Cur
  <2>7. Queued' = {}
    BY <1>1, <2>2, <2>5, <2>6, QueuedStep
  <2> QED  BY <2>7
<1> QED  BY <1>3, <1>4, NextSplit

----------------------------------------------------------------------------
\* The invariant, and what it says between two handlers.

LEMMA ProgressStep ==
    ASSUME Basics, TerminatesAlone, Order, [Next]_vars
    PROVE  Progress'
<1>1. Progress /\ StartIsLast /\ ClearsNone /\ SwitchesAtEnd
  BY DEF Order
<1>2. CASE UNCHANGED vars
  <2>1. /\ stack' = stack /\ Settled' = Settled /\ NoStart' = NoStart /\ Nothing' = Nothing
        /\ NoneSyncs' = NoneSyncs /\ Cur' = Cur
        /\ \A f : /\ Stopped(f)' = Stopped(f) /\ Runs(f)' = Runs(f) /\ CanSync(f)' = CanSync(f)
                  /\ Syncing(f)' = Syncing(f) /\ Starting(f)' = Starting(f)
                  /\ isSyncRunning(f)' = isSyncRunning(f)
    BY <1>2 DEF vars, Settled, NoStart, Nothing, NoneSyncs, Cur, Stopped, Runs, Syncing, Shown,
                Starting, isSyncRunning, CanSync, Alone, Silent
  <2>2. Syncing(Cur)' = Syncing(Cur)
    BY <1>2 DEF vars, Syncing, Runs, Alone, Silent, isSyncRunning, Cur
  <2>3. stack' # <<>> /\ 2 \in 1 .. Len(stack') =>
          Stopped(stack[2].f)' = Stopped(stack[2].f) /\ Starting(stack[2].f)' = Starting(stack[2].f)
    BY <1>2 DEF vars, Stopped, Starting, Alone, Silent, isSyncRunning, Cur
  <2>4. stack' # <<>> =>
          LET f == stack[1].f IN
            /\ Syncing(f)' = Syncing(f) /\ Runs(f)' = Runs(f) /\ Stopped(f)' = Stopped(f)
            /\ CanSync(f)' = CanSync(f) /\ isSyncRunning(f)' = isSyncRunning(f)
            /\ Starting(f)' = Starting(f)
    BY <1>2 DEF vars, Syncing, Runs, Stopped, Starting, Alone, Silent, isSyncRunning, CanSync, Cur
  <2>5. Idle' = Idle /\ Below' = Below
    BY <2>1 DEF Idle, Below
  <2>6. Idle => (Progress => Progress')
    BY <2>1, <2>5 DEF Progress
  <2>7. ~Idle => (Progress => Progress')
    BY <2>1, <2>2, <2>3, <2>4, <2>5 DEF Progress, Idle
  <2> QED  BY <1>1, <2>6, <2>7
<1>3. CASE LoopStep
  BY <1>1, <1>3, LoopProgress
<1>4. CASE Run
  <2>1. CASE EnqueueFolder \/ StartNext \/ TerminateCurrentSync \/ StartSync \/ EngineStart
    BY <1>1, <2>1, EnqueueProgress, StartNextProgress, TerminateProgress, StartSyncProgress,
       EngineStartProgress
  <2>2. CASE PopIgnored \/ ClearCurrent \/ Start \/ ResetEngine \/ FollowUp
    BY <1>1, <2>2, QuietProgress
  <2>3. CASE Abort \/ Finalize \/ SlotSyncFinished \/ SyncFinished \/ FinalizeVfsSwitch
    BY <1>1, <2>3, AbortProgress, FinalizeProgress, SlotSyncFinishedProgress,
       SyncFinishedProgress, FinalizeVfsSwitchProgress
  <2> QED  BY <1>4, <2>1, <2>2, <2>3, AllStay DEF Run
<1> QED  BY <1>2, <1>3, <1>4, NextSplit

\* That invariant holds at the start.
LEMMA AloneInit == Init => AloneIInv
<1> SUFFICES ASSUME Init  PROVE Order /\ WakesUp
  BY DEF AloneIInv
<1>1. Idle /\ Pending = {} /\ Below = {} /\ Cur = NoFolder /\ ~sched.running /\ Len(stack) = 0
  BY DEF Init, Idle, Pending, Below, Cur
<1>2. \A f \in Folders : Silent(f) /\ folder[f].switch = "no"
  BY DEF Init, Silent, isSyncRunning
<1>3. Progress
  BY <1>1, <1>2 DEF Progress, Settled, Nothing, NoneSyncs
<1>4. StartIsLast /\ ClearsNone /\ SwitchesAtEnd /\ WakesUp
  BY <1>1, <1>2 DEF StartIsLast, ClearsNone, SwitchesAtEnd, Switching, WakesUp
<1> QED  BY <1>3, <1>4 DEF Order

\* The invariant of the scheduler, whatever may befall the current sync.
LEMMA IInvStep ==
    ASSUME IInv, [Next]_vars
    PROVE  IInv'
<1>1. Basics /\ Basics' /\ Typed
  BY BasicsStep DEF IInv, Basics
<1>2. TerminatesAlone' => TerminatesAlone
  BY <1>1, ScenarioStays DEF TerminatesAlone, Sole, Operations
<1>3. ASSUME TerminatesAlone'  PROVE Order' /\ WakesUp'
  <2>1. TerminatesAlone /\ Order /\ WakesUp
    BY <1>2, <1>3 DEF IInv, AloneIInv
  <2> QED  BY <1>1, <2>1, ProgressStep, StartIsLastStep, ClearsNoneStep, SwitchesAtEndStep,
              WakesUpStep DEF Order
<1> QED  BY <1>1, <1>3 DEF IInv, AloneIInv

\* The whole invariant holds in every reachable state.
LEMMA InvariantHolds == Spec => []IInv
<1>1. Init => IInv
  BY BasicsInit, AloneInit DEF IInv
<1>2. IInv /\ [Next]_vars => IInv'
  BY IInvStep
<1> QED  BY <1>1, <1>2, PTL DEF Spec

\* One folder syncs at a time: where a sync is terminated while no other folder
\* can begin one, the engine that runs is always that of the current sync, and
\* its folder shows it (SyncScheduler::startNext, terminateCurrentSync).
THEOREM OneFolderSyncs == Spec => []OnlyCurrentSyncs
<1>1. IInv => OnlyCurrentSyncs
  <2> SUFFICES ASSUME IInv, Idle, TerminatesAlone, NEW f \in Folders
               PROVE  /\ engine[f].running => Cur = f
                      /\ Cur = f => engine[f].running /\ isSyncRunning(f)
    BY DEF OnlyCurrentSyncs
  <2>1. Settled /\ NoFolder \notin Folders
    BY SchedulerAssumption DEF IInv, AloneIInv, Order, Progress
  <2> QED  BY <2>1 DEF Settled, Nothing, NoneSyncs, Silent, Shown, Syncing, Runs, Alone
<1> QED  BY <1>1, InvariantHolds, PTL

\* No lost wake-up: in the same scenarios a scheduler that is switched on and has
\* no current sync has nothing to do or a start on its way (enqueueFolder, start
\* and the slot of syncFinished all look for the next one).
THEOREM WakesUpAlways == Spec => [](TerminatesAlone => NoLostWakeUp)
<1>1. IInv => (TerminatesAlone => NoLostWakeUp)
  <2> SUFFICES ASSUME IInv, TerminatesAlone, Idle, sched.running, Cur = NoFolder
               PROVE  sched.startPosted \/ \A f \in Queued : folder[f].life # "alive"
    BY DEF NoLostWakeUp
  <2>1. WakesUp /\ Pending = {}
    BY DEF IInv, AloneIInv, Idle, Pending
  <2> QED  BY <2>1 DEF WakesUp
<1> QED  BY <1>1, InvariantHolds, PTL
=============================================================================
