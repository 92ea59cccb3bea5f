--------------------------- MODULE FileSyncProofs ---------------------------
(* What holds of the synchronization of one file, whatever is interrupted,  *)
(* lost or written meanwhile: no run decides to overwrite or remove a side  *)
(* that changed on its own, no file is made up of two versions, and the     *)
(* journal never calls two different files the same.                        *)
(***************************************************************************)
EXTENDS FileSync, ReconciliationProofs, FiniteSetTheorems

(* What every step keeps: the rows and what a run has listed are of a file, *)
(* and a run that takes the journal for the folder lists nothing of it.     *)
RowsFine(rows) ==
    {"db", "down", "up", "black"} \subseteq DOMAIN rows /\ AFile(rows.db)

SeenFile(entry) == entry = Unread \/ AFile(entry)

RunFine(r) ==
    /\ {"at", "mode", "seen"} \subseteq DOMAIN r
    /\ {"local", "server"} \subseteq DOMAIN r.seen
    /\ SeenFile(r.seen.local) /\ SeenFile(r.seen.server)
    /\ r.at = "listing" /\ r.mode = "parentNotChanged" => r.seen.local = None

RunsFine == RunFine(run) /\ RowsFine(journal) /\ RowsFine(saved)

------------------------------------------------------------------------------
(* The rows of a file under what the actions do to them. *)
LEMMA RowsChanged ==
    ASSUME NEW rows, RowsFine(rows), NEW x
    PROVE  /\ RowsFine([rows EXCEPT !.down = x])
           /\ RowsFine([rows EXCEPT !.up = x])
           /\ RowsFine([rows EXCEPT !.black = x])
           /\ RowsFine([rows EXCEPT !.db = None])
BY DEF RowsFine, AFile

LEMMA RecordedFine ==
    ASSUME NEW rows, RowsFine(rows), NEW item
    PROVE  RowsFine(Recorded(item, rows))
BY DEF RowsFine, AFile, Recorded, Record

LEMMA ForgivingFine ==
    ASSUME NEW rows, RowsFine(rows)
    PROVE  RowsFine(Forgiving(rows))
BY DEF RowsFine, AFile, Forgiving

LEMMA IdleFine == RunFine(Idle) /\ Idle.at = "idle"
BY DEF RunFine, SeenFile, Idle

LEMMA EndingFine == RunFine(Ending) /\ Ending.at = "ending"
BY DEF RunFine, SeenFile, Ending, Idle

LEMMA DoneFine ==
    ASSUME NEW status, NEW item, NEW http, NEW rows, RowsFine(rows), Done(status, item, http, rows)
    PROVE  RowsFine(journal') /\ RunFine(run')
BY EndingFine, RowsChanged DEF Done

LEMMA FailsFine ==
    ASSUME RunsFine, NEW status, NEW rows, RowsFine(rows), Fails(status, rows)
    PROVE  RunsFine'
BY DoneFine DEF Fails, RunsFine

LEMMA BreaksFine ==
    ASSUME RunsFine, NEW rows, RowsFine(rows), Breaks(rows)
    PROVE  RunsFine'
BY DoneFine DEF Breaks, RunsFine

LEMMA ContinueFine ==
    ASSUME RunsFine, NEW point, point # "listing", Continue(point)
    PROVE  RunsFine'
BY DEF Continue, RunsFine, RunFine

------------------------------------------------------------------------------
(* What no step of a run is. *)
LEMMA UsersFine ==
    ASSUME RunsFine, Users
    PROVE  RunsFine' /\ run' = run
BY DEF Users, LocalWrite, LocalTouch, LocalDelete, RemoteWrite, RemoteDelete, World, RunsFine

LEMMA OthersFine ==
    ASSUME RunsFine, Commit \/ Tick \/ Unlocked \/ Calm \/ Expire
    PROVE  RunsFine' /\ run' = run
<1>1. Commit \/ Calm \/ Expire => RunsFine' /\ run' = run
  BY DEF Commit, Calm, Expire, RunsFine
<1>2. Tick => RunsFine' /\ run' = run
  BY DEF Tick, RunsFine, RowsFine, AFile
<1>3. Unlocked => RunsFine' /\ run' = run
  BY ForgivingFine DEF Unlocked, RunsFine
<1>. QED  BY <1>1, <1>2, <1>3

LEMMA CrashFine ==
    ASSUME RunsFine, Crash
    PROVE  RunsFine' /\ run'.at # "started"
BY ForgivingFine, IdleFine DEF Crash, RunsFine

LEMMA AbortFine ==
    ASSUME RunsFine, Abort
    PROVE  RunsFine' /\ run'.at # "started"
BY IdleFine, EndingFine DEF Abort, RunsFine

(* Discovery: what was listed stays, and the decision spares both sides. *)
LEMMA DiscoveryFine ==
    ASSUME RunsFine, Discovery, ~Decide
    PROVE  RunsFine' /\ run'.at # "started"
<1>1. ASSUME NEW mode \in {"normal", "parentNotChanged"}, StartRun(mode)
      PROVE  RunsFine' /\ run'.at # "started"
  <2>1. run'.at = "listing" /\ {"at", "mode", "seen"} \subseteq DOMAIN run' /\ run'.mode = mode
    BY <1>1 DEF StartRun, Idle
  <2>2. /\ {"local", "server"} \subseteq DOMAIN run'.seen
        /\ run'.seen.local = (IF mode = "normal" THEN Unread ELSE None)
        /\ run'.seen.server = Unread
    BY <1>1 DEF StartRun, Idle
  <2>3. RunFine(run') BY <1>1, <2>1, <2>2 DEF RunFine, SeenFile, AFile
  <2>. QED  BY <1>1, <2>1, <2>3 DEF RunsFine, StartRun
<1>2. ASSUME ListLocal
      PROVE  RunsFine' /\ run'.at # "started"
  <2>1. SeenFile(LocalInfo) BY DEF SeenFile, AFile, LocalInfo
  <2>2. /\ run'.at = "listing" /\ {"at", "mode", "seen"} \subseteq DOMAIN run'
        /\ run'.mode = "normal"
        /\ {"local", "server"} \subseteq DOMAIN run'.seen
        /\ run'.seen.local = LocalInfo /\ run'.seen.server = run.seen.server
    BY <1>2 DEF ListLocal, At, RunsFine, RunFine
  <2>3. RunFine(run') BY <2>1, <2>2 DEF RunFine, RunsFine
  <2>. QED  BY <1>2, <2>2, <2>3 DEF RunsFine, ListLocal
<1>3. ASSUME ListServer
      PROVE  RunsFine' /\ run'.at # "started"
  <2>1. SeenFile(RemoteInfo) BY DEF SeenFile, AFile, RemoteInfo
  <2>2. /\ run'.at = "listing" /\ {"at", "mode", "seen"} \subseteq DOMAIN run'
        /\ run'.mode = run.mode
        /\ {"local", "server"} \subseteq DOMAIN run'.seen
        /\ run'.seen.local = run.seen.local /\ run'.seen.server = RemoteInfo
    BY <1>3 DEF ListServer, At, RunsFine, RunFine
  <2>3. RunFine(run') BY <1>3, <2>1, <2>2 DEF RunFine, RunsFine, ListServer, At
  <2>. QED  BY <1>3, <2>2, <2>3 DEF RunsFine, ListServer
<1>4. ASSUME EndRun
      PROVE  RunsFine' /\ run'.at # "started"
  BY <1>4, IdleFine DEF EndRun, RunsFine
<1>. QED  BY <1>1, <1>2, <1>3, <1>4 DEF Discovery

LEMMA DecideFine ==
    ASSUME RunsFine, Decide
    PROVE  /\ RunsFine'
           /\ run'.at = "started" =>
                NoVictim(run.seen.local, run.seen.server, journal.db, journal.up, run'.item)
<1> DEFINE found == Discovered
           isItem == found.instruction \notin {"NONE", "STALE"}
           entry == IF isItem THEN journal.black ELSE None
           item  == IF CheckErrorBlacklisting(found, entry)
                    THEN [found EXCEPT !.instruction = "IGNORE"] ELSE found
           rows  == [db    |-> IF found.instruction = "STALE" THEN None ELSE journal.db,
                     down  |-> Needed(journal.down, item, "Down"),
                     up    |-> Needed(journal.up, item, "Up"),
                     black |-> entry]
           query == [local |-> run.mode, server |-> "normal"]
<1>1. /\ run' = IF isItem THEN [Idle EXCEPT !.at = "started", !.item = item, !.entry = entry]
                ELSE Ending
      /\ journal' = rows /\ saved' = rows
  BY DEF Decide
<1>2. /\ AFile(run.seen.local) /\ AFile(run.seen.server) /\ AFile(journal.db)
      /\ Listed(query, run.seen.local)
  <2>1. run.seen.local # Unread /\ run.seen.server # Unread /\ run.at = "listing"
    BY DEF Decide, At
  <2>. QED  BY <2>1 DEF RunsFine, RunFine, RowsFine, SeenFile, Listed
<1>3. NoVictim(run.seen.local, run.seen.server, journal.db, journal.up, found)
  BY <1>2, ProcessFileSpares DEF Discovered
<1> HIDE DEF found, query
<1>4. RowsFine(rows) BY <1>2 DEF RowsFine, AFile
<1>5. NoVictim(run.seen.local, run.seen.server, journal.db, journal.up, item)
  <2>1. ASSUME NEW f, NoVictim(run.seen.local, run.seen.server, journal.db, journal.up, f)
        PROVE  NoVictim(run.seen.local, run.seen.server, journal.db, journal.up,
                        [f EXCEPT !.instruction = "IGNORE"])
    BY <2>1 DEF NoVictim
  <2>. QED  BY <1>3, <2>1
<1> HIDE DEF rows, item, isItem, entry
<1>6. RunFine(run')
  <2>1. RunFine([Idle EXCEPT !.at = "started", !.item = item, !.entry = entry])
    BY DEF RunFine, Idle, SeenFile
  <2>. QED  BY <1>1, <2>1, EndingFine
<1>7. run'.at = "started" => run'.item = item
  <2>1. [Idle EXCEPT !.at = "started", !.item = item, !.entry = entry].item = item
    BY DEF Idle
  <2>. QED  BY <1>1, <2>1, EndingFine
<1>. QED  BY <1>1, <1>4, <1>5, <1>6, <1>7 DEF RunsFine

------------------------------------------------------------------------------
(* The jobs: they work on an item, never on a listing. *)
AtItem == run.at # "listing"

LEMMA SimpleJobsFine ==
    ASSUME RunsFine, PropagateIgnore \/ PropagateUpdateMetaData \/ Removal \/ RemoteDeleteUnanswered
    PROVE  RunsFine' /\ AtItem
<1>1. PropagateIgnore => RunsFine' /\ AtItem
  BY FailsFine DEF PropagateIgnore, Starts, At, AtItem, RunsFine
<1>2. PropagateUpdateMetaData => RunsFine' /\ AtItem
  BY DoneFine, RecordedFine DEF PropagateUpdateMetaData, Starts, At, AtItem, RunsFine
<1>3. RowsFine(RemovedRows)
  BY RowsChanged DEF RemovedRows, RunsFine
<1>4. Finishes("Success", RemovedRows) => RunsFine'
  BY <1>3, DoneFine DEF Finishes, RunsFine
<1>5. Removal => RunsFine' /\ AtItem
  BY <1>4 DEF Removal, PropagateLocalRemove, PropagateRemoteDelete, Starts, At, AtItem
<1>6. RemoteDeleteUnanswered => RunsFine' /\ AtItem
  BY BreaksFine DEF RemoteDeleteUnanswered, Starts, At, AtItem, RunsFine
<1>. QED  BY <1>1, <1>2, <1>5, <1>6

(* The rows of a download that ended, and of one whose part is kept or not. *)
LEMMA FinishDownloadFine ==
    ASSUME RunsFine, NEW item, NEW status, FinishDownload(item, status)
    PROVE  RunsFine'
BY RecordedFine, RowsChanged, DoneFine DEF FinishDownload, RunsFine

LEMMA DownloadFine ==
    ASSUME RunsFine, Download \/ GetFails \/ GetBreaksOff \/ LockedFile
    PROVE  RunsFine' /\ AtItem
<1>1. ConflictChecksumComputed \/ StartOther => RunsFine' /\ AtItem
  BY ContinueFine DEF ConflictChecksumComputed, StartOther, IsDownload, Starts, At, AtItem
<1>2. Touch => RunsFine' /\ AtItem
  BY FinishDownloadFine DEF Touch, At, AtItem
<1>3. StartDownload => RunsFine' /\ AtItem
  <2>1. RowsFine([journal EXCEPT !.down = [etag |-> run.item.etag]])
    BY RowsChanged DEF RunsFine
  <2>2. StartDownload => RunFine(run') BY DEF StartDownload, RunsFine, RunFine
  <2>. QED  BY <2>1, <2>2 DEF StartDownload, RunsFine, At, AtItem
<1>4. Get => RunsFine' /\ AtItem
  BY DEF Get, RunsFine, RunFine, At, AtItem
<1>5. GetNotFound => RunsFine' /\ AtItem
  BY RowsChanged, DoneFine DEF GetNotFound, RunsFine, At, AtItem
<1>6. GetRefused => RunsFine' /\ AtItem
  BY RowsChanged, DoneFine DEF GetRefused, RunsFine, At, AtItem
<1>7. GetFails => RunsFine' /\ AtItem
  BY RowsChanged, BreaksFine DEF GetFails, RunsFine, At, AtItem
<1>8. GetBreaksOff => RunsFine' /\ AtItem
  BY BreaksFine DEF GetBreaksOff, RunsFine, At, AtItem
<1>9. ChecksumFail => RunsFine' /\ AtItem
  BY DoneFine DEF ChecksumFail, RunsFine, At, AtItem
<1>10. CreateConflict => RunsFine' /\ AtItem
  BY DEF CreateConflict, RunsFine, RunFine, At, AtItem
<1>11. RefuseToReplace \/ RenameFails => RunsFine' /\ AtItem
  BY FailsFine DEF RefuseToReplace, RenameFails, RunsFine, At, AtItem
<1>12. DownloadFinished \/ RemoveTarget \/ RenameTmp => RunsFine' /\ AtItem
  BY ContinueFine DEF DownloadFinished, RemoveTarget, RenameTmp, At, AtItem
<1>13. UpdateMetadata => RunsFine' /\ AtItem
  BY FinishDownloadFine DEF UpdateMetadata, At, AtItem
<1>14. LockedFile => RunsFine' /\ AtItem
  BY FailsFine DEF LockedFile, Locked, RunsFine, AtItem
<1>. QED  BY <1>1, <1>2, <1>3, <1>4, <1>5, <1>6, <1>7, <1>8, <1>9, <1>10, <1>11, <1>12,
             <1>13, <1>14 DEF Download

LEMMA ChunkFinishedFine ==
    ASSUME RunsFine, NEW rows, RowsFine(rows), ChunkFinished(rows)
    PROVE  RunsFine'
<1>1. CASE StillThere
  <2>1. RunFine(run') BY <1>1 DEF ChunkFinished, RunsFine, RunFine
  <2>. QED  BY <1>1, <2>1 DEF ChunkFinished, RunsFine
<1>2. CASE ~StillThere
  <2>1. RowsFine(journal') /\ RunFine(run') BY <1>2, DoneFine DEF ChunkFinished, RunsFine
  <2>. QED  BY <2>1 DEF ChunkFinished, RunsFine
<1>. QED  BY <1>1, <1>2

LEMMA UploadFine ==
    ASSUME RunsFine, Upload \/ UploadUnanswered \/ PatchUnanswered \/ QueryFails
    PROVE  RunsFine' /\ AtItem
<1>1. ComputeContentChecksum => RunsFine' /\ AtItem
  BY DEF ComputeContentChecksum, IsUpload, Starts, RunsFine, RunFine, At, AtItem
<1>2. LocalFileChanged => RunsFine' /\ AtItem
  BY FailsFine DEF LocalFileChanged, RunsFine, At, AtItem
<1>3. StartUpload => RunsFine' /\ AtItem
  BY DEF StartUpload, RunsFine, RunFine, At, AtItem
<1>4. ASSUME NEW etag, Answered(etag)
      PROVE  RunFine(run')
  BY <1>4 DEF Answered, RunsFine, RunFine
<1>5. Put \/ Patch => RunsFine' /\ AtItem
  BY <1>4 DEF Put, Patch, Patched, RunsFine, At, AtItem
<1>6. PreconditionFailed => RunsFine' /\ AtItem
  BY DoneFine DEF PreconditionFailed, RunsFine, AtItem
<1>7. RowsFine(ForgottenUpload) BY RowsChanged DEF ForgottenUpload, RunsFine
<1>8. ChecksumMismatch => RunsFine' /\ AtItem
  BY <1>7, DoneFine DEF ChecksumMismatch, RunsFine, At, AtItem
<1>9. UploadUnanswered \/ QueryFails => RunsFine' /\ AtItem
  BY BreaksFine DEF UploadUnanswered, QueryFails, RunsFine, At, AtItem
<1>10. Post => RunsFine' /\ AtItem
  BY RowsChanged, ChunkFinishedFine DEF Post, RunsFine, At, AtItem
<1>11. PatchUnanswered => RunsFine' /\ AtItem
  BY ContinueFine, BreaksFine DEF PatchUnanswered, RunsFine, At, AtItem
<1>12. PatchFails => RunsFine' /\ AtItem
  BY FailsFine, DoneFine DEF PatchFails, RunsFine, At, AtItem
<1>13. Head => RunsFine' /\ AtItem
  BY ChunkFinishedFine DEF Head, RunsFine, At, AtItem
<1>14. RestartUpload => RunsFine' /\ AtItem
  <2>1. RestartUpload => RowsFine(journal') /\ RowsFine(saved')
    BY <1>7, DoneFine DEF RestartUpload, RunsFine
  <2>2. RestartUpload => RunFine(run')
    BY <1>7, DoneFine DEF RestartUpload, RunsFine, RunFine
  <2>. QED  BY <2>1, <2>2 DEF RestartUpload, RunsFine, At, AtItem
<1>15. QueryEtag => RunsFine' /\ AtItem
  <2>1. QueryEtag /\ server = None => RunsFine' BY FailsFine DEF QueryEtag, RunsFine
  <2>2. QueryEtag /\ server # None => RunsFine' BY DEF QueryEtag, RunsFine, RunFine
  <2>. QED  BY <2>1, <2>2 DEF QueryEtag, At, AtItem
<1>16. Finalize => RunsFine' /\ AtItem
  <2>1. RowsFine([Recorded(run.item, journal) EXCEPT !.up = None])
    BY RecordedFine, RowsChanged DEF RunsFine
  <2>. QED  BY <2>1, DoneFine DEF Finalize, RunsFine, At, AtItem
<1>. QED  BY <1>1, <1>2, <1>3, <1>5, <1>6, <1>8, <1>9, <1>10, <1>11, <1>12, <1>13, <1>14,
             <1>15, <1>16 DEF Upload

------------------------------------------------------------------------------
(* A step either keeps what was found about the file and spares both sides.  *)
SparesFiles ==
    At("listing") /\ run'.at = "started" =>
        NoVictim(run.seen.local, run.seen.server, journal.db, journal.up, run'.item)

LEMMA StepFine ==
    ASSUME RunsFine, [Next]_vars
    PROVE  RunsFine' /\ SparesFiles
<1>1. CASE UNCHANGED vars
  BY <1>1 DEF vars, RunsFine, SparesFiles, At
<1>2. CASE Users
  BY <1>2, UsersFine DEF SparesFiles, At
<1>3. CASE Commit \/ Tick \/ Unlocked \/ Calm \/ Expire
  BY <1>3, OthersFine DEF SparesFiles, At
<1>4. CASE Crash \/ Abort
  BY <1>4, CrashFine, AbortFine DEF SparesFiles
<1>5. CASE Discovery
  BY <1>5, DiscoveryFine, DecideFine DEF SparesFiles
<1>6. CASE PropagateIgnore \/ PropagateUpdateMetaData \/ Removal \/ RemoteDeleteUnanswered
  BY <1>6, SimpleJobsFine DEF SparesFiles, At, AtItem
<1>7. CASE Download \/ GetFails \/ GetBreaksOff \/ LockedFile
  BY <1>7, DownloadFine DEF SparesFiles, At, AtItem
<1>8. CASE Upload \/ UploadUnanswered \/ PatchUnanswered \/ QueryFails
  BY <1>8, UploadFine DEF SparesFiles, At, AtItem
<1>. QED  BY <1>1, <1>2, <1>3, <1>4, <1>5, <1>6, <1>7, <1>8 DEF Next, Job, Fault

LEMMA InitFine == Init => RunsFine
<1>. SUFFICES ASSUME Init PROVE RunsFine OBVIOUS
<1>1. RowsFine(journal) BY DEF Init, NoFile, RowsFine, AFile
<1>. QED  BY <1>1, IdleFine DEF Init, RunsFine

(* For any contents, faults, permissions and times: a decision neither       *)
(* overwrites nor removes a side of the file that changed on its own         *)
(* (processFile and checkErrorBlacklisting).                                 *)
THEOREM DecisionsSpare == Spec => ChoosesNoVictim
<1>1. RunsFine /\ [Next]_vars => RunsFine' BY StepFine
<1>2. RunsFine /\ [Next]_vars =>
        [At("listing") /\ run'.at = "started" =>
          NoVictim(run.seen.local, run.seen.server, journal.db, journal.up, run'.item)]_vars
  BY StepFine DEF SparesFiles
<1>. QED  BY InitFine, <1>1, <1>2, PTL DEF Spec, ChoosesNoVictim

------------------------------------------------------------------------------
(* A fresh etag is one nobody remembers. *)
Single(X) == X = {} \/ \E e : X = {e}

LEMMA OneMore ==
    ASSUME NEW k \in Nat, NEW S, IsFiniteSet(S), Cardinality(S) =< k, NEW X, Single(X)
    PROVE  IsFiniteSet(S \union X) /\ Cardinality(S \union X) =< k + 1
<1>0. Cardinality(S) \in Nat
  BY FS_CardinalityType
<1>1. CASE X = {}
  <2>1. S \union X = S BY <1>1
  <2>2. Cardinality(S) =< k + 1 BY <1>0
  <2>. QED  BY <2>1, <2>2
<1>2. CASE X # {}
  <2>1. PICK e : X = {e} BY <1>2 DEF Single
  <2>2. /\ IsFiniteSet(S \union {e})
        /\ Cardinality(S \union {e}) =
             IF e \in S THEN Cardinality(S) ELSE Cardinality(S) + 1
    BY FS_AddElement
  <2>3. Cardinality(S \union {e}) =< k + 1
    BY <1>0, <2>2
  <2>. QED  BY <2>1, <2>2, <2>3
<1>. QED  BY <1>1, <1>2

LEMMA FiveMore ==
    ASSUME NEW k \in Nat, NEW S, IsFiniteSet(S), Cardinality(S) =< k,
           NEW A, NEW B, NEW C, NEW D, NEW E,
           Single(A), Single(B), Single(C), Single(D), Single(E)
    PROVE  LET T == S \union A \union B \union C \union D \union E
           IN  IsFiniteSet(T) /\ Cardinality(T) =< k + 5
<1> DEFINE SA == S \union A
           SB == SA \union B
           SC == SB \union C
           SD == SC \union D
<1>1. IsFiniteSet(SA) /\ Cardinality(SA) =< k + 1
  BY OneMore
<1> HIDE DEF SA
<1>2. IsFiniteSet(SB) /\ Cardinality(SB) =< (k + 1) + 1
  BY <1>1, OneMore
<1> HIDE DEF SB
<1>3. IsFiniteSet(SC) /\ Cardinality(SC) =< ((k + 1) + 1) + 1
  BY <1>2, OneMore
<1> HIDE DEF SC
<1>4. IsFiniteSet(SD) /\ Cardinality(SD) =< (((k + 1) + 1) + 1) + 1
  BY <1>3, OneMore
<1> HIDE DEF SD
<1>5. IsFiniteSet(SD \union E) /\ Cardinality(SD \union E) =< ((((k + 1) + 1) + 1) + 1) + 1
  BY <1>4, OneMore
<1>6. ((((k + 1) + 1) + 1) + 1) + 1 = k + 5
  OBVIOUS
<1>. QED  BY <1>5, <1>6 DEF SA, SB, SC, SD

(* Of ten etags that are remembered there is another one. *)
LEMMA FreshEtagIsFresh == FreshEtag \in Etags /\ FreshEtag \notin Remembered
<1> DEFINE item == IF AtWork THEN {run.item.etag} ELSE {}
           seen == IF run.seen.server = Unread THEN {} ELSE EtagOf(run.seen.server)
           five == {} \union {run.etag} \union item \union seen \union EtagOf(server)
                     \union EtagOf(journal.db)
           ten  == five \union EtagOf(journal.down) \union EtagOf(journal.black)
                     \union EtagOf(saved.db) \union EtagOf(saved.down) \union EtagOf(saved.black)
<1>1. /\ Single({run.etag}) /\ Single(item) /\ Single(seen)
      /\ \A x : Single(EtagOf(x))
  BY DEF Single, EtagOf
<1>2. Remembered = ten
  BY DEF Remembered
<1> HIDE DEF item, seen
<1>3. IsFiniteSet(five) /\ Cardinality(five) =< 0 + 5
  <2>1. IsFiniteSet({}) /\ Cardinality({}) =< 0
    BY FS_EmptySet
  <2>. QED  BY <1>1, <2>1, FiveMore
<1> HIDE DEF five
<1>4. IsFiniteSet(ten) /\ Cardinality(ten) =< 5 + 5
  <2> DEFINE a == EtagOf(journal.down)
             b == EtagOf(journal.black)
             c == EtagOf(saved.db)
             d == EtagOf(saved.down)
             e == EtagOf(saved.black)
             all == five \union a \union b \union c \union d \union e
  <2>1. Single(a) /\ Single(b) /\ Single(c) /\ Single(d) /\ Single(e)
    BY <1>1
  <2>2. IsFiniteSet(five) /\ Cardinality(five) =< 5 /\ 5 \in Nat
    BY <1>3
  <2>3. all = ten
    OBVIOUS
  <2> HIDE DEF a, b, c, d, e
  <2>4. IsFiniteSet(all) /\ Cardinality(all) =< 5 + 5
    BY Zenon, <2>1, <2>2, FiveMore
  <2>. QED  BY <2>3, <2>4
<1> HIDE DEF ten
<1>5. Etags \ Remembered # {}
  <2>1. SUFFICES ASSUME Etags \subseteq Remembered PROVE FALSE OBVIOUS
  <2>2. IsFiniteSet(Etags) /\ Cardinality(Etags) =< Cardinality(Remembered)
    BY <1>2, <1>4, <2>1, FS_Subset
  <2>3. Cardinality(Etags) \in Nat /\ Cardinality(Remembered) \in Nat
    BY <1>2, <1>4, <2>2, FS_CardinalityType
  <2>. QED  BY <1>2, <1>4, <2>2, <2>3, EtagsAssumption
<1>. QED  BY <1>5 DEF FreshEtag

------------------------------------------------------------------------------
(* What every step keeps of the types: the files, the rows, the run, and    *)
(* how the part of a download, its rows and the run belong together.        *)
FilesTyped ==
    /\ local \in Some([data : Versions, stamp : Versions])
    /\ server \in Some([data : Versions, stamp : Versions, etag : Etags])
    /\ copies \subseteq Versions
    /\ tmp \in Some([data : Versions, whole : BOOLEAN])
    /\ parked \in Some(Versions)
    /\ made \in 0..MaxVersions /\ owed \subseteq Versions
    /\ scenario \in Scenarios

RowsTyped(rows) ==
    /\ RowsFine(rows)
    /\ EntryOf(rows.db, Versions)
    /\ rows.down = None \/ rows.down \in [etag : Etags]
    /\ rows.down = None \/ rows.up = None

Fields == {"at", "mode", "seen", "item", "entry", "http", "etag", "body", "conflict", "restarted"}

Working == {"started", "touch", "download", "get", "compare", "replace", "rename", "downloaded",
          "send", "head", "put", "patch", "propfind", "uploaded"}

SendsFile == {"send", "head", "put", "patch", "propfind", "uploaded"}

Asks(r) ==
    r.at = "started" /\ r.item.instruction \in {"NEW", "SYNC", "CONFLICT"}
                     /\ r.item.direction # "Up"

SeenTyped(side) == side = Unread \/ (AFile(side) /\ EntryOf(side, Versions))

RunTyped(r) ==
    /\ Fields \subseteq DOMAIN r /\ {"local", "server"} \subseteq DOMAIN r.seen
    /\ r.at \in {"idle", "listing", "ending"} \union Working
    /\ SeenTyped(r.seen.local) /\ SeenTyped(r.seen.server)
    /\ r.seen.server \notin {None, Unread} => r.seen.server.etag \in Etags
    /\ r.at \in Working => AnItem(r.item)
    /\ r.at \in Working \ {"send"} => r.item.stamp \in Versions
    /\ Asks(r) \/ r.at \in {"download", "get"} => r.item.etag \in Etags
    /\ r.at = "put" => r.body \in Versions

(* A part whose etag is the server's is of the server's version. *)
PartOf(rows) ==
    tmp # None /\ rows.down # None /\ server # None /\ rows.down.etag = server.etag
      => tmp.data = server.data

Linked ==
    /\ tmp # None => journal.down # None
    /\ PartOf(journal) /\ PartOf(saved)
    /\ run.at \in {"touch", "downloaded"} => tmp = None
    /\ run.at \in {"compare", "replace", "rename"} => tmp # None
    /\ run.at = "get" =>
          /\ journal.down = [etag |-> run.item.etag] /\ saved.down = journal.down
          /\ tmp # None => run.etag = run.item.etag
    /\ Asks(run) /\ run.item.instruction = "CONFLICT" /\ run.item.checksum # None =>
          journal.down = None
    /\ Asks(run) \/ run.at = "download" => journal.up = None
    /\ run.at \in SendsFile \/ (run.at = "started" /\ run.item.direction = "Up") =>
          journal.down = None

Sound ==
    /\ RunsFine /\ FilesTyped /\ RowsTyped(journal) /\ RowsTyped(saved) /\ RunTyped(run)
    /\ Linked

LEMMA SoundIsTyped == Sound /\ unseen \subseteq Versions => TypeOK
BY DEF Sound, FilesTyped, RunTyped, TypeOK, Working, Points, Some

------------------------------------------------------------------------------
(* The rows. *)
LEMMA RowsTypedChanged ==
    ASSUME NEW rows, RowsTyped(rows)
    PROVE  /\ RowsTyped([rows EXCEPT !.down = None])
           /\ RowsTyped([rows EXCEPT !.down = rows.down])
           /\ RowsTyped([rows EXCEPT !.up = None])
           /\ \A x : RowsTyped([rows EXCEPT !.black = x])
           /\ RowsTyped([rows EXCEPT !.db = None])
           /\ \A x \in [etag : Etags] : rows.up = None => RowsTyped([rows EXCEPT !.down = x])
           /\ \A x : rows.down = None => RowsTyped([rows EXCEPT !.up = x])
           /\ [rows EXCEPT !.down = None].down = None
           /\ [rows EXCEPT !.up = None].down = rows.down
           /\ \A x : /\ [rows EXCEPT !.black = x].down = rows.down
                     /\ [rows EXCEPT !.black = x].up = rows.up
                     /\ [rows EXCEPT !.up = x].down = rows.down
           /\ [rows EXCEPT !.db = None].down = rows.down
           /\ \A x : [rows EXCEPT !.down = x].down = x
BY DEF RowsTyped, RowsFine, AFile, EntryOf

LEMMA RecordedTyped ==
    ASSUME NEW rows, RowsTyped(rows), NEW item, item.stamp \in Versions
    PROVE  RowsTyped(Recorded(item, rows)) /\ Recorded(item, rows).down = rows.down
BY DEF RowsTyped, RowsFine, AFile, EntryOf, Recorded, Record

LEMMA ForgivingTyped ==
    ASSUME NEW rows, RowsTyped(rows)
    PROVE  /\ RowsTyped(Forgiving(rows)) /\ Forgiving(rows).down = rows.down
           /\ Forgiving(rows).up = rows.up
BY DEF RowsTyped, RowsFine, AFile, EntryOf, Forgiving

LEMMA EndingTyped ==
    /\ RunTyped(Idle) /\ RunTyped(Ending)
    /\ Idle.at = "idle" /\ Ending.at = "ending"
BY DEF RunTyped, Idle, Ending, SeenTyped, Fields, Working, Asks

LEMMA DoneTyped ==
    ASSUME NEW status, NEW item, NEW http, NEW rows, RowsTyped(rows), Done(status, item, http, rows)
    PROVE  /\ RowsTyped(journal') /\ journal'.down = rows.down
           /\ RunTyped(run') /\ run'.at = "ending"
<1>1. PICK x : journal' = [rows EXCEPT !.black = x] /\ run' = Ending
  BY DEF Done
<1>. QED  BY <1>1, EndingTyped, RowsTypedChanged

------------------------------------------------------------------------------
(* The run goes on. *)
LEMMA RunFollows ==
    ASSUME NEW r, NEW s, RunTyped(r), s.seen = r.seen, DOMAIN s = DOMAIN r,
           s.at \in Working \ {"started"}, AnItem(s.item),
           s.at # "send" => s.item.stamp \in Versions,
           s.at \in {"download", "get"} => s.item.etag \in Etags,
           s.at = "put" => s.body \in Versions
    PROVE  RunTyped(s)
BY DEF RunTyped, Asks

LEMMA ContinueTyped ==
    ASSUME RunTyped(run), NEW point \in Working \ {"started"}, Continue(point),
           run.at \in Working \ {"send"}, point \in {"download", "get"} => run.item.etag \in Etags,
           point # "put"
    PROVE  RunTyped(run') /\ run'.at = point /\ run'.item = run.item
<1>1. /\ run'.at = point /\ run'.item = run.item /\ run'.seen = run.seen
      /\ DOMAIN run' = DOMAIN run
  BY DEF Continue, RunTyped, Fields
<1>2. AnItem(run.item) /\ run.item.stamp \in Versions
  BY DEF RunTyped
<1>. QED  BY <1>1, <1>2, RunFollows

------------------------------------------------------------------------------
(* What links them.  The server's file stays, goes, or gets a fresh etag,   *)
(* which is none a row of a download has.                                   *)
ServerMoves == server' \in {server, None} \/ server'.etag = FreshEtag

LEMMA FreshIsNoPart ==
    ASSUME RowsTyped(journal), RowsTyped(saved)
    PROVE  /\ journal.down # None => journal.down.etag # FreshEtag
           /\ saved.down # None => saved.down.etag # FreshEtag
<1>1. ASSUME NEW row, row \in {journal.down, saved.down}, row \in [etag : Etags]
      PROVE  row.etag \in Remembered
  <2>1. row \notin {None, Unread} BY <1>1, SentinelsAssumption
  <2>2. EtagOf(row) = {row.etag} BY <2>1 DEF EtagOf
  <2>3. EtagOf(row) \subseteq Remembered BY <1>1 DEF Remembered
  <2>. QED  BY <2>2, <2>3
<1>. QED  BY <1>1, FreshEtagIsFresh DEF RowsTyped

LEMMA PartStays ==
    ASSUME RowsTyped(journal), RowsTyped(saved), Linked, ServerMoves, tmp' \in {tmp, None},
           NEW rows \in {journal, saved}
    PROVE  tmp' # None /\ rows.down # None /\ server' # None /\ rows.down.etag = server'.etag
             => tmp'.data = server'.data
BY FreshIsNoPart DEF Linked, PartOf, ServerMoves

LEMMA LinkedAside ==
    ASSUME RowsTyped(journal), RowsTyped(saved), Linked, ServerMoves, tmp' = tmp, run' = run,
           journal'.down = journal.down, journal'.up = journal.up,
           saved'.down \in {saved.down, journal.down}
    PROVE  Linked'
<1>1. PartOf(journal)' /\ PartOf(saved)'
  BY PartStays DEF PartOf
<1>. QED  BY <1>1 DEF Linked, Asks

Free == {"idle", "listing", "ending"} \union SendsFile

LEMMA LinkedOn ==
    ASSUME RowsTyped(journal), RowsTyped(saved), Linked, ServerMoves, tmp' \in {tmp, None},
           run'.at \in Free, run'.at \in SendsFile => journal'.down = None,
           \/ journal'.down = journal.down
           \/ journal'.down = None /\ tmp' = None,
           saved'.down \in {saved.down, journal'.down}
    PROVE  Linked'
<1>1. PartOf(journal)' /\ PartOf(saved)'
  BY PartStays DEF PartOf
<1>2. tmp' # None => journal'.down # None
  BY DEF Linked
<1>3. /\ ~Asks(run')
      /\ run'.at \notin {"touch", "download", "downloaded", "compare", "replace", "rename",
                         "get", "started"}
  BY DEF Free, SendsFile, Asks
<1>. QED  BY <1>1, <1>2, <1>3 DEF Linked

------------------------------------------------------------------------------
(* The files. *)
Quiet == SameFiles /\ SameWorld

LEMMA QuietTyped ==
    ASSUME FilesTyped, Quiet
    PROVE  FilesTyped'
BY DEF Quiet, SameFiles, SameWorld, FilesTyped

LEMMA LocalTyped ==
    ASSUME FilesTyped
    PROVE  /\ local # None => local.data \in Versions /\ local.stamp \in Versions
           /\ server # None =>
                server.data \in Versions /\ server.stamp \in Versions /\ server.etag \in Etags
           /\ tmp # None => tmp.data \in Versions
           /\ parked # None => parked \in Versions
BY DEF FilesTyped, Some

LEMMA MadeTyped ==
    ASSUME FilesTyped, made < scenario.writes
    PROVE  made + 1 \in Versions /\ made + 1 \in 0..MaxVersions
<1>1. scenario.writes \in 0..MaxVersions /\ made \in 0..MaxVersions
  BY ScenariosAssumption DEF FilesTyped
<1>. QED  BY <1>1, BoundsAssumption DEF Versions

LEMMA UsersTyped ==
    ASSUME Sound, Users
    PROVE  Sound'
<1>. USE DEF Sound
<1>1. RunsFine' /\ run' = run
  BY UsersFine
<1>2. UNCHANGED <<copies, tmp, parked, journal, saved, run, disturbed, scenario>>
  BY DEF Users, LocalWrite, LocalTouch, LocalDelete, RemoteWrite, RemoteDelete, World
<1>3. ASSUME NEW given, Write(given)
      PROVE  /\ made + 1 \in Versions /\ made' \in 0..MaxVersions
             /\ owed' \subseteq Versions
  <2>1. made + 1 \in Versions /\ made' \in 0..MaxVersions
    BY <1>3, MadeTyped DEF Write
  <2>. QED  BY <1>3, <2>1 DEF Write, FilesTyped
<1>4. FilesTyped' /\ ServerMoves
  <2>1. CASE LocalWrite
    <3>1. local' \in [data : Versions, stamp : Versions]
      BY <2>1, <1>3 DEF LocalWrite
    <3>. QED  BY <1>2, <1>3, <2>1, <3>1 DEF LocalWrite, FilesTyped, ServerMoves, Some
  <2>2. CASE LocalTouch
    <3>1. made + 1 \in Versions /\ made' \in 0..MaxVersions
      BY <2>2, MadeTyped DEF LocalTouch
    <3>2. local' \in [data : Versions, stamp : Versions]
      BY <2>2, <3>1 DEF LocalTouch, FilesTyped, Some
    <3>. QED  BY <1>2, <2>2, <3>1, <3>2 DEF LocalTouch, FilesTyped, ServerMoves, Some
  <2>3. CASE LocalDelete
    BY <1>2, <2>3 DEF LocalDelete, FilesTyped, ServerMoves, Some
  <2>4. CASE RemoteWrite
    <3>1. /\ server' \in [data : Versions, stamp : Versions, etag : Etags]
          /\ server'.etag = FreshEtag
      BY <2>4, <1>3, FreshEtagIsFresh DEF RemoteWrite
    <3>. QED  BY <1>2, <1>3, <2>4, <3>1 DEF RemoteWrite, FilesTyped, ServerMoves, Some
  <2>5. CASE RemoteDelete
    BY <1>2, <2>5 DEF RemoteDelete, FilesTyped, ServerMoves, Some
  <2>. QED  BY <2>1, <2>2, <2>3, <2>4, <2>5 DEF Users
<1>5. RowsTyped(journal)' /\ RowsTyped(saved)' /\ RunTyped(run)'
  BY <1>2
<1>6. Linked'
  BY <1>2, <1>4, LinkedAside
<1>. QED  BY <1>1, <1>4, <1>5, <1>6

LEMMA OthersTyped ==
    ASSUME Sound, Commit \/ Tick \/ Unlocked \/ Calm \/ Expire
    PROVE  Sound'
<1>. USE DEF Sound
<1>1. RunsFine' /\ run' = run
  BY OthersFine
<1>2. FilesTyped' /\ tmp' = tmp /\ ServerMoves
  BY DEF Commit, Tick, Unlocked, Calm, Expire, FilesTyped, ServerMoves, Some
<1>3. /\ RowsTyped(journal)' /\ journal'.down = journal.down /\ journal'.up = journal.up
  <2>1. CASE Tick
    <3>1. PICK x : journal' = [journal EXCEPT !.black = x]
      BY <2>1 DEF Tick
    <3>2. /\ RowsTyped([journal EXCEPT !.black = x])
          /\ [journal EXCEPT !.black = x].down = journal.down
          /\ [journal EXCEPT !.black = x].up = journal.up
      BY RowsTypedChanged
    <3>. QED  BY <3>1, <3>2
  <2>2. CASE Unlocked
    BY <2>2, ForgivingTyped DEF Unlocked
  <2>3. CASE Commit \/ Calm \/ Expire
    BY <2>3 DEF Commit, Calm, Expire
  <2>. QED  BY <2>1, <2>2, <2>3
<1>4. RowsTyped(saved)' /\ saved'.down \in {saved.down, journal.down}
  BY DEF Commit, Tick, Unlocked, Calm, Expire
<1>5. Linked'
  BY <1>1, <1>2, <1>3, <1>4, LinkedAside
<1>. QED  BY <1>1, <1>2, <1>3, <1>4, <1>5

LEMMA CrashTyped ==
    ASSUME Sound, Crash
    PROVE  Sound'
<1>. USE DEF Sound
<1>1. RunsFine'
  BY CrashFine
<1>2. FilesTyped' /\ server' = server /\ tmp' = IF saved.down = None THEN None ELSE tmp
  BY DEF Crash, FilesTyped, Some
<1>3. /\ RowsTyped(journal)' /\ journal'.down = saved.down
      /\ saved' = saved /\ run' = Idle
  BY ForgivingTyped DEF Crash
<1>4. PartOf(journal)' /\ PartOf(saved)'
  BY <1>2, <1>3 DEF PartOf, Linked
<1>5. Linked'
  BY <1>2, <1>3, <1>4, EndingTyped DEF Linked, Asks, SendsFile
<1>. QED  BY <1>1, <1>2, <1>3, <1>5, EndingTyped

LEMMA AbortTyped ==
    ASSUME Sound, Abort
    PROVE  Sound'
<1>. USE DEF Sound
<1>1. RunsFine'
  BY AbortFine
<1>2. FilesTyped'
  BY QuietTyped DEF Abort, Quiet
<1>3. UNCHANGED <<server, tmp, journal, saved>> /\ run' \in {Idle, Ending}
  BY DEF Abort, SameFiles
<1>4. Linked'
  BY <1>3, EndingTyped, LinkedOn DEF Free, SendsFile, ServerMoves
<1>. QED  BY <1>1, <1>2, <1>3, <1>4, EndingTyped

------------------------------------------------------------------------------
(* Discovery. *)
LEMMA ListingTyped ==
    ASSUME Sound, Discovery, ~Decide
    PROVE  Sound'
<1>. USE DEF Sound
<1>1. RunsFine'
  BY DiscoveryFine
<1>2. FilesTyped' /\ UNCHANGED <<server, tmp>>
  <2>1. SameFiles /\ SameWorld
    BY DEF Discovery, StartRun, ListLocal, ListServer, EndRun, FilesTyped
  <2>. QED  BY <2>1 DEF SameFiles, SameWorld, FilesTyped
<1>3. journal' = journal /\ saved' \in {saved, journal}
  BY DEF Discovery, StartRun, ListLocal, ListServer, EndRun
<1>4. RunTyped(run') /\ run'.at \in {"idle", "listing"}
  <2>1. ASSUME NEW mode, StartRun(mode)
        PROVE  RunTyped(run') /\ run'.at \in {"idle", "listing"}
    <3>1. /\ DOMAIN run' = DOMAIN Idle /\ run'.at = "listing"
          /\ {"local", "server"} \subseteq DOMAIN run'.seen
          /\ run'.seen.local \in {None, Unread} /\ run'.seen.server = Unread
      BY <2>1 DEF StartRun, Idle
    <3>2. Fields \subseteq DOMAIN Idle BY DEF Idle, Fields
    <3>. QED  BY <3>1, <3>2 DEF RunTyped, SeenTyped, AFile, EntryOf, Working, Asks
  <2>2. ASSUME ListLocal
        PROVE  RunTyped(run') /\ run'.at \in {"idle", "listing"}
    <3>1. SeenTyped(LocalInfo)
      BY LocalTyped DEF SeenTyped, AFile, EntryOf, LocalInfo
    <3>2. /\ DOMAIN run' = DOMAIN run /\ run'.at = "listing"
          /\ {"local", "server"} \subseteq DOMAIN run'.seen
          /\ run'.seen.local = LocalInfo /\ run'.seen.server = run.seen.server
      BY <2>2 DEF ListLocal, At, RunTyped, Fields
    <3>. QED  BY <3>1, <3>2 DEF RunTyped, Working, Asks
  <2>3. ASSUME ListServer
        PROVE  RunTyped(run') /\ run'.at \in {"idle", "listing"}
    <3>1. SeenTyped(RemoteInfo) /\ (RemoteInfo # None => RemoteInfo.etag \in Etags)
      BY LocalTyped DEF SeenTyped, AFile, EntryOf, RemoteInfo
    <3>2. /\ DOMAIN run' = DOMAIN run /\ run'.at = "listing"
          /\ {"local", "server"} \subseteq DOMAIN run'.seen
          /\ run'.seen.local = run.seen.local /\ run'.seen.server = RemoteInfo
      BY <2>3 DEF ListServer, At, RunTyped, Fields
    <3>. QED  BY <3>1, <3>2 DEF RunTyped, Working, Asks
  <2>4. EndRun => RunTyped(run') /\ run'.at \in {"idle", "listing"}
    BY EndingTyped DEF EndRun
  <2>. QED  BY <2>1, <2>2, <2>3, <2>4 DEF Discovery
<1>5. Linked'
  BY <1>2, <1>3, <1>4, LinkedOn DEF Free, SendsFile, ServerMoves
<1>. QED  BY <1>1, <1>2, <1>3, <1>4, <1>5

(* What a run is about to do comes from the entries it has seen. *)
LEMMA DecidesSourced ==
    ASSUME Sound, Decide, NEW Stamps, NEW Tags,
           EntryOf(run.seen.local, Stamps), EntryOf(run.seen.server, Stamps),
           EntryOf(journal.db, Stamps), run.seen.server # None => run.seen.server.etag \in Tags
    PROVE  /\ run' = Ending \/ (run'.at = "started" /\ run'.seen = Idle.seen)
           /\ run'.at = "started" =>
                /\ Sourced(run'.item, run.seen.server, journal.db, journal.up, Stamps, Tags)
                /\ run'.item.stamp \in Stamps
                /\ journal'.db = journal.db
           /\ journal'.db \in {None, journal.db} /\ saved' = journal'
<1>. USE DEF Sound
<1> DEFINE found == Discovered
           isItem == found.instruction \notin {"NONE", "STALE"}
           entry == IF isItem THEN journal.black ELSE None
           skipped == [found EXCEPT !.instruction = "IGNORE"]
           item  == IF CheckErrorBlacklisting(found, entry) THEN skipped ELSE found
           begun == [Idle EXCEPT !.at = "started", !.item = item, !.entry = entry]
           query == [local |-> run.mode, server |-> "normal"]
           Fits(x) == Sourced(x, run.seen.server, journal.db, journal.up, Stamps, Tags)
<1>1. /\ run' = IF isItem THEN begun ELSE Ending
      /\ journal'.db = IF found.instruction = "STALE" THEN None ELSE journal.db
      /\ saved' = journal'
  BY DEF Decide
<1>2. /\ Entries(run.seen.local, run.seen.server, journal.db, Stamps, Tags)
      /\ Listed(query, run.seen.local)
  <2>1. run.seen.local # Unread /\ run.seen.server # Unread /\ run.at = "listing"
    BY DEF Decide, At
  <2>2. /\ AFile(run.seen.local) /\ AFile(run.seen.server) /\ AFile(journal.db)
        /\ None # "Down"
    BY <2>1, SentinelsAssumption DEF RunTyped, SeenTyped, RowsTyped, RowsFine
  <2>3. Listed(query, run.seen.local)
    BY <2>1 DEF RunsFine, RunFine, Listed
  <2>. QED  BY <2>2, <2>3 DEF Entries
<1>3. Fits(found)
  BY <1>2, ProcessFileSources DEF Discovered
<1> HIDE DEF found, query
<1>4. isItem => found.stamp \in Stamps
  BY <1>3 DEF Sourced
<1>5. /\ AnItem(skipped) /\ skipped.instruction = "IGNORE" /\ skipped.dir = found.dir
      /\ skipped.stamp = found.stamp
  BY <1>3 DEF Sourced, AnItem
<1>6. isItem => Fits(item) /\ item.stamp \in Stamps
  <2> HIDE DEF skipped
  <2>. QED  BY <1>3, <1>4, <1>5 DEF Sourced
<1>7. begun.at = "started" /\ begun.item = item /\ begun.seen = Idle.seen
  BY DEF Idle
<1> HIDE DEF begun, item, entry, Fits
<1>8. Ending.at # "started"
  BY EndingTyped
<1>9. isItem => found.instruction # "STALE"
  OBVIOUS
<1> HIDE DEF isItem
<1>10. CASE isItem
  BY <1>1, <1>6, <1>7, <1>9, <1>10 DEF Fits
<1>11. CASE ~isItem
  BY <1>1, <1>8, <1>11
<1>. QED  BY <1>10, <1>11

LEMMA DecideTyped ==
    ASSUME Sound, Decide
    PROVE  Sound'
<1>. USE DEF Sound
<1> DEFINE found == Discovered
           isItem == found.instruction \notin {"NONE", "STALE"}
           entry == IF isItem THEN journal.black ELSE None
           item  == IF CheckErrorBlacklisting(found, entry)
                    THEN [found EXCEPT !.instruction = "IGNORE"] ELSE found
           rows  == [db    |-> IF found.instruction = "STALE" THEN None ELSE journal.db,
                     down  |-> Needed(journal.down, item, "Down"),
                     up    |-> Needed(journal.up, item, "Up"),
                     black |-> entry]
           begun == [Idle EXCEPT !.at = "started", !.item = item, !.entry = entry]
<1>1. /\ run' = IF isItem THEN begun ELSE Ending
      /\ journal' = rows /\ saved' = rows
      /\ tmp' = IF journal.down # None /\ rows.down = None THEN None ELSE tmp
      /\ UNCHANGED <<local, server, copies, parked>> /\ SameWorld
  BY DEF Decide
<1>2. begun.at = "started" /\ begun.item = item /\ DOMAIN begun = DOMAIN Idle
      /\ begun.seen = Idle.seen
  BY DEF Idle
<1>3. isItem => /\ Sourced(item, run.seen.server, journal.db, journal.up, Versions, Etags)
                /\ item.stamp \in Versions
  <2>1. /\ EntryOf(run.seen.local, Versions) /\ EntryOf(run.seen.server, Versions)
        /\ EntryOf(journal.db, Versions)
        /\ run.seen.server # None => run.seen.server.etag \in Etags
    BY DEF Decide, RunTyped, SeenTyped, RowsTyped
  <2> HIDE DEF begun, item
  <2>. QED  BY <1>1, <1>2, <2>1, DecidesSourced
<1>4. run'.at = "started" => isItem
  BY <1>1, EndingTyped
<1> HIDE DEF found, item, isItem, entry
<1>5. /\ RunTyped(run') /\ run'.at \in {"started", "ending"}
      /\ run'.at = "started" => run'.item = item
  <2>2. RunTyped(begun) \/ ~isItem
    <3>1. Fields \subseteq DOMAIN Idle /\ SeenTyped(Idle.seen.local) /\ SeenTyped(Idle.seen.server)
          /\ {"local", "server"} \subseteq DOMAIN Idle.seen /\ Idle.seen.server = Unread
      BY DEF Idle, Fields, SeenTyped
    <3> HIDE DEF begun
    <3>. QED  BY <1>2, <1>3, <3>1 DEF RunTyped, Sourced, Working, Asks
  <2> HIDE DEF begun
  <2>. QED  BY <1>1, <1>2, <2>2, EndingTyped
<1>6. /\ RowsTyped(rows)
      /\ rows.down \in {journal.down, None} /\ rows.up \in {journal.up, None}
      /\ item.direction # "Down" => rows.down = None
      /\ item.direction # "Up" => rows.up = None
  BY DEF RowsTyped, RowsFine, AFile, EntryOf, Needed
<1> HIDE DEF rows, begun
<1>7. RunsFine'
  BY DecideFine
<1>8. FilesTyped'
  BY <1>1 DEF FilesTyped, SameWorld, Some
<1>9. Linked'
  <2>1. PartOf(journal)' /\ PartOf(saved)'
    BY <1>1, <1>6 DEF PartOf, Linked
  <2>2. tmp' # None => journal'.down # None
    BY <1>1, <1>6 DEF Linked
  <2>3. ASSUME Asks(run')
        PROVE  /\ journal'.up = None
               /\ run'.item.instruction = "CONFLICT" /\ run'.item.checksum # None =>
                     journal'.down = None
    <3>1. run'.item = item /\ item.direction # "Up"
      BY <1>5, <2>3 DEF Asks
    <3>2. rows.up = None
      BY <1>6, <3>1
    <3>3. item.instruction = "CONFLICT" /\ item.checksum # None => rows.down = None
      BY <1>3, <1>4, <1>6, <2>3 DEF Sourced, RowsTyped, Asks
    <3>. QED  BY <1>1, <3>1, <3>2, <3>3
  <2>4. run'.at = "started" /\ run'.item.direction = "Up" => journal'.down = None
    BY <1>1, <1>5, <1>6
  <2>. QED  BY <1>5, <2>1, <2>2, <2>3, <2>4 DEF Linked, SendsFile
<1>. QED  BY <1>1, <1>5, <1>6, <1>7, <1>8, <1>9

------------------------------------------------------------------------------
(* The jobs. *)
LEMMA StopsSound ==
    ASSUME Sound, RunsFine', FilesTyped', ServerMoves, tmp' \in {tmp, None},
           NEW status, NEW item, NEW http, NEW rows, RowsTyped(rows),
           Done(status, item, http, rows),
           rows.down = journal.down \/ (rows.down = None /\ tmp' = None),
           saved' \in {saved, rows}
    PROVE  Sound'
<1>1. RowsTyped(journal') /\ journal'.down = rows.down /\ RunTyped(run') /\ run'.at = "ending"
  BY DoneTyped
<1>2. RowsTyped(saved') /\ saved'.down \in {saved.down, journal'.down}
  BY <1>1 DEF Sound
<1>3. Linked'
  BY <1>1, <1>2, LinkedOn DEF Sound, Free, SendsFile
<1>. QED  BY <1>1, <1>2, <1>3 DEF Sound

(* A job that fails and touches no file. *)
LEMMA FailsSound ==
    ASSUME Sound, RunsFine', Quiet, NEW rows, RowsTyped(rows),
           rows.down = journal.down \/ (rows.down = None /\ tmp = None),
           Fails("SoftError", rows) \/ (\E status : Fails(status, rows)) \/ Breaks(rows)
    PROVE  Sound'
<1>1. FilesTyped' /\ ServerMoves /\ tmp' = tmp
  BY QuietTyped DEF Sound, Quiet, SameFiles, ServerMoves
<1>2. \E status, http : Done(status, run.item, http, rows) /\ saved' = saved
  BY DEF Fails, Breaks
<1>. QED  BY <1>1, <1>2, StopsSound

LEMMA BreaksSound ==
    ASSUME Sound, RunsFine', FilesTyped', ServerMoves, tmp' = tmp, Breaks(journal)
    PROVE  Sound'
<1>1. \E status : Done(status, run.item, TRUE, journal) /\ saved' = saved
  BY DEF Breaks
<1>. QED  BY <1>1, StopsSound DEF Sound

LEMMA JournalTyped == Sound => RowsTyped(journal)
BY DEF Sound

LEMMA SimpleJobsTyped ==
    ASSUME Sound, PropagateIgnore \/ PropagateUpdateMetaData \/ Removal \/ RemoteDeleteUnanswered
    PROVE  Sound'
<1>1. RunsFine'
  BY SimpleJobsFine DEF Sound
<1>2. CASE PropagateIgnore
  <2>1. \E status : Fails(status, journal)
    BY <1>2 DEF PropagateIgnore
  <2>2. Quiet
    BY <1>2 DEF PropagateIgnore, Quiet
  <2>. QED  BY <1>1, <2>1, <2>2, FailsSound, JournalTyped
<1>3. CASE PropagateUpdateMetaData
  <2>1. AnItem(run.item) /\ run.item.stamp \in Versions
    BY <1>3 DEF Sound, RunTyped, PropagateUpdateMetaData, Starts, At, Working
  <2>2. \A x : [run.item EXCEPT !.checksum = x].stamp = run.item.stamp
    BY <2>1 DEF AnItem
  <2>3. PICK item : item.stamp \in Versions /\ Done("Success", item, FALSE, Recorded(item, journal))
    BY <1>3, <2>1, <2>2 DEF PropagateUpdateMetaData
  <2>4. RowsTyped(Recorded(item, journal)) /\ Recorded(item, journal).down = journal.down
    BY <2>3, RecordedTyped, JournalTyped
  <2>5. FilesTyped' /\ ServerMoves /\ tmp' = tmp /\ saved' = saved
    BY <1>3, QuietTyped DEF Sound, PropagateUpdateMetaData, Quiet, SameFiles, ServerMoves
  <2>. QED  BY <1>1, <2>3, <2>4, <2>5, StopsSound
<1>4. CASE Removal
  <2>1. RowsTyped(RemovedRows) /\ RemovedRows.down = journal.down
    BY RowsTypedChanged, JournalTyped DEF RemovedRows
  <2>2. Done("Success", run.item, TRUE, RemovedRows) /\ saved' = RemovedRows
    BY <1>4 DEF Removal, PropagateLocalRemove, PropagateRemoteDelete, Finishes
  <2>3. FilesTyped' /\ ServerMoves /\ tmp' = tmp
    BY <1>4 DEF Removal, PropagateLocalRemove, PropagateRemoteDelete, Sound, FilesTyped,
                SameWorld,
                ServerMoves, Some
  <2>. QED  BY <1>1, <2>1, <2>2, <2>3, StopsSound
<1>5. CASE RemoteDeleteUnanswered
  <2>1. FilesTyped' /\ ServerMoves /\ tmp' = tmp
    BY <1>5 DEF RemoteDeleteUnanswered, Sound, FilesTyped, SameWorld, ServerMoves, Some
  <2>. QED  BY <1>1, <1>5, <2>1, BreaksSound DEF RemoteDeleteUnanswered
<1>. QED  BY <1>2, <1>3, <1>4, <1>5

------------------------------------------------------------------------------
(* The download. *)
LEMMA FinishSound ==
    ASSUME Sound, RunsFine', FilesTyped', ServerMoves, tmp' = tmp, tmp = None,
           NEW item, item.stamp \in Versions, NEW status, FinishDownload(item, status)
    PROVE  Sound'
<1> DEFINE rows == [Recorded(item, journal) EXCEPT !.down = None]
<1>1. RowsTyped(rows) /\ rows.down = None
  BY RecordedTyped, RowsTypedChanged, JournalTyped
<1>2. Done(status, item, TRUE, rows) /\ saved' = rows
  BY DEF FinishDownload
<1> HIDE DEF rows
<1>. QED  BY <1>1, <1>2, StopsSound

LEMMA DroppedTyped ==
    ASSUME Sound
    PROVE  /\ RowsTyped([journal EXCEPT !.down = None])
           /\ [journal EXCEPT !.down = None].down = None
           /\ RowsTyped([journal EXCEPT !.down = IF tmp = None THEN None ELSE @])
           /\ LET rows == [journal EXCEPT !.down = IF tmp = None THEN None ELSE @]
              IN  rows.down = journal.down \/ (rows.down = None /\ tmp = None)
<1>1. /\ RowsTyped([journal EXCEPT !.down = None]) /\ [journal EXCEPT !.down = None].down = None
  BY RowsTypedChanged, JournalTyped
<1>2. /\ RowsTyped([journal EXCEPT !.down = journal.down])
      /\ [journal EXCEPT !.down = journal.down].down = journal.down
  BY RowsTypedChanged, JournalTyped
<1>3. CASE tmp = None BY <1>1, <1>3
<1>4. CASE tmp # None BY <1>1, <1>2, <1>4
<1>. QED  BY <1>3, <1>4

LEMMA StartsDownload ==
    ASSUME Sound, RunsFine', ConflictChecksumComputed \/ StartOther
    PROVE  Sound'
<1>1. PICK point \in {"touch", "download"} :
        /\ Continue(point)
        /\ point = "touch" => IsConflict /\ run.item.checksum # None
  BY DEF ConflictChecksumComputed, StartOther
<1>2. run.at = "started" /\ Asks(run)
  BY DEF ConflictChecksumComputed, StartOther, IsDownload, Starts, At, Asks, Downloads, Transfers
<1>3. run.item.etag \in Etags
  BY <1>2 DEF Sound, RunTyped
<1>4. RunTyped(run') /\ run'.at = point /\ run'.item = run.item
  BY <1>1, <1>2, <1>3, ContinueTyped DEF Sound, Working
<1>5. FilesTyped' /\ UNCHANGED <<server, tmp, journal, saved>>
  <2>1. Quiet BY DEF ConflictChecksumComputed, StartOther, Quiet
  <2>. QED  BY <1>1, <2>1, QuietTyped DEF Sound, Quiet, SameFiles, Continue
<1>6. Linked'
  <2>1. PartOf(journal)' /\ PartOf(saved)' /\ (tmp' # None => journal'.down # None)
    BY <1>5 DEF Sound, Linked, PartOf
  <2>2. journal'.up = None
    BY <1>2, <1>5 DEF Sound, Linked
  <2>3. point = "touch" => journal.down = None /\ tmp = None
    BY <1>1, <1>2 DEF Sound, Linked, IsConflict
  <2>. QED  BY <1>4, <1>5, <2>1, <2>2, <2>3 DEF Linked, Asks, SendsFile
<1>. QED  BY <1>4, <1>5, <1>6 DEF Sound

LEMMA StartDownloadTyped ==
    ASSUME Sound, RunsFine', StartDownload
    PROVE  Sound'
<1> DEFINE same  == journal.down # None /\ journal.down.etag = run.item.etag
           kept  == IF journal.down # None /\ ~same THEN None ELSE tmp
           whole == kept # None /\ kept.whole
           row   == [etag |-> run.item.etag]
           rows  == [journal EXCEPT !.down = row]
<1>1. /\ tmp' = kept
      /\ run' = [run EXCEPT !.at = IF whole THEN "compare" ELSE "get",
                            !.etag = IF same THEN run.item.etag ELSE None]
      /\ IF whole THEN UNCHANGED <<journal, saved>> ELSE journal' = rows /\ saved' = rows
      /\ UNCHANGED <<local, server, copies, parked>> /\ SameWorld
  BY DEF StartDownload
<1>2. /\ run.at = "download" /\ AnItem(run.item) /\ run.item.stamp \in Versions
      /\ run.item.etag \in Etags /\ journal.up = None
  BY DEF StartDownload, At, Sound, RunTyped, Linked, Working
<1>3. row \in [etag : Etags] /\ row # None
  <2>1. row \in [etag : Etags] BY <1>2
  <2>. QED  BY <2>1, SentinelsAssumption
<1>4. RowsTyped(rows) /\ rows.down = row
  <2> HIDE DEF row
  <2>. QED  BY <1>2, <1>3, RowsTypedChanged, JournalTyped
<1>5. /\ run'.at = IF whole THEN "compare" ELSE "get"
      /\ run'.etag = IF same THEN run.item.etag ELSE None
      /\ run'.item = run.item /\ run'.seen = run.seen /\ DOMAIN run' = DOMAIN run
  <2> HIDE DEF whole, same, kept
  <2>. QED  BY <1>1 DEF Sound, RunTyped, Fields
<1>6. RunTyped(run')
  <2>1. run'.at \in {"compare", "get"} BY <1>5
  <2>. QED  BY <1>2, <1>5, <2>1, RunFollows DEF Sound, Working
<1>7. kept \in {tmp, None} /\ (kept # None => same)
  BY DEF Sound, Linked
<1> HIDE DEF whole, kept
<1>8. FilesTyped'
  BY <1>1, <1>7 DEF Sound, FilesTyped, SameWorld, Some
<1>9. RowsTyped(journal') /\ RowsTyped(saved')
  BY <1>1, <1>4 DEF Sound
<1>10. Linked'
  <2>1. kept # None => journal.down # None /\ journal.down.etag = row.etag /\ kept = tmp
    BY <1>7
  <2>2. PartOf(journal)
    BY DEF Sound, Linked
  <2>3. CASE whole
    <3>1. kept # None BY <2>3 DEF whole
    <3>. QED  BY <1>1, <1>5, <1>7, <2>1, <2>3, <3>1 DEF Sound, Linked, PartOf, Asks, SendsFile
  <2>4. CASE ~whole
    <3>1. journal'.down = row /\ saved'.down = row /\ run'.at = "get"
      BY <1>1, <1>4, <1>5, <2>4
    <3>2. PartOf(journal)' /\ PartOf(saved)'
      BY <1>1, <2>1, <2>2, <3>1 DEF PartOf
    <3>3. tmp' # None => run'.etag = run'.item.etag
      BY <1>1, <1>5, <1>7
    <3>4. row = [etag |-> run'.item.etag]
      BY <1>5
    <3> HIDE DEF row, rows
    <3>. QED  BY <1>1, <1>3, <3>1, <3>2, <3>3, <3>4 DEF Linked, Asks, SendsFile
  <2>. QED  BY <2>3, <2>4
<1>. QED  BY <1>6, <1>8, <1>9, <1>10 DEF Sound

LEMMA PartIsWhole ==
    ASSUME Sound, run.at = "get", server # None, ~ResumesOther
    PROVE  Joined = server.data /\ Joined \in Versions
<1>1. tmp # None => run.etag = journal.down.etag /\ run.etag # None
  <2>1. journal.down = [etag |-> run.item.etag] /\ run.item.etag \in Etags
    BY DEF Sound, Linked, RunTyped
  <2>2. tmp # None => run.etag = run.item.etag
    BY DEF Sound, Linked
  <2>3. run.item.etag # None
    BY <2>1, SentinelsAssumption
  <2>. QED  BY <2>1, <2>2, <2>3
<1>2. tmp # None => journal.down # None /\ journal.down.etag = server.etag
  BY <1>1 DEF ResumesOther, Sound, Linked
<1>3. Joined = server.data
  BY <1>2 DEF Sound, Linked, PartOf, Joined
<1>. QED  BY <1>3, LocalTyped DEF Sound

LEMMA GetTyped ==
    ASSUME Sound, RunsFine', Get
    PROVE  Sound'
<1>1. run.at = "get" /\ server # None /\ ~ResumesOther
  BY DEF Get, At
<1>2. Joined = server.data /\ Joined \in Versions
  BY <1>1, PartIsWhole
<1>3. /\ tmp' = [data |-> Joined, whole |-> TRUE]
      /\ run' = [run EXCEPT !.at = "compare", !.http = TRUE, !.item.etag = server.etag,
                          !.item.stamp = server.stamp, !.item.checksum = Checksum(server.data)]
      /\ UNCHANGED <<local, server, copies, parked, journal, saved>> /\ SameWorld
  BY DEF Get
<1>4. AnItem(run.item) /\ server.stamp \in Versions
  BY <1>1, LocalTyped DEF Sound, RunTyped, Working
<1>5. /\ run'.at = "compare" /\ run'.seen = run.seen /\ DOMAIN run' = DOMAIN run
      /\ AnItem(run'.item) /\ run'.item.stamp = server.stamp
  <2>1. run'.at = "compare" /\ run'.seen = run.seen /\ DOMAIN run' = DOMAIN run
    BY <1>3 DEF Sound, RunTyped, Fields
  <2>2. run'.item = [run.item EXCEPT !.etag = server.etag, !.stamp = server.stamp,
                                     !.checksum = Checksum(server.data)]
    BY <1>3 DEF Sound, RunTyped, Fields
  <2>. QED  BY <1>4, <2>1, <2>2 DEF AnItem
<1>6. RunTyped(run')
  BY <1>4, <1>5, RunFollows DEF Sound, Working
<1>7. tmp' \in [data : Versions, whole : BOOLEAN]
  BY <1>2, <1>3
<1>8. FilesTyped'
  BY <1>3, <1>7 DEF Sound, FilesTyped, SameWorld, Some
<1>9. tmp' # None
  BY <1>7, SentinelsAssumption DEF Versions
<1>10. journal.down # None
  <2>1. journal.down = [etag |-> run.item.etag] /\ run.item.etag \in Etags
    BY <1>1 DEF Sound, Linked, RunTyped
  <2>2. journal.down \in [etag : Etags] BY <2>1
  <2>. QED  BY <2>2, SentinelsAssumption
<1>11. PartOf(journal)' /\ PartOf(saved)'
  BY <1>2, <1>3 DEF PartOf
<1>12. Linked'
  BY <1>3, <1>5, <1>9, <1>10, <1>11 DEF Linked, Asks, SendsFile
<1>. QED  BY <1>3, <1>6, <1>8, <1>12 DEF Sound

LEMMA GetFailsTyped ==
    ASSUME Sound, RunsFine', GetNotFound \/ GetRefused \/ GetFails \/ GetBreaksOff \/ ChecksumFail
    PROVE  Sound'
<1>1. CASE GetNotFound
  <2>1. FilesTyped' /\ ServerMoves /\ tmp' = None
    BY <1>1 DEF GetNotFound, Sound, FilesTyped, SameWorld, ServerMoves, Some
  <2>. QED  BY <1>1, <2>1, DroppedTyped, StopsSound DEF GetNotFound
<1>2. CASE GetRefused
  <2>1. Fails("NormalError", [journal EXCEPT !.down = IF tmp = None THEN None ELSE @])
        \/ \E status, http : Done(status, run.item, http,
              [journal EXCEPT !.down = IF tmp = None THEN None ELSE @]) /\ saved' = saved
    BY <1>2 DEF GetRefused
  <2>2. Quiet BY <1>2 DEF GetRefused, Quiet
  <2>3. FilesTyped' /\ ServerMoves /\ tmp' = tmp
    BY <2>2, QuietTyped DEF Sound, Quiet, SameFiles, ServerMoves
  <2>. QED  BY <2>1, <2>3, DroppedTyped, StopsSound DEF Fails
<1>3. CASE GetFails
  <2>1. Quiet BY <1>3 DEF GetFails, Quiet
  <2>. QED  BY <1>3, <2>1, DroppedTyped, FailsSound DEF GetFails
<1>4. CASE GetBreaksOff
  <2>1. run.at = "get" /\ server # None /\ ~ResumesOther
    BY <1>4 DEF GetBreaksOff, At
  <2>2. Joined = server.data /\ Joined \in Versions
    BY <2>1, PartIsWhole
  <2>3. /\ tmp' = [data |-> Joined, whole |-> FALSE] /\ saved' = saved
        /\ UNCHANGED <<local, server, copies, parked>> /\ SameWorld
    BY <1>4 DEF GetBreaksOff, Breaks
  <2>4. FilesTyped'
    BY <2>2, <2>3 DEF Sound, FilesTyped, SameWorld, Some
  <2>5. PICK status : Done(status, run.item, TRUE, journal)
    BY <1>4 DEF GetBreaksOff, Breaks
  <2>6. RowsTyped(journal') /\ journal'.down = journal.down /\ RunTyped(run') /\ run'.at = "ending"
    BY <2>5, DoneTyped, JournalTyped
  <2>7. journal.down # None
    <3>1. journal.down = [etag |-> run.item.etag] /\ run.item.etag \in Etags
      BY <2>1 DEF Sound, Linked, RunTyped
    <3>2. journal.down \in [etag : Etags] BY <3>1
    <3>. QED  BY <3>2, SentinelsAssumption
  <2>8. PartOf(journal)' /\ PartOf(saved)'
    BY <2>2, <2>3 DEF PartOf
  <2>9. Linked'
    BY <2>6, <2>7, <2>8 DEF Linked, Asks, SendsFile
  <2>. QED  BY <2>3, <2>4, <2>6, <2>9 DEF Sound
<1>5. CASE ChecksumFail
  <2>1. FilesTyped' /\ ServerMoves /\ tmp' = None
    BY <1>5 DEF ChecksumFail, Sound, FilesTyped, SameWorld, ServerMoves, Some
  <2>. QED  BY <1>5, <2>1, JournalTyped, StopsSound DEF ChecksumFail
<1>. QED  BY <1>1, <1>2, <1>3, <1>4, <1>5

(* A step from one point of the replacement to another. *)
LEMMA ReplacementMoves ==
    ASSUME Sound, RunsFine', FilesTyped', UNCHANGED <<server, journal, saved>>,
           run.at \in {"compare", "replace", "rename"},
           run'.at \in {"replace", "rename", "downloaded"},
           run'.item = run.item, run'.seen = run.seen, DOMAIN run' = DOMAIN run,
           tmp' = IF run'.at = "downloaded" THEN None ELSE tmp
    PROVE  Sound'
<1>1. AnItem(run.item) /\ run.item.stamp \in Versions
  BY DEF Sound, RunTyped, Working
<1>2. RunTyped(run')
  BY <1>1, RunFollows DEF Sound, Working
<1>3. tmp # None
  BY DEF Sound, Linked
<1>4. PartOf(journal)' /\ PartOf(saved)'
  BY DEF Sound, Linked, PartOf
<1>5. Linked'
  BY <1>3, <1>4 DEF Sound, Linked, Asks, SendsFile
<1>. QED  BY <1>2, <1>5 DEF Sound

LEMMA ReplacesTyped ==
    ASSUME Sound, RunsFine', CreateConflict \/ DownloadFinished \/ RemoveTarget \/ RenameTmp
    PROVE  Sound'
<1>1. ASSUME NEW point, Continue(point)
      PROVE  /\ run'.at = point /\ run'.item = run.item /\ run'.seen = run.seen
             /\ DOMAIN run' = DOMAIN run /\ UNCHANGED <<journal, saved>>
  BY <1>1 DEF Continue, Sound, RunTyped, Fields
<1>2. CASE CreateConflict
  <2>1. FilesTyped'
    BY <1>2, LocalTyped DEF CreateConflict, Sound, FilesTyped, SameWorld, Some
  <2>2. /\ run'.at = "replace" /\ run'.item = run.item /\ run'.seen = run.seen
        /\ DOMAIN run' = DOMAIN run
    BY <1>2 DEF CreateConflict, Sound, RunTyped, Fields
  <2>. QED  BY <1>2, <2>1, <2>2, ReplacementMoves DEF CreateConflict, At
<1>3. CASE DownloadFinished
  <2>1. FilesTyped'
    BY <1>3 DEF DownloadFinished, Sound, FilesTyped, SameFiles, SameWorld
  <2>. QED  BY <1>1, <1>3, <2>1, ReplacementMoves DEF DownloadFinished, SameFiles, At
<1>4. CASE RemoveTarget
  <2>1. FilesTyped'
    BY <1>4 DEF RemoveTarget, Sound, FilesTyped, SameWorld, Some
  <2>. QED  BY <1>1, <1>4, <2>1, ReplacementMoves DEF RemoveTarget, At
<1>5. CASE RenameTmp
  <2>1. tmp # None /\ run.item.stamp \in Versions
    BY <1>5 DEF RenameTmp, At, Sound, Linked, RunTyped, Working
  <2>2. local' \in [data : Versions, stamp : Versions]
    BY <1>5, <2>1, LocalTyped DEF RenameTmp, Sound
  <2>3. FilesTyped'
    BY <1>5, <2>2 DEF RenameTmp, Sound, FilesTyped, SameWorld, Some
  <2>. QED  BY <1>1, <1>5, <2>3, ReplacementMoves DEF RenameTmp, At
<1>. QED  BY <1>2, <1>3, <1>4, <1>5

LEMMA DownloadTyped ==
    ASSUME Sound, Download \/ GetFails \/ GetBreaksOff \/ LockedFile
    PROVE  Sound'
<1>1. RunsFine'
  BY DownloadFine DEF Sound
<1>2. CASE Touch
  <2>1. run.at = "touch" /\ tmp = None /\ AnItem(run.item) /\ run.item.stamp \in Versions
    BY <1>2 DEF Touch, At, Sound, Linked, RunTyped, Working
  <2>2. PICK stamp \in Versions :
          /\ local' = IF local = None THEN None ELSE [local EXCEPT !.stamp = stamp]
          /\ FinishDownload([run.item EXCEPT !.stamp = stamp], "Success")
    BY <1>2, <2>1, LocalTyped DEF Touch, Sound
  <2>3. local # None => local \in [data : Versions, stamp : Versions]
    BY DEF Sound, FilesTyped, Some
  <2>4. local' \in Some([data : Versions, stamp : Versions])
    BY <2>2, <2>3 DEF Some
  <2>5. FilesTyped' /\ ServerMoves /\ tmp' = tmp
    BY <1>2, <2>4 DEF Touch, Sound, FilesTyped, SameWorld, ServerMoves
  <2>6. [run.item EXCEPT !.stamp = stamp].stamp \in Versions
    BY <2>1 DEF AnItem
  <2>. QED  BY <1>1, <2>1, <2>2, <2>5, <2>6, FinishSound
<1>3. CASE UpdateMetadata
  <2>1. tmp = None /\ run.item.stamp \in Versions
    BY <1>3 DEF UpdateMetadata, At, Sound, Linked, RunTyped, Working
  <2>2. Quiet BY <1>3 DEF UpdateMetadata, Quiet
  <2>3. FilesTyped' /\ ServerMoves /\ tmp' = tmp
    BY <2>2, QuietTyped DEF Sound, Quiet, SameFiles, ServerMoves
  <2>. QED  BY <1>1, <1>3, <2>1, <2>3, FinishSound DEF UpdateMetadata
<1>4. CASE RefuseToReplace \/ RenameFails \/ LockedFile
  <2>1. Quiet /\ Fails("SoftError", journal)
    BY <1>4 DEF RefuseToReplace, RenameFails, LockedFile, Quiet
  <2>. QED  BY <1>1, <2>1, JournalTyped, FailsSound
<1>. QED  BY <1>1, <1>2, <1>3, <1>4, StartsDownload, StartDownloadTyped, GetTyped, GetFailsTyped,
             ReplacesTyped DEF Download

------------------------------------------------------------------------------
(* The upload. *)
LEMMA SendsOn ==
    ASSUME Sound, RunsFine', FilesTyped', ServerMoves, tmp' = tmp,
           run.at \in SendsFile \/ (run.at = "started" /\ run.item.direction = "Up"),
           run'.at \in SendsFile, run'.seen = run.seen, DOMAIN run' = DOMAIN run,
           AnItem(run'.item), run'.at # "send" => run'.item.stamp \in Versions,
           run'.at = "put" => run'.body \in Versions,
           NEW rows, RowsTyped(rows), rows.down = None, journal' = rows, saved' \in {saved, rows}
    PROVE  Sound'
<1>1. RunTyped(run')
  BY RunFollows DEF Sound, Working, SendsFile
<1>2. journal.down = None
  BY DEF Sound, Linked
<1>3. Linked'
  BY <1>2, LinkedOn DEF Sound, Free
<1>. QED  BY <1>1, <1>3 DEF Sound

LEMMA Sending ==
    ASSUME Sound, run.at \in SendsFile \ {"send"}
    PROVE  /\ AnItem(run.item) /\ run.item.stamp \in Versions /\ journal.down = None
           /\ RowsTyped(ForgottenUpload) /\ ForgottenUpload.down = None
           /\ Fields \subseteq DOMAIN run
<1>1. AnItem(run.item) /\ run.item.stamp \in Versions /\ journal.down = None
  BY DEF Sound, RunTyped, Linked, Working, SendsFile
<1>. QED  BY <1>1, RowsTypedChanged, JournalTyped DEF ForgottenUpload, Sound, RunTyped

LEMMA StoreTyped ==
    ASSUME Sound, NEW body \in Versions, run.item.stamp \in Versions, Store(body, FreshEtag),
           UNCHANGED <<local, copies, tmp>>, parked' \in {parked, None}, SameWorld
    PROVE  FilesTyped' /\ ServerMoves
<1>1. /\ server' \in [data : Versions, stamp : Versions, etag : Etags]
      /\ server'.etag = FreshEtag
  BY FreshEtagIsFresh DEF Store
<1>. QED  BY <1>1 DEF Sound, FilesTyped, ServerMoves, SameWorld, Some

LEMMA BodiesTyped ==
    ASSUME Sound, run.at = "put"
    PROVE  Bodies \subseteq Versions
BY LocalTyped DEF Bodies, Data, Sound, RunTyped

LEMMA AnsweredSound ==
    ASSUME Sound, RunsFine', FilesTyped', ServerMoves, UNCHANGED <<tmp, journal, saved>>,
           run.at \in {"put", "patch"}, NEW etag, Answered(etag)
    PROVE  Sound'
<1>1. AnItem(run.item) /\ run.item.stamp \in Versions /\ journal.down = None
      /\ Fields \subseteq DOMAIN run
  BY Sending DEF SendsFile
<1>2. /\ run'.at \in {"uploaded", "propfind"} /\ run'.seen = run.seen /\ DOMAIN run' = DOMAIN run
      /\ run'.item \in {run.item, [run.item EXCEPT !.etag = etag]}
  BY <1>1 DEF Answered, Fields
<1>3. AnItem(run'.item) /\ run'.item.stamp \in Versions
  BY <1>1, <1>2 DEF AnItem
<1>. QED  BY <1>1, <1>2, <1>3, SendsOn, JournalTyped DEF SendsFile

LEMMA ChunkSound ==
    ASSUME Sound, RunsFine', FilesTyped', UNCHANGED <<server, tmp>>, run.at \in {"put", "head"},
           NEW rows, RowsTyped(rows), rows.down = None, ChunkFinished(rows)
    PROVE  Sound'
<1>1. AnItem(run.item) /\ run.item.stamp \in Versions /\ journal.down = None
      /\ Fields \subseteq DOMAIN run
  BY Sending DEF SendsFile
<1>2. ServerMoves
  BY DEF ServerMoves
<1>3. CASE StillThere
  <2>1. /\ run'.at = "patch" /\ run'.seen = run.seen /\ DOMAIN run' = DOMAIN run
        /\ run'.item = run.item /\ journal' = rows /\ saved' = saved
    BY <1>1, <1>3 DEF ChunkFinished, Fields
  <2>. QED  BY <1>1, <1>2, <2>1, SendsOn DEF SendsFile
<1>4. CASE ~StillThere
  <2>1. \E status : Done(status, run.item, TRUE, journal) /\ saved' = saved
    BY <1>4 DEF ChunkFinished
  <2>. QED  BY <1>2, <2>1, StopsSound, JournalTyped
<1>. QED  BY <1>3, <1>4

LEMMA StartsUpload ==
    ASSUME Sound, RunsFine', ComputeContentChecksum \/ StartUpload
    PROVE  Sound'
<1>1. Fields \subseteq DOMAIN run /\ (run.at \in Working => AnItem(run.item))
  BY DEF Sound, RunTyped
<1>2. CASE ComputeContentChecksum
  <2>1. run.at = "started" /\ run.item.direction = "Up" /\ AnItem(run.item)
    BY <1>1, <1>2 DEF ComputeContentChecksum, IsUpload, Starts, At, Working
  <2>2. journal.down = None
    BY <2>1 DEF Sound, Linked
  <2>3. FilesTyped' /\ ServerMoves /\ tmp' = tmp
    BY <1>2 DEF ComputeContentChecksum, Sound, FilesTyped, SameFiles, SameWorld, ServerMoves
  <2>4. /\ run'.at = "send" /\ run'.seen = run.seen /\ DOMAIN run' = DOMAIN run
        /\ UNCHANGED <<journal, saved>>
    BY <1>1, <1>2 DEF ComputeContentChecksum, Fields
  <2>5. AnItem(run'.item)
    <3>1. PICK x, y : run' = [run EXCEPT !.at = "send", !.item.stamp = x, !.item.checksum = y]
      BY <1>2 DEF ComputeContentChecksum
    <3>2. run'.item = [run.item EXCEPT !.stamp = x, !.checksum = y]
      BY <1>1, <3>1 DEF Fields
    <3>. QED  BY <2>1, <3>2 DEF AnItem
  <2>. QED  BY <2>1, <2>2, <2>3, <2>4, <2>5, SendsOn, JournalTyped DEF SendsFile
<1>3. CASE StartUpload
  <2>1. run.at = "send" /\ local # None /\ local.stamp = run.item.stamp /\ AnItem(run.item)
    BY <1>1, <1>3 DEF StartUpload, At, StillThere, Working
  <2>2. journal.down = None
    BY <2>1 DEF Sound, Linked, SendsFile
  <2>3. FilesTyped' /\ ServerMoves /\ tmp' = tmp
    BY <1>3 DEF StartUpload, Sound, FilesTyped, SameFiles, SameWorld, ServerMoves
  <2>4. /\ run'.at \in {"head", "put"} /\ run'.seen = run.seen /\ DOMAIN run' = DOMAIN run
        /\ run'.item = run.item /\ run'.body = local.data /\ UNCHANGED <<journal, saved>>
    BY <1>1, <1>3 DEF StartUpload, Fields
  <2>5. local.data \in Versions /\ run.item.stamp \in Versions
    BY <2>1, LocalTyped DEF Sound
  <2>. QED  BY <2>1, <2>2, <2>3, <2>4, <2>5, SendsOn, JournalTyped DEF SendsFile
<1>. QED  BY <1>2, <1>3

LEMMA PutTyped ==
    ASSUME Sound, RunsFine', Put \/ UploadUnanswered \/ Post
    PROVE  Sound'
<1>1. run.at = "put"
  BY DEF Put, UploadUnanswered, Post, At
<1>2. Bodies \subseteq Versions /\ run.item.stamp \in Versions /\ journal.down = None
  BY <1>1, BodiesTyped, Sending DEF SendsFile
<1>3. CASE Put
  <2>1. FilesTyped' /\ ServerMoves
    BY <1>2, <1>3, StoreTyped DEF Put
  <2>. QED  BY <1>1, <1>3, <2>1, AnsweredSound DEF Put
<1>4. CASE UploadUnanswered
  <2>1. FilesTyped' /\ ServerMoves
    <3>1. CASE server' = server
      BY <1>4, <3>1 DEF UploadUnanswered, Sound, FilesTyped, SameWorld, ServerMoves
    <3>2. CASE \E body \in Bodies : Store(body, FreshEtag)
      BY <1>2, <1>4, <3>2, StoreTyped DEF UploadUnanswered
    <3>. QED  BY <1>4, <3>1, <3>2 DEF UploadUnanswered
  <2>. QED  BY <1>4, <2>1, BreaksSound DEF UploadUnanswered
<1>5. CASE Post
  <2>1. FilesTyped'
    BY <1>2, <1>5 DEF Post, Sound, FilesTyped, SameWorld, Some
  <2>2. /\ RowsTyped([journal EXCEPT !.up = [stamp |-> run.item.stamp,
                                            checksum |-> run.item.checksum]])
        /\ [journal EXCEPT !.up = [stamp |-> run.item.stamp,
                                   checksum |-> run.item.checksum]].down = None
    BY <1>2, RowsTypedChanged, JournalTyped
  <2>. QED  BY <1>1, <1>5, <2>1, <2>2, ChunkSound DEF Post
<1>. QED  BY <1>3, <1>4, <1>5

LEMMA PatchTyped ==
    ASSUME Sound, RunsFine', Patch \/ PatchUnanswered \/ PatchFails
    PROVE  Sound'
<1>1. run.at = "patch" /\ AnItem(run.item) /\ run.item.stamp \in Versions /\ journal.down = None
      /\ Fields \subseteq DOMAIN run
  <2>1. run.at = "patch"
    BY DEF Patch, Patched, PatchUnanswered, PatchFails, At
  <2>. QED  BY <2>1, Sending DEF SendsFile
<1>2. ASSUME Patched, UNCHANGED <<local, copies, tmp>>, SameWorld
      PROVE  FilesTyped' /\ ServerMoves
  <2>1. local.data \in Versions
    BY <1>2, LocalTyped DEF Patched, Sound
  <2>. QED  BY <1>1, <1>2, <2>1, StoreTyped DEF Patched
<1>3. CASE Patch
  <2>1. FilesTyped' /\ ServerMoves
    BY <1>2, <1>3 DEF Patch
  <2>. QED  BY <1>1, <1>3, <2>1, AnsweredSound DEF Patch
<1>4. CASE PatchUnanswered
  <2>1. FilesTyped' /\ ServerMoves /\ tmp' = tmp
    <3>1. CASE Patched
      BY <1>2, <1>4, <3>1 DEF PatchUnanswered
    <3>2. CASE UNCHANGED <<server, parked>>
      BY <1>4, <3>2 DEF PatchUnanswered, Sound, FilesTyped, SameWorld, ServerMoves
    <3>. QED  BY <1>4, <3>1, <3>2 DEF PatchUnanswered
  <2>2. CASE Continue("head")
    <3>1. /\ run'.at = "head" /\ run'.seen = run.seen /\ DOMAIN run' = DOMAIN run
          /\ run'.item = run.item /\ UNCHANGED <<journal, saved>>
      BY <1>1, <2>2 DEF Continue, Fields
    <3>. QED  BY <1>1, <2>1, <3>1, SendsOn, JournalTyped DEF SendsFile
  <2>3. CASE Breaks(journal)
    BY <2>1, <2>3, BreaksSound
  <2>. QED  BY <1>4, <2>2, <2>3 DEF PatchUnanswered
<1>5. CASE PatchFails
  <2>1. Quiet BY <1>5 DEF PatchFails, Quiet
  <2>2. FilesTyped' /\ ServerMoves /\ tmp' = tmp
    BY <2>1, QuietTyped DEF Sound, Quiet, SameFiles, ServerMoves
  <2>3. \E status, http : Done(status, run.item, http, journal) /\ saved' = saved
    BY <1>5 DEF PatchFails, Fails
  <2>. QED  BY <2>2, <2>3, StopsSound, JournalTyped
<1>. QED  BY <1>3, <1>4, <1>5

LEMMA RefusedTyped ==
    ASSUME Sound, RunsFine',
           LocalFileChanged \/ PreconditionFailed \/ ChecksumMismatch \/ QueryFails
    PROVE  Sound'
<1>1. CASE LocalFileChanged \/ QueryFails
  <2>1. Quiet /\ ((\E status : Fails(status, journal)) \/ Breaks(journal))
    BY <1>1 DEF LocalFileChanged, QueryFails, Quiet
  <2>. QED  BY <2>1, JournalTyped, FailsSound
<1>2. CASE PreconditionFailed
  <2>1. Quiet BY <1>2 DEF PreconditionFailed, Quiet
  <2>2. FilesTyped' /\ ServerMoves /\ tmp' = tmp
    BY <2>1, QuietTyped DEF Sound, Quiet, SameFiles, ServerMoves
  <2>. QED  BY <1>2, <2>2, StopsSound, JournalTyped DEF PreconditionFailed
<1>3. CASE ChecksumMismatch
  <2>1. run.at \in {"put", "patch"}
    BY <1>3 DEF ChecksumMismatch, At
  <2>2. journal.down = None /\ RowsTyped(ForgottenUpload) /\ ForgottenUpload.down = None
    BY <2>1, Sending DEF SendsFile
  <2>3. FilesTyped' /\ ServerMoves /\ tmp' = tmp
    BY <1>3 DEF ChecksumMismatch, Sound, FilesTyped, SameWorld, ServerMoves, Some
  <2>4. PICK rows \in {ForgottenUpload, journal} :
          Done("NormalError", run.item, TRUE, rows) /\ saved' \in {saved, rows}
    BY <1>3 DEF ChecksumMismatch
  <2>. QED  BY <2>2, <2>3, <2>4, StopsSound, JournalTyped
<1>. QED  BY <1>1, <1>2, <1>3

LEMMA EndsUpload ==
    ASSUME Sound, RunsFine', Head \/ RestartUpload \/ QueryEtag \/ Finalize
    PROVE  Sound'
<1>1. AnItem(run.item) /\ run.item.stamp \in Versions /\ journal.down = None
      /\ RowsTyped(ForgottenUpload) /\ ForgottenUpload.down = None
      /\ Fields \subseteq DOMAIN run
  <2>1. run.at \in SendsFile \ {"send"}
    BY DEF Head, RestartUpload, QueryEtag, Finalize, At, SendsFile
  <2>. QED  BY <2>1, Sending
<1>2. Quiet
  BY DEF Head, RestartUpload, QueryEtag, Finalize, Quiet
<1>3. FilesTyped' /\ ServerMoves /\ UNCHANGED <<server, tmp>>
  BY <1>2, QuietTyped DEF Sound, Quiet, SameFiles, ServerMoves
<1>4. CASE Head
  BY <1>1, <1>3, <1>4, ChunkSound, JournalTyped DEF Head, At
<1>5. CASE RestartUpload
  <2>1. CASE run.restarted \/ local = None
    <3>1. CASE run.restarted
      <4>1. Done("NormalError", run.item, TRUE, journal) /\ saved' = saved
        BY <1>5, <3>1 DEF RestartUpload
      <4>. QED  BY <1>3, <4>1, StopsSound, JournalTyped
    <3>2. CASE ~run.restarted /\ local = None
      <4>1. Done("SoftError", run.item, TRUE, ForgottenUpload) /\ saved' = ForgottenUpload
        BY <1>5, <3>2 DEF RestartUpload
      <4>. QED  BY <1>1, <1>3, <4>1, StopsSound
    <3>. QED  BY <2>1, <3>1, <3>2
  <2>2. CASE ~run.restarted /\ local # None
    <3>1. /\ run'.at = "put" /\ run'.seen = run.seen /\ DOMAIN run' = DOMAIN run
          /\ run'.item = run.item /\ run'.body = local.data
          /\ journal' = ForgottenUpload /\ saved' = ForgottenUpload
      BY <1>1, <1>5, <2>2 DEF RestartUpload, Fields
    <3>2. local.data \in Versions
      BY <2>2, LocalTyped DEF Sound
    <3>3. run.at \in SendsFile
      BY <1>5 DEF RestartUpload, At, SendsFile
    <3>. QED  BY <1>1, <1>3, <3>1, <3>2, <3>3, SendsOn DEF SendsFile
  <2>. QED  BY <2>1, <2>2
<1>6. CASE QueryEtag
  <2>1. CASE server = None
    BY <1>2, <1>6, <2>1, FailsSound, JournalTyped DEF QueryEtag
  <2>2. CASE server # None
    <3>1. /\ run'.at = "uploaded" /\ run'.seen = run.seen /\ DOMAIN run' = DOMAIN run
          /\ run'.item = [run.item EXCEPT !.etag = server.etag] /\ UNCHANGED <<journal, saved>>
      BY <1>1, <1>6, <2>2 DEF QueryEtag, Fields
    <3>2. AnItem(run'.item) /\ run'.item.stamp \in Versions
      BY <1>1, <3>1 DEF AnItem
    <3>3. run.at \in SendsFile
      BY <1>6 DEF QueryEtag, At, SendsFile
    <3>. QED  BY <1>1, <1>3, <3>1, <3>2, <3>3, SendsOn, JournalTyped DEF SendsFile
  <2>. QED  BY <2>1, <2>2
<1>7. CASE Finalize
  <2> DEFINE rows == [Recorded(run.item, journal) EXCEPT !.up = None]
  <2>1. RowsTyped(rows) /\ rows.down = journal.down
    <3>1. RowsTyped(Recorded(run.item, journal))
          /\ Recorded(run.item, journal).down = journal.down
      BY <1>1, RecordedTyped, JournalTyped
    <3>. QED  BY <3>1, RowsTypedChanged
  <2>2. Done("Success", run.item, TRUE, rows) /\ saved' = rows
    BY <1>7 DEF Finalize
  <2> HIDE DEF rows
  <2>. QED  BY <1>3, <2>1, <2>2, StopsSound
<1>. QED  BY <1>4, <1>5, <1>6, <1>7

LEMMA UploadTyped ==
    ASSUME Sound, Upload \/ UploadUnanswered \/ PatchUnanswered \/ QueryFails
    PROVE  Sound'
<1>1. RunsFine'
  BY UploadFine DEF Sound
<1>. QED  BY <1>1, StartsUpload, PutTyped, PatchTyped, RefusedTyped, EndsUpload DEF Upload

------------------------------------------------------------------------------
LEMMA UnseenTyped ==
    ASSUME Sound, unseen \subseteq Versions, [Next]_vars
    PROVE  unseen' \subseteq Versions
<1>1. local # None => local.data \in Versions
  BY LocalTyped DEF Sound
<1>2. ASSUME NEW status, NEW item, NEW http, NEW rows, Done(status, item, http, rows)
      PROVE  unseen' \subseteq Versions
  BY <1>1, <1>2 DEF Done, Forgotten
<1>3. \A rows : Breaks(rows) => unseen' \subseteq Versions
  BY <1>2 DEF Breaks
<1>4. \A status, rows : Fails(status, rows) => unseen' \subseteq Versions
  BY <1>2 DEF Fails
<1>5. \A file, changed : Found(file, changed) \subseteq unseen
  BY DEF Found
<1>6. CASE Users
  <2>1. ASSUME NEW given, Write(given) PROVE unseen' \subseteq Versions
    BY <2>1, MadeTyped DEF Write, Sound
  <2>. QED  BY <1>6, <2>1 DEF Users, LocalWrite, LocalTouch, LocalDelete, RemoteWrite, RemoteDelete
<1>7. CASE Discovery \/ Commit \/ Tick \/ Unlocked \/ Calm \/ Crash \/ Abort \/ Expire
  BY <1>5, <1>7 DEF Discovery, StartRun, ListLocal, ListServer, Decide, EndRun, Commit, Tick,
                    Unlocked, Calm, Crash, Abort, Expire
<1>8. CASE PropagateIgnore \/ PropagateUpdateMetaData \/ Removal \/ RemoteDeleteUnanswered
  BY <1>2, <1>3, <1>4, <1>8
     DEF PropagateIgnore, PropagateUpdateMetaData, Removal, PropagateLocalRemove,
         PropagateRemoteDelete, Finishes, RemoteDeleteUnanswered
<1>9. CASE Download \/ GetFails \/ GetBreaksOff \/ LockedFile
  BY <1>2, <1>3, <1>4, <1>5, <1>9
     DEF Download, ConflictChecksumComputed, StartOther, Touch, FinishDownload, StartDownload, Get,
         GetNotFound, GetRefused, GetFails, GetBreaksOff, ChecksumFail, CreateConflict,
         RefuseToReplace, DownloadFinished, RemoveTarget, RenameTmp, RenameFails, UpdateMetadata,
         LockedFile
<1>10. CASE Upload \/ UploadUnanswered \/ PatchUnanswered \/ QueryFails
  <2>1. \A rows : ChunkFinished(rows) => unseen' \subseteq Versions
    BY <1>2 DEF ChunkFinished
  <2>. QED  BY <1>2, <1>3, <1>4, <1>10, <2>1
            DEF Upload, ComputeContentChecksum, LocalFileChanged, StartUpload, Put,
                PreconditionFailed, ChecksumMismatch, Post, Patch, PatchFails, Head, RestartUpload,
                QueryEtag, Finalize, UploadUnanswered, PatchUnanswered, QueryFails
<1>. QED  BY <1>6, <1>7, <1>8, <1>9, <1>10 DEF Next, Job, Fault, vars

LEMMA StepTyped ==
    ASSUME Sound, [Next]_vars
    PROVE  Sound'
<1>1. CASE UNCHANGED vars
  BY <1>1, StepFine DEF vars, Sound, RunsFine, FilesTyped, Linked, PartOf
<1>2. CASE Users
  BY <1>2, UsersTyped
<1>3. CASE Commit \/ Tick \/ Unlocked \/ Calm \/ Expire
  BY <1>3, OthersTyped
<1>4. CASE Crash \/ Abort
  BY <1>4, CrashTyped, AbortTyped
<1>5. CASE Discovery
  BY <1>5, ListingTyped, DecideTyped
<1>6. CASE PropagateIgnore \/ PropagateUpdateMetaData \/ Removal \/ RemoteDeleteUnanswered
  BY <1>6, SimpleJobsTyped
<1>7. CASE Download \/ GetFails \/ GetBreaksOff \/ LockedFile
  BY <1>7, DownloadTyped
<1>8. CASE Upload \/ UploadUnanswered \/ PatchUnanswered \/ QueryFails
  BY <1>8, UploadTyped
<1>. QED  BY <1>1, <1>2, <1>3, <1>4, <1>5, <1>6, <1>7, <1>8 DEF Next, Job, Fault

LEMMA InitTyped == Init => Sound
<1>. SUFFICES ASSUME Init PROVE Sound OBVIOUS
<1>1. RunsFine
  BY InitFine
<1>2. 1 \in Versions /\ 1 \in 0..MaxVersions /\ 0 \in 0..MaxVersions
  BY BoundsAssumption DEF Versions
<1>3. /\ scenario \in Scenarios /\ saved = journal /\ run = Idle
      /\ copies = {} /\ unseen = {} /\ tmp = None /\ parked = None
  BY DEF Init
<1>4. CASE scenario.synced
  <2> DEFINE first == CHOOSE e \in Etags : TRUE
  <2>1. first \in Etags
    BY FreshEtagIsFresh
  <2>2. /\ made = 1 /\ owed = {1} /\ local = [data |-> 1, stamp |-> 1]
        /\ server = [data |-> 1, stamp |-> 1, etag |-> first]
        /\ journal.down = None /\ journal.up = None /\ journal.db.stamp = 1
    BY <1>4 DEF Init, NoFile
  <2> HIDE DEF first
  <2>3. FilesTyped
    BY <1>2, <1>3, <2>1, <2>2 DEF FilesTyped, Some
  <2>4. RowsTyped(journal)
    BY <1>1, <1>2, <2>2 DEF RowsTyped, RunsFine, EntryOf
  <2>. QED  BY <1>1, <1>3, <2>2, <2>3, <2>4, EndingTyped DEF Sound, Linked, PartOf, Asks,
               SendsFile
<1>5. CASE ~scenario.synced
  <2>1. made = 0 /\ owed = {} /\ local = None /\ server = None /\ journal = NoFile
    BY <1>5 DEF Init
  <2>2. FilesTyped
    BY <1>2, <1>3, <2>1 DEF FilesTyped, Some
  <2>3. RowsTyped(journal)
    BY <1>1, <2>1 DEF RowsTyped, RunsFine, EntryOf, NoFile
  <2>. QED  BY <1>1, <1>3, <2>1, <2>2, <2>3, EndingTyped DEF Sound, Linked, PartOf, Asks,
               SendsFile
<1>. QED  BY <1>4, <1>5

(* For any contents, faults, permissions and times: no file, part or copy is *)
(* made up of two versions, also where the server sends no checksums.  The   *)
(* etag of the row tells what a part is of, before and after a crash.        *)
THEOREM TypeCorrect == Spec => []TypeOK
<1> DEFINE Typed == Sound /\ unseen \subseteq Versions
<1>1. Init => Typed
  <2>1. Init => unseen = {} BY DEF Init
  <2>. QED  BY <2>1, InitTyped
<1>2. Typed /\ [Next]_vars => Typed'
  BY StepTyped, UnseenTyped
<1>3. Typed => TypeOK
  BY SoundIsTyped
<1>. QED  BY <1>1, <1>2, <1>3, PTL DEF Spec

------------------------------------------------------------------------------
(* Why the journal tells the truth: no two versions have the same stamp,    *)
(* and whatever a run takes from the server it takes with the etag it is    *)
(* of; if the server's file has another etag by now, it is a later one, and *)
(* its stamp is none the run or the journal knows.                          *)
Given == 1..made

Same == local # None /\ server # None /\ local.stamp = server.stamp => local.data = server.data

FilesTold == Same /\ EntryOf(local, Given) /\ EntryOf(server, Given)

Stamped ==
    /\ EntryOf(journal.db, Given) /\ EntryOf(saved.db, Given)
    /\ \A side \in {run.seen.local, run.seen.server} : side = Unread \/ EntryOf(side, Given)
    /\ run.at \in Working \ {"send"} => run.item.stamp \in Given

IsKnown(stamp) ==
    \/ \E x \in {local, journal.db} : x # None /\ x.stamp = stamp
    \/ \E x \in {run.seen.local, run.seen.server} : x \notin {None, Unread} /\ x.stamp = stamp

LaterThanJournal == journal.db # None => server.etag # journal.db.etag

SeenIsCurrent ==
    run.at = "listing" /\ run.seen.server \notin {None, Unread} /\ server # None =>
        \/ /\ server.etag = run.seen.server.etag /\ server.stamp = run.seen.server.stamp
           /\ run.seen.server.checksum \in {None, server.data}
        \/ server.etag # run.seen.server.etag /\ ~IsKnown(server.stamp) /\ LaterThanJournal

Fetches(r) == Asks(r) \/ r.at \in {"touch", "download", "get", "compare", "replace", "rename"}

FetchIsCurrent ==
    Fetches(run) /\ server # None =>
        \/ /\ server.etag = run.item.etag
           /\ run.at = "touch" \/ (Asks(run) /\ run.item.instruction = "CONFLICT"
                                             /\ run.item.checksum # None) =>
                 server.data = run.item.checksum
           /\ run.at \in {"compare", "replace", "rename"} => tmp.data = server.data
        \/ server.etag # run.item.etag /\ server.stamp # run.item.stamp /\ LaterThanJournal

OfServer == server # None /\ server.etag = run.item.etag => server.stamp = run.item.stamp

ItemIsTruthful ==
    /\ run.at = "touch" /\ local # None => local.data = run.item.checksum
    /\ run.at = "started" /\ run.item.instruction = "UPDATE_METADATA" =>
          \/ /\ journal.db # None /\ run.item.stamp = journal.db.stamp
             /\ run.item.etag = journal.db.etag
          \/ OfServer
    /\ run.at = "put" /\ local # None /\ local.stamp = run.item.stamp => run.body = local.data
    /\ run.at = "propfind" /\ server # None => server.stamp = run.item.stamp
    /\ run.at = "uploaded" => OfServer
    /\ run.at = "downloaded" /\ server # None /\ server.etag = run.item.etag
          /\ local # None /\ local.stamp = run.item.stamp => local.data = server.data

Told ==
    /\ FilesTold /\ Truthful(journal) /\ Truthful(saved) /\ Stamped
    /\ SeenIsCurrent /\ FetchIsCurrent /\ ItemIsTruthful
    /\ run.at \in Working => saved.db = journal.db

------------------------------------------------------------------------------
LEMMA FreshIsNew ==
    ASSUME Sound
    PROVE  /\ journal.db # None => journal.db.etag # FreshEtag
           /\ saved.db # None => saved.db.etag # FreshEtag
           /\ run.at \in Working => run.item.etag # FreshEtag
           /\ run.seen.server \notin {None, Unread} => run.seen.server.etag # FreshEtag
<1>1. \A x \in {journal.db, saved.db} : EtagOf(x) \subseteq Remembered
  BY DEF Remembered
<1>2. run.at \in Working => run.item.etag \in Remembered
  BY DEF Remembered, AtWork, Working
<1>3. run.seen.server # Unread => EtagOf(run.seen.server) \subseteq Remembered
  BY DEF Remembered
<1>. QED  BY <1>1, <1>2, <1>3, FreshEtagIsFresh DEF EtagOf

LEMMA GivenGrows ==
    ASSUME FilesTyped
    PROVE  /\ made + 1 \notin Given
           /\ made' \in {made, made + 1} => Given \subseteq Given'
           /\ made' = made + 1 => made + 1 \in Given'
           /\ made' = made => Given' = Given
<1>1. made \in Nat BY DEF FilesTyped
<1>. QED  BY <1>1 DEF Given

(* The users: what they write has a stamp nobody knows yet. *)
LEMMA LocalTold ==
    ASSUME Sound, Told, World, server' = server, run.at # "touch",
           \/ local' = None /\ made' = made
           \/ local'.stamp = made + 1 /\ made' = made + 1
    PROVE  Told'
<1>1. UNCHANGED <<tmp, journal, saved, run, scenario>>
  BY DEF World
<1>2. made + 1 \notin Given /\ Given \subseteq Given' /\ (local' # None => local'.stamp = made + 1)
  BY GivenGrows DEF Sound
<1>3. local' # None => local'.stamp \in Given'
  BY <1>2, GivenGrows DEF Sound
<1>4. Stamped'
  BY <1>1, <1>2, <1>3 DEF Told, FilesTold, Stamped, EntryOf
<1>5. FilesTold'
  BY <1>2, <1>3 DEF Told, FilesTold, Same, EntryOf
<1>6. Truthful(journal)' /\ Truthful(saved)'
  BY <1>1, <1>2 DEF Told, FilesTold, Truthful, Stamped, EntryOf
<1>7. SeenIsCurrent'
  BY <1>1, <1>2 DEF Told, FilesTold, SeenIsCurrent, IsKnown, LaterThanJournal, Stamped, EntryOf
<1>8. FetchIsCurrent'
  BY <1>1 DEF Told, FetchIsCurrent, LaterThanJournal, Fetches, Asks
<1>9. ItemIsTruthful'
  BY <1>1, <1>2 DEF Told, FilesTold, ItemIsTruthful, OfServer, Stamped, Working
<1>. QED  BY <1>1, <1>4, <1>5, <1>6, <1>7, <1>8, <1>9 DEF Told

LEMMA ServerTold ==
    ASSUME Sound, Told, World, local' = local, run.at # "propfind",
           \/ server' = None /\ made' = made
           \/ server'.stamp = made + 1 /\ server'.etag = FreshEtag /\ made' = made + 1
    PROVE  Told'
<1>1. UNCHANGED <<tmp, journal, saved, run, scenario>>
  BY DEF World
<1>2. /\ made + 1 \notin Given /\ Given \subseteq Given'
      /\ server' # None => server'.stamp = made + 1 /\ server'.etag = FreshEtag
  BY GivenGrows DEF Sound
<1>3. server' # None => server'.stamp \in Given'
  BY <1>2, GivenGrows DEF Sound
<1>4. Stamped'
  BY <1>1, <1>2, <1>3 DEF Told, FilesTold, Stamped, EntryOf
<1>5. FilesTold'
  BY <1>2, <1>3 DEF Told, FilesTold, Same, EntryOf
<1>6. Truthful(journal)' /\ Truthful(saved)'
  BY <1>1, <1>2, FreshIsNew DEF Truthful
<1>7. SeenIsCurrent'
  BY <1>1, <1>2, FreshIsNew DEF Told, FilesTold, SeenIsCurrent, IsKnown, LaterThanJournal,
                                Stamped, EntryOf
<1>8. FetchIsCurrent'
  <2>1. Fetches(run) => run.at \in Working \ {"send"}
    BY DEF Fetches, Asks, Working
  <2>. QED  BY <1>1, <1>2, <2>1, FreshIsNew DEF Told, FilesTold, FetchIsCurrent,
               LaterThanJournal, Fetches, Asks, Stamped
<1>9. ItemIsTruthful'
  BY <1>1, <1>2, FreshIsNew DEF Told, ItemIsTruthful, OfServer, Working
<1>. QED  BY <1>1, <1>4, <1>5, <1>6, <1>7, <1>8, <1>9 DEF Told

LEMMA UsersTold ==
    ASSUME Sound, Told, ~scenario.windows, Users
    PROVE  Told'
<1>1. ASSUME NEW given, Write(given) PROVE made' = made + 1
  BY <1>1 DEF Write
<1>2. ASSUME LocalWrite PROVE Told'
  <2>1. local'.stamp = made + 1 /\ made' = made + 1
    BY <1>1, <1>2 DEF LocalWrite
  <2>. QED  BY <1>2, <2>1, LocalTold DEF LocalWrite, BetweenChecksumAndTouch
<1>3. ASSUME LocalTouch PROVE Told'
  <2>1. local'.stamp = made + 1
    BY <1>3 DEF LocalTouch, Sound, FilesTyped, Some
  <2>. QED  BY <1>3, <2>1, LocalTold DEF LocalTouch, BetweenChecksumAndTouch
<1>4. ASSUME LocalDelete PROVE Told'
  BY <1>4, LocalTold DEF LocalDelete, BetweenChecksumAndTouch
<1>5. ASSUME RemoteWrite PROVE Told'
  <2>1. server'.stamp = made + 1 /\ server'.etag = FreshEtag /\ made' = made + 1
    BY <1>1, <1>5 DEF RemoteWrite
  <2>. QED  BY <1>5, <2>1, ServerTold DEF RemoteWrite, BetweenUploadAndEtag
<1>6. ASSUME RemoteDelete PROVE Told'
  BY <1>6, ServerTold DEF RemoteDelete, BetweenUploadAndEtag
<1>. QED  BY <1>2, <1>3, <1>4, <1>5, <1>6 DEF Users

------------------------------------------------------------------------------
(* What is not a step of the run, and its ends: no new file, no new record. *)
LEMMA FewerTold ==
    ASSUME Told, made' = made, local' \in {local, None}, server' \in {server, None}
    PROVE  /\ FilesTold'
           /\ journal'.db \in {None, journal.db, saved.db} =>
                Truthful(journal)' /\ EntryOf(journal.db, Given)'
           /\ saved'.db \in {None, journal.db, saved.db} =>
                Truthful(saved)' /\ EntryOf(saved.db, Given)'
<1>1. Given' = Given BY DEF Given
<1>. QED  BY <1>1 DEF Told, FilesTold, Same, Truthful, Stamped, EntryOf

LEMMA RestsTold ==
    ASSUME run' \in {Idle, Ending}, FilesTold', Truthful(journal)', Truthful(saved)',
           EntryOf(journal.db, Given)', EntryOf(saved.db, Given)'
    PROVE  Told'
<1>1. /\ run'.at \in {"idle", "ending"}
      /\ run'.seen.local = Unread /\ run'.seen.server = Unread
  BY DEF Idle, Ending
<1>2. ~Fetches(run') /\ run'.at \notin Working
  BY <1>1 DEF Fetches, Asks, Working
<1>. QED  BY <1>1, <1>2 DEF Told, FilesTold, Stamped, SeenIsCurrent, FetchIsCurrent,
                            ItemIsTruthful, Working

LEMMA StopsTold ==
    ASSUME Told, run' \in {Idle, Ending},
           made' = made, local' \in {local, None}, server' \in {server, None},
           journal'.db \in {None, journal.db, saved.db},
           saved'.db \in {None, journal.db, saved.db}
    PROVE  Told'
BY FewerTold, RestsTold

LEMMA AsideTold ==
    ASSUME Told, UNCHANGED <<local, server, tmp, run, made>>, journal'.db = journal.db,
           saved'.db \in {saved.db, journal.db}
    PROVE  Told'
<1>1. Given' = Given BY DEF Given
<1>2. Stamped' BY <1>1 DEF Told, FilesTold, Stamped
<1>3. SeenIsCurrent' BY DEF Told, SeenIsCurrent, IsKnown, LaterThanJournal
<1>4. FetchIsCurrent' BY DEF Told, FetchIsCurrent, LaterThanJournal, Fetches, Asks
<1>5. ItemIsTruthful' BY DEF Told, ItemIsTruthful, OfServer
<1>. QED  BY <1>2, <1>3, <1>4, <1>5, FewerTold DEF Told

LEMMA OthersTold ==
    ASSUME Sound, Told, Commit \/ Tick \/ Unlocked \/ Calm \/ Expire
    PROVE  Told'
<1>1. UNCHANGED <<local, server, tmp, run, made>>
  BY DEF Commit, Tick, Unlocked, Calm, Expire
<1>2. journal'.db = journal.db /\ saved'.db \in {saved.db, journal.db}
  <2>1. {"db", "down", "up", "black"} \subseteq DOMAIN journal
    BY DEF Sound, RowsTyped, RowsFine
  <2>. QED  BY <2>1 DEF Commit, Tick, Unlocked, Calm, Expire, Forgiving
<1>. QED  BY <1>1, <1>2, AsideTold

LEMMA CrashTold ==
    ASSUME Sound, Told, Crash \/ Abort \/ EndRun
    PROVE  Told'
<1>1. UNCHANGED <<local, server, made>> /\ run' \in {Idle, Ending}
  BY DEF Crash, Abort, EndRun, SameFiles, SameWorld
<1>2. journal'.db \in {None, journal.db, saved.db} /\ saved'.db \in {None, journal.db, saved.db}
  <2>1. {"db", "down", "up", "black"} \subseteq DOMAIN saved
    BY DEF Sound, RowsTyped, RowsFine
  <2>. QED  BY <2>1 DEF Crash, Abort, EndRun, Forgiving
<1>. QED  BY <1>1, <1>2, StopsTold

------------------------------------------------------------------------------
(* Discovery. *)
LEMMA ListingTold ==
    ASSUME Sound, Told, Discovery, ~Decide, ~EndRun
    PROVE  Told'
<1>1. UNCHANGED <<local, server, tmp, journal, saved, made>>
  BY DEF Discovery, StartRun, ListLocal, ListServer, SameFiles, SameWorld
<1>2. run'.at = "listing"
  BY DEF Discovery, StartRun, ListLocal, ListServer, At, Idle, Sound, RunTyped, Fields
<1>3. run'.at \notin Working /\ ~Fetches(run')
  BY <1>2 DEF Working, Fetches, Asks
<1>4. /\ FetchIsCurrent' /\ ItemIsTruthful'
      /\ FilesTold' /\ Truthful(journal)' /\ Truthful(saved)'
  BY <1>1, <1>2, <1>3, FewerTold DEF Told, FetchIsCurrent, ItemIsTruthful
<1>5. Given' = Given BY <1>1 DEF Given
<1>6. /\ Fields \subseteq DOMAIN run /\ {"local", "server"} \subseteq DOMAIN run.seen
      /\ Fields \subseteq DOMAIN Idle /\ {"local", "server"} \subseteq DOMAIN Idle.seen
  BY DEF Sound, RunTyped, Fields, Idle
<1>7. CASE \E mode : StartRun(mode)
  <2>1. run'.seen.local \in {None, Unread} /\ run'.seen.server = Unread
    BY <1>6, <1>7 DEF StartRun, Idle, Fields
  <2>. QED  BY <1>1, <1>3, <1>4, <1>5, <2>1 DEF Told, FilesTold, Stamped, EntryOf, SeenIsCurrent
<1>8. CASE ListLocal
  <2>1. /\ run'.seen.local = LocalInfo /\ run'.seen.server = run.seen.server
        /\ run.at = "listing"
    BY <1>6, <1>8 DEF ListLocal, At, Fields
  <2>2. Stamped'
    BY <1>1, <1>3, <1>5, <2>1 DEF Told, FilesTold, Stamped, EntryOf, LocalInfo
  <2>3. SeenIsCurrent'
    BY <1>1, <2>1 DEF Told, SeenIsCurrent, IsKnown, LaterThanJournal, LocalInfo
  <2>. QED  BY <1>1, <1>3, <1>4, <2>2, <2>3 DEF Told
<1>9. CASE ListServer
  <2>1. run'.seen.local = run.seen.local /\ run'.seen.server = RemoteInfo
    BY <1>6, <1>9 DEF ListServer, Fields
  <2>2. Stamped'
    BY <1>1, <1>3, <1>5, <2>1 DEF Told, FilesTold, Stamped, EntryOf, RemoteInfo
  <2>3. SeenIsCurrent'
    BY <1>1, <2>1 DEF SeenIsCurrent, RemoteInfo, Checksum
  <2>. QED  BY <1>1, <1>3, <1>4, <2>2, <2>3 DEF Told
<1>. QED  BY <1>7, <1>8, <1>9 DEF Discovery

LEMMA DecideTold ==
    ASSUME Sound, Told, Decide
    PROVE  Told'
<1>0. PICK Stamps, Tags :
        /\ Stamps = {x.stamp : x \in {run.seen.local, run.seen.server, journal.db} \ {None}}
        /\ Tags = {x.etag : x \in {run.seen.server} \ {None}}
  OBVIOUS
<1>1. UNCHANGED <<local, server, made>>
  BY DEF Decide, SameWorld
<1>2. Unread \notin {run.seen.local, run.seen.server} /\ run.at = "listing"
  BY DEF Decide, At
<1>3. /\ run' = Ending \/ (run'.at = "started" /\ run'.seen = Idle.seen)
      /\ run'.at = "started" =>
           /\ Sourced(run'.item, run.seen.server, journal.db, journal.up, Stamps, Tags)
           /\ run'.item.stamp \in Stamps
           /\ journal'.db = journal.db
      /\ journal'.db \in {None, journal.db} /\ saved' = journal'
  <2>1. /\ EntryOf(run.seen.local, Stamps) /\ EntryOf(run.seen.server, Stamps)
        /\ EntryOf(journal.db, Stamps)
        /\ run.seen.server # None => run.seen.server.etag \in Tags
    BY <1>0 DEF EntryOf
  <2>. QED  BY <2>1, DecidesSourced
<1>4. CASE run' = Ending
  BY <1>1, <1>3, <1>4, StopsTold
<1>5. CASE run'.at = "started" /\ run'.seen = Idle.seen
  <2> DEFINE item == run'.item
  <2>1. /\ Sourced(item, run.seen.server, journal.db, journal.up, Stamps, Tags)
        /\ item.stamp \in Stamps /\ journal'.db = journal.db
    BY <1>3, <1>5
  <2>2. Stamps \subseteq Given /\ Given' = Given
    BY <1>0, <1>1, <1>2 DEF Told, FilesTold, Stamped, EntryOf, Given
  <2>3. \A x \in Stamps : IsKnown(x)
    BY <1>0, <1>2 DEF IsKnown
  <2>4. /\ FilesTold' /\ Truthful(journal)' /\ Truthful(saved)'
        /\ EntryOf(journal.db, Given)' /\ EntryOf(saved.db, Given)'
    BY <1>1, <1>3, FewerTold
  <2>5. Stamped'
    BY <1>5, <2>1, <2>2, <2>4 DEF FilesTold, Stamped, Idle
  <2>6. server # None =>
          \/ /\ server.etag = run.seen.server.etag /\ server.stamp = run.seen.server.stamp
             /\ run.seen.server.checksum \in {None, server.data}
          \/ run.seen.server = None
          \/ server.etag # run.seen.server.etag /\ ~IsKnown(server.stamp) /\ LaterThanJournal
    BY <1>2 DEF Told, SeenIsCurrent
  <2>7. FetchIsCurrent'
    <3>1. SUFFICES ASSUME Fetches(run)', server' # None PROVE FetchIsCurrent'
      BY DEF FetchIsCurrent
    <3>2. Asks(run)' /\ item.etag \in Tags
      BY <1>5, <2>1, <3>1 DEF Fetches, Asks, Sourced
    <3>3. run.seen.server # None /\ item.etag = run.seen.server.etag
      BY <1>0, <3>2
    <3>4. item.instruction = "CONFLICT" /\ item.checksum # None =>
             item.checksum = run.seen.server.checksum
      BY <2>1 DEF Sourced
    <3>5. LaterThanJournal => LaterThanJournal'
      BY <1>1, <2>1 DEF LaterThanJournal
    <3>. QED  BY <1>1, <1>5, <2>1, <2>3, <2>6, <3>1, <3>3, <3>4, <3>5 DEF FetchIsCurrent
  <2>8. ItemIsTruthful'
    <3>1. item.instruction = "UPDATE_METADATA" =>
            \/ journal.db # None /\ item.stamp = journal.db.stamp /\ item.etag = journal.db.etag
            \/ OfServer'
      BY <1>1, <2>1, <2>6 DEF Sourced, OfServer
    <3>. QED  BY <1>5, <2>1, <3>1 DEF ItemIsTruthful
  <2>. QED  BY <1>3, <1>5, <2>4, <2>5, <2>7, <2>8 DEF Told, SeenIsCurrent
<1>. QED  BY <1>3, <1>4, <1>5

------------------------------------------------------------------------------
(* The end of a job: what its record says is true of the files as they are. *)
LEMMA DoneRests ==
    ASSUME NEW status, NEW item, NEW http, NEW rows, RowsFine(rows), Done(status, item, http, rows)
    PROVE  run' = Ending /\ journal'.db = rows.db
BY DEF Done, RowsFine

LEMMA RecordsTold ==
    ASSUME made' = made, FilesTold',
           NEW status, NEW item, NEW http, NEW rows, RowsFine(rows), Done(status, item, http, rows),
           EntryOf(rows.db, Given),
           rows.db # None /\ local' # None /\ server' # None
             /\ local'.stamp = rows.db.stamp /\ server'.etag = rows.db.etag
               => local'.data = server'.data,
           saved' = rows \/ (Truthful(saved)' /\ EntryOf(saved.db, Given)')
    PROVE  Told'
<1>1. Given' = Given BY DEF Given
<1>2. run' = Ending /\ journal'.db = rows.db
  BY DoneRests
<1>3. Truthful(journal)' /\ EntryOf(journal.db, Given)'
  BY <1>1, <1>2 DEF Truthful, EntryOf
<1>4. saved' = rows => Truthful(saved)' /\ EntryOf(saved.db, Given)'
  BY <1>1 DEF Truthful, EntryOf
<1>. QED  BY <1>2, <1>3, <1>4, RestsTold

LEMMA EndsTold ==
    ASSUME Told, made' = made, local' \in {local, None}, server' \in {server, None},
           NEW status, NEW item, NEW http, NEW rows, RowsFine(rows), Done(status, item, http, rows),
           rows.db \in {None, journal.db}, saved' \in {saved, rows}
    PROVE  Told'
<1>1. run' = Ending /\ journal'.db = rows.db
  BY DoneRests
<1>. QED  BY <1>1, StopsTold

(* A run that ends without a record. *)
LEMMA GivesUpTold ==
    ASSUME Told, RowsFine(journal), made' = made, local' \in {local, None},
           server' \in {server, None},
           NEW rows, RowsFine(rows), rows.db = journal.db,
           (\E status : Fails(status, rows)) \/ Breaks(rows)
    PROVE  Told'
<1>1. \E status, http : Done(status, run.item, http, rows) /\ saved' = saved
  BY DEF Fails, Breaks
<1>. QED  BY <1>1, EndsTold

LEMMA RowsKept ==
    ASSUME Sound
    PROVE  /\ RowsFine(journal) /\ RowsFine(RemovedRows) /\ RemovedRows.db = None
           /\ \A x : /\ RowsFine([journal EXCEPT !.down = x])
                     /\ [journal EXCEPT !.down = x].db = journal.db
                     /\ RowsFine([journal EXCEPT !.up = x])
                     /\ [journal EXCEPT !.up = x].db = journal.db
BY DEF Sound, RowsTyped, RowsFine, RemovedRows, AFile

LEMMA RecordedAs ==
    ASSUME Sound, NEW item
    PROVE  /\ RowsFine(Recorded(item, journal))
           /\ local = None => Recorded(item, journal).db = journal.db
           /\ local # None => /\ Recorded(item, journal).db.stamp = item.stamp
                              /\ Recorded(item, journal).db.etag = item.etag
           /\ \A x : LET down == [Recorded(item, journal) EXCEPT !.down = x]
                         up == [Recorded(item, journal) EXCEPT !.up = x]
                     IN  /\ RowsFine(down) /\ down.db = Recorded(item, journal).db
                         /\ RowsFine(up) /\ up.db = Recorded(item, journal).db
<1>1. RowsFine(Recorded(item, journal))
  BY RecordedFine DEF Sound, RowsTyped
<1>2. /\ local = None => Recorded(item, journal).db = journal.db
      /\ local # None => /\ Recorded(item, journal).db.stamp = item.stamp
                         /\ Recorded(item, journal).db.etag = item.etag
  BY DEF Sound, RowsTyped, RowsFine, Recorded, Record
<1>. QED  BY <1>1, <1>2 DEF RowsFine

LEMMA SimpleJobsTold ==
    ASSUME Sound, Told,
           PropagateIgnore \/ PropagateUpdateMetaData \/ Removal \/ RemoteDeleteUnanswered
    PROVE  Told'
<1>1. CASE PropagateIgnore
  <2>1. (\E status : Fails(status, journal)) /\ UNCHANGED <<local, server, made>>
    BY <1>1 DEF PropagateIgnore, SameFiles, SameWorld
  <2>. QED  BY <2>1, GivesUpTold, RowsKept
<1>2. CASE PropagateUpdateMetaData
  <2>1. /\ run.at = "started" /\ run.item.instruction = "UPDATE_METADATA"
        /\ UNCHANGED <<local, server, made, saved>>
    BY <1>2 DEF PropagateUpdateMetaData, Starts, At, SameFiles, SameWorld
  <2>2. AnItem(run.item)
    BY <2>1 DEF Sound, RunTyped, Working
  <2>3. PICK item : /\ item.stamp = run.item.stamp /\ item.etag = run.item.etag
                    /\ Done("Success", item, FALSE, Recorded(item, journal))
    <3>1. \A x : LET item == [run.item EXCEPT !.checksum = x]
                 IN  item.stamp = run.item.stamp /\ item.etag = run.item.etag
      BY <2>2 DEF AnItem
    <3>. QED  BY <1>2, <3>1 DEF PropagateUpdateMetaData
  <2> DEFINE rows == Recorded(item, journal)
  <2>4. /\ FilesTold'
        /\ Truthful(saved)' /\ EntryOf(saved.db, Given)'
    BY <2>1, FewerTold
  <2>5. RowsFine(rows) /\ (local = None => rows.db = journal.db)
        /\ (local # None => rows.db.stamp = item.stamp /\ rows.db.etag = item.etag)
    BY RecordedAs
  <2>6. EntryOf(rows.db, Given)
    BY <2>1, <2>3, <2>5 DEF Told, FilesTold, Stamped, EntryOf, Working
  <2>7. local # None /\ server # None
          /\ local.stamp = item.stamp /\ server.etag = item.etag => local.data = server.data
    BY <2>1, <2>3 DEF Told, FilesTold, ItemIsTruthful, OfServer, Same, Truthful
  <2> HIDE DEF rows
  <2>8. rows.db # None /\ local' # None /\ server' # None
             /\ local'.stamp = rows.db.stamp /\ server'.etag = rows.db.etag
               => local'.data = server'.data
    BY <2>1, <2>5, <2>7
  <2>9. Done("Success", item, FALSE, rows)
    BY <2>3 DEF rows
  <2>. QED  BY <2>1, <2>4, <2>5, <2>6, <2>8, <2>9, RecordsTold
<1>3. CASE Removal
  <2>1. Done("Success", run.item, TRUE, RemovedRows) /\ saved' = RemovedRows
    BY <1>3 DEF Removal, PropagateLocalRemove, PropagateRemoteDelete, Finishes
  <2>2. local' \in {local, None} /\ server' \in {server, None} /\ made' = made
    BY <1>3 DEF Removal, PropagateLocalRemove, PropagateRemoteDelete, SameWorld
  <2>. QED  BY <2>1, <2>2, RowsKept, EndsTold
<1>4. CASE RemoteDeleteUnanswered
  <2>1. local' = local /\ server' \in {server, None} /\ made' = made /\ Breaks(journal)
    BY <1>4 DEF RemoteDeleteUnanswered, SameWorld
  <2>. QED  BY <2>1, GivesUpTold, RowsKept
<1>. QED  BY <1>1, <1>2, <1>3, <1>4

------------------------------------------------------------------------------
(* The download. *)
LEMMA GoesOnTold ==
    ASSUME Told, made' = made, FilesTold',
           journal'.db = journal.db, Truthful(journal)', saved'.db \in {saved.db, journal.db},
           run.at \in Working, run'.at \in Working \ {"started"}, run'.seen = run.seen,
           run'.at # "send" => run'.item.stamp \in Given,
           FetchIsCurrent', ItemIsTruthful'
    PROVE  Told'
<1>1. Given' = Given BY DEF Given
<1>2. saved'.db = journal.db
  BY DEF Told
<1>3. Truthful(saved)'
  BY <1>2 DEF Truthful
<1>4. Stamped'
  BY <1>1, <1>2 DEF Told, FilesTold, Stamped, EntryOf
<1>5. run'.at # "listing" BY DEF Working
<1>. QED  BY <1>2, <1>3, <1>4, <1>5 DEF Told, SeenIsCurrent

LEMMA FetchingTold ==
    ASSUME Sound, Told, Download \/ GetFails \/ GetBreaksOff \/ LockedFile
    PROVE  UNCHANGED <<server, made>>
BY DEF Download, ConflictChecksumComputed, StartOther, Touch, StartDownload, Get, GetNotFound,
       GetRefused, ChecksumFail, CreateConflict, RefuseToReplace, DownloadFinished,
       RemoveTarget, RenameTmp, RenameFails, UpdateMetadata, GetFails, GetBreaksOff,
       LockedFile, SameFiles, SameWorld

LEMMA StartsDownloadTold ==
    ASSUME Sound, Told, ConflictChecksumComputed \/ StartOther
    PROVE  Told'
<1>1. PICK point \in {"touch", "download"} :
        /\ Continue(point)
        /\ point = "touch" => /\ run.item.instruction = "CONFLICT" /\ run.item.checksum # None
                              /\ Data(local) = run.item.checksum
  BY DEF ConflictChecksumComputed, StartOther, IsConflict
<1>2. /\ run.at = "started" /\ Asks(run)
      /\ UNCHANGED <<local, server, tmp, made>>
  BY DEF ConflictChecksumComputed, StartOther, IsDownload, Starts, At, Asks, Downloads,
         Transfers, SameFiles, SameWorld
<1>3. /\ run'.at = point /\ run'.seen = run.seen /\ run'.item = run.item
      /\ UNCHANGED <<journal, saved>>
  BY <1>1 DEF Continue, Sound, RunTyped, Fields
<1>4. /\ FilesTold' /\ Truthful(journal)'
      /\ run.item.stamp \in Given
  BY <1>2, <1>3, FewerTold DEF Told, FilesTold, Stamped, Working
<1>5. FetchIsCurrent'
  BY <1>1, <1>2, <1>3 DEF Told, FetchIsCurrent, LaterThanJournal, Fetches, Asks
<1>6. ItemIsTruthful'
  BY <1>1, <1>2, <1>3 DEF ItemIsTruthful, Data
<1>. QED  BY <1>2, <1>3, <1>4, <1>5, <1>6, GoesOnTold DEF Working

LEMMA StartDownloadTold ==
    ASSUME Sound, Told, StartDownload
    PROVE  Told'
<1> DEFINE same  == journal.down # None /\ journal.down.etag = run.item.etag
           kept  == IF journal.down # None /\ ~same THEN None ELSE tmp
           whole == kept # None /\ kept.whole
           rows  == [journal EXCEPT !.down = [etag |-> run.item.etag]]
<1>1. /\ run.at = "download" /\ UNCHANGED <<local, server, made>> /\ tmp' = kept
      /\ run'.at = (IF whole THEN "compare" ELSE "get")
      /\ run'.seen = run.seen /\ run'.item = run.item
  BY DEF StartDownload, At, SameWorld, Sound, RunTyped, Fields
<1>2. journal'.db = journal.db /\ saved'.db \in {saved.db, journal.db}
  <2>1. (journal' = journal /\ saved' = saved) \/ (journal' = rows /\ saved' = rows)
    BY DEF StartDownload
  <2> HIDE DEF rows
  <2>2. rows.db = journal.db BY RowsKept DEF rows
  <2>. QED  BY <2>1, <2>2
<1>3. /\ FilesTold' /\ Truthful(journal)'
      /\ run.item.stamp \in Given
  BY <1>1, <1>2, FewerTold DEF Told, FilesTold, Stamped, Working
<1>4. whole /\ server # None /\ server.etag = run.item.etag => kept.data = server.data
  BY DEF Sound, Linked, PartOf
<1> HIDE DEF whole, kept
<1>5. FetchIsCurrent'
  BY <1>1, <1>2, <1>4 DEF Told, FetchIsCurrent, LaterThanJournal, Fetches, Asks
<1>6. ItemIsTruthful'
  BY <1>1 DEF ItemIsTruthful
<1>. QED  BY <1>1, <1>2, <1>3, <1>5, <1>6, GoesOnTold DEF Working

LEMMA GetTold ==
    ASSUME Sound, Told, Get
    PROVE  Told'
<1>1. /\ run.at = "get" /\ server # None /\ ~ResumesOther
      /\ tmp' = [data |-> Joined, whole |-> TRUE]
      /\ UNCHANGED <<local, server, made, journal, saved>>
  BY DEF Get, At, SameWorld
<1>2. tmp'.data = server.data
  BY <1>1, PartIsWhole
<1>3. /\ run'.at = "compare" /\ run'.seen = run.seen
      /\ run'.item.etag = server.etag /\ run'.item.stamp = server.stamp
  BY <1>1 DEF Get, Sound, RunTyped, Fields, Working, AnItem
<1>4. FilesTold' /\ Truthful(journal)' /\ server.stamp \in Given
  BY <1>1, FewerTold DEF Told, FilesTold, Stamped, EntryOf
<1>5. FetchIsCurrent'
  BY <1>1, <1>2, <1>3 DEF FetchIsCurrent, Asks
<1>6. ItemIsTruthful'
  BY <1>3 DEF ItemIsTruthful
<1>. QED  BY <1>1, <1>3, <1>4, <1>5, <1>6, GoesOnTold DEF Working

LEMMA ReplacesTold ==
    ASSUME Sound, Told, CreateConflict \/ DownloadFinished \/ RemoveTarget
    PROVE  Told'
<1>1. /\ run.at \in {"compare", "replace"} /\ run'.at \in {"replace", "rename"}
      /\ run'.seen = run.seen /\ run'.item = run.item
      /\ UNCHANGED <<server, made, tmp, journal, saved>> /\ local' \in {local, None}
  BY DEF CreateConflict, DownloadFinished, RemoveTarget, Continue, At, SameFiles, SameWorld,
         Sound, RunTyped, Fields
<1>2. /\ FilesTold' /\ Truthful(journal)'
      /\ run.item.stamp \in Given
  BY <1>1, FewerTold DEF Told, FilesTold, Stamped, Working
<1>3. FetchIsCurrent'
  BY <1>1 DEF Told, FetchIsCurrent, LaterThanJournal, Fetches, Asks
<1>4. ItemIsTruthful'
  BY <1>1 DEF ItemIsTruthful
<1>. QED  BY <1>1, <1>2, <1>3, <1>4, GoesOnTold DEF Working

LEMMA RenameTold ==
    ASSUME Sound, Told, RenameTmp
    PROVE  Told'
<1>1. /\ run.at = "rename" /\ run'.at = "downloaded" /\ run'.seen = run.seen
      /\ run'.item = run.item /\ UNCHANGED <<server, made, journal, saved>>
      /\ local'.data = tmp.data /\ local'.stamp = run.item.stamp
  BY DEF RenameTmp, Continue, At, SameWorld, Sound, RunTyped, Fields
<1>2. server # None =>
        \/ server.etag = run.item.etag /\ tmp.data = server.data
        \/ server.etag # run.item.etag /\ server.stamp # run.item.stamp /\ LaterThanJournal
  BY <1>1 DEF Told, FetchIsCurrent, Fetches
<1>3. run.item.stamp \in Given /\ Given' = Given
  BY <1>1 DEF Told, FilesTold, Stamped, Working, Given
<1>4. FilesTold' /\ Truthful(journal)'
  BY <1>1, <1>2, <1>3 DEF Told, FilesTold, Same, EntryOf, Truthful, LaterThanJournal
<1>5. FetchIsCurrent'
  BY <1>1 DEF FetchIsCurrent, Fetches, Asks
<1>6. ItemIsTruthful'
  BY <1>1, <1>2 DEF ItemIsTruthful
<1>. QED  BY <1>1, <1>3, <1>4, <1>5, <1>6, GoesOnTold DEF Working

LEMMA FinishTold ==
    ASSUME Sound, Told, UNCHANGED <<server, made>>, FilesTold',
           NEW item, NEW status, FinishDownload(item, status), item.stamp \in Given,
           local = None => local' = None,
           server # None /\ server.etag = item.etag /\ local' # None /\ local'.stamp = item.stamp
             => local'.data = server.data
    PROVE  Told'
<1> DEFINE rows == [Recorded(item, journal) EXCEPT !.down = None]
<1>1. Done(status, item, TRUE, rows) /\ saved' = rows
  BY DEF FinishDownload
<1>2. /\ RowsFine(rows) /\ (local = None => rows.db = journal.db)
      /\ local # None => rows.db.stamp = item.stamp /\ rows.db.etag = item.etag
  BY RecordedAs
<1> HIDE DEF rows
<1>3. EntryOf(rows.db, Given)
  BY <1>2 DEF Told, FilesTold, Stamped, EntryOf, Given
<1>4. rows.db # None /\ local' # None /\ server' # None
        /\ local'.stamp = rows.db.stamp /\ server'.etag = rows.db.etag
          => local'.data = server'.data
  BY <1>2
<1>. QED  BY <1>1, <1>2, <1>3, <1>4, RecordsTold

LEMMA TouchTold ==
    ASSUME Sound, Told, Touch
    PROVE  Told'
<1> DEFINE stamp == IF run.item.stamp # run.item.previous \/ local = None THEN run.item.stamp
                    ELSE local.stamp
           item == [run.item EXCEPT !.stamp = stamp]
<1>1. /\ run.at = "touch" /\ UNCHANGED <<server, made>>
      /\ local' = (IF local = None THEN None ELSE [local EXCEPT !.stamp = stamp])
      /\ FinishDownload(item, "Success")
  BY DEF Touch, At, SameWorld
<1>2. item.stamp = stamp /\ item.etag = run.item.etag
  BY <1>1 DEF Sound, RunTyped, Working, AnItem
<1>3. stamp = run.item.stamp \/ (local # None /\ stamp = local.stamp)
  OBVIOUS
<1> HIDE DEF item, stamp
<1>4. /\ local = None => local' = None
      /\ local # None => local'.data = local.data /\ local'.stamp = stamp
  BY <1>1 DEF Sound, FilesTyped, Some
<1>5. stamp \in Given /\ Given' = Given
  BY <1>1, <1>3 DEF Told, FilesTold, Stamped, EntryOf, Working, Given
<1>7. /\ local # None => local.data = run.item.checksum
      /\ server # None =>
           \/ server.etag = run.item.etag /\ server.data = run.item.checksum
           \/ server.etag # run.item.etag /\ server.stamp # run.item.stamp
  BY <1>1 DEF Told, FetchIsCurrent, Fetches, ItemIsTruthful
<1>8. FilesTold'
  BY <1>1, <1>3, <1>4, <1>5, <1>7 DEF Told, FilesTold, Same, EntryOf
<1>9. server # None /\ server.etag = item.etag /\ local' # None /\ local'.stamp = item.stamp
        => local'.data = server.data
  BY <1>2, <1>4, <1>7
<1>. QED  BY <1>1, <1>2, <1>4, <1>5, <1>8, <1>9, FinishTold

LEMMA DownloadTold ==
    ASSUME Sound, Told, Download \/ GetFails \/ GetBreaksOff \/ LockedFile
    PROVE  Told'
<1>1. UNCHANGED <<server, made>>
  BY FetchingTold
<1>2. CASE UpdateMetadata
  <2>1. /\ run.at = "downloaded" /\ local' = local /\ \E status : FinishDownload(run.item, status)
    BY <1>2 DEF UpdateMetadata, At, SameFiles
  <2>2. FilesTold' /\ run.item.stamp \in Given
    BY <1>1, <2>1, FewerTold DEF Told, FilesTold, Stamped, Working
  <2>3. server # None /\ server.etag = run.item.etag /\ local # None
          /\ local.stamp = run.item.stamp => local.data = server.data
    BY <2>1 DEF Told, ItemIsTruthful
  <2>. QED  BY <1>1, <2>1, <2>2, <2>3, FinishTold
<1>3. CASE GetNotFound \/ ChecksumFail
  <2>1. local' = local /\ \E rows \in {journal, [journal EXCEPT !.down = None]} :
          Done("SoftError", run.item, TRUE, rows) /\ saved' = saved
    BY <1>3 DEF GetNotFound, ChecksumFail
  <2>. QED  BY <1>1, <2>1, RowsKept, EndsTold
<1>4. CASE GetRefused
  <2>1. /\ local' = local /\ saved' = saved
        /\ \E x : Done("NormalError", run.item, TRUE, [journal EXCEPT !.down = x])
    BY <1>4 DEF GetRefused, SameFiles
  <2>. QED  BY <1>1, <2>1, RowsKept, EndsTold
<1>5. CASE GetFails
  <2>1. local' = local /\ \E x : Breaks([journal EXCEPT !.down = x])
    BY <1>5 DEF GetFails, SameFiles
  <2>. QED  BY <1>1, <2>1, RowsKept, GivesUpTold
<1>6. CASE GetBreaksOff \/ RefuseToReplace \/ RenameFails \/ LockedFile
  <2>1. local' = local /\ (Breaks(journal) \/ \E status : Fails(status, journal))
    BY <1>6 DEF GetBreaksOff, RefuseToReplace, RenameFails, LockedFile, SameFiles
  <2>. QED  BY <1>1, <2>1, RowsKept, GivesUpTold
<1>. QED  BY <1>2, <1>3, <1>4, <1>5, <1>6, StartsDownloadTold, StartDownloadTold, GetTold,
             ReplacesTold, RenameTold, TouchTold DEF Download

------------------------------------------------------------------------------
(* The upload. *)
LEMMA SendsTold ==
    ASSUME Told, made' = made, FilesTold',
           journal'.db = journal.db, Truthful(journal)', saved'.db \in {saved.db, journal.db},
           run.at \in Working, run'.at \in SendsFile, run'.seen = run.seen,
           run'.at # "send" => run'.item.stamp \in Given,
           ItemIsTruthful'
    PROVE  Told'
<1>1. run'.at \in Working \ {"started"} BY DEF SendsFile, Working
<1>2. FetchIsCurrent' BY DEF FetchIsCurrent, Fetches, Asks, SendsFile
<1>. QED  BY <1>1, <1>2, GoesOnTold

(* What is stored has the stamp of the item, and is the local file if this  *)
(* still has it.                                                            *)
LEMMA StoredTold ==
    ASSUME Sound, Told, UNCHANGED <<local, made>>, run.at \in {"put", "patch"},
           NEW body, Store(body, FreshEtag),
           local # None /\ local.stamp = run.item.stamp => body = local.data
    PROVE  /\ FilesTold' /\ server'.stamp = run.item.stamp /\ server'.etag = FreshEtag
           /\ journal'.db = journal.db => Truthful(journal)' /\ EntryOf(journal.db, Given)'
           /\ saved'.db \in {journal.db, saved.db} => Truthful(saved)' /\ EntryOf(saved.db, Given)'
<1>1. server'.data = body /\ server'.stamp = run.item.stamp /\ server'.etag = FreshEtag
  BY DEF Store
<1>2. run.item.stamp \in Given /\ Given' = Given
  BY DEF Told, Stamped, Working, Given
<1>3. FilesTold'
  BY <1>1, <1>2 DEF Told, FilesTold, Same, EntryOf
<1>4. journal'.db = journal.db => Truthful(journal)' /\ EntryOf(journal.db, Given)'
  BY <1>1, <1>2, FreshIsNew DEF Told, Stamped, Truthful, EntryOf
<1>5. saved'.db \in {journal.db, saved.db} => Truthful(saved)' /\ EntryOf(saved.db, Given)'
  BY <1>1, <1>2, FreshIsNew DEF Told, Stamped, Truthful, EntryOf
<1>. QED  BY <1>1, <1>3, <1>4, <1>5

(* Either kind of request leaves the server's file as it is, or stores this. *)
StoresOrNot ==
    \/ server' = server
    \/ \E body : /\ Store(body, FreshEtag)
                 /\ local # None /\ local.stamp = run.item.stamp => body = local.data

LEMMA BodyIsLocal ==
    ASSUME Told, run.at = "put", NEW body \in Bodies
    PROVE  local # None /\ local.stamp = run.item.stamp => body = local.data
BY DEF Told, ItemIsTruthful, Bodies, Data

LEMMA AnsweredTold ==
    ASSUME Sound, Told, UNCHANGED <<local, made, journal, saved>>, run.at \in {"put", "patch"},
           Answered(FreshEtag), NEW body, Store(body, FreshEtag),
           local # None /\ local.stamp = run.item.stamp => body = local.data
    PROVE  Told'
<1>1. /\ FilesTold' /\ Truthful(journal)'
      /\ server'.stamp = run.item.stamp /\ server'.etag = FreshEtag
  BY StoredTold
<1>2. AnItem(run.item) /\ Fields \subseteq DOMAIN run
  BY DEF Sound, RunTyped, Working
<1>3. /\ run'.seen = run.seen /\ run'.item.stamp = run.item.stamp
      /\ \/ run'.at = "uploaded" /\ run'.item.etag = FreshEtag
         \/ run'.at = "propfind"
  <2>1. /\ run'.seen = run.seen
        /\ \/ run'.at = "uploaded" /\ run'.item = [run.item EXCEPT !.etag = FreshEtag]
           \/ run'.at = "propfind" /\ run'.item = run.item
    BY <1>2 DEF Answered, Fields
  <2>. QED  BY <1>2, <2>1 DEF AnItem
<1>4. run.item.stamp \in Given
  BY DEF Told, Stamped, Working
<1>5. ItemIsTruthful'
  BY <1>1, <1>3 DEF ItemIsTruthful, OfServer
<1>. QED  BY <1>1, <1>3, <1>4, <1>5, SendsTold DEF SendsFile, Working

LEMMA UnansweredTold ==
    ASSUME Sound, Told, UNCHANGED <<local, made>>, run.at \in {"put", "patch"}, StoresOrNot,
           Breaks(journal)
    PROVE  Told'
<1>1. CASE server' = server
  BY <1>1, GivesUpTold, RowsKept
<1>2. CASE server' # server
  <2>1. PICK body : /\ Store(body, FreshEtag)
                    /\ local # None /\ local.stamp = run.item.stamp => body = local.data
    BY <1>2 DEF StoresOrNot
  <2>2. run' = Ending /\ journal'.db = journal.db /\ saved' = saved
    <3>1. PICK status : Done(status, run.item, TRUE, journal) /\ saved' = saved
      BY DEF Breaks
    <3>2. RowsFine(journal) BY RowsKept
    <3>. QED  BY <3>1, <3>2 DEF Done, RowsFine
  <2>. QED  BY <2>1, <2>2, StoredTold, RestsTold
<1>. QED  BY <1>1, <1>2

LEMMA ChunkTold ==
    ASSUME Sound, Told, UNCHANGED <<local, server, made>>, run.at \in {"put", "head"},
           NEW rows, RowsFine(rows), rows.db = journal.db, ChunkFinished(rows)
    PROVE  Told'
<1>1. CASE StillThere
  <2>1. /\ run'.at = "patch" /\ run'.seen = run.seen /\ run'.item = run.item
        /\ journal' = rows /\ saved' = saved
    BY <1>1 DEF ChunkFinished, Sound, RunTyped, Fields
  <2>2. FilesTold' /\ Truthful(journal)' /\ run.item.stamp \in Given
    BY <2>1, FewerTold DEF Told, Stamped, Working
  <2>3. ItemIsTruthful'
    BY <2>1 DEF ItemIsTruthful
  <2>. QED  BY <2>1, <2>2, <2>3, SendsTold DEF SendsFile, Working
<1>2. CASE ~StillThere
  <2>1. \E status : Done(status, run.item, TRUE, journal) /\ saved' = saved
    BY <1>2 DEF ChunkFinished
  <2>. QED  BY <2>1, EndsTold, RowsKept
<1>. QED  BY <1>1, <1>2

(* An upload goes on with the local file as it is now. *)
LEMMA StartsUploadTold ==
    ASSUME Sound, Told, ComputeContentChecksum \/ StartUpload
    PROVE  Told'
<1>1. /\ UNCHANGED <<local, server, made, journal, saved>>
      /\ Fields \subseteq DOMAIN run
  BY DEF ComputeContentChecksum, StartUpload, SameFiles, SameWorld, Sound, RunTyped
<1>2. FilesTold' /\ Truthful(journal)'
  BY <1>1, FewerTold
<1>3. CASE ComputeContentChecksum
  <2>1. run.at = "started" /\ run'.at = "send" /\ run'.seen = run.seen
    BY <1>1, <1>3 DEF ComputeContentChecksum, IsUpload, Starts, At, Fields
  <2>2. ItemIsTruthful'
    BY <2>1 DEF ItemIsTruthful
  <2>. QED  BY <1>1, <1>2, <2>1, <2>2, SendsTold DEF SendsFile, Working
<1>4. CASE StartUpload
  <2>1. /\ run.at = "send" /\ run'.at \in {"head", "put"} /\ run'.seen = run.seen
        /\ run'.item = run.item /\ run'.body = local.data
        /\ local # None /\ local.stamp = run.item.stamp
    BY <1>1, <1>4 DEF StartUpload, StillThere, At, Fields
  <2>2. run.item.stamp \in Given
    BY <2>1 DEF Told, FilesTold, EntryOf
  <2>3. ItemIsTruthful'
    BY <1>1, <2>1 DEF ItemIsTruthful
  <2>. QED  BY <1>1, <1>2, <2>1, <2>2, <2>3, SendsTold DEF SendsFile, Working
<1>. QED  BY <1>3, <1>4

LEMMA RestartTold ==
    ASSUME Sound, Told, RestartUpload
    PROVE  Told'
<1>1. run.at = "head" /\ UNCHANGED <<local, server, made>>
  BY DEF RestartUpload, At, SameFiles, SameWorld
<1>2. RowsFine(ForgottenUpload) /\ ForgottenUpload.db = journal.db
  BY RowsKept DEF ForgottenUpload
<1>3. CASE run.restarted \/ local = None
  <2>1. \E status : \E rows \in {journal, ForgottenUpload} :
          Done(status, run.item, TRUE, rows) /\ saved' \in {saved, rows}
    BY <1>3 DEF RestartUpload
  <2>. QED  BY <1>1, <1>2, <2>1, RowsKept, EndsTold
<1>4. CASE ~run.restarted /\ local # None
  <2>1. /\ run'.at = "put" /\ run'.seen = run.seen /\ run'.item = run.item
        /\ run'.body = local.data /\ journal' = ForgottenUpload /\ saved' = ForgottenUpload
    BY <1>4 DEF RestartUpload, Sound, RunTyped, Fields
  <2>2. FilesTold' /\ Truthful(journal)' /\ run.item.stamp \in Given
    BY <1>1, <1>2, <2>1, FewerTold DEF Told, Stamped, Working
  <2>3. ItemIsTruthful'
    BY <1>1, <2>1 DEF ItemIsTruthful
  <2>. QED  BY <1>1, <1>2, <2>1, <2>2, <2>3, SendsTold DEF SendsFile, Working
<1>. QED  BY <1>3, <1>4

LEMMA FinalizeTold ==
    ASSUME Sound, Told, Finalize
    PROVE  Told'
<1> DEFINE rows == [Recorded(run.item, journal) EXCEPT !.up = None]
<1>1. /\ run.at = "uploaded" /\ UNCHANGED <<local, server, made>>
      /\ Done("Success", run.item, TRUE, rows) /\ saved' = rows
  BY DEF Finalize, At, SameFiles, SameWorld
<1>2. /\ RowsFine(rows) /\ (local = None => rows.db = journal.db)
      /\ local # None => rows.db.stamp = run.item.stamp /\ rows.db.etag = run.item.etag
  BY RecordedAs
<1> HIDE DEF rows
<1>3. FilesTold' /\ EntryOf(rows.db, Given)
  BY <1>1, <1>2, FewerTold DEF Told, Stamped, Working, EntryOf
<1>4. rows.db # None /\ local' # None /\ server' # None
        /\ local'.stamp = rows.db.stamp /\ server'.etag = rows.db.etag
          => local'.data = server'.data
  BY <1>1, <1>2 DEF Told, ItemIsTruthful, OfServer, FilesTold, Same
<1>. QED  BY <1>1, <1>2, <1>3, <1>4, RecordsTold

LEMMA UploadTold ==
    ASSUME Sound, Told, Upload \/ UploadUnanswered \/ PatchUnanswered \/ QueryFails
    PROVE  Told'
<1>1. UNCHANGED <<local, made>>
  BY DEF Upload, ComputeContentChecksum, LocalFileChanged, StartUpload, Put, PreconditionFailed,
         ChecksumMismatch, Post, Patch, PatchFails, Head, RestartUpload, QueryEtag, Finalize,
         UploadUnanswered, PatchUnanswered, QueryFails, SameFiles, SameWorld
<1>2. CASE Put
  <2>1. PICK body \in Bodies : Store(body, FreshEtag)
    BY <1>2 DEF Put
  <2>2. run.at = "put" /\ Answered(FreshEtag) /\ UNCHANGED <<journal, saved>>
    BY <1>2 DEF Put, At
  <2>. QED  BY <1>1, <2>1, <2>2, BodyIsLocal, AnsweredTold
<1>3. CASE Patch
  <2>1. /\ run.at = "patch" /\ Answered(FreshEtag) /\ UNCHANGED <<journal, saved>>
        /\ Store(local.data, FreshEtag)
    BY <1>3 DEF Patch, Patched, At
  <2>. QED  BY <1>1, <2>1, AnsweredTold
<1>4. CASE UploadUnanswered
  <2>1. run.at = "put" /\ Breaks(journal)
        /\ (server' = server \/ \E body \in Bodies : Store(body, FreshEtag))
    BY <1>4 DEF UploadUnanswered, At
  <2>2. StoresOrNot
    BY <2>1, BodyIsLocal DEF StoresOrNot
  <2>. QED  BY <1>1, <2>1, <2>2, UnansweredTold
<1>5. CASE PatchUnanswered
  <2>1. run.at = "patch" /\ StoresOrNot /\ (Continue("head") \/ Breaks(journal))
    BY <1>5 DEF PatchUnanswered, Patched, StoresOrNot, At
  <2>2. CASE Breaks(journal)
    BY <1>1, <2>1, <2>2, UnansweredTold
  <2>3. CASE Continue("head")
    <3>1. /\ run'.at = "head" /\ run'.seen = run.seen /\ run'.item = run.item
          /\ UNCHANGED <<journal, saved>>
      BY <2>3 DEF Continue, Sound, RunTyped, Fields
    <3>2. FilesTold' /\ Truthful(journal)'
      <4>1. CASE server' = server
        BY <1>1, <3>1, <4>1, FewerTold
      <4>2. CASE server' # server
        BY <1>1, <2>1, <3>1, <4>2, StoredTold DEF StoresOrNot
      <4>. QED  BY <4>1, <4>2
    <3>3. ItemIsTruthful' /\ run.item.stamp \in Given
      BY <2>1, <3>1 DEF ItemIsTruthful, Told, Stamped, Working
    <3>. QED  BY <1>1, <2>1, <3>1, <3>2, <3>3, SendsTold DEF SendsFile, Working
  <2>. QED  BY <2>1, <2>2, <2>3
<1>6. CASE Post
  <2>1. /\ run.at = "put" /\ server' = server
        /\ ChunkFinished([journal EXCEPT !.up = [stamp |-> run.item.stamp,
                                                 checksum |-> run.item.checksum]])
    BY <1>6 DEF Post, At
  <2>. QED  BY <1>1, <2>1, RowsKept, ChunkTold
<1>7. CASE Head
  BY <1>1, <1>7, RowsKept, ChunkTold DEF Head, At, SameFiles
<1>8. CASE QueryEtag
  <2>1. run.at = "propfind" /\ server' = server
    BY <1>8 DEF QueryEtag, At, SameFiles
  <2>2. CASE server = None
    BY <1>1, <1>8, <2>1, <2>2, GivesUpTold, RowsKept DEF QueryEtag
  <2>3. CASE server # None
    <3>1. /\ run'.at = "uploaded" /\ run'.seen = run.seen /\ run'.item.stamp = run.item.stamp
          /\ UNCHANGED <<journal, saved>>
      <4>1. /\ run' = [run EXCEPT !.at = "uploaded", !.item.etag = server.etag]
            /\ UNCHANGED <<journal, saved>>
        BY <1>8, <2>1, <2>3 DEF QueryEtag
      <4>. QED  BY <1>1, <2>1, <4>1 DEF Sound, RunTyped, Fields, AnItem, Working
    <3>2. FilesTold' /\ Truthful(journal)' /\ run.item.stamp \in Given
      BY <1>1, <2>1, <3>1, FewerTold DEF Told, Stamped, Working
    <3>3. ItemIsTruthful'
      BY <2>1, <3>1 DEF ItemIsTruthful, OfServer, Told
    <3>. QED  BY <1>1, <2>1, <3>1, <3>2, <3>3, SendsTold DEF SendsFile, Working
  <2>. QED  BY <2>2, <2>3
<1>9. CASE LocalFileChanged \/ QueryFails
  <2>1. server' = server /\ (Breaks(journal) \/ \E status : Fails(status, journal))
    BY <1>9 DEF LocalFileChanged, QueryFails, SameFiles
  <2>. QED  BY <1>1, <2>1, RowsKept, GivesUpTold
<1>10. CASE PreconditionFailed \/ PatchFails \/ ChecksumMismatch
  <2>1. /\ server' = server
        /\ \E status, http : \E rows \in {journal, ForgottenUpload} :
             Done(status, run.item, http, rows) /\ saved' \in {saved, rows}
    BY <1>10 DEF PreconditionFailed, PatchFails, ChecksumMismatch, Fails, SameFiles
  <2>2. RowsFine(ForgottenUpload) /\ ForgottenUpload.db = journal.db
    BY RowsKept DEF ForgottenUpload
  <2>. QED  BY <1>1, <2>1, <2>2, RowsKept, EndsTold
<1>. QED  BY <1>2, <1>3, <1>4, <1>5, <1>6, <1>7, <1>8, <1>9, <1>10, StartsUploadTold, RestartTold,
             FinalizeTold DEF Upload

------------------------------------------------------------------------------
Truth == ~scenario.windows => Told

LEMMA ScenarioStays ==
    ASSUME [Next]_vars
    PROVE  scenario' = scenario
BY DEF Next, vars, Users, LocalWrite, LocalTouch, LocalDelete, RemoteWrite, RemoteDelete, World,
         Discovery, StartRun, ListLocal, ListServer, Decide, EndRun, Job, Fault, PropagateIgnore,
         PropagateUpdateMetaData, Removal, PropagateLocalRemove, PropagateRemoteDelete,
         RemoteDeleteUnanswered, Download, ConflictChecksumComputed, StartOther, Touch,
         StartDownload, Get, GetNotFound, GetRefused, ChecksumFail, CreateConflict,
         RefuseToReplace, DownloadFinished, RemoveTarget, RenameTmp, RenameFails, UpdateMetadata,
         GetFails, GetBreaksOff, LockedFile, Upload, ComputeContentChecksum, LocalFileChanged,
         StartUpload, Put, PreconditionFailed, ChecksumMismatch, Post, Patch, PatchFails, Head,
         RestartUpload, QueryEtag, Finalize, UploadUnanswered, PatchUnanswered, QueryFails,
         Abort, Crash, Expire, Commit, Tick, Unlocked, Calm, SameWorld

LEMMA StepTold ==
    ASSUME Sound, Truth, [Next]_vars
    PROVE  Truth'
<1>1. scenario' = scenario BY ScenarioStays
<1>2. SUFFICES ASSUME Told, ~scenario.windows PROVE Told'
  BY <1>1 DEF Truth
<1>3. CASE UNCHANGED vars
  <2>1. UNCHANGED <<local, server, tmp, run, made, journal, saved>>
    BY <1>3 DEF vars
  <2>. QED  BY <1>2, <2>1, AsideTold
<1>4. CASE Users
  BY <1>2, <1>4, UsersTold
<1>5. CASE Commit \/ Tick \/ Unlocked \/ Calm \/ Expire
  BY <1>2, <1>5, OthersTold
<1>6. CASE Crash \/ Abort
  BY <1>2, <1>6, CrashTold
<1>7. CASE Discovery
  BY <1>2, <1>7, ListingTold, DecideTold, CrashTold
<1>8. CASE PropagateIgnore \/ PropagateUpdateMetaData \/ Removal \/ RemoteDeleteUnanswered
  BY <1>2, <1>8, SimpleJobsTold
<1>9. CASE Download \/ GetFails \/ GetBreaksOff \/ LockedFile
  BY <1>2, <1>9, DownloadTold
<1>10. CASE Upload \/ UploadUnanswered \/ PatchUnanswered \/ QueryFails
  BY <1>2, <1>10, UploadTold
<1>. QED  BY <1>3, <1>4, <1>5, <1>6, <1>7, <1>8, <1>9, <1>10 DEF Next, Job, Fault

LEMMA InitTold == Init => Told
<1>. SUFFICES ASSUME Init PROVE Told OBVIOUS
<1>1. run = Idle /\ saved = journal
  BY DEF Init
<1>2. /\ run.at = "idle" /\ run.seen.local = Unread /\ run.seen.server = Unread
      /\ ~Fetches(run)
  BY <1>1 DEF Idle, Fetches, Asks
<1>3. CASE scenario.synced
  <2>1. /\ made = 1 /\ local.data = 1 /\ local.stamp = 1 /\ server.data = 1 /\ server.stamp = 1
        /\ journal.db.stamp = 1
    BY <1>3 DEF Init, NoFile
  <2>2. 1 \in Given BY <2>1 DEF Given
  <2>. QED  BY <1>1, <1>2, <2>1, <2>2 DEF Told, FilesTold, Same, Truthful, Stamped, EntryOf,
            SeenIsCurrent, FetchIsCurrent, ItemIsTruthful, Working
<1>4. CASE ~scenario.synced
  <2>1. local = None /\ server = None /\ journal.db = None
    BY <1>4 DEF Init, NoFile
  <2>. QED  BY <1>1, <1>2, <2>1 DEF Told, FilesTold, Same, Truthful, Stamped, EntryOf,
            SeenIsCurrent, FetchIsCurrent, ItemIsTruthful, Working
<1>. QED  BY <1>3, <1>4

(* Wherever the process stops, and whatever is written at any moment but the *)
(* two a scenario may rule out: if the stamp of the local file and the etag  *)
(* of the server's are those of the journal, as it is or as it was last      *)
(* committed, both files have the same content.                              *)
THEOREM JournalTellsTheTruth == Spec => []JournalIsTruthful
<1>1. Sound /\ Truth /\ [Next]_vars => (Sound /\ Truth)'
  BY StepTyped, StepTold
<1>2. Init => Sound /\ Truth
  BY InitTyped, InitTold DEF Truth
<1>3. Truth => JournalIsTruthful
  BY DEF Truth, Told, JournalIsTruthful
<1>. QED  BY <1>1, <1>2, <1>3, PTL DEF Spec

------------------------------------------------------------------------------
(* Why no version is lost.  The theorem is about a file that the user may   *)
(* write and remove on the server, or do neither, where nobody writes in    *)
(* the two moments in which the client stamps as synchronized what it has   *)
(* not compared.  The rights say which version a user gives up; they do not *)
(* for a user who has one of the two, nor for one who replaces a new file   *)
(* of which an upload without a checksum is under way.                      *)
ClearRights ==
    /\ Grants("W") <=> Grants("D")
    /\ Grants("W") \/ ~scenario.tus \/ scenario.checksums

Plain == ~scenario.windows /\ ClearRights

Refused == ~Grants("W")

(* A version that no user counts on or a conflict copy has; a version that  *)
(* need not be kept here, or there, because the other side has it as well.  *)
(* Where the user may not write, nothing known is taken from the server.    *)
Covered(version) == version \notin owed \/ version \in copies

CoveredThere(version) == Covered(version) \/ version = Data(server)
CoveredHere(version) == Covered(version) \/ version = Data(local) \/ Refused

LocalCovered == local # None => CoveredThere(local.data)
ServerCovered == server # None => CoveredHere(server.data)

(* The part of a download is of the server's file, or was given up since. *)
PartCovered == tmp # None => CoveredThere(tmp.data)

(* What the client may replace: it is covered, or was never seen. *)
LocalFree == local # None => CoveredThere(local.data) \/ local.data \in unseen
ServerFree == server # None => CoveredHere(server.data) \/ server.data \in unseen

(* What is there was never seen, and is not what the other side has. *)
ServerNew == server # None => server.data \in unseen /\ server.data # Data(local)
LocalNew == local # None => local.data \in unseen /\ local.data # Data(server)

(* What is there is the answer that got lost, and nothing else is accepted. *)
SentAlready ==
    scenario.checksums /\ server # None /\ server.data = run.item.checksum

HasStamp(stamp) == local # None /\ local.stamp = stamp
HasEtag(etag) == server # None /\ server.etag = etag

(* A stamp and an etag that are recorded together: they are of one version, *)
(* and whoever has changed one side gave up what it shared with the other.  *)
Pair(stamp, etag) ==
    /\ HasStamp(stamp) /\ HasEtag(etag) => local.data = server.data
    /\ HasStamp(stamp) /\ ~HasEtag(etag) => LocalFree
    /\ HasEtag(etag) /\ ~HasStamp(stamp) => ServerCovered

RowsPaired(rows) ==
    /\ rows.db # None => Pair(rows.db.stamp, rows.db.etag)
    /\ rows.up # None /\ server # None /\ server.data = rows.up.checksum => ServerCovered

MayBeGiven(version) == version = None \/ version \in Given

Sends(r) ==
    \/ r.at = "started" /\ r.item.instruction \in {"NEW", "SYNC", "TYPE_CHANGE"}
                        /\ r.item.direction = "Up"
    \/ r.at \in {"send", "head", "put", "patch"}

Compares(r) ==
    \/ r.at = "touch"
    \/ Asks(r) /\ r.item.instruction = "CONFLICT" /\ r.item.checksum # None

FilesCounted ==
    /\ copies \subseteq Given /\ owed \subseteq Given /\ unseen \subseteq Given
    /\ local # None => local.data \in Given
    /\ server # None => server.data \in Given
    /\ tmp # None => tmp.data \in Given
    /\ journal.up # None => MayBeGiven(journal.up.checksum)
    /\ saved.up # None => MayBeGiven(saved.up.checksum)

Counted ==
    /\ FilesCounted
    /\ run.at = "put" => run.body \in Given
    /\ run.seen.server \notin {None, Unread} => MayBeGiven(run.seen.server.checksum)
    /\ Compares(run) \/ Sends(run) => MayBeGiven(run.item.checksum)

(* What a run has listed, against what is there by now. *)
LocalListed == run.seen.local \notin {None, Unread}
ServerListed == run.seen.server \notin {None, Unread}

TakenForJournal ==
    \/ run.mode = "parentNotChanged"
    \/ LocalListed /\ journal.db # None /\ run.seen.local.stamp = journal.db.stamp

ServerMovedOn ==
    /\ run.seen.server # Unread
    /\ run.seen.server # None => ~HasEtag(run.seen.server.etag)

ListingKept ==
    run.at = "listing" =>
        /\ TakenForJournal => ~LocalDiffers \/ LocalFree
        /\ ~TakenForJournal /\ run.seen.local # Unread /\ journal.db # None =>
              ~HasStamp(journal.db.stamp)
        /\ ServerMovedOn => ServerFree /\ (journal.db # None => ~HasEtag(journal.db.etag))
        /\ ServerListed /\ run.seen.server.checksum # None =>
              CoveredThere(run.seen.server.checksum)
        /\ LocalListed /\ server # None /\ server.stamp = run.seen.local.stamp => ServerCovered
        /\ ServerListed /\ HasStamp(run.seen.server.stamp) => LocalCovered
        /\ ServerListed => run.seen.server.perm = scenario.perm
        /\ run.seen.server = None /\ run.seen.server # Unread => ServerNew

(* A download: the server is not as the journal has it, and what is fetched *)
(* is there, or was given up since.                                         *)
FetchKept ==
    Fetches(run) =>
        /\ journal.up = None /\ saved.up = None
        /\ journal.db # None => ~HasEtag(journal.db.etag) \/ Refused
        /\ run.item.instruction # "CONFLICT" =>
              run.item.previous = IF journal.db = None THEN None ELSE journal.db.stamp
        /\ Compares(run) => run.item.checksum # None /\ CoveredThere(run.item.checksum)
        /\ run.at = "replace" => LocalFree

(* Where the user may not write only new files go up, and what a file with  *)
(* a part on the way replaces can be told by its checksum.                  *)
SendAllowed ==
    /\ Refused => run.item.instruction = "NEW" /\ (ServerNew \/ SentAlready)
    /\ run.at \in {"head", "patch"} => scenario.tus

(* An upload: the folder is not as the journal has it, and what is replaced *)
(* is covered, or for a new file was never seen.                            *)
SendKept ==
    /\ Sends(run) =>
          /\ run.item.instruction \in {"NEW", "SYNC"}
          /\ run.item.instruction = "NEW" => ServerFree
          /\ SendAllowed
          /\ run.item.instruction = "SYNC" =>
                run.item.etag # None /\ (HasEtag(run.item.etag) => ServerCovered)
          /\ run.item.checksum # None /\ server # None /\ server.data = run.item.checksum =>
                ServerCovered
          /\ journal.db # None => ~HasStamp(journal.db.stamp)
    /\ run.at = "put" => CoveredHere(run.body)
    /\ run.at = "propfind" /\ server # None => Pair(run.item.stamp, server.etag)
    /\ run.at \in {"uploaded", "downloaded"} => Pair(run.item.stamp, run.item.etag)

RemovalKept ==
    run.at = "started" /\ run.item.instruction = "REMOVE" =>
        /\ journal.up = None /\ saved.up = None
        /\ run.item.direction = "Down" => LocalFree
        /\ run.item.direction = "Up" =>
              /\ ServerFree /\ ~Refused
              /\ journal.db # None => ~HasStamp(journal.db.stamp)

UpdateKept ==
    run.at = "started" /\ run.item.instruction = "UPDATE_METADATA" =>
        Pair(run.item.stamp, run.item.etag)

(* The tracker: where it does not hold the path, what the folder has need   *)
(* not be kept by it.  It holds the path of a run that lists the folder; a  *)
(* job ends well with a file that the server has as well, or that was       *)
(* written since the client has looked at it.                               *)
TrackerKept ==
    /\ run.at \in {"idle", "started", "ending"} /\ ~tracked => LocalFree
    /\ run.at = "listing" =>
          /\ run.mode \in {"normal", "parentNotChanged"}
          /\ run.mode = "normal" => tracked
          /\ run.mode = "normal" /\ run.seen.local = None /\ run.seen.local # Unread => LocalNew
          /\ LocalListed /\ server # None /\ server.stamp = run.seen.local.stamp => LocalFree
          /\ LocalListed /\ ServerListed /\ run.seen.server.stamp = run.seen.local.stamp =>
                LocalFree
    /\ run.at = "started" =>
          /\ run.item.instruction = "REMOVE" /\ run.item.direction = "Up" => LocalNew
          /\ run.item.instruction = "UPDATE_METADATA" /\ run.item.direction # "Up" => LocalFree
    /\ run.at = "put" => Data(local) \in {None, run.body} \union unseen
    /\ run.at \in {"propfind", "uploaded", "downloaded"} => LocalFree

Kept ==
    /\ Counted /\ PartCovered /\ RowsPaired(journal) /\ RowsPaired(saved)
    /\ ListingKept /\ FetchKept /\ SendKept /\ RemovalKept /\ UpdateKept
    /\ run.at # "ending" => saved.db = journal.db

------------------------------------------------------------------------------
(* The users give up what they replace, and what they write is unseen. *)
LEMMA VersionsAreGiven ==
    ASSUME FilesTyped
    PROVE  /\ None \notin Given /\ Given \subseteq Versions
           /\ made + 1 \notin Given
<1>1. made \in 0..MaxVersions BY DEF FilesTyped
<1>2. Given \subseteq Versions /\ made + 1 \notin Given
  BY <1>1, BoundsAssumption DEF Given, Versions
<1>. QED  BY <1>2, SentinelsAssumption DEF Versions

HereKept ==
    /\ \A v \in Given : CoveredHere(v) => CoveredHere(v)'
    /\ \A v \in Given : CoveredThere(v) => CoveredThere(v)'
    /\ \A v \in Given : Covered(v) => Covered(v)'

LocalUser ==
    /\ World /\ server' = server /\ made' \in {made, made + 1}
    /\ HereKept /\ unseen \subseteq unseen'
    /\ \A stamp \in Given : ~HasStamp(stamp)'
    /\ LocalFree => LocalFree'
    /\ ServerNew => ServerNew'
    /\ LocalNew => LocalNew'
    /\ Data(local') \in {None, Data(local)} \union unseen'

ServerUser ==
    /\ World /\ local' = local /\ made' \in {made, made + 1}
    /\ HereKept /\ unseen \subseteq unseen'
    /\ \A etag : etag # FreshEtag => ~HasEtag(etag)'
    /\ server' # None =>
          server'.stamp \notin Given /\ server'.data \notin Given /\ server'.data # None
    /\ ServerFree' /\ ServerNew' /\ (LocalNew => LocalNew')

LEMMA RefusedStays == scenario' = scenario => (Refused' <=> Refused)
BY DEF Refused, Grants, Lacks

LEMMA LocalUsers ==
    ASSUME Sound, Told, Counted, Plain, LocalWrite \/ LocalTouch \/ LocalDelete
    PROVE  LocalUser /\ Counted' /\ made' \in {made, made + 1} /\ run.at # "touch"
<1>1. FilesTyped BY DEF Sound
<1>2. \A letter \in {"W", "D"} : ~Refused => Data(local) \in GivenUp(letter)
  BY DEF Plain, ClearRights, Refused, GivenUp
<1>3. /\ None \notin Given /\ made + 1 \notin Given
      /\ local # None => local.data \in Given
      /\ server # None => server.data \in Given
      /\ made' = made + 1 => Given \subseteq Given' /\ made + 1 \in Given'
      /\ made' = made => Given' = Given
  BY <1>1, VersionsAreGiven, GivenGrows DEF Counted, FilesCounted
<1>4. /\ UNCHANGED <<copies, tmp, journal, saved, run, server>>
      /\ World /\ (Refused' <=> Refused)
  BY RefusedStays DEF LocalWrite, LocalTouch, LocalDelete, World
<1>5. CASE LocalWrite
  <2>1. /\ made' = made + 1 /\ owed' \subseteq owed \union {made + 1}
        /\ ~Refused => owed' \subseteq (owed \ {Data(local)}) \union {made + 1}
        /\ unseen' = unseen \union {made + 1}
        /\ local' = [data |-> made + 1, stamp |-> made + 1]
    BY <1>2, <1>5 DEF LocalWrite, Write
  <2>2. HereKept
    BY <1>3, <1>4, <2>1 DEF HereKept, CoveredHere, CoveredThere, Covered, Data
  <2>3. \A stamp \in Given : ~HasStamp(stamp)'
    BY <1>3, <2>1 DEF HasStamp
  <2>4. LocalFree' BY <2>1 DEF LocalFree
  <2>5. Counted'
    BY <1>3, <1>4, <2>1 DEF Counted, FilesCounted, MayBeGiven, Compares, Asks, Sends
  <2>6. ServerNew => ServerNew'
    BY <1>3, <1>4, <2>1 DEF ServerNew, Data
  <2>7. LocalNew' /\ Data(local') \in {None} \union unseen'
    <3>1. made + 1 # None
      BY <1>1, <1>5, MadeTyped, SentinelsAssumption DEF LocalWrite, Write, Versions
    <3>. QED  BY <1>3, <1>4, <2>1, <3>1 DEF LocalNew, Data
  <2>. QED  BY <1>4, <1>5, <2>1, <2>2, <2>3, <2>4, <2>5, <2>6, <2>7
            DEF LocalUser, LocalWrite, BetweenChecksumAndTouch, Plain
<1>6. CASE LocalTouch
  <2>1. /\ made' = made + 1 /\ owed' = owed /\ unseen' = unseen /\ local # None
        /\ local' = [local EXCEPT !.stamp = made + 1]
    BY <1>6 DEF LocalTouch
  <2>2. local' # None /\ local'.data = local.data /\ local'.stamp = made + 1
    <3>1. local \in [data : Versions, stamp : Versions] /\ made + 1 \in Versions
      BY <1>1, <1>6, <2>1, MadeTyped DEF FilesTyped, Some, LocalTouch
    <3>2. local' \in [data : Versions, stamp : Versions]
      BY <2>1, <3>1
    <3>. QED  BY <2>1, <3>1, <3>2, SentinelsAssumption DEF Versions
  <2>3. HereKept /\ Data(local') = Data(local) /\ (LocalFree => LocalFree')
    BY <1>3, <1>4, <2>1, <2>2
       DEF HereKept, CoveredHere, CoveredThere, Covered, Data, LocalFree
  <2>4. \A stamp \in Given : ~HasStamp(stamp)'
    BY <1>3, <2>2 DEF HasStamp
  <2>5. Counted'
    BY <1>3, <1>4, <2>1, <2>2 DEF Counted, FilesCounted, MayBeGiven, Compares, Asks, Sends
  <2>6. ServerNew => ServerNew'
    BY <1>3, <1>4, <2>1, <2>2 DEF ServerNew, Data
  <2>7. LocalNew => LocalNew'
    BY <1>4, <2>1, <2>2 DEF LocalNew, Data
  <2>. QED  BY <1>4, <1>6, <2>1, <2>3, <2>4, <2>5, <2>6, <2>7
            DEF LocalUser, LocalTouch, BetweenChecksumAndTouch, Plain
<1>7. CASE LocalDelete
  <2>1. /\ made' = made /\ owed' \subseteq owed /\ unseen' = unseen
        /\ ~Refused => owed' \subseteq owed \ {Data(local)}
        /\ local' = None
    BY <1>2, <1>7 DEF LocalDelete
  <2>2. HereKept
    BY <1>3, <1>4, <2>1 DEF HereKept, CoveredHere, CoveredThere, Covered, Data
  <2>3. \A stamp \in Given : ~HasStamp(stamp)'
    BY <2>1 DEF HasStamp
  <2>4. LocalFree' BY <2>1 DEF LocalFree
  <2>5. Counted'
    BY <1>3, <1>4, <2>1 DEF Counted, FilesCounted, MayBeGiven, Compares, Asks, Sends
  <2>6. ServerNew => ServerNew'
    BY <1>3, <1>4, <2>1 DEF ServerNew, Data
  <2>7. LocalNew' /\ Data(local') = None
    BY <2>1 DEF LocalNew, Data
  <2>. QED  BY <1>4, <1>7, <2>1, <2>2, <2>3, <2>4, <2>5, <2>6, <2>7
            DEF LocalUser, LocalDelete, BetweenChecksumAndTouch, Plain
<1>. QED  BY <1>5, <1>6, <1>7

LEMMA ServerUsers ==
    ASSUME Sound, Told, Counted, Plain, RemoteWrite \/ RemoteDelete
    PROVE  ServerUser /\ Counted' /\ made' \in {made, made + 1} /\ run.at # "propfind"
<1>1. FilesTyped BY DEF Sound
<1>2. /\ None \notin Given /\ made + 1 \notin Given
      /\ local # None => local.data \in Given
      /\ made' = made + 1 => Given \subseteq Given' /\ made + 1 \in Given'
      /\ made' = made => Given' = Given
  BY <1>1, VersionsAreGiven, GivenGrows DEF Counted, FilesCounted
<1>3. /\ UNCHANGED <<copies, tmp, journal, saved, run, local>>
      /\ World /\ (Refused' <=> Refused)
  BY RefusedStays DEF RemoteWrite, RemoteDelete, World
<1>4. CASE RemoteWrite
  <2>1. /\ made' = made + 1 /\ owed' = (owed \ {Data(server)}) \union {made + 1}
        /\ unseen' = unseen \union {made + 1}
        /\ server' = [data |-> made + 1, stamp |-> made + 1, etag |-> FreshEtag]
    BY <1>4 DEF RemoteWrite, Write
  <2>2. HereKept
    BY <1>2, <1>3, <2>1 DEF HereKept, CoveredHere, CoveredThere, Covered, Data
  <2>3. /\ \A etag : etag # FreshEtag => ~HasEtag(etag)'
        /\ server'.stamp \notin Given /\ server'.data \notin Given /\ server'.data # None
        /\ ServerFree'
    <3>1. made + 1 # None
      BY <1>1, <1>4, MadeTyped, SentinelsAssumption DEF RemoteWrite, Write, Versions
    <3>. QED  BY <1>2, <2>1, <3>1 DEF HasEtag, ServerFree
  <2>4. Counted'
    BY <1>2, <1>3, <2>1 DEF Counted, FilesCounted, MayBeGiven, Compares, Asks, Sends
  <2>5. ServerNew' /\ (LocalNew => LocalNew')
    BY <1>2, <1>3, <2>1, <2>3 DEF ServerNew, LocalNew, Data
  <2>. QED  BY <1>3, <1>4, <2>1, <2>2, <2>3, <2>4, <2>5
            DEF ServerUser, RemoteWrite, BetweenUploadAndEtag, Plain
<1>5. CASE RemoteDelete
  <2>1. /\ made' = made /\ owed' = owed \ {Data(server)} /\ unseen' = unseen
        /\ server' = None
    BY <1>5 DEF RemoteDelete
  <2>2. HereKept
    BY <1>2, <1>3, <2>1 DEF HereKept, CoveredHere, CoveredThere, Covered, Data
  <2>3. /\ \A etag : etag # FreshEtag => ~HasEtag(etag)'
        /\ ServerFree'
    BY <2>1 DEF HasEtag, ServerFree
  <2>4. Counted'
    BY <1>2, <1>3, <2>1 DEF Counted, FilesCounted, MayBeGiven, Compares, Asks, Sends
  <2>5. ServerNew' /\ (LocalNew => LocalNew')
    BY <1>2, <1>3, <2>1 DEF ServerNew, LocalNew, Data
  <2>. QED  BY <1>3, <1>5, <2>1, <2>2, <2>3, <2>4, <2>5
            DEF ServerUser, RemoteDelete, BetweenUploadAndEtag, Plain
<1>. QED  BY <1>4, <1>5

LEMMA StampsAreGiven ==
    ASSUME Sound, Told
    PROVE  /\ journal.db # None => journal.db.stamp \in Given /\ journal.db.etag # FreshEtag
           /\ saved.db # None => saved.db.stamp \in Given /\ saved.db.etag # FreshEtag
           /\ LocalListed => run.seen.local.stamp \in Given
           /\ ServerListed =>
                run.seen.server.stamp \in Given /\ run.seen.server.etag # FreshEtag
           /\ run.at \in Working \ {"send"} => run.item.stamp \in Given
           /\ run.at \in Working => run.item.etag # FreshEtag
BY FreshIsNew DEF Told, Stamped, EntryOf, LocalListed, ServerListed

LEMMA LocalUserFacts ==
    ASSUME Counted, LocalUser
    PROVE  /\ ServerCovered => ServerCovered'
           /\ ServerFree => ServerFree'
           /\ local # None /\ server # None /\ local.data = server.data => ServerCovered'
           /\ \A stamp \in Given : \A etag : Pair(stamp, etag) => Pair(stamp, etag)'
<1>1. ServerCovered => ServerCovered'
  BY DEF LocalUser, HereKept, Counted, FilesCounted, ServerCovered
<1>2. ServerFree => ServerFree'
  BY DEF LocalUser, HereKept, Counted, FilesCounted, ServerFree
<1>3. local # None /\ server # None /\ local.data = server.data => ServerCovered
  BY DEF ServerCovered, CoveredHere, Data
<1>4. ASSUME NEW stamp \in Given, NEW etag, Pair(stamp, etag) PROVE Pair(stamp, etag)'
  <2>1. ~HasStamp(stamp)' /\ server' = server BY DEF LocalUser
  <2>. QED  BY <1>1, <1>3, <1>4, <2>1 DEF Pair, HasStamp, HasEtag
<1>. QED  BY <1>1, <1>2, <1>3, <1>4

LEMMA ServerUserFacts ==
    ASSUME Counted, ServerUser
    PROVE  /\ LocalCovered => LocalCovered'
           /\ LocalFree => LocalFree'
           /\ \A stamp, etag : etag # FreshEtag /\ Pair(stamp, etag) => Pair(stamp, etag)'
<1>1. LocalCovered => LocalCovered'
  BY DEF ServerUser, HereKept, Counted, FilesCounted, LocalCovered
<1>2. LocalFree => LocalFree'
  BY DEF ServerUser, HereKept, Counted, FilesCounted, LocalFree
<1>3. local # None /\ server # None /\ local.data = server.data => LocalFree
  BY DEF LocalFree, CoveredThere, Data
<1>4. ASSUME NEW stamp, NEW etag, etag # FreshEtag, Pair(stamp, etag) PROVE Pair(stamp, etag)'
  <2>1. ~HasEtag(etag)' /\ local' = local BY <1>4 DEF ServerUser
  <2>. QED  BY <1>2, <1>3, <1>4, <2>1 DEF Pair, HasStamp, HasEtag
<1>. QED  BY <1>1, <1>2, <1>4

LEMMA LocalUserKeeps ==
    ASSUME Sound, Told, Kept, Counted', LocalUser
    PROVE  Kept'
<1>1. UNCHANGED <<copies, tmp, journal, saved, run, server, scenario>>
  BY DEF LocalUser, World
<1>2. /\ \A stamp \in Given : ~HasStamp(stamp)'
      /\ LocalFree => LocalFree'
      /\ ServerNew => ServerNew'
      /\ Refused' <=> Refused
      /\ \A v \in Given : /\ CoveredHere(v) => CoveredHere(v)'
                          /\ CoveredThere(v) => CoveredThere(v)'
  BY RefusedStays DEF LocalUser, HereKept, World
<1>3. /\ ServerCovered => ServerCovered'
      /\ ServerFree => ServerFree'
      /\ \A stamp \in Given : \A etag : Pair(stamp, etag) => Pair(stamp, etag)'
  BY LocalUserFacts DEF Kept
<1>4. RowsPaired(journal)' /\ RowsPaired(saved)'
  BY <1>1, <1>3, StampsAreGiven DEF Kept, RowsPaired, Pair, HasStamp, HasEtag
<1>5. ListingKept'
  <2>. SUFFICES ASSUME run.at = "listing" PROVE ListingKept' BY <1>1 DEF ListingKept
  <2>1. TakenForJournal => LocalFree'
    <3>1. TakenForJournal /\ ~LocalDiffers /\ local # None => LocalFree
      BY DEF Kept, RowsPaired, Pair, HasStamp, HasEtag, LocalDiffers, LocalFree, CoveredThere, Data
    <3>2. local = None => LocalFree BY DEF LocalFree
    <3>. QED  BY <1>2, <3>1, <3>2 DEF Kept, ListingKept
  <2>2. ServerListed /\ run.seen.server.checksum # None => CoveredThere(run.seen.server.checksum)'
    BY <1>1, <1>2
       DEF Kept, ListingKept, Counted, FilesCounted, MayBeGiven, ServerListed, CoveredThere,
           Covered
  <2>3. /\ TakenForJournal' <=> TakenForJournal
        /\ LocalListed' <=> LocalListed
        /\ ServerListed' <=> ServerListed
        /\ ServerMovedOn' <=> ServerMovedOn
    BY <1>1 DEF TakenForJournal, LocalListed, ServerListed, ServerMovedOn, HasEtag
  <2>4. ServerMovedOn => ServerFree' /\ (journal.db # None => ~HasEtag(journal.db.etag)')
    BY <1>1, <1>3 DEF Kept, ListingKept, HasEtag
  <2>5. /\ journal.db # None => ~HasStamp(journal.db.stamp)'
        /\ ServerListed => ~HasStamp(run.seen.server.stamp)'
    BY <1>1, <1>2, StampsAreGiven DEF HasStamp
  <2>6. LocalListed /\ server # None /\ server.stamp = run.seen.local.stamp => ServerCovered'
    BY <1>3 DEF Kept, ListingKept
  <2>7. ServerListed => run.seen.server.perm = scenario.perm
    BY DEF Kept, ListingKept
  <2>8. run.seen.server = None /\ run.seen.server # Unread => ServerNew'
    BY <1>2 DEF Kept, ListingKept
  <2>. QED  BY <1>1, <2>1, <2>2, <2>3, <2>4, <2>5, <2>6, <2>7, <2>8 DEF ListingKept
<1>6. FetchKept'
  <2>. SUFFICES ASSUME Fetches(run) PROVE FetchKept' BY <1>1 DEF FetchKept, Fetches, Asks
  <2>1. Compares(run) => CoveredThere(run.item.checksum)'
    BY <1>1, <1>2 DEF Kept, FetchKept, Counted, FilesCounted, MayBeGiven, CoveredThere, Covered
  <2>. QED  BY <1>1, <1>2, <2>1
            DEF Kept, FetchKept, Fetches, Asks, Compares, HasEtag
<1>7. SendKept'
  <2>1. Sends(run) => SendAllowed'
    BY <1>1, <1>2 DEF Kept, SendKept, SendAllowed, SentAlready
  <2>. QED  BY <1>1, <1>2, <1>3, <2>1, StampsAreGiven
            DEF Kept, SendKept, Sends, Counted, FilesCounted, CoveredHere, Covered, HasStamp,
                HasEtag, Pair, Working
<1>8. RemovalKept' /\ UpdateKept'
  BY <1>1, <1>2, <1>3, StampsAreGiven
     DEF Kept, RemovalKept, UpdateKept, HasStamp, HasEtag, Pair, Working
<1>9. PartCovered'
  BY <1>1, <1>2 DEF Kept, PartCovered, Counted, FilesCounted, CoveredThere, Covered
<1>. QED  BY <1>1, <1>4, <1>5, <1>6, <1>7, <1>8, <1>9 DEF Kept

LEMMA ServerUserKeeps ==
    ASSUME Sound, Told, Kept, Counted', ServerUser, run.at # "propfind"
    PROVE  Kept'
<1>1. UNCHANGED <<copies, tmp, journal, saved, run, local, scenario>>
  BY DEF ServerUser, World
<1>2. /\ \A etag : etag # FreshEtag => ~HasEtag(etag)'
      /\ server' # None =>
           server'.stamp \notin Given /\ server'.data \notin Given /\ server'.data # None
      /\ \A v \in Given : /\ CoveredHere(v) => CoveredHere(v)'
                          /\ CoveredThere(v) => CoveredThere(v)'
      /\ ServerFree' /\ ServerNew' /\ (Refused' <=> Refused)
  BY RefusedStays DEF ServerUser, HereKept, World
<1>3. /\ LocalCovered => LocalCovered'
      /\ LocalFree => LocalFree'
      /\ \A stamp, etag : etag # FreshEtag /\ Pair(stamp, etag) => Pair(stamp, etag)'
  BY ServerUserFacts DEF Kept
<1>4. RowsPaired(journal)' /\ RowsPaired(saved)'
  BY <1>1, <1>2, <1>3, StampsAreGiven
     DEF Kept, RowsPaired, Pair, HasStamp, HasEtag, Counted, FilesCounted, MayBeGiven
<1>5. ListingKept'
  <2>. SUFFICES ASSUME run.at = "listing" PROVE ListingKept' BY <1>1 DEF ListingKept
  <2>1. TakenForJournal => ~LocalDiffers' \/ LocalFree'
    BY <1>1, <1>3 DEF Kept, ListingKept, LocalDiffers
  <2>2. ServerListed /\ run.seen.server.checksum # None => CoveredThere(run.seen.server.checksum)'
    BY <1>1, <1>2
       DEF Kept, ListingKept, Counted, FilesCounted, MayBeGiven, ServerListed, CoveredThere,
           Covered
  <2>3. /\ TakenForJournal' <=> TakenForJournal
        /\ LocalListed' <=> LocalListed
        /\ ServerListed' <=> ServerListed
    BY <1>1 DEF TakenForJournal, LocalListed, ServerListed
  <2>4. journal.db # None => ~HasEtag(journal.db.etag)'
    BY <1>1, <1>2, StampsAreGiven DEF HasEtag
  <2>5. ~TakenForJournal /\ run.seen.local # Unread /\ journal.db # None =>
          ~HasStamp(journal.db.stamp)'
    BY <1>1 DEF Kept, ListingKept, HasStamp
  <2>6. ~(LocalListed /\ server' # None /\ server'.stamp = run.seen.local.stamp)
    BY <1>2, StampsAreGiven
  <2>7. ServerListed /\ HasStamp(run.seen.server.stamp)' => LocalCovered'
    BY <1>1, <1>3 DEF Kept, ListingKept, HasStamp
  <2>8. ServerListed => run.seen.server.perm = scenario.perm
    BY DEF Kept, ListingKept
  <2>. QED  BY <1>1, <1>2, <2>1, <2>2, <2>3, <2>4, <2>5, <2>6, <2>7, <2>8 DEF ListingKept
<1>6. FetchKept'
  <2>. SUFFICES ASSUME Fetches(run) PROVE FetchKept' BY <1>1 DEF FetchKept, Fetches, Asks
  <2>1. Compares(run) => run.item.checksum # None /\ CoveredThere(run.item.checksum)'
    BY <1>1, <1>2 DEF Kept, FetchKept, Counted, FilesCounted, MayBeGiven, CoveredThere, Covered
  <2>. QED  BY <1>1, <1>2, <1>3, <2>1, StampsAreGiven
            DEF Kept, FetchKept, Fetches, Asks, Compares, HasEtag
<1>7. SendKept'
  <2>1. Sends(run) => run.at \in Working BY DEF Sends, Working
  <2>2. Sends(run) => MayBeGiven(run.item.checksum) BY DEF Kept, Counted, FilesCounted
  <2>3. Sends(run) =>
          ~(run.item.checksum # None /\ server' # None /\ server'.data = run.item.checksum)
    BY <1>2, <2>2 DEF MayBeGiven
  <2>4. Sends(run) => ~HasEtag(run.item.etag)'
    BY <1>1, <1>2, <2>1, StampsAreGiven DEF HasEtag
  <2>5. run.at = "put" => CoveredHere(run.body)'
    BY <1>1, <1>2 DEF Kept, SendKept, Counted, FilesCounted, CoveredHere, Covered
  <2>6. run.at \in {"uploaded", "downloaded"} => Pair(run.item.stamp, run.item.etag)'
    BY <1>1, <1>3, StampsAreGiven DEF Kept, SendKept, Pair, HasStamp, HasEtag, Working
  <2>7. Sends(run) => SendAllowed'
    BY <1>1, <1>2 DEF Kept, SendKept, SendAllowed
  <2>. QED  BY <1>1, <1>2, <2>3, <2>4, <2>5, <2>6, <2>7
            DEF Kept, SendKept, Sends, HasStamp, HasEtag
<1>8. RemovalKept' /\ UpdateKept'
  BY <1>1, <1>2, <1>3, StampsAreGiven
     DEF Kept, RemovalKept, UpdateKept, HasStamp, HasEtag, Pair, Working
<1>9. PartCovered'
  BY <1>1, <1>2 DEF Kept, PartCovered, Counted, FilesCounted, CoveredThere, Covered
<1>. QED  BY <1>1, <1>4, <1>5, <1>6, <1>7, <1>8, <1>9 DEF Kept

LEMMA UsersKeep ==
    ASSUME Sound, Told, Kept, Plain, Users
    PROVE  Kept'
BY LocalUsers, ServerUsers, LocalUserKeeps, ServerUserKeeps DEF Users, Kept

(* What stays as it is.  The client may forget what it has found. *)
Still == UNCHANGED <<local, server, copies, owed, made, scenario>>

LEMMA StillFacts ==
    ASSUME Still, unseen \subseteq unseen'
    PROVE  /\ LocalCovered' <=> LocalCovered
           /\ ServerCovered' <=> ServerCovered
           /\ LocalFree => LocalFree'
           /\ ServerFree => ServerFree'
           /\ ServerNew => ServerNew'
           /\ Refused' <=> Refused
           /\ \A v : /\ CoveredHere(v)' <=> CoveredHere(v)
                     /\ CoveredThere(v)' <=> CoveredThere(v)
           /\ \A stamp, etag : Pair(stamp, etag) => Pair(stamp, etag)'
<1>1. Refused' <=> Refused BY RefusedStays DEF Still
<1>2. /\ LocalCovered' <=> LocalCovered
      /\ ServerCovered' <=> ServerCovered
      /\ LocalFree => LocalFree'
      /\ ServerFree => ServerFree'
      /\ ServerNew => ServerNew'
  BY <1>1
     DEF Still, LocalCovered, ServerCovered, LocalFree, ServerFree, ServerNew, CoveredHere,
         CoveredThere, Covered, Data
<1>. QED  BY <1>1, <1>2 DEF Still, CoveredHere, CoveredThere, Covered, Data, Pair, HasStamp, HasEtag

------------------------------------------------------------------------------
(* What is not a step of the run, and the ends of a run that touches no     *)
(* file.                                                                    *)
LEMMA StillPaired ==
    ASSUME RowsPaired(journal), RowsPaired(saved), Still, unseen \subseteq unseen'
    PROVE  /\ journal'.db \in {None, journal.db, saved.db}
                /\ journal'.up \in {None, journal.up, saved.up} => RowsPaired(journal)'
           /\ saved'.db \in {None, journal.db, saved.db}
                /\ saved'.up \in {None, journal.up, saved.up} => RowsPaired(saved)'
<1>1. /\ ServerCovered' <=> ServerCovered
      /\ \A stamp, etag : Pair(stamp, etag) => Pair(stamp, etag)'
  BY StillFacts
<1>2. server' = server BY DEF Still
<1>3. ASSUME journal'.db \in {None, journal.db, saved.db},
             journal'.up \in {None, journal.up, saved.up}
      PROVE  RowsPaired(journal)'
  <2>1. journal'.db # None => Pair(journal'.db.stamp, journal'.db.etag)
    BY <1>3 DEF RowsPaired
  <2>2. journal'.up # None /\ server # None /\ server.data = journal'.up.checksum => ServerCovered
    BY <1>3 DEF RowsPaired
  <2>. QED  BY <1>1, <1>2, <2>1, <2>2 DEF RowsPaired, Pair, HasStamp, HasEtag
<1>4. ASSUME saved'.db \in {None, journal.db, saved.db},
             saved'.up \in {None, journal.up, saved.up}
      PROVE  RowsPaired(saved)'
  <2>1. saved'.db # None => Pair(saved'.db.stamp, saved'.db.etag)
    BY <1>4 DEF RowsPaired
  <2>2. saved'.up # None /\ server # None /\ server.data = saved'.up.checksum => ServerCovered
    BY <1>4 DEF RowsPaired
  <2>. QED  BY <1>1, <1>2, <2>1, <2>2 DEF RowsPaired, Pair, HasStamp, HasEtag
<1>. QED  BY <1>3, <1>4

LEMMA RestsKept ==
    ASSUME run' \in {Idle, Ending}, FilesCounted', PartCovered',
           RowsPaired(journal)', RowsPaired(saved)',
           run' = Idle => saved'.db = journal'.db
    PROVE  Kept'
<1>1. /\ run'.at \in {"idle", "ending"} /\ (run'.at = "idle" => run' = Idle)
      /\ run'.seen.server = Unread
  BY DEF Idle, Ending
<1>2. ~Fetches(run') /\ ~Compares(run') /\ ~Sends(run')
  BY <1>1 DEF Fetches, Compares, Asks, Sends
<1>. QED  BY <1>1, <1>2 DEF Kept, Counted, ListingKept, FetchKept, SendKept, RemovalKept,
                            UpdateKept

LEMMA StillCounted ==
    ASSUME FilesCounted, Still, unseen' \subseteq Given, tmp' # None => tmp'.data \in Given,
           journal'.up \in {None, journal.up, saved.up}, saved'.up \in {None, journal.up, saved.up}
    PROVE  FilesCounted'
<1>1. Given' = Given BY DEF Still, Given
<1>. QED  BY <1>1 DEF Still, FilesCounted, MayBeGiven

LEMMA StopsKept ==
    ASSUME Kept, Still, unseen \subseteq unseen', unseen' \subseteq Given, run' \in {Idle, Ending},
           tmp' \in {None, tmp} \/ (tmp'.data = Data(server) /\ server # None),
           journal'.db \in {None, journal.db, saved.db},
           journal'.up \in {None, journal.up, saved.up},
           saved'.db \in {None, journal.db, saved.db},
           saved'.up \in {None, journal.up, saved.up},
           run' = Idle => saved'.db = journal'.db
    PROVE  Kept'
<1>1. tmp' # None => tmp'.data \in Given
  BY DEF Kept, Counted, FilesCounted, Data
<1>2. PartCovered'
  BY DEF Kept, PartCovered, Still, CoveredThere, Covered, Data
<1>. QED  BY <1>1, <1>2, StillPaired, StillCounted, RestsKept DEF Kept, Counted

LEMMA AsideKept ==
    ASSUME Kept, Still, UNCHANGED <<unseen, tmp, run, scenario>>,
           journal'.db = journal.db, journal'.up = journal.up,
           saved'.db \in {saved.db, journal.db}, saved'.up \in {saved.up, journal.up}
    PROVE  Kept'
<1>1. UNCHANGED <<local, server, copies, owed, made, unseen, tmp, run, scenario>>
  BY DEF Still
<1>2. /\ LocalCovered' <=> LocalCovered
      /\ ServerCovered' <=> ServerCovered
      /\ LocalFree => LocalFree'
      /\ ServerFree => ServerFree'
      /\ ServerNew => ServerNew'
      /\ Refused' <=> Refused
      /\ \A v : /\ CoveredHere(v)' <=> CoveredHere(v)
                /\ CoveredThere(v)' <=> CoveredThere(v)
      /\ \A stamp, etag : Pair(stamp, etag) => Pair(stamp, etag)'
  BY StillFacts
<1>3. Given' = Given BY <1>1 DEF Given
<1>4. FilesCounted'
  BY <1>1, StillCounted DEF Kept, Counted, FilesCounted
<1>5. Counted'
  BY <1>1, <1>3, <1>4 DEF Kept, Counted, MayBeGiven, Compares, Asks, Sends
<1>6. RowsPaired(journal)' /\ RowsPaired(saved)'
  BY StillPaired DEF Kept
<1>7. ListingKept'
  <2>. SUFFICES ASSUME run.at = "listing" PROVE ListingKept' BY <1>1 DEF ListingKept
  <2>1. /\ TakenForJournal' <=> TakenForJournal
        /\ LocalListed' <=> LocalListed
        /\ ServerListed' <=> ServerListed
        /\ ServerMovedOn' <=> ServerMovedOn
        /\ LocalDiffers' <=> LocalDiffers
    BY <1>1 DEF TakenForJournal, LocalListed, ServerListed, ServerMovedOn, HasEtag, LocalDiffers
  <2>2. ServerListed /\ run.seen.server.checksum # None => CoveredThere(run.seen.server.checksum)'
    BY <1>1, <1>2 DEF Kept, ListingKept, CoveredThere, Covered
  <2>. QED  BY <1>1, <1>2, <2>1, <2>2 DEF Kept, ListingKept, HasStamp, HasEtag
<1>8. FetchKept'
  <2>. SUFFICES ASSUME Fetches(run) PROVE FetchKept' BY <1>1 DEF FetchKept, Fetches, Asks
  <2>1. Compares(run) => run.item.checksum # None /\ CoveredThere(run.item.checksum)'
    BY <1>1, <1>2 DEF Kept, FetchKept, CoveredThere, Covered
  <2>. QED  BY <1>1, <1>2, <2>1
            DEF Kept, FetchKept, Fetches, Asks, Compares, HasEtag
<1>9. SendKept'
  <2>1. Sends(run) => SendAllowed'
    BY <1>1, <1>2 DEF Kept, SendKept, SendAllowed, SentAlready
  <2>. QED  BY <1>1, <1>2, <2>1
            DEF Kept, SendKept, Sends, CoveredHere, Covered, HasStamp, HasEtag, Pair
<1>10. RemovalKept' /\ UpdateKept'
  BY <1>1, <1>2 DEF Kept, RemovalKept, UpdateKept, HasStamp, HasEtag, Pair
<1>11. PartCovered'
  BY <1>1, <1>2 DEF Kept, PartCovered, CoveredThere, Covered
<1>. QED  BY <1>1, <1>5, <1>6, <1>7, <1>8, <1>9, <1>10, <1>11 DEF Kept

LEMMA OthersKept ==
    ASSUME Sound, Kept, Commit \/ Tick \/ Unlocked \/ Calm \/ Expire \/ UNCHANGED vars
    PROVE  Kept'
<1>1. Still /\ UNCHANGED <<unseen, tmp, run, scenario>>
  BY DEF Commit, Tick, Unlocked, Calm, Expire, vars, Still
<1>2. /\ journal'.db = journal.db /\ journal'.up = journal.up
      /\ saved'.db \in {saved.db, journal.db} /\ saved'.up \in {saved.up, journal.up}
  <2>1. {"db", "down", "up", "black"} \subseteq DOMAIN journal
    BY DEF Sound, RowsTyped, RowsFine
  <2>. QED  BY <2>1 DEF Commit, Tick, Unlocked, Calm, Expire, Forgiving, vars
<1>. QED  BY <1>1, <1>2, AsideKept

LEMMA CrashKept ==
    ASSUME Sound, Kept, Crash \/ Abort \/ EndRun
    PROVE  Kept'
<1>1. Still /\ unseen' = unseen /\ run' \in {Idle, Ending} /\ tmp' \in {None, tmp}
  BY DEF Crash, Abort, EndRun, SameFiles, SameWorld, Still
<1>2. /\ journal'.db \in {None, journal.db, saved.db}
      /\ journal'.up \in {None, journal.up, saved.up}
      /\ saved'.db \in {None, journal.db, saved.db}
      /\ saved'.up \in {None, journal.up, saved.up}
      /\ run' = Idle => saved'.db = journal'.db
  <2>1. {"db", "down", "up", "black"} \subseteq DOMAIN saved
    BY DEF Sound, RowsTyped, RowsFine
  <2>2. Idle # Ending BY DEF Idle, Ending
  <2>. QED  BY <2>1, <2>2 DEF Crash, Abort, EndRun, Forgiving, Kept, At
<1>3. unseen' \subseteq Given BY <1>1 DEF Kept, Counted, FilesCounted
<1>. QED  BY <1>1, <1>2, <1>3, StopsKept

------------------------------------------------------------------------------
(* Discovery: what a run finds is covered by the other side, or differs     *)
(* from the journal.                                                        *)
LEMMA InfosAreSome ==
    ASSUME FilesTyped
    PROVE  /\ local = None => LocalInfo = None
           /\ local # None => LocalInfo \notin {None, Unread} /\ LocalInfo.stamp = local.stamp
           /\ server = None => RemoteInfo = None
           /\ server # None =>
                /\ RemoteInfo \notin {None, Unread}
                /\ RemoteInfo.stamp = server.stamp /\ RemoteInfo.etag = server.etag
                /\ RemoteInfo.checksum \in {None, server.data} /\ RemoteInfo.perm = scenario.perm
<1>1. ASSUME local # None
      PROVE  LocalInfo \in [dir : BOOLEAN, stamp : Versions] /\ LocalInfo.stamp = local.stamp
  BY <1>1, LocalTyped DEF LocalInfo
<1>2. ASSUME server # None
      PROVE  /\ RemoteInfo \in [dir : BOOLEAN, stamp : Versions, etag : Etags,
                                checksum : Versions \union {None},
                                perm : {scene.perm : scene \in Scenarios}]
             /\ RemoteInfo.stamp = server.stamp /\ RemoteInfo.etag = server.etag
             /\ RemoteInfo.checksum \in {None, server.data} /\ RemoteInfo.perm = scenario.perm
  <2>1. /\ server.data \in Versions /\ server.stamp \in Versions /\ server.etag \in Etags
        /\ scenario.perm \in {scene.perm : scene \in Scenarios}
    BY <1>2, LocalTyped DEF FilesTyped
  <2>2. Checksum(server.data) \in {None, server.data} BY DEF Checksum
  <2>. QED  BY <1>2, <2>1, <2>2 DEF RemoteInfo
<1>3. local = None => LocalInfo = None BY DEF LocalInfo
<1>4. server = None => RemoteInfo = None BY DEF RemoteInfo
<1>. QED  BY <1>1, <1>2, <1>3, <1>4, SentinelsAssumption DEF Versions

LEMMA ListsKept ==
    ASSUME Kept, Still, UNCHANGED <<tmp, journal, saved, scenario>>, unseen' \subseteq unseen,
           run'.at = "listing", RowsPaired(journal)', RowsPaired(saved)', ListingKept',
           saved.db = journal.db,
           run'.seen.server \notin {None, Unread} => MayBeGiven(run'.seen.server.checksum)
    PROVE  Kept'
<1>1. FilesCounted'
  BY StillCounted DEF Kept, Counted, FilesCounted
<1>2. Given' = Given BY DEF Still, Given
<1>3. ~Fetches(run') /\ ~Compares(run') /\ ~Sends(run')
  BY DEF Fetches, Compares, Asks, Sends
<1>4. Counted'
  BY <1>1, <1>2, <1>3 DEF Counted, MayBeGiven
<1>5. PartCovered'
  BY DEF Still, Kept, PartCovered, CoveredThere, Covered
<1>. QED  BY <1>3, <1>4, <1>5 DEF Kept, FetchKept, SendKept, RemovalKept, UpdateKept

LEMMA StartRunKept ==
    ASSUME Sound, Kept, run.at = "idle" /\ ~tracked => LocalFree,
           NEW mode \in {"normal", "parentNotChanged"}, StartRun(mode)
    PROVE  Kept'
<1>1. /\ Still /\ UNCHANGED <<tmp, journal, saved, scenario, unseen>> /\ run.at = "idle"
      /\ mode = "parentNotChanged" => MayTrustJournal
  BY DEF StartRun, SameFiles, SameWorld, Still, At
<1>2. /\ run'.at = "listing" /\ run'.mode = mode /\ run'.seen.server = Unread
      /\ run'.seen.local = IF mode = "normal" THEN Unread ELSE None
  BY DEF StartRun, Idle
<1>3. RowsPaired(journal)' /\ RowsPaired(saved)'
  BY <1>1, StillPaired DEF Kept
<1>4. ListingKept'
  <2>1. ~LocalListed' /\ ~ServerListed' /\ ~ServerMovedOn'
    BY <1>2 DEF LocalListed, ServerListed, ServerMovedOn
  <2>2. TakenForJournal' => mode = "parentNotChanged"
    BY <1>2, <2>1 DEF TakenForJournal
  <2>3. MayTrustJournal => LocalFree
    BY <1>1 DEF MayTrustJournal
  <2>4. LocalFree => LocalFree'
    BY <1>1, StillFacts
  <2>5. mode = "parentNotChanged" => TakenForJournal'
    BY <1>2 DEF TakenForJournal
  <2>. QED  BY <1>1, <1>2, <2>1, <2>2, <2>3, <2>4, <2>5 DEF ListingKept
<1>. QED  BY <1>1, <1>2, <1>3, <1>4, ListsKept DEF Kept

LEMMA ListLocalKept ==
    ASSUME Sound, Told, Kept, ListLocal
    PROVE  Kept'
<1>1. /\ Still /\ UNCHANGED <<tmp, journal, saved, scenario>>
      /\ run.at = "listing" /\ run.mode = "normal"
      /\ unseen' = Found(local, LocalDiffers)
  BY DEF ListLocal, SameFiles, SameWorld, Still, At
<1>2. /\ run'.at = "listing" /\ run'.mode = run.mode /\ run'.seen.server = run.seen.server
      /\ run'.seen.local = LocalInfo
  BY <1>1 DEF ListLocal, Sound, RunTyped, Fields
<1>3. /\ local = None => LocalInfo = None
      /\ local # None => LocalInfo \notin {None, Unread} /\ LocalInfo.stamp = local.stamp
  BY InfosAreSome DEF Sound
<1>4. /\ unseen' \subseteq unseen
      /\ unseen' # unseen => LocalDiffers /\ local # None /\ unseen' = unseen \ {local.data}
  BY <1>1 DEF Found
<1>5. UNCHANGED <<local, server, copies, owed>> /\ (Refused' <=> Refused)
  BY <1>1, RefusedStays DEF Still
<1>6. /\ ServerCovered' <=> ServerCovered
      /\ LocalCovered' <=> LocalCovered
      /\ ServerFree => ServerFree'
      /\ ServerNew => ServerNew'
      /\ \A v : CoveredThere(v)' <=> CoveredThere(v)
  <2>1. /\ ServerFree => ServerFree'
        /\ ServerNew => ServerNew'
    BY <1>4, <1>5 DEF ServerFree, ServerNew, CoveredHere, Covered, Data
  <2>. QED  BY <1>5, <2>1 DEF ServerCovered, LocalCovered, CoveredThere, CoveredHere, Covered, Data
<1>7. RowsPaired(journal)' /\ RowsPaired(saved)'
  <2>1. CASE unseen' = unseen
    BY <1>1, <2>1, StillPaired DEF Kept
  <2>2. CASE unseen' # unseen
    <3>1. /\ saved.db = journal.db
          /\ journal.db # None => ~HasStamp(journal.db.stamp)
      BY <1>1, <1>4, <2>2 DEF Kept, LocalDiffers, HasStamp
    <3>. QED  BY <1>1, <1>5, <1>6, <3>1 DEF Kept, RowsPaired, Pair, HasStamp, HasEtag
  <2>. QED  BY <2>1, <2>2
<1>8. ListingKept'
  <2>1. LocalListed' <=> local # None
    BY <1>2, <1>3 DEF LocalListed
  <2>2. TakenForJournal' <=> (local # None /\ journal.db # None /\ local.stamp = journal.db.stamp)
    BY <1>1, <1>2, <1>3, <2>1 DEF TakenForJournal
  <2>3. TakenForJournal' => ~LocalDiffers'
    BY <1>1, <1>5, <2>2 DEF LocalDiffers
  <2>4. ~TakenForJournal' /\ journal.db # None => ~HasStamp(journal.db.stamp)'
    BY <1>1, <1>5, <2>2 DEF HasStamp
  <2>5. /\ ServerListed' <=> ServerListed
        /\ ServerMovedOn' <=> ServerMovedOn
    BY <1>2, <1>5 DEF ServerListed, ServerMovedOn, HasEtag
  <2>6. ServerMovedOn => ServerFree' /\ (journal.db # None => ~HasEtag(journal.db.etag)')
    BY <1>1, <1>5, <1>6 DEF Kept, ListingKept, HasEtag
  <2>7. LocalListed' /\ server # None /\ server.stamp = run'.seen.local.stamp => ServerCovered
    BY <1>2, <1>3, <2>1 DEF Told, FilesTold, Same, ServerCovered, CoveredHere, Data
  <2>8. ServerListed =>
          /\ run.seen.server.checksum # None => CoveredThere(run.seen.server.checksum)'
          /\ HasStamp(run.seen.server.stamp) => LocalCovered'
          /\ run.seen.server.perm = scenario.perm
    BY <1>1, <1>2, <1>5, <1>6 DEF Kept, ListingKept, CoveredThere, Covered
  <2>9. run'.seen.server = None /\ run'.seen.server # Unread => ServerNew'
    BY <1>1, <1>2, <1>6 DEF Kept, ListingKept
  <2>. QED  BY <1>1, <1>2, <1>5, <1>6, <2>1, <2>3, <2>4, <2>5, <2>6, <2>7, <2>8, <2>9
            DEF ListingKept, HasStamp, HasEtag, CoveredThere, Covered
<1>9. run'.seen.server \notin {None, Unread} => MayBeGiven(run'.seen.server.checksum)
  BY <1>2 DEF Kept, Counted
<1>. QED  BY <1>1, <1>2, <1>4, <1>7, <1>8, <1>9, ListsKept DEF Kept

LEMMA ListServerKept ==
    ASSUME Sound, Told, Kept, ListServer
    PROVE  Kept'
<1>1. /\ Still /\ UNCHANGED <<tmp, journal, saved, scenario>> /\ run.at = "listing"
      /\ \E changed : unseen' = Found(server, changed)
  BY DEF ListServer, SameFiles, SameWorld, Still, At
<1>2. /\ run'.at = "listing" /\ run'.mode = run.mode /\ run'.seen.server = RemoteInfo
      /\ run'.seen.local = run.seen.local
  BY <1>1 DEF ListServer, Sound, RunTyped, Fields
<1>3. /\ server = None => RemoteInfo = None
      /\ server # None =>
           /\ RemoteInfo \notin {None, Unread}
           /\ RemoteInfo.stamp = server.stamp /\ RemoteInfo.etag = server.etag
           /\ RemoteInfo.checksum \in {None, server.data} /\ RemoteInfo.perm = scenario.perm
  BY InfosAreSome DEF Sound
<1>4. /\ unseen' \subseteq unseen
      /\ unseen' # unseen => server # None /\ unseen' = unseen \ {server.data}
  BY <1>1 DEF Found
<1>5. UNCHANGED <<local, server, copies, owed>> /\ (Refused' <=> Refused)
  BY <1>1, RefusedStays DEF Still
<1>6. /\ ServerCovered' <=> ServerCovered
      /\ LocalCovered' <=> LocalCovered
      /\ LocalFree => LocalFree'
      /\ \A v : CoveredThere(v)' <=> CoveredThere(v)
  <2>1. LocalFree => LocalFree'
    BY <1>4, <1>5 DEF LocalFree, CoveredThere, Covered, Data
  <2>. QED  BY <1>5, <2>1 DEF ServerCovered, LocalCovered, CoveredThere, CoveredHere, Covered, Data
<1>7. RowsPaired(journal)' /\ RowsPaired(saved)'
  BY <1>1, <1>5, <1>6 DEF Kept, RowsPaired, Pair, HasStamp, HasEtag
<1>8. ListingKept'
  <2>1. ServerListed' <=> server # None
    BY <1>2, <1>3 DEF ServerListed
  <2>2. /\ LocalListed' <=> LocalListed
        /\ TakenForJournal' <=> TakenForJournal
        /\ LocalDiffers' <=> LocalDiffers
    BY <1>1, <1>2, <1>5 DEF LocalListed, TakenForJournal, LocalDiffers
  <2>3. ServerMovedOn' => server = None
    BY <1>2, <1>3, <1>5 DEF ServerMovedOn, HasEtag
  <2>4. server = None => ServerFree' /\ (journal.db # None => ~HasEtag(journal.db.etag)')
    BY <1>5 DEF ServerFree, HasEtag
  <2>5. server # None =>
          /\ RemoteInfo.checksum # None => CoveredThere(RemoteInfo.checksum)
          /\ HasStamp(RemoteInfo.stamp) => LocalCovered
    BY <1>3 DEF CoveredThere, Data, HasStamp, LocalCovered, Told, FilesTold, Same
  <2>6. /\ TakenForJournal => ~LocalDiffers \/ LocalFree'
        /\ ~TakenForJournal /\ run.seen.local # Unread /\ journal.db # None =>
              ~HasStamp(journal.db.stamp)
        /\ LocalListed /\ server # None /\ server.stamp = run.seen.local.stamp => ServerCovered'
    BY <1>1, <1>6 DEF Kept, ListingKept
  <2>7. ServerListed' =>
          /\ run'.seen.server.checksum # None => CoveredThere(run.seen.server.checksum)'
          /\ HasStamp(run.seen.server.stamp)' => LocalCovered'
          /\ run'.seen.server.perm = scenario.perm
    BY <1>2, <1>3, <1>5, <1>6, <2>1, <2>5 DEF CoveredThere, Covered, HasStamp
  <2>8. run'.seen.server = None /\ run'.seen.server # Unread => ServerNew'
    BY <1>2, <1>3, <1>5 DEF ServerNew
  <2>. QED  BY <1>1, <1>2, <1>5, <2>2, <2>3, <2>4, <2>6, <2>7, <2>8
            DEF ListingKept, HasStamp, HasEtag
<1>9. run'.seen.server \notin {None, Unread} => MayBeGiven(run'.seen.server.checksum)
  BY <1>2, <1>3 DEF Kept, Counted, FilesCounted, MayBeGiven
<1>. QED  BY <1>1, <1>2, <1>4, <1>7, <1>8, <1>9, ListsKept DEF Kept

(* What a run decides is justified by what it has listed, or undoes what a  *)
(* permission refuses.                                                      *)
Chosen(item, here, there, db, query, up) ==
    \/ Justified(item, here, there, db, query, up) /\ Permitted(item, there)
    \/ Restored(item, there, db)

LEMMA DecidesJustified ==
    ASSUME Sound, Decide
    PROVE  /\ run' = Ending \/ run'.at = "started"
           /\ run' = Ending => ~ChangedHere(run.seen.local, journal.db)
           /\ run'.at = "started" =>
                /\ ~tracked' => ~tracked
                /\ Chosen(run'.item, run.seen.local, run.seen.server, journal.db,
                          [local |-> run.mode, server |-> "normal"], journal.up)
                /\ journal'.up = Needed(journal.up, run'.item, "Up")
                /\ journal'.db = journal.db
                /\ run'.seen.server = Unread
           /\ journal'.db \in {None, journal.db} /\ journal'.up \in {None, journal.up}
           /\ saved' = journal'
<1> DEFINE found == Discovered
           isItem == found.instruction \notin {"NONE", "STALE"}
           entry == IF isItem THEN journal.black ELSE None
           skipped == [found EXCEPT !.instruction = "IGNORE"]
           item  == IF CheckErrorBlacklisting(found, entry) THEN skipped ELSE found
           begun == [Idle EXCEPT !.at = "started", !.item = item, !.entry = entry]
           query == [local |-> run.mode, server |-> "normal"]
           Fits(x) == Chosen(x, run.seen.local, run.seen.server, journal.db, query, journal.up)
<1>1. /\ run' = IF isItem THEN begun ELSE Ending
      /\ journal'.db = IF found.instruction = "STALE" THEN None ELSE journal.db
      /\ journal'.up = Needed(journal.up, item, "Up")
      /\ saved' = journal'
  BY DEF Decide
<1>2. /\ Entries(run.seen.local, run.seen.server, journal.db, Versions, Etags)
      /\ Listed(query, run.seen.local)
  <2>1. run.seen.local # Unread /\ run.seen.server # Unread /\ run.at = "listing"
    BY DEF Decide, At
  <2>2. /\ AFile(run.seen.local) /\ AFile(run.seen.server) /\ AFile(journal.db)
        /\ EntryOf(run.seen.local, Versions) /\ EntryOf(run.seen.server, Versions)
        /\ EntryOf(journal.db, Versions)
        /\ run.seen.server # None => run.seen.server.etag \in Etags
        /\ None # "Down"
    BY <2>1, SentinelsAssumption DEF Sound, RunTyped, SeenTyped, RowsTyped, RowsFine
  <2>3. Listed(query, run.seen.local)
    BY <2>1 DEF Sound, RunsFine, RunFine, Listed
  <2>. QED  BY <2>2, <2>3 DEF Entries
<1> HIDE DEF query
<1>3. Fits(found) /\ AnItem(found)
  <2>1. found = ProcessFile(run.seen.local, run.seen.server, journal.db, query, journal.up,
                            scenario.parent)
    BY DEF Discovered, query
  <2> HIDE DEF found
  <2>2. Fits(found)
    BY <1>2, <2>1, ProcessFileJustified DEF Chosen
  <2>3. AnItem(found)
    BY <1>2, <2>1, ProcessFileSources DEF Sourced
  <2>. QED  BY <2>2, <2>3
<1> HIDE DEF found
<1>4. skipped.instruction = "IGNORE"
  BY <1>3 DEF AnItem
<1>5. Fits(item)
  <2> HIDE DEF skipped
  <2>1. Fits(skipped) BY <1>4 DEF Chosen, Justified, Permitted
  <2> HIDE DEF Fits
  <2>. QED  BY <1>3, <2>1
<1>6. begun.at = "started" /\ begun.item = item /\ begun.seen.server = Unread
  BY DEF Idle
<1>7. Ending.at # "started"
  BY EndingTyped
<1>8. isItem => (~tracked' => ~tracked)
  <2>1. tracked' = (isItem /\ tracked) BY DEF Decide, found
  <2> HIDE DEF isItem
  <2>. QED  BY <2>1, Zenon
<1>9. /\ isItem => found.instruction # "STALE"
      /\ ~isItem => ~ChangedHere(run.seen.local, journal.db)
  BY <1>3 DEF Chosen, Justified, Restored
<1>10. journal'.up \in {None, journal.up}
  BY <1>1 DEF Needed
<1> HIDE DEF begun, item, entry, Fits, isItem
<1>11. CASE isItem
  <2>1. run'.at = "started" /\ run'.item = item /\ run'.seen.server = Unread
    BY <1>1, <1>6, <1>11
  <2>2. Fits(run'.item) BY <1>5, <2>1
  <2>3. journal'.db = journal.db BY <1>1, <1>9, <1>11
  <2>. QED  BY <1>1, <1>7, <1>8, <1>10, <1>11, <2>1, <2>2, <2>3 DEF Fits, query
<1>12. CASE ~isItem
  BY <1>1, <1>7, <1>9, <1>10, <1>12
<1>. QED  BY <1>11, <1>12

LEMMA DecideKept ==
    ASSUME Sound, Told, Kept, Plain, Decide
    PROVE  Kept'
<1>1. /\ Still /\ UNCHANGED <<unseen, scenario>> /\ run.at = "listing"
      /\ run.seen.local # Unread /\ run.seen.server # Unread /\ tmp' \in {None, tmp}
  BY DEF Decide, SameWorld, Still, At
<1>2. /\ run' = Ending \/ run'.at = "started"
      /\ run'.at = "started" =>
           /\ Chosen(run'.item, run.seen.local, run.seen.server, journal.db,
                     [local |-> run.mode, server |-> "normal"], journal.up)
           /\ journal'.up = Needed(journal.up, run'.item, "Up")
           /\ journal'.db = journal.db
           /\ run'.seen.server = Unread
      /\ journal'.db \in {None, journal.db} /\ journal'.up \in {None, journal.up}
      /\ saved' = journal'
  BY DecidesJustified
<1>3. tmp' # None => tmp'.data \in Given
  BY <1>1 DEF Kept, Counted, FilesCounted
<1>4. CASE run' = Ending
  BY <1>1, <1>2, <1>4, StopsKept DEF Kept, Counted, FilesCounted
<1>5. CASE run'.at = "started"
  <2>1. PICK item, here, there, query :
          /\ item = run'.item /\ here = run.seen.local /\ there = run.seen.server
          /\ query.local = run.mode
          /\ Chosen(item, here, there, journal.db, query, journal.up)
    <3>1. [local |-> run.mode, server |-> "normal"].local = run.mode OBVIOUS
    <3>. QED  BY <1>2, <1>5, <3>1
  <2>2. /\ journal'.db = journal.db /\ saved' = journal'
        /\ journal'.up = Needed(journal.up, item, "Up")
    BY <1>2, <1>5, <2>1
  <2>3. /\ LocalListed => here # None
        /\ here # None => LocalListed /\ query.local # "parentNotChanged"
        /\ there # None <=> ServerListed
    BY <1>1, <2>1 DEF LocalListed, ServerListed, Sound, RunsFine, RunFine
  (* What is known at the end of the listing. *)
  <2>4. /\ TakenForJournal => ~LocalDiffers \/ LocalFree
        /\ ~TakenForJournal /\ journal.db # None => ~HasStamp(journal.db.stamp)
        /\ ServerMovedOn => ServerFree /\ (journal.db # None => ~HasEtag(journal.db.etag))
        /\ there # None =>
              /\ there.checksum # None => CoveredThere(there.checksum)
              /\ HasStamp(there.stamp) => LocalCovered
              /\ MayBeGiven(there.checksum) /\ there.etag # None
              /\ Lacks(there.perm, "W") <=> Refused
              /\ Lacks(there.perm, "D") <=> Refused
        /\ there = None => ServerNew
        /\ here # None /\ server # None /\ server.stamp = here.stamp => ServerCovered
    <3>1. there # None => MayBeGiven(there.checksum)
      BY <1>1, <2>1 DEF Kept, Counted
    <3>2. there # None => there.etag # None
      BY <1>1, <2>1, SentinelsAssumption DEF Sound, RunTyped
    <3>3. there # None => there.perm = scenario.perm
      BY <1>1, <2>1, <2>3 DEF Kept, ListingKept
    <3>4. Lacks(scenario.perm, "W") <=> Refused
      BY DEF Refused, Grants
    <3>5. Lacks(scenario.perm, "D") <=> Refused
      BY DEF Plain, ClearRights, Refused, Grants
    <3>. QED  BY <1>1, <2>1, <2>3, <3>1, <3>2, <3>3, <3>4, <3>5 DEF Kept, ListingKept
  <2>5. /\ query.local = "parentNotChanged" => TakenForJournal
        /\ here # None /\ journal.db # None /\ here.stamp = journal.db.stamp => TakenForJournal
        /\ query.local # "parentNotChanged" /\ (here = None \/ ChangedHere(here, journal.db)) =>
              ~TakenForJournal
        /\ there = None => ServerMovedOn
        /\ there # None => (ServerMovedOn <=> ~HasEtag(there.etag))
    BY <1>1, <2>1, <2>3 DEF TakenForJournal, ChangedHere, ServerMovedOn
  <2>6. there # None /\ HasEtag(there.etag) =>
          server.stamp = there.stamp /\ there.checksum \in {None, server.data}
    BY <1>1, <2>1 DEF Told, SeenIsCurrent, HasEtag
  <2>7. /\ journal.db # None => Pair(journal.db.stamp, journal.db.etag)
        /\ journal.up # None /\ server # None /\ server.data = journal.up.checksum => ServerCovered
        /\ journal.up # None => MayBeGiven(journal.up.checksum)
    BY DEF Kept, RowsPaired, Counted, FilesCounted
  <2>8. LocalCovered => LocalFree BY DEF LocalCovered, LocalFree
  <2>9. ServerCovered => ServerFree BY DEF ServerCovered, ServerFree
  <2>10. ChangedHere(here, journal.db) /\ journal.db # None => ~HasStamp(journal.db.stamp)
    BY <2>3, <2>4, <2>5 DEF ChangedHere
  <2>11. there # None /\ OurUpload(there, journal.up) /\ HasEtag(there.etag) => ServerCovered
    BY <2>6, <2>7 DEF OurUpload, HasEtag
  <2>. HIDE DEF TakenForJournal, LocalListed, ServerListed, ServerMovedOn
  <2>12. ASSUME item.instruction \in {"NEW", "SYNC", "CONFLICT"}, item.direction # "Up"
         PROVE  /\ there # None /\ journal'.up = None
                /\ journal.db # None => ~HasEtag(journal.db.etag) \/ Refused
                /\ item.instruction # "CONFLICT" =>
                      item.previous = IF journal.db = None THEN None ELSE journal.db.stamp
                /\ item.instruction = "CONFLICT" => item.checksum \in {None, there.checksum}
    <3>1. journal'.up = None BY <2>2, <2>12 DEF Needed
    <3>2. CASE Justified(item, here, there, journal.db, query, journal.up)
      <4>1. there # None /\ (journal.db # None => journal.db.etag # there.etag)
        BY <2>12, <3>2 DEF Justified
      <4>2. journal.db # None => ~HasEtag(journal.db.etag)
        BY <2>4, <2>5, <4>1 DEF HasEtag
      <4>. QED  BY <2>12, <3>1, <3>2, <4>1, <4>2 DEF Justified
    <3>3. CASE Restored(item, there, journal.db)
      BY <2>4, <3>1, <3>3 DEF Restored
    <3>. QED  BY <2>1, <3>2, <3>3 DEF Chosen
  <2>13. ASSUME item.instruction \in {"NEW", "SYNC", "TYPE_CHANGE"}, item.direction = "Up"
         PROVE  /\ item.instruction # "TYPE_CHANGE"
                /\ item.instruction = "NEW" => ServerFree
                /\ Refused => item.instruction = "NEW" /\ ServerNew
                /\ item.instruction = "SYNC" =>
                      item.etag # None /\ (HasEtag(item.etag) => ServerCovered)
                /\ item.checksum # None /\ server # None /\ server.data = item.checksum =>
                      ServerCovered
                /\ journal.db # None => ~HasStamp(journal.db.stamp)
                /\ MayBeGiven(item.checksum)
    <3>1. /\ Justified(item, here, there, journal.db, query, journal.up)
          /\ Permitted(item, there)
      BY <2>1, <2>13 DEF Chosen, Restored
    <3>2. CASE item.instruction = "NEW"
      BY <3>1, <2>4, <2>5, <2>10, <2>13, <3>2 DEF Justified, MayBeGiven
    <3>3. CASE item.instruction = "SYNC"
      <4>1. /\ there # None /\ item.etag = there.etag /\ ChangedHere(here, journal.db)
            /\ \/ journal.db # None /\ there.etag = journal.db.etag /\ item.checksum = None
               \/ OurUpload(there, journal.up) /\ item.checksum = there.checksum
        BY <2>13, <3>1, <3>3 DEF Justified
      <4>2. HasEtag(item.etag) => ServerCovered
        BY <2>7, <2>10, <2>11, <4>1 DEF Pair
      <4>3. item.checksum # None => journal.up # None /\ item.checksum = journal.up.checksum
        BY <4>1 DEF OurUpload
      <4>4. ~Refused BY <2>4, <2>13, <3>1, <3>3, <4>1 DEF Permitted
      <4>. QED  BY <2>4, <2>7, <2>10, <3>3, <4>1, <4>2, <4>3, <4>4 DEF MayBeGiven
    <3>4. item.instruction # "TYPE_CHANGE" BY <3>1 DEF Justified
    <3>. QED  BY <2>13, <3>2, <3>3, <3>4
  <2>14. ASSUME item.instruction = "REMOVE"
         PROVE  /\ journal'.up = None
                /\ item.direction = "Down" => LocalFree
                /\ item.direction = "Up" =>
                      /\ ServerFree /\ ~Refused
                      /\ journal.db # None => ~HasStamp(journal.db.stamp)
    <3>1. /\ Justified(item, here, there, journal.db, query, journal.up)
          /\ Permitted(item, there)
      BY <2>1, <2>14 DEF Chosen, Restored
    <3>2. journal'.up = None BY <2>2, <2>14 DEF Needed, Transfers
    <3>3. CASE item.direction = "Down"
      <4>1. /\ there = None /\ journal.db # None
            /\ query.local = "parentNotChanged" \/ (here # None /\ here.stamp = journal.db.stamp)
        BY <2>14, <3>1, <3>3 DEF Justified
      <4>2. (~LocalDiffers \/ LocalFree) /\ ~HasEtag(journal.db.etag)
        BY <2>4, <2>5, <4>1
      <4>3. ~LocalDiffers => LocalFree
        BY <2>7, <4>1, <4>2 DEF LocalDiffers, Pair, HasStamp, LocalFree
      <4>. QED  BY <3>2, <3>3, <4>2, <4>3
    <3>4. CASE item.direction = "Up"
      <4>1. /\ there # None /\ journal.db # None /\ there.etag = journal.db.etag
            /\ here = None /\ query.local # "parentNotChanged"
        BY <2>14, <3>1, <3>4 DEF Justified
      <4>2. ~HasStamp(journal.db.stamp)
        BY <2>4, <2>5, <4>1
      <4>3. ServerFree
        BY <2>4, <2>5, <2>7, <2>9, <4>1, <4>2 DEF Pair
      <4>4. ~Refused BY <2>4, <2>14, <3>1, <3>4, <4>1 DEF Permitted
      <4>. QED  BY <3>2, <3>4, <4>2, <4>3, <4>4
    <3>. QED  BY <3>2, <3>3, <3>4
  <2>15. ASSUME item.instruction = "UPDATE_METADATA" PROVE Pair(item.stamp, item.etag)
    <3>1. \/ journal.db # None /\ item.stamp = journal.db.stamp /\ item.etag = journal.db.etag
          \/ /\ here # None /\ there # None
             /\ item.stamp = there.stamp /\ item.etag = there.etag
             /\ there.stamp = here.stamp \/ OurUpload(there, journal.up)
      BY <2>1, <2>15 DEF Chosen, Restored, Justified
    <3>2. CASE journal.db # None /\ item.stamp = journal.db.stamp /\ item.etag = journal.db.etag
      BY <2>7, <3>2
    <3>3. CASE /\ here # None /\ there # None
               /\ item.stamp = there.stamp /\ item.etag = there.etag
               /\ there.stamp = here.stamp \/ OurUpload(there, journal.up)
      <4>1. HasStamp(there.stamp) /\ HasEtag(there.etag) => local.data = server.data
        BY <2>6, <3>3 DEF Told, FilesTold, Same, HasStamp, HasEtag
      <4>2. HasStamp(there.stamp) => LocalFree
        BY <2>4, <2>8, <3>3
      <4>3. HasEtag(there.etag) => ServerCovered
        BY <2>4, <2>6, <2>11, <3>3 DEF HasEtag
      <4>. QED  BY <3>3, <4>1, <4>2, <4>3 DEF Pair
    <3>. QED  BY <3>1, <3>2, <3>3
  <2>16. /\ ServerCovered' <=> ServerCovered
         /\ LocalFree => LocalFree'
         /\ ServerFree => ServerFree'
         /\ ServerNew => ServerNew'
         /\ Refused' <=> Refused
         /\ \A v : CoveredThere(v)' <=> CoveredThere(v)
         /\ \A stamp, etag : Pair(stamp, etag) => Pair(stamp, etag)'
    BY <1>1, StillFacts
  <2>17. UNCHANGED <<local, server, copies, owed, made>> BY <1>1 DEF Still
  <2>18. run'.item = item BY <2>1
  <2>19. Counted'
    <3>1. FilesCounted'
      BY <1>1, <1>2, <1>3, StillCounted DEF Kept, Counted, FilesCounted
    <3>2. Given' = Given BY <2>17 DEF Given
    <3>3. Compares(run') => MayBeGiven(item.checksum)
      BY <1>5, <2>4, <2>12, <2>18 DEF Compares, Asks
    <3>4. Sends(run') => MayBeGiven(item.checksum)
      BY <1>5, <2>13, <2>18 DEF Sends
    <3>5. run'.seen.server = Unread
      BY <1>2, <1>5
    <3>. QED  BY <1>5, <2>18, <3>1, <3>2, <3>3, <3>4, <3>5 DEF Counted, MayBeGiven
  <2>20. RowsPaired(journal)' /\ RowsPaired(saved)'
    BY <1>1, <1>2, StillPaired DEF Kept
  <2>21. FetchKept'
    <3>. SUFFICES ASSUME Fetches(run') PROVE FetchKept' BY DEF FetchKept
    <3>1. item.instruction \in {"NEW", "SYNC", "CONFLICT"} /\ item.direction # "Up"
      BY <1>5, <2>18 DEF Fetches, Asks
    <3>2. Compares(run') => item.checksum # None /\ CoveredThere(item.checksum)
      BY <1>5, <2>4, <2>12, <2>18, <3>1 DEF Compares, Asks
    <3>3. Compares(run') => run'.item.checksum # None /\ CoveredThere(run.item.checksum)'
      BY <2>16, <2>17, <2>18, <3>2 DEF CoveredThere, Covered
    <3>4. /\ journal'.up = None /\ saved'.up = None
          /\ journal'.db # None => ~HasEtag(journal'.db.etag) \/ Refused
          /\ run'.item.instruction # "CONFLICT" =>
                run'.item.previous = IF journal'.db = None THEN None ELSE journal'.db.stamp
      BY <2>2, <2>12, <2>18, <3>1
    <3>. QED  BY <1>5, <2>16, <2>17, <3>3, <3>4 DEF FetchKept, HasEtag
  <2>22. SendKept'
    BY <1>5, <2>2, <2>13, <2>16, <2>17, <2>18 DEF SendKept, SendAllowed, Sends, HasStamp, HasEtag
  <2>23. RemovalKept'
    BY <2>2, <2>14, <2>16, <2>17, <2>18 DEF RemovalKept, HasStamp
  <2>24. UpdateKept'
    BY <2>15, <2>16, <2>17, <2>18 DEF UpdateKept, Pair, HasStamp, HasEtag
  <2>25. PartCovered'
    BY <1>1, <2>16, <2>17 DEF Kept, PartCovered, CoveredThere, Covered
  <2>. QED  BY <1>5, <2>2, <2>19, <2>20, <2>21, <2>22, <2>23, <2>24, <2>25
            DEF Kept, ListingKept
<1>. QED  BY <1>2, <1>4, <1>5

------------------------------------------------------------------------------
(* The end of a job. *)
LEMMA DoneEnds ==
    ASSUME NEW status, NEW item, NEW http, NEW rows, RowsFine(rows), Done(status, item, http, rows)
    PROVE  /\ run' = Ending /\ run' # Idle
           /\ journal'.db = rows.db /\ journal'.up = rows.up
<1>1. run' = Ending /\ Ending # Idle
  BY DEF Done, Ending, Idle
<1>. QED  BY <1>1 DEF Done, RowsFine

LEMMA DoneUnseen ==
    ASSUME FilesCounted, NEW status, NEW item, NEW http, NEW rows, Done(status, item, http, rows)
    PROVE  unseen \subseteq unseen' /\ unseen' \subseteq Given
BY DEF Done, Forgotten, FilesCounted

LEMMA GivesUpKept ==
    ASSUME Sound, Kept, Still,
           tmp' \in {None, tmp} \/ (tmp'.data = Data(server) /\ server # None),
           NEW status, NEW item, NEW http, NEW rows, RowsFine(rows), Done(status, item, http, rows),
           rows.db = journal.db, rows.up \in {None, journal.up}, saved' \in {saved, rows}
    PROVE  Kept'
<1>1. run' = Ending /\ run' # Idle /\ journal'.db = rows.db /\ journal'.up = rows.up
  BY DoneEnds
<1>2. unseen \subseteq unseen' /\ unseen' \subseteq Given
  BY DoneUnseen DEF Kept, Counted
<1>. QED  BY <1>1, <1>2, StopsKept

LEMMA RecordsKept ==
    ASSUME FilesCounted', PartCovered',
           NEW status, NEW item, NEW http, NEW rows, RowsFine(rows), Done(status, item, http, rows),
           rows.db # None => Pair(rows.db.stamp, rows.db.etag)',
           rows.up # None /\ server' # None /\ server'.data = rows.up.checksum => ServerCovered',
           saved' = rows \/ RowsPaired(saved)'
    PROVE  Kept'
<1>1. run' = Ending /\ run' # Idle /\ journal'.db = rows.db /\ journal'.up = rows.up
  BY DoneEnds
<1>2. RowsPaired(journal)'
  BY <1>1 DEF RowsPaired, Pair, HasStamp, HasEtag
<1>3. saved' = rows => RowsPaired(saved)'
  BY DEF RowsPaired, Pair, HasStamp, HasEtag
<1>. QED  BY <1>1, <1>2, <1>3, RestsKept

(* A record of files that stay as they are. *)
LEMMA StillRecordsKept ==
    ASSUME Kept, Still, tmp' \in {None, tmp},
           NEW status, NEW item, NEW http, NEW rows, RowsFine(rows), Done(status, item, http, rows),
           rows.db # None => Pair(rows.db.stamp, rows.db.etag), rows.up \in {None, journal.up},
           saved' \in {saved, rows}
    PROVE  Kept'
<1>1. journal'.up = rows.up /\ unseen \subseteq unseen' /\ unseen' \subseteq Given
  BY DoneEnds, DoneUnseen DEF Kept, Counted
<1>2. FilesCounted'
  BY <1>1, StillCounted DEF Kept, Counted, FilesCounted
<1>3. PartCovered'
  BY DEF Kept, PartCovered, Still, CoveredThere, Covered
<1>4. rows.db # None => Pair(rows.db.stamp, rows.db.etag)'
  BY <1>1, StillFacts DEF Still, Pair, HasStamp, HasEtag
<1>5. rows.up # None /\ server' # None /\ server'.data = rows.up.checksum => ServerCovered'
  <2>1. server' = server /\ (ServerCovered' <=> ServerCovered)
    BY <1>1, StillFacts DEF Still
  <2>. QED  BY <2>1 DEF Kept, RowsPaired
<1>6. saved' = saved => RowsPaired(saved)'
  BY <1>1, StillPaired DEF Kept
<1>. QED  BY <1>2, <1>3, <1>4, <1>5, <1>6, RecordsKept

(* What a job makes of the rows of an upload. *)
LEMMA RowsOfUpload ==
    ASSUME Sound
    PROVE  /\ RowsFine(journal) /\ RowsFine(RemovedRows) /\ RowsFine(ForgottenUpload)
           /\ RemovedRows.db = None /\ RemovedRows.up = journal.up
           /\ ForgottenUpload.db = journal.db /\ ForgottenUpload.up = None
           /\ \A x : LET rows == [journal EXCEPT !.down = x]
                     IN  RowsFine(rows) /\ rows.db = journal.db /\ rows.up = journal.up
           /\ \A item : /\ Recorded(item, journal).up = journal.up
                        /\ [Recorded(item, journal) EXCEPT !.down = None].up = journal.up
                        /\ [Recorded(item, journal) EXCEPT !.up = None].up = None
<1>1. RowsFine(journal) BY DEF Sound, RowsTyped
<1>2. \A item : RowsFine(Recorded(item, journal)) /\ Recorded(item, journal).up = journal.up
  BY <1>1, RecordedFine DEF Recorded, RowsFine
<1>. QED  BY <1>1, <1>2 DEF RowsFine, RemovedRows, ForgottenUpload, AFile

LEMMA SimpleJobsKept ==
    ASSUME Sound, Told, Kept,
           PropagateIgnore \/ PropagateUpdateMetaData \/ Removal \/ RemoteDeleteUnanswered
    PROVE  Kept'
<1>1. CASE PropagateIgnore
  <2>1. /\ \E status : Done(status, run.item, run.http, journal)
        /\ Still /\ UNCHANGED <<saved, tmp>>
    BY <1>1 DEF PropagateIgnore, Fails, SameFiles, SameWorld, Still
  <2>. QED  BY <2>1, GivesUpKept, RowsOfUpload
<1>2. CASE PropagateUpdateMetaData
  <2>1. /\ run.at = "started" /\ run.item.instruction = "UPDATE_METADATA"
        /\ Still /\ UNCHANGED <<saved, tmp>>
    BY <1>2 DEF PropagateUpdateMetaData, Starts, At, SameFiles, SameWorld, Still
  <2>2. AnItem(run.item)
    BY <2>1 DEF Sound, RunTyped, Working
  <2>3. PICK item : /\ item.stamp = run.item.stamp /\ item.etag = run.item.etag
                    /\ Done("Success", item, FALSE, Recorded(item, journal))
    <3>1. \A x : LET item == [run.item EXCEPT !.checksum = x]
                 IN  item.stamp = run.item.stamp /\ item.etag = run.item.etag
      BY <2>2 DEF AnItem
    <3>. QED  BY <1>2, <3>1 DEF PropagateUpdateMetaData
  <2>4. PICK rows : rows = Recorded(item, journal) OBVIOUS
  <2>5. RowsFine(rows) /\ (local = None => rows.db = journal.db) /\ rows.up = journal.up
        /\ (local # None => rows.db.stamp = item.stamp /\ rows.db.etag = item.etag)
    BY <2>4, RecordedAs, RowsOfUpload
  <2>6. rows.db # None => Pair(rows.db.stamp, rows.db.etag)
    BY <2>1, <2>3, <2>5 DEF Kept, RowsPaired, UpdateKept
  <2>. QED  BY <2>1, <2>3, <2>4, <2>5, <2>6, StillRecordsKept
<1>3. CASE Removal
  <2>1. /\ Done("Success", run.item, TRUE, RemovedRows) /\ saved' = RemovedRows
        /\ run.at = "started" /\ run.item.instruction = "REMOVE"
        /\ UNCHANGED <<copies, tmp, made, owed>>
        /\ local' \in {local, None} /\ server' \in {server, None}
        /\ run.item.direction = "Down" => server' = server
        /\ run.item.direction = "Up" => server' = None
        /\ run.item.direction \in {"Up", "Down"}
    BY <1>3 DEF Removal, PropagateLocalRemove, PropagateRemoteDelete, Finishes, Starts, At,
                 SameWorld
  <2>2. RemovedRows.db = None /\ RemovedRows.up = None /\ RowsFine(RemovedRows)
    BY <2>1, RowsOfUpload DEF Kept, RemovalKept
  <2>3. FilesCounted'
    <3>1. journal'.up = None /\ saved'.up = None BY <2>1, <2>2, DoneEnds
    <3>2. unseen' \subseteq Given BY <2>1, DoneUnseen DEF Kept, Counted
    <3>. QED  BY <2>1, <3>1, <3>2 DEF Kept, Counted, FilesCounted, Given
  <2>4. PartCovered'
    <3>1. run.item.direction = "Up" => tmp = None
      BY <2>1 DEF Sound, Linked
    <3>. QED  BY <2>1, <3>1 DEF Kept, PartCovered, CoveredThere, Covered
  <2>. QED  BY <2>1, <2>2, <2>3, <2>4, RecordsKept
<1>4. CASE RemoteDeleteUnanswered
  <2>1. /\ run.at = "started" /\ run.item.instruction = "REMOVE" /\ run.item.direction = "Up"
        /\ UNCHANGED <<local, copies, tmp, made, owed, saved, scenario>>
        /\ server' \in {server, None}
        /\ \E status : Done(status, run.item, TRUE, journal)
    BY <1>4 DEF RemoteDeleteUnanswered, Breaks, Starts, At, SameWorld
  <2>2. CASE server' = server
    BY <2>1, <2>2, GivesUpKept, RowsOfUpload DEF Still
  <2>3. CASE server' = None
    <3>1. /\ journal.up = None /\ saved.up = None /\ saved.db = journal.db
          /\ journal.db # None => ~HasStamp(journal.db.stamp)
      BY <2>1 DEF Kept, RemovalKept
    <3>2. PICK rows, status : /\ rows = journal /\ Done(status, run.item, TRUE, rows)
                              /\ RowsFine(rows)
      BY <2>1, RowsOfUpload
    <3>3. journal'.db = rows.db /\ journal'.up = None /\ unseen' \subseteq Given
      BY <3>1, <3>2, DoneEnds, DoneUnseen DEF Kept, Counted
    <3>4. FilesCounted'
      BY <2>1, <2>3, <3>1, <3>3 DEF Kept, Counted, FilesCounted, Given
    <3>5. PartCovered'
      BY <2>1 DEF Sound, Linked, PartCovered
    <3>6. rows.db # None => Pair(rows.db.stamp, rows.db.etag)'
      BY <2>1, <2>3, <3>1, <3>2 DEF Pair, HasStamp, HasEtag
    <3>7. saved' = saved /\ saved.db = rows.db /\ saved.up = None
      BY <2>1, <3>1, <3>2
    <3>8. RowsPaired(saved)'
      BY <3>6, <3>7 DEF RowsPaired, Pair, HasStamp, HasEtag
    <3>. QED  BY <3>1, <3>2, <3>4, <3>5, <3>6, <3>8, RecordsKept
  <2>. QED  BY <2>1, <2>2, <2>3
<1>. QED  BY <1>1, <1>2, <1>3, <1>4

------------------------------------------------------------------------------
(* The download.  What it replaces was found before, or is still unseen.     *)
LEMMA FetchesOnKept ==
    ASSUME Kept, Told', Fetches(run), UNCHANGED <<server, owed, made, scenario>>,
           copies \subseteq copies', copies' \subseteq Given, unseen' \subseteq unseen,
           local' # None => local'.data \in Given,
           tmp' # None => tmp'.data \in Given /\ CoveredThere(tmp'.data),
           run'.at \in {"touch", "download", "get", "compare", "replace", "rename", "downloaded"},
           run'.seen = run.seen, run'.item.instruction = run.item.instruction,
           run'.item.previous = run.item.previous,
           journal'.db = journal.db, journal'.up = journal.up,
           saved'.db \in {journal.db, saved.db}, saved'.up \in {journal.up, saved.up},
           LocalFree' \/ (local' = local /\ (LocalFree => LocalFree')),
           run'.at = "touch" =>
              run'.item.checksum \in Given \ {None} /\ CoveredThere(run'.item.checksum),
           run'.at = "replace" => LocalFree',
           run'.at = "downloaded" => Pair(run.item.stamp, run.item.etag)'
    PROVE  Kept'
<1>1. /\ journal.up = None /\ saved.up = None /\ saved.db = journal.db
      /\ journal.db # None => ~HasEtag(journal.db.etag) \/ Refused
      /\ run.item.instruction # "CONFLICT" =>
           run.item.previous = IF journal.db = None THEN None ELSE journal.db.stamp
  BY DEF Kept, FetchKept, Fetches, Asks
<1>2. /\ Given' = Given /\ (\A v : CoveredThere(v) => CoveredThere(v)')
      /\ Refused' <=> Refused
  BY RefusedStays DEF Given, CoveredThere, Covered
<1>3. /\ run'.at \notin {"started", "put", "listing", "ending"} /\ ~Asks(run') /\ ~Sends(run')
      /\ Compares(run') <=> run'.at = "touch"
  BY DEF Asks, Sends, Compares
<1>4. FilesCounted'
  BY <1>1, <1>2 DEF Kept, Counted, FilesCounted
<1>5. Counted'
  BY <1>2, <1>3, <1>4 DEF Kept, Counted, MayBeGiven
<1>6. PartCovered'
  BY <1>2 DEF PartCovered, CoveredThere, Covered
<1>7. RowsPaired(journal)' /\ RowsPaired(saved)'
  <2>1. saved'.db = journal.db /\ saved'.up = None /\ journal'.up = None
    BY <1>1
  <2>2. journal.db # None /\ HasStamp(journal.db.stamp) /\ ~HasEtag(journal.db.etag) => LocalFree
    BY DEF Kept, RowsPaired, Pair
  <2>3. Refused => ServerCovered'
    BY <1>2 DEF ServerCovered, CoveredHere
  <2>4. journal.db # None => Pair(journal.db.stamp, journal.db.etag)'
    BY <1>1, <2>2, <2>3 DEF Told, Truthful, Pair, HasStamp, HasEtag
  <2>. QED  BY <1>1, <2>1, <2>4 DEF RowsPaired, Pair, HasStamp, HasEtag
<1>8. FetchKept'
  <2>1. run'.at = "touch" => run'.item.checksum # None /\ CoveredThere(run.item.checksum)'
    BY DEF CoveredThere, Covered
  <2>. QED  BY <1>1, <1>2, <1>3, <2>1 DEF FetchKept, HasEtag
<1>9. SendKept'
  BY <1>3 DEF SendKept
<1>. QED  BY <1>1, <1>3, <1>5, <1>6, <1>7, <1>8, <1>9
          DEF Kept, ListingKept, RemovalKept, UpdateKept

LEMMA CountedFetch ==
    ASSUME Sound, Kept, Fetches(run)
    PROVE  /\ copies \subseteq Given
           /\ local # None => local.data \in Given
           /\ server # None => server.data \in Given
           /\ tmp # None => tmp.data \in Given /\ CoveredThere(tmp.data)
           /\ run.at \in Working /\ run.at # "send"
           /\ AnItem(run.item) /\ Fields \subseteq DOMAIN run
BY DEF Kept, Counted, FilesCounted, PartCovered, Fetches, Asks, Sound, RunTyped, Working

LEMMA StartsDownloadKept ==
    ASSUME Sound, Told, Told', Kept, ConflictChecksumComputed \/ StartOther
    PROVE  Kept'
<1>1. PICK point \in {"touch", "download"} :
        /\ Continue(point)
        /\ point = "touch" => /\ run.item.instruction = "CONFLICT" /\ run.item.checksum # None
  BY DEF ConflictChecksumComputed, StartOther, IsConflict
<1>2. /\ run.at = "started" /\ Asks(run) /\ Fetches(run)
      /\ UNCHANGED <<local, server, tmp, made, owed, scenario, copies, unseen>>
  BY DEF ConflictChecksumComputed, StartOther, IsDownload, Starts, At, Asks, Downloads, Fetches,
         Transfers, SameFiles, SameWorld
<1>3. /\ run'.at = point /\ run'.seen = run.seen /\ run'.item = run.item
      /\ UNCHANGED <<journal, saved>>
  BY <1>1 DEF Continue, Sound, RunTyped, Fields
<1>4. point = "touch" =>
        run.item.checksum \in Given \ {None} /\ CoveredThere(run.item.checksum)
  BY <1>1, <1>2 DEF Kept, Counted, FetchKept, Compares, MayBeGiven
<1>5. LocalFree => LocalFree'
  BY <1>2, StillFacts DEF Still
<1>. QED  BY <1>2, <1>3, <1>4, <1>5, CountedFetch, FetchesOnKept

LEMMA StartDownloadKept ==
    ASSUME Sound, Told, Told', Kept, StartDownload
    PROVE  Kept'
<1> DEFINE same  == journal.down # None /\ journal.down.etag = run.item.etag
           kept  == IF journal.down # None /\ ~same THEN None ELSE tmp
           whole == kept # None /\ kept.whole
<1>1. /\ run.at = "download" /\ Fetches(run)
      /\ UNCHANGED <<local, server, made, owed, scenario, copies, unseen>> /\ tmp' = kept
      /\ run'.at = (IF whole THEN "compare" ELSE "get")
      /\ run'.seen = run.seen /\ run'.item = run.item
  BY DEF StartDownload, At, SameWorld, Sound, RunTyped, Fields, Fetches
<1>2. /\ journal'.db = journal.db /\ saved'.db \in {saved.db, journal.db}
      /\ journal'.up = journal.up /\ saved'.up \in {saved.up, journal.up}
  <2>1. PICK rows : rows = [journal EXCEPT !.down = [etag |-> run.item.etag]] OBVIOUS
  <2>2. (journal' = journal /\ saved' = saved) \/ (journal' = rows /\ saved' = rows)
    BY <2>1 DEF StartDownload
  <2>3. rows.db = journal.db /\ rows.up = journal.up BY <2>1, RowsOfUpload
  <2>. QED  BY <2>2, <2>3
<1>3. LocalFree => LocalFree'
  BY <1>1, StillFacts DEF Still
<1>4. tmp' \in {tmp, None} /\ run'.at \in {"compare", "get"}
  BY <1>1
<1> HIDE DEF same, kept, whole
<1>. QED  BY <1>1, <1>2, <1>3, <1>4, CountedFetch, FetchesOnKept

LEMMA GetKept ==
    ASSUME Sound, Told, Told', Kept, Get
    PROVE  Kept'
<1>1. /\ run.at = "get" /\ server # None /\ ~ResumesOther /\ Fetches(run)
      /\ tmp' = [data |-> Joined, whole |-> TRUE] /\ unseen' = unseen \ {server.data}
      /\ UNCHANGED <<local, server, made, owed, scenario, copies, journal, saved>>
  BY DEF Get, At, SameWorld, Fetches
<1>2. tmp'.data = server.data
  BY <1>1, PartIsWhole
<1>3. /\ run'.at = "compare" /\ run'.seen = run.seen
      /\ run'.item.instruction = run.item.instruction /\ run'.item.previous = run.item.previous
  BY <1>1, CountedFetch DEF Get, Fields, AnItem
<1>4. CoveredThere(server.data) /\ server.data \in Given
  BY <1>1, CountedFetch DEF CoveredThere, Data
<1>5. LocalFree => LocalFree'
  BY <1>1 DEF LocalFree, CoveredThere, Covered, Data
<1>. QED  BY <1>1, <1>2, <1>3, <1>4, <1>5, CountedFetch, FetchesOnKept

LEMMA DownloadFailsKept ==
    ASSUME Sound, Told, Kept,
           \/ GetNotFound \/ GetRefused \/ GetFails \/ GetBreaksOff \/ ChecksumFail
           \/ RefuseToReplace \/ RenameFails \/ LockedFile
    PROVE  Kept'
<1>1. Still
  BY DEF GetNotFound, GetRefused, GetFails, GetBreaksOff, ChecksumFail, RefuseToReplace,
         RenameFails, LockedFile, SameFiles, SameWorld, Still
<1>2. \/ tmp' \in {None, tmp}
      \/ tmp'.data = Data(server) /\ server # None
  <2>1. CASE GetBreaksOff
    <3>1. run.at = "get" /\ server # None /\ ~ResumesOther
          /\ tmp' = [data |-> Joined, whole |-> FALSE]
      BY <2>1 DEF GetBreaksOff, At
    <3>. QED  BY <3>1, PartIsWhole DEF Data
  <2>. QED  BY <2>1 DEF GetNotFound, GetRefused, GetFails, ChecksumFail, RefuseToReplace,
                        RenameFails, LockedFile, SameFiles
<1>3. \E status, http, x : \E rows \in {journal, [journal EXCEPT !.down = x]} :
         Done(status, run.item, http, rows) /\ saved' = saved
  BY DEF GetNotFound, GetRefused, GetFails, GetBreaksOff, ChecksumFail, RefuseToReplace,
         RenameFails, LockedFile, Fails, Breaks
<1>. QED  BY <1>1, <1>2, <1>3, RowsOfUpload, GivesUpKept

LEMMA ReplacesKept ==
    ASSUME Sound, Told, Told', Kept, CreateConflict \/ DownloadFinished \/ RemoveTarget
    PROVE  Kept'
<1>1. /\ run.at \in {"compare", "replace"} /\ run'.at \in {"replace", "rename"} /\ Fetches(run)
      /\ run'.seen = run.seen /\ run'.item = run.item
      /\ UNCHANGED <<server, made, owed, scenario, tmp, journal, saved>>
  BY DEF CreateConflict, DownloadFinished, RemoveTarget, Continue, At, SameFiles, SameWorld,
         Sound, RunTyped, Fields, Fetches
<1>2. CASE CreateConflict
  <2>1. /\ local # None /\ copies' = copies \union {local.data} /\ local' = None
        /\ unseen' = unseen
    BY <1>2 DEF CreateConflict
  <2>. QED  BY <1>1, <2>1, CountedFetch, FetchesOnKept DEF LocalFree
<1>3. CASE RemoveTarget
  <2>1. local' = None /\ UNCHANGED <<copies, unseen>>
    BY <1>3 DEF RemoveTarget
  <2>. QED  BY <1>1, <2>1, CountedFetch, FetchesOnKept DEF LocalFree
<1>4. CASE DownloadFinished
  <2>1. /\ run.at = "compare" /\ UNCHANGED <<local, copies>>
        /\ ~Conflicting /\ ~ChangedSinceDiscovery
        /\ unseen' = Found(local, local.stamp # run.item.previous)
    BY <1>4 DEF DownloadFinished, SameFiles, At
  <2>2. tmp # None /\ CoveredThere(tmp.data)
    BY <2>1 DEF Sound, Linked, Kept, PartCovered
  <2>3. LocalFree' /\ unseen' \subseteq unseen
    <3>1. CASE run.item.instruction = "CONFLICT"
      <4>1. local # None => CoveredThere(local.data)
        BY <2>1, <2>2, <3>1 DEF Conflicting, IsConflict, Data
      <4>. QED  BY <1>1, <2>1, <4>1 DEF LocalFree, CoveredThere, Covered, Found
    <3>2. CASE run.item.instruction # "CONFLICT"
      <4>1. local # None => local.stamp = run.item.previous
        BY <2>1, <3>2 DEF Conflicting, IsConflict, ChangedSinceDiscovery
      <4>2. unseen' = unseen
        BY <2>1, <4>1 DEF Found
      <4>3. run.item.previous = IF journal.db = None THEN None ELSE journal.db.stamp
        BY <1>1, <3>2 DEF Kept, FetchKept
      <4>4. local # None => local.stamp # None
        BY LocalTyped, SentinelsAssumption DEF Sound, Versions
      <4>5. LocalFree
        BY <4>1, <4>3, <4>4
           DEF Kept, RowsPaired, Pair, HasStamp, HasEtag, LocalFree, CoveredThere, Data
      <4>. QED  BY <1>1, <2>1, <4>2, <4>5 DEF LocalFree, CoveredThere, Covered
    <3>. QED  BY <3>1, <3>2
  <2>. QED  BY <1>1, <2>1, <2>3, CountedFetch, FetchesOnKept
<1>. QED  BY <1>2, <1>3, <1>4

LEMMA RenameKept ==
    ASSUME Sound, Told, Told', Kept, RenameTmp
    PROVE  Kept'
<1>1. /\ run.at = "rename" /\ run'.at = "downloaded" /\ Fetches(run)
      /\ run'.seen = run.seen /\ run'.item = run.item
      /\ UNCHANGED <<server, made, owed, scenario, copies, unseen, journal, saved>>
      /\ local = None /\ local'.data = tmp.data /\ local'.stamp = run.item.stamp /\ tmp' = None
  BY DEF RenameTmp, Continue, At, SameWorld, Sound, RunTyped, Fields, Fetches
<1>2. tmp # None /\ CoveredThere(tmp.data) /\ tmp.data \in Given
  BY <1>1 DEF Sound, Linked, Kept, PartCovered, Counted, FilesCounted
<1>3. LocalFree'
  BY <1>1, <1>2 DEF LocalFree, CoveredThere, Covered
<1>4. HasEtag(run.item.etag) => server.data = tmp.data
  BY <1>1 DEF Told, FetchIsCurrent, HasEtag, Fetches
<1>5. local' # None
  <2>1. run.item.stamp \in Versions /\ tmp.data \in Versions
    BY <1>1, <1>2, LocalTyped DEF Sound, RunTyped, Working
  <2>2. local' \in [data : Versions, stamp : Versions]
    BY <2>1 DEF RenameTmp
  <2>. QED  BY <2>2, SentinelsAssumption DEF Versions
<1>6. Pair(run.item.stamp, run.item.etag)'
  BY <1>1, <1>3, <1>4, <1>5 DEF Pair, HasStamp, HasEtag
<1>. QED  BY <1>1, <1>2, <1>3, <1>6, CountedFetch, FetchesOnKept

LEMMA UpdateMetadataKept ==
    ASSUME Sound, Told, Kept, UpdateMetadata
    PROVE  Kept'
<1>1. /\ run.at = "downloaded" /\ Still /\ UNCHANGED tmp
      /\ \E status : FinishDownload(run.item, status)
  BY DEF UpdateMetadata, At, SameFiles, SameWorld, Still
<1>2. PICK rows, status : /\ rows = [Recorded(run.item, journal) EXCEPT !.down = None]
                          /\ Done(status, run.item, TRUE, rows) /\ saved' = rows
  BY <1>1 DEF FinishDownload
<1>3. /\ RowsFine(rows) /\ (local = None => rows.db = journal.db) /\ rows.up = journal.up
      /\ local # None => rows.db.stamp = run.item.stamp /\ rows.db.etag = run.item.etag
  <2>1. /\ RowsFine(rows) /\ (local = None => rows.db = journal.db)
        /\ local # None => rows.db.stamp = run.item.stamp /\ rows.db.etag = run.item.etag
    BY <1>2, RecordedAs
  <2>2. rows.up = journal.up BY <1>2, RowsOfUpload
  <2>. QED  BY <2>1, <2>2
<1>4. rows.db # None => Pair(rows.db.stamp, rows.db.etag)
  BY <1>1, <1>3 DEF Kept, RowsPaired, SendKept
<1>. QED  BY <1>1, <1>2, <1>3, <1>4, StillRecordsKept

(* The file that was found equal takes the server's stamp. *)
LEMMA TouchKept ==
    ASSUME Sound, Told, Told', Kept, Touch
    PROVE  Kept'
<1>1. PICK stamp, item, etag :
        /\ stamp = run.item.stamp \/ (local # None /\ stamp = local.stamp)
        /\ etag = run.item.etag
        /\ item = [run.item EXCEPT !.stamp = stamp]
        /\ local' = IF local = None THEN None ELSE [local EXCEPT !.stamp = stamp]
        /\ FinishDownload(item, "Success")
  BY DEF Touch
<1>2. /\ run.at = "touch" /\ Fetches(run) /\ Compares(run)
      /\ UNCHANGED <<server, made, owed, scenario, copies, tmp>>
  BY DEF Touch, At, SameWorld, Fetches, Compares
<1>3. item.stamp = stamp /\ item.etag = etag
  BY <1>1, <1>2, CountedFetch DEF AnItem
<1>4. PICK rows : /\ rows = [Recorded(item, journal) EXCEPT !.down = None]
                  /\ Done("Success", item, TRUE, rows) /\ saved' = rows
  BY <1>1 DEF FinishDownload
<1>5. /\ RowsFine(rows) /\ (local = None => rows.db = journal.db) /\ rows.up = journal.up
      /\ local # None => rows.db.stamp = stamp /\ rows.db.etag = etag
  <2>1. /\ RowsFine(rows) /\ (local = None => rows.db = journal.db)
        /\ local # None => rows.db.stamp = item.stamp /\ rows.db.etag = item.etag
    BY <1>4, RecordedAs
  <2>2. rows.up = journal.up BY <1>4, RowsOfUpload
  <2>. QED  BY <1>3, <2>1, <2>2
<1>6. /\ journal.up = None /\ run.item.checksum # None /\ CoveredThere(run.item.checksum)
  BY <1>2 DEF Kept, FetchKept
<1>7. CASE local = None
  <2>1. Still BY <1>1, <1>2, <1>7 DEF Still
  <2>. QED  BY <1>2, <1>4, <1>5, <1>7, <2>1, GivesUpKept
<1>8. CASE local # None
  <2>1. local'.data = local.data /\ local'.stamp = stamp /\ local' # None
    <3>1. stamp \in Versions /\ local \in [data : Versions, stamp : Versions]
      BY <1>1, <1>2, <1>8, LocalTyped DEF Sound, RunTyped, Working, FilesTyped, Some
    <3>2. local' = [local EXCEPT !.stamp = stamp] BY <1>1, <1>8
    <3>3. local' \in [data : Versions, stamp : Versions] BY <3>1, <3>2
    <3>. QED  BY <3>1, <3>2, <3>3, SentinelsAssumption DEF Versions
  <2>2. local.data = run.item.checksum
    BY <1>2, <1>8 DEF Told, ItemIsTruthful
  <2>3. HasEtag(etag) => server.data = local.data
    BY <1>1, <1>2, <2>2 DEF Told, FetchIsCurrent, HasEtag
  <2>4. LocalFree'
    BY <1>2, <1>6, <2>1, <2>2 DEF LocalFree, CoveredThere, Covered
  <2>5. Pair(stamp, etag)'
    BY <1>2, <2>1, <2>3, <2>4 DEF Pair, HasStamp, HasEtag
  <2>6. FilesCounted'
    <3>1. rows.up = None /\ journal'.up = rows.up /\ saved' = rows
      <4>1. Done("Success", item, TRUE, rows) /\ RowsFine(rows) BY <1>4, <1>5
      <4>2. journal'.up = rows.up BY <4>1, DoneEnds
      <4>. QED  BY <1>4, <1>5, <1>6, <4>2
    <3>2. FilesCounted /\ Given' = Given BY <1>2 DEF Kept, Counted, Given
    <3>3. unseen' \subseteq Given BY <1>4, <3>2, DoneUnseen
    <3>. QED  BY <1>2, <1>8, <2>1, <3>1, <3>2, <3>3 DEF FilesCounted
  <2>7. PartCovered'
    BY <1>2 DEF Kept, PartCovered, CoveredThere, Covered
  <2>8. rows.db # None => Pair(rows.db.stamp, rows.db.etag)'
    <3>1. rows.db.stamp = stamp /\ rows.db.etag = etag BY <1>5, <1>8
    <3>. QED  BY <2>5, <3>1
  <2>. QED  BY <1>4, <1>5, <1>6, <2>6, <2>7, <2>8, RecordsKept
<1>. QED  BY <1>7, <1>8

LEMMA DownloadKept ==
    ASSUME Sound, Told, Told', Kept, Download \/ GetFails \/ GetBreaksOff \/ LockedFile
    PROVE  Kept'
BY StartsDownloadKept, StartDownloadKept, GetKept, DownloadFailsKept, ReplacesKept, RenameKept,
   UpdateMetadataKept, TouchKept DEF Download

------------------------------------------------------------------------------
(* The upload.  What it replaces on the server is covered by the folder, or *)
(* was never seen there.                                                    *)
LEMMA SendsOnKept ==
    ASSUME Kept, run.at \in Working, made' = made, FilesCounted', PartCovered',
           RowsPaired(journal)', RowsPaired(saved)', saved'.db = journal'.db, SendKept',
           run'.at \in SendsFile, run'.seen = run.seen,
           run'.at = "put" => run'.body \in Given,
           Sends(run') => MayBeGiven(run'.item.checksum)
    PROVE  Kept'
<1>1. ~Fetches(run') /\ ~Compares(run') /\ run'.at \notin {"started", "listing", "ending"}
  BY DEF Fetches, Compares, Asks, SendsFile
<1>2. Given' = Given BY DEF Given
<1>3. Counted'
  BY <1>1, <1>2 DEF Kept, Counted, MayBeGiven
<1>. QED  BY <1>1, <1>3 DEF Kept, ListingKept, FetchKept, RemovalKept, UpdateKept

LEMMA SendingFacts ==
    ASSUME Sound, Kept, run.at \in SendsFile \/ (run.at = "started" /\ run.item.direction = "Up")
    PROVE  /\ run.at \in Working /\ saved.db = journal.db /\ tmp = None /\ AnItem(run.item)
           /\ Fields \subseteq DOMAIN run
           /\ local # None => local.data \in Given
           /\ server # None => server.data \in Given /\ server.data # None
           /\ Sends(run) => /\ MayBeGiven(run.item.checksum)
                            /\ journal.db # None => ~HasStamp(journal.db.stamp)
           /\ run.at = "put" => run.body \in Given /\ CoveredHere(run.body)
<1>1. run.at \in Working /\ AnItem(run.item) /\ Fields \subseteq DOMAIN run /\ tmp = None
  BY DEF SendsFile, Working, Sound, RunTyped, Linked
<1>2. saved.db = journal.db /\ (local # None => local.data \in Given)
      /\ (server # None => server.data \in Given)
  BY <1>1 DEF Kept, Counted, FilesCounted, Working
<1>3. server # None => server.data # None
  BY LocalTyped, SentinelsAssumption DEF Sound, Versions
<1>4. /\ Sends(run) => /\ MayBeGiven(run.item.checksum)
                       /\ journal.db # None => ~HasStamp(journal.db.stamp)
      /\ run.at = "put" => run.body \in Given /\ CoveredHere(run.body)
  BY DEF Kept, Counted, SendKept
<1>. QED  BY <1>1, <1>2, <1>3, <1>4

(* Nothing was stored yet, and the item is the same. *)
LEMMA SendsStillKept ==
    ASSUME Sound, Kept, Still, UNCHANGED <<unseen, tmp>>, run.at \in SendsFile, Sends(run),
           run'.at \in SendsFile, Sends(run'), run'.seen = run.seen,
           run'.item.instruction = run.item.instruction, run'.item.etag = run.item.etag,
           run'.item.checksum = run.item.checksum,
           run'.at = "put" => run'.body \in Given /\ CoveredHere(run'.body),
           run'.at \in {"head", "patch"} => scenario.tus,
           journal'.db = journal.db, saved'.db \in {journal.db, saved.db},
           journal'.up \in {None, journal.up}, saved'.up \in {None, journal.up, saved.up}
    PROVE  Kept'
<1>1. run.at \in Working /\ saved.db = journal.db /\ tmp = None /\ MayBeGiven(run.item.checksum)
  BY SendingFacts
<1>2. FilesCounted' /\ PartCovered'
  BY <1>1, StillCounted DEF Kept, Counted, FilesCounted, PartCovered
<1>3. RowsPaired(journal)' /\ RowsPaired(saved)'
  BY <1>1, StillPaired DEF Kept
<1>4. UNCHANGED <<local, server, copies, owed, made, scenario>> BY DEF Still
<1>5. /\ ServerCovered' <=> ServerCovered
      /\ ServerFree => ServerFree'
      /\ ServerNew => ServerNew'
      /\ Refused' <=> Refused
      /\ \A v : CoveredHere(v) => CoveredHere(v)'
  BY StillFacts
<1>6. run'.at \notin {"propfind", "uploaded", "downloaded"}
  BY DEF Sends
<1>7. run'.at = "put" => CoveredHere(run.body)'
  BY <1>4, <1>5 DEF CoveredHere, Covered
<1>8. SendAllowed'
  BY <1>4, <1>5 DEF Kept, SendKept, SendAllowed, SentAlready
<1>9. SendKept'
  BY <1>4, <1>5, <1>6, <1>7, <1>8 DEF Kept, SendKept, HasEtag, HasStamp
<1>. QED  BY <1>1, <1>2, <1>3, <1>4, <1>9, SendsOnKept

LEMMA StartsUploadKept ==
    ASSUME Sound, Told, Kept, ComputeContentChecksum \/ StartUpload
    PROVE  Kept'
<1>1. CASE StartUpload
  <2>1. /\ run.at = "send" /\ local # None /\ Still /\ UNCHANGED <<unseen, tmp, journal, saved>>
        /\ run' = [run EXCEPT !.at = IF CanResume THEN "head" ELSE "put", !.body = local.data]
    BY <1>1 DEF StartUpload, StillThere, At, SameFiles, SameWorld, Still
  <2>2. /\ run'.at \in {"head", "put"} /\ run'.seen = run.seen /\ run'.item = run.item
        /\ run'.body = local.data
    BY <2>1 DEF Sound, RunTyped, Fields
  <2>3. Sends(run) /\ Sends(run') /\ run.at \in SendsFile /\ run'.at \in SendsFile
    BY <2>1, <2>2 DEF Sends, SendsFile
  <2>4. local.data \in Given /\ CoveredHere(local.data)
    BY <2>1, <2>3, SendingFacts DEF CoveredHere, Data
  <2>5. run'.at = "head" => scenario.tus
    BY <2>1, <2>3, SendingFacts DEF CanResume, Fields
  <2>. QED  BY <2>1, <2>2, <2>3, <2>4, <2>5, SendsStillKept
<1>2. CASE ComputeContentChecksum
  <2>1. PICK stamp, checksum :
          /\ checksum = IF run.item.checksum = None THEN Data(local) ELSE run.item.checksum
          /\ run' = [run EXCEPT !.at = "send", !.item.stamp = stamp, !.item.checksum = checksum]
    BY <1>2 DEF ComputeContentChecksum
  <2>2. /\ run.at = "started" /\ run.item.instruction \in {"NEW", "SYNC", "TYPE_CHANGE"}
        /\ run.item.direction = "Up" /\ Still /\ UNCHANGED <<tmp, journal, saved>>
        /\ unseen' = unseen \ {Data(local)}
    BY <1>2 DEF ComputeContentChecksum, IsUpload, Starts, At, Transfers, SameFiles, SameWorld, Still
  <2>3. Sends(run) BY <2>2 DEF Sends
  <2>4. /\ run.at \in Working /\ saved.db = journal.db /\ tmp = None /\ AnItem(run.item)
        /\ Fields \subseteq DOMAIN run
        /\ local # None => local.data \in Given
        /\ server # None => server.data # None
        /\ MayBeGiven(run.item.checksum)
        /\ journal.db # None => ~HasStamp(journal.db.stamp)
    BY <2>2, <2>3, SendingFacts
  <2>5. /\ run'.at = "send" /\ run'.seen = run.seen
        /\ run'.item.instruction = run.item.instruction /\ run'.item.etag = run.item.etag
        /\ run'.item.checksum = checksum
    <3>1. /\ run'.at = "send" /\ run'.seen = run.seen
          /\ run'.item = [run.item EXCEPT !.stamp = stamp, !.checksum = checksum]
      BY <2>1, <2>4 DEF Fields
    <3>. QED  BY <2>4, <3>1 DEF AnItem
  <2>6. UNCHANGED <<local, server, copies, owed, made, scenario>> /\ (Refused' <=> Refused)
    BY <2>2, RefusedStays DEF Still
  <2>7. /\ ServerCovered' <=> ServerCovered
        /\ ServerFree => ServerFree'
        /\ ServerNew => ServerNew'
        /\ server # None /\ server.data = Data(local) => ServerCovered
    BY <2>2, <2>6 DEF ServerCovered, ServerFree, ServerNew, CoveredHere, Covered, Data
  <2>8. FilesCounted' /\ PartCovered'
    BY <2>2, <2>4, StillCounted DEF Kept, Counted, FilesCounted, PartCovered
  <2>9. RowsPaired(journal)' /\ RowsPaired(saved)'
    BY <2>2, <2>4, <2>6, <2>7 DEF Kept, RowsPaired, Pair, HasStamp, HasEtag
  <2>10. MayBeGiven(checksum)
    BY <2>1, <2>4 DEF MayBeGiven, Data
  <2>11. SendAllowed'
    <3>1. SentAlready => SentAlready'
      BY <2>1, <2>4, <2>5, <2>6 DEF SentAlready
    <3>. QED  BY <2>3, <2>5, <2>6, <2>7, <3>1 DEF Kept, SendKept, SendAllowed
  <2>12. SendKept'
    BY <2>1, <2>2, <2>3, <2>4, <2>5, <2>6, <2>7, <2>11
       DEF Kept, SendKept, Sends, HasEtag, HasStamp
  <2>. QED  BY <2>2, <2>4, <2>5, <2>6, <2>8, <2>9, <2>10, <2>12, SendsOnKept DEF SendsFile
<1>. QED  BY <1>1, <1>2

(* What is stored on the server is in the folder, or was given up. *)
LEMMA StoredKept ==
    ASSUME Sound, Told, Kept, run.at \in {"put", "patch"},
           UNCHANGED <<local, copies, owed, made, tmp, scenario>>, unseen' \subseteq Given,
           NEW body \in Given, CoveredHere(body), Store(body, FreshEtag),
           local # None /\ local.stamp = run.item.stamp => body = local.data,
           journal'.db = journal.db, journal'.up \in {None, journal.up},
           saved'.db \in {journal.db, saved.db}, saved'.up \in {None, journal.up, saved.up},
           NEW stamp, stamp = run.item.stamp, NEW etag, etag = FreshEtag
    PROVE  /\ server' # None /\ server'.etag = etag /\ ServerCovered' /\ Pair(stamp, etag)'
           /\ RowsPaired(journal)' /\ RowsPaired(saved)' /\ FilesCounted' /\ PartCovered'
           /\ run'.at # "idle" \/ saved'.db = journal'.db
<1>1. /\ run.at \in Working /\ saved.db = journal.db /\ tmp = None
      /\ journal.db # None => ~HasStamp(journal.db.stamp)
  BY SendingFacts DEF SendsFile, Sends
<1>2. server'.data = body /\ server'.stamp = run.item.stamp /\ server'.etag = FreshEtag
      /\ server' # None
  <2>1. server' \in [data : Versions, stamp : Versions, etag : Etags]
    <3>1. Given \subseteq Versions BY VersionsAreGiven DEF Sound
    <3>2. run.item.stamp \in Versions BY DEF Sound, RunTyped, Working
    <3>. QED  BY <3>1, <3>2, FreshEtagIsFresh DEF Store
  <2>. QED  BY <2>1, SentinelsAssumption DEF Store, Versions
<1>3. ServerCovered'
  BY <1>2, RefusedStays DEF ServerCovered, CoveredHere, Covered, Data
<1>4. journal.db # None => journal.db.etag # FreshEtag
  BY FreshIsNew
<1>5. RowsPaired(journal)' /\ RowsPaired(saved)'
  BY <1>1, <1>2, <1>3, <1>4 DEF RowsPaired, Pair, HasStamp, HasEtag
<1>6. Pair(stamp, etag)'
  BY <1>2, <1>3 DEF Pair, HasStamp, HasEtag
<1>7. FilesCounted'
  <2>1. FilesCounted /\ Given' = Given BY DEF Kept, Counted, Given
  <2>. QED  BY <1>1, <1>2, <2>1 DEF FilesCounted, MayBeGiven
<1>8. PartCovered'
  BY <1>1 DEF PartCovered
<1>. QED  BY <1>1, <1>2, <1>3, <1>5, <1>6, <1>7, <1>8

(* Either kind of request leaves the server's file, or stores what is there. *)
LEMMA AnsweredKept ==
    ASSUME Sound, Told, Kept, run.at \in {"put", "patch"},
           UNCHANGED <<local, copies, owed, made, unseen, tmp, journal, saved, scenario>>,
           NEW body \in Given, CoveredHere(body), Store(body, FreshEtag),
           local # None /\ local.stamp = run.item.stamp => body = local.data,
           Answered(FreshEtag)
    PROVE  Kept'
<1>1. PICK stamp, etag : stamp = run.item.stamp /\ etag = FreshEtag OBVIOUS
<1>2. /\ server' # None /\ server'.etag = etag /\ Pair(stamp, etag)'
      /\ RowsPaired(journal)' /\ RowsPaired(saved)' /\ FilesCounted' /\ PartCovered'
  <2>1. unseen' \subseteq Given BY DEF Kept, Counted, FilesCounted
  <2>. QED  BY <1>1, <2>1, StoredKept
<1>3. run.at \in Working /\ saved.db = journal.db /\ AnItem(run.item) /\ Fields \subseteq DOMAIN run
  BY SendingFacts DEF SendsFile
<1>4. /\ run'.seen = run.seen /\ run'.item.stamp = stamp
      /\ \/ run'.at = "uploaded" /\ run'.item.etag = etag
         \/ run'.at = "propfind"
  <2>1. /\ run'.seen = run.seen
        /\ \/ run'.at = "uploaded" /\ run'.item = [run.item EXCEPT !.etag = etag]
           \/ run'.at = "propfind" /\ run'.item = run.item
    BY <1>1, <1>3 DEF Answered, Fields
  <2>. QED  BY <1>1, <1>3, <2>1 DEF AnItem
<1>5. ~Sends(run') /\ run'.at \in SendsFile
  BY <1>4 DEF Sends, SendsFile
<1>6. SendKept'
  BY <1>2, <1>4, <1>5 DEF SendKept, Pair, HasStamp, HasEtag
<1>. QED  BY <1>2, <1>3, <1>4, <1>5, <1>6, SendsOnKept

StoresCovered ==
    \/ server' = server
    \/ \E body \in Given :
          /\ CoveredHere(body) /\ Accepted(body) /\ Store(body, FreshEtag)
          /\ local # None /\ local.stamp = run.item.stamp => body = local.data

LEMMA BodyCovered ==
    ASSUME Sound, Told, Kept, run.at = "put", NEW body \in Bodies
    PROVE  /\ body \in Given /\ CoveredHere(body)
           /\ local # None /\ local.stamp = run.item.stamp => body = local.data
<1>1. run.body \in Given /\ CoveredHere(run.body) /\ (local # None => local.data \in Given)
  BY SendingFacts DEF SendsFile
<1>2. body = run.body \/ (local # None /\ body = local.data)
  BY DEF Bodies, Data
<1>. QED  BY <1>1, <1>2, BodyIsLocal DEF CoveredHere, Data

LEMMA UnansweredKept ==
    ASSUME Sound, Told, Kept, run.at \in {"put", "patch"}, StoresCovered,
           UNCHANGED <<local, copies, owed, made, tmp, scenario>>, Breaks(journal)
    PROVE  Kept'
<1>1. PICK rows, status : rows = journal /\ Done(status, run.item, TRUE, rows) /\ saved' = saved
                          /\ RowsFine(rows)
  BY RowsOfUpload DEF Breaks
<1>2. CASE server' = server
  BY <1>1, <1>2, GivesUpKept DEF Still
<1>3. CASE server' # server
  <2>1. run' = Ending /\ run' # Idle /\ journal'.db = journal.db /\ journal'.up = journal.up
    BY <1>1, DoneEnds
  <2>2. PICK stamp, etag : stamp = run.item.stamp /\ etag = FreshEtag OBVIOUS
  <2>3. RowsPaired(journal)' /\ RowsPaired(saved)' /\ FilesCounted' /\ PartCovered'
    <3>1. unseen' \subseteq Given BY <1>1, DoneUnseen DEF Kept, Counted
    <3>. QED  BY <1>1, <1>3, <2>1, <2>2, <3>1, StoredKept DEF StoresCovered
  <2>. QED  BY <2>1, <2>3, RestsKept
<1>. QED  BY <1>2, <1>3

(* After a request of which nobody knows whether it was stored. *)
LEMMA AsksForProgressKept ==
    ASSUME Sound, Told, Kept, Plain, run.at = "patch", StoresCovered,
           UNCHANGED <<local, copies, owed, made, unseen, tmp, scenario>>, Continue("head")
    PROVE  Kept'
<1>1. /\ run'.at = "head" /\ run'.seen = run.seen /\ run'.item = run.item
      /\ UNCHANGED <<journal, saved>>
  BY DEF Continue, Sound, RunTyped, Fields
<1>2. Sends(run) /\ Sends(run') /\ run.at \in SendsFile /\ run'.at \in SendsFile
  BY <1>1 DEF Sends, SendsFile
<1>3. scenario.tus /\ (Refused => run.item.instruction = "NEW")
  BY <1>2 DEF Kept, SendKept, SendAllowed
<1>4. CASE server' = server
  BY <1>1, <1>2, <1>4, <1>3, SendsStillKept DEF Still
<1>5. CASE server' # server
  <2>1. PICK stamp, etag : stamp = run.item.stamp /\ etag = FreshEtag OBVIOUS
  <2>2. /\ server' # None /\ server'.etag = etag /\ ServerCovered'
        /\ RowsPaired(journal)' /\ RowsPaired(saved)' /\ FilesCounted' /\ PartCovered'
    <3>1. unseen' \subseteq Given BY DEF Kept, Counted, FilesCounted
    <3>. QED  BY <1>1, <1>5, <2>1, <3>1, StoredKept DEF StoresCovered
  <2>3. run.at \in Working /\ saved.db = journal.db /\ MayBeGiven(run.item.checksum)
        /\ (journal.db # None => ~HasStamp(journal.db.stamp))
    BY <1>2, SendingFacts
  <2>4. ServerFree' BY <2>2 DEF ServerFree, ServerCovered
  <2>5. Refused => SentAlready'
    <3>1. Refused => scenario.checksums BY <1>3 DEF Plain, ClearRights, Refused
    <3>2. scenario.checksums => server'.data = run.item.checksum
      BY <1>5 DEF StoresCovered, Accepted, Store
    <3>. QED  BY <1>1, <2>2, <3>1, <3>2 DEF SentAlready
  <2>6. SendAllowed'
    BY <1>1, <1>3, <2>5, RefusedStays DEF SendAllowed
  <2>7. SendKept'
    BY <1>1, <1>2, <2>2, <2>3, <2>4, <2>6 DEF Kept, SendKept, HasStamp
  <2>. QED  BY <1>1, <1>2, <2>2, <2>3, <2>7, SendsOnKept
<1>. QED  BY <1>4, <1>5

LEMMA ChunkKept ==
    ASSUME Sound, Told, Kept, run.at \in {"put", "head"}, Still, UNCHANGED tmp,
           NEW rows, RowsFine(rows), rows.db = journal.db,
           rows.up = journal.up \/ rows.up.checksum = run.item.checksum,
           scenario.tus, ChunkFinished(rows)
    PROVE  Kept'
<1>1. CASE ~StillThere
  <2>1. \E status : Done(status, run.item, TRUE, journal) /\ saved' = saved
    BY <1>1 DEF ChunkFinished
  <2>. QED  BY <2>1, GivesUpKept, RowsOfUpload
<1>2. CASE StillThere
  <2>1. /\ run'.at = "patch" /\ run'.seen = run.seen /\ run'.item = run.item
        /\ journal' = rows /\ saved' = saved /\ unseen' = unseen
    BY <1>2 DEF ChunkFinished, Sound, RunTyped, Fields
  <2>2. Sends(run) /\ Sends(run') /\ run.at \in SendsFile /\ run'.at \in SendsFile
    BY <2>1 DEF Sends, SendsFile
  <2>3. CASE rows.up = journal.up
    BY <2>1, <2>2, <2>3, SendsStillKept
  <2>4. CASE rows.up.checksum = run.item.checksum
    <3>1. /\ run.at \in Working /\ saved.db = journal.db /\ tmp = None
          /\ MayBeGiven(run.item.checksum)
          /\ server # None => server.data # None
      BY <2>2, SendingFacts
    <3>2. UNCHANGED <<local, server, copies, owed, made, scenario>> BY DEF Still
    <3>3. /\ ServerCovered' <=> ServerCovered
          /\ ServerFree => ServerFree'
          /\ ServerNew => ServerNew'
          /\ Refused' <=> Refused
          /\ \A stamp, etag : Pair(stamp, etag) => Pair(stamp, etag)'
      BY <2>1, StillFacts
    <3>4. server # None /\ server.data = run.item.checksum => ServerCovered
      BY <2>2, <3>1 DEF Kept, SendKept
    <3>5. RowsPaired(journal)'
      BY <2>1, <2>4, <3>2, <3>3, <3>4 DEF Kept, RowsPaired, Pair, HasStamp, HasEtag
    <3>6. RowsPaired(saved)'
      BY <2>1, StillPaired DEF Kept
    <3>7. FilesCounted'
      <4>1. FilesCounted /\ Given' = Given BY <3>2 DEF Kept, Counted, Given
      <4>. QED  BY <2>1, <2>4, <3>1, <3>2, <4>1 DEF FilesCounted, MayBeGiven
    <3>8. PartCovered' BY <3>1 DEF PartCovered
    <3>9. SendAllowed'
      BY <2>1, <2>2, <3>2, <3>3 DEF Kept, SendKept, SendAllowed, SentAlready
    <3>10. SendKept'
      BY <2>1, <2>2, <3>2, <3>3, <3>9 DEF Kept, SendKept, HasStamp, HasEtag
    <3>. QED  BY <2>1, <2>2, <3>1, <3>2, <3>5, <3>6, <3>7, <3>8, <3>10, SendsOnKept
  <2>. QED  BY <2>3, <2>4
<1>. QED  BY <1>1, <1>2

LEMMA RestartKept ==
    ASSUME Sound, Told, Kept, RestartUpload
    PROVE  Kept'
<1>1. run.at = "head" /\ Still /\ UNCHANGED tmp
  BY DEF RestartUpload, At, SameFiles, SameWorld, Still
<1>2. RowsFine(ForgottenUpload) /\ ForgottenUpload.db = journal.db /\ ForgottenUpload.up = None
  BY RowsOfUpload
<1>3. CASE run.restarted \/ local = None
  <2>1. \E status : \E rows \in {journal, ForgottenUpload} :
          Done(status, run.item, TRUE, rows) /\ saved' \in {saved, rows}
    BY <1>3 DEF RestartUpload
  <2>. QED  BY <1>1, <1>2, <2>1, RowsOfUpload, GivesUpKept
<1>4. CASE ~run.restarted /\ local # None
  <2>1. /\ run'.at = "put" /\ run'.seen = run.seen /\ run'.item = run.item
        /\ run'.body = local.data /\ journal' = ForgottenUpload /\ saved' = ForgottenUpload
        /\ unseen' = unseen
    BY <1>4 DEF RestartUpload, Sound, RunTyped, Fields
  <2>2. Sends(run) /\ Sends(run') /\ run.at \in SendsFile /\ run'.at \in SendsFile
    BY <1>1, <2>1 DEF Sends, SendsFile
  <2>3. local.data \in Given /\ CoveredHere(local.data)
    BY <1>1, <1>4, <2>2, SendingFacts DEF CoveredHere, Data
  <2>. QED  BY <1>1, <1>2, <2>1, <2>2, <2>3, SendsStillKept
<1>. QED  BY <1>3, <1>4

LEMMA QueryKept ==
    ASSUME Sound, Told, Kept, QueryEtag, server # None
    PROVE  Kept'
<1>1. /\ run.at = "propfind" /\ Still /\ UNCHANGED <<unseen, tmp, journal, saved>>
      /\ run' = [run EXCEPT !.at = "uploaded", !.item.etag = server.etag]
  BY DEF QueryEtag, At, SameFiles, SameWorld, Still
<1>2. run.at \in Working /\ saved.db = journal.db /\ tmp = None /\ AnItem(run.item)
      /\ Fields \subseteq DOMAIN run
  BY <1>1, SendingFacts DEF SendsFile
<1>3. /\ run'.at = "uploaded" /\ run'.seen = run.seen /\ run'.item.stamp = run.item.stamp
      /\ run'.item.etag = server.etag
  BY <1>1, <1>2 DEF Fields, AnItem
<1>4. FilesCounted' /\ PartCovered'
  BY <1>1, <1>2, StillCounted DEF Kept, Counted, FilesCounted, PartCovered
<1>5. RowsPaired(journal)' /\ RowsPaired(saved)'
  BY <1>1, StillPaired DEF Kept
<1>6. PICK stamp, etag : stamp = run.item.stamp /\ etag = server.etag OBVIOUS
<1>7. Pair(stamp, etag)'
  BY <1>1, <1>6, StillFacts DEF Kept, SendKept
<1>8. SendKept'
  BY <1>3, <1>6, <1>7 DEF SendKept, Sends, Pair, HasStamp, HasEtag
<1>9. made' = made BY <1>1 DEF Still
<1>. QED  BY <1>1, <1>2, <1>3, <1>4, <1>5, <1>8, <1>9, SendsOnKept DEF SendsFile, Sends

LEMMA FinalizeKept ==
    ASSUME Sound, Told, Kept, Finalize
    PROVE  Kept'
<1>1. run.at = "uploaded" /\ Still /\ UNCHANGED tmp
  BY DEF Finalize, At, SameFiles, SameWorld, Still
<1>2. PICK rows : /\ rows = [Recorded(run.item, journal) EXCEPT !.up = None]
                  /\ Done("Success", run.item, TRUE, rows) /\ saved' = rows
  BY DEF Finalize
<1>3. /\ RowsFine(rows) /\ (local = None => rows.db = journal.db) /\ rows.up = None
      /\ local # None => rows.db.stamp = run.item.stamp /\ rows.db.etag = run.item.etag
  <2>1. PICK recorded : recorded = Recorded(run.item, journal) OBVIOUS
  <2>2. RowsFine(rows) /\ rows.db = recorded.db
    BY <1>2, <2>1, RecordedAs
  <2>3. rows.up = None
    BY <1>2, RowsOfUpload
  <2>4. /\ local = None => recorded.db = journal.db
        /\ local # None => /\ recorded.db.stamp = run.item.stamp
                           /\ recorded.db.etag = run.item.etag
    BY <2>1, RecordedAs
  <2>. QED  BY <2>2, <2>3, <2>4
<1>4. rows.db # None => Pair(rows.db.stamp, rows.db.etag)
  BY <1>1, <1>3 DEF Kept, RowsPaired, SendKept
<1>. QED  BY <1>1, <1>2, <1>3, <1>4, StillRecordsKept

LEMMA UploadKept ==
    ASSUME Sound, Told, Kept, Plain, Upload \/ UploadUnanswered \/ PatchUnanswered \/ QueryFails
    PROVE  Kept'
<1>1. UNCHANGED <<local, copies, owed, made, scenario>>
  BY DEF Upload, ComputeContentChecksum, LocalFileChanged, StartUpload, Put, PreconditionFailed,
         ChecksumMismatch, Post, Patch, PatchFails, Head, RestartUpload, QueryEtag, Finalize,
         UploadUnanswered, PatchUnanswered, QueryFails, SameFiles, SameWorld
<1>2. CASE Put
  <2>1. PICK body \in Bodies : Store(body, FreshEtag)
    BY <1>2 DEF Put
  <2>2. run.at = "put" /\ Answered(FreshEtag) /\ UNCHANGED <<unseen, tmp, journal, saved>>
    BY <1>2 DEF Put, At
  <2>. QED  BY <1>1, <2>1, <2>2, BodyCovered, AnsweredKept
<1>3. ASSUME Patched PROVE StoresCovered /\ run.at = "patch" /\ local # None
  <2>1. /\ run.at = "patch" /\ local # None /\ Store(local.data, FreshEtag)
        /\ Accepted(local.data)
    BY <1>3 DEF Patched, At
  <2>2. local.data \in Given BY <2>1, SendingFacts DEF SendsFile
  <2>. QED  BY <2>1, <2>2 DEF StoresCovered, CoveredHere, Data
<1>4. CASE Patch
  <2>1. /\ Answered(FreshEtag) /\ UNCHANGED <<unseen, tmp, journal, saved>> /\ Patched
        /\ Store(local.data, FreshEtag)
    BY <1>4 DEF Patch, Patched
  <2>2. local.data \in Given /\ CoveredHere(local.data)
    BY <1>3, <2>1, SendingFacts DEF SendsFile, CoveredHere, Data
  <2>. QED  BY <1>1, <1>3, <2>1, <2>2, AnsweredKept
<1>5. CASE UploadUnanswered
  <2>1. run.at = "put" /\ Breaks(journal) /\ UNCHANGED tmp
        /\ (server' = server \/ \E body \in Bodies : Accepted(body) /\ Store(body, FreshEtag))
    BY <1>5 DEF UploadUnanswered, At
  <2>2. StoresCovered
    BY <2>1, BodyCovered DEF StoresCovered
  <2>. QED  BY <1>1, <2>1, <2>2, UnansweredKept
<1>6. CASE PatchUnanswered
  <2>1. /\ run.at = "patch" /\ UNCHANGED tmp
        /\ (Continue("head") /\ UNCHANGED unseen) \/ Breaks(journal)
        /\ Patched \/ server' = server
    BY <1>6 DEF PatchUnanswered, At
  <2>2. StoresCovered BY <1>3, <2>1 DEF StoresCovered
  <2>. QED  BY <1>1, <2>1, <2>2, UnansweredKept, AsksForProgressKept
<1>7. CASE Post
  <2>1. PICK rows : rows = [journal EXCEPT !.up = [stamp |-> run.item.stamp,
                                                   checksum |-> run.item.checksum]]
    OBVIOUS
  <2>2. /\ run.at = "put" /\ server' = server /\ UNCHANGED tmp /\ ChunkFinished(rows)
        /\ scenario.tus
    BY <1>7, <2>1 DEF Post, At
  <2>3. RowsFine(rows) /\ rows.db = journal.db
        /\ rows.up = [stamp |-> run.item.stamp, checksum |-> run.item.checksum]
    BY <2>1, RowsOfUpload DEF RowsFine
  <2>4. rows.up.checksum = run.item.checksum BY <2>3
  <2>. QED  BY <1>1, <2>2, <2>3, <2>4, ChunkKept DEF Still
<1>8. CASE Head
  <2>1. run.at = "head" /\ Still /\ UNCHANGED tmp /\ ChunkFinished(journal)
    BY <1>1, <1>8 DEF Head, At, SameFiles, Still
  <2>2. scenario.tus
    BY <2>1 DEF Kept, SendKept, SendAllowed, Sends
  <2>. QED  BY <2>1, <2>2, RowsOfUpload, ChunkKept
<1>9. CASE QueryEtag /\ server = None
  <2>1. Fails("NormalError", journal) /\ Still /\ UNCHANGED tmp
    BY <1>1, <1>9 DEF QueryEtag, SameFiles, Still
  <2>. QED  BY <2>1, RowsOfUpload, GivesUpKept DEF Fails
<1>10. CASE LocalFileChanged \/ QueryFails \/ PreconditionFailed \/ PatchFails \/ ChecksumMismatch
  <2>1. /\ Still /\ UNCHANGED tmp
        /\ \E status, http : \E rows \in {journal, ForgottenUpload} :
             Done(status, run.item, http, rows) /\ saved' \in {saved, rows}
    BY <1>1, <1>10
       DEF LocalFileChanged, QueryFails, PreconditionFailed, PatchFails, ChecksumMismatch,
                       Fails, Breaks, SameFiles, Still
  <2>. QED  BY <2>1, RowsOfUpload, GivesUpKept
<1>. QED  BY <1>2, <1>4, <1>5, <1>6, <1>7, <1>8, <1>9, <1>10, StartsUploadKept, RestartKept,
             QueryKept, FinalizeKept DEF Upload

------------------------------------------------------------------------------
(* What a run has to know is kept. *)
StepsAside == Commit \/ Tick \/ Unlocked \/ Calm \/ Expire \/ UNCHANGED vars
Ends == Crash \/ Abort \/ EndRun
Lists == (\E mode \in {"normal", "parentNotChanged"} : StartRun(mode)) \/ ListLocal \/ ListServer
SimpleJobs == PropagateIgnore \/ PropagateUpdateMetaData \/ Removal \/ RemoteDeleteUnanswered
Downloading == Download \/ GetFails \/ GetBreaksOff \/ LockedFile
Uploading == Upload \/ UploadUnanswered \/ PatchUnanswered \/ QueryFails

LEMMA StepIsOne ==
    ASSUME [Next]_vars
    PROVE  Users \/ StepsAside \/ Ends \/ Lists \/ Decide \/ SimpleJobs \/ Downloading \/ Uploading
BY DEF Next, Job, Fault, Discovery, StepsAside, Ends, Lists, SimpleJobs, Downloading, Uploading

LEMMA StepKept ==
    ASSUME Sound, Told, Told', Kept, TrackerKept, Plain, [Next]_vars
    PROVE  Kept'
<1>1. run.at = "idle" /\ ~tracked => LocalFree BY DEF TrackerKept
<1>. QED  BY <1>1, StepIsOne, UsersKeep, OthersKept, CrashKept, StartRunKept, ListLocalKept,
              ListServerKept,
              DecideKept, SimpleJobsKept, DownloadKept, UploadKept
          DEF StepsAside, Ends, Lists, SimpleJobs, Downloading, Uploading

------------------------------------------------------------------------------
(* The tracker.  A folder that is as the journal has it need not be kept,   *)
(* and so it is when a run lists nothing, or finds nothing that changed.    *)
LEMMA SameAsRow ==
    ASSUME RowsPaired(journal), ~LocalDiffers
    PROVE  LocalFree
BY DEF RowsPaired, Pair, HasStamp, HasEtag, LocalDiffers, LocalFree, CoveredThere, Data

LEMMA ListingTracked ==
    ASSUME Kept, TrackerKept, run.at = "listing"
    PROVE  /\ TakenForJournal => LocalFree
           /\ ~tracked => LocalFree
           /\ run.seen.local # Unread /\ ~ChangedHere(run.seen.local, journal.db) => LocalFree
<1>1. TakenForJournal => LocalFree
  BY SameAsRow DEF Kept, ListingKept
<1>2. ~tracked => TakenForJournal
  BY DEF TrackerKept, TakenForJournal
<1>3. LocalNew => LocalFree
  BY DEF LocalNew, LocalFree
<1>4. ASSUME run.seen.local # Unread, ~ChangedHere(run.seen.local, journal.db)
      PROVE  TakenForJournal \/ LocalNew
  BY <1>4 DEF ChangedHere, TakenForJournal, LocalListed, TrackerKept
<1>. QED  BY <1>1, <1>2, <1>3, <1>4

(* The end of a job: the path is wiped for a file that need not be kept, or *)
(* is not found any more.                                                   *)
LEMMA DoneTracked ==
    ASSUME Kept', NEW status, NEW item, NEW http, NEW rows, RowsFine(rows),
           Done(status, item, http, rows),
           status \in Wiped => LocalFree' \/ (local' = local /\ Forgets(status, item))
    PROVE  TrackerKept'
<1>1. run'.at = "ending" /\ journal'.db = rows.db
  BY DoneEnds, EndingTyped DEF Done
<1>2. ~tracked' => status \in Wiped
  <2>1. tracked' = (status \notin Wiped) BY DEF Done
  <2>. QED  BY <2>1, Zenon
<1>3. ASSUME local' = local, Forgets(status, item) PROVE LocalFree'
  <2>1. unseen' = unseen \union Forgotten(rows) BY <1>3 DEF Done
  <2>2. Forgotten(rows) = {} => ~LocalDiffers'
    BY <1>1, <1>3 DEF Forgotten, LocalDiffers
  <2>3. Forgotten(rows) # {} => local # None /\ local.data \in Forgotten(rows)
    BY DEF Forgotten
  <2>4. ~LocalDiffers' => LocalFree'
    BY DEF Kept, RowsPaired, Pair, HasStamp, HasEtag, LocalDiffers, LocalFree, CoveredThere, Data
  <2>. QED  BY <1>3, <2>1, <2>2, <2>3, <2>4 DEF LocalFree
<1>. QED  BY <1>1, <1>2, <1>3 DEF TrackerKept

LEMMA GivesUpTracked ==
    ASSUME Kept', local' = local, NEW status, status \notin {"Success", "Conflict"},
           NEW item, NEW http, NEW rows, RowsFine(rows), Done(status, item, http, rows)
    PROVE  TrackerKept'
<1>1. status \in Wiped => Forgets(status, item)
  BY DEF Wiped, Forgets
<1>. QED  BY <1>1, DoneTracked

(* What the users and the world do. *)
LEMMA UsersTracked ==
    ASSUME Sound, Told, Kept, TrackerKept, Plain, Users
    PROVE  TrackerKept'
<1>1. ASSUME LocalUser PROVE TrackerKept'
  <2>1. UNCHANGED <<run, tracked, server>> /\ unseen \subseteq unseen'
        /\ (LocalFree => LocalFree') /\ (LocalNew => LocalNew')
        /\ Data(local') \in {None, Data(local)} \union unseen'
    BY <1>1 DEF LocalUser, World
  <2>. QED  BY <2>1 DEF TrackerKept, LocalListed, ServerListed
<1>2. ASSUME ServerUser PROVE TrackerKept'
  <2>1. UNCHANGED <<run, tracked, local>> /\ unseen \subseteq unseen'
        /\ (LocalFree => LocalFree') /\ (LocalNew => LocalNew')
        /\ (server' # None => server'.stamp \notin Given)
    BY <1>2, ServerUserFacts DEF ServerUser, World, Kept
  <2>2. LocalListed => run.seen.local.stamp \in Given
    BY StampsAreGiven
  <2>. QED  BY <2>1, <2>2 DEF TrackerKept, LocalListed, ServerListed
<1>. QED  BY <1>1, <1>2, LocalUsers, ServerUsers DEF Users, Kept

LEMMA AsideTracked ==
    ASSUME TrackerKept, StepsAside
    PROVE  TrackerKept'
<1>1. UNCHANGED <<local, server, copies, owed, unseen, run>>
      /\ (tracked' = tracked \/ tracked' = TRUE)
  BY DEF StepsAside, Commit, Tick, Unlocked, Calm, Expire, vars
<1>2. /\ LocalFree' <=> LocalFree
      /\ LocalNew' <=> LocalNew
  BY <1>1 DEF LocalFree, LocalNew, CoveredThere, Covered, Data
<1>3. CASE tracked' = tracked
  BY <1>1, <1>2, <1>3 DEF TrackerKept, LocalListed, ServerListed, Data
<1>4. CASE tracked' = TRUE
  BY <1>1, <1>2, <1>4 DEF TrackerKept, LocalListed, ServerListed, Data
<1>. QED  BY <1>1, <1>3, <1>4

LEMMA EndsTracked ==
    ASSUME Kept, TrackerKept, Ends
    PROVE  TrackerKept'
<1>1. CASE Crash
  <2>1. run'.at = "idle" /\ tracked' = TRUE BY <1>1, IdleFine DEF Crash
  <2>. QED  BY <2>1 DEF TrackerKept
<1>2. CASE Abort \/ EndRun
  <2>1. /\ run'.at \in {"idle", "ending"} /\ run.at \in {"listing", "started", "ending"}
        /\ UNCHANGED <<local, server, copies, owed, unseen, tracked>>
    BY <1>2, IdleFine, EndingFine DEF Abort, EndRun, At, SameFiles, SameWorld
  <2>2. ~tracked => LocalFree
    BY <2>1, ListingTracked DEF TrackerKept
  <2>3. LocalFree => LocalFree'
    BY <2>1 DEF LocalFree, CoveredThere, Covered, Data
  <2>. QED  BY <2>1, <2>2, <2>3 DEF TrackerKept
<1>. QED  BY <1>1, <1>2 DEF Ends

(* A run that lists the folder is the one that may see what is there. *)
LEMMA ListsTracked ==
    ASSUME Sound, Told, Kept, TrackerKept, Lists
    PROVE  TrackerKept'
<1>1. ASSUME NEW mode \in {"normal", "parentNotChanged"}, StartRun(mode)
      PROVE  TrackerKept'
  <2>1. /\ run'.at = "listing" /\ run'.mode = mode /\ run'.seen.server = Unread
        /\ run'.seen.local = IF mode = "normal" THEN Unread ELSE None
    BY <1>1 DEF StartRun, Idle
  <2>2. mode = "normal" => tracked'
    <3>1. tracked' = (mode = "normal") BY <1>1 DEF StartRun
    <3>. QED  BY <3>1, Zenon
  <2>3. ~LocalListed'
    BY <2>1 DEF LocalListed
  <2>. QED  BY <2>1, <2>2, <2>3 DEF TrackerKept
<1>2. ASSUME ListLocal PROVE TrackerKept'
  <2>1. /\ run.at = "listing" /\ run.mode = "normal" /\ UNCHANGED <<tracked, local, server, copies, owed>>
        /\ unseen' \subseteq unseen
    BY <1>2 DEF ListLocal, At, SameFiles, SameWorld, Found
  <2>2. /\ run'.at = "listing" /\ run'.mode = run.mode /\ run'.seen.server = run.seen.server
        /\ run'.seen.local = LocalInfo
    BY <1>2, <2>1 DEF ListLocal, Sound, RunTyped, Fields
  <2>3. /\ local = None => LocalInfo = None
        /\ local # None => LocalInfo \notin {None, Unread} /\ LocalInfo.stamp = local.stamp
    BY InfosAreSome DEF Sound
  <2>4. run'.seen.local = None => LocalNew'
    BY <2>1, <2>2, <2>3 DEF LocalNew
  <2>5. LocalListed' /\ server # None /\ server.stamp = run'.seen.local.stamp => LocalFree'
    BY <2>1, <2>2, <2>3 DEF LocalListed, Told, FilesTold, Same, LocalFree, CoveredThere, Data
  <2>6. LocalListed' /\ ServerListed' /\ run'.seen.server.stamp = run'.seen.local.stamp =>
          LocalFree'
    <3>1. LocalListed' /\ ServerListed' /\ run'.seen.server.stamp = run'.seen.local.stamp =>
            LocalCovered
      BY <2>1, <2>2, <2>3 DEF LocalListed, ServerListed, Kept, ListingKept, HasStamp
    <3>2. LocalCovered => LocalFree'
      BY <2>1 DEF LocalCovered, LocalFree, CoveredThere, Covered, Data
    <3>. QED  BY <3>1, <3>2
  <2>. QED  BY <2>1, <2>2, <2>4, <2>5, <2>6 DEF TrackerKept
<1>3. ASSUME ListServer PROVE TrackerKept'
  <2>1. /\ run.at = "listing" /\ UNCHANGED <<tracked, local, server, copies, owed>>
        /\ unseen' = unseen \/ (server # None /\ unseen' = unseen \ {server.data})
    BY <1>3 DEF ListServer, At, SameFiles, SameWorld, Found
  <2>2. /\ run'.at = "listing" /\ run'.mode = run.mode /\ run'.seen.server = RemoteInfo
        /\ run'.seen.local = run.seen.local
    BY <1>3, <2>1 DEF ListServer, Sound, RunTyped, Fields
  <2>3. /\ server = None => RemoteInfo = None
        /\ server # None => RemoteInfo.stamp = server.stamp
    BY InfosAreSome DEF Sound
  <2>4. /\ LocalFree => LocalFree'
        /\ LocalNew => LocalNew'
    BY <2>1 DEF LocalFree, LocalNew, CoveredThere, Covered, Data
  <2>5. LocalListed /\ server # None /\ server.stamp = run.seen.local.stamp => LocalFree
    BY <2>1 DEF TrackerKept
  <2>6. (LocalListed' <=> LocalListed) /\ (ServerListed' => server # None)
    BY <2>2, <2>3 DEF LocalListed, ServerListed
  <2>. QED  BY <2>1, <2>2, <2>3, <2>4, <2>5, <2>6 DEF TrackerKept
<1>. QED  BY <1>1, <1>2, <1>3 DEF Lists

LEMMA DecideTracked ==
    ASSUME Sound, Kept, TrackerKept, Decide
    PROVE  TrackerKept'
<1>1. /\ run.at = "listing" /\ run.seen.local # Unread
      /\ UNCHANGED <<local, server, copies, owed, unseen>>
  BY DEF Decide, At, SameWorld
<1>2. /\ LocalFree' <=> LocalFree
      /\ LocalNew' <=> LocalNew
  BY <1>1 DEF LocalFree, LocalNew, CoveredThere, Covered, Data
<1>3. CASE run' = Ending
  <2>1. LocalFree /\ run'.at = "ending"
    BY <1>1, <1>3, DecidesJustified, ListingTracked, EndingFine
  <2>. QED  BY <1>2, <2>1 DEF TrackerKept
<1>4. CASE run'.at = "started"
  <2>1. PICK item, here, there, query, up :
          /\ item = run'.item /\ here = run.seen.local /\ there = run.seen.server
          /\ query.local = run.mode
          /\ Chosen(item, here, there, journal.db, query, up)
          /\ ~tracked' => ~tracked
    <3>1. [local |-> run.mode, server |-> "normal"].local = run.mode OBVIOUS
    <3>. QED  BY <1>4, <3>1, DecidesJustified
  <2>2. ~tracked' => LocalFree
    BY <1>1, <2>1, ListingTracked
  <2>3. item.instruction = "REMOVE" /\ item.direction = "Up" => LocalNew
    BY <1>1, <2>1 DEF Chosen, Justified, Restored, TrackerKept
  <2>4. item.instruction = "UPDATE_METADATA" /\ item.direction # "Up" => LocalFree
    <3>1. ASSUME item.instruction = "UPDATE_METADATA", item.direction # "Up",
                 ChangedHere(here, journal.db)
          PROVE  here # None /\ there # None /\ there.stamp = here.stamp
      BY <2>1, <3>1 DEF Chosen, Justified, Restored, ChangedHere
    <3>2. here # None => LocalListed BY <1>1, <2>1 DEF LocalListed
    <3>3. there # None => ServerListed BY <2>1 DEF Decide, ServerListed
    <3>. QED  BY <1>1, <2>1, <3>1, <3>2, <3>3, ListingTracked DEF TrackerKept
  <2>. QED  BY <1>2, <1>4, <2>1, <2>2, <2>3, <2>4 DEF TrackerKept
<1>. QED  BY <1>3, <1>4, DecidesJustified

(* The jobs. *)
LEMMA SimpleJobsTracked ==
    ASSUME Sound, Kept, Kept', TrackerKept, SimpleJobs
    PROVE  TrackerKept'
<1>1. CASE PropagateIgnore
  <2>1. /\ local' = local
        /\ \E status \in {"NormalError", "SoftError", "BlacklistedError"} :
             Done(status, run.item, run.http, journal)
    BY <1>1 DEF PropagateIgnore, Fails, SameFiles
  <2>. QED  BY <2>1, RowsOfUpload, GivesUpTracked
<1>2. CASE PropagateUpdateMetaData
  <2>1. /\ run.at = "started" /\ run.item.instruction = "UPDATE_METADATA"
        /\ UNCHANGED <<local, server, copies, owed>>
    BY <1>2 DEF PropagateUpdateMetaData, Starts, At, SameFiles, SameWorld
  <2>2. AnItem(run.item)
    BY <2>1 DEF Sound, RunTyped, Working
  <2>3. PICK item, rows :
          /\ item.instruction = run.item.instruction /\ item.direction = run.item.direction
          /\ rows = Recorded(item, journal) /\ Done("Success", item, FALSE, rows)
    <3>1. \A x : LET item == [run.item EXCEPT !.checksum = x]
                 IN  /\ item.instruction = run.item.instruction
                     /\ item.direction = run.item.direction
      BY <2>2 DEF AnItem
    <3>. QED  BY <1>2, <3>1 DEF PropagateUpdateMetaData
  <2>4. RowsFine(rows) BY <2>3, RowsOfUpload, RecordedFine
  <2>5. CASE item.direction = "Up"
    BY <2>1, <2>3, <2>4, <2>5, DoneTracked DEF Forgets
  <2>6. CASE item.direction # "Up"
    <3>1. LocalFree BY <2>1, <2>3, <2>6 DEF TrackerKept
    <3>2. LocalFree'
      BY <2>1, <2>3, <3>1 DEF Done, LocalFree, CoveredThere, Covered, Data
    <3>. QED  BY <2>3, <2>4, <3>2, DoneTracked
  <2>. QED  BY <2>5, <2>6
<1>3. CASE Removal
  <2>1. /\ Done("Success", run.item, TRUE, RemovedRows) /\ run.at = "started"
        /\ run.item.instruction = "REMOVE"
        /\ local' = None \/ (local' = local /\ run.item.direction = "Up")
    BY <1>3 DEF Removal, PropagateLocalRemove, PropagateRemoteDelete, Finishes, Starts, At
  <2>2. LocalFree'
    BY <2>1 DEF TrackerKept, LocalNew, LocalFree, Done
  <2>. QED  BY <2>1, <2>2, RowsOfUpload, DoneTracked
<1>4. CASE RemoteDeleteUnanswered
  <2>1. local' = local /\ \E status \in classifyError : Done(status, run.item, TRUE, journal)
    BY <1>4 DEF RemoteDeleteUnanswered, Breaks
  <2>. QED  BY <2>1, RowsOfUpload, GivesUpTracked DEF classifyError
<1>. QED  BY <1>1, <1>2, <1>3, <1>4 DEF SimpleJobs

(* What a download puts there is on the server, or was given up since. *)
LEMMA ReplacedTracked ==
    ASSUME Sound, Kept, Kept', TrackerKept, RenameTmp \/ UpdateMetadata
    PROVE  TrackerKept'
<1>1. CASE RenameTmp
  <2>1. /\ run.at = "rename" /\ run'.at = "downloaded"
        /\ UNCHANGED <<server, copies, owed>> /\ local'.data = tmp.data
    BY <1>1 DEF RenameTmp, Continue, At, SameWorld, Sound, RunTyped, Fields
  <2>2. LocalFree'
    BY <2>1 DEF Sound, Linked, Kept, PartCovered, LocalFree, CoveredThere, Covered
  <2>. QED  BY <2>1, <2>2 DEF TrackerKept
<1>2. CASE UpdateMetadata
  <2>1. /\ run.at = "downloaded" /\ UNCHANGED <<local, server, copies, owed>>
        /\ \E status : FinishDownload(run.item, status)
    BY <1>2 DEF UpdateMetadata, At, SameFiles, SameWorld
  <2>2. PICK status, rows : /\ rows = [Recorded(run.item, journal) EXCEPT !.down = None]
                            /\ Done(status, run.item, TRUE, rows)
    BY <2>1 DEF FinishDownload
  <2>3. RowsFine(rows) BY <2>2, RecordedAs, RowsOfUpload
  <2>4. LocalFree'
    BY <2>1, <2>2 DEF TrackerKept, LocalFree, CoveredThere, Covered, Data, Done
  <2>. QED  BY <2>2, <2>3, <2>4, DoneTracked
<1>. QED  BY <1>1, <1>2

LEMMA TouchTracked ==
    ASSUME Sound, Told, Kept, Kept', Touch
    PROVE  TrackerKept'
<1>1. PICK stamp, item, rows :
        /\ stamp = run.item.stamp \/ (local # None /\ stamp = local.stamp)
        /\ local' = IF local = None THEN None ELSE [local EXCEPT !.stamp = stamp]
        /\ rows = [Recorded(item, journal) EXCEPT !.down = None]
        /\ Done("Success", item, TRUE, rows)
  BY DEF Touch, FinishDownload
<1>2. run.at = "touch" /\ Fetches(run) /\ Compares(run) /\ UNCHANGED <<server, copies, owed>>
  BY DEF Touch, At, SameWorld, Fetches, Compares
<1>3. RowsFine(rows) BY <1>1, RecordedAs, RowsOfUpload
<1>4. local # None => local'.data = local.data
  BY <1>1 DEF Sound, FilesTyped, Some
<1>5. local # None => CoveredThere(local.data)
  BY <1>2 DEF Told, ItemIsTruthful, Kept, FetchKept
<1>6. LocalFree'
  BY <1>1, <1>2, <1>4, <1>5 DEF LocalFree, CoveredThere, Covered
<1>. QED  BY <1>1, <1>3, <1>6, DoneTracked

LEMMA DownloadTracked ==
    ASSUME Sound, Told, Kept, Kept', TrackerKept, Downloading
    PROVE  TrackerKept'
<1>1. CASE \/ ConflictChecksumComputed \/ StartOther \/ StartDownload \/ Get \/ CreateConflict
           \/ DownloadFinished \/ RemoveTarget
  <2>1. run'.at \in {"touch", "download", "get", "compare", "replace", "rename"}
    BY <1>1 DEF ConflictChecksumComputed, StartOther, StartDownload, Get, CreateConflict,
                DownloadFinished, RemoveTarget, Continue, Sound, RunTyped, Fields
  <2>. QED  BY <2>1 DEF TrackerKept
<1>2. CASE \/ GetNotFound \/ GetRefused \/ GetFails \/ GetBreaksOff \/ ChecksumFail
           \/ RefuseToReplace \/ RenameFails \/ LockedFile
  <2>1. local' = local
    BY <1>2 DEF GetNotFound, GetRefused, GetFails, GetBreaksOff, ChecksumFail, RefuseToReplace,
                RenameFails, LockedFile, SameFiles
  <2>2. \E status \in classifyError : \E http, x :
         \E rows \in {journal, [journal EXCEPT !.down = x]} :
           Done(status, run.item, http, rows)
    BY <1>2 DEF GetNotFound, GetRefused, GetFails, GetBreaksOff, ChecksumFail, RefuseToReplace,
                RenameFails, LockedFile, Fails, Breaks, classifyError
  <2>. QED  BY <2>1, <2>2, RowsOfUpload, GivesUpTracked DEF classifyError
<1>. QED  BY <1>1, <1>2, ReplacedTracked, TouchTracked DEF Downloading, Download

(* What an upload stores is what the folder has, or what it had before it   *)
(* was written.                                                             *)
LEMMA AnsweredTracked ==
    ASSUME Sound, Answered(FreshEtag), LocalFree'
    PROVE  TrackerKept'
<1>1. run'.at \in {"propfind", "uploaded"}
  BY DEF Answered, Sound, RunTyped, Fields
<1>. QED  BY <1>1 DEF TrackerKept

LEMMA ChunkTracked ==
    ASSUME Sound, Kept', local' = local, NEW rows, ChunkFinished(rows)
    PROVE  TrackerKept'
<1>1. CASE StillThere
  <2>1. run'.at = "patch" BY <1>1 DEF ChunkFinished, Sound, RunTyped, Fields
  <2>. QED  BY <2>1 DEF TrackerKept
<1>2. CASE ~StillThere
  <2>1. \E status \in {"SoftError", "Message"} : Done(status, run.item, TRUE, journal)
    BY <1>2 DEF ChunkFinished
  <2>. QED  BY <2>1, RowsOfUpload, GivesUpTracked
<1>. QED  BY <1>1, <1>2

LEMMA StoresTracked ==
    ASSUME Sound, TrackerKept, Put \/ Patch
    PROVE  TrackerKept'
<1>1. CASE Put
  <2>1. PICK body \in Bodies : Store(body, FreshEtag)
    BY <1>1 DEF Put
  <2>2. run.at = "put" /\ Answered(FreshEtag) /\ UNCHANGED <<local, copies, owed, unseen>>
    BY <1>1 DEF Put, At, SameWorld
  <2>3. Data(server') = body
    <3>1. body \in Versions /\ run.item.stamp \in Versions
      BY <2>2, BodiesTyped DEF Sound, RunTyped, Working
    <3>2. server' \in [data : Versions, stamp : Versions, etag : Etags] /\ server'.data = body
      BY <2>1, <3>1, FreshEtagIsFresh DEF Store
    <3>. QED  BY <3>2, SentinelsAssumption DEF Data, Versions
  <2>4. Data(local) = body \/ Data(local) \in {None} \union unseen
    BY <2>1, <2>2 DEF Bodies, TrackerKept
  <2>5. local # None => Data(local) # None
    BY LocalTyped, SentinelsAssumption DEF Sound, Versions, Data
  <2>6. LocalFree'
    BY <2>2, <2>3, <2>4, <2>5 DEF LocalFree, CoveredThere, Data
  <2>. QED  BY <2>2, <2>6, AnsweredTracked
<1>2. CASE Patch
  <2>1. /\ run.at = "patch" /\ local # None /\ Store(local.data, FreshEtag) /\ local' = local
        /\ Answered(FreshEtag)
    BY <1>2 DEF Patch, Patched, At
  <2>2. Data(server') = local.data
    <3>1. local.data \in Versions /\ run.item.stamp \in Versions
      BY <2>1, LocalTyped DEF Sound, RunTyped, Working
    <3>2. server' \in [data : Versions, stamp : Versions, etag : Etags]
          /\ server'.data = local.data
      BY <2>1, <3>1, FreshEtagIsFresh DEF Store
    <3>. QED  BY <3>2, SentinelsAssumption DEF Data, Versions
  <2>3. LocalFree'
    BY <2>1, <2>2 DEF LocalFree, CoveredThere, Data
  <2>. QED  BY <2>1, <2>3, AnsweredTracked
<1>. QED  BY <1>1, <1>2

LEMMA UploadTracked ==
    ASSUME Sound, Kept, Kept', TrackerKept, Uploading
    PROVE  TrackerKept'
<1>1. CASE ComputeContentChecksum
  <2>1. run'.at = "send"
    BY <1>1 DEF ComputeContentChecksum, Sound, RunTyped, Fields
  <2>. QED  BY <2>1 DEF TrackerKept
<1>2. CASE StartUpload
  <2>1. /\ run'.at \in {"head", "put"} /\ run'.body = local.data /\ local # None /\ local' = local
    BY <1>2 DEF StartUpload, StillThere, SameFiles, Sound, RunTyped, Fields
  <2>. QED  BY <2>1 DEF TrackerKept, Data
<1>3. CASE RestartUpload
  <2>1. local' = local BY <1>3 DEF RestartUpload, SameFiles
  <2>2. CASE run.restarted \/ local = None
    <3>1. \E status \in {"NormalError", "SoftError"} : \E rows \in {journal, ForgottenUpload} :
             Done(status, run.item, TRUE, rows)
      BY <1>3, <2>2 DEF RestartUpload
    <3>. QED  BY <2>1, <3>1, RowsOfUpload, GivesUpTracked
  <2>3. CASE ~run.restarted /\ local # None
    <3>1. run'.at = "put" /\ run'.body = local.data
      BY <1>3, <2>3 DEF RestartUpload, Sound, RunTyped, Fields
    <3>. QED  BY <2>1, <2>3, <3>1 DEF TrackerKept, Data
  <2>. QED  BY <2>2, <2>3
<1>4. CASE QueryEtag /\ server # None
  <2>1. run.at = "propfind" /\ run'.at = "uploaded" /\ UNCHANGED <<local, server, copies, owed, unseen>>
    BY <1>4 DEF QueryEtag, At, SameFiles, SameWorld, Sound, RunTyped, Fields
  <2>2. LocalFree'
    BY <2>1 DEF TrackerKept, LocalFree, CoveredThere, Covered, Data
  <2>. QED  BY <2>1, <2>2 DEF TrackerKept
<1>5. CASE Finalize
  <2>1. /\ run.at = "uploaded" /\ UNCHANGED <<local, server, copies, owed>>
        /\ Done("Success", run.item, TRUE, [Recorded(run.item, journal) EXCEPT !.up = None])
    BY <1>5 DEF Finalize, At, SameFiles, SameWorld
  <2>2. RowsFine([Recorded(run.item, journal) EXCEPT !.up = None])
    BY RowsOfUpload, RecordedFine, RowsChanged
  <2>3. LocalFree'
    BY <2>1 DEF TrackerKept, LocalFree, CoveredThere, Covered, Data, Done
  <2>. QED  BY <2>1, <2>2, <2>3, DoneTracked
<1>6. CASE Post \/ Head
  <2>1. local' = local /\ \E rows : ChunkFinished(rows)
    BY <1>6 DEF Post, Head, SameFiles
  <2>. QED  BY <2>1, ChunkTracked
<1>7. CASE PatchUnanswered /\ Continue("head")
  <2>1. run'.at = "head" BY <1>7 DEF Continue, Sound, RunTyped, Fields
  <2>. QED  BY <2>1 DEF TrackerKept
<1>8. CASE \/ LocalFileChanged \/ PreconditionFailed \/ ChecksumMismatch \/ UploadUnanswered
           \/ PatchFails \/ QueryFails \/ (PatchUnanswered /\ ~Continue("head"))
           \/ (QueryEtag /\ server = None)
  <2>1. local' = local
    BY <1>8 DEF LocalFileChanged, PreconditionFailed, ChecksumMismatch, UploadUnanswered,
                PatchUnanswered, PatchFails, QueryFails, QueryEtag, SameFiles
  <2>2. \E status \in classifyError : \E http : \E rows \in {journal, ForgottenUpload} :
           Done(status, run.item, http, rows)
    BY <1>8 DEF LocalFileChanged, PreconditionFailed, ChecksumMismatch, UploadUnanswered,
                PatchUnanswered, PatchFails, QueryFails, QueryEtag, Fails, Breaks, classifyError
  <2>. QED  BY <2>1, <2>2, RowsOfUpload, GivesUpTracked DEF classifyError
<1>9. CASE Put \/ Patch
  BY <1>9, StoresTracked
<1>. QED  BY <1>1, <1>2, <1>3, <1>4, <1>5, <1>6, <1>7, <1>8, <1>9 DEF Uploading, Upload

LEMMA StepTracked ==
    ASSUME Sound, Told, Kept, Kept', TrackerKept, Plain, [Next]_vars
    PROVE  TrackerKept'
BY StepIsOne, UsersTracked, AsideTracked, EndsTracked, ListsTracked, DecideTracked,
   SimpleJobsTracked, DownloadTracked, UploadTracked

LEMMA InitTracked == Init => TrackerKept
<1>. SUFFICES ASSUME Init PROVE TrackerKept OBVIOUS
<1>1. run.at = "idle" BY IdleFine DEF Init
<1>2. LocalFree
  <2>1. CASE scenario.synced
    <3>1. PICK first : /\ local = [data |-> 1, stamp |-> 1]
                       /\ server = [data |-> 1, stamp |-> 1, etag |-> first] /\ first \in Etags
      <4>1. (CHOOSE e \in Etags : TRUE) \in Etags BY FreshEtagIsFresh
      <4>. QED  BY <2>1, <4>1 DEF Init
    <3>2. server \in [data : Versions, stamp : Versions, etag : Etags]
      BY <3>1, BoundsAssumption DEF Versions
    <3>. QED  BY <3>1, <3>2, SentinelsAssumption DEF LocalFree, CoveredThere, Data, Versions
  <2>2. CASE ~scenario.synced
    BY <2>2 DEF Init, LocalFree
  <2>. QED  BY <2>1, <2>2
<1>. QED  BY <1>1, <1>2 DEF TrackerKept

LEMMA InitKept == Init => Kept
<1>. SUFFICES ASSUME Init PROVE Kept OBVIOUS
<1>1. run = Idle /\ saved = journal /\ copies = {} /\ unseen = {} /\ tmp = None
  BY DEF Init
<1>2. /\ run.at = "idle" /\ run.seen.local = Unread /\ run.seen.server = Unread
      /\ ~Fetches(run) /\ ~Compares(run) /\ ~Sends(run)
  BY <1>1 DEF Idle, Fetches, Asks, Compares, Sends
<1>3. FilesCounted /\ RowsPaired(journal)
  <2>1. CASE scenario.synced
    <3>1. /\ made = 1 /\ owed = {1} /\ local.data = 1 /\ server.data = 1
          /\ journal.up = None /\ journal.db.stamp = local.stamp /\ journal.db.etag = server.etag
          /\ local # None /\ server # None
      <4>1. PICK first \in Etags :
              /\ made = 1 /\ owed = {1} /\ local = [data |-> 1, stamp |-> 1]
              /\ server = [data |-> 1, stamp |-> 1, etag |-> first]
              /\ journal = [NoFile EXCEPT !.db =
                    [dir |-> FALSE, stamp |-> 1, etag |-> first, perm |-> scenario.perm,
                     checksum |-> Checksum(1), ignored |-> FALSE]]
        <5>1. (CHOOSE e \in Etags : TRUE) \in Etags BY FreshEtagIsFresh
        <5>. QED  BY <2>1, <5>1 DEF Init
      <4>2. journal.up = None /\ journal.db.stamp = 1 /\ journal.db.etag = first
        BY <4>1 DEF NoFile
      <4>3. local \in [data : Versions, stamp : Versions]
            /\ server \in [data : Versions, stamp : Versions, etag : Etags]
        BY <4>1, BoundsAssumption DEF Versions
      <4>. QED  BY <4>1, <4>2, <4>3, SentinelsAssumption DEF Versions
    <3>2. Given = {1} BY <3>1 DEF Given
    <3>. QED  BY <1>1, <3>1, <3>2 DEF FilesCounted, RowsPaired, Pair, HasStamp, HasEtag
  <2>2. CASE ~scenario.synced
    <3>1. owed = {} /\ local = None /\ server = None /\ journal.db = None /\ journal.up = None
      BY <2>2 DEF Init, NoFile
    <3>. QED  BY <1>1, <3>1 DEF FilesCounted, RowsPaired
  <2>. QED  BY <2>1, <2>2
<1>. QED  BY <1>1, <1>2, <1>3 DEF Kept, Counted, PartCovered, ListingKept, FetchKept, SendKept,
             RemovalKept, UpdateKept

------------------------------------------------------------------------------
(* What a step of the client takes away: a version nobody counts on, or one *)
(* the client never saw, and this at the places that look no more.          *)
KeepsOwed == Replica!ClientStep /\ (LosesOwed => Unguarded)

(* The client finds versions, or forgets the one of the folder. *)
FindsOrForgets ==
    \/ unseen' \subseteq unseen
    \/ unseen' = unseen \union {Data(local)} /\ Data(local') = Data(local)

LEMMA DoneForgets ==
    ASSUME NEW status, NEW item, NEW http, NEW rows, Done(status, item, http, rows)
    PROVE  /\ Data(local') = Data(local) => FindsOrForgets
           /\ ~Forgets(status, item) => unseen' = unseen
BY DEF Done, Forgotten, FindsOrForgets, Data

LEMMA SparesOwed ==
    ASSUME Kept', made' = made, owed' = owed, copies \subseteq copies', FindsOrForgets,
           \A v \in owed : v \in Replica!Held /\ v \notin (Replica!Held)' =>
                             v \in unseen /\ Unguarded
    PROVE  KeepsOwed
<1>1. /\ copies' \subseteq Given /\ (local' # None => local'.data \in Given)
      /\ server' # None => server'.data \in Given
  BY DEF Kept, Counted, FilesCounted, Given
<1>2. (Replica!Held)' \subseteq 1..made
  BY <1>1 DEF Replica!Held, Data, Given
<1>. QED  BY <1>2 DEF KeepsOwed, Replica!ClientStep, LosesOwed, FindsOrForgets

LEMMA StillSpares ==
    ASSUME Kept', Still, FindsOrForgets
    PROVE  KeepsOwed
<1>1. (Replica!Held)' = Replica!Held
  BY DEF Still, Replica!Held
<1>. QED  BY <1>1, SparesOwed DEF Still

LEMMA LocalGoneSpares ==
    ASSUME Kept', local' = None, UNCHANGED <<server, copies, owed, made, unseen>>,
           LocalFree, Unguarded
    PROVE  KeepsOwed
<1>1. \A v \in owed : v \in Replica!Held /\ v \notin (Replica!Held)' => v \in unseen
  BY DEF Replica!Held, LocalFree, CoveredThere, Covered, Data
<1>. QED  BY <1>1, SparesOwed DEF FindsOrForgets

LEMMA ServerGoneSpares ==
    ASSUME Kept', UNCHANGED <<local, copies, owed, made>>, FindsOrForgets, Unguarded,
           ServerNew \/ (ServerFree /\ ~Refused)
    PROVE  KeepsOwed
<1>1. \A v \in owed : v \in Replica!Held /\ v \notin (Replica!Held)' => v \in unseen
  BY DEF Replica!Held, ServerFree, ServerNew, CoveredHere, Covered, Data
<1>. QED  BY <1>1, SparesOwed

(* What is sent once more under the checksum of what is there is the same. *)
LEMMA SentAgain ==
    ASSUME Sound, SentAlready, run.at \in {"put", "patch"},
           server' = server \/ \E body : Accepted(body) /\ Store(body, FreshEtag)
    PROVE  Data(server') = Data(server)
<1>1. CASE server' = server
  BY <1>1 DEF Data
<1>2. CASE server' # server
  <2>1. server' = [data |-> server.data, stamp |-> run.item.stamp, etag |-> FreshEtag]
    BY <1>2 DEF SentAlready, Accepted, Store
  <2>2. server.data \in Versions /\ run.item.stamp \in Versions /\ server # None
    BY LocalTyped DEF SentAlready, Sound, RunTyped, Working
  <2>3. server' \in [data : Versions, stamp : Versions, etag : Etags]
        /\ server'.data = server.data
    BY <2>1, <2>2, FreshEtagIsFresh
  <2>. QED  BY <2>2, <2>3, SentinelsAssumption DEF Data, Versions
<1>. QED  BY <1>1, <1>2

LEMMA StoredSpares ==
    ASSUME Sound, Kept, Kept', run.at \in {"put", "patch"}, ~PreconditionFails,
           UNCHANGED <<local, copies, owed, made>>, FindsOrForgets,
           server' = server \/ \E body : Accepted(body) /\ Store(body, FreshEtag)
    PROVE  KeepsOwed
<1>1. Sends(run) /\ SendAllowed
  BY DEF Kept, SendKept, Sends
<1>2. CASE run.item.instruction = "NEW"
  <2>1. ServerFree BY <1>1, <1>2 DEF Kept, SendKept
  <2>2. CASE ServerNew \/ ~Refused
    BY <1>2, <2>1, <2>2, ServerGoneSpares DEF Unguarded
  <2>3. CASE SentAlready
    <3>1. Data(server') = Data(server)
      BY <2>3, SentAgain
    <3>2. (Replica!Held)' = Replica!Held BY <3>1 DEF Replica!Held, Data
    <3>. QED  BY <3>2, SparesOwed
  <2>. QED  BY <1>1, <2>2, <2>3 DEF SendAllowed
<1>3. CASE run.item.instruction # "NEW"
  <2>1. run.item.etag # None /\ (HasEtag(run.item.etag) => ServerCovered)
    BY <1>3 DEF Kept, SendKept, Sends
  <2>2. ServerCovered /\ ~Refused
    BY <1>1, <1>3, <2>1 DEF PreconditionFails, HasEtag, SendAllowed
  <2>3. \A v \in owed : ~(v \in Replica!Held /\ v \notin (Replica!Held)')
    BY <2>2 DEF Replica!Held, ServerCovered, CoveredHere, Covered, Data
  <2>. QED  BY <2>3, SparesOwed
<1>. QED  BY <1>2, <1>3

LEMMA SimpleJobsSpare ==
    ASSUME Kept, Kept', SimpleJobs
    PROVE  KeepsOwed
<1>1. CASE PropagateIgnore \/ PropagateUpdateMetaData
  <2>1. Still /\ \E status, item, http, rows : Done(status, item, http, rows)
    BY <1>1 DEF PropagateIgnore, PropagateUpdateMetaData, Fails, SameFiles, SameWorld, Still
  <2>. QED  BY <2>1, DoneForgets, StillSpares DEF Still
<1>2. CASE PropagateLocalRemove
  <2>1. /\ run.at = "started" /\ run.item.instruction = "REMOVE" /\ run.item.direction = "Down"
        /\ local' = None /\ UNCHANGED <<server, copies, owed, made>>
        /\ Done("Success", run.item, TRUE, RemovedRows)
    BY <1>2 DEF PropagateLocalRemove, Finishes, Starts, At, SameWorld
  <2>2. ~Forgets("Success", run.item) BY <2>1 DEF Forgets
  <2>3. unseen' = unseen BY <2>1, <2>2, DoneForgets
  <2>. QED  BY <2>1, <2>3, LocalGoneSpares DEF Kept, RemovalKept, Unguarded, At
<1>3. CASE PropagateRemoteDelete \/ RemoteDeleteUnanswered
  <2>1. /\ run.at = "started" /\ run.item.instruction = "REMOVE" /\ run.item.direction = "Up"
        /\ UNCHANGED <<local, copies, owed, made>>
        /\ \E status, item, http, rows : Done(status, item, http, rows)
    BY <1>3 DEF PropagateRemoteDelete, RemoteDeleteUnanswered, Finishes, Breaks, Starts, At,
                SameWorld
  <2>. QED  BY <2>1, DoneForgets, ServerGoneSpares DEF Kept, RemovalKept, Unguarded, At
<1>. QED  BY <1>1, <1>2, <1>3 DEF SimpleJobs, Removal

LEMMA TouchedIsSame ==
    ASSUME Sound, Touch
    PROVE  Data(local') = Data(local)
<1>1. CASE local = None
  BY <1>1 DEF Touch, Data
<1>2. CASE local # None
  <2>1. PICK stamp \in Versions : local' = [local EXCEPT !.stamp = stamp]
    <3>1. run.item.stamp \in Versions /\ local.stamp \in Versions
      BY <1>2, LocalTyped DEF Touch, At, Sound, RunTyped, Working
    <3>. QED  BY <1>2, <3>1 DEF Touch
  <2>2. local \in [data : Versions, stamp : Versions]
    BY <1>2 DEF Sound, FilesTyped, Some
  <2>3. local' \in [data : Versions, stamp : Versions] /\ local'.data = local.data
    BY <2>1, <2>2
  <2>. QED  BY <1>2, <2>3, SentinelsAssumption DEF Data, Versions
<1>. QED  BY <1>1, <1>2

LEMMA DownloadingSpares ==
    ASSUME Sound, Kept, Kept', Downloading
    PROVE  KeepsOwed
<1>1. CASE RemoveTarget
  <2>1. run.at = "replace" /\ Fetches(run) /\ local' = None
        /\ UNCHANGED <<server, copies, owed, made, unseen>>
    BY <1>1 DEF RemoveTarget, At, SameWorld, Fetches
  <2>. QED  BY <2>1, LocalGoneSpares DEF Kept, FetchKept, Unguarded, At
<1>2. CASE CreateConflict
  <2>1. /\ local # None /\ copies' = copies \union {local.data} /\ local' = None
        /\ UNCHANGED <<server, owed, made, unseen>>
    BY <1>2 DEF CreateConflict, SameWorld
  <2>2. Replica!Held \subseteq (Replica!Held)'
    BY <2>1 DEF Replica!Held, Data
  <2>. QED  BY <2>1, <2>2, SparesOwed DEF FindsOrForgets
<1>3. CASE RenameTmp
  <2>1. local = None /\ UNCHANGED <<server, copies, owed, made, unseen>>
    BY <1>3 DEF RenameTmp, SameWorld
  <2>2. Replica!Held \subseteq (Replica!Held)'
    BY <2>1 DEF Replica!Held, Data
  <2>. QED  BY <2>1, <2>2, SparesOwed DEF FindsOrForgets
<1>4. CASE Touch
  <2>1. /\ UNCHANGED <<server, copies, owed, made>>
        /\ \E status, item, http, rows : Done(status, item, http, rows)
    BY <1>4 DEF Touch, FinishDownload, SameWorld
  <2>2. Data(local') = Data(local)
    BY <1>4, TouchedIsSame
  <2>3. Replica!Held \subseteq (Replica!Held)'
    BY <2>1, <2>2 DEF Replica!Held, Data
  <2>. QED  BY <2>1, <2>2, <2>3, DoneForgets, SparesOwed
<1>5. CASE DownloadFinished
  <2>1. Still /\ unseen' \subseteq unseen
    BY <1>5 DEF DownloadFinished, SameFiles, SameWorld, Still, Found
  <2>. QED  BY <2>1, StillSpares DEF FindsOrForgets
<1>6. CASE ConflictChecksumComputed \/ StartOther \/ StartDownload \/ Get
  <2>1. Still /\ unseen' \subseteq unseen
    BY <1>6 DEF ConflictChecksumComputed, StartOther, StartDownload, Get, SameFiles, SameWorld, Still
  <2>. QED  BY <2>1, StillSpares DEF FindsOrForgets
<1>7. CASE \/ GetNotFound \/ GetRefused \/ GetFails \/ GetBreaksOff \/ ChecksumFail
           \/ RefuseToReplace \/ RenameFails \/ UpdateMetadata \/ LockedFile
  <2>1. Still /\ \E status, item, http, rows : Done(status, item, http, rows)
    BY <1>7 DEF GetNotFound, GetRefused, GetFails, GetBreaksOff, ChecksumFail, RefuseToReplace,
           RenameFails, UpdateMetadata, LockedFile, FinishDownload, Fails, Breaks, SameFiles,
           SameWorld, Still
  <2>. QED  BY <2>1, DoneForgets, StillSpares DEF Still
<1>. QED  BY <1>1, <1>2, <1>3, <1>4, <1>5, <1>6, <1>7 DEF Downloading, Download

LEMMA UploadingSpares ==
    ASSUME Sound, Kept, Kept', Uploading
    PROVE  KeepsOwed
<1>1. CASE Put \/ Patch \/ ((UploadUnanswered \/ PatchUnanswered) /\ ~PreconditionFails)
  <2>1. /\ run.at \in {"put", "patch"} /\ ~PreconditionFails
        /\ UNCHANGED <<local, copies, owed, made>>
        /\ server' = server \/ \E body : Accepted(body) /\ Store(body, FreshEtag)
        /\ unseen' = unseen \/ \E status, item, http, rows : Done(status, item, http, rows)
    BY <1>1 DEF Put, Patch, Patched, UploadUnanswered, PatchUnanswered, Breaks, At, SameWorld
  <2>2. FindsOrForgets BY <2>1, DoneForgets DEF FindsOrForgets
  <2>. QED  BY <2>1, <2>2, StoredSpares
<1>2. CASE \/ (UploadUnanswered \/ PatchUnanswered) /\ PreconditionFails
           \/ ComputeContentChecksum \/ LocalFileChanged \/ StartUpload \/ PreconditionFailed
           \/ ChecksumMismatch \/ Post \/ PatchFails \/ Head \/ RestartUpload \/ QueryEtag
           \/ Finalize \/ QueryFails
  <2>1. Still
    BY <1>2 DEF UploadUnanswered, PatchUnanswered, Patched, ComputeContentChecksum,
         LocalFileChanged, StartUpload, PreconditionFailed, ChecksumMismatch, Post, PatchFails,
         Head, RestartUpload, QueryEtag, Finalize, QueryFails, SameFiles, SameWorld, Still
  <2>2. unseen' \subseteq unseen \/ \E status, item, http, rows : Done(status, item, http, rows)
    BY <1>2 DEF UploadUnanswered, PatchUnanswered, ComputeContentChecksum, LocalFileChanged,
         StartUpload, PreconditionFailed, ChecksumMismatch, Post, ChunkFinished, PatchFails,
         Head, RestartUpload, QueryEtag, Finalize, QueryFails, Fails, Breaks
  <2>. QED  BY <2>1, <2>2, DoneForgets, StillSpares DEF FindsOrForgets, Still
<1>. QED  BY <1>1, <1>2 DEF Uploading, Upload

LEMMA OthersSpare ==
    ASSUME Kept', StepsAside \/ Ends \/ Lists \/ Decide
    PROVE  KeepsOwed
<1>1. Still /\ unseen' \subseteq unseen
  BY DEF StepsAside, Ends, Lists, Commit, Tick, Unlocked, Calm, Expire, vars, Crash, Abort,
         EndRun, StartRun, ListLocal, ListServer, Decide, Found, SameFiles, SameWorld, Still
<1>. QED  BY <1>1, StillSpares DEF FindsOrForgets

(* A user gives up the version that is replaced, and no other one. *)
LEMMA UsersSpare ==
    ASSUME Sound, Kept, Plain, Users
    PROVE  Replica!UserStep /\ ~LosesOwed
<1>1. /\ FilesTyped /\ None \notin Given /\ made + 1 \notin Given /\ Given \subseteq Versions
      /\ made' = made + 1 => Given' = Given \union {made + 1}
      /\ made' = made => Given' = Given
  <2>1. made \in Nat BY DEF Sound, FilesTyped
  <2>. QED  BY <2>1, VersionsAreGiven DEF Sound, Given
<1>2. /\ copies \subseteq Given /\ owed \subseteq Given
      /\ local # None => local.data \in Given
      /\ server # None => server.data \in Given
  BY DEF Kept, Counted, FilesCounted
<1>3. \A letter : \/ GivenUp(letter) = {Data(local)}
                  \/ GivenUp(letter) = {} /\ Data(local) = Data(server)
  BY DEF GivenUp
<1>4. made' = made + 1 /\ Users => made + 1 \in Versions /\ made + 1 # None
  <2>1. made' = made + 1 /\ Users => made < scenario.writes
    BY <1>1, MadeTyped
       DEF Users, LocalWrite, LocalTouch, LocalDelete, RemoteWrite, RemoteDelete, Write, FilesTyped
  <2>. QED  BY <1>1, <2>1, MadeTyped, SentinelsAssumption DEF Versions
<1>5. 1..made = Given /\ (1..made)' = Given'
  BY DEF Given
<1>6. ASSUME NEW new, new # None, new \in Versions, new \notin Given, Given' = Given \union {new},
             copies' = copies, unseen' = unseen \union {new}, NEW old, NEW given,
             owed' = (owed \ given) \union {new},
             given = {old} \/ (given = {} /\ Data(local) = Data(server)),
             \/ Data(local') = new /\ old = Data(local) /\ server' = server
             \/ Data(server') = new /\ old = Data(server) /\ local' = local
      PROVE  Replica!UserStep
  <2>1. new \notin Replica!Held /\ new \in (Replica!Held)'
        /\ (Replica!Held)' \ Replica!Held = {new}
    BY <1>2, <1>6 DEF Replica!Held, Data
  <2>2. owed' \ owed = {new} /\ owed \ owed' \subseteq {old}
    BY <1>2, <1>6
  <2>3. Replica!Held \ (Replica!Held)' \subseteq given
    BY <1>6 DEF Replica!Held, Data
  <2>. QED  BY <1>1, <1>2, <1>5, <1>6, <2>1, <2>2, <2>3 DEF Replica!UserStep
<1>7. ASSUME copies' = copies, unseen' = unseen, made' = made, NEW old, NEW given, owed' = owed \ given,
             given = {old} \/ (given = {} /\ Data(local) = Data(server)),
             \/ local' = None /\ old = Data(local) /\ server' = server
             \/ server' = None /\ old = Data(server) /\ local' = local
      PROVE  Replica!UserStep
  <2>1. (Replica!Held)' \subseteq Replica!Held /\ Replica!Held \ (Replica!Held)' \subseteq given
    BY <1>7 DEF Replica!Held, Data
  <2>. QED  BY <1>1, <1>5, <1>7, <2>1 DEF Replica!UserStep
<1>8. ASSUME LocalWrite PROVE Replica!UserStep
  <2>1. /\ made' = made + 1 /\ owed' = (owed \ GivenUp("W")) \union {made + 1}
        /\ unseen' = unseen \union {made + 1} /\ copies' = copies /\ server' = server
        /\ local' = [data |-> made + 1, stamp |-> made + 1]
    BY <1>8 DEF LocalWrite, Write, World
  <2>2. PICK given : given = GivenUp("W") OBVIOUS
  <2>3. given = {Data(local)} \/ (given = {} /\ Data(local) = Data(server))
    BY <1>3, <2>2
  <2>4. local' # None
    <3>1. local' \in [data : Versions, stamp : Versions] BY <1>4, <2>1 DEF Users
    <3>. QED  BY <3>1, SentinelsAssumption DEF Versions
  <2>5. Data(local') = made + 1 BY <2>1, <2>4 DEF Data
  <2>. QED  BY <1>1, <1>4, <1>6, <2>1, <2>2, <2>3, <2>5 DEF Users
<1>9. ASSUME RemoteWrite PROVE Replica!UserStep
  <2>1. /\ made' = made + 1 /\ owed' = (owed \ {Data(server)}) \union {made + 1}
        /\ unseen' = unseen \union {made + 1} /\ copies' = copies /\ local' = local
        /\ server' = [data |-> made + 1, stamp |-> made + 1, etag |-> FreshEtag]
    BY <1>9 DEF RemoteWrite, Write, World
  <2>2. server' # None
    <3>1. server' \in [data : Versions, stamp : Versions, etag : Etags]
      BY <1>4, <2>1, FreshEtagIsFresh DEF Users
    <3>. QED  BY <3>1, SentinelsAssumption DEF Versions
  <2>. QED  BY <1>1, <1>4, <1>6, <2>1, <2>2 DEF Data
<1>10. ASSUME LocalDelete \/ RemoteDelete PROVE Replica!UserStep
  <2>1. copies' = copies /\ unseen' = unseen /\ made' = made
    BY <1>10 DEF LocalDelete, RemoteDelete, World
  <2>2. PICK given, old :
          /\ owed' = owed \ given
          /\ given = {old} \/ (given = {} /\ Data(local) = Data(server))
          /\ \/ local' = None /\ old = Data(local) /\ server' = server
             \/ server' = None /\ old = Data(server) /\ local' = local
    BY <1>3, <1>10 DEF LocalDelete, RemoteDelete, World
  <2>. QED  BY <1>7, <2>1, <2>2
<1>11. ASSUME LocalTouch PROVE Replica!UserStep
  <2>1. /\ made' = made + 1 /\ local # None /\ UNCHANGED <<server, copies, owed, unseen>>
        /\ local' = [local EXCEPT !.stamp = made + 1]
    BY <1>11 DEF LocalTouch, World
  <2>2. Data(local') = Data(local)
    <3>1. local \in [data : Versions, stamp : Versions] BY <1>1, <2>1 DEF FilesTyped, Some
    <3>2. made + 1 \in Versions BY <1>4, <1>11, <2>1 DEF Users
    <3>3. local' \in [data : Versions, stamp : Versions] /\ local'.data = local.data
      BY <2>1, <3>1, <3>2
    <3>. QED  BY <2>1, <3>3, SentinelsAssumption DEF Data, Versions
  <2>3. (Replica!Held)' = Replica!Held
    BY <2>1, <2>2 DEF Replica!Held, Data
  <2>4. Given \subseteq Given' /\ Given' \subseteq Versions
    BY <1>1, <1>4, <1>11, <2>1 DEF Users
  <2>. QED  BY <1>5, <2>1, <2>3, <2>4 DEF Replica!UserStep, Data
<1>12. Replica!UserStep
  BY <1>8, <1>9, <1>10, <1>11 DEF Users
<1>. QED  BY <1>12 DEF Replica!UserStep, LosesOwed

LEMMA StepSpares ==
    ASSUME Sound, Told, Told', Kept, TrackerKept, Plain, [Next]_vars
    PROVE  Replica!Next /\ (LosesOwed => Unguarded)
<1>1. Kept' BY StepKept
<1>2. Users => Replica!UserStep /\ ~LosesOwed BY UsersSpare
<1>3. ~Users => KeepsOwed
  BY <1>1, StepIsOne, OthersSpare, SimpleJobsSpare, DownloadingSpares, UploadingSpares
<1>. QED  BY <1>2, <1>3 DEF KeepsOwed, Replica!Next

LEMMA InitReplica == Init => Replica!Init
<1>. SUFFICES ASSUME Init PROVE Replica!Init OBVIOUS
<1>1. copies = {} /\ unseen = {}
  BY DEF Init
<1>2. CASE scenario.synced
  <2>1. PICK first \in Etags :
          /\ made = 1 /\ owed = {1} /\ local = [data |-> 1, stamp |-> 1]
          /\ server = [data |-> 1, stamp |-> 1, etag |-> first]
    <3>1. (CHOOSE e \in Etags : TRUE) \in Etags BY FreshEtagIsFresh
    <3>. QED  BY <1>2, <3>1 DEF Init
  <2>2. local \in [data : Versions, stamp : Versions] /\ 1 \in Versions /\ 1..made = {1}
        /\ server \in [data : Versions, stamp : Versions, etag : Etags]
    BY <2>1, BoundsAssumption DEF Versions
  <2>3. local # None /\ server # None /\ 1 # None
    BY <2>2, SentinelsAssumption DEF Versions
  <2>. QED  BY <1>1, <2>1, <2>2, <2>3 DEF Replica!Init, Replica!Held, Data
<1>3. CASE ~scenario.synced
  <2>1. owed = {} /\ local = None /\ server = None /\ made = 0
    BY <1>3 DEF Init
  <2>2. 1..made = {} BY <2>1
  <2>. QED  BY <1>1, <2>1, <2>2 DEF Replica!Init, Replica!Held, Data
<1>. QED  BY <1>2, <1>3

PlainKept == Sound /\ Truth /\ Plain /\ Kept /\ TrackerKept

LEMMA PlainStep ==
    ASSUME PlainKept, [Next]_vars
    PROVE  PlainKept'
<1>1. scenario' = scenario BY ScenarioStays
<1>2. Plain' BY <1>1 DEF PlainKept, Plain, ClearRights, Grants, Lacks
<1>3. Sound' /\ Truth' BY StepTyped, StepTold DEF PlainKept
<1>4. Told /\ Told' BY <1>2, <1>3 DEF PlainKept, Truth, Plain
<1>5. Kept' BY <1>4, StepKept DEF PlainKept
<1>6. TrackerKept' BY <1>4, <1>5, StepTracked DEF PlainKept
<1>. QED  BY <1>2, <1>3, <1>5, <1>6 DEF PlainKept

LEMMA PlainSpares ==
    ASSUME PlainKept, [Next]_vars
    PROVE  Replica!Next /\ (LosesOwed => Unguarded)
<1>1. PlainKept' BY PlainStep
<1>. QED  BY <1>1, StepSpares DEF PlainKept, Truth, Plain

LEMMA PlainInit == Init /\ Plain => PlainKept
BY InitTyped, InitTold, InitKept, InitTracked DEF PlainKept, Truth

(* A file that the user may write and remove, or one whose changes the       *)
(* server refuses and the client undoes, where nobody writes in the two      *)
(* moments in which the client looks no more: whatever is interrupted, lost  *)
(* or answered twice, each step is one of Replicas.  The client makes up no  *)
(* version, drops no conflict copy, and a version somebody counts on goes    *)
(* from its last place only if the client has never found it, or has         *)
(* forgotten it when it was in the folder: by a Message, or by an earlier    *)
(* upload that was taken for the one of it.                                  *)
THEOREM NoVersionIsLost == Spec /\ Plain => KeepsVersions
<1>1. Init /\ Plain => PlainKept
  BY PlainInit
<1>2. PlainKept /\ [Next]_vars => PlainKept'
  BY PlainStep
<1>3. Init => Replica!Init
  BY InitReplica
<1>4. PlainKept /\ [Next]_vars => [Replica!Next]_(Replica!vars)
  BY PlainSpares
<1>. QED  BY <1>1, <1>2, <1>3, <1>4, PTL DEF Spec, KeepsVersions, Replica!Spec

(* Such a version is lost where the code looks no more, and nowhere else: in *)
(* a removal, when the local file is put back after the last check of a      *)
(* download, and by the first upload of a file the server has by now.        *)
THEOREM LossesAreKnown == Spec /\ ClearRights => KnownLosses
<1>1. Init /\ Plain => PlainKept
  BY PlainInit
<1>2. PlainKept /\ [Next]_vars => PlainKept'
  BY PlainStep
<1>3. PlainKept /\ [Next]_vars => [LosesOwed => Unguarded \/ scenario.windows]_vars
  BY PlainSpares
<1>4. scenario.windows /\ [Next]_vars => (scenario.windows)'
  BY ScenarioStays
<1>5. scenario.windows /\ [Next]_vars => [LosesOwed => Unguarded \/ scenario.windows]_vars
  OBVIOUS
<1>6. ClearRights => Plain \/ scenario.windows
  BY DEF Plain
<1>. QED  BY <1>1, <1>2, <1>3, <1>4, <1>5, <1>6, PTL DEF Spec, KnownLosses
=============================================================================
