------------------------------ MODULE FileSync ------------------------------
(* The synchronization of one file: every step of its run, of the users    *)
(* and of what goes wrong, and what it promises.                           *)
(***************************************************************************)
EXTENDS FileDownload, FileUpload

------------------------------------------------------------------------------
Discovery == (\E mode \in {"normal", "parentNotChanged"} : StartRun(mode))
                \/ ListLocal \/ ListServer \/ Decide \/ EndRun

Removal == PropagateLocalRemove \/ PropagateRemoteDelete

Download ==
    \/ ConflictChecksumComputed \/ StartOther \/ Touch \/ StartDownload
    \/ Get \/ GetNotFound \/ GetRefused \/ ChecksumFail \/ CreateConflict
    \/ RefuseToReplace \/ DownloadFinished \/ RemoveTarget \/ RenameTmp \/ RenameFails
    \/ UpdateMetadata

Upload ==
    \/ ComputeContentChecksum \/ LocalFileChanged \/ StartUpload \/ Put
    \/ PreconditionFailed \/ ChecksumMismatch \/ Post \/ Patch \/ PatchFails \/ Head
    \/ RestartUpload \/ QueryEtag \/ Finalize

(* A run that is aborted looks at nothing more; a job that has not begun   *)
(* says nothing of its item.                                               *)
Abort ==
    /\ May("abort") /\ run.at \in {"listing", "started"}
    /\ run' = IF At("listing") THEN Idle ELSE Ending
    /\ UNCHANGED <<journal, saved, tracked, unseen>> /\ SameFiles /\ SameWorld

Job == PropagateIgnore \/ PropagateUpdateMetaData \/ Removal \/ Download \/ Upload

Fault ==
    \/ RemoteDeleteUnanswered \/ GetFails \/ GetBreaksOff \/ LockedFile
    \/ UploadUnanswered \/ PatchUnanswered \/ QueryFails \/ Abort
    \/ Crash \/ Expire

Users == LocalWrite \/ LocalTouch \/ LocalDelete \/ RemoteWrite \/ RemoteDelete

Next == Users \/ Discovery \/ Job \/ Fault \/ Commit \/ Tick \/ Unlocked \/ Calm

(* One version on both sides that was synchronized before, or none. *)
Init ==
    /\ scenario \in Scenarios
    /\ IF scenario.synced
       THEN LET first == CHOOSE e \in Etags : TRUE
            IN  /\ made = 1 /\ owed = {1}
                /\ local = [data |-> 1, stamp |-> 1]
                /\ server = [data |-> 1, stamp |-> 1, etag |-> first]
                /\ journal = [NoFile EXCEPT !.db =
                      [dir |-> FALSE, stamp |-> 1, etag |-> first, perm |-> scenario.perm,
                       checksum |-> Checksum(1), ignored |-> FALSE]]
       ELSE made = 0 /\ owed = {} /\ local = None /\ server = None /\ journal = NoFile
    /\ saved = journal
    /\ copies = {} /\ unseen = {} /\ tmp = None /\ parked = None
    /\ run = Idle /\ tracked = FALSE
    /\ disturbed = TRUE

Spec == Init /\ [][Next]_vars

(* Runs are started and come to their end; now and then one lists the whole *)
(* folder (fullLocalDiscoveryInterval), and now and then none runs until a  *)
(* blacklisted item may be tried again: with Wait = 1 a tick is all of this *)
(* time.  Without the pause a local error is put off by every run again.    *)
Fairness ==
    /\ WF_vars(ListLocal \/ ListServer \/ Decide \/ EndRun)
    /\ WF_vars(Job)
    /\ SF_vars(StartRun("normal"))
    /\ SF_vars(Tick)

FairSpec == Spec /\ Fairness

------------------------------------------------------------------------------
Points == {"idle", "listing", "started", "ending", "touch", "download", "get", "compare",
           "replace", "rename", "downloaded", "send", "head", "put", "patch", "propfind",
           "uploaded"}

(* Every file, part and copy is of one version, and none is made up of two. *)
TypeOK ==
    /\ local \in Some([data : Versions, stamp : Versions])
    /\ server \in Some([data : Versions, stamp : Versions, etag : Etags])
    /\ copies \subseteq Versions
    /\ tmp \in Some([data : Versions \union {Torn}, whole : BOOLEAN])
    /\ parked \in Some(Versions)
    /\ run.at \in Points
    /\ made \in 0..MaxVersions /\ owed \subseteq Versions /\ unseen \subseteq Versions

(* A file whose stamp and etag are those of the journal is the same on both *)
(* sides, also for the journal a process finds that starts after a crash.   *)
Truthful(rows) ==
    (rows.db # None /\ local # None /\ server # None)
      => (local.stamp = rows.db.stamp /\ server.etag = rows.db.etag
            => local.data = server.data)

JournalIsTruthful == ~scenario.windows => Truthful(journal) /\ Truthful(saved)

(* The run implements Replicas: whatever is interrupted, lost or repeated,  *)
(* no version is lost that nobody has given up and that the client has      *)
(* found, unless the tracker has forgotten the file since (Forgets).        *)
Replica == INSTANCE Replicas WITH Nothing <- None, here <- Data(local), there <- Data(server),
                                  written <- 1..made

KeepsVersions == Replica!Spec

(* A version somebody counts on is lost at four places only, where the      *)
(* code looks no more: a removal on either side, the first upload of a file *)
(* that exists by now, and the local file put back before the rename.       *)
Unguarded ==
    \/ At("started") /\ run.item.instruction = "REMOVE"
    \/ At("replace")
    \/ run.at \in {"put", "patch"} /\ run.item.instruction = "NEW"

LosesOwed == owed' = owed /\ owed \intersect (Replica!Held \ (Replica!Held)') # {}

KnownLosses == [][LosesOwed => Unguarded \/ scenario.windows]_vars

(* No decision overwrites or removes a side that changed on its own.        *)
ChoosesNoVictim ==
    [][At("listing") /\ run'.at = "started" =>
          NoVictim(run.seen.local, run.seen.server, journal.db, journal.up, run'.item)]_vars

(* A run that skips an item for an earlier error leaves the entry of this   *)
(* error alone: "making sure we don't update the blacklist entry yet" is    *)
(* what checkErrorBlacklisting() says it skips the item for.                *)
IgnoredIsNotCounted ==
    [][Starts({"IGNORE"}) /\ run'.at = "ending" /\ journal.black # None
          => journal'.black = journal.black]_vars

(* When nobody meddles any more, both sides become the same, and nothing of *)
(* a broken download is left.                                               *)
InSync == Data(local) = Data(server)

Converges == ~disturbed ~> [](InSync /\ tmp = None)
=============================================================================
