---------------------------- MODULE FileDownload ----------------------------
(* PropagateDownloadFile: the conflict that may be none, the temporary file *)
(* and its GET, and the replacement of the local file.                      *)
(***************************************************************************)
EXTENDS SyncedFile

Downloads == Transfers \cap {"NEW", "SYNC", "CONFLICT"}

IsDownload == Starts(Downloads) /\ run.item.direction # "Up"

IsConflict == run.item.instruction = "CONFLICT"

(* Somebody holds the file open at a moment the client looks. *)
Locked(points) == May("file") /\ run.at \in points

(* A conflict is none when the checksums agree. *)
ConflictChecksumComputed ==
    /\ IsDownload /\ IsConflict /\ run.item.checksum # None
    /\ Continue(IF Data(local) = run.item.checksum THEN "touch" ELSE "download")
    /\ UNCHANGED unseen /\ SameFiles /\ SameWorld

StartOther ==
    /\ IsDownload /\ ~(IsConflict /\ run.item.checksum # None)
    /\ Continue("download")
    /\ UNCHANGED unseen /\ SameFiles /\ SameWorld

FinishDownload(item, status) ==
    LET rows == [Recorded(item, journal) EXCEPT !.down = None]
    IN  Done(status, item, TRUE, rows) /\ saved' = rows

(* The file takes the server's time, or the journal takes the file's. *)
Touch ==
    /\ At("touch")
    /\ LET stamp == IF run.item.stamp # run.item.previous \/ local = None THEN run.item.stamp
                    ELSE local.stamp
       IN  /\ local' = IF local = None THEN None ELSE [local EXCEPT !.stamp = stamp]
           /\ FinishDownload([run.item EXCEPT !.stamp = stamp], "Success")
    /\ UNCHANGED <<server, copies, tmp, parked>> /\ SameWorld

(* A part that was left over is continued if it is of this version; a whole *)
(* file is not asked for again.                                             *)
StartDownload ==
    /\ At("download")
    /\ LET same  == journal.down # None /\ journal.down.etag = run.item.etag
           kept  == IF journal.down # None /\ ~same THEN None ELSE tmp
           whole == kept # None /\ kept.whole
           rows  == [journal EXCEPT !.down = [etag |-> run.item.etag]]
       IN  /\ tmp' = kept
           /\ run' = [run EXCEPT !.at = IF whole THEN "compare" ELSE "get",
                                 !.etag = IF same THEN run.item.etag ELSE None]
           /\ IF whole THEN UNCHANGED <<journal, saved>> ELSE journal' = rows /\ saved' = rows
    /\ UNCHANGED <<local, server, copies, parked, tracked, unseen>> /\ SameWorld

Joined == IF tmp = None \/ tmp.data = server.data THEN server.data ELSE Torn

(* Mutant: the etag of the answer is not compared. *)
NeverResumesOther == FALSE

ResumesOther == run.etag # None /\ run.etag # server.etag

Get ==
    /\ At("get") /\ server # None /\ ~ResumesOther
    /\ scenario.checksums => Joined # Torn
    /\ tmp' = [data |-> Joined, whole |-> TRUE]
    /\ run' = [run EXCEPT !.at = "compare", !.http = TRUE, !.item.etag = server.etag,
                          !.item.stamp = server.stamp, !.item.checksum = Checksum(server.data)]
    /\ unseen' = unseen \ {server.data}
    /\ UNCHANGED <<local, server, copies, parked, journal, saved, tracked>> /\ SameWorld

(* The server's file is gone, it is another one than the part is of, or one *)
(* of another length than was announced.                                    *)
GetNotFound ==
    /\ At("get") /\ server = None
    /\ tmp' = None
    /\ Done("SoftError", run.item, TRUE, [journal EXCEPT !.down = None]) /\ saved' = saved
    /\ UNCHANGED <<local, server, copies, parked>> /\ SameWorld

GetRefused ==
    /\ At("get") /\ server # None /\ server.etag # run.item.etag
    /\ Done("NormalError", run.item, TRUE,
            [journal EXCEPT !.down = IF tmp = None THEN None ELSE @])
    /\ saved' = saved
    /\ SameFiles /\ SameWorld

(* The answer does not come, comes in part, or is broken. *)
GetFails ==
    /\ May("network") /\ At("get")
    /\ Breaks([journal EXCEPT !.down = IF tmp = None THEN None ELSE @])
    /\ SameFiles /\ SameWorld

GetBreaksOff ==
    /\ May("network") /\ At("get") /\ server # None /\ ~ResumesOther
    /\ tmp' = [data |-> Joined, whole |-> FALSE]
    /\ Breaks(journal)
    /\ UNCHANGED <<local, server, copies, parked>> /\ SameWorld

ChecksumFail ==
    /\ At("get") /\ server # None /\ ~ResumesOther
    /\ May("network") \/ (scenario.checksums /\ Joined = Torn)
    /\ tmp' = None
    /\ Done("SoftError", run.item, TRUE, journal) /\ saved' = saved
    /\ UNCHANGED <<local, server, copies, parked>> /\ SameWorld

(* downloadFinished(): a conflicting file moves out of the way; any other   *)
(* must be the one that was discovered.                                     *)
Conflicting == IsConflict /\ Data(local) # tmp.data

CreateConflict ==
    /\ At("compare") /\ Conflicting /\ local # None
    /\ copies' = copies \union {local.data}
    /\ local' = None
    /\ run' = [run EXCEPT !.at = "replace", !.conflict = TRUE]
    /\ UNCHANGED <<server, tmp, parked, journal, saved, tracked, unseen>> /\ SameWorld

(* Mutant: the file is not looked at before it is replaced. *)
OnlyGone == Conflicting /\ local = None

ChangedSinceDiscovery ==
    IF Conflicting THEN local = None ELSE local # None /\ local.stamp # run.item.previous

RefuseToReplace ==
    /\ At("compare") /\ (ChangedSinceDiscovery \/ Locked({"compare"}))
    /\ Fails("SoftError", journal)
    /\ SameFiles /\ SameWorld

DownloadFinished ==
    /\ At("compare") /\ ~Conflicting /\ ~ChangedSinceDiscovery
    /\ Continue("replace")
    /\ unseen' = Found(local, local.stamp # run.item.previous)
    /\ SameFiles /\ SameWorld

(* uncheckedRenameReplace() removes what is there and renames, and fails if *)
(* something is there again.                                                *)
RemoveTarget ==
    /\ At("replace")
    /\ local' = None
    /\ Continue("rename")
    /\ UNCHANGED <<server, copies, tmp, parked, unseen>> /\ SameWorld

RenameTmp ==
    /\ At("rename") /\ local = None
    /\ local' = [data |-> tmp.data, stamp |-> run.item.stamp]
    /\ tmp' = None
    /\ Continue("downloaded")
    /\ UNCHANGED <<server, copies, parked, unseen>> /\ SameWorld

RenameFails ==
    /\ At("rename") /\ local # None
    /\ Fails("SoftError", journal)
    /\ SameFiles /\ SameWorld

UpdateMetadata ==
    /\ At("downloaded")
    /\ FinishDownload(run.item, IF run.item.restoration \/ ~run.conflict THEN "Success" ELSE "Conflict")
    /\ SameFiles /\ SameWorld

LockedFile ==
    /\ \/ Locked({"download"})
       \/ Locked({"started"}) /\ run.item.instruction = "REMOVE" /\ run.item.direction = "Down"
            /\ local # None
       \/ Locked({"hash", "send"})
    /\ Fails("SoftError", journal)
    /\ SameFiles /\ SameWorld
=============================================================================
