----------------------------- MODULE FileUpload -----------------------------
(* PropagateUploadFile with one PUT or, over TUS, with one POST or a POST   *)
(* and a PATCH.  The server is not part of src/: it refuses a body that has *)
(* not the announced checksum, and one whose If-Match does not hold.        *)
(***************************************************************************)
EXTENDS SyncedFile

IsUpload == Starts(Transfers \ {"CONFLICT"}) /\ run.item.direction = "Up"

ComputeContentChecksum ==
    /\ IsUpload
    /\ LET stamp == IF local = None THEN None ELSE local.stamp
       IN  /\ run' = [run EXCEPT !.at = "send", !.item.stamp = stamp,
                         !.item.checksum = IF run.item.checksum = None THEN Data(local) ELSE @]
           /\ unseen' = unseen \ {Data(local)}
    /\ UNCHANGED <<journal, saved, tracked>> /\ SameFiles /\ SameWorld

(* The checks of the local file before the upload and after a part of it. *)
StillThere == local # None /\ local.stamp = run.item.stamp

LocalFileChanged ==
    /\ At("send") /\ (~StillThere \/ May("file"))
    /\ Fails(IF local = None THEN "SoftError" ELSE "Message", journal)
    /\ SameFiles /\ SameWorld

CanResume ==
    /\ scenario.tus /\ journal.up # None
    /\ journal.up.stamp = run.item.stamp /\ journal.up.checksum = run.item.checksum

StartUpload ==
    /\ At("send") /\ StillThere
    /\ run' = [run EXCEPT !.at = IF CanResume THEN "head" ELSE "put", !.body = local.data]
    /\ UNCHANGED <<journal, saved, tracked, unseen>> /\ SameFiles /\ SameWorld

(* Mutant: no upload sends If-Match. *)
NoPrecondition == FALSE

(* No condition is sent for a new file. *)
PreconditionFails ==
    /\ run.item.instruction # "NEW" /\ run.item.etag # None
    /\ ~(server # None /\ server.etag = run.item.etag)

(* What an open file gives when it is rewritten meanwhile. *)
Bodies == {run.body, Data(local)} \ {None}

Accepted(body) == scenario.checksums => body = run.item.checksum

Store(body, etag) == server' = [data |-> body, stamp |-> run.item.stamp, etag |-> etag]

(* An answer over TUS need not bring the etag. *)
Answered(etag) ==
    \/ run' = [run EXCEPT !.at = "uploaded", !.http = TRUE, !.item.etag = etag]
    \/ scenario.tus /\ run' = [run EXCEPT !.at = "propfind", !.http = TRUE]

Put ==
    /\ At("put") /\ ~PreconditionFails
    /\ \E body \in Bodies : Accepted(body) /\ Store(body, FreshEtag)
    /\ Answered(FreshEtag)
    /\ UNCHANGED <<local, copies, tmp, parked, journal, saved, tracked, unseen>> /\ SameWorld

PreconditionFailed ==
    /\ run.at \in {"put", "patch"} /\ PreconditionFails
    /\ Done("SoftError", run.item, TRUE, journal) /\ saved' = saved
    /\ SameFiles /\ SameWorld

ForgottenUpload == [journal EXCEPT !.up = None]

ChecksumMismatch ==
    /\ \/ At("put") /\ ~PreconditionFails /\ (\E body \in Bodies : ~Accepted(body))
          /\ parked' = parked
       \/ At("patch") /\ ~PreconditionFails /\ parked # None /\ local # None
          /\ ~(Accepted(parked) /\ Accepted(local.data))
          /\ parked' = None
    /\ LET rows == IF scenario.tus THEN ForgottenUpload ELSE journal
       IN  Done("NormalError", run.item, TRUE, rows)
           /\ saved' = IF scenario.tus THEN rows ELSE saved
    /\ UNCHANGED <<local, server, copies, tmp>> /\ SameWorld

UploadUnanswered ==
    /\ May("network") /\ At("put")
    /\ \/ ~PreconditionFails /\ \E body \in Bodies : Accepted(body) /\ Store(body, FreshEtag)
       \/ server' = server
    /\ Breaks(journal)
    /\ UNCHANGED <<local, copies, tmp, parked>> /\ SameWorld

(* slotChunkFinished() with a part of the file uploaded. *)
ChunkFinished(rows) ==
    /\ IF StillThere
       THEN /\ run' = [run EXCEPT !.at = "patch", !.http = TRUE]
            /\ journal' = rows /\ UNCHANGED <<tracked, unseen>>
       ELSE Done(IF local = None THEN "SoftError" ELSE "Message", run.item, TRUE, journal)
    /\ saved' = saved

Post ==
    /\ scenario.tus /\ At("put") /\ ~PreconditionFails
    /\ parked' \in Bodies
    /\ ChunkFinished([journal EXCEPT !.up = [stamp |-> run.item.stamp,
                                             checksum |-> run.item.checksum]])
    /\ UNCHANGED <<local, server, copies, tmp>> /\ SameWorld

Patched ==
    /\ At("patch") /\ ~PreconditionFails /\ parked # None /\ local # None
    /\ Accepted(parked) /\ Accepted(local.data)
    /\ Store(local.data, FreshEtag)
    /\ parked' = None

Patch ==
    /\ Patched
    /\ Answered(FreshEtag)
    /\ UNCHANGED <<local, copies, tmp, journal, saved, tracked, unseen>> /\ SameWorld

(* A timeout asks for the progress, any other error ends the job. *)
PatchUnanswered ==
    /\ May("network") /\ At("patch")
    /\ Patched \/ UNCHANGED <<server, parked>>
    /\ \/ Continue("head") /\ UNCHANGED unseen
       \/ Breaks(journal)
    /\ UNCHANGED <<local, copies, tmp>> /\ SameWorld

PatchFails ==
    /\ At("patch") /\ (parked = None \/ local = None)
    /\ IF local = None THEN Fails("SoftError", journal)
       ELSE Done("NormalError", run.item, TRUE, journal) /\ saved' = saved
    /\ SameFiles /\ SameWorld

Head ==
    /\ At("head") /\ parked # None
    /\ ChunkFinished(journal)
    /\ SameFiles /\ SameWorld

(* An upload that is gone is started anew, once. *)
RestartUpload ==
    /\ At("head") /\ parked = None
    /\ IF run.restarted
       THEN Done("NormalError", run.item, TRUE, journal) /\ saved' = saved
       ELSE IF local = None
       THEN Done("SoftError", run.item, TRUE, ForgottenUpload) /\ saved' = ForgottenUpload
       ELSE /\ run' = [run EXCEPT !.at = "put", !.http = TRUE, !.restarted = TRUE, !.body = local.data]
            /\ journal' = ForgottenUpload /\ saved' = ForgottenUpload
            /\ UNCHANGED <<tracked, unseen>>
    /\ SameFiles /\ SameWorld

QueryEtag ==
    /\ At("propfind")
    /\ IF server = None THEN Fails("NormalError", journal)
       ELSE /\ run' = [run EXCEPT !.at = "uploaded", !.item.etag = server.etag]
            /\ UNCHANGED <<journal, saved, tracked, unseen>>
    /\ SameFiles /\ SameWorld

QueryFails ==
    /\ May("network") /\ run.at \in {"head", "propfind"}
    /\ Breaks(journal)
    /\ SameFiles /\ SameWorld

Finalize ==
    /\ At("uploaded")
    /\ LET rows == [Recorded(run.item, journal) EXCEPT !.up = None]
       IN  Done("Success", run.item, TRUE, rows) /\ saved' = rows
    /\ SameFiles /\ SameWorld
=============================================================================
