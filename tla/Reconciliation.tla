--------------------------- MODULE Reconciliation ---------------------------
(* What ProcessDirectoryJob::processFile decides about one path, from its  *)
(* entry in the local directory, on the server and in the journal.         *)
(*                                                                         *)
(* Modification time and size, which the code compares together, are one   *)
(* value, the stamp.  A checksum is the content it stands for.  A set of   *)
(* permissions holds "W" (CanWrite) and "D" (CanDelete), or is None, when  *)
(* the server sends none; that of the parent holds "K" (subdirectories)    *)
(* and "C" (files).  Renames and virtual files are left out, so a moved    *)
(* file is one that is gone and one that is new.                           *)
(***************************************************************************)

CONSTANT None        \* an entry, a value or a direction that is not there

Queries == {"normal", "parentNotChanged", "parentDontExist"}

Transfers == {"NEW", "SYNC", "CONFLICT", "TYPE_CHANGE"}

Instructions == Transfers \union {"NONE", "REMOVE", "UPDATE_METADATA", "IGNORE", "ERROR", "STALE"}

(* A SyncFileItem as the journal's entry fills it. *)
FromJournal(db) ==
    [instruction |-> "NONE", direction |-> None, restoration |-> FALSE,
     dir      |-> IF db = None THEN FALSE ELSE db.dir,
     stamp    |-> IF db = None THEN None ELSE db.stamp,
     previous |-> IF db = None THEN None ELSE db.stamp,
     etag     |-> IF db = None THEN None ELSE db.etag,
     perm     |-> IF db = None THEN None ELSE db.perm,
     checksum |-> IF db = None THEN None ELSE db.checksum]

Instruct(item, instruction, direction) ==
    [item EXCEPT !.instruction = instruction, !.direction = direction]

------------------------------------------------------------------------------
(* The server's entry against the journal's. *)

Newer(item, server) == [item EXCEPT !.stamp = server.stamp]

LocallyGone(local, query) == local = None /\ query.local # "parentNotChanged"

EtagDiffers(local, server, query) ==
    CASE server.dir -> "UPDATE_METADATA"
      [] ~server.dir /\ LocallyGone(local, query) -> "NEW"
      [] OTHER -> "SYNC"

AnalyzeRemote(found, local, server, db, query) ==
    LET item == [found EXCEPT !.checksum = server.checksum, !.perm = server.perm,
                              !.dir = server.dir, !.etag = server.etag]
    IN  CASE db = None -> Instruct(Newer(item, server), "NEW", "Down")
          [] db # None /\ server.dir # db.dir ->
                Instruct(Newer(item, server), "TYPE_CHANGE", "Down")
          [] db # None /\ server.dir = db.dir /\ db.etag # server.etag ->
                Instruct(Newer(item, server), EtagDiffers(local, server, query), "Down")
          [] db # None /\ server.dir = db.dir /\ db.etag = server.etag /\ db.perm # server.perm ->
                Instruct(item, "UPDATE_METADATA", "Down")
          [] OTHER -> item

------------------------------------------------------------------------------
(* The local entry against both. *)

(* Mutant: a new version of a known file counts as no change. *)
ServerModifiedOnlyNew(item) == item.instruction \in {"NEW", "TYPE_CHANGE"}

ServerModified(item) == item.instruction \in {"NEW", "SYNC", "TYPE_CHANGE"}

NoServerEntry(server, db, query) ==
    IF query.server = "parentNotChanged" THEN db = None ELSE server = None

(* Both sides changed: an equal directory, an upload of ours whose answer got *)
(* lost, or, without a checksum, equal stamps are no conflicts.               *)
ProcessFileConflict(found, local, server, up) ==
    LET item  == [found EXCEPT !.previous = local.stamp]
        same  == server.stamp = local.stamp
    IN  CASE server.dir /\ local.dir -> [item EXCEPT !.instruction = "UPDATE_METADATA"]
          [] ~(server.dir /\ local.dir) /\ server.checksum = None ->
                IF same THEN Instruct(item, "UPDATE_METADATA", "Down")
                        ELSE Instruct(item, "CONFLICT", None)
          [] ~(server.dir /\ local.dir) /\ server.checksum # None
                /\ up # None /\ up.checksum = server.checksum ->
                Instruct(item, IF up.stamp = local.stamp THEN "UPDATE_METADATA" ELSE "SYNC", "Up")
          [] OTHER -> Instruct(item, "CONFLICT", None)

MissingLocally(item, server, db, query) ==
    CASE query.local = "parentNotChanged" /\ db # None ->
            IF NoServerEntry(server, db, query) THEN Instruct(item, "REMOVE", "Down") ELSE item
      [] ~(query.local = "parentNotChanged" /\ db # None) /\ NoServerEntry(server, db, query) ->
            Instruct(item, "STALE", None)
      [] OTHER ->
            IF ServerModified(item) \/ (db # None /\ db.ignored) THEN item
            ELSE Instruct(item, "REMOVE", "Up")

UploadItem(found, local, instruction) ==
    [Instruct(found, instruction, "Up") EXCEPT !.checksum = None, !.stamp = local.stamp,
                                               !.dir = local.dir]

KnownLocally(item, local, server, db, query, up) ==
    LET typeChange == local.dir # db.dir
        unchanged  == ~typeChange /\ (local.dir \/ db.stamp = local.stamp)
        gone       == NoServerEntry(server, db, query)
    IN  CASE unchanged -> IF gone THEN Instruct(item, "REMOVE", "Down") ELSE item
          [] ~unchanged /\ ServerModified(item) ->
                ProcessFileConflict(item, local, server, up)
          [] ~unchanged /\ ~ServerModified(item) /\ typeChange ->
                UploadItem(item, local, "TYPE_CHANGE")
          [] OTHER -> UploadItem(item, local, IF gone THEN "NEW" ELSE "SYNC")

AnalyzeLocal(item, local, server, db, query, up) ==
    CASE local = None -> MissingLocally(item, server, db, query)
      [] local # None /\ db # None -> KnownLocally(item, local, server, db, query, up)
      [] local # None /\ db = None /\ ServerModified(item) ->
            ProcessFileConflict(item, local, server, up)
      [] OTHER -> UploadItem(item, local, "NEW")

------------------------------------------------------------------------------
(* What the server's permissions make of a change that goes up. *)

Lacks(perm, letter) == perm # None /\ letter \notin perm

Restore(item, instruction) ==
    [Instruct(item, instruction, "Down") EXCEPT !.restoration = TRUE]

(* qSwap: the journal takes the server's stamp, the check for changes the *)
(* local one.                                                             *)
Swapped(item) == [item EXCEPT !.stamp = item.previous, !.previous = item.stamp]

CheckPermissions(item, parent) ==
    CASE item.direction = "Up" /\ item.instruction \in {"NEW", "TYPE_CHANGE"}
            /\ Lacks(parent, IF item.dir THEN "K" ELSE "C") ->
            [item EXCEPT !.instruction = "ERROR"]
      [] item.direction = "Up" /\ item.instruction = "SYNC" /\ Lacks(item.perm, "W") ->
            Swapped(Restore(item, "CONFLICT"))
      [] item.direction = "Up" /\ item.instruction = "REMOVE" /\ Lacks(item.perm, "D") ->
            Restore(item, "NEW")
      [] OTHER -> item

ProcessFileFinalize(item, parent) ==
    CheckPermissions(IF item.dir /\ item.instruction = "SYNC"
                     THEN [item EXCEPT !.instruction = "UPDATE_METADATA"] ELSE item, parent)

ProcessFile(local, server, db, query, up, parent) ==
    LET found == FromJournal(db)
        item  == IF server # None THEN AnalyzeRemote(found, local, server, db, query) ELSE found
    IN  ProcessFileFinalize(AnalyzeLocal(item, local, server, db, query, up), parent)

------------------------------------------------------------------------------
(* What the choice for a file must not do: replace or remove an entry that  *)
(* is not the one the journal has.  An answer of ours that got lost, which  *)
(* the rows of an upload tell, is no change of the server.                  *)
LocalAsKnown(local, db) == local = None \/ (db # None /\ local.stamp = db.stamp)

ServerAsKnown(server, db, up) ==
    \/ server = None
    \/ db # None /\ server.etag = db.etag
    \/ up # None /\ up.checksum = server.checksum

NoVictim(local, server, db, up, item) ==
    /\ item.direction = "Down" /\ item.instruction \in {"NEW", "SYNC", "REMOVE"} =>
          LocalAsKnown(local, db)
    /\ item.direction = "Up" /\ item.instruction \in {"SYNC", "REMOVE"} =>
          ServerAsKnown(server, db, up)
    /\ item.direction = "Up" /\ item.instruction = "NEW" => server = None
    /\ item.instruction = "REMOVE" => local = None \/ server = None
=============================================================================
