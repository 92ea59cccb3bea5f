----------------------------- MODULE SyncedFile -----------------------------
(* One file in the root of a space: its two replicas, the journal, the run *)
(* that discovers it, and what may happen to them at any moment: the user, *)
(* another client, the network and the process that stops.  FileDownload   *)
(* and FileUpload add the jobs, FileSync puts them together.               *)
(*                                                                         *)
(* A version of the file is a number.  Whoever writes the file makes a new *)
(* version with a new stamp (two writes differ in time or in size); the    *)
(* client carries stamps along.  Sizes are taken as equal where the code   *)
(* compares them alone.                                                    *)
(***************************************************************************)
EXTENDS Naturals, FiniteSets, Reconciliation

CONSTANTS Unread,       \* a side that is not listed yet
          MaxVersions,  \* how often the file is written
          Etags,        \* enough for those somebody remembers
          Wait,         \* how long an error keeps an item back
          Scenarios     \* what the server offers and the world does

ASSUME BoundsAssumption == MaxVersions \in Nat \ {0} /\ Wait \in Nat \ {0}

(* A fresh etag is none of the ten somebody may remember. *)
ASSUME EtagsAssumption == IsFiniteSet(Etags) => Cardinality(Etags) > 10

(* What is not there is none of the values that may be there. *)
ASSUME SentinelsAssumption ==
    \A x \in {None, Unread} :
        /\ x \notin Etags /\ x \notin 1..MaxVersions /\ x # "Down"
        /\ x \notin [etag : Etags] /\ x \notin [data : 1..MaxVersions, whole : BOOLEAN]
        /\ x \notin [data : 1..MaxVersions, stamp : 1..MaxVersions]
        /\ x \notin [data : 1..MaxVersions, stamp : 1..MaxVersions, etag : Etags]
        /\ x \notin [dir : BOOLEAN, stamp : 1..MaxVersions]
        /\ x \notin [dir : BOOLEAN, stamp : 1..MaxVersions, etag : Etags,
                     checksum : 1..MaxVersions \union {None},
                     perm : {scene.perm : scene \in Scenarios}]

ASSUME ScenariosAssumption == \A scene \in Scenarios : scene.writes \in 0..MaxVersions

VARIABLES local,        \* the file in the folder
          server,       \* the file on the server
          copies,       \* the versions kept as conflict copies
          tmp,          \* the temporary file of a download
          parked,       \* the version of an upload the server has a part of
          journal,      \* the rows of the file in the database
          saved,        \* as of the last commit
          run,          \* the running synchronization of the file
          tracked,      \* the tracker holds the path, or the whole folder is due
          made,         \* the stamps that were given out
          owed, unseen, \* ghosts, see Replicas
          disturbed,    \* the world still meddles
          scenario

vars == <<local, server, copies, tmp, parked, journal, saved, run, tracked, made, owed, unseen,
          disturbed, scenario>>

Torn == 0               \* pieces of two versions

Versions == 1..MaxVersions

Some(S) == S \union {None}

NoFile == [db |-> None, down |-> None, up |-> None, black |-> None]

Idle == [at |-> "idle", mode |-> None, seen |-> [local |-> Unread, server |-> Unread],
         item |-> None, entry |-> None, http |-> FALSE, etag |-> None, body |-> None,
         conflict |-> FALSE, restarted |-> FALSE]

Ending == [Idle EXCEPT !.at = "ending"]

Data(file) == IF file = None THEN None ELSE file.data

LocalInfo == IF local = None THEN None ELSE [dir |-> FALSE, stamp |-> local.stamp]

Checksum(data) == IF scenario.checksums THEN data ELSE None

RemoteInfo ==
    IF server = None THEN None
    ELSE [dir |-> FALSE, stamp |-> server.stamp, etag |-> server.etag,
          checksum |-> Checksum(server.data), perm |-> scenario.perm]

EtagOf(x) == IF x = None THEN {} ELSE {x.etag}

AtWork == run.at \notin {"idle", "listing", "ending"}

Remembered ==
    {run.etag} \union (IF AtWork THEN {run.item.etag} ELSE {})
      \union (IF run.seen.server = Unread THEN {} ELSE EtagOf(run.seen.server))
      \union UNION {EtagOf(x) : x \in {server, journal.db, journal.down, journal.black,
                                       saved.db, saved.down, saved.black}}

FreshEtag == CHOOSE e \in Etags \ Remembered : TRUE

Record(item) ==
    [dir |-> FALSE, stamp |-> item.stamp, etag |-> item.etag, perm |-> item.perm,
     checksum |-> item.checksum, ignored |-> FALSE]

------------------------------------------------------------------------------
(* The users and the world. *)

Grants(letter) == ~Lacks(scenario.perm, letter)

(* A user gives up the version that is replaced or removed, but not one the *)
(* server keeps because it does not let the user change it.                 *)
GivenUp(letter) ==
    IF Data(local) = Data(server) /\ ~Grants(letter) THEN {} ELSE {Data(local)}

May(fault) == disturbed /\ fault \in scenario.faults

World == UNCHANGED <<copies, tmp, parked, journal, saved, run, tracked, disturbed, scenario>>

Write(given) ==
    /\ disturbed /\ made < scenario.writes
    /\ made' = made + 1
    /\ owed' = (owed \ given) \union {made + 1}
    /\ unseen' = unseen \union {made + 1}

(* The client overwrites or stamps as its own what is written in these two *)
(* moments; a scenario says whether somebody does.                         *)
BetweenChecksumAndTouch == run.at = "touch" /\ ~scenario.windows
BetweenUploadAndEtag == run.at = "propfind" /\ ~scenario.windows

LocalWrite ==
    /\ ~BetweenChecksumAndTouch
    /\ Write(GivenUp("W"))
    /\ local' = [data |-> made + 1, stamp |-> made + 1]
    /\ World /\ UNCHANGED server

LocalTouch ==
    /\ disturbed /\ made < scenario.writes /\ local # None
    /\ ~BetweenChecksumAndTouch
    /\ made' = made + 1
    /\ local' = [local EXCEPT !.stamp = made + 1]
    /\ World /\ UNCHANGED <<server, owed, unseen>>

LocalDelete ==
    /\ disturbed /\ local # None
    /\ ~BetweenChecksumAndTouch
    /\ local' = None
    /\ owed' = owed \ GivenUp("D")
    /\ World /\ UNCHANGED <<server, made, unseen>>

RemoteWrite ==
    /\ ~BetweenUploadAndEtag
    /\ Write({Data(server)})
    /\ server' = [data |-> made + 1, stamp |-> made + 1, etag |-> FreshEtag]
    /\ World /\ UNCHANGED local

RemoteDelete ==
    /\ disturbed /\ server # None
    /\ ~BetweenUploadAndEtag
    /\ server' = None
    /\ owed' = owed \ {Data(server)}
    /\ World /\ UNCHANGED <<local, made, unseen>>

(* The job of another item commits the open transaction. *)
Commit ==
    /\ saved # journal
    /\ saved' = journal
    /\ UNCHANGED <<local, server, copies, tmp, parked, journal, run, tracked, made, owed,
                   unseen, disturbed, scenario>>

(* The process stops.  Its next start forgets the local errors; a temporary *)
(* file no row names is never looked at again.  The first run after it      *)
(* lists the whole folder.                                                  *)
IsLocal(entry) == entry # None /\ entry.category = "LocalSoftError"

Forgiving(rows) ==
    [rows EXCEPT !.black = IF IsLocal(@) THEN None ELSE @]

Crash ==
    /\ May("crash")
    /\ journal' = Forgiving(saved)
    /\ tmp' = IF saved.down = None THEN None ELSE tmp
    /\ run' = Idle
    /\ tracked' = TRUE
    /\ UNCHANGED <<local, server, copies, parked, saved, made, owed, unseen, disturbed, scenario>>

(* The server drops an upload that is not finished. *)
Expire ==
    /\ May("network") /\ parked # None
    /\ parked' = None
    /\ UNCHANGED <<local, server, copies, tmp, journal, saved, run, tracked, made, owed,
                   unseen, disturbed, scenario>>

(* Time passes in which nothing is synchronized. *)
Tick ==
    /\ run.at = "idle" /\ journal.black # None /\ journal.black.left > 0
    /\ journal' = [journal EXCEPT !.black.left = @ - 1]
    /\ UNCHANGED <<local, server, copies, tmp, parked, saved, run, tracked, made, owed, unseen,
                   disturbed, scenario>>

(* The LockWatcher reports that a file is free again. *)
Unlocked ==
    /\ IsLocal(journal.black)
    /\ journal' = Forgiving(journal)
    /\ tracked' = TRUE
    /\ UNCHANGED <<local, server, copies, tmp, parked, saved, run, made, owed, unseen,
                   disturbed, scenario>>

Calm ==
    /\ disturbed /\ scenario.calms
    /\ disturbed' = FALSE
    /\ UNCHANGED <<local, server, copies, tmp, parked, journal, saved, run, tracked, made, owed,
                   unseen, scenario>>

------------------------------------------------------------------------------
(* Discovery. *)

At(point) == run.at = point

SameFiles == UNCHANGED <<local, server, copies, tmp, parked>>

SameWorld == UNCHANGED <<made, owed, disturbed, scenario>>

LocalDiffers ==
    local # None /\ ~(journal.db # None /\ local.stamp = journal.db.stamp)

(* A run that does not list the directory takes the journal for it.  The   *)
(* tracker lets it do so unless it holds the path.  What the watcher adds   *)
(* to it is left out, since its reports may be late for any time.           *)
MayTrustJournal == ~tracked

StartRun(mode) ==
    /\ At("idle")
    /\ mode = "parentNotChanged" => MayTrustJournal
    /\ run' = [Idle EXCEPT !.at = "listing", !.mode = mode,
                           !.seen.local = IF mode = "normal" THEN Unread ELSE None]
    /\ tracked' = (mode = "normal")
    /\ UNCHANGED <<journal, saved, unseen>> /\ SameFiles /\ SameWorld

(* The client has found a version when it has seen that the file is not the *)
(* one the journal has; from then on it is no longer in unseen.             *)
Found(file, changed) == IF file # None /\ changed THEN unseen \ {file.data} ELSE unseen

ListLocal ==
    /\ At("listing") /\ run.seen.local = Unread /\ run.mode = "normal"
    /\ run' = [run EXCEPT !.seen.local = LocalInfo]
    /\ unseen' = Found(local, LocalDiffers)
    /\ UNCHANGED <<journal, saved, tracked>> /\ SameFiles /\ SameWorld

ListServer ==
    /\ At("listing") /\ run.seen.server = Unread
    /\ run' = [run EXCEPT !.seen.server = RemoteInfo]
    /\ unseen' = Found(server, journal.db = None \/ server.etag # journal.db.etag)
    /\ UNCHANGED <<journal, saved, tracked>> /\ SameFiles /\ SameWorld

(* Mutant: an entry never expires. *)
NeverExpires(item, black) ==
    /\ black # None
    /\ item.direction = "Up" => item.stamp # None /\ black.stamp = item.stamp
    /\ item.direction = "Down" => item.etag # None /\ black.etag = item.etag

(* An entry of the error blacklist that still holds the item back. *)
CheckErrorBlacklisting(item, black) ==
    /\ black # None /\ black.left > 0
    /\ item.direction = "Up" => item.stamp # None /\ black.stamp = item.stamp
    /\ item.direction = "Down" => item.etag # None /\ black.etag = item.etag

(* deleteStale...: the rows a found item still needs. *)
Needed(row, item, direction) ==
    IF item.direction = direction /\ item.instruction \in Transfers THEN row ELSE None

Discovered ==
    ProcessFile(run.seen.local, run.seen.server, journal.db,
                [local |-> run.mode, server |-> "normal"], journal.up, scenario.parent)

Decide ==
    /\ At("listing") /\ Unread \notin {run.seen.local, run.seen.server}
    /\ LET found == Discovered
           isItem == found.instruction \notin {"NONE", "STALE"}
           entry == IF isItem THEN journal.black ELSE None
           item  == IF CheckErrorBlacklisting(found, entry)
                    THEN [found EXCEPT !.instruction = "IGNORE"] ELSE found
           rows  == [db    |-> IF found.instruction = "STALE" THEN None ELSE journal.db,
                     down  |-> Needed(journal.down, item, "Down"),
                     up    |-> Needed(journal.up, item, "Up"),
                     black |-> entry]
       IN  /\ run' = IF isItem THEN [Idle EXCEPT !.at = "started", !.item = item, !.entry = entry]
                     ELSE Ending
           /\ journal' = rows
           /\ saved' = rows
           /\ tmp' = IF journal.down # None /\ rows.down = None THEN None ELSE tmp
           /\ tracked' = (isItem /\ tracked)
    /\ UNCHANGED <<local, server, copies, parked, unseen>> /\ SameWorld

EndRun ==
    /\ At("ending")
    /\ run' = Idle
    /\ saved' = journal
    /\ UNCHANGED <<journal, tracked, unseen>> /\ SameFiles /\ SameWorld

------------------------------------------------------------------------------
(* The end of a job, which blacklists an item that failed. *)

Errors == {"NormalError", "SoftError"}

Blacklisted(status, item, http, black) ==
    CASE status \in Errors ->
            [stamp |-> item.stamp, etag |-> item.etag, left |-> Wait,
             category |-> IF status = "SoftError" /\ ~http THEN "LocalSoftError" ELSE "Normal"]
      [] status \in {"Message", "FatalError"} -> None
      [] status = "Success" -> IF run.entry # None THEN None ELSE black
      [] OTHER -> black

(* The tracker keeps the path of an item that failed, and wipes that of one *)
(* that succeeded or was put off by a Message.                              *)
Wiped == {"Success", "Conflict", "Message"}

(* At two ends the tracker forgets a file the client has found and that is  *)
(* not the one of its row: after a Message, and when an earlier upload is   *)
(* taken for the one of this file.  Its version is unseen again.            *)
Forgets(status, item) ==
    \/ status = "Message"
    \/ item.instruction = "UPDATE_METADATA" /\ item.direction = "Up"

Forgotten(rows) ==
    IF local # None /\ ~(rows.db # None /\ local.stamp = rows.db.stamp)
    THEN {local.data} ELSE {}

Done(status, item, http, rows) ==
    /\ journal' = [rows EXCEPT !.black = Blacklisted(status, item, http, rows.black)]
    /\ run' = Ending
    /\ tracked' = (status \notin Wiped)
    /\ unseen' = IF Forgets(status, item) THEN unseen \union Forgotten(rows) ELSE unseen

Fails(status, rows) == Done(status, run.item, run.http, rows) /\ saved' = saved

(* What a request that failed makes of its item. *)
classifyError == {"NormalError", "SoftError", "FatalError", "Message"}

Breaks(rows) ==
    /\ \E status \in classifyError : Done(status, run.item, TRUE, rows)
    /\ saved' = saved

Continue(point) == run' = [run EXCEPT !.at = point] /\ UNCHANGED <<journal, saved, tracked>>

(* The jobs that are not asked to transfer anything. *)
Starts(instructions) == At("started") /\ run.item.instruction \in instructions

PropagateIgnore ==
    /\ Starts({"IGNORE", "ERROR"})
    /\ LET status == CASE run.item.instruction = "ERROR" -> "NormalError"
                       [] run.item.instruction = "IGNORE" /\ IsLocal(run.entry) ->
                            "SoftError"
                       [] OTHER -> "BlacklistedError"
       IN  Fails(status, journal)
    /\ SameFiles /\ SameWorld

(* Mutant: the record takes the time the file has now. *)
RecordedAsFound(item, rows) ==
    IF local = None THEN rows ELSE [rows EXCEPT !.db = Record([item EXCEPT !.stamp = local.stamp])]

(* updateMetadata() writes no record for a file that is gone. *)
Recorded(item, rows) ==
    IF local = None THEN rows ELSE [rows EXCEPT !.db = Record(item)]

PropagateUpdateMetaData ==
    /\ Starts({"UPDATE_METADATA"})
    /\ LET keeps == run.item.direction = "Down" /\ journal.db # None /\ run.item.checksum = None
           item  == IF keeps THEN [run.item EXCEPT !.checksum = journal.db.checksum] ELSE run.item
       IN  Done("Success", item, FALSE, Recorded(item, journal))
    /\ saved' = saved
    /\ SameFiles /\ SameWorld

------------------------------------------------------------------------------
(* Removals.  Neither looks whether the file is still the one that was      *)
(* discovered.                                                              *)

RemovedRows == [journal EXCEPT !.db = None]

Finishes(status, rows) ==
    Done(status, run.item, TRUE, rows) /\ saved' = rows

PropagateLocalRemove ==
    /\ Starts({"REMOVE"}) /\ run.item.direction = "Down"
    /\ local' = None
    /\ Finishes("Success", RemovedRows)
    /\ UNCHANGED <<server, copies, tmp, parked>> /\ SameWorld

PropagateRemoteDelete ==
    /\ Starts({"REMOVE"}) /\ run.item.direction = "Up"
    /\ server' = None
    /\ Finishes("Success", RemovedRows)
    /\ UNCHANGED <<local, copies, tmp, parked>> /\ SameWorld

RemoteDeleteUnanswered ==
    /\ May("network")
    /\ Starts({"REMOVE"}) /\ run.item.direction = "Up"
    /\ server' \in {server, None}
    /\ Breaks(journal)
    /\ UNCHANGED <<local, copies, tmp, parked>> /\ SameWorld
=============================================================================
