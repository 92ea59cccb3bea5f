------------------------ MODULE ReconciliationProofs ------------------------
(* The choice of ProcessDirectoryJob for a file, for every content of the  *)
(* directory, the server and the journal: it takes no victim, and what an  *)
(* item says comes from an entry.                                          *)
(***************************************************************************)
EXTENDS Reconciliation, TLAPS

(* Entries of files: the journal, the server and the folder agree on what   *)
(* the path is.                                                             *)
AFile(entry) == entry = None \/ entry.dir = FALSE

(* An item has what a decision sets. *)
AnItem(item) ==
    {"instruction", "direction", "restoration", "dir", "stamp", "previous", "etag", "perm",
     "checksum"} \subseteq DOMAIN item

(* What NoVictim says, as conditions on an instruction and a direction: a   *)
(* removal on the server, which the permissions may turn into a download,   *)
(* needs a folder without the file.                                         *)
Spares(local, server, db, up, instruction, direction) ==
    /\ direction = "Down" /\ instruction \in {"NEW", "SYNC", "REMOVE"} => LocalAsKnown(local, db)
    /\ direction = "Up" /\ instruction \in {"SYNC", "REMOVE"} => ServerAsKnown(server, db, up)
    /\ direction = "Up" /\ instruction = "NEW" => server = None
    /\ instruction = "REMOVE" => local = None \/ server = None
    /\ direction = "Up" /\ instruction = "REMOVE" => local = None

LEMMA SparesNone ==
    ASSUME NEW local, NEW server, NEW db, NEW up, NEW item,
           Spares(local, server, db, up, item.instruction, item.direction)
    PROVE  NoVictim(local, server, db, up, item)
BY DEF Spares, NoVictim

(* The journal's entry makes an item without instruction. *)
LEMMA JournalMakesItem ==
    ASSUME NEW db
    PROVE  /\ AnItem(FromJournal(db))
           /\ FromJournal(db).instruction = "NONE" /\ FromJournal(db).direction = None
BY DEF AnItem, FromJournal

LEMMA InstructedItem ==
    ASSUME NEW item, AnItem(item), NEW instruction, NEW direction
    PROVE  /\ AnItem(Instruct(item, instruction, direction))
           /\ Instruct(item, instruction, direction).instruction = instruction
           /\ Instruct(item, instruction, direction).direction = direction
BY DEF AnItem, Instruct

LEMMA NewerItem ==
    ASSUME NEW item, AnItem(item), NEW server
    PROVE  AnItem(Newer(item, server))
BY DEF AnItem, Newer

LEMMA UploadedItem ==
    ASSUME NEW item, AnItem(item), NEW local, NEW instruction
    PROVE  /\ AnItem(UploadItem(item, local, instruction))
           /\ UploadItem(item, local, instruction).instruction = instruction
           /\ UploadItem(item, local, instruction).direction = "Up"
BY InstructedItem DEF AnItem, UploadItem

------------------------------------------------------------------------------
(* The server's entry of a file, if it is not the one of the journal, gives *)
(* an item to download.                                                     *)
Downloadable(item, server, db) ==
    /\ AnItem(item)
    /\ item.instruction \in {"NEW", "SYNC"} => item.direction = "Down"
    /\ item.instruction \in {"NONE", "NEW", "SYNC", "UPDATE_METADATA"}
    /\ ~ServerModified(item) => db # None /\ db.etag = server.etag

LEMMA RemoteItem ==
    ASSUME NEW found, AnItem(found), found.instruction = "NONE",
           NEW local, NEW server, NEW db, NEW query,
           server # None, AFile(server), AFile(db)
    PROVE  Downloadable(AnalyzeRemote(found, local, server, db, query), server, db)
<1> DEFINE base == [found EXCEPT !.checksum = server.checksum, !.perm = server.perm,
                                 !.dir = server.dir, !.etag = server.etag]
           item == AnalyzeRemote(found, local, server, db, query)
<1>1. AnItem(base) /\ base.instruction = "NONE" BY DEF AnItem
<1>2. AnItem(Newer(base, server)) BY <1>1, NewerItem
<1>3. EtagDiffers(local, server, query) \in {"NEW", "SYNC"}
  BY DEF EtagDiffers, AFile
<1>4. db # None => server.dir = db.dir BY DEF AFile
<1>5. item = IF db = None THEN Instruct(Newer(base, server), "NEW", "Down")
             ELSE IF db.etag # server.etag
             THEN Instruct(Newer(base, server), EtagDiffers(local, server, query), "Down")
             ELSE IF db.perm # server.perm THEN Instruct(base, "UPDATE_METADATA", "Down")
             ELSE base
  <2> HIDE DEF base
  <2>1. item = (CASE db = None -> Instruct(Newer(base, server), "NEW", "Down")
          [] db # None /\ server.dir # db.dir ->
                Instruct(Newer(base, server), "TYPE_CHANGE", "Down")
          [] db # None /\ server.dir = db.dir /\ db.etag # server.etag ->
                Instruct(Newer(base, server), EtagDiffers(local, server, query), "Down")
          [] db # None /\ server.dir = db.dir /\ db.etag = server.etag /\ db.perm # server.perm ->
                Instruct(base, "UPDATE_METADATA", "Down")
          [] OTHER -> base)
    BY Zenon DEF AnalyzeRemote, base
  <2>2. CASE db = None BY <2>1, <2>2
  <2>3. CASE db # None /\ db.etag # server.etag BY <2>1, <2>3, <1>4
  <2>4. CASE db # None /\ db.etag = server.etag BY <2>1, <2>4, <1>4
  <2>. QED  BY <2>2, <2>3, <2>4
<1> HIDE DEF base, item
<1>6. db = None => Downloadable(item, server, db)
  BY <1>2, <1>5, InstructedItem DEF ServerModified, Downloadable
<1>7. db # None /\ db.etag # server.etag => Downloadable(item, server, db)
  BY <1>2, <1>3, <1>5, InstructedItem DEF ServerModified, Downloadable
<1>8. db # None /\ db.etag = server.etag => Downloadable(item, server, db)
  BY <1>1, <1>5, InstructedItem DEF Downloadable
<1>9. Downloadable(item, server, db) BY <1>6, <1>7, <1>8
<1>. QED  BY <1>9 DEF item
------------------------------------------------------------------------------
(* The local entry against both. *)
Prepared(item, server, db) ==
    /\ AnItem(item)
    /\ server = None => item.instruction = "NONE"
    /\ server # None => Downloadable(item, server, db)

Spared(item, local, server, db, up) ==
    AnItem(item) /\ Spares(local, server, db, up, item.instruction, item.direction)

LEMMA ConflictSpares ==
    ASSUME NEW item, AnItem(item), NEW local, NEW server, NEW db, NEW up,
           local # None, server # None, AFile(local), AFile(server)
    PROVE  Spared(ProcessFileConflict(item, local, server, up), local, server, db, up)
<1> DEFINE base == [item EXCEPT !.previous = local.stamp]
           result == ProcessFileConflict(item, local, server, up)
           ours == up # None /\ up.checksum = server.checksum
<1>1. AnItem(base) BY DEF AnItem
<1>2. ~server.dir /\ ~local.dir BY DEF AFile
<1>3. \/ result \in {Instruct(base, "UPDATE_METADATA", "Down"), Instruct(base, "CONFLICT", None)}
      \/ ours /\ result \in {Instruct(base, "UPDATE_METADATA", "Up"), Instruct(base, "SYNC", "Up")}
  <2> HIDE DEF base
  <2>1. result = (CASE server.dir /\ local.dir -> [base EXCEPT !.instruction = "UPDATE_METADATA"]
          [] ~(server.dir /\ local.dir) /\ server.checksum = None ->
                IF server.stamp = local.stamp THEN Instruct(base, "UPDATE_METADATA", "Down")
                        ELSE Instruct(base, "CONFLICT", None)
          [] ~(server.dir /\ local.dir) /\ server.checksum # None
                /\ up # None /\ up.checksum = server.checksum ->
                Instruct(base, IF up.stamp = local.stamp THEN "UPDATE_METADATA" ELSE "SYNC", "Up")
          [] OTHER -> Instruct(base, "CONFLICT", None))
    BY Zenon DEF ProcessFileConflict, base
  <2> HIDE DEF result
  <2>2. server.checksum = None =>
          result \in {Instruct(base, "UPDATE_METADATA", "Down"), Instruct(base, "CONFLICT", None)}
    BY <2>1, <1>2
  <2>3. server.checksum # None /\ ours =>
          result \in {Instruct(base, "UPDATE_METADATA", "Up"), Instruct(base, "SYNC", "Up")}
    BY <2>1, <1>2
  <2>4. server.checksum # None /\ ~ours => result = Instruct(base, "CONFLICT", None)
    BY <2>1, <1>2
  <2>. QED  BY <2>2, <2>3, <2>4
<1> HIDE DEF base, result
<1>4. AnItem(result) /\ result.instruction \in {"UPDATE_METADATA", "CONFLICT", "SYNC"}
  BY <1>1, <1>3, InstructedItem
<1>5. result.instruction = "SYNC" => ours /\ result.direction = "Up"
  BY <1>1, <1>3, InstructedItem
<1>6. Spared(result, local, server, db, up)
  BY <1>4, <1>5 DEF Spared, Spares, ServerAsKnown
<1>. QED  BY <1>6 DEF result

(* The query of the server is normal, and a directory that is not listed is *)
(* one without local entries.                                               *)
Listed(query, local) ==
    query.server = "normal" /\ (query.local = "parentNotChanged" => local = None)

LEMMA MissingSpares ==
    ASSUME NEW item, NEW server, NEW db, NEW up, NEW query,
           Prepared(item, server, db), Listed(query, None)
    PROVE  Spared(MissingLocally(item, server, db, query), None, server, db, up)
<1> DEFINE result == MissingLocally(item, server, db, query)
<1>1. NoServerEntry(server, db, query) <=> server = None
  BY DEF NoServerEntry, Listed
<1>2. \/ result = item
      \/ server = None
         /\ result \in {Instruct(item, "REMOVE", "Down"), Instruct(item, "STALE", None)}
      \/ server # None /\ ~ServerModified(item) /\ result = Instruct(item, "REMOVE", "Up")
  <2>1. result = (CASE query.local = "parentNotChanged" /\ db # None ->
            IF NoServerEntry(server, db, query) THEN Instruct(item, "REMOVE", "Down") ELSE item
      [] ~(query.local = "parentNotChanged" /\ db # None) /\ NoServerEntry(server, db, query) ->
            Instruct(item, "STALE", None)
      [] OTHER ->
            IF ServerModified(item) \/ (db # None /\ db.ignored) THEN item
            ELSE Instruct(item, "REMOVE", "Up"))
    BY Zenon DEF MissingLocally
  <2> HIDE DEF result
  <2>2. query.local = "parentNotChanged" /\ db # None =>
          result = item \/ (server = None /\ result = Instruct(item, "REMOVE", "Down"))
    BY <2>1, <1>1
  <2>3. ~(query.local = "parentNotChanged" /\ db # None) /\ server = None =>
          result = Instruct(item, "STALE", None)
    BY <2>1, <1>1
  <2>4. ~(query.local = "parentNotChanged" /\ db # None) /\ server # None =>
          result = item \/ (~ServerModified(item) /\ result = Instruct(item, "REMOVE", "Up"))
    BY <2>1, <1>1
  <2>. QED  BY <2>2, <2>3, <2>4
<1> HIDE DEF result
<1>3. AnItem(item) BY DEF Prepared
<1>4. result = item => Spared(result, None, server, db, up)
  BY <1>3 DEF Prepared, Downloadable, Spared, Spares, LocalAsKnown
<1>5. server = None
         /\ result \in {Instruct(item, "REMOVE", "Down"), Instruct(item, "STALE", None)}
        => Spared(result, None, server, db, up)
  BY <1>3, InstructedItem DEF Spared, Spares, LocalAsKnown, ServerAsKnown
<1>6. server # None /\ ~ServerModified(item) /\ result = Instruct(item, "REMOVE", "Up")
        => Spared(result, None, server, db, up)
  BY <1>3, InstructedItem DEF Prepared, Downloadable, Spared, Spares, ServerAsKnown
<1>7. Spared(result, None, server, db, up) BY <1>2, <1>4, <1>5, <1>6
<1>. QED  BY <1>7 DEF result

LEMMA KnownSpares ==
    ASSUME NEW item, NEW local, NEW server, NEW db, NEW up, NEW query,
           Prepared(item, server, db), Listed(query, local),
           local # None, db # None, AFile(local), AFile(server), AFile(db)
    PROVE  Spared(KnownLocally(item, local, server, db, query, up), local, server, db, up)
<1> DEFINE unchanged == db.stamp = local.stamp
           result == KnownLocally(item, local, server, db, query, up)
<1>1. local.dir = db.dir /\ ~local.dir BY DEF AFile
<1>2. NoServerEntry(server, db, query) <=> server = None
  BY DEF NoServerEntry, Listed
<1>3. AnItem(item) BY DEF Prepared
<1>4. ServerModified(item) => server # None BY DEF Prepared, ServerModified
<1>5. /\ unchanged => result = IF server = None THEN Instruct(item, "REMOVE", "Down") ELSE item
      /\ ~unchanged /\ ServerModified(item) => result = ProcessFileConflict(item, local, server, up)
      /\ ~unchanged /\ ~ServerModified(item) =>
            result = UploadItem(item, local, IF server = None THEN "NEW" ELSE "SYNC")
  BY <1>1, <1>2 DEF KnownLocally
<1> HIDE DEF result
<1>6. unchanged => Spared(result, local, server, db, up)
  <2>1. unchanged /\ server = None => Spared(result, local, server, db, up)
    BY <1>3, <1>5, InstructedItem DEF Spared, Spares, LocalAsKnown, ServerAsKnown
  <2>2. unchanged /\ server # None => Spared(result, local, server, db, up)
    BY <1>3, <1>5 DEF Prepared, Downloadable, Spared, Spares, LocalAsKnown
  <2>. QED  BY <2>1, <2>2
<1>7. ~unchanged /\ ServerModified(item) => Spared(result, local, server, db, up)
  BY <1>3, <1>4, <1>5, ConflictSpares
<1>8. ~unchanged /\ ~ServerModified(item) => Spared(result, local, server, db, up)
  BY <1>3, <1>5, UploadedItem DEF Prepared, Downloadable, Spared, Spares, ServerAsKnown
<1>9. Spared(result, local, server, db, up) BY <1>6, <1>7, <1>8
<1>. QED  BY <1>9 DEF result

LEMMA LocalSpares ==
    ASSUME NEW item, NEW local, NEW server, NEW db, NEW up, NEW query,
           Prepared(item, server, db), Listed(query, local),
           AFile(local), AFile(server), AFile(db)
    PROVE  Spared(AnalyzeLocal(item, local, server, db, query, up), local, server, db, up)
<1> DEFINE result == AnalyzeLocal(item, local, server, db, query, up)
<1>1. /\ local = None => result = MissingLocally(item, server, db, query)
      /\ local # None /\ db # None => result = KnownLocally(item, local, server, db, query, up)
      /\ local # None /\ db = None /\ ServerModified(item) =>
            result = ProcessFileConflict(item, local, server, up)
      /\ local # None /\ db = None /\ ~ServerModified(item) =>
            result = UploadItem(item, local, "NEW")
  BY DEF AnalyzeLocal
<1> HIDE DEF result
<1>2. AnItem(item) BY DEF Prepared
<1>3. local = None => Spared(result, local, server, db, up) BY <1>1, MissingSpares
<1>4. local # None /\ db # None => Spared(result, local, server, db, up)
  BY <1>1, KnownSpares
<1>5. local # None /\ db = None /\ ServerModified(item) => Spared(result, local, server, db, up)
  <2>1. ServerModified(item) => server # None BY DEF Prepared, ServerModified
  <2>. QED  BY <1>1, <1>2, <2>1, ConflictSpares
<1>6. local # None /\ db = None /\ ~ServerModified(item) => Spared(result, local, server, db, up)
  <2>1. db = None /\ ~ServerModified(item) => server = None BY DEF Prepared, Downloadable
  <2>. QED  BY <1>1, <1>2, <2>1, UploadedItem DEF Spared, Spares
<1>7. Spared(result, local, server, db, up) BY <1>3, <1>4, <1>5, <1>6
<1>. QED  BY <1>7 DEF result

(* Permissions turn a change that goes up into an error or a download of    *)
(* what a conflict or a removed file leaves.                                *)
LEMMA PermissionsSpare ==
    ASSUME NEW item, NEW local, NEW server, NEW db, NEW up, NEW parent,
           Spared(item, local, server, db, up)
    PROVE  Spared(CheckPermissions(item, parent), local, server, db, up)
<1> DEFINE result == CheckPermissions(item, parent)
           conflict == Swapped(Restore(item, "CONFLICT"))
           kept == Restore(item, "NEW")
           failed == [item EXCEPT !.instruction = "ERROR"]
<1>1. \/ result = item
      \/ result = failed
      \/ result = conflict
      \/ item.direction = "Up" /\ item.instruction = "REMOVE" /\ result = kept
  BY DEF CheckPermissions
<1>2. AnItem(item) BY DEF Spared
<1>3. AnItem(failed) /\ failed.instruction = "ERROR" /\ failed.direction = item.direction
  BY <1>2 DEF AnItem
<1>4. AnItem(kept) /\ kept.instruction = "NEW" /\ kept.direction = "Down"
  BY <1>2, InstructedItem DEF AnItem, Restore
<1>5. AnItem(conflict) /\ conflict.instruction = "CONFLICT"
  <2> DEFINE restored == Restore(item, "CONFLICT")
  <2>1. AnItem(restored) /\ restored.instruction = "CONFLICT"
    BY <1>2, InstructedItem DEF AnItem, Restore
  <2> HIDE DEF restored
  <2>2. AnItem(Swapped(restored)) /\ Swapped(restored).instruction = "CONFLICT"
    BY <2>1 DEF AnItem, Swapped
  <2>. QED  BY <2>2 DEF restored
<1> HIDE DEF result, conflict, kept, failed
<1>6. result = failed => Spared(result, local, server, db, up)
  BY <1>3 DEF Spared, Spares
<1>7. result = conflict => Spared(result, local, server, db, up)
  BY <1>5 DEF Spared, Spares
<1>8. item.direction = "Up" /\ item.instruction = "REMOVE" /\ result = kept
        => Spared(result, local, server, db, up)
  BY <1>4 DEF Spared, Spares, LocalAsKnown
<1>9. Spared(result, local, server, db, up) BY <1>1, <1>6, <1>7, <1>8
<1>. QED  BY <1>9 DEF result

------------------------------------------------------------------------------
(* Whatever the folder, the server, the journal and the rows of an earlier   *)
(* upload say of a file, processFile replaces or removes no entry that is    *)
(* not the one the journal has.                                              *)
THEOREM ProcessFileSpares ==
    ASSUME NEW local, NEW server, NEW db, NEW up, NEW query, NEW parent,
           AFile(local), AFile(server), AFile(db), Listed(query, local)
    PROVE  NoVictim(local, server, db, up, ProcessFile(local, server, db, query, up, parent))
<1> DEFINE found == FromJournal(db)
           item == IF server # None THEN AnalyzeRemote(found, local, server, db, query) ELSE found
           choice == AnalyzeLocal(item, local, server, db, query, up)
           final == IF choice.dir /\ choice.instruction = "SYNC"
                    THEN [choice EXCEPT !.instruction = "UPDATE_METADATA"] ELSE choice
           result == ProcessFile(local, server, db, query, up, parent)
<1>1. Prepared(item, server, db)
  BY JournalMakesItem, RemoteItem DEF Prepared, Downloadable
<1> HIDE DEF item
<1>2. Spared(choice, local, server, db, up) BY <1>1, LocalSpares
<1> HIDE DEF choice
<1>3. Spared(final, local, server, db, up)
  BY <1>2 DEF Spared, Spares, AnItem
<1>4. result = CheckPermissions(final, parent)
  BY Zenon DEF ProcessFile, ProcessFileFinalize, item, choice
<1> HIDE DEF final, result
<1>5. Spared(result, local, server, db, up) BY <1>3, <1>4, PermissionsSpare
<1>6. NoVictim(local, server, db, up, result) BY <1>5, SparesNone DEF Spared
<1>. QED  BY <1>6 DEF result

------------------------------------------------------------------------------
(* What an item says comes from an entry: its stamp from one of the three,  *)
(* the etag of what is downloaded and the checksum of a conflict from the   *)
(* server; an update of the metadata is of one entry as a whole.  A         *)
(* conflict with a checksum has a direction only where rows of an upload    *)
(* were found.                                                              *)
Sourced(item, server, db, up, Stamps, Tags) ==
    /\ AnItem(item) /\ item.dir = FALSE
    /\ item.instruction \notin {"NONE", "STALE"} => item.stamp \in Stamps
    /\ item.instruction \in {"NEW", "SYNC", "CONFLICT"} /\ item.direction # "Up" =>
          item.etag \in Tags
    /\ item.instruction = "CONFLICT" /\ item.direction = "Down" /\ item.checksum # None =>
          up # None
    /\ item.instruction = "CONFLICT" /\ item.checksum # None => item.checksum = server.checksum
    /\ item.instruction = "UPDATE_METADATA" =>
          \/ db # None /\ item.stamp = db.stamp /\ item.etag = db.etag
          \/ server # None /\ item.stamp = server.stamp /\ item.etag = server.etag

(* What a restoration needs of the change that goes up. *)
Restorable(item, server, up, Stamps, Tags) ==
    /\ item.direction = "Up" /\ item.instruction \in {"SYNC", "REMOVE"} => item.etag \in Tags
    /\ item.direction = "Up" /\ item.instruction = "SYNC" =>
          /\ item.previous \in Stamps
          /\ item.checksum # None => up # None /\ item.checksum = server.checksum

(* What justifies a change, as long as no permission stands against it: who  *)
(* takes something has seen that the other side is newer, or is the one of  *)
(* the journal, or, by the rows of an upload, of this client.  Nothing is   *)
(* done only for a folder that is as the journal has it.                    *)
ChangedHere(local, db) == local # None /\ ~(db # None /\ local.stamp = db.stamp)

OurUpload(server, up) == server.checksum # None /\ up # None /\ up.checksum = server.checksum

Justified(item, local, server, db, query, up) ==
    /\ item.instruction # "TYPE_CHANGE"
    /\ item.instruction \in {"NEW", "SYNC", "CONFLICT"} /\ item.direction # "Up" =>
          /\ server # None /\ item.etag = server.etag
          /\ db # None => db.etag # server.etag
    /\ item.instruction \in {"NEW", "SYNC"} /\ item.direction # "Up" =>
          item.previous = IF db = None THEN None ELSE db.stamp
    /\ item.instruction = "CONFLICT" => item.checksum = server.checksum
    /\ item.instruction = "REMOVE" /\ item.direction = "Down" =>
          /\ server = None /\ db # None
          /\ query.local = "parentNotChanged" \/ (local # None /\ local.stamp = db.stamp)
    /\ item.instruction = "REMOVE" /\ item.direction = "Up" =>
          /\ server # None /\ db # None /\ server.etag = db.etag
          /\ local = None /\ query.local # "parentNotChanged"
          /\ item.previous = db.stamp
    /\ item.instruction = "NEW" /\ item.direction = "Up" =>
          server = None /\ ChangedHere(local, db) /\ item.checksum = None
    /\ item.instruction = "SYNC" /\ item.direction = "Up" =>
          /\ server # None /\ item.etag = server.etag /\ ChangedHere(local, db)
          /\ \/ db # None /\ server.etag = db.etag /\ item.checksum = None
             \/ OurUpload(server, up) /\ item.checksum = server.checksum
    /\ item.instruction = "UPDATE_METADATA" =>
          \/ db # None /\ item.stamp = db.stamp /\ item.etag = db.etag
          \/ /\ local # None /\ server # None
             /\ item.stamp = server.stamp /\ item.etag = server.etag
             /\ server.stamp = local.stamp \/ OurUpload(server, up)
    /\ item.instruction = "UPDATE_METADATA" /\ item.direction # "Up" /\ ChangedHere(local, db) =>
          server # None /\ server.stamp = local.stamp
    /\ item.instruction \in {"NONE", "STALE"} => ~ChangedHere(local, db)
    /\ item.instruction \in {"SYNC", "REMOVE"} /\ item.direction = "Up" => item.perm = server.perm

EntryOf(entry, Stamps) == entry = None \/ entry.stamp \in Stamps

(* The item the server's entry leaves. *)
Based(item, server, db, Stamps) ==
    /\ AnItem(item) /\ item.dir = FALSE
    /\ server # None => item.etag = server.etag /\ item.checksum = server.checksum
                        /\ item.perm = server.perm
    /\ server # None \/ db # None => item.stamp \in Stamps
    /\ db # None => item.previous \in Stamps
    /\ item.previous = IF db = None THEN None ELSE db.stamp
    /\ item.instruction \in {"NONE", "NEW", "SYNC", "UPDATE_METADATA"}
    /\ item.instruction # "NONE" => server # None /\ item.direction = "Down"
    /\ server # None /\ ~ServerModified(item) => db # None /\ db.etag = server.etag
    /\ ServerModified(item) =>
          item.stamp = server.stamp /\ (db # None => db.etag # server.etag)
    /\ item.instruction = "UPDATE_METADATA" => item.stamp = db.stamp /\ item.etag = db.etag

LEMMA InstructedKeeps ==
    ASSUME NEW item, AnItem(item), NEW instruction, NEW direction
    PROVE  LET made == Instruct(item, instruction, direction)
           IN  /\ AnItem(made)
               /\ made.instruction = instruction /\ made.direction = direction
               /\ made.stamp = item.stamp /\ made.previous = item.previous
               /\ made.etag = item.etag /\ made.checksum = item.checksum
               /\ made.dir = item.dir /\ made.perm = item.perm
BY DEF AnItem, Instruct

LEMMA UploadedKeeps ==
    ASSUME NEW item, AnItem(item), NEW local, NEW instruction
    PROVE  LET made == UploadItem(item, local, instruction)
           IN  /\ AnItem(made)
               /\ made.instruction = instruction /\ made.direction = "Up"
               /\ made.stamp = local.stamp /\ made.previous = item.previous
               /\ made.etag = item.etag /\ made.checksum = None
               /\ made.dir = local.dir /\ made.perm = item.perm
<1> DEFINE told == Instruct(item, instruction, "Up")
<1>1. /\ AnItem(told) /\ told.instruction = instruction /\ told.direction = "Up"
      /\ told.previous = item.previous /\ told.etag = item.etag /\ told.perm = item.perm
  BY InstructedKeeps
<1> HIDE DEF told
<1>2. UploadItem(item, local, instruction) =
        [told EXCEPT !.checksum = None, !.stamp = local.stamp, !.dir = local.dir]
  BY DEF UploadItem, told
<1>. QED  BY <1>1, <1>2 DEF AnItem

LEMMA RemoteBased ==
    ASSUME NEW Stamps, NEW local, NEW server, NEW db, NEW query,
           AFile(server), AFile(db), EntryOf(server, Stamps), EntryOf(db, Stamps)
    PROVE  Based(IF server # None THEN AnalyzeRemote(FromJournal(db), local, server, db, query)
                 ELSE FromJournal(db), server, db, Stamps)
<1> DEFINE found == FromJournal(db)
           base == [found EXCEPT !.checksum = server.checksum, !.perm = server.perm,
                                 !.dir = server.dir, !.etag = server.etag]
           item == AnalyzeRemote(found, local, server, db, query)
<1>1. /\ AnItem(found) /\ found.instruction = "NONE" /\ found.direction = None
      /\ found.dir = FALSE
      /\ db # None => found.stamp \in Stamps /\ found.previous \in Stamps /\ found.stamp = db.stamp
      /\ found.previous = IF db = None THEN None ELSE db.stamp
  BY DEF FromJournal, AnItem, EntryOf, AFile
<1>2. CASE server = None
  BY <1>1, <1>2 DEF Based, ServerModified
<1>3. CASE server # None
  <2> HIDE DEF found
  <2>1. /\ AnItem(base) /\ base.instruction = "NONE" /\ base.etag = server.etag
        /\ base.stamp = found.stamp /\ base.previous = found.previous
        /\ base.checksum = server.checksum /\ base.dir = FALSE /\ base.perm = server.perm
    BY <1>1, <1>3 DEF AnItem, AFile
  <2>2. /\ AnItem(Newer(base, server)) /\ Newer(base, server).etag = server.etag
        /\ Newer(base, server).previous = found.previous
        /\ Newer(base, server).stamp \in Stamps
        /\ Newer(base, server).stamp = server.stamp
        /\ Newer(base, server).checksum = server.checksum /\ Newer(base, server).dir = FALSE
        /\ Newer(base, server).perm = server.perm
    <3> HIDE DEF base
    <3>. QED  BY <1>3, <2>1 DEF AnItem, Newer, EntryOf
  <2>3. EtagDiffers(local, server, query) \in {"NEW", "SYNC"}
    BY <1>3 DEF EtagDiffers, AFile
  <2>4. db # None => server.dir = db.dir BY <1>3 DEF AFile
  <2>5. /\ db = None => item = Instruct(Newer(base, server), "NEW", "Down")
        /\ db # None /\ db.etag # server.etag =>
             item = Instruct(Newer(base, server), EtagDiffers(local, server, query), "Down")
        /\ db # None /\ db.etag = server.etag =>
             item \in {Instruct(base, "UPDATE_METADATA", "Down"), base}
    <3>1. item = (CASE db = None -> Instruct(Newer(base, server), "NEW", "Down")
          [] db # None /\ server.dir # db.dir ->
                Instruct(Newer(base, server), "TYPE_CHANGE", "Down")
          [] db # None /\ server.dir = db.dir /\ db.etag # server.etag ->
                Instruct(Newer(base, server), EtagDiffers(local, server, query), "Down")
          [] db # None /\ server.dir = db.dir /\ db.etag = server.etag /\ db.perm # server.perm ->
                Instruct(base, "UPDATE_METADATA", "Down")
          [] OTHER -> base)
      BY Zenon DEF AnalyzeRemote
    <3> HIDE DEF item, base
    <3>2. CASE db = None BY <3>1, <3>2
    <3>3. CASE db # None /\ db.etag # server.etag BY <3>1, <3>3, <2>4
    <3>4. CASE db # None /\ db.etag = server.etag BY <3>1, <3>4, <2>4
    <3>. QED  BY <3>2, <3>3, <3>4
  <2> HIDE DEF item, base
  <2>6. db = None => Based(item, server, db, Stamps)
    BY <1>1, <1>3, <2>2, <2>5, InstructedKeeps DEF Based, ServerModified
  <2>7. db # None /\ db.etag # server.etag => Based(item, server, db, Stamps)
    BY <1>1, <1>3, <2>2, <2>3, <2>5, InstructedKeeps DEF Based, ServerModified
  <2>8. db # None /\ db.etag = server.etag => Based(item, server, db, Stamps)
    BY <1>1, <1>3, <2>1, <2>5, InstructedKeeps DEF Based, ServerModified
  <2>9. Based(item, server, db, Stamps)
    BY <2>6, <2>7, <2>8
  <2>. QED  BY <1>3, <2>9 DEF item, found
<1>. QED  BY <1>2, <1>3

LEMMA ConflictSourced ==
    ASSUME NEW Stamps, NEW Tags, NEW item, NEW local, NEW server, NEW db, NEW up,
           Based(item, server, db, Stamps), local # None, server # None,
           AFile(local), AFile(server), EntryOf(local, Stamps), server.etag \in Tags,
           ServerModified(item), None # "Down", ChangedHere(local, db), NEW query
    PROVE  /\ Justified(ProcessFileConflict(item, local, server, up), local, server, db, query, up)
           /\ Sourced(ProcessFileConflict(item, local, server, up), server, db, up, Stamps, Tags)
           /\ Restorable(ProcessFileConflict(item, local, server, up), server, up, Stamps, Tags)
<1> DEFINE base == [item EXCEPT !.previous = local.stamp]
           result == ProcessFileConflict(item, local, server, up)
           ours == up # None /\ up.checksum = server.checksum
<1>1. /\ AnItem(base) /\ base.etag \in Tags /\ base.stamp \in Stamps
      /\ base.previous \in Stamps /\ base.dir = FALSE
      /\ base.stamp = server.stamp /\ base.etag = server.etag /\ base.checksum = server.checksum
      /\ base.perm = server.perm
      /\ db # None => db.etag # server.etag
  BY DEF AnItem, Based, EntryOf
<1>2. ~server.dir /\ ~local.dir BY DEF AFile
<1>3. \/ /\ result = Instruct(base, "UPDATE_METADATA", "Down")
         /\ server.stamp = local.stamp
      \/ result = Instruct(base, "CONFLICT", None)
      \/ ours /\ server.checksum # None
         /\ result \in {Instruct(base, "UPDATE_METADATA", "Up"), Instruct(base, "SYNC", "Up")}
  <2> HIDE DEF base
  <2>1. result = (CASE server.dir /\ local.dir -> [base EXCEPT !.instruction = "UPDATE_METADATA"]
          [] ~(server.dir /\ local.dir) /\ server.checksum = None ->
                IF server.stamp = local.stamp THEN Instruct(base, "UPDATE_METADATA", "Down")
                        ELSE Instruct(base, "CONFLICT", None)
          [] ~(server.dir /\ local.dir) /\ server.checksum # None
                /\ up # None /\ up.checksum = server.checksum ->
                Instruct(base, IF up.stamp = local.stamp THEN "UPDATE_METADATA" ELSE "SYNC", "Up")
          [] OTHER -> Instruct(base, "CONFLICT", None))
    BY Zenon DEF ProcessFileConflict, base
  <2> HIDE DEF result
  <2>2. server.checksum = None =>
          \/ server.stamp = local.stamp /\ result = Instruct(base, "UPDATE_METADATA", "Down")
          \/ result = Instruct(base, "CONFLICT", None)
    BY <2>1, <1>2
  <2>3. server.checksum # None /\ ours =>
          result \in {Instruct(base, "UPDATE_METADATA", "Up"), Instruct(base, "SYNC", "Up")}
    BY <2>1, <1>2
  <2>4. server.checksum # None /\ ~ours => result = Instruct(base, "CONFLICT", None)
    BY <2>1, <1>2
  <2>. QED  BY <2>2, <2>3, <2>4
<1> HIDE DEF base, result
<1>4. Sourced(result, server, db, up, Stamps, Tags) /\ Restorable(result, server, up, Stamps, Tags)
  BY <1>1, <1>3, InstructedKeeps DEF Sourced, Restorable
<1>5. Justified(result, local, server, db, query, up)
  BY <1>1, <1>3, InstructedKeeps DEF Justified, OurUpload
<1>. QED  BY <1>4, <1>5 DEF result

(* Both entries of a decision, and what the server's etag is drawn from. *)
Entries(local, server, db, Stamps, Tags) ==
    /\ AFile(local) /\ AFile(server) /\ AFile(db)
    /\ EntryOf(local, Stamps) /\ EntryOf(server, Stamps) /\ EntryOf(db, Stamps)
    /\ server # None => server.etag \in Tags
    /\ None # "Down"

LEMMA LocalSourced ==
    ASSUME NEW Stamps, NEW Tags, NEW item, NEW local, NEW server, NEW db, NEW up, NEW query,
           Entries(local, server, db, Stamps, Tags), Listed(query, local),
           Based(item, server, db, Stamps)
    PROVE  /\ Justified(AnalyzeLocal(item, local, server, db, query, up), local, server, db, query,
                        up)
           /\ Sourced(AnalyzeLocal(item, local, server, db, query, up), server, db, up, Stamps,
                      Tags)
           /\ Restorable(AnalyzeLocal(item, local, server, db, query, up), server, up, Stamps, Tags)
<1> DEFINE result == AnalyzeLocal(item, local, server, db, query, up)
           gone == server = None
           Fits(x) == /\ Justified(x, local, server, db, query, up)
                      /\ Sourced(x, server, db, up, Stamps, Tags)
                      /\ Restorable(x, server, up, Stamps, Tags)
<1>1. NoServerEntry(server, db, query) <=> gone
  BY DEF NoServerEntry, Listed
<1>2. /\ local = None => result = MissingLocally(item, server, db, query)
      /\ local # None /\ db # None => result = KnownLocally(item, local, server, db, query, up)
      /\ local # None /\ db = None /\ ServerModified(item) =>
            result = ProcessFileConflict(item, local, server, up)
      /\ local # None /\ db = None /\ ~ServerModified(item) =>
            result = UploadItem(item, local, "NEW")
  BY DEF AnalyzeLocal
<1> HIDE DEF result
<1>3. AnItem(item) /\ (ServerModified(item) => ~gone)
  BY DEF Based, ServerModified
<1>4. ~ChangedHere(local, db) => Fits(item)
  BY DEF Based, Entries, Sourced, Restorable, Justified, ServerModified
<1>5. ASSUME local = None PROVE Fits(result)
  <2> DEFINE trusted == query.local = "parentNotChanged" /\ db # None
  <2>1. \/ result = item
        \/ gone /\ trusted /\ result = Instruct(item, "REMOVE", "Down")
        \/ gone /\ result = Instruct(item, "STALE", None)
        \/ ~gone /\ ~trusted /\ ~ServerModified(item) /\ result = Instruct(item, "REMOVE", "Up")
    <3>1. result = (CASE trusted ->
              IF NoServerEntry(server, db, query) THEN Instruct(item, "REMOVE", "Down") ELSE item
        [] ~trusted /\ NoServerEntry(server, db, query) ->
              Instruct(item, "STALE", None)
        [] OTHER ->
              IF ServerModified(item) \/ (db # None /\ db.ignored) THEN item
              ELSE Instruct(item, "REMOVE", "Up"))
      BY <1>2, <1>5, Zenon DEF MissingLocally
    <3>2. trusted => db # None OBVIOUS
    <3> HIDE DEF trusted
    <3>3. CASE trusted BY <1>1, <3>1, <3>2, <3>3
    <3>4. CASE ~trusted BY <1>1, <3>1, <3>4
    <3>. QED  BY <3>3, <3>4
  <2>2. result = item => Fits(result) BY <1>4, <1>5 DEF ChangedHere
  <2>3. gone /\ trusted /\ result = Instruct(item, "REMOVE", "Down") => Fits(result)
    BY <1>3, InstructedKeeps DEF Based, Sourced, Restorable, Justified
  <2>4. result = Instruct(item, "STALE", None) => Fits(result)
    BY <1>3, <1>5, InstructedKeeps DEF Based, Sourced, Restorable, Justified, ChangedHere
  <2>5. ~gone /\ ~trusted /\ ~ServerModified(item) /\ result = Instruct(item, "REMOVE", "Up")
          => Fits(result)
    BY <1>3, <1>5, InstructedKeeps DEF Based, Entries, Sourced, Restorable, Justified
  <2> HIDE DEF Fits
  <2>. QED  BY <2>1, <2>2, <2>3, <2>4, <2>5
<1>6. ServerModified(item) /\ ChangedHere(local, db) =>
        Fits(ProcessFileConflict(item, local, server, up))
  BY <1>3, ConflictSourced DEF Entries, ChangedHere
<1>7. ASSUME local # None, db # None PROVE Fits(result)
  <2>1. local.dir = db.dir /\ local.dir = FALSE BY <1>7 DEF Entries, AFile
  <2> DEFINE unchanged == db.stamp = local.stamp
  <2>2. /\ unchanged => result = IF gone THEN Instruct(item, "REMOVE", "Down") ELSE item
        /\ ~unchanged /\ ServerModified(item) =>
             result = ProcessFileConflict(item, local, server, up)
        /\ ~unchanged /\ ~ServerModified(item) =>
             result = UploadItem(item, local, IF gone THEN "NEW" ELSE "SYNC")
    BY <1>1, <1>2, <1>7, <2>1 DEF KnownLocally
  <2>3. gone /\ unchanged /\ result = Instruct(item, "REMOVE", "Down") => Fits(result)
    BY <1>3, <1>7, InstructedKeeps DEF Based, Sourced, Restorable, Justified
  <2>4. ASSUME ~unchanged, ~ServerModified(item), NEW instruction \in {"NEW", "SYNC"},
               gone <=> instruction = "NEW", result = UploadItem(item, local, instruction)
        PROVE  Fits(result)
    <3>1. Sourced(result, server, db, up, Stamps, Tags)
      BY <1>3, <1>7, <2>1, <2>4, UploadedKeeps DEF Based, Entries, EntryOf, Sourced
    <3>2. Restorable(result, server, up, Stamps, Tags)
      BY <1>3, <1>7, <2>1, <2>4, UploadedKeeps DEF Based, Entries, EntryOf, Restorable
    <3>3. Justified(result, local, server, db, query, up)
      BY <1>3, <1>7, <2>1, <2>4, UploadedKeeps DEF Based, Justified, ChangedHere
    <3>. QED  BY <3>1, <3>2, <3>3
  <2>5. ~unchanged <=> ChangedHere(local, db) BY <1>7 DEF ChangedHere
  <2> HIDE DEF Fits
  <2>6. ~unchanged /\ ~ServerModified(item) => Fits(result)
    <3> HIDE DEF unchanged, gone
    <3>. QED  BY <2>2, <2>4
  <2>. QED  BY <1>4, <1>6, <2>2, <2>3, <2>5, <2>6
<1>8. ASSUME local # None, db = None, ~ServerModified(item), result = UploadItem(item, local, "NEW")
      PROVE Fits(result)
  <2>1. gone BY <1>8 DEF Based
  <2>2. /\ Sourced(result, server, db, up, Stamps, Tags)
        /\ Restorable(result, server, up, Stamps, Tags)
    BY <1>3, <1>8, UploadedKeeps DEF Entries, AFile, EntryOf, Sourced, Restorable
  <2>3. Justified(result, local, server, db, query, up)
    BY <1>3, <1>8, <2>1, UploadedKeeps DEF Justified, ChangedHere
  <2>. QED  BY <2>2, <2>3
<1>9. Fits(result)
  <2>1. db = None /\ local # None => ChangedHere(local, db) BY DEF ChangedHere
  <2> HIDE DEF Fits
  <2>. QED  BY <1>2, <1>5, <1>6, <1>7, <1>8, <2>1
<1>. QED  BY <1>9 DEF result

(* What a restoration keeps of the change that goes up. *)
LEMMA RestoredKeeps ==
    ASSUME NEW item, AnItem(item)
    PROVE  LET kept == Restore(item, "NEW")
               conflict == Swapped(Restore(item, "CONFLICT"))
           IN  /\ AnItem(kept) /\ kept.instruction = "NEW" /\ kept.direction = "Down"
               /\ kept.stamp = item.stamp /\ kept.previous = item.previous
               /\ kept.etag = item.etag /\ kept.dir = item.dir
               /\ AnItem(conflict) /\ conflict.instruction = "CONFLICT"
               /\ conflict.direction = "Down" /\ conflict.stamp = item.previous
               /\ conflict.etag = item.etag /\ conflict.checksum = item.checksum
               /\ conflict.dir = item.dir
<1> DEFINE restored == Restore(item, "CONFLICT")
<1>1. \A instruction :
        LET back == Restore(item, instruction)
        IN  /\ AnItem(back) /\ back.instruction = instruction /\ back.direction = "Down"
            /\ back.stamp = item.stamp /\ back.previous = item.previous
            /\ back.etag = item.etag /\ back.checksum = item.checksum /\ back.dir = item.dir
  <2>1. ASSUME NEW told, AnItem(told)
        PROVE  LET back == [told EXCEPT !.restoration = TRUE]
               IN  /\ AnItem(back) /\ back.instruction = told.instruction
                   /\ back.direction = told.direction
                   /\ back.stamp = told.stamp /\ back.previous = told.previous
                   /\ back.etag = told.etag /\ back.checksum = told.checksum
                   /\ back.dir = told.dir
    BY <2>1 DEF AnItem
  <2>. QED  BY <2>1, InstructedKeeps DEF Restore
<1>2. /\ AnItem(restored) /\ restored.instruction = "CONFLICT" /\ restored.direction = "Down"
      /\ restored.previous = item.previous /\ restored.etag = item.etag
      /\ restored.checksum = item.checksum /\ restored.dir = item.dir
  BY <1>1
<1> HIDE DEF restored
<1>3. LET conflict == Swapped(restored)
      IN  /\ AnItem(conflict) /\ conflict.instruction = "CONFLICT"
          /\ conflict.direction = "Down" /\ conflict.stamp = item.previous
          /\ conflict.etag = item.etag /\ conflict.checksum = item.checksum
          /\ conflict.dir = item.dir
  BY <1>2 DEF AnItem, Swapped
<1>. QED  BY <1>1, <1>3 DEF restored

LEMMA PermissionsSourced ==
    ASSUME NEW Stamps, NEW Tags, NEW item, NEW server, NEW db, NEW up, NEW parent,
           Sourced(item, server, db, up, Stamps, Tags), Restorable(item, server, up, Stamps, Tags)
    PROVE  Sourced(CheckPermissions(item, parent), server, db, up, Stamps, Tags)
<1> DEFINE result == CheckPermissions(item, parent)
           conflict == Swapped(Restore(item, "CONFLICT"))
           kept == Restore(item, "NEW")
           failed == [item EXCEPT !.instruction = "ERROR"]
<1>1. \/ result = item
      \/ item.direction = "Up" /\ item.instruction \in {"NEW", "TYPE_CHANGE"} /\ result = failed
      \/ item.direction = "Up" /\ item.instruction = "SYNC" /\ result = conflict
      \/ item.direction = "Up" /\ item.instruction = "REMOVE" /\ result = kept
  BY DEF CheckPermissions
<1>2. AnItem(item) BY DEF Sourced
<1>3. /\ AnItem(failed) /\ failed.instruction = "ERROR" /\ failed.stamp = item.stamp
      /\ failed.dir = item.dir
  BY <1>2 DEF AnItem
<1>5. /\ AnItem(conflict) /\ conflict.instruction = "CONFLICT" /\ conflict.stamp = item.previous
      /\ conflict.etag = item.etag /\ conflict.checksum = item.checksum
      /\ conflict.dir = item.dir
  BY <1>2, RestoredKeeps
<1>6. /\ AnItem(kept) /\ kept.instruction = "NEW" /\ kept.stamp = item.stamp
      /\ kept.etag = item.etag /\ kept.dir = item.dir
  BY <1>2, RestoredKeeps
<1> HIDE DEF result, conflict, kept, failed
<1>7. result = item => Sourced(result, server, db, up, Stamps, Tags) OBVIOUS
<1>8. item.direction = "Up" /\ item.instruction \in {"NEW", "TYPE_CHANGE"} /\ result = failed
        => Sourced(result, server, db, up, Stamps, Tags)
  BY <1>3 DEF Sourced
<1>9. item.direction = "Up" /\ item.instruction = "SYNC" /\ result = conflict
        => Sourced(result, server, db, up, Stamps, Tags)
  BY <1>5 DEF Sourced, Restorable
<1>10. item.direction = "Up" /\ item.instruction = "REMOVE" /\ result = kept
        => Sourced(result, server, db, up, Stamps, Tags)
  BY <1>6 DEF Sourced, Restorable
<1>11. Sourced(result, server, db, up, Stamps, Tags) BY <1>1, <1>7, <1>8, <1>9, <1>10
<1>. QED  BY <1>11 DEF result

LEMMA ProcessFileSources ==
    ASSUME NEW Stamps, NEW Tags, NEW local, NEW server, NEW db, NEW up, NEW query, NEW parent,
           Entries(local, server, db, Stamps, Tags), Listed(query, local)
    PROVE  Sourced(ProcessFile(local, server, db, query, up, parent), server, db, up, Stamps, Tags)
<1> DEFINE found == FromJournal(db)
           item == IF server # None THEN AnalyzeRemote(found, local, server, db, query) ELSE found
           choice == AnalyzeLocal(item, local, server, db, query, up)
           final == IF choice.dir /\ choice.instruction = "SYNC"
                    THEN [choice EXCEPT !.instruction = "UPDATE_METADATA"] ELSE choice
           result == ProcessFile(local, server, db, query, up, parent)
           Fits(x) == /\ Sourced(x, server, db, up, Stamps, Tags)
                      /\ Restorable(x, server, up, Stamps, Tags)
<1>1. Based(item, server, db, Stamps)
  BY RemoteBased DEF Entries
<1> HIDE DEF item
<1>2. Fits(choice) BY <1>1, LocalSourced
<1> HIDE DEF choice
<1>3. choice.dir = FALSE BY <1>2 DEF Sourced
<1>4. Fits(final)
  <2> HIDE DEF Fits
  <2>. QED  BY <1>2, <1>3
<1>5. result = CheckPermissions(final, parent)
  BY Zenon DEF ProcessFile, ProcessFileFinalize, item, choice
<1> HIDE DEF final, result
<1>6. Sourced(result, server, db, up, Stamps, Tags) BY <1>4, <1>5, PermissionsSourced
<1>. QED  BY <1>6 DEF result

(* A change that goes up although no permission stands against it is        *)
(* justified; one that a permission refuses is undone, by the server's file. *)
Permitted(item, server) ==
    item.direction = "Up" =>
        /\ item.instruction = "SYNC" => ~Lacks(server.perm, "W")
        /\ item.instruction = "REMOVE" => ~Lacks(server.perm, "D")

Restored(item, server, db) ==
    /\ item.direction = "Down" /\ server # None
    /\ \/ item.instruction = "CONFLICT" /\ Lacks(server.perm, "W")
            /\ item.checksum \in {None, server.checksum}
       \/ item.instruction = "NEW" /\ Lacks(server.perm, "D")
            /\ db # None /\ item.previous = db.stamp

LEMMA PermissionsJustified ==
    ASSUME NEW item, AnItem(item), NEW local, NEW server, NEW db, NEW query, NEW up, NEW parent,
           Justified(item, local, server, db, query, up),
           NEW result, result = CheckPermissions(item, parent)
    PROVE  \/ Justified(result, local, server, db, query, up) /\ Permitted(result, server)
           \/ Restored(result, server, db)
<1> DEFINE conflict == Swapped(Restore(item, "CONFLICT"))
           kept == Restore(item, "NEW")
           failed == [item EXCEPT !.instruction = "ERROR"]
           upward == item.direction = "Up"
<1>1. \/ result = item /\ (upward /\ item.instruction = "SYNC" => ~Lacks(item.perm, "W"))
                      /\ (upward /\ item.instruction = "REMOVE" => ~Lacks(item.perm, "D"))
      \/ result = failed
      \/ upward /\ item.instruction = "SYNC" /\ Lacks(item.perm, "W") /\ result = conflict
      \/ upward /\ item.instruction = "REMOVE" /\ Lacks(item.perm, "D") /\ result = kept
  BY DEF CheckPermissions
<1>2. failed.instruction = "ERROR" BY DEF AnItem
<1>3. /\ conflict.instruction = "CONFLICT" /\ conflict.direction = "Down"
      /\ conflict.checksum = item.checksum
      /\ kept.instruction = "NEW" /\ kept.direction = "Down" /\ kept.previous = item.previous
  BY RestoredKeeps
<1> HIDE DEF conflict, kept, failed
<1>4. /\ upward /\ item.instruction \in {"SYNC", "REMOVE"} => server # None /\ item.perm = server.perm
      /\ upward /\ item.instruction = "SYNC" => item.checksum \in {None, server.checksum}
      /\ upward /\ item.instruction = "REMOVE" => db # None /\ item.previous = db.stamp
  BY DEF Justified
<1>5. result = failed => Justified(result, local, server, db, query, up) /\ Permitted(result, server)
  BY <1>2 DEF Justified, Permitted
<1>. QED  BY <1>1, <1>3, <1>4, <1>5 DEF Permitted, Restored

LEMMA ProcessFileJustified ==
    ASSUME NEW Stamps, NEW Tags, NEW local, NEW server, NEW db, NEW up, NEW query, NEW parent,
           Entries(local, server, db, Stamps, Tags), Listed(query, local),
           NEW result, result = ProcessFile(local, server, db, query, up, parent)
    PROVE  \/ Justified(result, local, server, db, query, up) /\ Permitted(result, server)
           \/ Restored(result, server, db)
<1> DEFINE found == FromJournal(db)
           item == IF server # None THEN AnalyzeRemote(found, local, server, db, query) ELSE found
           choice == AnalyzeLocal(item, local, server, db, query, up)
           final == IF choice.dir /\ choice.instruction = "SYNC"
                    THEN [choice EXCEPT !.instruction = "UPDATE_METADATA"] ELSE choice
<1>1. Based(item, server, db, Stamps)
  BY RemoteBased DEF Entries
<1> HIDE DEF item
<1>2. /\ Justified(choice, local, server, db, query, up)
      /\ Sourced(choice, server, db, up, Stamps, Tags)
  BY <1>1, LocalSourced
<1>3. AnItem(choice) /\ choice.dir = FALSE
  BY <1>2 DEF Sourced
<1> HIDE DEF choice
<1>4. final = choice BY <1>3
<1>5. result = CheckPermissions(final, parent)
  BY Zenon DEF ProcessFile, ProcessFileFinalize, item, choice
<1>. QED  BY <1>2, <1>3, <1>4, <1>5, PermissionsJustified
=============================================================================
