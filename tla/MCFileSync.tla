----------------------------- MODULE MCFileSync -----------------------------
(* What the servers offer and the world does in the runs of FileSync.      *)
EXTENDS FileSync

Everything == {"crash", "network", "file", "abort"}

(* A file that is on both sides, the user may do everything, the server     *)
(* sends checksums and takes whole files.                                   *)
Usual == [synced |-> TRUE, perm |-> {"W", "D"}, parent |-> None, checksums |-> TRUE,
          tus |-> FALSE, windows |-> FALSE, calms |-> FALSE, writes |-> 2,
          faults |-> Everything]

Resumable == [Usual EXCEPT !.tus = TRUE]

(* Two writes more, and one kind of fault. *)
Busy(scene, fault) == [scene EXCEPT !.writes = 3, !.faults = {fault}]

SafetyScenes ==
    {Usual, Resumable,
     [Usual EXCEPT !.perm = {}],
     [Usual EXCEPT !.parent = {}, !.faults = {"crash"}],
     [Usual EXCEPT !.synced = FALSE, !.faults = {"crash", "network"}],
     [Resumable EXCEPT !.synced = FALSE, !.faults = {"network"}],
     Busy(Resumable, "crash"), Busy(Usual, "network"), Busy(Usual, "file"),
     Busy([Usual EXCEPT !.checksums = FALSE], "network"),
     [Resumable EXCEPT !.windows = TRUE, !.writes = 3, !.faults = {}]}

Calming(scene, fault) == [scene EXCEPT !.calms = TRUE, !.faults = {fault}]

LiveScenes ==
    {Calming(Usual, fault) : fault \in {"crash", "network", "file"}}
      \union {Calming([Resumable EXCEPT !.synced = FALSE, !.writes = 1], fault) :
                fault \in {"crash", "network"}}

(* A file that is locked, or young, for a while. *)
LockedScenes == {[Usual EXCEPT !.faults = {"file"}]}
=============================================================================
