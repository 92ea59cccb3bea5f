---------------------------- MODULE MCPropagator ----------------------------
(***************************************************************************)
(* Two trees for Propagator.                                               *)
(*                                                                         *)
(*  Mixed:  /            Deletions                                         *)
(*          |- kept (no job) |- gone (remove)                              *)
(*          |    |- noop (a task without a job)                            *)
(*          |    |- new (mkdir)                                            *)
(*          |         |- up (upload)                                       *)
(*          |- moved (rename, WaitForFinished)                             *)
(*          |    |- down (download; its conflict copy is uploaded)         *)
(*          |- clash (an empty directory that replaces a file)             *)
(*                                                                         *)
(*  Wide:   /                                                              *)
(*          |- meta (metadata only)                                        *)
(*               |- one, two, three, four (transfers)                      *)
(***************************************************************************)
EXTENDS Propagator, TLC

CONSTANTS root, deletions, new, moved, kept, gone, up, down, copy, noop,
          meta, one, two, three, four, clash

MixedDirs  == {root, new, moved, kept, gone, clash}
MixedItems == {up, down, copy, noop}
MixedParent ==
    new :> kept @@ moved :> root @@ kept :> root @@ gone :> deletions @@
    up :> new @@ down :> moved @@ copy :> moved @@ noop :> kept @@
    clash :> root
MixedKind ==
    root :> "none" @@ new :> "new" @@ moved :> "rename" @@
    kept :> "metadata" @@ gone :> "remove" @@ clash :> "other"
MixedSpawns == down :> copy

WideDirs  == {root, meta}
WideItems == {one, two, three, four}
WideParent == meta :> root @@ [n \in WideItems |-> meta]
WideKind  == root :> "none" @@ meta :> "metadata"
NoSpawns  == [n \in {} |-> root]
=============================================================================
