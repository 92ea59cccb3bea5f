---------------------------- MODULE FileHistory ----------------------------
(* FileSync with a memory of all the versions the client has ever found,   *)
(* which, unlike unseen, forgets nothing when the tracker does.            *)
(***************************************************************************)
EXTENDS MCFileSync

VARIABLE found          \* the versions the client has found

HistoryInit == Init /\ found = {}

HistoryNext == Next /\ found' = found \union (unseen \ unseen')

HistorySpec == HistoryInit /\ [][HistoryNext]_<<vars, found>>

(* An upload that is put off, because its file is young or changes, is not *)
(* forgotten: "It will be resumed" is what the client says of it, and the  *)
(* tracker "For failures, we want to add the file to the list so the next  *)
(* sync will be able to retry it" (slotItemCompleted).  So no version the  *)
(* client has found is lost while somebody counts on it.                   *)
FoundIsKept == ~scenario.windows => found \intersect owed \subseteq Replica!Held
=============================================================================
