------------------------------ MODULE Replicas ------------------------------
(* What the synchronization of one file promises: two replicas that users  *)
(* change, and a client that moves versions between them, makes up none    *)
(* and loses none that a user still counts on, but those it has not found  *)
(* or has forgotten, and it forgets only the file that is in the folder.   *)
(***************************************************************************)
CONSTANTS Nothing,      \* the content of a replica without a file
          Versions

VARIABLES here,         \* the content of the local file
          there,        \* the content of the file on the server
          copies,       \* the contents of the conflict copies
          written,      \* the versions there were
          owed,         \* those no user has replaced or removed since
          unseen        \* those the client has not found, or has forgotten

vars == <<here, there, copies, written, owed, unseen>>

Held == ({here, there} \ {Nothing}) \union copies

Init ==
    /\ here \in Versions \union {Nothing}
    /\ there = here
    /\ copies = {} /\ unseen = {}
    /\ written = Held /\ owed = Held

(* A user changes one replica: the version that was there may be given up, *)
(* the one that is there now is new, or the one that was kept.             *)
UserStep ==
    /\ copies' = copies
    /\ \/ there' = there /\ owed \ owed' \subseteq {here}
       \/ here' = here /\ owed \ owed' \subseteq {there}
    /\ written \subseteq written' /\ written' \subseteq Versions
    /\ Held' \ Held \subseteq written' \ written
    /\ owed' \ owed = Held' \ Held
    /\ owed' \intersect (Held \ Held') = {}
    /\ unseen' = unseen \union (Held' \ Held)

(* A step of the client, or of whatever stops it.  It finds versions, or    *)
(* forgets the one that stays in the folder.                                *)
ClientStep ==
    /\ Held' \subseteq written
    /\ copies \subseteq copies'
    /\ owed \intersect (Held \ Held') \subseteq unseen
    /\ UNCHANGED <<written, owed>>
    /\ unseen' \subseteq unseen \/ (unseen' = unseen \union {here} /\ here' = here)

Next == UserStep \/ ClientStep

Spec == Init /\ [][Next]_vars
=============================================================================
