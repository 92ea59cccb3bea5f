-------------------------- MODULE MCSyncScheduler --------------------------
(***************************************************************************)
(* Instances of SyncScheduler: two folders of one account.                 *)
(***************************************************************************)
EXTENDS SyncScheduler, TLC

CONSTANTS a, b, home

OneAccount == [f \in Folders |-> home]

AnyFolder == Permutations(Folders)

(* All folders compete for the scheduler.                                  *)
Competing ==
    {[folders |-> Folders, requests |-> {Low, High}, limit |-> 0,
      operations |-> {"force", "systray", "account", "fail"}]}

(* One folder, and everything its user and its server do with it.          *)
Managed ==
    {[folders |-> {f}, requests |-> {Low, High}, limit |-> 1,
      operations |-> {"pause", "spurious", "vfs", "remove", "metered",
                      "unsupported", "fail"}] : f \in Folders}

(* One folder whose syncs are terminated in every way, and that stays.     *)
Terminated ==
    {[folders |-> {f}, requests |-> {Low}, limit |-> 1,
      operations |-> {"pause", "vfs", "force", "systray", "account", "metered",
                      "spurious", "fail"}] : f \in Folders}

AnyScenario == Competing \cup Managed \cup Terminated

(* Files change, and the account comes and goes.                           *)
Unattended ==
    {[folders |-> Folders, operations |-> {"account"}, requests |-> {}, limit |-> 0]}

(* The user pauses and resumes folders.                                    *)
PausesFolders ==
    {[folders |-> Folders, operations |-> {"pause"}, requests |-> {Low}, limit |-> 0]}
=============================================================================
