---------------------------- MODULE MCConnection ----------------------------
(* TLC instances of Connection. *)
EXTENDS Connection

CONSTANTS settings, app, account, state

(* What goes wrong with the token, what the user does about it, and what the *)
(* network and the keychain do: together all events that break nothing for   *)
(* good, and that no fairness is needed for.                                 *)
AnythingHappens ==
    {{"expired", "hard", "refused", "redirect"},
     {"expired", "signout", "tls"},
     {"portal", "metered", "offline", "keychain"}}

NetworkHeals == {{"expired", "redirect", "heal"}}
=============================================================================
