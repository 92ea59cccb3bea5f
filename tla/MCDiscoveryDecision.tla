----------------------- MODULE MCDiscoveryDecision --------------------------
(* Paths of up to four characters of three kinds: one before the separator,  *)
(* the separator and one after it.                                           *)
EXTENDS DiscoveryDecision

AllChars == 1 .. 3
=============================================================================
