------------------------------ MODULE MCRounds ------------------------------
(* Rounds on a few pollers and hosts; the cfg gives the constants.          *)
EXTENDS Rounds
=============================================================================
