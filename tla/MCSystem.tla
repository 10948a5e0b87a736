------------------------------ MODULE MCSystem ------------------------------
(***************************************************************************)
(* System on a few threads, hosts and inserts; the cfg gives the constants. *)
(* The database threads print the queries (option -d): what they do on a   *)
(* connection does not concern the other threads.                          *)
(***************************************************************************)
EXTENDS System, TLC

PrintingInit == Init /\ ~use_db
PrintingSpec == PrintingInit /\ [][Next]_vars

\* Inserts are alike, and so are pollers.
Symmetry == Permutations(Inserts) \cup Permutations(Pollers)
=============================================================================
