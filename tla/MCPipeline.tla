----------------------------- MODULE MCPipeline -----------------------------
(* Pipeline on a few threads and inserts; the cfg gives the constants.      *)
EXTENDS Pipeline, TLC

\* Inserts are alike, and so are the threads of one kind.
ThreadSymmetry == Permutations(Inserts) \cup Permutations(Pollers) \cup Permutations(Writers)
=============================================================================
