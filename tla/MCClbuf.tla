------------------------------- MODULE MCClbuf -------------------------------
(* Clbuf on small rings; the cfg gives the capacity and the pointers.       *)
EXTENDS Clbuf
==============================================================================
