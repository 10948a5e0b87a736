-------------------------------- MODULE Growth --------------------------------
(***************************************************************************)
(* The arrays of the program grow by half of their size when they are full *)
(* and something is to be appended: the hosts and rows of targets.cfg      *)
(* (src/rtgtargets.c) and the values of an insert (src/clinsert.c).        *)
(***************************************************************************)
EXTENDS Naturals

\* A mutated form of the definition below, a plausible slip in the code.
Grown_Quarter(space) == (space * 5) \div 4

\* allocated_space * 1.5, converted back to an unsigned.
Grown(space) == (space * 3) \div 2

\* The allocated space when an element is appended to the n there are.
Room(n, space) == IF n = space THEN Grown(space) ELSE space
=============================================================================
