---------------------------- MODULE MCInsertQuery ----------------------------
(***************************************************************************)
(* Up to three values: one that did not grow, one that grew by less than   *)
(* one in a second, and one with a rate and a value wider than a word.     *)
(***************************************************************************)
EXTENDS InsertQuery

MCValues == {[id |-> 1, counter |-> 0, rate |-> 0, dtime |-> 100, currvalue |-> 5],
             [id |-> 2, counter |-> 5, rate |-> 0, dtime |-> 100, currvalue |-> 12],
             [id |-> 3, counter |-> 24, rate |-> 12, dtime |-> 100, currvalue |-> 100]}
MCDigits == [n \in 0..(Wide - 1) |-> IF n < 10 THEN 1 ELSE IF n < 100 THEN 2 ELSE 3]
=============================================================================
