------------------------------ MODULE HostRounds ------------------------------
(***************************************************************************)
(* What polling in rounds promises.  A round gives every host to exactly   *)
(* one poller; nobody still polls a host of the last round when a round    *)
(* starts; and a round is reported as over only when every host has been   *)
(* given out and finished with.  Once the threads have been asked to stop, *)
(* a round may be cut short, but still nobody polls while it ends.         *)
(*                                                                         *)
(* The monitor and the poller threads of module Rounds implement this.     *)
(***************************************************************************)
EXTENDS Naturals

CONSTANTS Pollers,  \* the poller threads
          Hosts,    \* the hosts of targets.cfg
          NoHost    \* what a poller holds when it polls nothing

VARIABLES todo,      \* hosts not given out since the round started
          holds,     \* the host each poller is polling
          running,   \* a round has started and not been reported as over
          stopping   \* the threads have been asked to stop

vars == <<todo, holds, running, stopping>>

Init == /\ todo = Hosts
        /\ holds = [p \in Pollers |-> NoHost]
        /\ running = FALSE
        /\ stopping = FALSE

NobodyPolls == \A p \in Pollers : holds[p] = NoHost
GivenOut == todo = {} \/ stopping

StartRound == /\ NobodyPolls
              /\ running => GivenOut
              /\ todo' = Hosts
              /\ running' = TRUE
              /\ UNCHANGED <<holds, stopping>>

Take(p) == /\ running
           /\ holds[p] = NoHost
           /\ \E h \in todo : /\ holds' = [holds EXCEPT ![p] = h]
                              /\ todo' = todo \ {h}
           /\ UNCHANGED <<running, stopping>>

Finish(p) == /\ holds[p] # NoHost
             /\ holds' = [holds EXCEPT ![p] = NoHost]
             /\ UNCHANGED <<todo, running, stopping>>

EndRound == /\ running
            /\ NobodyPolls
            /\ GivenOut
            /\ running' = FALSE
            /\ UNCHANGED <<todo, holds, stopping>>

RequestStop == /\ stopping' = TRUE
               /\ UNCHANGED <<todo, holds, running>>

Next == \/ StartRound \/ EndRound \/ RequestStop
        \/ \E p \in Pollers : Take(p) \/ Finish(p)

Spec == Init /\ [][Next]_vars
=============================================================================
