-------------------------------- MODULE System --------------------------------
(***************************************************************************)
(* The threads of module Rounds and those of module Pipeline together, as  *)
(* run_threads (src/main.c) starts them, joins them and starts them again  *)
(* after a SIGHUP.  The poller that polls a host in Rounds is the one that *)
(* queues its inserts in Pipeline; both read one thread_stop_requested;    *)
(* and the report of the monitor is about the inserts the pollers queued.  *)
(*                                                                         *)
(* The configuration and the targets are read between two lives of the     *)
(* threads (module Lifecycle); here the targets stay the same.  What a     *)
(* restart of the database server does is left to module Pipeline.         *)
(***************************************************************************)
EXTENDS Naturals, Sequences, FiniteSets

CONSTANTS Pollers, Writers, Inserts, NoInsert,    \* as in Pipeline
          Size, MaxBatch, CommitInterval,
          NHosts, NoHost, MaxSignals, StatisticsCap,   \* as in Rounds
          PromptScheduling, SpuriousWakeups

ASSUME ThreadsAssumption == /\ IsFiniteSet(Pollers) /\ Pollers # {}
                            /\ Pollers \cap Writers = {}
ASSUME InsertsAssumption == IsFiniteSet(Inserts) /\ NoInsert \notin Inserts
ASSUME HostsAssumption == NHosts \in Nat \ {0} /\ NoHost \notin Nat
ASSUME SizesAssumption == /\ Size \in Nat \ {0} /\ MaxBatch \in Nat
                          /\ CommitInterval \in Nat \ {0}
                          /\ MaxSignals \in Nat /\ StatisticsCap \in Nat
ASSUME EnvironmentAssumption == PromptScheduling \in BOOLEAN /\ SpuriousWakeups \in BOOLEAN

VARIABLES
  thread_stop_requested,
  active_threads, next_host, statistics, pc, fresh, index, monitor, iterating, due,
  handler, signals, handed,                       \* of Rounds
  use_db, queries, insert_rows, insert_queries, dropped_queries, ppc, batch, current,
  local, wpc, insert, query_counter, conn, autocommit, pending, up, restarts, database,
  unborn, freed, blank, dropped,                  \* of Pipeline
  main,        \* where the main thread is in run_threads
  reported,    \* history: inserts that the monitor has reported as queued
  discarded,   \* history: inserts that were counted but never reported
  leaked,      \* history: inserts still queued when the queue was freed
  begun        \* history: a round has begun in the present interval

R == INSTANCE Rounds
P == INSTANCE Pipeline WITH QueryErrors <- FALSE, MaxRestarts <- 0

\* Each without thread_stop_requested.
roundVars == <<active_threads, next_host, statistics, pc, fresh, index, monitor, iterating, due,
               handler, signals, handed>>
pipeVars == <<use_db, queries, insert_rows, insert_queries, dropped_queries, ppc, batch, current,
              local, wpc, insert, query_counter, conn, autocommit, pending, up, restarts,
              database, unborn, freed, blank, dropped>>
mainVars == <<main, reported, discarded, leaked, begun>>
vars == <<thread_stop_requested, roundVars, pipeVars, mainVars>>

\* The first life of the threads has been started.
Init == /\ R!Init /\ P!Init
        /\ main = "join_database"
        /\ reported = 0 /\ discarded = 0
        /\ leaked = {}
        /\ begun = FALSE

-----------------------------------------------------------------------------
\* Mutated forms of the definitions below, each a plausible slip in the code.
FirstActive_Kept == active_threads
NextDue_NotSaved == TRUE
PollersEnded_NotJoined == TRUE

-----------------------------------------------------------------------------
(* The pollers.                                                            *)

\* Every step of poller_run but process_host.
PollerStep(p) == /\ (R!poller_run(p) /\ ~R!Polling(p)) \/ R!SpuriousWakeup(p)
                 /\ UNCHANGED <<pipeVars, mainVars>>

\* process_host: get_clinserts returns no insert, ...
NothingToQueue(p) == /\ R!Polling(p) /\ ppc[p] = "idle"
                     /\ R!process_host(p)
                     /\ UNCHANGED <<pipeVars, mainVars>>

\* ... or some, ...
HostPolled(p) == /\ R!Polling(p)
                 /\ P!get_clinserts(p)
                 /\ UNCHANGED <<roundVars, mainVars>>

\* ... which process_queries pushes one after the other ...
QueueStep(p) == /\ P!OfferInsert(p) \/ P!PushInsert(p) \/ P!CountQueued(p) \/ P!DropInsert(p)
                /\ UNCHANGED <<roundVars, mainVars>>

\* ... before the poller asks for its next host.
HostQueued(p) == /\ P!AddStatistics(p)
                 /\ R!process_host(p)
                 /\ UNCHANGED mainVars

process_host(p) == NothingToQueue(p) \/ HostPolled(p) \/ QueueStep(p) \/ HostQueued(p)

-----------------------------------------------------------------------------
(* The monitor, the database threads and the signals.                      *)

\* The steps of the monitor that are not about a round's start or its report.
MonitorStep == /\ \/ R!NapEnds \/ R!MonitorLoop \/ R!MonitorLook \/ R!RoundNotOver
                  \/ R!TimedWaitEnds
               /\ UNCHANGED <<pipeVars, mainVars>>

StartIteration == /\ R!start_iteration
                  /\ begun' = TRUE
                  /\ UNCHANGED <<pipeVars, main, reported, discarded, leaked>>

\* end_iteration logs the number of inserts queued ...
Report == /\ R!end_iteration
          /\ reported' = reported + insert_queries
          /\ UNCHANGED <<pipeVars, main, discarded, leaked, begun>>

\* ... and resets it.
ResetStatistics == /\ R!ResetStatistics
                   /\ insert_rows' = 0 /\ insert_queries' = 0 /\ dropped_queries' = 0
                   /\ UNCHANGED <<mainVars, use_db, queries, ppc, batch, current, local, wpc,
                                  insert, query_counter, conn, autocommit, pending, up, restarts,
                                  database, unborn, freed, blank, dropped>>

monitor_run == MonitorStep \/ StartIteration \/ Report \/ ResetStatistics

database_run(w) == P!database_run(w) /\ UNCHANGED <<roundVars, mainVars>>

\* The clock reaches the next interval.
IntervalEnds == /\ R!TimePasses
                /\ begun' = FALSE
                /\ UNCHANGED <<pipeVars, main, reported, discarded, leaked>>

\* A SIGHUP arrives, also while no thread runs.
SignalStep == (R!SignalArrives \/ R!HandlerBroadcasts) /\ UNCHANGED <<pipeVars, mainVars>>

-----------------------------------------------------------------------------
(* The main thread.                                                        *)

PollersEnded == \A p \in Pollers : R!Ended(p)

\* mt_threads_join, for one group of threads after the other.
mt_threads_join ==
  /\ \/ /\ main = "join_database" /\ \A w \in Writers : wpc[w] = "done"
        /\ main' = "join_pollers"
     \/ main = "join_pollers" /\ PollersEnded /\ main' = "join_monitor"
     \/ main = "join_monitor" /\ monitor = "done" /\ main' = "free"
  /\ UNCHANGED <<thread_stop_requested, roundVars, pipeVars, reported, discarded, leaked, begun>>

\* A handler runs on a thread that main has joined, or on main itself, which
\* waits for it.
NoHandler == handler = 0

\* clbuf_free frees the queue, but not the inserts in it.
clbuf_free ==
  /\ main = "free"
  /\ NoHandler
  /\ leaked' = leaked \cup P!Queued
  /\ queries' = <<>>
  /\ main' = "restart"
  /\ UNCHANGED <<thread_stop_requested, roundVars, use_db, insert_rows, insert_queries,
                 dropped_queries, ppc, batch, current, local, wpc, insert, query_counter, conn,
                 autocommit, pending, up, restarts, database, unborn, freed, blank, dropped,
                 reported, discarded, begun>>

\* What run_threads stores in active_threads, and whether the next_iteration it
\* saved from the monitor of the life before has come.
FirstActive == 0
NextDue == due

\* run_threads of the next life, up to the first join: of the statistics it
\* resets the rows, the inserts and the iterations only.
StartThreads ==
  /\ main = "restart"
  /\ NoHandler
  /\ thread_stop_requested' = FALSE
  /\ active_threads' = FirstActive
  /\ next_host' = 0
  /\ pc' = [p \in Pollers |-> "top"]
  /\ fresh' = [p \in Pollers |-> TRUE]
  /\ index' = [p \in Pollers |-> NoHost]
  /\ monitor' = "first_nap"
  /\ iterating' = FALSE
  /\ due' = NextDue
  /\ handed' = {}
  /\ insert_rows' = 0 /\ insert_queries' = 0
  /\ discarded' = discarded + insert_queries
  /\ ppc' = [p \in Pollers |-> "idle"]
  /\ wpc' = [w \in Writers |-> "top"]
  /\ query_counter' = [w \in Writers |-> 0]
  /\ autocommit' = [w \in Writers |-> TRUE]
  /\ main' = "join_database"
  /\ UNCHANGED <<statistics, handler, signals, use_db, queries, dropped_queries, batch, current,
                 local, insert, conn, pending, up, restarts, database, unborn, freed, blank,
                 dropped, reported, leaked, begun>>

run_threads == mt_threads_join \/ clbuf_free \/ StartThreads

Next == \/ \E p \in Pollers : PollerStep(p) \/ process_host(p)
        \/ \E w \in Writers : database_run(w)
        \/ monitor_run \/ run_threads
        \/ IntervalEnds \/ SignalStep

Spec == Init /\ [][Next]_vars

-----------------------------------------------------------------------------
(* Properties.                                                             *)

\* Inserts that were pushed onto the queue in any life.
Pushed == P!Pushed \cup leaked

\* For each poller and insert that it has pushed, but not added to the statistics
\* yet, one pair.
Uncounted == {pk \in Pollers \X (1 .. Cardinality(Inserts)) : pk[2] <= P!Uncounted(pk[1])}

\* Every insert that is queued is reported in one round's report, unless a stop
\* request cuts its round short: the pollers add to the statistics under
\* global_lock, the monitor reads and resets them without, and only the count
\* of active threads keeps the two apart (poller.c:133-138, monitor.c:98-113).
EveryQueryReported ==
  monitor # "reset" =>
    reported + discarded + insert_queries + Cardinality(Uncounted) = Cardinality(Pushed)

\* When the queue is freed no thread holds an insert or will ever touch the
\* queue again, and no transaction is open; inserts that are still in it, pushed
\* after the database threads had ended, are lost (main.c:244-255).
NothingHeld ==
  main \in {"free", "restart"} =>
    /\ Inserts \ (unborn \cup freed \cup leaked) = P!Queued
    /\ \A p \in Pollers : R!Ended(p)
    /\ \A w \in Writers : wpc[w] = "done" /\ pending[w] = {}

\* In every life active_threads is the number of pollers between thread_active
\* and thread_inactive, though those that a stop request ends in a round never
\* take themselves back (poller.c:38): else the monitor of the next life would
\* wait for ever for pollers that are gone (main.c:233, monitor.c:44).
ActiveInEveryLife == R!ActiveCount

\* A reload does not start a second round in an interval: "Save next iteration
\* value, so we can reuse it if necessary" (monitor.c:62, main.c:248).
OneRoundPerInterval == [][StartIteration => ~begun]_vars
=============================================================================
