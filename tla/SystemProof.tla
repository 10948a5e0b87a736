---------------------------- MODULE SystemProof ----------------------------
(***************************************************************************)
(* Proofs about the threads over several lives, for every number of        *)
(* threads, hosts and inserts.                                             *)
(*                                                                         *)
(* A step of System is a step of Rounds, of Pipeline or of both, or one of *)
(* the main thread between two lives.  So the lemmas of RoundsProof and of *)
(* PipelineProof say what the first ones keep.  An insert that is lost     *)
(* with its queue counts as freed: with that, an insert still has one      *)
(* owner when the queue is freed under it.                                 *)
(***************************************************************************)
EXTENDS System, FiniteSetTheorems, TLAPS

RP == INSTANCE RoundsProof
PP == INSTANCE PipelineProof
        WITH QueryErrors <- FALSE, MaxRestarts <- 0, freed <- freed \cup leaked

-----------------------------------------------------------------------------
(* The instances.                                                          *)

\* Their assumptions hold.
LEMMA SameSets ==
  \A S : /\ RP!Cardinality(S) = Cardinality(S) /\ RP!IsFiniteSet(S) = IsFiniteSet(S)
         /\ PP!Cardinality(S) = Cardinality(S) /\ PP!IsFiniteSet(S) = IsFiniteSet(S)
         /\ R!Cardinality(S) = Cardinality(S) /\ P!Cardinality(S) = Cardinality(S)
BY DEF RP!Cardinality, PP!Cardinality, R!Cardinality, P!Cardinality, Cardinality,
       RP!IsFiniteSet, PP!IsFiniteSet, IsFiniteSet

\* What the two modules assume of their constants is assumed here too.
LEMMA InstanceAssumptions ==
  /\ RP!PollersAssumption /\ RP!NHostsAssumption /\ RP!BoundsAssumption /\ RP!EnvironmentAssumption
  /\ PP!ThreadsAssumption /\ PP!InsertsAssumption /\ PP!SizesAssumption /\ PP!FlagAssumption
BY SameSets, ThreadsAssumption, InsertsAssumption, HostsAssumption, SizesAssumption,
   EnvironmentAssumption
   DEF RP!PollersAssumption, RP!NHostsAssumption, RP!BoundsAssumption, RP!EnvironmentAssumption,
       PP!ThreadsAssumption, PP!InsertsAssumption, PP!SizesAssumption, PP!FlagAssumption

\* A step of a poller is the one that RoundsProof speaks of ...
LEMMA SamePollers ==
  \A p \in Pollers : /\ R!poller_run(p) <=> RP!poller_run(p)
                     /\ R!SpuriousWakeup(p) <=> RP!SpuriousWakeup(p)
                     /\ R!process_host(p) <=> RP!process_host(p)
                     /\ R!Polling(p) <=> RP!Polling(p)
BY DEF R!poller_run, R!SpuriousWakeup, R!PollerTop, R!thread_inactive, R!PollerWoken,
   R!thread_active, R!PollerNext, R!LoadNextHost, R!TakeHost, R!NoHostLeft, R!process_host,
   R!Goto, R!Decrement, R!ListUnlocked, R!Polling, R!monitorVars, R!signalVars,
   RP!poller_run, RP!SpuriousWakeup, RP!PollerTop, RP!thread_inactive, RP!PollerWoken,
   RP!thread_active, RP!PollerNext, RP!LoadNextHost, RP!TakeHost, RP!NoHostLeft, RP!process_host,
   RP!Goto, RP!Decrement, RP!ListUnlocked, RP!Polling, RP!monitorVars, RP!signalVars

\* ... and so is a step of the monitor, of the clock or of a signal handler.
LEMMA SameMonitor ==
  /\ R!NapEnds <=> RP!NapEnds
  /\ R!MonitorLoop <=> RP!MonitorLoop
  /\ R!MonitorLook <=> RP!MonitorLook
  /\ R!start_iteration <=> RP!start_iteration
  /\ R!end_iteration <=> RP!end_iteration
  /\ R!ResetStatistics <=> RP!ResetStatistics
  /\ R!RoundNotOver <=> RP!RoundNotOver
  /\ R!TimedWaitEnds <=> RP!TimedWaitEnds
  /\ R!TimePasses <=> RP!TimePasses
  /\ R!SignalArrives <=> RP!SignalArrives
  /\ R!HandlerBroadcasts <=> RP!HandlerBroadcasts
BY DEF R!NapEnds, R!MonitorLoop, R!MonitorLook, R!start_iteration, R!end_iteration,
   R!ResetStatistics, R!RoundNotOver, R!TimedWaitEnds, R!TimePasses, R!SignalArrives,
   R!HandlerBroadcasts, R!Settled, R!KeepsRunning, R!ResetNext, R!Broadcast, R!Woken, R!RoundOver,
   R!threadVars, R!monitorVars, R!signalVars,
   RP!NapEnds, RP!MonitorLoop, RP!MonitorLook, RP!start_iteration, RP!end_iteration,
   RP!ResetStatistics, RP!RoundNotOver, RP!TimedWaitEnds, RP!TimePasses, RP!SignalArrives,
   RP!HandlerBroadcasts, RP!Settled, RP!KeepsRunning, RP!ResetNext, RP!Broadcast, RP!Woken,
   RP!RoundOver, RP!threadVars, RP!monitorVars, RP!signalVars

\* With the lost inserts among the freed, the steps of Pipeline are what they were.
LEMMA SameQueries ==
  ASSUME leaked' = leaked
  PROVE  \A p \in Pollers : /\ P!get_clinserts(p) => PP!get_clinserts(p)
                            /\ P!OfferInsert(p) => PP!OfferInsert(p)
                            /\ P!PushInsert(p) => PP!PushInsert(p)
                            /\ P!CountQueued(p) => PP!CountQueued(p)
                            /\ P!DropInsert(p) => PP!DropInsert(p)
                            /\ P!AddStatistics(p) => PP!AddStatistics(p)
<1> USE DEF P!statVars, P!writerVars, P!serverVars, PP!statVars, PP!writerVars, PP!serverVars
<1> SUFFICES ASSUME NEW p \in Pollers
             PROVE  /\ P!get_clinserts(p) => PP!get_clinserts(p)
                    /\ P!OfferInsert(p) => PP!OfferInsert(p)
                    /\ P!PushInsert(p) => PP!PushInsert(p)
                    /\ P!CountQueued(p) => PP!CountQueued(p)
                    /\ P!DropInsert(p) => PP!DropInsert(p)
                    /\ P!AddStatistics(p) => PP!AddStatistics(p)
  OBVIOUS
<1>1. P!get_clinserts(p) => PP!get_clinserts(p)
  BY SameSets DEF P!get_clinserts, PP!get_clinserts
<1>2. P!OfferInsert(p) => PP!OfferInsert(p)
  BY DEF P!OfferInsert, PP!OfferInsert
<1>3. P!PushInsert(p) => PP!PushInsert(p)
  BY DEF P!PushInsert, PP!PushInsert, P!PushSucceeds, PP!PushSucceeds
<1>4. P!CountQueued(p) => PP!CountQueued(p)
  BY DEF P!CountQueued, PP!CountQueued, P!NValues, PP!NValues
<1>5. P!DropInsert(p) => PP!DropInsert(p)
  BY DEF P!DropInsert, PP!DropInsert
<1>6. P!AddStatistics(p) => PP!AddStatistics(p)
  BY SameSets DEF P!AddStatistics, PP!AddStatistics, P!Unprocessed, PP!Unprocessed,
     P!InitialCounts, PP!InitialCounts, P!NoCounts, PP!NoCounts
<1>. QED
  BY <1>1, <1>2, <1>3, <1>4, <1>5, <1>6

\* The same holds of the database threads.
LEMMA SameWriters ==
  ASSUME leaked' = leaked, NEW w \in Writers, P!database_run(w)
  PROVE  PP!database_run(w)
<1> USE DEF P!statVars, P!pollerVars, P!serverVars, PP!statVars, PP!pollerVars, PP!serverVars,
            P!WriterGoto, PP!WriterGoto, P!Reconnects, PP!Reconnects, P!FreePopped, PP!FreePopped,
            P!Successor, PP!Successor, P!Commit, PP!Commit
<1>1. P!WriterTop(w) => PP!WriterTop(w)
  BY DEF P!WriterTop, PP!WriterTop, P!KeepsWriting, PP!KeepsWriting
<1>2. P!Connect(w) => PP!Connect(w)
  BY DEF P!Connect, PP!Connect
<1>3. P!mysql_ping(w) => PP!mysql_ping(w)
  BY DEF P!mysql_ping, PP!mysql_ping
<1>4. P!DrainTest(w) => PP!DrainTest(w)
  BY DEF P!DrainTest, PP!DrainTest, P!WorkQueued, PP!WorkQueued
<1>5. P!PopInsert(w) => PP!PopInsert(w)
  BY DEF P!PopInsert, PP!PopInsert, P!Dequeued, PP!Dequeued
<1>6. P!SkipBlank(w) => PP!SkipBlank(w)
  BY DEF P!SkipBlank, PP!SkipBlank
<1>7. P!PrintQuery(w) => PP!PrintQuery(w)
  BY DEF P!PrintQuery, PP!PrintQuery
<1>8. P!QuerySucceeds(w) => PP!QuerySucceeds(w)
  BY DEF P!QuerySucceeds, PP!QuerySucceeds
<1>9. P!QueryFails(w) => PP!QueryFails(w)
  BY DEF P!QueryFails, PP!QueryFails
<1>10. P!IntervalTest(w) => PP!IntervalTest(w)
  BY DEF P!IntervalTest, PP!IntervalTest, P!CommitDue, PP!CommitDue
<1>11. P!FinishDrain(w) => PP!FinishDrain(w)
  BY DEF P!FinishDrain, PP!FinishDrain, P!CommitsAtEnd, PP!CommitsAtEnd
<1>12. P!Wakes(w) => PP!Wakes(w)
  BY DEF P!Wakes, PP!Wakes
<1>13. P!CloseConnection(w) => PP!CloseConnection(w)
  BY DEF P!CloseConnection, PP!CloseConnection
<1>. QED
  BY <1>1, <1>2, <1>3, <1>4, <1>5, <1>6, <1>7, <1>8, <1>9, <1>10, <1>11, <1>12, <1>13
     DEF P!database_run, PP!database_run

\* The first life starts as Rounds and Pipeline do.
LEMMA SameInit == Init => RP!Init /\ PP!Init
<1> SUFFICES ASSUME Init PROVE RP!Init /\ PP!Init
  OBVIOUS
<1>1. RP!Init
  BY DEF Init, R!Init, RP!Init
<1>2. PP!Init
  BY DEF Init, P!Init, PP!Init, P!NoCounts, PP!NoCounts
<1>. QED
  BY <1>1, <1>2

-----------------------------------------------------------------------------
(* The steps.                                                              *)

\* To the rounds, every step is one of theirs or the start of another life.
LEMMA RoundStep ==
  ASSUME [Next]_vars
  PROVE  [RP!Next]_(RP!vars) \/ StartThreads
<1>1. ASSUME UNCHANGED <<thread_stop_requested, roundVars>>
      PROVE  UNCHANGED RP!vars
  BY <1>1 DEF roundVars, RP!vars, RP!threadVars, RP!monitorVars, RP!signalVars
<1>2. ASSUME NEW p \in Pollers, PollerStep(p) \/ process_host(p)
      PROVE  [RP!Next]_(RP!vars)
  <2>1. CASE PollerStep(p)
    BY <2>1, SamePollers DEF PollerStep, RP!Next
  <2>2. CASE NothingToQueue(p)
    BY <2>2, SamePollers DEF NothingToQueue, RP!Next, RP!poller_run
  <2>3. CASE HostPolled(p)
    BY <2>3, <1>1 DEF HostPolled, P!get_clinserts
  <2>4. CASE QueueStep(p)
    BY <2>4, <1>1 DEF QueueStep, P!OfferInsert, P!PushInsert, P!CountQueued, P!DropInsert
  <2>5. CASE HostQueued(p)
    BY <2>5, SamePollers DEF HostQueued, RP!Next, RP!poller_run
  <2>. QED
    BY <1>2, <2>1, <2>2, <2>3, <2>4, <2>5 DEF process_host
<1>3. ASSUME NEW w \in Writers, database_run(w)
      PROVE  [RP!Next]_(RP!vars)
  BY <1>1, <1>3 DEF database_run, P!database_run, P!WriterTop, P!Connect, P!mysql_ping, P!DrainTest,
     P!PopInsert, P!SkipBlank, P!PrintQuery, P!QuerySucceeds, P!QueryFails, P!IntervalTest,
     P!FinishDrain, P!Wakes, P!CloseConnection, P!FreePopped
<1>4. CASE monitor_run \/ IntervalEnds \/ SignalStep
  BY <1>4, SameMonitor DEF monitor_run, MonitorStep, StartIteration, Report, ResetStatistics,
     IntervalEnds, SignalStep, RP!Next, RP!monitor_run
<1>5. CASE mt_threads_join \/ clbuf_free \/ UNCHANGED vars
  BY <1>1, <1>5 DEF mt_threads_join, clbuf_free, vars
<1>. QED
  BY <1>2, <1>3, <1>4, <1>5 DEF Next, run_threads

\* To the pipeline, it is one of its own, or one of three that change it from outside.
LEMMA PipeStep ==
  ASSUME [Next]_vars
  PROVE  (PP!Step /\ leaked' = leaked) \/ ResetStatistics \/ clbuf_free \/ StartThreads
<1>1. ASSUME UNCHANGED <<thread_stop_requested, pipeVars, leaked>>
      PROVE  PP!Step /\ leaked' = leaked
  BY <1>1 DEF pipeVars, PP!Step, PP!vars, PP!pollerVars, PP!statVars, PP!writerVars, PP!serverVars
<1>2. ASSUME NEW p \in Pollers, PollerStep(p) \/ process_host(p)
      PROVE  PP!Step /\ leaked' = leaked
  <2>1. CASE PollerStep(p) \/ NothingToQueue(p)
    <3>1. thread_stop_requested' = thread_stop_requested
      BY <2>1 DEF PollerStep, NothingToQueue, R!poller_run, R!SpuriousWakeup, R!PollerTop,
         R!thread_inactive,
         R!PollerWoken, R!thread_active, R!PollerNext, R!LoadNextHost, R!TakeHost, R!NoHostLeft,
         R!process_host, R!signalVars
    <3>. QED
      BY <1>1, <2>1, <3>1 DEF PollerStep, NothingToQueue, mainVars
  <2>2. CASE HostPolled(p) \/ QueueStep(p) \/ HostQueued(p)
    <3>1. leaked' = leaked
      BY <2>2 DEF HostPolled, QueueStep, HostQueued, mainVars
    <3>2. PP!PollerStep(p)
      BY <2>2, <3>1, SameQueries DEF HostPolled, QueueStep, HostQueued, PP!PollerStep,
         PP!process_queries
    <3>. QED
      BY <3>1, <3>2 DEF PP!Step
  <2>. QED
    BY <1>2, <2>1, <2>2 DEF process_host
<1>3. ASSUME NEW w \in Writers, database_run(w)
      PROVE  PP!Step /\ leaked' = leaked
  BY <1>3, SameWriters DEF database_run, mainVars, PP!Step
<1>4. CASE monitor_run \/ IntervalEnds
  <2>1. CASE MonitorStep \/ StartIteration \/ Report \/ IntervalEnds
    <3>1. UNCHANGED <<thread_stop_requested, leaked, pipeVars>>
      BY <2>1 DEF MonitorStep, StartIteration, Report, IntervalEnds, R!NapEnds, R!MonitorLoop,
         R!MonitorLook, R!RoundNotOver, R!TimedWaitEnds, R!start_iteration, R!end_iteration,
         R!TimePasses, R!signalVars, mainVars
    <3>. QED
      BY <1>1, <3>1
  <2>. QED
    BY <1>4, <2>1 DEF monitor_run
<1>5. CASE SignalStep
  <2>1. UNCHANGED <<pipeVars, leaked>>
    BY <1>5 DEF SignalStep, mainVars
  <2>2. thread_stop_requested' = thread_stop_requested \/ thread_stop_requested' = TRUE
    BY <1>5 DEF SignalStep, R!SignalArrives, R!HandlerBroadcasts
  <2>3. CASE thread_stop_requested' = thread_stop_requested
    BY <1>1, <2>1, <2>3
  <2>4. CASE thread_stop_requested' = TRUE /\ ~thread_stop_requested
    BY <2>1, <2>4 DEF pipeVars, PP!Step, PP!StopRequest, PP!pollerVars, PP!statVars,
       PP!writerVars, PP!serverVars
  <2>. QED
    BY <2>2, <2>3, <2>4
<1>6. CASE mt_threads_join \/ UNCHANGED vars
  BY <1>1, <1>6 DEF mt_threads_join, vars, mainVars
<1>. QED
  BY <1>2, <1>3, <1>4, <1>5, <1>6 DEF Next, run_threads

-----------------------------------------------------------------------------
(* What holds in every life, whatever the timing.                          *)

\* What the main thread has joined stays ended, and a poller queues inserts
\* only while it polls a host.
Stages ==
  /\ main \in {"join_pollers", "join_monitor", "free", "restart"} =>
       \A w \in Writers : wpc[w] = "done"
  /\ main \in {"join_monitor", "free", "restart"} => \A p \in Pollers : RP!Ended(p)
  /\ main \in {"free", "restart"} => monitor = "done"
  /\ \A p \in Pollers : ppc[p] # "idle" => RP!Polling(p)

Lives == RP!Core /\ PP!Owners /\ PP!SmallTransactions /\ Stages

\* The rounds of a new life begin as those of the first one did.
LEMMA CoreStart ==
  ASSUME RP!Core, StartThreads
  PROVE  RP!Core'
<1>1. RP!Counted' = {}
  BY DEF StartThreads, RP!Counted
<1>2. active_threads' = 0
  BY DEF StartThreads, FirstActive
<1>3. RP!ActiveCount'
  BY <1>1, <1>2, SameSets, FS_EmptySet DEF RP!ActiveCount
<1>4. 0 \in 0 .. RP!Cardinality(Pollers)
  BY SameSets, ThreadsAssumption, FS_CardinalityType
<1>5. RP!TypeOK'
  <2>1. 0 \in 0 .. NHosts
    BY HostsAssumption
  <2>2. /\ thread_stop_requested' = FALSE /\ next_host' = 0 /\ monitor' = "first_nap"
        /\ pc' = [p \in Pollers |-> "top"] /\ fresh' = [p \in Pollers |-> TRUE]
        /\ index' = [p \in Pollers |-> NoHost] /\ iterating' = FALSE /\ handed' = {}
        /\ UNCHANGED <<statistics, due, handler, signals>>
    BY DEF StartThreads, NextDue
  <2>. QED
    BY <1>2, <1>4, <2>1, <2>2 DEF RP!Core, RP!TypeOK
<1>. QED
  BY <1>3, <1>5 DEF StartThreads, RP!Core, RP!OneTaker, RP!Indexed, RP!HandedBelow

\* What holds of the rounds in one life holds in every life.
LEMMA CoreOfLives ==
  ASSUME RP!Core, [Next]_vars
  PROVE  RP!Core'
BY RoundStep, CoreStart, InstanceAssumptions, RP!CoreStep

\* A thread that has ended takes no step.
LEMMA EndedStays ==
  ASSUME RP!TypeOK, [RP!Next]_(RP!vars)
  PROVE  /\ \A p \in Pollers : RP!Ended(p) => RP!Ended(p)'
         /\ monitor = "done" => monitor' = "done"
BY DEF RP!TypeOK, RP!Ended, RP!Next, RP!poller_run, RP!PollerTop, RP!thread_inactive,
   RP!PollerWoken, RP!thread_active, RP!PollerNext, RP!LoadNextHost, RP!TakeHost, RP!NoHostLeft,
   RP!process_host, RP!SpuriousWakeup, RP!Goto, RP!monitor_run, RP!NapEnds, RP!MonitorLoop,
   RP!MonitorLook, RP!start_iteration, RP!end_iteration, RP!ResetStatistics, RP!RoundNotOver,
   RP!TimedWaitEnds, RP!TimePasses, RP!SignalArrives, RP!HandlerBroadcasts, RP!Broadcast,
   RP!Woken, RP!AllJoined, RP!vars, RP!threadVars, RP!monitorVars, RP!signalVars

\* Nor does a database thread that has ended.
LEMMA WriterStays ==
  ASSUME PP!TypeOK, PP!Step
  PROVE  \A w \in Writers : wpc[w] = "done" => wpc'[w] = "done"
<1>1. CASE \E x \in Writers : PP!database_run(x)
  BY <1>1 DEF PP!TypeOK, PP!database_run, PP!WriterTop, PP!Connect, PP!mysql_ping, PP!DrainTest,
     PP!PopInsert, PP!SkipBlank, PP!PrintQuery, PP!QuerySucceeds, PP!QueryFails, PP!IntervalTest,
     PP!FinishDrain, PP!Wakes, PP!CloseConnection, PP!FreePopped, PP!WriterGoto
<1>2. CASE ~\E x \in Writers : PP!database_run(x)
  BY <1>2 DEF PP!Step, PP!PollerStep, PP!get_clinserts, PP!PollerStops, PP!process_queries,
     PP!OfferInsert, PP!PushInsert, PP!CountQueued, PP!DropInsert, PP!AddStatistics,
     PP!ServerStops, PP!ServerStarts, PP!StopRequest, PP!vars, PP!writerVars
<1>. QED
  BY <1>1, <1>2

\* Every step keeps the stages.
LEMMA PollingStays ==
  ASSUME RP!TypeOK, Stages, [Next]_vars, ~StartThreads,
         NEW p \in Pollers, ppc'[p] # "idle", PP!TypeOK
  PROVE  RP!Polling(p)'
<1> USE DEF Stages, RP!Polling, PP!TypeOK, RP!TypeOK
<1>1. ASSUME UNCHANGED ppc, RP!Polling(p) => RP!Polling(p)'
      PROVE  RP!Polling(p)'
  BY <1>1
<1>2. ASSUME NEW q \in Pollers, PollerStep(q)
      PROVE  RP!Polling(p)'
  <2>1. ~RP!Polling(q) /\ (\A x \in Pollers : x # q => pc'[x] = pc[x]) /\ UNCHANGED ppc
    BY <1>2 DEF PollerStep, pipeVars, R!Polling, R!poller_run, R!SpuriousWakeup, R!PollerTop,
       R!thread_inactive, R!PollerWoken, R!thread_active, R!PollerNext, R!LoadNextHost, R!TakeHost,
       R!NoHostLeft, R!process_host, R!Goto
  <2>. QED
    BY <1>1, <2>1
<1>3. ASSUME NEW q \in Pollers, NothingToQueue(q)
      PROVE  RP!Polling(p)'
  BY <1>3 DEF NothingToQueue, pipeVars, R!process_host, R!Goto
<1>4. ASSUME NEW q \in Pollers, HostPolled(q)
      PROVE  RP!Polling(p)'
  BY <1>4 DEF HostPolled, roundVars, R!Polling, P!get_clinserts
<1>5. ASSUME NEW q \in Pollers, QueueStep(q)
      PROVE  RP!Polling(p)'
  BY <1>5 DEF QueueStep, roundVars, P!OfferInsert, P!PushInsert, P!CountQueued, P!DropInsert
<1>6. ASSUME NEW q \in Pollers, HostQueued(q)
      PROVE  RP!Polling(p)'
  BY <1>6 DEF HostQueued, P!AddStatistics, R!process_host, R!Goto
<1>7. ASSUME NEW w \in Writers, database_run(w)
      PROVE  RP!Polling(p)'
  <2>1. UNCHANGED <<ppc, pc>>
    BY <1>7 DEF database_run, roundVars, P!database_run, P!WriterTop, P!Connect, P!mysql_ping,
       P!DrainTest, P!PopInsert, P!SkipBlank, P!PrintQuery, P!QuerySucceeds, P!QueryFails,
       P!IntervalTest, P!FinishDrain, P!Wakes, P!CloseConnection, P!FreePopped, P!pollerVars
  <2>. QED
    BY <1>1, <2>1
<1>8. CASE monitor_run \/ IntervalEnds \/ SignalStep
  <2>1. UNCHANGED ppc
    BY <1>8 DEF monitor_run, MonitorStep, StartIteration, Report, ResetStatistics, IntervalEnds,
       SignalStep, pipeVars
  <2>2. RP!Polling(p) => RP!Polling(p)'
    BY <1>8 DEF monitor_run, MonitorStep, StartIteration, Report, ResetStatistics, IntervalEnds,
       SignalStep, R!NapEnds, R!MonitorLoop, R!MonitorLook, R!RoundNotOver, R!TimedWaitEnds,
       R!start_iteration, R!end_iteration, R!ResetStatistics, R!TimePasses, R!SignalArrives,
       R!HandlerBroadcasts, R!Broadcast, R!Woken, R!threadVars
  <2>. QED
    BY <1>1, <2>1, <2>2
<1>9. CASE mt_threads_join \/ clbuf_free \/ UNCHANGED vars
  BY <1>1, <1>9 DEF mt_threads_join, clbuf_free, vars, roundVars, pipeVars
<1>. QED
  BY <1>2, <1>3, <1>4, <1>5, <1>6, <1>7, <1>8, <1>9 DEF Next, process_host, run_threads

\* Every step keeps what is known of the stages of run_threads.
LEMMA StagesStep ==
  ASSUME Lives, [Next]_vars
  PROVE  Stages'
<1>0. RP!TypeOK /\ PP!TypeOK /\ Stages
  BY DEF Lives, RP!Core, PP!Owners
<1>1. CASE StartThreads
  BY <1>1 DEF StartThreads, Stages
<1>2. CASE ~StartThreads
  <2>1. /\ \A p \in Pollers : RP!Ended(p) => RP!Ended(p)'
        /\ monitor = "done" => monitor' = "done"
    BY <1>0, <1>2, RoundStep, EndedStays
  <2>2. \A w \in Writers : wpc[w] = "done" => wpc'[w] = "done"
    <3>1. CASE PP!Step
      BY <1>0, <3>1, WriterStays
    <3>2. CASE ResetStatistics \/ clbuf_free
      BY <3>2 DEF ResetStatistics, clbuf_free
    <3>. QED
      BY <1>2, <3>1, <3>2, PipeStep
  <2>3. \A p \in Pollers : ppc'[p] # "idle" => RP!Polling(p)'
    BY <1>0, <1>2, PollingStays
  <2>4. \/ main' = main
        \/ main' = "join_pollers" /\ \A w \in Writers : wpc'[w] = "done"
        \/ main = "join_pollers" /\ main' = "join_monitor" /\ \A p \in Pollers : RP!Ended(p)'
        \/ main = "join_monitor" /\ main' = "free" /\ monitor' = "done"
        \/ main = "free" /\ main' = "restart"
    <3>1. CASE mt_threads_join
      <4>1. PollersEnded => \A p \in Pollers : RP!Ended(p)
        BY DEF PollersEnded, R!Ended, RP!Ended
      <4>. QED
        BY <2>1, <2>2, <3>1, <4>1 DEF mt_threads_join
    <3>2. CASE clbuf_free
      BY <3>2 DEF clbuf_free
    <3>3. ASSUME ~mt_threads_join, ~clbuf_free
          PROVE  main' = main
      BY <1>2, <3>3 DEF Next, run_threads, process_host, PollerStep, NothingToQueue, HostPolled,
         QueueStep,
         HostQueued, database_run, monitor_run, MonitorStep, StartIteration, Report,
         ResetStatistics, IntervalEnds, SignalStep, mainVars, vars
    <3>. QED
      BY <3>1, <3>2, <3>3
  <2>. QED
    BY <1>0, <2>1, <2>2, <2>3, <2>4 DEF Stages
<1>. QED
  BY <1>1, <1>2

\* When main starts another life no thread holds an insert.
LEMMA AtRest ==
  ASSUME Lives, main \in {"free", "restart"}
  PROVE  /\ \A p \in Pollers : ppc[p] = "idle" /\ PP!Owned(p) = {}
         /\ \A w \in Writers : wpc[w] = "done" /\ PP!Popped(w) = {} /\ pending[w] = {}
<1>1. \A p \in Pollers : ppc[p] = "idle"
  BY DEF Lives, Stages, RP!Ended, RP!Polling
<1>2. \A w \in Writers : wpc[w] = "done"
  BY DEF Lives, Stages
<1>3. \A p \in Pollers : PP!Owned(p) = {}
  BY <1>1 DEF Lives, PP!Owners, PP!Hands, PP!Owned
<1>4. \A w \in Writers : PP!Popped(w) = {}
  BY <1>2 DEF Lives, PP!Owners, PP!Hands, PP!Popped
<1>5. ASSUME NEW w \in Writers
      PROVE  pending[w] = {}
  <2>1. PP!Cardinality(pending[w]) \in Nat /\ (PP!Cardinality(pending[w]) = 0 <=> pending[w] = {})
    BY PP!SizeOfSets, InstanceAssumptions DEF Lives, PP!Owners, PP!TypeOK
  <2>. QED
    BY <1>2, <2>1 DEF Lives, PP!SmallTransactions, PP!Allowed, PP!Working
<1>. QED
  BY <1>1, <1>2, <1>3, <1>4, <1>5

\* The insert in the freed queue is lost, and has no owner any more.
LEMMA FreedQueueOwns ==
  ASSUME Lives, clbuf_free
  PROVE  PP!Owners'
<1>0. PP!TypeOK /\ PP!Hands /\ PP!OneOwner
  BY DEF Lives, PP!Owners
<1>1. /\ leaked' = leaked \cup PP!Queued /\ queries' = <<>> /\ Len(queries') = 0
      /\ UNCHANGED <<freed, unborn, ppc, batch, current, insert, wpc>>
  BY DEF clbuf_free, P!Queued, PP!Queued
<1>2. PP!Queued \subseteq Inserts
  BY <1>0 DEF PP!Queued, PP!TypeOK
<1>3. PP!TypeOK'
  <2>1. (freed \cup leaked)' \in SUBSET Inserts
    BY <1>0, <1>1, <1>2 DEF PP!TypeOK
  <2>2. queries' \in Seq(Inserts) /\ Len(queries') <= Size
    BY <1>1, SizesAssumption
  <2>. QED
    BY <1>0, <2>1, <2>2 DEF clbuf_free, PP!TypeOK
<1>4. PP!Hands'
  BY <1>0, <1>1 DEF PP!Hands
<1>5. /\ PP!Queued' = {} /\ PP!QueuedOnce'
      /\ \A p \in Pollers : PP!Owned(p)' = PP!Owned(p)
      /\ \A w \in Writers : PP!Popped(w)' = PP!Popped(w)
  BY <1>1 DEF PP!Queued, PP!QueuedOnce, PP!Owned, PP!Popped
<1>6. \A i \in PP!Queued : /\ PP!Alive(i)
                          /\ \A p \in Pollers : i \notin PP!Owned(p)
                          /\ \A w \in Writers : i \notin PP!Popped(w)
  BY <1>0 DEF PP!OneOwner, PP!Placed
<1>7. \A i : PP!Alive(i)' <=> PP!Placed(i)'
  BY <1>0, <1>1, <1>5, <1>6 DEF PP!OneOwner, PP!Alive, PP!Placed
<1>8. \A i \in unborn' : i \notin (freed \cup leaked)'
  BY <1>0, <1>1, <1>6 DEF PP!OneOwner, PP!Alive
<1>9. PP!OneOwner'
  BY <1>0, <1>1, <1>5, <1>7, <1>8 DEF PP!OneOwner
<1>. QED
  BY <1>3, <1>4, <1>9 DEF PP!Owners

\* A new life begins with empty hands.
LEMMA NewLifeOwns ==
  ASSUME Lives, StartThreads
  PROVE  PP!Owners'
<1>0. PP!TypeOK /\ PP!Hands /\ PP!OneOwner
  BY DEF Lives, PP!Owners
<1>1. /\ ppc' = [p \in Pollers |-> "idle"] /\ wpc' = [w \in Writers |-> "top"]
      /\ query_counter' = [w \in Writers |-> 0] /\ autocommit' = [w \in Writers |-> TRUE]
      /\ thread_stop_requested' = FALSE /\ insert_rows' = 0 /\ insert_queries' = 0
      /\ UNCHANGED <<use_db, queries, dropped_queries, batch, current, local, insert, conn, pending,
                     up, restarts, database, unborn, freed, leaked, blank, dropped>>
  BY DEF StartThreads
<1>2. \A p \in Pollers : ppc[p] = "idle"
  BY AtRest DEF StartThreads
<1>3. \A w \in Writers : wpc[w] = "done"
  BY AtRest DEF StartThreads
<1>4. PP!TypeOK'
  <2>1. 0 \in Nat /\ 0 \in 0 .. CommitInterval
    BY SizesAssumption
  <2>. QED
    BY <1>0, <1>1, <2>1 DEF PP!TypeOK
<1>5. PP!Hands'
  BY <1>0, <1>1, <1>2, <1>3 DEF PP!Hands
<1>6. \A p \in Pollers : PP!Owned(p)' = PP!Owned(p) /\ ppc'[p] = "idle"
  BY <1>1, <1>2 DEF PP!Owned
<1>7. PP!OneOwner'
  BY <1>0, <1>1, <1>6, PP!NothingMoves, InstanceAssumptions
<1>. QED
  BY <1>4, <1>5, <1>7 DEF PP!Owners

\* What holds of the pipeline in one life holds in every life.
LEMMA PipelineOfLives ==
  ASSUME Lives, [Next]_vars
  PROVE  PP!Owners' /\ PP!SmallTransactions'
<1>0. PP!TypeOK /\ PP!Hands /\ PP!OneOwner /\ PP!SmallTransactions
  BY DEF Lives, PP!Owners
<1>1. CASE PP!Step
  <2>1. PP!Owners'
    BY <1>1, PP!OwnersStep, InstanceAssumptions DEF Lives
  <2>2. PP!TypeOK'
    BY <2>1 DEF PP!Owners
  <2>. QED
    BY <1>0, <1>1, <2>1, <2>2, PP!TransactionStep, InstanceAssumptions
<1>2. CASE ResetStatistics
  <2>1. /\ insert_rows' = 0 /\ insert_queries' = 0 /\ dropped_queries' = 0
        /\ UNCHANGED <<thread_stop_requested, leaked, use_db, queries, ppc, batch, current, local,
                       wpc, insert, query_counter, conn, autocommit, pending, up, restarts,
                       database, unborn, freed, blank, dropped>>
    BY <1>2 DEF ResetStatistics, R!ResetStatistics, R!signalVars, mainVars
  <2>2. PP!TypeOK' /\ PP!Hands'
    BY <1>0, <2>1 DEF PP!TypeOK, PP!Hands
  <2>3. \A p \in Pollers : PP!Owned(p)' = PP!Owned(p)
    BY <2>1 DEF PP!Owned
  <2>4. \A p \in Pollers : ppc'[p] \in {"push", "drop"} => current'[p] \notin batch'[p]
    BY <1>0, <2>1 DEF PP!OneOwner
  <2>5. PP!OneOwner'
    BY <1>0, <2>1, <2>3, <2>4, PP!NothingMoves, InstanceAssumptions
  <2>6. PP!SmallTransactions'
    BY <1>0, <2>1 DEF PP!SmallTransactions, PP!Allowed
  <2>. QED
    BY <2>2, <2>5, <2>6 DEF PP!Owners
<1>3. CASE clbuf_free
  <2>1. PP!SmallTransactions'
    BY <1>0, <1>3 DEF clbuf_free, PP!SmallTransactions, PP!Allowed
  <2>. QED
    BY <1>3, <2>1, FreedQueueOwns
<1>4. CASE StartThreads
  <2>1. \A w \in Writers : pending'[w] = {} /\ wpc'[w] = "top"
    BY <1>4, AtRest DEF StartThreads
  <2>2. PP!Cardinality({}) = 0
    BY SameSets, FS_EmptySet
  <2>3. PP!SmallTransactions'
    BY <2>1, <2>2 DEF PP!SmallTransactions, PP!Allowed, PP!Working
  <2>. QED
    BY <1>4, <2>3, NewLifeOwns
<1>. QED
  BY <1>1, <1>2, <1>3, <1>4, PipeStep

\* Whatever the timing, in every life the count of active threads and the owners
\* of the inserts are right.
THEOREM LivesInvariant == Spec => []Lives
<1>1. Init => Lives
  <2>1. Init => RP!Core
    BY SameInit, InstanceAssumptions, RP!CoreInit
  <2>2. Init => PP!Owners
    BY SameInit, InstanceAssumptions, PP!OwnersInit
  <2>3. Init => PP!SmallTransactions
    BY SameInit, InstanceAssumptions, PP!TransactionsInit
  <2>4. Init => Stages
    BY DEF Init, P!Init, Stages
  <2>. QED
    BY <2>1, <2>2, <2>3, <2>4 DEF Lives
<1>2. Lives /\ [Next]_vars => Lives'
  BY CoreOfLives, PipelineOfLives, StagesStep DEF Lives
<1>. QED
  BY <1>1, <1>2, PTL DEF Spec

\* In every life active_threads is the number of pollers between thread_active and
\* thread_inactive (main.c:233, poller.c:60-86).
THEOREM ActiveCountInEveryLife == Spec => []ActiveInEveryLife
<1>1. Lives => ActiveInEveryLife
  BY SameSets DEF Lives, RP!Core, ActiveInEveryLife, R!ActiveCount, RP!ActiveCount, R!Counted,
     RP!Counted
<1>. QED
  BY <1>1, LivesInvariant, PTL

\* What is in the queue when it is freed is lost, and nothing else: no thread has
\* an insert, an open transaction or a step to take (main.c:244-255).
THEOREM NothingIsHeld == Spec => []NothingHeld
<1>1. Lives => NothingHeld
  <2> SUFFICES ASSUME Lives, main \in {"free", "restart"}
               PROVE  /\ Inserts \ (unborn \cup freed \cup leaked) = P!Queued
                      /\ \A p \in Pollers : R!Ended(p)
                      /\ \A w \in Writers : wpc[w] = "done" /\ pending[w] = {}
    BY DEF NothingHeld
  <2>1. \A i : PP!Placed(i) <=> i \in PP!Queued
    BY AtRest DEF PP!Placed
  <2>2. \A i : i \in Inserts \ (unborn \cup freed \cup leaked) <=> PP!Alive(i)
    BY DEF PP!Alive
  <2>3. \A i : PP!Alive(i) <=> PP!Placed(i)
    BY DEF Lives, PP!Owners, PP!OneOwner
  <2>4. PP!Queued = P!Queued
    BY DEF PP!Queued, P!Queued
  <2>5. Inserts \ (unborn \cup freed \cup leaked) = P!Queued
    BY <2>1, <2>2, <2>3, <2>4
  <2>6. \A p \in Pollers : R!Ended(p)
    BY DEF Lives, Stages, R!Ended, RP!Ended
  <2>. QED
    BY <2>5, <2>6, AtRest
<1>. QED
  BY <1>1, LivesInvariant, PTL

-----------------------------------------------------------------------------
(* One round in an interval.                                               *)

\* The interval of a round that has begun is not due again before it ends.
NotDueAgain == (begun => ~due) /\ (monitor = "start" => due)

\* A reload starts no second round in an interval (monitor.c:62, main.c:248).
THEOREM OneRoundInEachInterval == Spec => OneRoundPerInterval
<1>1. Init => NotDueAgain
  BY DEF Init, R!Init, NotDueAgain
<1>2. NotDueAgain /\ [Next]_vars => NotDueAgain'
  <2> SUFFICES ASSUME NotDueAgain, [Next]_vars PROVE NotDueAgain'
    OBVIOUS
  <2> USE DEF NotDueAgain
  <2>1. ASSUME UNCHANGED <<begun, due>>, monitor' = "start" => monitor = "start" \/ due
        PROVE  NotDueAgain'
    BY <2>1
  <2>2. ASSUME NEW p \in Pollers, PollerStep(p) \/ process_host(p)
        PROVE  NotDueAgain'
    <3>1. UNCHANGED <<begun, due, monitor>>
      BY <2>2 DEF process_host, PollerStep, NothingToQueue, HostPolled, QueueStep, HostQueued,
         mainVars, roundVars, R!poller_run, R!SpuriousWakeup, R!PollerTop, R!thread_inactive,
         R!PollerWoken, R!thread_active, R!PollerNext, R!LoadNextHost, R!TakeHost, R!NoHostLeft,
         R!process_host, R!monitorVars
    <3>. QED
      BY <2>1, <3>1
  <2>3. CASE MonitorStep \/ Report \/ ResetStatistics \/ SignalStep
    <3>1. UNCHANGED begun
      BY <2>3 DEF MonitorStep, Report, ResetStatistics, SignalStep, mainVars
    <3>2. UNCHANGED due /\ (monitor' = "start" => monitor = "start" \/ due)
      BY <2>3 DEF MonitorStep, Report, ResetStatistics, SignalStep, R!NapEnds, R!MonitorLoop,
         R!MonitorLook, R!RoundNotOver, R!TimedWaitEnds, R!end_iteration, R!ResetStatistics,
         R!SignalArrives, R!HandlerBroadcasts, R!monitorVars
    <3>. QED
      BY <2>1, <3>1, <3>2
  <2>4. CASE StartIteration
    BY <2>4 DEF StartIteration, R!start_iteration
  <2>5. CASE IntervalEnds
    BY <2>5 DEF IntervalEnds, R!TimePasses
  <2>6. CASE StartThreads
    BY <2>6 DEF StartThreads, NextDue
  <2>7. CASE mt_threads_join \/ clbuf_free \/ (\E w \in Writers : database_run(w)) \/ UNCHANGED vars
    BY <2>1, <2>7 DEF mt_threads_join, clbuf_free, database_run, vars, roundVars, mainVars
  <2>. QED
    BY <2>2, <2>3, <2>4, <2>5, <2>6, <2>7 DEF Next, monitor_run, run_threads
<1>3. NotDueAgain /\ [Next]_vars => [StartIteration => ~begun]_vars
  BY DEF NotDueAgain, StartIteration, R!start_iteration
<1>. QED
  BY <1>1, <1>2, <1>3, PTL DEF Spec, OneRoundPerInterval

-----------------------------------------------------------------------------
(* Naps that are long enough, and no spurious wakeup.                      *)

\* The rounds of a new life are as timely: no handler is under way.
LEMMA TimedStart ==
  ASSUME RP!Timed, StartThreads
  PROVE  RP!Timed'
<1>1. /\ handler' = 0 /\ monitor' = "first_nap" /\ iterating' = FALSE
      /\ pc' = [p \in Pollers |-> "top"]
  BY DEF StartThreads, NoHandler
<1>. QED
  BY <1>1 DEF RP!Timed, RP!Listed, RP!HostExclusive, RP!Polling, RP!Quiet, RP!Arrived,
     RP!StartsAlone, RP!StopSeen, RP!Inside, RP!Attended, RP!Reporting, RP!Inner, RP!Ended

\* With naps that are long enough and no spurious wakeup, every life's rounds are
\* as orderly as those of the first: no host is polled twice at once, no round is
\* reported while a poller takes part (monitor.c:57-117, poller.c:26-87).
THEOREM TimedLives ==
  ASSUME PromptScheduling, ~SpuriousWakeups
  PROVE  Spec => []RP!Timed
<1>1. Init => RP!Timed
  BY SameInit, InstanceAssumptions, RP!TimedInit
<1>2. RP!Core /\ RP!Timed /\ [Next]_vars => RP!Timed'
  BY RoundStep, TimedStart, InstanceAssumptions, RP!TimedStep
<1>3. Lives => RP!Core
  BY DEF Lives
<1>. QED
  BY <1>1, <1>2, <1>3, LivesInvariant, PTL DEF Spec

-----------------------------------------------------------------------------
(* Every insert queued is reported.                                        *)

\* The monitor counts what it reports when it prints it, and has not reset it yet.
Unreported == IF monitor = "reset" THEN 0 ELSE insert_queries

\* A poller that is done with a host has added what it queued; nobody can have
\* queued more inserts than there are.
Accounts ==
  /\ reported \in Nat /\ discarded \in Nat
  /\ dropped \subseteq freed
  /\ \A p \in Pollers : ppc[p] = "idle" => local[p].queued = 0
  /\ \A p \in Pollers : P!Uncounted(p) <= Cardinality(Inserts)
  /\ reported + discarded + Unreported + Cardinality(Uncounted) = Cardinality(Pushed)

\* The sets that are counted are finite.
LEMMA Counts ==
  ASSUME PP!TypeOK
  PROVE  /\ IsFiniteSet(Uncounted) /\ Cardinality(Uncounted) \in Nat
         /\ IsFiniteSet(Pushed) /\ Cardinality(Pushed) \in Nat
         /\ Pushed \subseteq Inserts /\ Cardinality(Inserts) \in Nat
         /\ \A p \in Pollers : P!Uncounted(p) \in Nat
<1>1. Cardinality(Inserts) \in Nat
  BY InsertsAssumption, FS_CardinalityType
<1>2. IsFiniteSet(Pollers \X (1 .. Cardinality(Inserts)))
  <2>1. IsFiniteSet(1 .. Cardinality(Inserts))
    <3>1. 1 \in Int /\ Cardinality(Inserts) \in Int
      BY <1>1
    <3>. QED
      BY <3>1, FS_Interval
  <2>2. IsFiniteSet(Pollers)
    BY ThreadsAssumption
  <2>. QED
    BY <2>1, <2>2, FS_Product
<1>3. IsFiniteSet(Uncounted) /\ Cardinality(Uncounted) \in Nat
  <2>1. Uncounted \subseteq Pollers \X (1 .. Cardinality(Inserts))
    BY DEF Uncounted
  <2>. QED
    BY <1>2, <2>1, FS_Subset, FS_CardinalityType
<1>4. Pushed \subseteq Inserts
  <2>1. PP!Queued \subseteq Inserts /\ P!Queued = PP!Queued
    BY DEF PP!TypeOK, PP!Queued, P!Queued
  <2>2. \A w \in Writers : P!Popped(w) \subseteq Inserts
    BY DEF PP!TypeOK, P!Popped
  <2>3. (UNION {P!Popped(w) : w \in Writers}) \subseteq Inserts
    BY <2>2
  <2>4. freed \cup leaked \subseteq Inserts
    BY DEF PP!TypeOK
  <2>. QED
    BY <2>1, <2>3, <2>4 DEF Pushed, P!Pushed
<1>5. IsFiniteSet(Pushed) /\ Cardinality(Pushed) \in Nat
  BY <1>4, InsertsAssumption, FS_Subset, FS_CardinalityType
<1>6. \A p \in Pollers : P!Uncounted(p) \in Nat
  BY DEF P!Uncounted, PP!TypeOK
<1>. QED
  BY <1>1, <1>3, <1>4, <1>5, <1>6

\* One insert more that p has pushed and not counted.
LEMMA OneMoreUncounted ==
  ASSUME PP!TypeOK, NEW p \in Pollers,
         P!Uncounted(p)' = P!Uncounted(p) + 1,
         P!Uncounted(p) + 1 <= Cardinality(Inserts),
         \A q \in Pollers : q # p => P!Uncounted(q)' = P!Uncounted(q)
  PROVE  Cardinality(Uncounted') = Cardinality(Uncounted) + 1
<1> DEFINE pk == <<p, P!Uncounted(p) + 1>>
<1>1. P!Uncounted(p) \in Nat /\ Cardinality(Inserts) \in Nat
  BY Counts
<1>2. pk \in Pollers \X (1 .. Cardinality(Inserts)) /\ pk \notin Uncounted
  BY <1>1 DEF Uncounted
<1>3. Uncounted' = Uncounted \cup {pk}
  <2>1. ASSUME NEW x \in Pollers \X (1 .. Cardinality(Inserts))
        PROVE  x \in Uncounted' <=> x \in Uncounted \cup {pk}
    <3>1. x[1] \in Pollers /\ x[2] \in 1 .. Cardinality(Inserts) /\ x = <<x[1], x[2]>>
      OBVIOUS
    <3>2. CASE x[1] = p
      BY <1>1, <3>1, <3>2 DEF Uncounted
    <3>3. CASE x[1] # p
      BY <3>1, <3>3 DEF Uncounted
    <3>. QED
      BY <3>2, <3>3
  <2>. QED
    BY <1>2, <2>1 DEF Uncounted
<1>. QED
  BY <1>2, <1>3, Counts, FS_AddElement

\* Those that p has pushed are as many as it says.
LEMMA UncountedOf ==
  ASSUME PP!TypeOK, NEW p \in Pollers, P!Uncounted(p) <= Cardinality(Inserts)
  PROVE  LET own == {p} \X (1 .. P!Uncounted(p))
         IN  own \subseteq Uncounted /\ Cardinality(own) = P!Uncounted(p)
<1>1. P!Uncounted(p) \in Nat /\ Cardinality(Inserts) \in Nat
  BY Counts
<1>2. {p} \X (1 .. P!Uncounted(p)) \subseteq Uncounted
  BY <1>1 DEF Uncounted
<1>3. /\ IsFiniteSet({p}) /\ Cardinality({p}) = 1
      /\ IsFiniteSet(1 .. P!Uncounted(p)) /\ Cardinality(1 .. P!Uncounted(p)) = P!Uncounted(p)
  <2>1. 1 \in Int /\ P!Uncounted(p) \in Int
    BY <1>1
  <2>2. /\ IsFiniteSet(1 .. P!Uncounted(p))
        /\ Cardinality(1 .. P!Uncounted(p))
             = IF 1 > P!Uncounted(p) THEN 0 ELSE P!Uncounted(p) - 1 + 1
    BY <2>1, FS_Interval
  <2>3. Cardinality(1 .. P!Uncounted(p)) = P!Uncounted(p)
    BY <1>1, <2>2
  <2>4. IsFiniteSet({p}) /\ Cardinality({p}) = 1
    BY FS_Singleton
  <2>. QED
    BY <2>2, <2>3, <2>4
<1>4. Cardinality({p} \X (1 .. P!Uncounted(p))) = 1 * P!Uncounted(p)
  <2> DEFINE T == 1 .. P!Uncounted(p)
  <2>1. IsFiniteSet({p}) /\ IsFiniteSet(T)
    BY <1>3
  <2>2. Cardinality({p} \X T) = Cardinality({p}) * Cardinality(T)
    <3> HIDE DEF T
    <3>. QED
      BY <2>1, FS_Product
  <2>. QED
    BY <1>3, <2>2
<1>. QED
  BY <1>1, <1>2, <1>4

\* p adds to the statistics what it has pushed.
LEMMA NoMoreUncounted ==
  ASSUME PP!TypeOK, NEW p \in Pollers, P!Uncounted(p) <= Cardinality(Inserts),
         P!Uncounted(p)' = 0,
         \A q \in Pollers : q # p => P!Uncounted(q)' = P!Uncounted(q)
  PROVE  Cardinality(Uncounted') = Cardinality(Uncounted) - P!Uncounted(p)
<1> DEFINE own == {p} \X (1 .. P!Uncounted(p))
<1>1. P!Uncounted(p) \in Nat /\ Cardinality(Inserts) \in Nat
  BY Counts
<1>2. own \subseteq Uncounted /\ Cardinality(own) = P!Uncounted(p)
  BY UncountedOf
<1>3. Uncounted' = Uncounted \ own
  <2>1. ASSUME NEW x \in Pollers \X (1 .. Cardinality(Inserts))
        PROVE  x \in Uncounted' <=> x \in Uncounted \ own
    <3>1. x[1] \in Pollers /\ x[2] \in 1 .. Cardinality(Inserts) /\ x = <<x[1], x[2]>>
      OBVIOUS
    <3>2. CASE x[1] = p
      BY <1>1, <3>1, <3>2 DEF Uncounted
    <3>3. CASE x[1] # p
      BY <3>1, <3>3 DEF Uncounted
    <3>. QED
      BY <3>2, <3>3
  <2>. QED
    BY <2>1 DEF Uncounted
<1>4. Uncounted \cap own = own
  BY <1>2
<1>5. Cardinality(Uncounted \ own) = Cardinality(Uncounted) - Cardinality(Uncounted \cap own)
  <2>1. IsFiniteSet(Uncounted)
    BY Counts
  <2> HIDE DEF own
  <2>. QED
    BY <2>1, FS_Difference
<1>. QED
  BY <1>2, <1>3, <1>4, <1>5

\* What has been pushed, said of one insert.
LEMMA PushedIs ==
  \A i : i \in Pushed <=> \/ i \in PP!Queued
                          \/ \E w \in Writers : i \in PP!Popped(w)
                          \/ i \in freed /\ i \notin dropped
                          \/ i \in leaked
BY DEF Pushed, P!Pushed, P!Queued, PP!Queued, P!Popped, PP!Popped

\* A step that moves what was pushed, and counts nothing.
LEMMA AccountsStay ==
  ASSUME PP!TypeOK, Accounts,
         UNCHANGED <<reported, discarded>>, Unreported' = Unreported, Pushed' = Pushed,
         dropped' \subseteq freed',
         \A p \in Pollers : P!Uncounted(p)' = P!Uncounted(p),
         \A p \in Pollers : ppc'[p] = "idle" => local'[p].queued = 0
  PROVE  Accounts'
<1>1. Uncounted' = Uncounted
  BY DEF Uncounted
<1>. QED
  BY <1>1 DEF Accounts

\* A step of the main thread, of the monitor or of a poller outside of process_host.
LEMMA AccountsAside ==
  ASSUME PP!TypeOK, Accounts,
         UNCHANGED <<reported, discarded, queries, insert, freed, dropped, leaked, ppc, local>>,
         Unreported' = Unreported
  PROVE  Accounts'
<1>1. Pushed' = Pushed
  BY DEF Pushed, P!Pushed, P!Queued, P!Popped
<1>2. \A p \in Pollers : P!Uncounted(p)' = P!Uncounted(p)
  BY DEF P!Uncounted
<1>3. dropped' \subseteq freed' /\ \A p \in Pollers : ppc'[p] = "idle" => local'[p].queued = 0
  BY DEF Accounts
<1>. QED
  BY <1>1, <1>2, <1>3, AccountsStay

\* An insert that is pushed becomes one that its poller has not counted yet.
LEMMA AccountsPush ==
  ASSUME PP!Owners, Accounts, NEW p \in Pollers, P!PushInsert(p), leaked' = leaked,
         UNCHANGED <<reported, discarded>>, Unreported' = Unreported, Unreported \in Nat
  PROVE  Accounts'
<1> USE DEF PP!Owners
<1>1. CASE P!PushSucceeds
  <2> DEFINE i == current[p]
  <2>1. /\ ppc[p] = "push" /\ queries' = Append(queries, i)
        /\ ppc' = [ppc EXCEPT ![p] = "count"]
        /\ UNCHANGED <<local, insert, freed, dropped>>
    BY <1>1, Zenon DEF P!PushInsert, P!writerVars
  <2>2. i \in Inserts /\ i \in PP!Owned(p) /\ queries \in Seq(Inserts)
    BY <2>1 DEF PP!Hands, PP!Owned, PP!TypeOK
  <2>3. PP!Queued' = PP!Queued \cup {i}
    BY <2>1, <2>2, InstanceAssumptions, PP!QueuedAppend
  <2>4. Pushed' = Pushed \cup {i}
    <3>1. \A x : x \in Pushed' <=> x \in Pushed \/ x = i
      BY <2>1, <2>3, PushedIs DEF Pushed, P!Pushed, P!Queued, PP!Queued, P!Popped
    <3>. QED
      BY <3>1
  <2>5. i \notin Pushed
    <3>1. PP!Alive(i) /\ i \notin PP!Queued /\ \A w \in Writers : i \notin PP!Popped(w)
      BY <2>2 DEF PP!OneOwner, PP!Placed
    <3>. QED
      BY <3>1, PushedIs DEF PP!Alive
  <2>6. Cardinality(Pushed') = Cardinality(Pushed) + 1
    BY <2>4, <2>5, Counts, FS_AddElement
  <2>7. Cardinality(Pushed) + 1 <= Cardinality(Inserts)
    <3>1. Pushed' \subseteq Inserts
      BY <2>2, <2>4, Counts
    <3>. QED
      BY <2>6, <3>1, InsertsAssumption, FS_Subset
  <2>8. P!Uncounted(p) + 1 <= Cardinality(Inserts)
    <3> DEFINE own == {p} \X (1 .. P!Uncounted(p))
    <3>1. own \subseteq Uncounted /\ Cardinality(own) = P!Uncounted(p)
      BY UncountedOf DEF Accounts
    <3>2. Cardinality(own) <= Cardinality(Uncounted)
      <4> HIDE DEF own
      <4>. QED
        BY <3>1, Counts, FS_Subset
    <3>3. reported + discarded + Unreported + Cardinality(Uncounted) = Cardinality(Pushed)
          /\ reported \in Nat /\ discarded \in Nat
      BY DEF Accounts
    <3>. QED
      BY <2>7, <3>1, <3>2, <3>3, Counts
  <2>9. P!Uncounted(p)' = P!Uncounted(p) + 1
    BY <2>1, Counts DEF P!Uncounted, PP!TypeOK
  <2>10. \A q \in Pollers : q # p => P!Uncounted(q)' = P!Uncounted(q)
    BY <2>1 DEF P!Uncounted, PP!TypeOK
  <2>11. Cardinality(Uncounted') = Cardinality(Uncounted) + 1
    BY <2>8, <2>9, <2>10, OneMoreUncounted
  <2>12. /\ reported' \in Nat /\ discarded' \in Nat /\ dropped' \subseteq freed'
         /\ \A q \in Pollers : ppc'[q] = "idle" => local'[q].queued = 0
    BY <2>1 DEF Accounts, PP!TypeOK
  <2>13. \A q \in Pollers : P!Uncounted(q)' <= Cardinality(Inserts)
    BY <2>8, <2>9, <2>10 DEF Accounts
  <2>14. reported' + discarded' + Unreported' + Cardinality(Uncounted') = Cardinality(Pushed')
    BY <2>6, <2>11, Counts DEF Accounts
  <2>. QED
    BY <2>12, <2>13, <2>14 DEF Accounts
<1>2. CASE ~P!PushSucceeds
  <2>1. /\ ppc[p] = "push" /\ ppc' = [ppc EXCEPT ![p] = "drop"]
        /\ UNCHANGED <<queries, local, insert, freed, dropped>>
    BY <1>2, Zenon DEF P!PushInsert, P!writerVars
  <2>2. Pushed' = Pushed
    BY <2>1 DEF Pushed, P!Pushed, P!Queued, P!Popped
  <2>3. \A q \in Pollers : P!Uncounted(q)' = P!Uncounted(q)
    BY <2>1 DEF P!Uncounted, PP!TypeOK
  <2>4. dropped' \subseteq freed' /\ \A q \in Pollers : ppc'[q] = "idle" => local'[q].queued = 0
    BY <2>1 DEF Accounts, PP!TypeOK
  <2>. QED
    BY <2>2, <2>3, <2>4, AccountsStay
<1>. QED
  BY <1>1, <1>2

\* The other steps of a poller that polls a host add nothing to the statistics, but one.
LEMMA AccountsPoll ==
  ASSUME PP!Owners, Accounts, NEW p \in Pollers, leaked' = leaked,
         P!get_clinserts(p) \/ P!OfferInsert(p) \/ P!CountQueued(p) \/ P!DropInsert(p),
         UNCHANGED <<reported, discarded>>, Unreported' = Unreported
  PROVE  Accounts'
<1> USE DEF PP!Owners
<1>1. CASE P!get_clinserts(p) \/ P!OfferInsert(p)
  <2>1. /\ ppc[p] \in {"idle", "offer"}
        /\ \E l \in {"offer", "push", "drop"} : ppc' = [ppc EXCEPT ![p] = l]
        /\ UNCHANGED <<queries, local, insert, freed, dropped>>
    BY <1>1 DEF P!get_clinserts, P!OfferInsert, P!writerVars
  <2>2. Pushed' = Pushed
    BY <2>1 DEF Pushed, P!Pushed, P!Queued, P!Popped
  <2>3. \A q \in Pollers : P!Uncounted(q)' = P!Uncounted(q)
    BY <2>1 DEF P!Uncounted, PP!TypeOK
  <2>4. dropped' \subseteq freed' /\ \A q \in Pollers : ppc'[q] = "idle" => local'[q].queued = 0
    BY <2>1 DEF Accounts, PP!TypeOK
  <2>. QED
    BY <2>2, <2>3, <2>4, AccountsStay
<1>2. CASE P!CountQueued(p)
  <2>1. PICK n \in {0, 1} : local' = [local EXCEPT ![p].queued = @ + 1, ![p].values = @ + n]
    BY <1>2 DEF P!CountQueued, P!NValues
  <2>2. /\ ppc[p] = "count" /\ ppc' = [ppc EXCEPT ![p] = "offer"]
        /\ UNCHANGED <<queries, insert, freed, dropped>>
    BY <1>2 DEF P!CountQueued, P!writerVars
  <2>3. local'[p].queued = local[p].queued + 1 /\ \A q \in Pollers : q # p => local'[q] = local[q]
    <3>1. local[p] \in [queued : Nat, values : Nat]
      BY DEF PP!TypeOK
    <3>. QED
      BY <2>1, <3>1 DEF PP!TypeOK
  <2>4. Pushed' = Pushed
    BY <2>2 DEF Pushed, P!Pushed, P!Queued, P!Popped
  <2>5. \A q \in Pollers : P!Uncounted(q)' = P!Uncounted(q)
    BY <2>2, <2>3 DEF P!Uncounted, PP!TypeOK
  <2>6. dropped' \subseteq freed' /\ \A q \in Pollers : ppc'[q] = "idle" => local'[q].queued = 0
    BY <2>2, <2>3 DEF Accounts, PP!TypeOK
  <2>. QED
    BY <2>4, <2>5, <2>6, AccountsStay
<1>3. CASE P!DropInsert(p)
  <2>1. /\ ppc[p] = "drop" /\ ppc' = [ppc EXCEPT ![p] = "offer"]
        /\ freed' = freed \cup {current[p]} /\ dropped' = dropped \cup {current[p]}
        /\ UNCHANGED <<queries, local, insert>>
    BY <1>3 DEF P!DropInsert, P!writerVars
  <2>2. PP!Alive(current[p])
    <3>1. current[p] \in PP!Owned(p)
      BY <2>1 DEF PP!Owned
    <3>. QED
      BY <3>1 DEF PP!OneOwner, PP!Placed
  <2>3. Pushed' = Pushed
    <3>1. freed' \ dropped' = freed \ dropped
      BY <2>1, <2>2 DEF PP!Alive
    <3>. QED
      BY <2>1, <3>1 DEF Pushed, P!Pushed, P!Queued, P!Popped
  <2>4. \A q \in Pollers : P!Uncounted(q)' = P!Uncounted(q)
    BY <2>1 DEF P!Uncounted, PP!TypeOK
  <2>5. dropped' \subseteq freed' /\ \A q \in Pollers : ppc'[q] = "idle" => local'[q].queued = 0
    BY <2>1 DEF Accounts, PP!TypeOK
  <2>. QED
    BY <2>3, <2>4, <2>5, AccountsStay
<1>. QED
  BY <1>1, <1>2, <1>3

\* A database thread moves inserts from the queue to its hands and frees them.
LEMMA AccountsWrite ==
  ASSUME PP!Owners, Accounts, NEW w \in Writers, database_run(w)
  PROVE  Accounts'
<1> USE DEF PP!Owners
<1>1. UNCHANGED <<reported, discarded, dropped, leaked, ppc, local, insert_queries, monitor>>
  BY DEF database_run, mainVars, roundVars, P!database_run, P!WriterTop, P!Connect, P!mysql_ping,
     P!DrainTest, P!PopInsert, P!SkipBlank, P!PrintQuery, P!QuerySucceeds, P!QueryFails,
     P!IntervalTest, P!FinishDrain, P!Wakes, P!CloseConnection, P!FreePopped, P!statVars,
     P!pollerVars
<1>2. \A p \in Pollers : P!Uncounted(p)' = P!Uncounted(p)
  BY <1>1 DEF P!Uncounted
<1>3. \A p \in Pollers : ppc'[p] = "idle" => local'[p].queued = 0
  BY <1>1 DEF Accounts
<1>4. Pushed' = Pushed /\ dropped' \subseteq freed'
  <2>1. CASE UNCHANGED <<queries, insert, freed>>
    BY <1>1, <2>1 DEF Accounts, Pushed, P!Pushed, P!Queued, P!Popped
  <2>2. CASE P!PopInsert(w) /\ queries # <<>>
    <3> DEFINE i == Head(queries)
    <3>1. /\ wpc[w] = "pop" /\ insert' = [insert EXCEPT ![w] = i] /\ queries' = Tail(queries)
          /\ UNCHANGED <<freed>>
      BY <2>2 DEF P!PopInsert, P!Dequeued
    <3>2. PP!Queued' = PP!Queued \ {i} /\ i \in PP!Queued
      <4>1. queries \in Seq(Inserts) /\ PP!QueuedOnce
        BY DEF PP!TypeOK, PP!OneOwner
      <4>. QED
        BY <2>2, <3>1, <4>1, InstanceAssumptions, PP!QueuedTail
    <3>3. i \in Inserts
      BY <3>2 DEF PP!Queued, PP!TypeOK
    <3>4. PP!Popped(w) = {} /\ PP!Popped(w)' = {i}
      BY <3>1, <3>3, InsertsAssumption DEF PP!Popped, PP!Hands, PP!TypeOK
    <3>5. \A x \in Writers : x # w => PP!Popped(x)' = PP!Popped(x)
      BY <3>1 DEF PP!Popped, PP!TypeOK
    <3>6. \A x : x \in Pushed' <=> \/ x \in PP!Queued'
                                   \/ \E y \in Writers : x \in PP!Popped(y)'
                                   \/ x \in freed' /\ x \notin dropped'
                                   \/ x \in leaked'
      BY DEF Pushed, P!Pushed, P!Queued, PP!Queued, P!Popped, PP!Popped
    <3>7. \A x : x \in Pushed' <=> x \in Pushed
      BY <1>1, <3>1, <3>2, <3>4, <3>5, <3>6, PushedIs
    <3>. QED
      BY <1>1, <3>1, <3>7 DEF Accounts
  <2>3. CASE P!FreePopped(w) /\ wpc[w] = "write"
    <3> DEFINE i == insert[w]
    <3>1. /\ insert' = [insert EXCEPT ![w] = NoInsert] /\ freed' = freed \cup {i}
          /\ queries' = queries
      BY <2>3 DEF P!FreePopped
    <3>2. i \in Inserts
      BY <2>3 DEF PP!Hands
    <3>3. PP!Popped(w) = {i} /\ PP!Popped(w)' = {}
      BY <3>1, <3>2, InsertsAssumption DEF PP!Popped, PP!TypeOK
    <3>4. \A x \in Writers : x # w => PP!Popped(x)' = PP!Popped(x)
      BY <3>1 DEF PP!Popped, PP!TypeOK
    <3>5. i \notin dropped
      <4>1. PP!Alive(i)
        BY <3>3 DEF PP!OneOwner, PP!Placed
      <4>. QED
        BY <4>1 DEF PP!Alive, Accounts
    <3>6. PP!Queued' = PP!Queued
      BY <3>1 DEF PP!Queued
    <3>7. \A x : x \in Pushed' <=> \/ x \in PP!Queued'
                                   \/ \E y \in Writers : x \in PP!Popped(y)'
                                   \/ x \in freed' /\ x \notin dropped'
                                   \/ x \in leaked'
      BY DEF Pushed, P!Pushed, P!Queued, PP!Queued, P!Popped, PP!Popped
    <3>8. \A x : x \in Pushed' <=> x \in Pushed
      BY <1>1, <3>1, <3>3, <3>4, <3>5, <3>6, <3>7, PushedIs
    <3>. QED
      BY <1>1, <3>1, <3>8 DEF Accounts
  <2>. QED
    BY <2>1, <2>2, <2>3 DEF database_run, P!database_run, P!WriterTop, P!Connect, P!mysql_ping,
       P!DrainTest, P!PopInsert, P!SkipBlank, P!PrintQuery, P!QuerySucceeds, P!QueryFails,
       P!IntervalTest, P!FinishDrain, P!Wakes, P!CloseConnection
<1>. QED
  BY <1>1, <1>2, <1>3, <1>4, AccountsStay DEF Unreported

\* A poller adds to the statistics what it has queued; the monitor, which would
\* throw it away, is not between its report and its reset.
LEMMA AccountsAdd ==
  ASSUME PP!Owners, Accounts, monitor # "reset", NEW p \in Pollers, P!AddStatistics(p),
         UNCHANGED <<reported, discarded, monitor, leaked>>
  PROVE  Accounts'
<1> USE DEF PP!Owners
<1>1. /\ ppc[p] = "offer" /\ ppc' = [ppc EXCEPT ![p] = "idle"]
      /\ local' = [local EXCEPT ![p] = [queued |-> 0, values |-> 0]]
      /\ insert_queries' = insert_queries + local[p].queued
      /\ UNCHANGED <<queries, insert, freed, dropped>>
  BY DEF P!AddStatistics, P!InitialCounts, P!NoCounts, P!writerVars
<1>2. Pushed' = Pushed
  BY <1>1 DEF Pushed, P!Pushed, P!Queued, P!Popped
<1>3. P!Uncounted(p) = local[p].queued /\ P!Uncounted(p)' = 0
  BY <1>1 DEF P!Uncounted, PP!TypeOK
<1>4. \A q \in Pollers : q # p => P!Uncounted(q)' = P!Uncounted(q)
  BY <1>1 DEF P!Uncounted, PP!TypeOK
<1>5. Cardinality(Uncounted') = Cardinality(Uncounted) - P!Uncounted(p)
  BY <1>3, <1>4, NoMoreUncounted DEF Accounts
<1>6. Unreported' = Unreported + P!Uncounted(p) /\ Unreported \in Nat
  BY <1>1, <1>3 DEF Unreported, PP!TypeOK
<1>7. reported' + discarded' + Unreported' + Cardinality(Uncounted') = Cardinality(Pushed')
  <2>1. reported + discarded + Unreported + Cardinality(Uncounted) = Cardinality(Pushed)
        /\ reported \in Nat /\ discarded \in Nat
    BY DEF Accounts
  <2>. QED
    BY <1>2, <1>5, <1>6, <2>1, Counts
<1>8. \A q \in Pollers : P!Uncounted(q)' <= Cardinality(Inserts)
  BY <1>3, <1>4, Counts DEF Accounts
<1>9. \A q \in Pollers : ppc'[q] = "idle" => local'[q].queued = 0
  BY <1>1 DEF Accounts, PP!TypeOK
<1>10. /\ reported' \in Nat /\ discarded' \in Nat /\ dropped' \subseteq freed'
  BY <1>1 DEF Accounts
<1>. QED
  BY <1>7, <1>8, <1>9, <1>10 DEF Accounts

\* The steps of the monitor: only its report and its reset touch what it counts.
LEMMA AccountsMonitor ==
  ASSUME PP!TypeOK, Accounts, monitor_run \/ IntervalEnds \/ SignalStep
  PROVE  Accounts'
<1>1. CASE MonitorStep \/ StartIteration \/ IntervalEnds \/ SignalStep
  <2>1. (monitor' = "reset") <=> (monitor = "reset")
    BY <1>1 DEF MonitorStep, StartIteration, IntervalEnds, SignalStep, R!NapEnds, R!MonitorLoop,
       R!MonitorLook, R!RoundNotOver, R!TimedWaitEnds, R!start_iteration, R!TimePasses,
       R!SignalArrives, R!HandlerBroadcasts, R!monitorVars
  <2>2. UNCHANGED <<insert_queries, reported, discarded, queries, insert, freed, dropped, leaked,
                    ppc, local>>
    BY <1>1 DEF MonitorStep, StartIteration, IntervalEnds, SignalStep, pipeVars, mainVars
  <2>3. Unreported' = Unreported
    BY <2>1, <2>2 DEF Unreported
  <2>. QED
    BY <2>2, <2>3, AccountsAside
<1>2. CASE Report
  <2>1. /\ monitor # "reset" /\ monitor' = "reset" /\ reported' = reported + insert_queries
        /\ UNCHANGED <<discarded, queries, insert, freed, dropped, leaked, ppc, local>>
    BY <1>2 DEF Report, R!end_iteration, pipeVars
  <2>2. Pushed' = Pushed /\ Uncounted' = Uncounted
        /\ \A p \in Pollers : P!Uncounted(p)' = P!Uncounted(p)
    BY <2>1 DEF Pushed, P!Pushed, P!Queued, P!Popped, Uncounted, P!Uncounted
  <2>3. reported' + Unreported' = reported + Unreported /\ reported' \in Nat
    BY <2>1 DEF Unreported, PP!TypeOK, Accounts
  <2>4. reported' + discarded' + Unreported' + Cardinality(Uncounted') = Cardinality(Pushed')
    BY <2>1, <2>2, <2>3, Counts DEF Accounts, Unreported, PP!TypeOK
  <2>. QED
    BY <2>1, <2>2, <2>3, <2>4 DEF Accounts
<1>3. CASE ResetStatistics
  <2>1. /\ monitor = "reset" /\ insert_queries' = 0
        /\ UNCHANGED <<reported, discarded, queries, insert, freed, dropped, leaked, ppc, local>>
    BY <1>3 DEF ResetStatistics, R!ResetStatistics, mainVars
  <2>2. Unreported' = Unreported
    BY <2>1 DEF Unreported
  <2>. QED
    BY <2>1, <2>2, AccountsAside
<1>. QED
  BY <1>1, <1>2, <1>3 DEF monitor_run

\* The inserts that are lost with the queue were pushed.
LEMMA AccountsFree ==
  ASSUME PP!Owners, Accounts, clbuf_free
  PROVE  Accounts'
<1>1. /\ leaked' = leaked \cup P!Queued /\ queries' = <<>>
      /\ UNCHANGED <<reported, discarded, insert_queries, monitor, insert, freed, dropped, ppc,
                     local>>
  BY DEF clbuf_free, roundVars
<1>2. P!Queued' = {}
  BY <1>1 DEF P!Queued
<1>3. Pushed' = Pushed
  BY <1>1, <1>2 DEF Pushed, P!Pushed, P!Popped
<1>4. \A p \in Pollers : P!Uncounted(p)' = P!Uncounted(p)
  BY <1>1 DEF P!Uncounted
<1>5. dropped' \subseteq freed' /\ \A p \in Pollers : ppc'[p] = "idle" => local'[p].queued = 0
  BY <1>1 DEF Accounts
<1>. QED
  BY <1>1, <1>3, <1>4, <1>5, AccountsStay DEF PP!Owners, Unreported

\* What a life has counted and not reported is discarded when the next one starts.
LEMMA AccountsRestart ==
  ASSUME Lives, Accounts, StartThreads
  PROVE  Accounts'
<1>1. /\ main = "restart" /\ monitor' = "first_nap" /\ insert_queries' = 0
      /\ discarded' = discarded + insert_queries /\ ppc' = [p \in Pollers |-> "idle"]
      /\ UNCHANGED <<reported, queries, insert, freed, dropped, leaked, local>>
  BY DEF StartThreads
<1>2. monitor = "done" /\ \A p \in Pollers : ppc[p] = "idle"
  <2>1. \A p \in Pollers : RP!Ended(p) /\ (ppc[p] # "idle" => RP!Polling(p))
    BY <1>1 DEF Lives, Stages
  <2>. QED
    BY <1>1, <2>1 DEF Lives, Stages, RP!Ended, RP!Polling
<1>3. \A p \in Pollers : P!Uncounted(p)' = P!Uncounted(p)
  BY <1>1, <1>2 DEF P!Uncounted
<1>4. Pushed' = Pushed /\ Uncounted' = Uncounted
  BY <1>1, <1>3 DEF Pushed, P!Pushed, P!Queued, P!Popped, Uncounted
<1>5. PP!TypeOK
  BY DEF Lives, PP!Owners
<1>6. /\ discarded' \in Nat
      /\ reported' + discarded' + Unreported' + Cardinality(Uncounted') = Cardinality(Pushed')
  BY <1>1, <1>2, <1>4, <1>5, Counts DEF Accounts, Unreported, PP!TypeOK
<1>7. \A p \in Pollers : ppc'[p] = "idle" => local'[p].queued = 0
  BY <1>1, <1>2 DEF Accounts
<1>8. reported' \in Nat /\ dropped' \subseteq freed'
  BY <1>1 DEF Accounts
<1>9. \A p \in Pollers : P!Uncounted(p)' <= Cardinality(Inserts)
  BY <1>3 DEF Accounts
<1>. QED
  BY <1>6, <1>7, <1>8, <1>9 DEF Accounts

\* Between the report and the reset no poller polls a host.
LEMMA NobodyPolls ==
  ASSUME RP!Core, RP!Timed, monitor = "reset"
  PROVE  \A p \in Pollers : ~RP!Polling(p)
BY DEF RP!Core, RP!TypeOK, RP!Timed, RP!StartsAlone, RP!Counted, RP!Polling, RP!Inner

\* Every insert that was pushed is reported, counted, discarded or yet to be counted.
LEMMA AccountsStep ==
  ASSUME Lives, RP!Timed, Accounts, [Next]_vars
  PROVE  Accounts'
<1>1. PP!Owners /\ PP!TypeOK /\ RP!Core
  BY DEF Lives, PP!Owners
<1>2. ASSUME NEW p \in Pollers, PollerStep(p) \/ process_host(p)
      PROVE  Accounts'
  <2>1. UNCHANGED <<reported, discarded, leaked>>
    BY <1>2 DEF PollerStep, process_host, NothingToQueue, HostPolled, QueueStep, HostQueued,
       mainVars
  <2>2. monitor' = monitor
    BY <1>2 DEF PollerStep, process_host, NothingToQueue, HostPolled, QueueStep, HostQueued,
       roundVars, R!poller_run, R!SpuriousWakeup, R!PollerTop, R!thread_inactive, R!PollerWoken,
       R!thread_active, R!PollerNext, R!LoadNextHost, R!TakeHost, R!NoHostLeft, R!process_host,
       R!monitorVars
  <2>3. CASE PollerStep(p) \/ NothingToQueue(p)
    <3>1. UNCHANGED <<insert_queries, queries, insert, freed, dropped, ppc, local>>
      BY <2>3 DEF PollerStep, NothingToQueue, pipeVars
    <3>. QED
      BY <1>1, <2>1, <2>2, <3>1, AccountsAside DEF Unreported
  <2>4. CASE HostPolled(p) \/ QueueStep(p)
    <3>1. insert_queries' = insert_queries
      BY <2>4 DEF HostPolled, QueueStep, P!get_clinserts, P!OfferInsert, P!PushInsert,
         P!CountQueued, P!DropInsert, P!statVars
    <3>2. Unreported' = Unreported /\ Unreported \in Nat
      BY <1>1, <2>2, <3>1 DEF Unreported, PP!TypeOK
    <3>. QED
      BY <1>1, <2>1, <2>4, <3>2, AccountsPush, AccountsPoll DEF HostPolled, QueueStep
  <2>5. CASE HostQueued(p)
    <3>1. RP!Polling(p)
      BY <2>5 DEF HostQueued, R!process_host, RP!Polling
    <3>2. monitor # "reset"
      BY <1>1, <3>1, NobodyPolls
    <3>. QED
      BY <1>1, <2>1, <2>2, <2>5, <3>2, AccountsAdd DEF HostQueued
  <2>. QED
    BY <1>2, <2>3, <2>4, <2>5 DEF process_host
<1>3. ASSUME NEW w \in Writers, database_run(w)
      PROVE  Accounts'
  BY <1>1, <1>3, AccountsWrite
<1>4. CASE monitor_run \/ IntervalEnds \/ SignalStep
  BY <1>1, <1>4, AccountsMonitor
<1>5. CASE mt_threads_join \/ UNCHANGED vars
  <2>1. UNCHANGED <<insert_queries, monitor, reported, discarded, queries, insert, freed, dropped,
                    leaked, ppc, local>>
    BY <1>5 DEF mt_threads_join, vars, roundVars, pipeVars, mainVars
  <2>. QED
    BY <1>1, <2>1, AccountsAside DEF Unreported
<1>6. CASE clbuf_free \/ StartThreads
  BY <1>1, <1>6, AccountsFree, AccountsRestart
<1>. QED
  BY <1>2, <1>3, <1>4, <1>5, <1>6 DEF Next, run_threads

\* Nothing has been pushed when the threads are first started.
LEMMA AccountsInit == Init => Accounts
<1> SUFFICES ASSUME Init PROVE Accounts
  OBVIOUS
<1>1. \A p \in Pollers : P!Uncounted(p) = 0
  BY DEF Init, P!Init, P!Uncounted, P!NoCounts
<1>2. Cardinality(Inserts) \in Nat
  BY InsertsAssumption, FS_CardinalityType
<1>3. Uncounted = {}
  BY <1>1, <1>2 DEF Uncounted
<1>4. Pushed = {}
  <2>1. P!Queued = {} /\ \A w \in Writers : P!Popped(w) = {}
    BY DEF Init, P!Init, P!Queued, P!Popped
  <2>. QED
    BY <2>1 DEF Pushed, P!Pushed, Init, P!Init
<1>5. Cardinality(Uncounted) = 0 /\ Cardinality(Pushed) = 0
  BY <1>3, <1>4, FS_EmptySet
<1>6. Unreported = 0 /\ reported = 0 /\ discarded = 0 /\ dropped = {}
  BY DEF Unreported, Init, P!Init
<1>7. \A p \in Pollers : local[p].queued = 0
  BY DEF Init, P!Init, P!NoCounts
<1>. QED
  BY <1>1, <1>2, <1>5, <1>6, <1>7 DEF Accounts

\* With naps that are long enough and no spurious wakeup every insert queued is
\* reported in one round's report, unless a stop request cuts its round short
\* (poller.c:133-138, monitor.c:98-113), in every life of the threads.
THEOREM EveryQueryIsReported ==
  ASSUME PromptScheduling, ~SpuriousWakeups
  PROVE  Spec => []EveryQueryReported
<1>1. Lives /\ RP!Timed /\ Accounts /\ [Next]_vars => Accounts'
  BY AccountsStep
<1>2. Accounts => EveryQueryReported
  BY DEF Accounts, EveryQueryReported, Unreported
<1>. QED
  BY <1>1, <1>2, AccountsInit, LivesInvariant, TimedLives, PTL DEF Spec
=============================================================================
