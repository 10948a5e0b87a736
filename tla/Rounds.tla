-------------------------------- MODULE Rounds --------------------------------
(***************************************************************************)
(* The polling rounds: the monitor thread (src/monitor.c) starts a round   *)
(* by resetting the host list and broadcasting global_cond; the poller     *)
(* threads (src/poller.c) count themselves active, take hosts from the     *)
(* shared list (src/rtgtargets.c) until it is empty and wait again; the    *)
(* monitor ends the round when it reads active_threads = 0.  A signal      *)
(* handler (src/main.c) sets thread_stop_requested and broadcasts.         *)
(*                                                                         *)
(* A critical section of global_lock is one step: nothing in it blocks but *)
(* the wait on the condition variable, which releases the lock.  The code  *)
(* reads active_threads and thread_stop_requested, and resets next_host,   *)
(* without a lock: each such access is a step of its own.                  *)
(***************************************************************************)
EXTENDS Naturals, FiniteSets

CONSTANTS Pollers,            \* the poller threads
          NHosts,             \* nhosts: hosts are the indexes 0 .. NHosts - 1
          NoHost,             \* not an index
          MaxSignals,         \* bound: SIGHUP or SIGTERM signals delivered
          StatisticsCap,      \* bound: where the statistics count saturates
          PromptScheduling,   \* 250 ms are enough to wake up and count oneself
          SpuriousWakeups     \* POSIX lets a condition wait return by itself

ASSUME PollersAssumption == IsFiniteSet(Pollers) /\ Pollers # {}
ASSUME NHostsAssumption == NHosts \in Nat \ {0} /\ NoHost \notin Nat
ASSUME BoundsAssumption == MaxSignals \in Nat /\ StatisticsCap \in Nat
ASSUME EnvironmentAssumption == /\ PromptScheduling \in BOOLEAN
                                /\ SpuriousWakeups \in BOOLEAN

Hosts == 0 .. NHosts - 1

VARIABLES
  thread_stop_requested,
  active_threads,
  next_host,       \* targets->next_host
  statistics,      \* hosts whose results are in the statistics object
  pc,              \* where each poller is in poller_run
  fresh,           \* the poller's iterations = 0
  index,           \* the poller's index into the host list, loaded or taken
  monitor,         \* where the monitor is in monitor_run
  iterating,       \* the monitor's this_iteration # 0
  due,             \* now >= next_iteration
  handler,         \* handlers between their store and their broadcast
  signals,         \* signals still to come
  handed           \* history: hosts given out since the last reset

threadVars == <<pc, fresh, index>>
monitorVars == <<monitor, iterating, due>>
signalVars == <<thread_stop_requested, handler, signals>>
vars == <<active_threads, next_host, statistics, threadVars, monitorVars,
          signalVars, handed>>

Init == /\ thread_stop_requested = FALSE
        /\ active_threads = 0
        /\ next_host = 0
        /\ statistics = 0
        /\ pc = [p \in Pollers |-> "top"]
        /\ fresh = [p \in Pollers |-> TRUE]
        /\ index = [p \in Pollers |-> NoHost]
        /\ monitor = "first_nap"
        /\ iterating = FALSE
        /\ due = TRUE
        /\ handler = 0
        /\ signals = MaxSignals
        /\ handed = {}

Goto(p, label) == pc' = [pc EXCEPT ![p] = label]

-----------------------------------------------------------------------------
\* Mutated forms of the definitions below, each a plausible slip in the code.
Decrement_FirstRoundToo(p) == active_threads - 1
ListUnlocked_NoLock == TRUE
ResetNext_Forgotten == next_host
RoundOver_AnyActive == iterating
KeepsRunning_Always == TRUE

-----------------------------------------------------------------------------
(* The poller threads.                                                     *)

\* The test of while (!thread_stop_requested).
PollerTop(p) == /\ pc[p] = "top"
                /\ Goto(p, IF thread_stop_requested THEN "returned" ELSE "inactive")
                /\ UNCHANGED <<active_threads, next_host, statistics, fresh, index,
                               monitorVars, signalVars, handed>>

\* A poller that comes from a round stops counting itself.
Decrement(p) == IF fresh[p] THEN active_threads ELSE active_threads - 1

\* thread_inactive, up to the wait on global_cond that releases global_lock.
thread_inactive(p) == /\ pc[p] = "inactive"
                      /\ active_threads' = Decrement(p)
                      /\ Goto(p, "waiting")
                      /\ UNCHANGED <<next_host, statistics, fresh, index,
                                     monitorVars, signalVars, handed>>

\* A return from the wait that no broadcast caused.
SpuriousWakeup(p) == /\ SpuriousWakeups
                     /\ pc[p] = "waiting"
                     /\ Goto(p, "woken")
                     /\ UNCHANGED <<active_threads, next_host, statistics, fresh, index,
                                    monitorVars, signalVars, handed>>

\* The test that follows the wait.
PollerWoken(p) == /\ pc[p] = "woken"
                  /\ Goto(p, IF thread_stop_requested THEN "broke" ELSE "active")
                  /\ UNCHANGED <<active_threads, next_host, statistics, fresh, index,
                                 monitorVars, signalVars, handed>>

thread_active(p) == /\ pc[p] = "active"
                    /\ active_threads' = active_threads + 1
                    /\ Goto(p, "next")
                    /\ UNCHANGED <<next_host, statistics, fresh, index,
                                   monitorVars, signalVars, handed>>

\* The stop test of the inner loop; the loop's end counts an iteration.
PollerNext(p) == /\ pc[p] = "next"
                 /\ IF thread_stop_requested
                    THEN Goto(p, "top") /\ fresh' = [fresh EXCEPT ![p] = FALSE]
                    ELSE Goto(p, "lock") /\ UNCHANGED fresh
                 /\ UNCHANGED <<active_threads, next_host, statistics, index,
                                monitorVars, signalVars, handed>>

\* next_host_lock is free.
ListUnlocked == \A q \in Pollers : pc[q] # "take"

\* rtgtargets_next takes next_host_lock and loads next_host ...
LoadNextHost(p) == /\ pc[p] = "lock"
                   /\ ListUnlocked
                   /\ index' = [index EXCEPT ![p] = next_host]
                   /\ Goto(p, "take")
                   /\ UNCHANGED <<active_threads, next_host, statistics, fresh,
                                  monitorVars, signalVars, handed>>

\* ... stores its successor, unlocks and returns the host at that index ...
TakeHost(p) == /\ pc[p] = "take"
               /\ index[p] < NHosts
               /\ next_host' = index[p] + 1
               /\ handed' = handed \cup {index[p]}
               /\ Goto(p, "poll")
               /\ UNCHANGED <<active_threads, statistics, fresh, index,
                              monitorVars, signalVars>>

\* ... or finds none left, which ends the poller's round.
NoHostLeft(p) == /\ pc[p] = "take"
                 /\ index[p] >= NHosts
                 /\ index' = [index EXCEPT ![p] = NoHost]
                 /\ fresh' = [fresh EXCEPT ![p] = FALSE]
                 /\ Goto(p, "top")
                 /\ UNCHANGED <<active_threads, next_host, statistics,
                                monitorVars, signalVars, handed>>

\* process_host: the host's results enter the statistics under global_lock.
process_host(p) == /\ pc[p] = "poll"
                   /\ statistics' = IF statistics < StatisticsCap THEN statistics + 1
                                    ELSE statistics
                   /\ index' = [index EXCEPT ![p] = NoHost]
                   /\ Goto(p, "next")
                   /\ UNCHANGED <<active_threads, next_host, fresh,
                                  monitorVars, signalVars, handed>>

poller_run(p) == \/ PollerTop(p) \/ thread_inactive(p) \/ PollerWoken(p)
                 \/ thread_active(p) \/ PollerNext(p)
                 \/ LoadNextHost(p) \/ TakeHost(p) \/ NoHostLeft(p) \/ process_host(p)

-----------------------------------------------------------------------------
(* The monitor thread.                                                     *)

\* The pollers a broadcast of global_cond wakes.
Woken == {p \in Pollers : pc[p] = "waiting"}

Broadcast == pc' = [p \in Pollers |-> IF p \in Woken THEN "woken" ELSE pc[p]]

\* Every poller that was woken has counted itself, and every new one waits.
Settled == \A p \in Pollers : /\ pc[p] \notin {"woken", "active"}
                              /\ fresh[p] => pc[p] \notin {"top", "inactive"}

\* A nanosleep of 250 ms ends.
NapEnds == /\ monitor \in {"first_nap", "nap"}
           /\ PromptScheduling => Settled
           /\ monitor' = IF monitor = "nap" THEN "check" ELSE "loop"
           /\ UNCHANGED <<active_threads, next_host, statistics, threadVars,
                          iterating, due, signalVars, handed>>

KeepsRunning == ~thread_stop_requested

\* The test of while (!thread_stop_requested).
MonitorLoop == /\ monitor = "loop"
               /\ monitor' = IF KeepsRunning THEN "look" ELSE "done"
               /\ UNCHANGED <<active_threads, next_host, statistics, threadVars,
                              iterating, due, signalVars, handed>>

\* The unlocked read of active_threads that decides to start a round.
MonitorLook == /\ monitor = "look"
               /\ monitor' = IF active_threads = 0 /\ due THEN "start" ELSE "nap"
               /\ UNCHANGED <<active_threads, next_host, statistics, threadVars,
                              iterating, due, signalVars, handed>>

\* next_host = 0, which takes no next_host_lock.
ResetNext == 0

\* start_iteration; the next one is due at the next interval.
start_iteration == /\ monitor = "start"
                   /\ next_host' = ResetNext
                   /\ handed' = {}
                   /\ Broadcast
                   /\ iterating' = TRUE
                   /\ due' = FALSE
                   /\ monitor' = "nap"
                   /\ UNCHANGED <<active_threads, statistics, fresh, index, signalVars>>

RoundOver == active_threads = 0 /\ iterating

\* The check after the nap; end_iteration reads the statistics to report them ...
end_iteration == /\ monitor = "check"
                 /\ RoundOver
                 /\ monitor' = "reset"
                 /\ UNCHANGED <<active_threads, next_host, statistics, threadVars, iterating,
                                due, signalVars, handed>>

\* ... then resets them, without global_lock, and waits for the next interval
\* unless it had begun when the clock was read, before the report.
ResetStatistics == /\ monitor = "reset"
                   /\ iterating' = FALSE
                   /\ statistics' = 0
                   /\ monitor' = "timedwait" \/ (due /\ monitor' = "loop")
                   /\ UNCHANGED <<active_threads, next_host, threadVars, due,
                                  signalVars, handed>>

RoundNotOver == /\ monitor = "check"
                /\ ~RoundOver
                /\ monitor' = "loop"
                /\ UNCHANGED <<active_threads, next_host, statistics, threadVars,
                               iterating, due, signalVars, handed>>

\* The timed wait of end_iteration ends when the interval does.
TimedWaitEnds == /\ monitor = "timedwait"
                 /\ due \/ SpuriousWakeups
                 /\ monitor' = "loop"
                 /\ UNCHANGED <<active_threads, next_host, statistics, threadVars,
                                iterating, due, signalVars, handed>>

monitor_run == \/ NapEnds \/ MonitorLoop \/ MonitorLook \/ start_iteration
               \/ end_iteration \/ ResetStatistics \/ RoundNotOver \/ TimedWaitEnds

-----------------------------------------------------------------------------
(* The clock and the signals.                                              *)

\* The clock reaches next_iteration.
TimePasses == /\ ~due
              /\ due' = TRUE
              /\ UNCHANGED <<active_threads, next_host, statistics, threadVars,
                             monitor, iterating, signalVars, handed>>

\* A signal arrives and its handler sets the flag ...
SignalArrives == /\ signals > 0
                 /\ signals' = signals - 1
                 /\ thread_stop_requested' = TRUE
                 /\ handler' = handler + 1
                 /\ UNCHANGED <<active_threads, next_host, statistics, threadVars,
                                monitorVars, handed>>

\* ... and then takes global_lock and broadcasts.
HandlerBroadcasts == /\ handler > 0
                     /\ handler' = handler - 1
                     /\ Broadcast
                     /\ monitor' = IF monitor = "timedwait" THEN "loop" ELSE monitor
                     /\ UNCHANGED <<active_threads, next_host, statistics, fresh, index,
                                    iterating, due, thread_stop_requested, signals, handed>>

\* All threads of this life of the program are gone: main joins them.
Ended(p) == pc[p] \in {"returned", "broke"}
AllJoined == /\ monitor = "done"
             /\ \A p \in Pollers : Ended(p)
             /\ UNCHANGED vars

Next == \/ \E p \in Pollers : poller_run(p) \/ SpuriousWakeup(p)
        \/ monitor_run
        \/ TimePasses \/ SignalArrives \/ HandlerBroadcasts
        \/ AllJoined

Spec == Init /\ [][Next]_vars

\* Runnable threads run, the clock advances, a host's SNMP timeouts expire and
\* a handler that has begun finishes.  Nothing makes a signal arrive.
Fairness == /\ \A p \in Pollers : WF_vars(poller_run(p))
            /\ WF_vars(monitor_run)
            /\ WF_vars(TimePasses)
            /\ WF_vars(HandlerBroadcasts)

FairSpec == Spec /\ Fairness

-----------------------------------------------------------------------------
(* Properties.                                                             *)

\* The variables keep their types (globals.c:15-20, rtgtargets.h:82-89).
TypeOK == /\ thread_stop_requested \in BOOLEAN
          /\ active_threads \in 0 .. Cardinality(Pollers)
          /\ next_host \in 0 .. NHosts
          /\ statistics \in 0 .. StatisticsCap
          /\ pc \in [Pollers -> {"top", "inactive", "waiting", "woken", "active", "next",
                                 "lock", "take", "poll", "returned", "broke"}]
          /\ fresh \in [Pollers -> BOOLEAN]
          /\ index \in [Pollers -> (0 .. NHosts) \cup {NoHost}]
          /\ monitor \in {"first_nap", "loop", "look", "start", "nap", "check",
                          "reset", "timedwait", "done"}
          /\ iterating \in BOOLEAN
          /\ due \in BOOLEAN
          /\ handler \in Nat
          /\ signals \in 0 .. MaxSignals
          /\ handed \in SUBSET Hosts

\* The pollers that have counted themselves active and not yet taken it back.
\* One that leaves by the while test (poller.c:38) never takes it back.
Counted == {p \in Pollers : \/ pc[p] \in {"next", "lock", "take", "poll"}
                            \/ /\ pc[p] \in {"top", "inactive", "returned"}
                               /\ ~fresh[p]}

\* active_threads, an unsigned that the pollers decrement and increment at
\* different moments (poller.c:66, 84), is exactly the number of pollers
\* between the two, in every interleaving, late or spurious wakeups and
\* stops included: it never wraps below zero.
ActiveCount == active_threads = Cardinality(Counted)

Polling(p) == pc[p] = "poll"

\* Two pollers never poll the same host at the same time, even in different
\* rounds: it is what protects the rows' cached_time and cached_counter, which
\* get_clinserts (poller.c:190-209) reads and writes without a lock.
HostExclusive == \A p, q \in Pollers :
                   (p # q /\ Polling(p) /\ Polling(q)) => index[p] # index[q]

\* Between two resets of the list no host is given out twice, though the reset
\* (rtgtargets.c:389) takes no lock and may fall between the load and the store
\* of rtgtargets_next (rtgtargets.c:381-382).
AtMostOncePerRound ==
  [][\A p \in Pollers : (~Polling(p) /\ Polling(p)') => index[p] \notin handed]_vars

\* The statistics reported at the end of a round cover every host (globals.h:35,
\* monitor.c:98-113).  After a late round they may cover more: pollers that end
\* it between the monitor's two looks at active_threads (monitor.c:56, 44) let
\* the next round start before this one was reported.
ReportComplete ==
  [][(monitor = "check" /\ monitor' = "reset") =>
       (thread_stop_requested \/ statistics >= NHosts)]_vars

\* No result enters the statistics between the report and the reset, which
\* takes no lock (monitor.c:98-113): what the monitor did not print, it does not
\* wipe out.
NothingSwallowed == [][monitor = "reset" /\ monitor' = "reset" => statistics' = statistics]_vars

\* The rounds as the program's users see them.
HostRoundsImpl == INSTANCE HostRounds
  WITH todo <- {h \in Hosts : h >= next_host},
       holds <- [p \in Pollers |-> IF Polling(p) THEN index[p] ELSE NoHost],
       running <- iterating,
       stopping <- thread_stop_requested
HostRoundsSpec == HostRoundsImpl!Spec

\* Unless the threads are asked to stop, every host is polled again and again
\* (monitor.c:39-60 and poller.c:38-56 never wait for one another for ever).
HostsKeepBeingPolled ==
  \A h \in Hosts : []<>(thread_stop_requested \/ \E p \in Pollers : Polling(p) /\ index[p] = h)

\* After a stop request the monitor returns and every poller comes to rest,
\* returned or waiting for a broadcast: polling does not go on (monitor.c:39,
\* poller.c:38, 44, 51).
StopSettles ==
  thread_stop_requested ~> [](monitor = "done" /\
                              \A p \in Pollers : pc[p] \in {"waiting", "returned", "broke"})

\* After a stop request every thread returns, so that main can join them
\* (globals.h:52, main.c:244-246).
StopEndsThreads ==
  thread_stop_requested ~> (monitor = "done" /\ \A p \in Pollers : Ended(p))
=============================================================================
