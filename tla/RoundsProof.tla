----------------------------- MODULE RoundsProof -----------------------------
(***************************************************************************)
(* Proofs about the polling rounds, for every number of pollers and hosts. *)
(*                                                                         *)
(* The first part holds of every schedule: Core is inductive with late and *)
(* spurious wakeups.  The second part assumes that the monitor's nap is    *)
(* long enough (PromptScheduling) and that no wakeup is spurious; Timed is *)
(* inductive under these and yields the rounds of module HostRounds.       *)
(***************************************************************************)
EXTENDS Rounds, FiniteSetTheorems, TLAPS

\* At most one poller is between the load and the store of next_host.
OneTaker == \A p, q \in Pollers : (pc[p] = "take" /\ pc[q] = "take") => p = q

\* A poller that polls has the index of a host, one that loaded an index has it.
Indexed == \A p \in Pollers : /\ pc[p] = "take" => index[p] \in 0 .. NHosts
                              /\ pc[p] = "poll" => index[p] \in Hosts

\* What was given out since the reset lies below every index to come.
HandedBelow == \A h \in handed : /\ h < next_host
                                 /\ \A p \in Pollers : pc[p] = "take" => h < index[p]

Core == TypeOK /\ ActiveCount /\ OneTaker /\ Indexed /\ HandedBelow

-----------------------------------------------------------------------------
\* The counted pollers are a finite set, no larger than the set of pollers.
LEMMA CountedFinite ==
  /\ IsFiniteSet(Counted)
  /\ Cardinality(Counted) \in 0 .. Cardinality(Pollers)
  /\ Cardinality(Counted) = 0 <=> Counted = {}
<1>1. Counted \subseteq Pollers
  BY DEF Counted
<1>2. IsFiniteSet(Pollers)
  BY PollersAssumption
<1>3. IsFiniteSet(Counted) /\ Cardinality(Counted) <= Cardinality(Pollers)
  BY <1>1, <1>2, FS_Subset
<1>. QED
  BY <1>2, <1>3, FS_CardinalityType, FS_EmptySet

\* Hence so is their number after a step.
LEMMA ActiveRange ==
  ASSUME ActiveCount'
  PROVE  active_threads' \in 0 .. Cardinality(Pollers)
<1>1. Counted' \subseteq Pollers
  BY DEF Counted
<1>2. IsFiniteSet(Pollers)
  BY PollersAssumption
<1>3. IsFiniteSet(Counted') /\ Cardinality(Counted') <= Cardinality(Pollers)
  BY <1>1, <1>2, FS_Subset
<1>. QED
  BY <1>2, <1>3, FS_CardinalityType DEF ActiveCount

\* Only thread_active adds a poller to those counted ...
LEMMA CountUp ==
  ASSUME TypeOK, NEW p \in Pollers, thread_active(p)
  PROVE  /\ Counted' = Counted \cup {p}
         /\ Cardinality(Counted') = Cardinality(Counted) + 1
<1>1. Counted' = Counted \cup {p} /\ p \notin Counted
  BY DEF TypeOK, thread_active, Goto, Counted
<1>. QED
  BY <1>1, CountedFinite, FS_AddElement

\* ... and only thread_inactive removes one, if it comes from a round.
LEMMA CountDown ==
  ASSUME TypeOK, NEW p \in Pollers, thread_inactive(p)
  PROVE  /\ Counted' \subseteq Counted
         /\ Cardinality(Counted') = IF fresh[p] THEN Cardinality(Counted)
                                    ELSE Cardinality(Counted) - 1
<1>1. CASE fresh[p]
  <2>1. Counted' = Counted
    BY <1>1 DEF TypeOK, thread_inactive, Goto, Counted
  <2>. QED
    BY <1>1, <2>1
<1>2. CASE ~fresh[p]
  <2>1. Counted' = Counted \ {p} /\ p \in Counted
    BY <1>2 DEF TypeOK, thread_inactive, Goto, Counted
  <2>. QED
    BY <1>2, <2>1, CountedFinite, FS_RemoveElement
<1>. QED
  BY <1>1, <1>2

\* The other steps of a poller keep it counted or uncounted.
LEMMA CountKept ==
  ASSUME TypeOK, NEW p \in Pollers,
         \/ PollerTop(p) \/ PollerWoken(p) \/ PollerNext(p) \/ LoadNextHost(p)
         \/ TakeHost(p) \/ NoHostLeft(p) \/ process_host(p) \/ SpuriousWakeup(p)
  PROVE  Counted' = Counted
<1> USE DEF TypeOK, Counted, Goto
<1>1. CASE PollerTop(p)
  BY <1>1 DEF PollerTop
<1>2. CASE PollerWoken(p)
  BY <1>2 DEF PollerWoken
<1>3. CASE PollerNext(p)
  <2>1. CASE thread_stop_requested
    BY <1>3, <2>1 DEF PollerNext
  <2>2. CASE ~thread_stop_requested
    BY <1>3, <2>2 DEF PollerNext
  <2>. QED
    BY <2>1, <2>2
<1>4. CASE LoadNextHost(p)
  BY <1>4 DEF LoadNextHost
<1>5. CASE TakeHost(p)
  BY <1>5 DEF TakeHost
<1>6. CASE NoHostLeft(p)
  BY <1>6 DEF NoHostLeft
<1>7. CASE process_host(p)
  BY <1>7 DEF process_host
<1>8. CASE SpuriousWakeup(p)
  BY <1>8 DEF SpuriousWakeup
<1>. QED
  BY <1>1, <1>2, <1>3, <1>4, <1>5, <1>6, <1>7, <1>8

\* A broadcast moves only pollers that wait, which are not counted.
LEMMA CountBroadcast ==
  ASSUME TypeOK, Broadcast, fresh' = fresh
  PROVE  Counted' = Counted
BY DEF TypeOK, Broadcast, Woken, Counted

\* active_threads follows the number of counted pollers through every step.
LEMMA CountStep ==
  ASSUME TypeOK, ActiveCount, [Next]_vars
  PROVE  ActiveCount'
<1>1. ASSUME NEW p \in Pollers, poller_run(p) \/ SpuriousWakeup(p)
      PROVE  ActiveCount'
  <2>1. CASE thread_active(p)
    BY <2>1, CountUp DEF ActiveCount, thread_active
  <2>2. CASE thread_inactive(p)
    BY <2>2, CountDown DEF ActiveCount, thread_inactive, Decrement
  <2>3. CASE \/ PollerTop(p) \/ PollerWoken(p) \/ PollerNext(p) \/ LoadNextHost(p)
             \/ TakeHost(p) \/ NoHostLeft(p) \/ process_host(p) \/ SpuriousWakeup(p)
    <3>1. active_threads' = active_threads
      BY <2>3 DEF PollerTop, PollerWoken, PollerNext, LoadNextHost, TakeHost,
                  NoHostLeft, process_host, SpuriousWakeup
    <3>. QED
      BY <2>3, <3>1, CountKept DEF ActiveCount
  <2>. QED
    BY <1>1, <2>1, <2>2, <2>3 DEF poller_run
<1>2. ASSUME UNCHANGED <<active_threads, pc, fresh>>
      PROVE  ActiveCount'
  <2>1. Counted' = Counted
    BY <1>2 DEF Counted
  <2>. QED
    BY <1>2, <2>1 DEF ActiveCount
<1>3. CASE monitor_run
  <2>1. CASE start_iteration
    BY <2>1, CountBroadcast DEF start_iteration, ActiveCount
  <2>2. CASE \/ NapEnds \/ MonitorLoop \/ MonitorLook \/ end_iteration \/ ResetStatistics
             \/ RoundNotOver \/ TimedWaitEnds
    BY <2>2, <1>2 DEF NapEnds, MonitorLoop, MonitorLook, end_iteration, ResetStatistics,
                      RoundNotOver, TimedWaitEnds, threadVars
  <2>. QED
    BY <1>3, <2>1, <2>2 DEF monitor_run
<1>4. CASE HandlerBroadcasts
  BY <1>4, CountBroadcast DEF HandlerBroadcasts, ActiveCount
<1>5. CASE TimePasses \/ SignalArrives \/ AllJoined \/ UNCHANGED vars
  BY <1>5, <1>2 DEF TimePasses, SignalArrives, AllJoined, vars, threadVars
<1>. QED
  BY <1>1, <1>3, <1>4, <1>5 DEF Next

\* Every step keeps the types.
LEMMA TypeStep ==
  ASSUME Core, [Next]_vars
  PROVE  TypeOK'
<1> USE NHostsAssumption, BoundsAssumption DEF Hosts
<1>0. TypeOK /\ ActiveCount /\ Indexed
  BY DEF Core
<1>1. active_threads' \in 0 .. Cardinality(Pollers)
  BY <1>0, CountStep, ActiveRange
<1>1a. 0 \in 0 .. NHosts /\ 0 \in 0 .. StatisticsCap
  OBVIOUS
<1>2. ASSUME NEW p \in Pollers, poller_run(p) \/ SpuriousWakeup(p)
      PROVE  TypeOK'
  <2> USE <1>0, <1>1 DEF TypeOK, Goto, monitorVars, signalVars
  <2>1. CASE PollerTop(p)
    BY <2>1 DEF PollerTop
  <2>2. CASE thread_inactive(p)
    BY <2>2 DEF thread_inactive
  <2>3. CASE PollerWoken(p)
    BY <2>3 DEF PollerWoken
  <2>4. CASE thread_active(p)
    BY <2>4 DEF thread_active
  <2>5. CASE PollerNext(p)
    BY <2>5 DEF PollerNext
  <2>6. CASE LoadNextHost(p)
    BY <2>6 DEF LoadNextHost
  <2>7. CASE TakeHost(p)
    <3>1. index[p] \in Hosts /\ index[p] + 1 \in 0 .. NHosts
      BY <2>7 DEF TakeHost, Indexed
    <3>2. handed' \in SUBSET Hosts
      BY <2>7, <3>1 DEF TakeHost
    <3>. QED
      BY <2>7, <3>1, <3>2 DEF TakeHost
  <2>8. CASE NoHostLeft(p)
    BY <2>8 DEF NoHostLeft
  <2>9. CASE process_host(p)
    BY <2>9 DEF process_host
  <2>10. CASE SpuriousWakeup(p)
    BY <2>10 DEF SpuriousWakeup
  <2>. QED
    BY <1>2, <2>1, <2>2, <2>3, <2>4, <2>5, <2>6, <2>7, <2>8, <2>9, <2>10 DEF poller_run
<1>3. CASE monitor_run
  <2> USE <1>0, <1>1 DEF TypeOK, threadVars, signalVars
  <2>1. CASE NapEnds
    BY <2>1 DEF NapEnds
  <2>2. CASE MonitorLoop
    BY <2>2 DEF MonitorLoop
  <2>3. CASE MonitorLook
    BY <2>3 DEF MonitorLook
  <2>4. CASE start_iteration
    BY <1>1a, <2>4 DEF start_iteration, Broadcast, ResetNext
  <2>5. CASE end_iteration
    BY <2>5 DEF end_iteration
  <2>8. CASE ResetStatistics
    BY <1>1a, <2>8 DEF ResetStatistics
  <2>6. CASE RoundNotOver
    BY <2>6 DEF RoundNotOver
  <2>7. CASE TimedWaitEnds
    BY <2>7 DEF TimedWaitEnds
  <2>. QED
    BY <1>3, <2>1, <2>2, <2>3, <2>4, <2>5, <2>6, <2>7, <2>8 DEF monitor_run
<1>4. CASE TimePasses \/ SignalArrives
  <2>1. signals' \in 0 .. MaxSignals /\ handler' \in Nat
    <3>1. CASE TimePasses
      BY <1>0, <3>1 DEF TimePasses, TypeOK, signalVars
    <3>2. CASE SignalArrives
      BY <1>0, <3>2, BoundsAssumption DEF SignalArrives, TypeOK
    <3>. QED
      BY <1>4, <3>1, <3>2
  <2>. QED
    BY <1>0, <1>1, <1>4, <2>1
       DEF TimePasses, SignalArrives, TypeOK, threadVars, monitorVars, signalVars
<1>5. CASE HandlerBroadcasts
  <2>1. handler' \in Nat
    BY <1>0, <1>5 DEF HandlerBroadcasts, TypeOK
  <2>. QED
    BY <1>0, <1>1, <1>5, <2>1 DEF HandlerBroadcasts, Broadcast, TypeOK
<1>6. CASE AllJoined \/ UNCHANGED vars
  BY <1>0, <1>1, <1>6 DEF AllJoined, vars, TypeOK, threadVars, monitorVars, signalVars
<1>. QED
  BY <1>2, <1>3, <1>4, <1>5, <1>6 DEF Next

-----------------------------------------------------------------------------
\* A poller's step keeps the facts about loaded and given-out indexes.
LEMMA PollerIndexStep ==
  ASSUME Core, NEW p \in Pollers, poller_run(p) \/ SpuriousWakeup(p)
  PROVE  OneTaker' /\ Indexed' /\ HandedBelow'
<1> USE NHostsAssumption DEF Hosts, Goto
<1>0. TypeOK /\ OneTaker /\ Indexed /\ HandedBelow
  BY DEF Core
<1>1. CASE LoadNextHost(p)
  BY <1>0, <1>1 DEF LoadNextHost, ListUnlocked, TypeOK, OneTaker, Indexed, HandedBelow
<1>2. CASE TakeHost(p)
  <2>1. OneTaker' /\ Indexed'
    BY <1>0, <1>2 DEF TakeHost, TypeOK, OneTaker, Indexed
  <2>2. \A q \in Pollers : pc'[q] # "take"
    BY <1>0, <1>2 DEF TakeHost, TypeOK, OneTaker
  <2>3. \A h \in handed' : h < next_host'
    BY <1>0, <1>2 DEF TakeHost, TypeOK, Indexed, HandedBelow
  <2>. QED
    BY <2>1, <2>2, <2>3 DEF HandedBelow
<1>3. CASE NoHostLeft(p)
  BY <1>0, <1>3 DEF NoHostLeft, TypeOK, OneTaker, Indexed, HandedBelow
<1>4. CASE process_host(p)
  BY <1>0, <1>4 DEF process_host, TypeOK, OneTaker, Indexed, HandedBelow
<1>5. CASE \/ PollerTop(p) \/ thread_inactive(p) \/ PollerWoken(p)
           \/ thread_active(p) \/ PollerNext(p) \/ SpuriousWakeup(p)
  <2>1. /\ UNCHANGED <<index, next_host, handed>>
        /\ \A q \in Pollers : pc'[q] \in {"take", "poll"} => pc'[q] = pc[q]
    BY <1>0, <1>5 DEF PollerTop, thread_inactive, PollerWoken, thread_active, PollerNext,
                      SpuriousWakeup, TypeOK
  <2>. QED
    BY <1>0, <2>1 DEF OneTaker, Indexed, HandedBelow
<1>. QED
  BY <1>1, <1>2, <1>3, <1>4, <1>5 DEF poller_run

\* The monitor, the clock and the handler keep them too: a reset empties
\* the history together with the list.
LEMMA OtherIndexStep ==
  ASSUME Core, \/ monitor_run \/ TimePasses \/ SignalArrives \/ HandlerBroadcasts
               \/ AllJoined \/ UNCHANGED vars
  PROVE  OneTaker' /\ Indexed' /\ HandedBelow'
<1>0. TypeOK /\ OneTaker /\ Indexed /\ HandedBelow
  BY DEF Core
<1>1. CASE start_iteration
  BY <1>0, <1>1 DEF start_iteration, Broadcast, TypeOK, OneTaker, Indexed, HandedBelow
<1>2. CASE HandlerBroadcasts
  BY <1>0, <1>2 DEF HandlerBroadcasts, Broadcast, TypeOK, OneTaker, Indexed, HandedBelow
<1>3. CASE UNCHANGED <<pc, index, next_host, handed>>
  BY <1>0, <1>3 DEF OneTaker, Indexed, HandedBelow
<1>. QED
  BY <1>1, <1>2, <1>3 DEF monitor_run, NapEnds, MonitorLoop, MonitorLook, end_iteration,
       ResetStatistics, RoundNotOver, TimedWaitEnds, TimePasses, SignalArrives, AllJoined, vars, threadVars

\* Core holds at the start, and every step keeps it.
LEMMA CoreInit == Init => Core
<1> SUFFICES ASSUME Init
             PROVE  Core
  OBVIOUS
<1>1. Counted = {}
  BY DEF Init, Counted
<1>2. ActiveCount
  BY <1>1, FS_EmptySet DEF Init, ActiveCount
<1>3. 0 \in 0 .. Cardinality(Pollers)
  BY PollersAssumption, FS_CardinalityType
<1>4. 0 \in 0 .. NHosts /\ 0 \in 0 .. StatisticsCap /\ MaxSignals \in 0 .. MaxSignals
  BY NHostsAssumption, BoundsAssumption
<1>5. TypeOK
  BY <1>3, <1>4, NHostsAssumption, BoundsAssumption DEF Init, TypeOK, Hosts
<1>. QED
  BY <1>2, <1>5 DEF Init, Core, OneTaker, Indexed, HandedBelow

LEMMA CoreStep ==
  ASSUME Core, [Next]_vars
  PROVE  Core'
<1>1. TypeOK' /\ ActiveCount'
  BY TypeStep, CountStep DEF Core
<1>2. OneTaker' /\ Indexed' /\ HandedBelow'
  BY PollerIndexStep, OtherIndexStep DEF Next
<1>. QED
  BY <1>1, <1>2 DEF Core

\* Core is an invariant of every schedule.
THEOREM CoreInvariant == Spec => []Core
<1>1. Core /\ [Next]_vars => Core'
  BY CoreStep
<1>. QED
  BY <1>1, CoreInit, PTL DEF Spec

\* The variables keep their types in every schedule.
THEOREM TypeCorrect == Spec => []TypeOK
<1>1. Core => TypeOK
  BY DEF Core
<1>. QED
  BY <1>1, CoreInvariant, PTL

\* active_threads is the number of pollers between thread_active and
\* thread_inactive in every schedule (poller.c:60-86).
THEOREM ActiveCountExact == Spec => []ActiveCount
<1>1. Core => ActiveCount
  BY DEF Core
<1>. QED
  BY <1>1, CoreInvariant, PTL

\* No host is given out twice between two resets of the list, wherever the
\* unlocked reset falls (rtgtargets.c:377-390).
THEOREM HandedOutOnce == Spec => AtMostOncePerRound
<1> DEFINE Once == \A p \in Pollers : (~Polling(p) /\ Polling(p)') => index[p] \notin handed
<1>1. Core /\ [Next]_vars => [Once]_vars
  <2> SUFFICES ASSUME Core, Next, NEW p \in Pollers, ~Polling(p), Polling(p)'
               PROVE  index[p] \notin handed
    BY DEF Polling
  <2>1. TakeHost(p)
    BY DEF Core, TypeOK, Polling, Next, poller_run, monitor_run, Goto, Broadcast,
           PollerTop, thread_inactive, PollerWoken, thread_active, PollerNext, LoadNextHost,
           NoHostLeft, process_host, SpuriousWakeup, TakeHost, NapEnds, MonitorLoop,
           MonitorLook, start_iteration, end_iteration, ResetStatistics, RoundNotOver,
           TimedWaitEnds, TimePasses, SignalArrives, HandlerBroadcasts, AllJoined, vars, threadVars
  <2>2. pc[p] = "take" /\ index[p] \in 0 .. NHosts
    BY <2>1 DEF TakeHost, Core, Indexed
  <2>3. \A h \in handed : h \in Nat /\ h < index[p]
    BY <2>2, NHostsAssumption DEF Core, TypeOK, Hosts, HandedBelow
  <2>. QED
    BY <2>2, <2>3, NHostsAssumption
<1>. QED
  BY <1>1, CoreInvariant, PTL DEF Spec, AtMostOncePerRound

-----------------------------------------------------------------------------
(* Naps that are long enough, and no spurious wakeup.                      *)

Inner(p) == pc[p] \in {"next", "lock", "take", "poll"}

\* A loaded index is still the list's, and a polled host lies below it.
Listed == \A p \in Pollers : /\ pc[p] = "take" => index[p] = next_host
                             /\ pc[p] = "poll" => index[p] < next_host

\* Only a stop request wakes a poller while the monitor is not napping, and
\* no poller is about to count itself.
Quiet == monitor \in {"loop", "look", "start", "check", "reset", "timedwait"}
           => \A p \in Pollers : /\ pc[p] # "active"
                                 /\ pc[p] = "woken" => thread_stop_requested

\* Every poller has come to its first wait before the monitor's first look.
Arrived == monitor # "first_nap"
             => \A p \in Pollers : fresh[p] => pc[p] \notin {"top", "inactive"}

\* No poller takes part in a round when the monitor starts or reports one.
StartsAlone == monitor \in {"start", "reset"} => Counted = {}

\* Pollers end, and the handler broadcasts, only after a stop request.
StopSeen == /\ \A p \in Pollers : Ended(p) => thread_stop_requested
            /\ handler > 0 => thread_stop_requested

\* A poller takes part only in a round that has started ...
Inside == \A p \in Pollers :
            (Inner(p) \/ pc[p] = "active" \/ (pc[p] = "woken" /\ ~thread_stop_requested))
              => iterating

\* ... and while hosts are left some poller is still on its way to take one.
Attended == (iterating /\ next_host < NHosts /\ ~thread_stop_requested)
              => \E p \in Pollers : Inner(p) \/ pc[p] \in {"woken", "active"}

\* A round that is being reported has been started.
Reporting == monitor = "reset" => iterating

Timed == Listed /\ HostExclusive /\ Quiet /\ Arrived /\ StartsAlone /\ StopSeen
           /\ Inside /\ Attended /\ Reporting

\* When the monitor reads that nobody is active, nobody is taking part, and
\* unless there is a stop request every poller waits.
LEMMA AllWait ==
  ASSUME Core, Timed, Counted = {},
         monitor \in {"look", "start", "check", "reset"}
  PROVE  \A p \in Pollers : /\ ~Inner(p) /\ pc[p] # "active"
                            /\ \/ pc[p] = "waiting"
                               \/ /\ thread_stop_requested
                                  /\ pc[p] \in {"woken", "returned", "broke"}
BY DEF Core, TypeOK, Timed, Quiet, Arrived, StopSeen, Counted, Inner, Ended

\* A poller's step keeps the timed invariant.
LEMMA TimedPollerStep ==
  ASSUME Core, Timed, NEW p \in Pollers, poller_run(p)
  PROVE  Timed'
<1> USE NHostsAssumption DEF Hosts, Goto, Core, TypeOK, OneTaker, Indexed, Timed, Listed,
        HostExclusive, Polling, Quiet, Arrived, StartsAlone, StopSeen, Inside, Attended, Reporting,
        Inner, Ended, monitorVars, signalVars
<1>1. CASE PollerTop(p)
  BY <1>1, CountKept DEF PollerTop
<1>2. CASE thread_inactive(p)
  BY <1>2, CountDown DEF thread_inactive
<1>3. CASE PollerWoken(p)
  BY <1>3, CountKept DEF PollerWoken
<1>4. CASE thread_active(p)
  BY <1>4 DEF thread_active
<1>5. CASE PollerNext(p)
  BY <1>5, CountKept DEF PollerNext
<1>6. CASE LoadNextHost(p)
  BY <1>6, CountKept DEF LoadNextHost, ListUnlocked
<1>7. CASE TakeHost(p)
  <2>1. /\ index[p] = next_host /\ next_host' = next_host + 1
        /\ next_host \in Nat
        /\ pc' = [pc EXCEPT ![p] = "poll"]
        /\ \A q \in Pollers : pc'[q] # "take"
    BY <1>7 DEF TakeHost
  <2>2. \A q \in Pollers : (q # p /\ pc[q] = "poll") => index[q] \in Nat /\ index[q] < index[p]
    BY <2>1
  <2>3. Listed'
    BY <1>7, <2>1, <2>2 DEF TakeHost
  <2>4. HostExclusive'
    BY <1>7, <2>1, <2>2 DEF TakeHost
  <2>5. Quiet' /\ Arrived' /\ StartsAlone' /\ StopSeen' /\ Inside' /\ Attended' /\ Reporting'
    BY <1>7, CountKept DEF TakeHost
  <2>. QED
    BY <2>3, <2>4, <2>5
<1>8. CASE NoHostLeft(p)
  <2>1. Listed' /\ HostExclusive' /\ Quiet' /\ Arrived' /\ StartsAlone' /\ StopSeen' /\ Inside' /\ Reporting'
    BY <1>8, CountKept DEF NoHostLeft
  <2>2. index[p] = next_host /\ index[p] >= NHosts /\ next_host' = next_host
    BY <1>8 DEF NoHostLeft
  <2>3. ~(next_host' < NHosts)
    BY <2>2
  <2>. QED
    BY <2>1, <2>3
<1>9. CASE process_host(p)
  BY <1>9, CountKept DEF process_host
<1>. QED
  BY <1>1, <1>2, <1>3, <1>4, <1>5, <1>6, <1>7, <1>8, <1>9 DEF poller_run

\* So does the monitor's: the nap lasts until the woken pollers count
\* themselves, and a round starts or ends only when nobody takes part.
LEMMA TimedMonitorStep ==
  ASSUME Core, Timed, PromptScheduling, ~SpuriousWakeups, monitor_run
  PROVE  Timed'
<1> USE NHostsAssumption DEF Hosts, Core, TypeOK, Timed, Listed, HostExclusive, Polling, Quiet,
        Arrived, StartsAlone, StopSeen, Inside, Attended, Reporting, Inner, Ended, threadVars, signalVars
<1>1. ASSUME active_threads = 0
      PROVE  Counted = {}
  BY <1>1, CountedFinite DEF ActiveCount
<1>2. UNCHANGED <<pc, fresh>> => Counted' = Counted
  BY DEF Counted
<1>3. CASE NapEnds
  BY <1>2, <1>3 DEF NapEnds, Settled
<1>4. CASE MonitorLoop
  BY <1>2, <1>4 DEF MonitorLoop
<1>5. CASE MonitorLook
  BY <1>1, <1>2, <1>5 DEF MonitorLook
<1>6. CASE start_iteration
  <2>1. Counted = {} /\ monitor = "start"
    BY <1>6 DEF start_iteration
  <2>2. \A p \in Pollers : /\ ~Inner(p) /\ pc[p] # "active"
                           /\ ~thread_stop_requested => pc[p] = "waiting"
    BY <2>1, AllWait
  <2>3. \A p \in Pollers : pc'[p] = IF pc[p] = "waiting" THEN "woken" ELSE pc[p]
    BY <1>6 DEF start_iteration, Broadcast, Woken
  <2>4. \E p \in Pollers : TRUE
    BY PollersAssumption
  <2>5. Attended'
    BY <1>6, <2>2, <2>3, <2>4 DEF start_iteration
  <2>6. Listed' /\ HostExclusive' /\ Quiet' /\ Arrived' /\ StartsAlone' /\ StopSeen' /\ Inside' /\ Reporting'
    BY <1>6, <2>2, <2>3 DEF start_iteration
  <2>. QED
    BY <2>5, <2>6
<1>7. CASE end_iteration
  BY <1>1, <1>2, <1>7 DEF end_iteration, RoundOver
<1>10. CASE ResetStatistics
  <2>1. Counted = {} /\ monitor = "reset"
    BY <1>10 DEF ResetStatistics
  <2>2. \A p \in Pollers : ~Inner(p) /\ pc[p] # "active"
    BY <2>1, AllWait
  <2>3. UNCHANGED <<pc, fresh, index, next_host, thread_stop_requested, handler>>
    BY <1>10 DEF ResetStatistics
  <2>4. monitor' \in {"loop", "timedwait"} /\ iterating' = FALSE
    BY <1>10 DEF ResetStatistics
  <2>. QED
    BY <2>1, <2>2, <2>3, <2>4
<1>8. CASE RoundNotOver
  BY <1>2, <1>8 DEF RoundNotOver
<1>9. CASE TimedWaitEnds
  BY <1>2, <1>9 DEF TimedWaitEnds
<1>. QED
  BY <1>3, <1>4, <1>5, <1>6, <1>7, <1>8, <1>9, <1>10 DEF monitor_run

\* And the steps of the clock and of the signal handler.
LEMMA TimedOtherStep ==
  ASSUME Core, Timed, \/ TimePasses \/ SignalArrives \/ HandlerBroadcasts
                      \/ AllJoined \/ UNCHANGED vars
  PROVE  Timed'
<1> USE DEF Core, TypeOK, Timed, Listed, HostExclusive, Polling, Quiet, Arrived, StartsAlone,
        StopSeen, Inside, Attended, Reporting, Inner, Ended, threadVars, monitorVars, signalVars
<1>1. UNCHANGED <<pc, fresh>> => Counted' = Counted
  BY DEF Counted
<1>2. CASE TimePasses \/ AllJoined \/ UNCHANGED vars
  BY <1>1, <1>2 DEF TimePasses, AllJoined, vars
<1>3. CASE SignalArrives
  BY <1>1, <1>3 DEF SignalArrives
<1>4. CASE HandlerBroadcasts
  BY <1>4, CountBroadcast DEF HandlerBroadcasts, Broadcast, Woken
<1>. QED
  BY <1>2, <1>3, <1>4

\* With naps that are long enough and no spurious wakeup, every step keeps Timed.
LEMMA TimedInit == Init => Timed
BY NHostsAssumption DEF Init, Timed, Listed, HostExclusive, Polling, Quiet, Arrived, StartsAlone,
   StopSeen, Inside, Attended, Reporting, Inner, Ended

LEMMA TimedStep ==
  ASSUME PromptScheduling, ~SpuriousWakeups, Core, Timed, [Next]_vars
  PROVE  Timed'
BY TimedPollerStep, TimedMonitorStep, TimedOtherStep DEF Next, SpuriousWakeup

THEOREM TimedInvariant ==
  ASSUME PromptScheduling, ~SpuriousWakeups
  PROVE  Spec => []Timed
<1>1. Core /\ Timed /\ [Next]_vars => Timed'
  BY TimedStep
<1>. QED
  BY <1>1, TimedInit, CoreInvariant, PTL DEF Spec

\* No two pollers poll the same host at the same time, so the rows' cached
\* values have one user (poller.c:190-209).
THEOREM HostsExclusive ==
  ASSUME PromptScheduling, ~SpuriousWakeups
  PROVE  Spec => []HostExclusive
<1>1. Timed => HostExclusive
  BY DEF Timed
<1>. QED
  BY <1>1, TimedInvariant, PTL

\* The reset of the statistics wipes out nothing that was not reported: nobody
\* polls between the two, though neither takes a lock (monitor.c:98-113).
THEOREM NothingIsSwallowed ==
  ASSUME PromptScheduling, ~SpuriousWakeups
  PROVE  Spec => NothingSwallowed
<1>1. Core /\ Timed /\ [Next]_vars
        => [monitor = "reset" /\ monitor' = "reset" => statistics' = statistics]_vars
  <2> SUFFICES ASSUME Core, Timed, Next, monitor = "reset", monitor' = "reset"
               PROVE  statistics' = statistics
    OBVIOUS
  <2>1. \A p \in Pollers : pc[p] # "poll"
    BY AllWait DEF Timed, StartsAlone, Inner
  <2>. QED
    BY <2>1 DEF Next, poller_run, monitor_run, PollerTop, thread_inactive, PollerWoken,
       thread_active, PollerNext, LoadNextHost, TakeHost, NoHostLeft, process_host, SpuriousWakeup,
       NapEnds, MonitorLoop, MonitorLook, start_iteration, end_iteration, ResetStatistics,
       RoundNotOver, TimedWaitEnds, TimePasses, SignalArrives, HandlerBroadcasts, AllJoined, vars
<1>. QED
  BY <1>1, CoreInvariant, TimedInvariant, PTL DEF Spec, NothingSwallowed

-----------------------------------------------------------------------------
(* The statistics.                                                         *)

\* Of the hosts given out in a round those that are not in the statistics are
\* being polled, unless the count is saturated.
PollingNow == {p \in Pollers : Polling(p)}
Covered == iterating => \/ statistics = StatisticsCap
                        \/ statistics + Cardinality(PollingNow) >= next_host

LEMMA PollingFinite == IsFiniteSet(PollingNow) /\ Cardinality(PollingNow) \in Nat
<1>1. PollingNow \subseteq Pollers
  BY DEF PollingNow
<1>. QED
  BY <1>1, PollersAssumption, FS_Subset, FS_CardinalityType

\* A poller that takes a host is one more that polls, one that has polled enters
\* its results.
LEMMA CoveredPollerStep ==
  ASSUME Core, Timed, Covered, NEW p \in Pollers, poller_run(p)
  PROVE  Covered'
<1> USE NHostsAssumption, BoundsAssumption DEF Core, TypeOK
<1>1. CASE TakeHost(p)
  <2>1. PollingNow' = PollingNow \cup {p} /\ p \notin PollingNow
    BY <1>1 DEF TakeHost, PollingNow, Polling, Goto
  <2>2. Cardinality(PollingNow') = Cardinality(PollingNow) + 1
    BY <2>1, PollingFinite, FS_AddElement
  <2>3. next_host' = next_host + 1 /\ UNCHANGED <<statistics, iterating>>
    BY <1>1 DEF TakeHost, Timed, Listed, monitorVars
  <2>. QED
    BY <2>2, <2>3, PollingFinite DEF Covered
<1>2. CASE process_host(p)
  <2>1. PollingNow' = PollingNow \ {p} /\ p \in PollingNow
    BY <1>2 DEF process_host, PollingNow, Polling, Goto
  <2>2. Cardinality(PollingNow') = Cardinality(PollingNow) - 1
    BY <2>1, PollingFinite, FS_RemoveElement
  <2>3. /\ statistics' = IF statistics < StatisticsCap THEN statistics + 1 ELSE statistics
        /\ UNCHANGED <<next_host, iterating>>
    BY <1>2 DEF process_host, monitorVars
  <2>. QED
    BY <2>2, <2>3, PollingFinite DEF Covered
<1>3. CASE \/ PollerTop(p) \/ thread_inactive(p) \/ PollerWoken(p) \/ thread_active(p)
           \/ PollerNext(p) \/ LoadNextHost(p) \/ NoHostLeft(p)
  <2>1. UNCHANGED <<statistics, next_host, iterating>>
    BY <1>3 DEF PollerTop, thread_inactive, PollerWoken, thread_active, PollerNext,
                LoadNextHost, NoHostLeft, monitorVars
  <2>2. PollingNow' = PollingNow
    BY <1>3 DEF PollerTop, thread_inactive, PollerWoken, thread_active, PollerNext,
                LoadNextHost, NoHostLeft, Goto, PollingNow, Polling
  <2>. QED
    BY <2>1, <2>2 DEF Covered
<1>. QED
  BY <1>1, <1>2, <1>3 DEF poller_run

\* A round starts with nothing given out; its reset comes with its end.
LEMMA CoveredOtherStep ==
  ASSUME Core, Covered, \/ monitor_run \/ TimePasses \/ SignalArrives \/ HandlerBroadcasts
                        \/ AllJoined \/ UNCHANGED vars
  PROVE  Covered'
<1> USE DEF Core, TypeOK, threadVars, monitorVars, vars
<1>1. PollingNow' = PollingNow
  BY DEF PollingNow, Polling, monitor_run, NapEnds, MonitorLoop, MonitorLook, start_iteration,
         end_iteration, ResetStatistics, RoundNotOver, TimedWaitEnds, TimePasses, SignalArrives,
         HandlerBroadcasts, Broadcast, Woken, AllJoined
<1>2. CASE start_iteration
  BY <1>1, <1>2, PollingFinite DEF start_iteration, ResetNext, Covered
<1>3. CASE ResetStatistics
  BY <1>3 DEF ResetStatistics, Covered
<1>4. CASE UNCHANGED <<statistics, next_host, iterating>>
  BY <1>1, <1>4 DEF Covered
<1>. QED
  BY <1>2, <1>3, <1>4 DEF monitor_run, NapEnds, MonitorLoop, MonitorLook, end_iteration,
     RoundNotOver, TimedWaitEnds, TimePasses, SignalArrives, HandlerBroadcasts, AllJoined

\* The report of a round that no stop cut short covers every host: the monitor
\* cannot read "nobody active" while a host is unpolled or its results are on
\* their way (globals.h:35, monitor.c:54-56, 98-113).
THEOREM ReportsAreComplete ==
  ASSUME PromptScheduling, ~SpuriousWakeups, StatisticsCap >= NHosts
  PROVE  Spec => ReportComplete
<1>1. Init => Covered
  BY DEF Init, Covered
<1>2. Core /\ Timed /\ Covered /\ [Next]_vars => Covered'
  BY CoveredPollerStep, CoveredOtherStep DEF Next, SpuriousWakeup
<1>3. Core /\ Timed /\ Covered /\ [Next]_vars
        => [monitor = "check" /\ monitor' = "reset" =>
              thread_stop_requested \/ statistics >= NHosts]_vars
  <2> SUFFICES ASSUME Core, Timed, Covered, Next, monitor = "check", monitor' = "reset",
                      ~thread_stop_requested
               PROVE  statistics >= NHosts
    OBVIOUS
  <2>1. end_iteration
    BY DEF Next, poller_run, monitor_run, PollerTop, thread_inactive, PollerWoken,
       thread_active, PollerNext, LoadNextHost, TakeHost, NoHostLeft, process_host, SpuriousWakeup,
       NapEnds, MonitorLoop, MonitorLook, start_iteration, end_iteration, ResetStatistics,
       RoundNotOver, TimedWaitEnds, TimePasses, SignalArrives, HandlerBroadcasts, AllJoined,
       vars, monitorVars
  <2>2. Counted = {} /\ iterating
    BY <2>1, CountedFinite DEF end_iteration, RoundOver, Core, ActiveCount
  <2>3. \A p \in Pollers : pc[p] = "waiting"
    BY <2>2, AllWait
  <2>4. next_host >= NHosts
    BY <2>2, <2>3, NHostsAssumption DEF Timed, Attended, Inner, Core, TypeOK
  <2>5. PollingNow = {}
    BY <2>3 DEF PollingNow, Polling
  <2>6. Cardinality(PollingNow) = 0
    BY <2>5, FS_EmptySet
  <2>. QED
    BY <2>2, <2>4, <2>6, NHostsAssumption, BoundsAssumption DEF Covered, Core, TypeOK
<1>. QED
  BY <1>1, <1>2, <1>3, CoreInvariant, TimedInvariant, PTL DEF Spec, ReportComplete

-----------------------------------------------------------------------------
\* Every poller step is a step of the abstract rounds, or invisible there.
LEMMA PollerRefines ==
  ASSUME Core, Timed, NEW p \in Pollers, poller_run(p)
  PROVE  [HostRoundsImpl!Next]_(HostRoundsImpl!vars)
<1> DEFINE Holds == [q \in Pollers |-> IF Polling(q) THEN index[q] ELSE NoHost]
           Todo == {h \in Hosts : h >= next_host}
<1> USE NHostsAssumption DEF Hosts, Polling, Core, TypeOK, Indexed, monitorVars, signalVars
<1>1. CASE TakeHost(p)
  <2>1. /\ index[p] = next_host /\ next_host' = next_host + 1
        /\ index[p] \in Todo
        /\ iterating
        /\ UNCHANGED <<iterating, thread_stop_requested>>
    BY <1>1 DEF TakeHost, Timed, Listed, Inside, Inner
  <2>2. Todo' = Todo \ {index[p]}
    BY <2>1
  <2>3. Holds' = [Holds EXCEPT ![p] = index[p]] /\ Holds[p] = NoHost
    BY <1>1 DEF TakeHost, Goto
  <2>4. HostRoundsImpl!Take(p)
    BY <2>1, <2>2, <2>3 DEF HostRoundsImpl!Take
  <2>. QED
    BY <2>4 DEF HostRoundsImpl!Next
<1>2. CASE process_host(p)
  <2>1. Holds' = [Holds EXCEPT ![p] = NoHost] /\ Holds[p] # NoHost
    <3>1. Polling(p) /\ index[p] \in Nat /\ ~Polling(p)'
      BY <1>2 DEF process_host, Goto
    <3>2. Holds[p] # NoHost
      BY <3>1
    <3>3. \A q \in Pollers : q # p => Polling(q)' = Polling(q) /\ index'[q] = index[q]
      BY <1>2 DEF process_host, Goto
    <3>. QED
      BY <3>1, <3>2, <3>3
  <2>2. Todo' = Todo /\ UNCHANGED <<iterating, thread_stop_requested>>
    BY <1>2 DEF process_host
  <2>3. HostRoundsImpl!Finish(p)
    BY <2>1, <2>2 DEF HostRoundsImpl!Finish
  <2>. QED
    BY <2>3 DEF HostRoundsImpl!Next
<1>3. CASE \/ PollerTop(p) \/ thread_inactive(p) \/ PollerWoken(p) \/ thread_active(p)
           \/ PollerNext(p) \/ LoadNextHost(p) \/ NoHostLeft(p)
  <2>1. UNCHANGED <<next_host, iterating, thread_stop_requested>>
    BY <1>3 DEF PollerTop, thread_inactive, PollerWoken, thread_active, PollerNext,
                LoadNextHost, NoHostLeft
  <2>2. \A q \in Pollers : /\ Polling(q)' = Polling(q)
                           /\ Polling(q) => index'[q] = index[q]
    BY <1>3 DEF PollerTop, thread_inactive, PollerWoken, thread_active, PollerNext,
                LoadNextHost, NoHostLeft, Goto
  <2>3. Holds' = Holds /\ Todo' = Todo
    BY <2>1, <2>2
  <2>. QED
    BY <2>1, <2>3 DEF HostRoundsImpl!vars
<1>. QED
  BY <1>1, <1>2, <1>3 DEF poller_run

\* A broadcast wakes pollers that wait, none of which polls.
LEMMA BroadcastHidden ==
  ASSUME TypeOK, Broadcast, index' = index
  PROVE  [q \in Pollers |-> IF Polling(q) THEN index[q] ELSE NoHost]'
           = [q \in Pollers |-> IF Polling(q) THEN index[q] ELSE NoHost]
BY DEF TypeOK, Broadcast, Woken, Polling

\* The monitor, the clock and the handler start and end the abstract rounds.
LEMMA OthersRefine ==
  ASSUME Core, Timed,
         monitor_run \/ TimePasses \/ SignalArrives \/ HandlerBroadcasts \/ AllJoined
           \/ UNCHANGED vars
  PROVE  [HostRoundsImpl!Next]_(HostRoundsImpl!vars)
<1> DEFINE Holds == [q \in Pollers |-> IF Polling(q) THEN index[q] ELSE NoHost]
           Todo == {h \in Hosts : h >= next_host}
<1> USE NHostsAssumption DEF Hosts, Core, TypeOK, threadVars, monitorVars, signalVars
<1>1. ASSUME Counted = {}, monitor \in {"start", "reset"}
      PROVE  /\ HostRoundsImpl!NobodyPolls
             /\ iterating => HostRoundsImpl!GivenOut
  <2>1. \A p \in Pollers : ~Inner(p) /\ pc[p] # "active" /\ (~thread_stop_requested => pc[p] # "woken")
    BY <1>1, AllWait
  <2>2. HostRoundsImpl!NobodyPolls
    BY <2>1 DEF Inner, Polling, HostRoundsImpl!NobodyPolls
  <2>3. (iterating /\ ~thread_stop_requested) => next_host >= NHosts
    BY <2>1 DEF Timed, Attended
  <2>4. next_host >= NHosts => Todo = {}
    OBVIOUS
  <2>. QED
    BY <2>2, <2>3, <2>4 DEF HostRoundsImpl!GivenOut
<1>2. CASE start_iteration
  <2>1. Counted = {} /\ monitor = "start"
    BY <1>2 DEF start_iteration, Timed, StartsAlone
  <2>2. Holds' = Holds
    BY <1>2, BroadcastHidden DEF start_iteration
  <2>3. Todo' = Hosts
    BY <1>2 DEF start_iteration, ResetNext
  <2>4. HostRoundsImpl!StartRound
    BY <1>1, <1>2, <2>1, <2>2, <2>3 DEF start_iteration, HostRoundsImpl!StartRound
  <2>. QED
    BY <2>4 DEF HostRoundsImpl!Next
<1>3. CASE ResetStatistics
  <2>1. Counted = {} /\ monitor = "reset" /\ iterating
    BY <1>3 DEF ResetStatistics, Timed, StartsAlone, Reporting
  <2>2. Holds' = Holds /\ Todo' = Todo
    BY <1>3 DEF ResetStatistics, Polling
  <2>3. HostRoundsImpl!EndRound
    BY <1>1, <1>3, <2>1, <2>2 DEF ResetStatistics, HostRoundsImpl!EndRound
  <2>. QED
    BY <2>3 DEF HostRoundsImpl!Next
<1>4. CASE SignalArrives
  <2>1. Holds' = Holds /\ Todo' = Todo
    BY <1>4 DEF SignalArrives, Polling
  <2>2. HostRoundsImpl!RequestStop
    BY <1>4, <2>1 DEF SignalArrives, HostRoundsImpl!RequestStop
  <2>. QED
    BY <2>2 DEF HostRoundsImpl!Next
<1>5. CASE HandlerBroadcasts
  <2>1. Holds' = Holds
    BY <1>5, BroadcastHidden DEF HandlerBroadcasts
  <2>2. Todo' = Todo /\ UNCHANGED <<iterating, thread_stop_requested>>
    BY <1>5 DEF HandlerBroadcasts
  <2>. QED
    BY <2>1, <2>2 DEF HostRoundsImpl!vars
<1>6. CASE UNCHANGED <<pc, index, next_host, iterating, thread_stop_requested>>
  <2>1. Holds' = Holds /\ Todo' = Todo
    BY <1>6 DEF Polling
  <2>. QED
    BY <1>6, <2>1 DEF HostRoundsImpl!vars
<1>. QED
  BY <1>2, <1>3, <1>4, <1>5, <1>6 DEF monitor_run, NapEnds, MonitorLoop, MonitorLook,
       end_iteration, RoundNotOver, TimedWaitEnds, TimePasses, AllJoined, vars

\* The monitor and the pollers implement the rounds of module HostRounds: a
\* round starts when nobody polls, gives each host to one poller, and ends
\* when all hosts are given out and finished, unless a stop cuts it short
\* (monitor.c:39-60, poller.c:38-86, rtgtargets.c:377-390).
THEOREM Implementation ==
  ASSUME PromptScheduling, ~SpuriousWakeups
  PROVE  Spec => HostRoundsSpec
<1>1. Init => HostRoundsImpl!Init
  BY NHostsAssumption DEF Init, HostRoundsImpl!Init, Hosts, Polling
<1>2. Core /\ Timed /\ [Next]_vars => [HostRoundsImpl!Next]_(HostRoundsImpl!vars)
  <2> SUFFICES ASSUME Core, Timed, [Next]_vars
               PROVE  [HostRoundsImpl!Next]_(HostRoundsImpl!vars)
    OBVIOUS
  <2>1. ASSUME NEW p \in Pollers, poller_run(p)
        PROVE  [HostRoundsImpl!Next]_(HostRoundsImpl!vars)
    BY <2>1, PollerRefines
  <2>2. CASE monitor_run \/ TimePasses \/ SignalArrives \/ HandlerBroadcasts \/ AllJoined
               \/ UNCHANGED vars
    BY <2>2, OthersRefine
  <2>. QED
    BY <2>1, <2>2 DEF Next, SpuriousWakeup
<1>. QED
  BY <1>1, <1>2, CoreInvariant, TimedInvariant, PTL DEF Spec, HostRoundsSpec, HostRoundsImpl!Spec

=============================================================================
