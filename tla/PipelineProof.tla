----------------------------- MODULE PipelineProof -----------------------------
(***************************************************************************)
(* Proofs about the way from the pollers to the database, for every number *)
(* of threads and inserts and every size of the queue: an insert always    *)
(* has one owner, and a transaction is small and does not outlive the      *)
(* work of its thread.                                                     *)
(***************************************************************************)
EXTENDS Pipeline, FiniteSetTheorems, TLAPS

\* What a thread has in its hands at every stage of its work.
Hands == /\ \A p \in Pollers : /\ ppc[p] \in {"idle", "done"} => batch[p] = {}
                               /\ ppc[p] \in {"push", "count", "drop"} => current[p] \in Inserts
         /\ \A w \in Writers : IF wpc[w] = "write" THEN insert[w] \in Inserts
                               ELSE insert[w] = NoInsert

\* SingleOwner, said of one insert at a time.
Alive(i) == i \in Inserts /\ i \notin unborn /\ i \notin freed
Placed(i) == \/ \E p \in Pollers : i \in Owned(p)
             \/ i \in Queued
             \/ \E w \in Writers : i \in Popped(w)
QueuedOnce == \A j, k \in 1 .. Len(queries) : j # k => queries[j] # queries[k]
OneOwner ==
  /\ \A i : Alive(i) <=> Placed(i)
  /\ \A i \in unborn : i \notin freed
  /\ QueuedOnce
  /\ \A p \in Pollers : /\ ppc[p] \in {"push", "drop"} => current[p] \notin batch[p]
                        /\ \A i \in Owned(p) :
                             /\ i \notin Queued
                             /\ \A q \in Pollers : p # q => i \notin Owned(q)
                             /\ \A w \in Writers : i \notin Popped(w)
  /\ \A w \in Writers : \A i \in Popped(w) :
       i \notin Queued /\ \A x \in Writers : w # x => i \notin Popped(x)

Owners == TypeOK /\ Hands /\ OneOwner

\* What the threads and the server do: the steps of Next and of its stuttering,
\* but a poller polls a host whether or not a stop is requested.
PollerStep(p) == get_clinserts(p) \/ PollerStops(p) \/ process_queries(p)
Step == \/ \E p \in Pollers : PollerStep(p)
        \/ \E w \in Writers : database_run(w)
        \/ ServerStops \/ ServerStarts \/ StopRequest \/ UNCHANGED vars

LEMMA NextIsStep == [Next]_vars => Step
BY DEF Next, Step, PollerStep, PollHost, AllJoined

-----------------------------------------------------------------------------
\* Pushing an insert adds it to those queued; popping one takes it out.
LEMMA QueuedAppend ==
  ASSUME NEW i, queries \in Seq(Inserts), i \in Inserts, queries' = Append(queries, i)
  PROVE  /\ Queued' = Queued \cup {i}
         /\ i \notin Queued /\ QueuedOnce => QueuedOnce'
<1>1. /\ Len(queries') = Len(queries) + 1 /\ Len(queries) \in Nat
      /\ queries'[Len(queries) + 1] = i
      /\ \A k \in 1 .. Len(queries) : queries'[k] = queries[k]
  OBVIOUS
<1>. QED
  BY <1>1 DEF Queued, QueuedOnce

LEMMA QueuedTail ==
  ASSUME queries \in Seq(Inserts), queries # <<>>, queries' = Tail(queries),
         QueuedOnce
  PROVE  /\ Queued' = Queued \ {Head(queries)}
         /\ Head(queries) \in Queued
         /\ QueuedOnce'
<1>1. /\ Len(queries') = Len(queries) - 1 /\ Len(queries) \in Nat \ {0}
      /\ Head(queries) = queries[1]
      /\ \A k \in 1 .. Len(queries') : queries'[k] = queries[k + 1]
  OBVIOUS
<1>2. Head(queries) \in Queued
  BY <1>1 DEF Queued
<1>3. QueuedOnce'
  BY <1>1 DEF QueuedOnce
<1>4. Queued' \subseteq Queued \ {Head(queries)}
  BY <1>1 DEF Queued, QueuedOnce
<1>5. ASSUME NEW i \in Queued, i # Head(queries)
      PROVE  i \in Queued'
  <2>1. PICK k \in 1 .. Len(queries) : i = queries[k]
    BY DEF Queued
  <2>2. k # 1 /\ k - 1 \in 1 .. Len(queries')
    BY <1>1, <1>5, <2>1
  <2>3. queries'[k - 1] = queries[(k - 1) + 1] /\ (k - 1) + 1 = k
    BY <1>1, <2>2
  <2>. QED
    BY <2>1, <2>2, <2>3 DEF Queued
<1>. QED
  BY <1>2, <1>3, <1>4, <1>5

-----------------------------------------------------------------------------
\* Every step keeps the types and what the threads have in their hands.
LEMMA TypeStep ==
  ASSUME TypeOK, Hands, Step
  PROVE  TypeOK' /\ Hands'
<1> USE DEF TypeOK, Hands, pollerVars, statVars, writerVars, serverVars, WriterGoto
<1>1. ASSUME NEW p \in Pollers, get_clinserts(p)
      PROVE  TypeOK' /\ Hands'
  BY <1>1 DEF get_clinserts
<1>2. ASSUME NEW p \in Pollers, PollerStops(p)
      PROVE  TypeOK' /\ Hands'
  BY <1>2 DEF PollerStops
<1>3. ASSUME NEW p \in Pollers, OfferInsert(p)
      PROVE  TypeOK' /\ Hands'
  BY <1>3 DEF OfferInsert
<1>4. ASSUME NEW p \in Pollers, PushInsert(p)
      PROVE  TypeOK' /\ Hands'
  <2>1. queries' \in Seq(Inserts) /\ Len(queries') <= Size
    <3>1. current[p] \in Inserts
      BY <1>4 DEF PushInsert
    <3>2. Append(queries, current[p]) \in Seq(Inserts)
          /\ Len(Append(queries, current[p])) = Len(queries) + 1 /\ Len(queries) \in Nat
      BY <3>1
    <3>3. CASE PushSucceeds
      <4>1. queries' = Append(queries, current[p])
        BY <1>4, <3>3, Zenon DEF PushInsert
      <4>2. Len(queries) + 1 <= Size
        BY <3>2, <3>3, SizesAssumption DEF PushSucceeds
      <4>. QED
        BY <3>2, <4>1, <4>2
    <3>4. CASE ~PushSucceeds
      BY <1>4, <3>4 DEF PushInsert
    <3>. QED
      BY <3>3, <3>4
  <2>2. ppc' \in [Pollers -> {"idle", "offer", "push", "count", "drop", "done"}]
        /\ ppc'[p] \in {"count", "drop"} /\ \A q \in Pollers : q # p => ppc'[q] = ppc[q]
    BY <1>4 DEF PushInsert
  <2>. QED
    BY <1>4, <2>1, <2>2 DEF PushInsert
<1>5. ASSUME NEW p \in Pollers, CountQueued(p)
      PROVE  TypeOK' /\ Hands'
  <2>1. PICK n \in {0, 1} : local' = [local EXCEPT ![p].queued = @ + 1, ![p].values = @ + n]
    BY <1>5 DEF CountQueued, NValues
  <2>2. local[p] \in [queued : Nat, values : Nat] /\ local[p].queued + 1 \in Nat
        /\ local[p].values + n \in Nat
    OBVIOUS
  <2>3. local' \in [Pollers -> [queued : Nat, values : Nat]]
    BY <2>1, <2>2
  <2>. QED
    BY <1>5, <2>3 DEF CountQueued
<1>6. ASSUME NEW p \in Pollers, DropInsert(p)
      PROVE  TypeOK' /\ Hands'
  BY <1>6 DEF DropInsert
<1>7. ASSUME NEW p \in Pollers, AddStatistics(p)
      PROVE  TypeOK' /\ Hands'
  <2>1. Unprocessed(p) \in Nat
    <3>1. IsFiniteSet(batch[p])
      BY InsertsAssumption, FS_Subset
    <3>. QED
      BY <3>1, FS_CardinalityType DEF Unprocessed
  <2>2. insert_rows' \in Nat /\ insert_queries' \in Nat /\ dropped_queries' \in Nat
    <3>1. local[p].values \in Nat /\ local[p].queued \in Nat
      OBVIOUS
    <3>. QED
      BY <1>7, <2>1, <3>1 DEF AddStatistics
  <2>3. local' \in [Pollers -> [queued : Nat, values : Nat]]
    BY <1>7 DEF AddStatistics, InitialCounts, NoCounts
  <2>. QED
    BY <1>7, <2>2, <2>3 DEF AddStatistics
<1>8. ASSUME NEW w \in Writers, WriterTop(w)
      PROVE  TypeOK' /\ Hands'
  BY <1>8, SizesAssumption DEF WriterTop
<1>9. ASSUME NEW w \in Writers, Connect(w)
      PROVE  TypeOK' /\ Hands'
  BY <1>9 DEF Connect
<1>10. ASSUME NEW w \in Writers, mysql_ping(w)
       PROVE  TypeOK' /\ Hands'
  BY <1>10 DEF mysql_ping
<1>11. ASSUME NEW w \in Writers, DrainTest(w)
       PROVE  TypeOK' /\ Hands'
  BY <1>11 DEF DrainTest
<1>12. ASSUME NEW w \in Writers, PopInsert(w)
       PROVE  TypeOK' /\ Hands'
  <2>1. CASE queries = <<>>
    BY <1>12, <2>1 DEF PopInsert
  <2>2. CASE queries # <<>>
    <3>1. Tail(queries) \in Seq(Inserts) /\ Len(Tail(queries)) <= Size /\ Head(queries) \in Inserts
      BY <2>2, SizesAssumption
    <3>. QED
      BY <1>12, <2>2, <3>1 DEF PopInsert, Dequeued
  <2>. QED
    BY <2>1, <2>2
<1>13. ASSUME NEW w \in Writers, SkipBlank(w)
       PROVE  TypeOK' /\ Hands'
  BY <1>13 DEF SkipBlank, FreePopped
<1>14. ASSUME NEW w \in Writers, PrintQuery(w)
       PROVE  TypeOK' /\ Hands'
  BY <1>14, SizesAssumption DEF PrintQuery, FreePopped, Successor
<1>15. ASSUME NEW w \in Writers, QuerySucceeds(w)
       PROVE  TypeOK' /\ Hands'
  <2>1. insert[w] \in Inserts /\ Successor(query_counter[w]) \in 0 .. CommitInterval
    BY <1>15, SizesAssumption DEF QuerySucceeds, Successor
  <2>2. query_counter' \in [Writers -> 0 .. CommitInterval] /\ freed' \in SUBSET Inserts
        /\ insert' = [insert EXCEPT ![w] = NoInsert] /\ wpc' = [wpc EXCEPT ![w] = "interval"]
        /\ UNCHANGED <<thread_stop_requested, use_db, queries, statVars, pollerVars, dropped, up,
                       restarts, blank>>
    BY <1>15, <2>1 DEF QuerySucceeds, FreePopped
  <2>3. database' \in SUBSET Inserts /\ pending' \in [Writers -> SUBSET Inserts]
    <3>1. database \cup {insert[w]} \in SUBSET Inserts
          /\ [pending EXCEPT ![w] = @ \cup {insert[w]}] \in [Writers -> SUBSET Inserts]
      BY <2>1
    <3>. QED
      BY <1>15, <3>1, Zenon DEF QuerySucceeds
  <2>4. conn' \in [Writers -> {"none", "open", "aborted", "broken"}]
        /\ autocommit' \in [Writers -> BOOLEAN]
    BY <1>15, Zenon DEF QuerySucceeds, Reconnects
  <2>. QED
    BY <2>2, <2>3, <2>4
<1>16. ASSUME NEW w \in Writers, QueryFails(w)
       PROVE  TypeOK' /\ Hands'
  BY <1>16 DEF QueryFails, FreePopped
<1>17. ASSUME NEW w \in Writers, IntervalTest(w)
       PROVE  TypeOK' /\ Hands'
  BY <1>17 DEF IntervalTest, Commit
<1>18. ASSUME NEW w \in Writers, FinishDrain(w)
       PROVE  TypeOK' /\ Hands'
  BY <1>18 DEF FinishDrain, Commit
<1>19. ASSUME NEW w \in Writers, Wakes(w)
       PROVE  TypeOK' /\ Hands'
  BY <1>19 DEF Wakes
<1>20. ASSUME NEW w \in Writers, CloseConnection(w)
       PROVE  TypeOK' /\ Hands'
  BY <1>20 DEF CloseConnection
<1>21. CASE ServerStops
  <2>1. restarts' \in 0 .. MaxRestarts /\ up' \in BOOLEAN
    <3>1. restarts \in Nat /\ restarts > 0 /\ restarts' = restarts - 1 /\ restarts <= MaxRestarts
      <4>1. restarts \in 0 .. MaxRestarts /\ restarts > 0 /\ restarts' = restarts - 1
        BY <1>21, Zenon DEF ServerStops
      <4>. QED
        BY <4>1, SizesAssumption
    <3>2. restarts' \in 0 .. MaxRestarts
      BY <3>1, SizesAssumption
    <3>. QED
      BY <1>21, <3>2, Zenon DEF ServerStops
  <2>2. conn' \in [Writers -> {"none", "open", "aborted", "broken"}]
        /\ pending' \in [Writers -> SUBSET Inserts]
    BY <1>21 DEF ServerStops
  <2>. QED
    BY <1>21, <2>1, <2>2 DEF ServerStops
<1>22. CASE ServerStarts
  BY <1>22 DEF ServerStarts
<1>23. CASE StopRequest
  BY <1>23 DEF StopRequest
<1>24. CASE UNCHANGED vars
  BY <1>24 DEF vars
<1>. QED
  BY <1>1, <1>2, <1>3, <1>4, <1>5, <1>6, <1>7, <1>8, <1>9, <1>10, <1>11, <1>12, <1>13, <1>14,
     <1>15, <1>16, <1>17, <1>18, <1>19, <1>20, <1>21, <1>22, <1>23, <1>24
     DEF Step, PollerStep, process_queries, database_run

-----------------------------------------------------------------------------
(* The owners.                                                             *)

\* A step that moves no insert keeps every insert with its owner.
LEMMA NothingMoves ==
  ASSUME OneOwner, UNCHANGED <<unborn, freed, queries, insert>>,
         \A p \in Pollers : /\ Owned(p)' = Owned(p)
                            /\ ppc'[p] \in {"push", "drop"} => current'[p] \notin batch'[p]
  PROVE  OneOwner'
<1>1. Queued' = Queued /\ \A w \in Writers : Popped(w)' = Popped(w)
  BY DEF Queued, Popped
<1>. QED
  BY <1>1 DEF OneOwner, Alive, Placed, QueuedOnce

\* One owner for each insert makes the sets of module Pipeline.
LEMMA OneOwnerIsSingle == OneOwner => SingleOwner
<1> SUFFICES ASSUME OneOwner PROVE SingleOwner
  OBVIOUS
<1> DEFINE places == (UNION {Owned(p) : p \in Pollers}) \cup Queued \cup (UNION {Popped(w) : w \in Writers})
<1>1. \A i : i \in places <=> Placed(i)
  <2>1. \A i : i \in UNION {Owned(p) : p \in Pollers} <=> \E p \in Pollers : i \in Owned(p)
    OBVIOUS
  <2>2. \A i : i \in UNION {Popped(w) : w \in Writers} <=> \E w \in Writers : i \in Popped(w)
    OBVIOUS
  <2>3. ASSUME NEW i
        PROVE  i \in places <=> \/ i \in UNION {Owned(p) : p \in Pollers}
                                \/ i \in Queued
                                \/ i \in UNION {Popped(w) : w \in Writers}
    OBVIOUS
  <2> HIDE DEF places
  <2>. QED
    BY <2>1, <2>2, <2>3, Zenon DEF Placed
<1>2. \A i : i \in Inserts \ (unborn \cup freed) <=> Alive(i)
  BY DEF Alive
<1> HIDE DEF places
<1>3. Inserts \ (unborn \cup freed) = places
  BY <1>1, <1>2 DEF OneOwner
<1>. QED
  BY <1>3 DEF places, OneOwner, QueuedOnce, SingleOwner

\* A poller's step passes an insert on, from birth to the queue or to its end.
LEMMA PollerOwns ==
  ASSUME Owners, TypeOK', Hands', NEW p \in Pollers, PollerStep(p)
  PROVE  OneOwner'
<1>0. OneOwner /\ TypeOK /\ Hands
  BY DEF Owners
<1> USE DEF pollerVars, statVars, writerVars, serverVars
<1>1. CASE get_clinserts(p)
  <2>1. PICK made \in SUBSET unborn : /\ batch' = [batch EXCEPT ![p] = made]
                                     /\ unborn' = unborn \ made
    BY <1>1 DEF get_clinserts
  <2>2. /\ Owned(p) = {} /\ Owned(p)' = made
        /\ \A q \in Pollers : q # p => Owned(q)' = Owned(q)
        /\ Queued' = Queued /\ \A w \in Writers : Popped(w)' = Popped(w)
        /\ freed' = freed
    BY <1>0, <1>1, <2>1 DEF get_clinserts, Owned, Queued, Popped, TypeOK, Hands
  <2>9. made \subseteq Inserts /\ \A i \in made : i \in unborn /\ i \notin freed
    BY <1>0, <2>1 DEF OneOwner, TypeOK
  <2>3. \A i \in made : ~Placed(i)
    BY <1>0, <2>1 DEF OneOwner, Alive
  <2>4. \A i : Alive(i)' <=> Placed(i)'
    BY <1>0, <2>1, <2>2, <2>9 DEF OneOwner, Alive, Placed
  <2>5. \A q \in Pollers : q # p => Owned(q) \cap made = {}
    BY <2>3 DEF Placed
  <2>6. made \cap Queued = {} /\ \A w \in Writers : made \cap Popped(w) = {}
    BY <2>3 DEF Placed
  <2>7. ppc'[p] = "offer" /\ \A q \in Pollers : q # p => ppc'[q] = ppc[q] /\ current'[q] = current[q] /\ batch'[q] = batch[q]
    BY <1>0, <1>1, <2>1 DEF get_clinserts, TypeOK
  <2>8. UNCHANGED <<queries, insert>>
    BY <1>1 DEF get_clinserts
  <2>. QED
    BY <1>0, <2>1, <2>2, <2>4, <2>5, <2>6, <2>7, <2>8 DEF OneOwner, QueuedOnce
<1>2. CASE PollerStops(p)
  BY <1>0, <1>2, NothingMoves DEF PollerStops, Owned, OneOwner, TypeOK
<1>3. CASE OfferInsert(p)
  <2>1. PICK i \in batch[p] : current' = [current EXCEPT ![p] = i] /\ batch' = [batch EXCEPT ![p] = @ \ {i}]
    BY <1>3 DEF OfferInsert
  <2>2. \A q \in Pollers : Owned(q)' = Owned(q)
    BY <1>0, <1>3, <2>1 DEF OfferInsert, Owned, TypeOK
  <2>. QED
    BY <1>0, <1>3, <2>1, <2>2, NothingMoves DEF OfferInsert, OneOwner, TypeOK
<1>4. CASE PushInsert(p)
  <2>1. CASE ~PushSucceeds
    <3>1. \A q \in Pollers : Owned(q)' = Owned(q)
      BY <1>0, <1>4, <2>1 DEF PushInsert, Owned, TypeOK
    <3>. QED
      BY <1>0, <1>4, <2>1, <3>1, NothingMoves DEF PushInsert, OneOwner, TypeOK
  <2>2. CASE PushSucceeds
    <3> DEFINE i == current[p]
    <3>1. /\ queries' = Append(queries, i) /\ i \in Inserts
          /\ ppc[p] = "push" /\ ppc' = [ppc EXCEPT ![p] = "count"]
          /\ UNCHANGED <<batch, current, unborn, freed, insert>>
      BY <1>0, <1>4, <2>2 DEF PushInsert, Hands
    <3>2. i \in Owned(p) /\ i \notin Queued
      BY <1>0, <3>1 DEF Owned, OneOwner
    <3>3. /\ Queued' = Queued \cup {i}
          /\ QueuedOnce'
      BY <3>1, <3>2, <1>0, QueuedAppend DEF OneOwner, TypeOK
    <3>4. /\ Owned(p)' = Owned(p) \ {i}
          /\ \A q \in Pollers : q # p => Owned(q)' = Owned(q)
          /\ \A w \in Writers : Popped(w)' = Popped(w)
      BY <1>0, <3>1 DEF Owned, Popped, OneOwner, TypeOK
    <3>5. \A k : Alive(k)' <=> Placed(k)'
      BY <1>0, <3>1, <3>2, <3>3, <3>4 DEF OneOwner, Alive, Placed
    <3>6. /\ \A q \in Pollers : q # p => i \notin Owned(q)
          /\ \A w \in Writers : i \notin Popped(w)
      BY <1>0, <3>2 DEF OneOwner
    <3>7. \A q \in Pollers : ppc'[q] \in {"push", "drop"} => current'[q] \notin batch'[q]
      BY <1>0, <3>1 DEF OneOwner, TypeOK
    <3>8. \A q \in Pollers : \A k \in Owned(q)' :
            /\ k \notin Queued'
            /\ \A r \in Pollers : q # r => k \notin Owned(r)'
            /\ \A w \in Writers : k \notin Popped(w)'
      BY <1>0, <3>3, <3>4, <3>6 DEF OneOwner
    <3>9. \A w \in Writers : \A k \in Popped(w)' :
            k \notin Queued' /\ \A x \in Writers : w # x => k \notin Popped(x)'
      BY <1>0, <3>3, <3>4, <3>6 DEF OneOwner
    <3>. QED
      BY <1>0, <3>1, <3>3, <3>5, <3>7, <3>8, <3>9 DEF OneOwner
  <2>. QED
    BY <2>1, <2>2
<1>5. CASE CountQueued(p)
  BY <1>0, <1>5, NothingMoves DEF CountQueued, Owned, OneOwner, TypeOK
<1>6. CASE DropInsert(p)
  <2> DEFINE i == current[p]
  <2>1. /\ ppc[p] = "drop" /\ ppc' = [ppc EXCEPT ![p] = "offer"] /\ i \in Inserts
        /\ freed' = freed \cup {i}
        /\ \A q \in Pollers : q # p => current'[q] = current[q]
        /\ UNCHANGED <<batch, unborn, queries, insert>>
    BY <1>0, <1>6 DEF DropInsert, Hands, TypeOK
  <2>2. i \in Owned(p) /\ Alive(i)
    BY <1>0, <2>1 DEF Owned, OneOwner, Placed
  <2>3. /\ Owned(p)' = Owned(p) \ {i}
        /\ \A q \in Pollers : q # p => Owned(q)' = Owned(q)
        /\ Queued' = Queued /\ \A w \in Writers : Popped(w)' = Popped(w)
    BY <1>0, <2>1 DEF Owned, Queued, Popped, OneOwner, TypeOK
  <2>4. /\ i \notin Queued /\ \A q \in Pollers : q # p => i \notin Owned(q)
        /\ \A w \in Writers : i \notin Popped(w)
    BY <1>0, <2>2 DEF OneOwner
  <2>5. \A k : Alive(k)' <=> Placed(k)'
    BY <1>0, <2>1, <2>2, <2>3, <2>4 DEF OneOwner, Alive, Placed
  <2>6. i \notin unborn
    BY <2>2 DEF Alive
  <2>7. \A q \in Pollers : ppc'[q] \in {"push", "drop"} => current'[q] \notin batch'[q]
    BY <1>0, <2>1 DEF OneOwner, TypeOK
  <2>8. \A q \in Pollers : \A k \in Owned(q)' :
          /\ k \notin Queued'
          /\ \A r \in Pollers : q # r => k \notin Owned(r)'
          /\ \A w \in Writers : k \notin Popped(w)'
    BY <1>0, <2>3 DEF OneOwner
  <2>9. \A w \in Writers : \A k \in Popped(w)' :
          k \notin Queued' /\ \A x \in Writers : w # x => k \notin Popped(x)'
    BY <1>0, <2>3 DEF OneOwner
  <2>10. QueuedOnce'
    BY <1>0, <2>1 DEF OneOwner, QueuedOnce
  <2>. QED
    BY <1>0, <2>1, <2>5, <2>6, <2>7, <2>8, <2>9, <2>10 DEF OneOwner
<1>7. CASE AddStatistics(p)
  BY <1>0, <1>7, NothingMoves DEF AddStatistics, Owned, OneOwner, TypeOK
<1>. QED
  BY <1>1, <1>2, <1>3, <1>4, <1>5, <1>6, <1>7 DEF PollerStep, process_queries

\* A database thread takes an insert from the queue and frees it.
LEMMA WriterOwns ==
  ASSUME Owners, NEW w \in Writers, database_run(w)
  PROVE  OneOwner'
<1>0. OneOwner /\ TypeOK /\ Hands
  BY DEF Owners
<1> USE DEF pollerVars, statVars, writerVars, serverVars
<1>1. CASE PopInsert(w) /\ queries # <<>>
  <2> DEFINE i == Head(queries)
  <2>1. /\ wpc[w] = "pop" /\ queries' = Tail(queries) /\ insert' = [insert EXCEPT ![w] = i]
        /\ queries \in Seq(Inserts) /\ i \in Inserts
        /\ UNCHANGED <<ppc, batch, current, unborn, freed>>
    BY <1>0, <1>1 DEF PopInsert, Dequeued, TypeOK
  <2>2. Queued' = Queued \ {i} /\ i \in Queued /\ QueuedOnce'
    BY <1>0, <1>1, <2>1, QueuedTail DEF OneOwner
  <2>3. Popped(w) = {} /\ Popped(w)' = {i} /\ \A p \in Pollers : Owned(p)' = Owned(p)
    BY <1>0, <2>1, InsertsAssumption DEF Popped, Owned, Hands, TypeOK
  <2>4. \A x \in Writers : x # w => Popped(x)' = Popped(x)
    BY <1>0, <2>1 DEF Popped, TypeOK
  <2>5. \A k : Alive(k)' <=> Placed(k)'
    BY <1>0, <2>1, <2>2, <2>3, <2>4 DEF OneOwner, Alive, Placed
  <2>6. \A p \in Pollers : \A k \in Owned(p)' :
          /\ k \notin Queued'
          /\ \A q \in Pollers : p # q => k \notin Owned(q)'
          /\ \A x \in Writers : k \notin Popped(x)'
    BY <1>0, <2>2, <2>3, <2>4 DEF OneOwner
  <2>7. \A x \in Writers : \A k \in Popped(x)' :
          k \notin Queued' /\ \A y \in Writers : x # y => k \notin Popped(y)'
    BY <1>0, <2>2, <2>3, <2>4 DEF OneOwner
  <2>. QED
    BY <1>0, <2>1, <2>2, <2>5, <2>6, <2>7 DEF OneOwner
<1>2. CASE wpc[w] = "write" /\ FreePopped(w)
  <2> DEFINE i == insert[w]
  <2>1. /\ i \in Inserts /\ freed' = freed \cup {i} /\ insert' = [insert EXCEPT ![w] = NoInsert]
        /\ UNCHANGED <<ppc, batch, current, unborn, queries>>
    BY <1>0, <1>2 DEF FreePopped, Hands
  <2>2. i \in Popped(w) /\ Alive(i)
    BY <1>0, <2>1, InsertsAssumption DEF Popped, OneOwner, Placed
  <2>3. /\ Popped(w)' = {} /\ Popped(w) = {i}
        /\ \A x \in Writers : x # w => Popped(x)' = Popped(x)
        /\ Queued' = Queued /\ \A p \in Pollers : Owned(p)' = Owned(p)
    BY <1>0, <2>1, <2>2 DEF Owned, Queued, Popped, TypeOK
  <2>4. /\ i \notin Queued /\ \A p \in Pollers : i \notin Owned(p)
        /\ \A x \in Writers : x # w => i \notin Popped(x)
    BY <1>0, <2>2 DEF OneOwner
  <2>5. \A k : Alive(k)' <=> Placed(k)'
    BY <1>0, <2>1, <2>2, <2>3, <2>4 DEF OneOwner, Alive, Placed
  <2>6. i \notin unborn
    BY <2>2 DEF Alive
  <2>. QED
    BY <1>0, <2>1, <2>3, <2>5, <2>6 DEF OneOwner, QueuedOnce
<1>3. CASE UNCHANGED <<unborn, freed, queries, insert, ppc, batch, current>>
  BY <1>0, <1>3, NothingMoves DEF Owned, OneOwner
<1>. QED
  BY <1>1, <1>2, <1>3 DEF database_run, WriterTop, Connect, mysql_ping, DrainTest, PopInsert,
     SkipBlank, PrintQuery, QuerySucceeds, QueryFails, IntervalTest, FinishDrain, Wakes,
     CloseConnection

\* Owners holds at the start, and every step keeps it.
LEMMA OwnersInit == Init => Owners
<1> SUFFICES ASSUME Init PROVE Owners
  OBVIOUS
<1>1. TypeOK
  <2>1. /\ <<>> \in Seq(Inserts) /\ Len(<<>>) <= Size
        /\ 0 \in Nat /\ 0 \in 0 .. CommitInterval /\ MaxRestarts \in 0 .. MaxRestarts
        /\ NoCounts \in [queued : Nat, values : Nat]
    BY SizesAssumption DEF NoCounts
  <2>. QED
    BY <2>1, Zenon DEF Init, TypeOK
<1>2. Hands
  BY DEF Init, Hands
<1>3. Queued = {} /\ QueuedOnce
  BY DEF Init, Queued, QueuedOnce
<1>4. /\ \A p \in Pollers : Owned(p) = {} /\ ppc[p] = "idle"
      /\ \A w \in Writers : Popped(w) = {}
      /\ unborn = Inserts /\ freed = {}
  BY DEF Init, Owned, Popped
<1>5. OneOwner
  BY <1>3, <1>4 DEF OneOwner, Alive, Placed
<1>. QED
  BY <1>1, <1>2, <1>5 DEF Owners

LEMMA OwnersStep ==
  ASSUME Owners, Step
  PROVE  Owners'
<1>1. TypeOK' /\ Hands'
  BY TypeStep DEF Owners
<1>2. ASSUME NEW p \in Pollers, PollerStep(p)
      PROVE  OneOwner'
  BY <1>1, <1>2, PollerOwns
<1>3. ASSUME NEW w \in Writers, database_run(w)
      PROVE  OneOwner'
  BY <1>3, WriterOwns
<1>4. ASSUME ServerStops \/ ServerStarts \/ StopRequest \/ UNCHANGED vars
      PROVE  OneOwner'
  <2>1. UNCHANGED <<unborn, freed, queries, insert, ppc, batch, current>>
    BY <1>4 DEF ServerStops, ServerStarts, StopRequest, vars, pollerVars, statVars, writerVars,
                serverVars
  <2>2. OneOwner /\ \A p \in Pollers : Owned(p)' = Owned(p)
    BY <2>1 DEF Owned, Owners
  <2>3. \A p \in Pollers : ppc'[p] \in {"push", "drop"} => current'[p] \notin batch'[p]
    BY <2>1, <2>2 DEF OneOwner
  <2>. QED
    BY <2>1, <2>2, <2>3, NothingMoves, Zenon
<1>5. OneOwner'
  BY <1>2, <1>3, <1>4, Zenon DEF Step
<1>. QED
  BY <1>1, <1>5 DEF Owners

\* Every insert has one owner, whatever the threads do.
THEOREM OwnersInvariant == Spec => []Owners
<1>1. Owners /\ [Next]_vars => Owners'
  BY NextIsStep, OwnersStep
<1>. QED
  BY <1>1, OwnersInit, PTL DEF Spec

\* The variables keep their types: no insert but those that exist is queued,
\* popped or freed, and the queue never holds more than its size.
THEOREM TypeCorrect == Spec => []TypeOK
<1>1. Owners => TypeOK
  BY DEF Owners
<1>. QED
  BY <1>1, OwnersInvariant, PTL

\* An insert in memory is with one poller, in one place of the queue or with one
\* database thread, and once freed with none (poller.c:113-124, database.c:92-106).
THEOREM InsertsHaveOneOwner == Spec => []SingleOwner
<1>1. Owners => SingleOwner
  BY OneOwnerIsSingle DEF Owners
<1>. QED
  BY <1>1, OwnersInvariant, PTL

-----------------------------------------------------------------------------
(* The transactions.                                                       *)

\* The inserts that the open transaction of a thread may hold: as many as its
\* counter says while it works, none when it has just committed or is idle.
Working == {"drain", "pop", "write", "finish"}
Allowed(w) == IF \/ wpc[w] = "interval"
                 \/ wpc[w] \in Working /\ query_counter[w] # CommitInterval
              THEN query_counter[w] ELSE 0
SmallTransactions == /\ \A w \in Writers : Cardinality(pending[w]) <= Allowed(w)
                     /\ use_db \/ \A w \in Writers : pending[w] = {}

\* Sets of inserts are finite: they have a size, and one more adds one at most.
LEMMA SizeOfSets ==
  ASSUME NEW S \in SUBSET Inserts
  PROVE  /\ Cardinality(S) \in Nat
         /\ Cardinality(S) = 0 <=> S = {}
         /\ \A i \in Inserts : Cardinality(S \cup {i}) <= Cardinality(S) + 1
<1>1. IsFiniteSet(S)
  BY InsertsAssumption, FS_Subset
<1>2. Cardinality(S) \in Nat
  BY <1>1, FS_CardinalityType
<1>3. Cardinality(S) = 0 <=> S = {}
  BY <1>1, FS_EmptySet
<1>4. \A i : Cardinality(S \cup {i}) <= Cardinality(S) + 1
  BY <1>1, <1>2, FS_AddElement
<1>. QED
  BY <1>2, <1>3, <1>4

\* A step that commits or adds to the transaction of no thread but w.
LEMMA OthersKeep ==
  ASSUME TypeOK, SmallTransactions, NEW w \in Writers, use_db' = use_db,
         \A x \in Writers : x # w => /\ pending'[x] = pending[x]
                                     /\ wpc'[x] = wpc[x]
                                     /\ query_counter'[x] = query_counter[x],
         Cardinality(pending'[w]) <= Allowed(w)',
         use_db \/ pending'[w] = {}
  PROVE  SmallTransactions'
BY DEF SmallTransactions, Allowed

LEMMA TransactionStep ==
  ASSUME TypeOK, Hands, SmallTransactions, TypeOK', Step
  PROVE  SmallTransactions'
<1>1. \A w \in Writers : /\ Cardinality(pending[w]) \in Nat
                         /\ Cardinality(pending[w]) = 0 <=> pending[w] = {}
                         /\ \A i \in Inserts :
                              Cardinality(pending[w] \cup {i}) <= Cardinality(pending[w]) + 1
  BY SizeOfSets DEF TypeOK
<1>2. \A w \in Writers : query_counter[w] \in 0 .. CommitInterval
                         /\ query_counter'[w] \in 0 .. CommitInterval
  BY DEF TypeOK
<1>3. Cardinality({}) = 0
  BY FS_EmptySet
<1>4. ASSUME NEW w \in Writers, database_run(w)
      PROVE  SmallTransactions'
  <2> USE DEF pollerVars, statVars, serverVars
  <2>1. CASE WriterTop(w) \/ Connect(w) \/ mysql_ping(w) \/ Wakes(w)
    <3>1. /\ UNCHANGED <<pending, use_db>>
          /\ wpc[w] \in {"top", "connect", "ping", "sleep"}
          /\ \A x \in Writers : x # w => wpc'[x] = wpc[x] /\ query_counter'[x] = query_counter[x]
      BY <2>1 DEF WriterTop, Connect, mysql_ping, Wakes, WriterGoto, TypeOK
    <3>2. pending[w] = {}
      BY <1>1, <3>1 DEF SmallTransactions, Allowed, Working
    <3>3. Cardinality(pending'[w]) <= Allowed(w)'
      BY <1>2, <1>3, <3>1, <3>2, SizesAssumption DEF Allowed
    <3>. QED
      BY <3>1, <3>2, <3>3, OthersKeep
  <2>2. CASE DrainTest(w) \/ PopInsert(w) \/ SkipBlank(w) \/ QueryFails(w)
    <3>1. /\ UNCHANGED <<pending, use_db, query_counter>>
          /\ wpc[w] \in Working /\ wpc'[w] \in Working \cup {"interval"}
          /\ \A x \in Writers : x # w => wpc'[x] = wpc[x]
      BY <2>2 DEF DrainTest, PopInsert, SkipBlank, QueryFails, FreePopped, WriterGoto, TypeOK,
                  Working
    <3>2. Cardinality(pending'[w]) <= Allowed(w)'
      BY <1>1, <1>2, <3>1, SizesAssumption DEF SmallTransactions, Allowed, Working
    <3>3. use_db \/ pending'[w] = {}
      BY <3>1 DEF SmallTransactions
    <3>. QED
      BY <3>1, <3>2, <3>3, OthersKeep
  <2>3. CASE PrintQuery(w) \/ (QuerySucceeds(w) /\ UNCHANGED pending)
    <3>1. /\ UNCHANGED <<pending, use_db>> /\ wpc[w] = "write" /\ wpc'[w] = "interval"
          /\ query_counter' = [query_counter EXCEPT ![w] = Successor(@)]
          /\ \A x \in Writers : x # w => wpc'[x] = wpc[x]
      BY <2>3 DEF PrintQuery, QuerySucceeds, FreePopped, WriterGoto, TypeOK
    <3>2. query_counter'[w] = Successor(query_counter[w])
          /\ \A x \in Writers : x # w => query_counter'[x] = query_counter[x]
      BY <3>1 DEF TypeOK
    <3>3. Cardinality(pending'[w]) <= Allowed(w)'
      BY <1>1, <1>2, <3>1, <3>2, SizesAssumption
         DEF SmallTransactions, Allowed, Working, Successor
    <3>4. use_db \/ pending'[w] = {}
      BY <3>1 DEF SmallTransactions
    <3>. QED
      BY <3>1, <3>2, <3>3, <3>4, OthersKeep
  <2>4. CASE QuerySucceeds(w) /\ pending' = [pending EXCEPT ![w] = @ \cup {insert[w]}]
    <3>1. /\ UNCHANGED use_db /\ use_db /\ wpc[w] = "write" /\ wpc'[w] = "interval"
          /\ query_counter' = [query_counter EXCEPT ![w] = Successor(@)]
          /\ \A x \in Writers : x # w => wpc'[x] = wpc[x]
      BY <2>4 DEF QuerySucceeds, FreePopped, WriterGoto, TypeOK
    <3>2. query_counter'[w] = Successor(query_counter[w])
          /\ \A x \in Writers : x # w => query_counter'[x] = query_counter[x]
      BY <3>1 DEF TypeOK
    <3>3. insert[w] \in Inserts /\ pending'[w] = pending[w] \cup {insert[w]}
          /\ \A x \in Writers : x # w => pending'[x] = pending[x]
      BY <2>4, <3>1 DEF Hands, TypeOK
    <3>4. Cardinality(pending'[w]) <= Cardinality(pending[w]) + 1
      BY <1>1, <3>3
    <3>5. Cardinality(pending'[w]) \in Nat
      BY SizeOfSets DEF TypeOK
    <3>6. Cardinality(pending'[w]) <= Allowed(w)'
      BY <1>1, <1>2, <3>1, <3>2, <3>4, <3>5, SizesAssumption
         DEF SmallTransactions, Allowed, Working, Successor
    <3>. QED
      BY <3>1, <3>2, <3>3, <3>6, OthersKeep
  <2>5. CASE IntervalTest(w) \/ FinishDrain(w) \/ CloseConnection(w)
    <3>1. /\ UNCHANGED <<use_db, query_counter>>
          /\ \A x \in Writers : x # w => wpc'[x] = wpc[x] /\ pending'[x] = pending[x]
      BY <2>5 DEF IntervalTest, FinishDrain, CloseConnection, Commit, WriterGoto, TypeOK
    <3>2. \/ pending'[w] = {}
          \/ /\ pending' = pending
             /\ \/ wpc[w] = "interval" /\ wpc'[w] = "drain" /\ ~(CommitDue(w) /\ use_db)
                \/ wpc[w] = "finish" /\ ~(CommitsAtEnd(w) /\ use_db)
      BY <2>5 DEF IntervalTest, FinishDrain, CloseConnection, Commit, WriterGoto, TypeOK
    <3>3. Cardinality(pending'[w]) <= Allowed(w)' /\ (use_db \/ pending'[w] = {})
      <4>1. CASE pending'[w] = {}
        BY <1>2, <1>3, <4>1 DEF Allowed
      <4>2. CASE pending' = pending /\ ~use_db
        BY <1>2, <1>3, <4>2 DEF Allowed, SmallTransactions
      <4>3. CASE pending' = pending /\ use_db /\ wpc[w] = "interval" /\ wpc'[w] = "drain" /\ ~CommitDue(w)
        BY <1>1, <1>2, <3>1, <4>3 DEF Allowed, SmallTransactions, CommitDue, Working
      <4>4. CASE pending' = pending /\ use_db /\ wpc[w] = "finish" /\ ~CommitsAtEnd(w)
        BY <1>1, <1>2, <1>3, <3>1, <4>4, SizesAssumption
           DEF Allowed, SmallTransactions, CommitsAtEnd, Working
      <4>. QED
        BY <3>2, <4>1, <4>2, <4>3, <4>4
    <3>. QED
      BY <3>1, <3>3, OthersKeep
  <2>6. QuerySucceeds(w) => \/ UNCHANGED pending
                            \/ pending' = [pending EXCEPT ![w] = @ \cup {insert[w]}]
    BY DEF QuerySucceeds
  <2>. QED
    BY <1>4, <2>1, <2>2, <2>3, <2>4, <2>5, <2>6 DEF database_run
<1>5. CASE ServerStops
  <2>1. UNCHANGED <<use_db, wpc, query_counter>> /\ \A w \in Writers : pending'[w] = {}
    BY <1>5 DEF ServerStops, writerVars
  <2>. QED
    BY <1>2, <1>3, <2>1 DEF SmallTransactions, Allowed
<1>6. ASSUME UNCHANGED <<use_db, wpc, query_counter, pending>>
      PROVE  SmallTransactions'
  BY <1>6 DEF SmallTransactions, Allowed
<1>7. ASSUME NEW p \in Pollers, PollerStep(p)
      PROVE  UNCHANGED <<use_db, wpc, query_counter, pending>>
  BY <1>7 DEF PollerStep, get_clinserts, PollerStops, process_queries, OfferInsert, PushInsert,
     CountQueued, DropInsert, AddStatistics, writerVars, serverVars
<1>8. ASSUME ServerStarts \/ StopRequest \/ UNCHANGED vars
      PROVE  UNCHANGED <<use_db, wpc, query_counter, pending>>
  BY <1>8 DEF ServerStarts, StopRequest, vars, writerVars, serverVars
<1>. QED
  BY <1>4, <1>5, <1>6, <1>7, <1>8, Zenon DEF Step

LEMMA TransactionsInit == Init => SmallTransactions
<1>1. Cardinality({}) = 0
  BY FS_EmptySet
<1>. QED
  BY <1>1 DEF Init, SmallTransactions, Allowed, Working

THEOREM TransactionsInvariant == Spec => []SmallTransactions
<1>1. Owners /\ Owners' /\ SmallTransactions /\ [Next]_vars => SmallTransactions'
  BY NextIsStep, TransactionStep DEF Owners
<1>. QED
  BY <1>1, TransactionsInit, OwnersInvariant, PTL DEF Spec

\* A restart of the server rolls back CommitInterval inserts of a thread at most,
\* whatever the mix of failed, blank and good queries (database.c:109-112).
THEOREM TransactionsAreBounded == Spec => []TransactionBounded
<1>1. Owners /\ SmallTransactions => TransactionBounded
  <2> SUFFICES ASSUME Owners, SmallTransactions, NEW w \in Writers
               PROVE  Cardinality(pending[w]) <= CommitInterval
    BY DEF TransactionBounded
  <2>1. query_counter[w] \in 0 .. CommitInterval /\ Cardinality(pending[w]) \in Nat
    BY SizeOfSets DEF Owners, TypeOK
  <2>. QED
    BY <2>1, SizesAssumption DEF SmallTransactions, Allowed
<1>. QED
  BY <1>1, OwnersInvariant, TransactionsInvariant, PTL

\* A thread that sleeps, connects or has ended has no open transaction
\* (database.c:115-118).
THEOREM IdleThreadsCommitted == Spec => []IdleCommitted
<1>1. Owners /\ SmallTransactions => IdleCommitted
  <2> SUFFICES ASSUME Owners, SmallTransactions, NEW w \in Writers,
                      wpc[w] \in {"top", "connect", "ping", "sleep", "done"}
               PROVE  pending[w] = {}
    BY DEF IdleCommitted
  <2>1. Cardinality(pending[w]) \in Nat /\ (Cardinality(pending[w]) = 0 <=> pending[w] = {})
    BY SizeOfSets DEF Owners, TypeOK
  <2>. QED
    BY <2>1 DEF SmallTransactions, Allowed, Working
<1>. QED
  BY <1>1, OwnersInvariant, TransactionsInvariant, PTL

=============================================================================
