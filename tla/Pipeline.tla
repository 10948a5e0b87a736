------------------------------ MODULE Pipeline ------------------------------
(***************************************************************************)
(* From the pollers to the database: process_queries (src/poller.c) pushes *)
(* the inserts of a polled host into the shared queue, and the database    *)
(* threads (src/database.c) pop them, run them on MySQL in transactions    *)
(* and free them.                                                          *)
(*                                                                         *)
(* The queue is a sequence and each of its calls a step: module ClbufProof *)
(* shows that the circular buffer is such a queue.  An insert is a heap    *)
(* object with one row: whoever holds its pointer may read it or free it.  *)
(* MySQL is external: a connection has one open transaction at most, which *)
(* a restart of the server rolls back, and the client library reconnects   *)
(* by itself, into autocommit mode, unless a transaction was open.         *)
(***************************************************************************)
EXTENDS Naturals, FiniteSets, Sequences, FiniteSetsExt

CONSTANTS Pollers,           \* the poller threads
          Writers,           \* the database threads
          Inserts,           \* bound: the inserts that pollers ever make
          NoInsert,          \* the null pointer
          Size,              \* max_db_queue
          MaxBatch,          \* bound: inserts made for one polled host
          CommitInterval,    \* COMMIT_INTERVAL, 100 in the code
          QueryErrors,       \* the server may refuse a query it receives
          MaxRestarts        \* bound: restarts of the server

ASSUME ThreadsAssumption == Pollers \cap Writers = {}
ASSUME InsertsAssumption == IsFiniteSet(Inserts) /\ NoInsert \notin Inserts
ASSUME SizesAssumption == /\ Size \in Nat \ {0}
                          /\ MaxBatch \in Nat
                          /\ CommitInterval \in Nat \ {0}
                          /\ MaxRestarts \in Nat
ASSUME FlagAssumption == QueryErrors \in BOOLEAN

VARIABLES
  thread_stop_requested,
  use_db,           \* FALSE, for option -d, prints the queries instead
  queries,          \* the queue, oldest insert first
  insert_rows, insert_queries, dropped_queries,   \* of the statistics object
  ppc,              \* where each poller is in process_queries
  batch,            \* its inserts not processed yet
  current,          \* the insert it is processing
  local,            \* its local counters
  wpc,              \* where each writer is in database_run
  insert,           \* the insert it has popped
  query_counter,    \* modulo CommitInterval, with 0 only for zero
  conn,             \* its connection
  autocommit,       \* the server commits the connection's queries at once
  pending,          \* inserts in the connection's open transaction
  up, restarts,     \* the server runs; restarts still to come
  database,         \* inserts whose rows the server has committed
  unborn,           \* history: inserts that no poller has made yet
  freed,            \* history: inserts given to clinsert_free
  blank,            \* history: those whose rows all had rate zero
  dropped           \* history: those freed because the queue was full

pollerVars == <<ppc, batch, current, local, unborn>>
statVars == <<insert_rows, insert_queries, dropped_queries>>
writerVars == <<wpc, insert, query_counter>>
serverVars == <<conn, autocommit, pending, up, restarts, database>>
vars == <<thread_stop_requested, use_db, queries, statVars, pollerVars, writerVars,
          serverVars, freed, blank, dropped>>

NoCounts == [queued |-> 0, values |-> 0]

Init == /\ thread_stop_requested = FALSE
        /\ use_db \in BOOLEAN
        /\ queries = <<>>
        /\ insert_rows = 0 /\ insert_queries = 0 /\ dropped_queries = 0
        /\ ppc = [p \in Pollers |-> "idle"]
        /\ batch = [p \in Pollers |-> {}]
        /\ current = [p \in Pollers |-> NoInsert]
        /\ local = [p \in Pollers |-> NoCounts]
        /\ wpc = [w \in Writers |-> "top"]
        /\ insert = [w \in Writers |-> NoInsert]
        /\ query_counter = [w \in Writers |-> 0]
        /\ conn = [w \in Writers |-> "none"]
        /\ autocommit = [w \in Writers |-> TRUE]
        /\ pending = [w \in Writers |-> {}]
        /\ up = TRUE
        /\ restarts = MaxRestarts
        /\ database = {}
        /\ unborn = Inserts
        /\ blank = {}
        /\ freed = {}
        /\ dropped = {}

-----------------------------------------------------------------------------
\* Mutated forms of the definitions below, each a plausible slip in the code.
PushSucceeds_CheckOnly == TRUE
Dequeued_PeekOnly == queries
CommitDue_OffByOne(w) == query_counter[w] > CommitInterval
CommitsAtEnd_OnlyFull(w) == query_counter[w] = CommitInterval
WorkQueued_MoreThanOne == Len(queries) > 1
KeepsWriting_Always == TRUE

-----------------------------------------------------------------------------
(* The pollers.                                                            *)

\* A poller comes from get_clinserts with the inserts of one host.
get_clinserts(p) == /\ ppc[p] = "idle"
                    /\ \E made \in SUBSET unborn :
                         /\ made # {} /\ Cardinality(made) <= MaxBatch
                         /\ batch' = [batch EXCEPT ![p] = made]
                         /\ unborn' = unborn \ made
                    /\ ppc' = [ppc EXCEPT ![p] = "offer"]
                    /\ UNCHANGED <<thread_stop_requested, use_db, queries, statVars, current,
                                   local, writerVars, serverVars, freed, blank, dropped>>

\* The stop test of the poller's loops comes before every host.
PollHost(p) == ~thread_stop_requested /\ get_clinserts(p)

\* The stop test of the poller's loops, between two hosts.
PollerStops(p) == /\ ppc[p] = "idle"
                  /\ thread_stop_requested
                  /\ ppc' = [ppc EXCEPT ![p] = "done"]
                  /\ UNCHANGED <<thread_stop_requested, use_db, queries, statVars, batch,
                                 current, local, unborn, writerVars, serverVars, freed, blank,
                                 dropped>>

\* The next insert of the list, and clbuf_count_free for it.
OfferInsert(p) == /\ ppc[p] = "offer"
                  /\ \E i \in batch[p] :
                       /\ current' = [current EXCEPT ![p] = i]
                       /\ batch' = [batch EXCEPT ![p] = @ \ {i}]
                  /\ ppc' = [ppc EXCEPT ![p] = IF Len(queries) < Size THEN "push" ELSE "drop"]
                  /\ UNCHANGED <<thread_stop_requested, use_db, queries, statVars, local, unborn,
                                 writerVars, serverVars, freed, blank, dropped>>

\* clbuf_push returns the pointer: the queue may have filled since the count.
PushSucceeds == Len(queries) < Size

PushInsert(p) == /\ ppc[p] = "push"
                 /\ IF PushSucceeds
                    THEN /\ queries' = Append(queries, current[p])
                         /\ ppc' = [ppc EXCEPT ![p] = "count"]
                    ELSE /\ ppc' = [ppc EXCEPT ![p] = "drop"]
                         /\ UNCHANGED queries
                 /\ UNCHANGED <<thread_stop_requested, use_db, statVars, batch, current, local,
                                unborn, writerVars, serverVars, freed, blank, dropped>>

\* The outcomes of reading nvalues through the pointer just pushed: the one row,
\* or whatever the memory holds if a writer has freed the insert meanwhile.
NValues(i) == IF i \in freed THEN {0, 1} ELSE {1}

CountQueued(p) == /\ ppc[p] = "count"
                  /\ \E n \in NValues(current[p]) :
                       local' = [local EXCEPT ![p].queued = @ + 1,
                                              ![p].values = @ + n]
                  /\ current' = [current EXCEPT ![p] = NoInsert]
                  /\ ppc' = [ppc EXCEPT ![p] = "offer"]
                  /\ UNCHANGED <<thread_stop_requested, use_db, queries, statVars, batch, unborn,
                                 writerVars, serverVars, freed, blank, dropped>>

\* No room: the insert is freed.
DropInsert(p) == /\ ppc[p] = "drop"
                 /\ freed' = freed \cup {current[p]}
                 /\ dropped' = dropped \cup {current[p]}
                 /\ current' = [current EXCEPT ![p] = NoInsert]
                 /\ ppc' = [ppc EXCEPT ![p] = "offer"]
                 /\ UNCHANGED <<thread_stop_requested, use_db, queries, statVars, batch, local,
                                unborn, writerVars, serverVars, blank>>

\* n_queries - processed_inserts, as the loop over the list leaves them: the
\* inserts of the list that were not processed.
Unprocessed(p) == Cardinality(batch[p])

\* The local counters at the start of process_queries.
InitialCounts(p) == NoCounts

\* The list is done: the local counters enter the statistics under global_lock.
AddStatistics(p) == /\ ppc[p] = "offer"
                    /\ batch[p] = {}
                    /\ insert_rows' = insert_rows + local[p].values
                    /\ insert_queries' = insert_queries + local[p].queued
                    /\ dropped_queries' = dropped_queries + Unprocessed(p)
                    /\ local' = [local EXCEPT ![p] = InitialCounts(p)]
                    /\ ppc' = [ppc EXCEPT ![p] = "idle"]
                    /\ UNCHANGED <<thread_stop_requested, use_db, queries, batch, current, unborn,
                                   writerVars, serverVars, freed, blank, dropped>>

process_queries(p) == \/ OfferInsert(p) \/ PushInsert(p) \/ CountQueued(p)
                      \/ DropInsert(p) \/ AddStatistics(p)

-----------------------------------------------------------------------------
(* The database threads.                                                   *)

WriterGoto(w, label) == wpc' = [wpc EXCEPT ![w] = label]

KeepsWriting == ~thread_stop_requested

\* The while test; a thread with a connection pings it first.
WriterTop(w) == /\ wpc[w] = "top"
                /\ WriterGoto(w, IF ~KeepsWriting THEN "close"
                                 ELSE IF ~use_db THEN "drain"
                                 ELSE IF conn[w] = "none" THEN "connect" ELSE "ping")
                /\ query_counter' = [query_counter EXCEPT ![w] = 0]
                /\ UNCHANGED <<thread_stop_requested, use_db, queries, statVars, pollerVars, insert,
                               serverVars, freed, blank, dropped>>

\* connection(): a new connection leaves autocommit mode.
Connect(w) == /\ wpc[w] = "connect"
              /\ IF up
                 THEN /\ conn' = [conn EXCEPT ![w] = "open"]
                      /\ autocommit' = [autocommit EXCEPT ![w] = FALSE]
                      /\ WriterGoto(w, "ping")
                 ELSE /\ WriterGoto(w, "sleep")
                      /\ UNCHANGED <<conn, autocommit>>
              /\ UNCHANGED <<thread_stop_requested, use_db, queries, statVars, pollerVars, insert,
                             query_counter, pending, up, restarts, database, freed, blank, dropped>>

\* The library reconnects a broken connection if the server is back and no
\* transaction was open; the new session is in autocommit mode.
Reconnects(w) == conn[w] = "broken" /\ up

mysql_ping(w) == /\ wpc[w] = "ping"
                 /\ IF conn[w] = "open" \/ Reconnects(w)
                    THEN /\ conn' = [conn EXCEPT ![w] = "open"]
                         /\ autocommit' = [autocommit EXCEPT ![w] = @ \/ Reconnects(w)]
                         /\ WriterGoto(w, "drain")
                    ELSE /\ conn' = [conn EXCEPT ![w] = "broken"]
                         /\ WriterGoto(w, "sleep")
                         /\ UNCHANGED autocommit
                 /\ UNCHANGED <<thread_stop_requested, use_db, queries, statVars, pollerVars,
                                insert, query_counter, pending, up, restarts, database, freed,
                                blank, dropped>>

WorkQueued == Len(queries) > 0

\* The test of the drain loop: clbuf_count_used(queries) > 0.
DrainTest(w) == /\ wpc[w] = "drain"
                /\ WriterGoto(w, IF WorkQueued THEN "pop" ELSE "finish")
                /\ UNCHANGED <<thread_stop_requested, use_db, queries, statVars, pollerVars, insert,
                               query_counter, serverVars, freed, blank, dropped>>

\* The queue that clbuf_pop leaves.
Dequeued == Tail(queries)

\* clbuf_pop: another writer may have emptied the queue since the count.
PopInsert(w) == /\ wpc[w] = "pop"
                /\ IF queries = <<>>
                   THEN WriterGoto(w, "interval") /\ UNCHANGED <<queries, insert>>
                   ELSE /\ insert' = [insert EXCEPT ![w] = Head(queries)]
                        /\ queries' = Dequeued
                        /\ WriterGoto(w, "write")
                /\ UNCHANGED <<thread_stop_requested, use_db, statVars, pollerVars, query_counter,
                               serverVars, freed, blank, dropped>>

\* query_counter after one more query that was executed.
Successor(n) == IF n = CommitInterval THEN 1 ELSE n + 1

\* The end of the loop body: clinsert_free, whatever became of the query.
FreePopped(w) == /\ freed' = freed \cup {insert[w]}
                 /\ insert' = [insert EXCEPT ![w] = NoInsert]
                 /\ WriterGoto(w, "interval")
                 /\ UNCHANGED <<thread_stop_requested, use_db, queries, statVars, pollerVars,
                                dropped>>

\* build_insert_query returns NULL: allow_db_zero is not set and every rate in
\* the insert is zero.
SkipBlank(w) == /\ wpc[w] = "write"
                /\ blank' = blank \cup {insert[w]}
                /\ FreePopped(w)
                /\ UNCHANGED <<query_counter, serverVars>>

\* print_database_queue writes the query to the log.
PrintQuery(w) == /\ wpc[w] = "write"
                 /\ ~use_db
                 /\ FreePopped(w)
                 /\ query_counter' = [query_counter EXCEPT ![w] = Successor(@)]
                 /\ UNCHANGED <<serverVars, blank>>

\* mysql_query succeeds, in the transaction or committed by itself.
QuerySucceeds(w) == /\ wpc[w] = "write"
                    /\ use_db
                    /\ conn[w] = "open" \/ Reconnects(w)
                    /\ IF autocommit[w] \/ Reconnects(w)
                       THEN database' = database \cup {insert[w]} /\ UNCHANGED pending
                       ELSE /\ pending' = [pending EXCEPT ![w] = @ \cup {insert[w]}]
                            /\ UNCHANGED database
                    /\ autocommit' = [autocommit EXCEPT ![w] = @ \/ Reconnects(w)]
                    /\ conn' = [conn EXCEPT ![w] = "open"]
                    /\ FreePopped(w)
                    /\ query_counter' = [query_counter EXCEPT ![w] = Successor(@)]
                    /\ UNCHANGED <<up, restarts, blank>>

\* mysql_query fails: an error is logged and the insert freed all the same.
QueryFails(w) == /\ wpc[w] = "write"
                 /\ use_db
                 /\ IF conn[w] = "open" THEN QueryErrors ELSE ~Reconnects(w)
                 /\ conn' = [conn EXCEPT ![w] = IF @ = "open" THEN "open" ELSE "broken"]
                 /\ FreePopped(w)
                 /\ UNCHANGED <<query_counter, autocommit, pending, up, restarts, database, blank>>

\* mysql_commit, whose result the code does not read.
Commit(w) == /\ database' = database \cup pending[w]
             /\ pending' = [pending EXCEPT ![w] = {}]
             /\ conn' = [conn EXCEPT ![w] = IF Reconnects(w) THEN "open"
                                            ELSE IF @ = "aborted" THEN "broken" ELSE @]
             /\ autocommit' = [autocommit EXCEPT ![w] = @ \/ Reconnects(w)]

\* query_counter > 0 && query_counter % COMMIT_INTERVAL == 0
CommitDue(w) == query_counter[w] = CommitInterval

\* The commit after every CommitInterval queries.
IntervalTest(w) == /\ wpc[w] = "interval"
                   /\ IF CommitDue(w) /\ use_db THEN Commit(w)
                      ELSE UNCHANGED <<conn, autocommit, pending, database>>
                   /\ WriterGoto(w, "drain")
                   /\ UNCHANGED <<thread_stop_requested, use_db, queries, statVars, pollerVars,
                                  insert, query_counter, up, restarts, freed, blank, dropped>>

\* query_counter > 0
CommitsAtEnd(w) == query_counter[w] > 0

\* The queue was found empty: commit and sleep.
FinishDrain(w) == /\ wpc[w] = "finish"
                  /\ IF CommitsAtEnd(w) /\ use_db THEN Commit(w)
                     ELSE UNCHANGED <<conn, autocommit, pending, database>>
                  /\ WriterGoto(w, "sleep")
                  /\ UNCHANGED <<thread_stop_requested, use_db, queries, statVars, pollerVars,
                                 insert, query_counter, up, restarts, freed, blank, dropped>>

\* sleep(1), or sleep(5) after a failed connection or ping.
Wakes(w) == /\ wpc[w] = "sleep"
            /\ WriterGoto(w, "top")
            /\ UNCHANGED <<thread_stop_requested, use_db, queries, statVars, pollerVars, insert,
                           query_counter, serverVars, freed, blank, dropped>>

\* After the stop: commit and close.
CloseConnection(w) == /\ wpc[w] = "close"
                      /\ database' = database \cup pending[w]
                      /\ pending' = [pending EXCEPT ![w] = {}]
                      /\ conn' = [conn EXCEPT ![w] = "none"]
                      /\ WriterGoto(w, "done")
                      /\ UNCHANGED <<thread_stop_requested, use_db, queries, statVars,
                                     pollerVars, insert, query_counter, autocommit, up,
                                     restarts, freed, blank, dropped>>

database_run(w) == \/ WriterTop(w) \/ Connect(w) \/ mysql_ping(w) \/ DrainTest(w)
                   \/ PopInsert(w) \/ SkipBlank(w) \/ PrintQuery(w) \/ QuerySucceeds(w)
                   \/ QueryFails(w) \/ IntervalTest(w) \/ FinishDrain(w) \/ Wakes(w)
                   \/ CloseConnection(w)

-----------------------------------------------------------------------------
(* The server and the stop request.                                        *)

\* The server goes down: open transactions are rolled back.
ServerStops == /\ up /\ restarts > 0
               /\ up' = FALSE
               /\ restarts' = restarts - 1
               /\ conn' = [w \in Writers |-> IF conn[w] # "open" THEN conn[w]
                                             ELSE IF pending[w] = {} THEN "broken" ELSE "aborted"]
               /\ pending' = [w \in Writers |-> {}]
               /\ UNCHANGED <<thread_stop_requested, use_db, queries, statVars, pollerVars,
                              writerVars, autocommit, database, freed, blank, dropped>>

ServerStarts == /\ ~up
                /\ up' = TRUE
                /\ UNCHANGED <<thread_stop_requested, use_db, queries, statVars, pollerVars,
                               writerVars, conn, autocommit, pending, restarts, database, freed,
                               blank, dropped>>

\* A signal handler sets the flag (module Rounds has its broadcast).
StopRequest == /\ ~thread_stop_requested
               /\ thread_stop_requested' = TRUE
               /\ UNCHANGED <<use_db, queries, statVars, pollerVars, writerVars, serverVars,
                              freed, blank, dropped>>

AllJoined == /\ \A p \in Pollers : ppc[p] = "done"
             /\ \A w \in Writers : wpc[w] = "done"
             /\ UNCHANGED vars

Next == \/ \E p \in Pollers : PollHost(p) \/ PollerStops(p) \/ process_queries(p)
        \/ \E w \in Writers : database_run(w)
        \/ ServerStops \/ ServerStarts \/ StopRequest \/ AllJoined

Spec == Init /\ [][Next]_vars

\* Threads run, sleeps end and the server comes back.  Nothing makes a poller
\* find new data, the server stop, or a stop request arrive; and nothing makes
\* a poller outside of process_queries return, which may wait (poller.c:74) for
\* a broadcast that has passed: StopEndsThreads of module Rounds fails.
Fairness == /\ \A p \in Pollers : WF_vars(process_queries(p))
            /\ \A w \in Writers : WF_vars(database_run(w))
            /\ WF_vars(ServerStarts)

FairSpec == Spec /\ Fairness

-----------------------------------------------------------------------------
(* Properties.                                                             *)

Queued == {queries[k] : k \in 1 .. Len(queries)}

\* The variables keep their types (globals.h:36-45, database.c:31-121).
TypeOK == /\ thread_stop_requested \in BOOLEAN /\ use_db \in BOOLEAN
          /\ queries \in Seq(Inserts) /\ Len(queries) <= Size
          /\ insert_rows \in Nat /\ insert_queries \in Nat /\ dropped_queries \in Nat
          /\ ppc \in [Pollers -> {"idle", "offer", "push", "count", "drop", "done"}]
          /\ batch \in [Pollers -> SUBSET Inserts]
          /\ current \in [Pollers -> Inserts \cup {NoInsert}]
          /\ local \in [Pollers -> [queued : Nat, values : Nat]]
          /\ wpc \in [Writers -> {"top", "connect", "ping", "drain", "pop", "write", "interval",
                                  "finish", "sleep", "close", "done"}]
          /\ insert \in [Writers -> Inserts \cup {NoInsert}]
          /\ query_counter \in [Writers -> 0 .. CommitInterval]
          /\ conn \in [Writers -> {"none", "open", "aborted", "broken"}]
          /\ autocommit \in [Writers -> BOOLEAN]
          /\ pending \in [Writers -> SUBSET Inserts]
          /\ up \in BOOLEAN /\ restarts \in 0 .. MaxRestarts
          /\ database \in SUBSET Inserts
          /\ unborn \in SUBSET Inserts /\ blank \in SUBSET Inserts
          /\ freed \in SUBSET Inserts /\ dropped \in SUBSET Inserts

\* A poller owns its batch and, until it has pushed it, its current insert.
Owned(p) == batch[p] \cup (IF ppc[p] \in {"push", "drop"} THEN {current[p]} ELSE {})
Popped(w) == {insert[w]} \ {NoInsert}

\* An insert in memory is in exactly one place, a poller's list, the queue or
\* one writer's hands, and once freed in none: nothing is freed twice, used by
\* two threads or forgotten, though the pollers check for room and the writers
\* for work before they call the queue (poller.c:115-122, database.c:92-106).
SingleOwner ==
  /\ Inserts \ (unborn \cup freed) = (UNION {Owned(p) : p \in Pollers}) \cup Queued
                                     \cup (UNION {Popped(w) : w \in Writers})
  /\ unborn \cap freed = {}
  /\ \A j, k \in 1 .. Len(queries) : j # k => queries[j] # queries[k]
  /\ \A p \in Pollers : /\ Owned(p) \cap Queued = {}
                        /\ ppc[p] \in {"push", "drop"} => current[p] \notin batch[p]
                        /\ \A q \in Pollers : p # q => Owned(p) \cap Owned(q) = {}
                        /\ \A w \in Writers : Owned(p) \cap Popped(w) = {}
  /\ \A w \in Writers : /\ Popped(w) \cap Queued = {}
                        /\ \A x \in Writers : w # x => Popped(w) \cap Popped(x) = {}

\* What a restart of the server can roll back is bounded by the commit interval
\* (database.c:109-112), whatever the mix of failed, blank and good queries.
TransactionBounded == \A w \in Writers : Cardinality(pending[w]) <= CommitInterval

\* A thread that sleeps, waits for the server or has ended leaves no transaction
\* open (database.c:115-118): only a thread at work can lose rows to a restart.
IdleCommitted == \A w \in Writers :
                   wpc[w] \in {"top", "connect", "ping", "sleep", "done"} => pending[w] = {}

\* Inserts that pollers have pushed, those still uncounted included.
Pushed == Queued \cup (UNION {Popped(w) : w \in Writers}) \cup (freed \ dropped)

\* What poller p will add to insert_queries.
Uncounted(p) == local[p].queued + (IF ppc[p] = "count" THEN 1 ELSE 0)

\* An insert that was queued leaves the queue in the end, unless the threads are
\* asked to stop: the writers never all sleep over work (database.c:39-92).
QueueDrains == \A i \in Inserts : i \in Queued ~> (i \notin Queued \/ thread_stop_requested)

\* After a stop request every database thread ends, though its drain loop
\* (database.c:92) does not look at the flag and the pollers may go on pushing,
\* and every poller comes out of process_queries (poller.c:100-139).  Whether it
\* then returns is not said: it may wait for ever for the next round.
StopEndsPipeline == thread_stop_requested ~>
                      (/\ \A p \in Pollers : ppc[p] \in {"idle", "done"}
                       /\ \A w \in Writers : wpc[w] = "done")

\* Where the program writes to the database, rows popped from the queue are
\* stored, or in an open transaction: "polling can continue unhindered without
\* data loss even in the case of a database restart" (README.md:31-32).
NoLoss == use_db => freed \ (dropped \cup blank)
                      \subseteq database \cup UNION {pending[w] : w \in Writers}
=============================================================================
