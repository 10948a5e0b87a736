# A verification of clpoll

`clpoll` polls the SNMP counters of many hosts in rounds, one round per interval
(five minutes, say), and stores the differences in a MySQL database.  It is a
C program with POSIX threads: one monitor thread, many poller threads, a few
database threads, and a main thread that starts and joins the others.  This
directory holds TLA+ models of it, TLC configurations that check them on small
instances, and TLAPS proofs for instances of every size.

Paths like `poller.c:74` are under `src/src/`.

## The system

| Component | Code | State | Operations | Model |
|---|---|---|---|---|
| Polling rounds | `poller.c:28-98`, `monitor.c`, `rtgtargets.c:377-390`, handlers in `main.c:314-333` | `active_threads`, `thread_stop_requested`, `targets->next_host`, `global_cond`, `this_iteration`, `next_iteration` | `poller_run`, `thread_active`, `thread_inactive`, `rtgtargets_next`, `rtgtargets_reset_next`, `monitor_run`, `start_iteration`, `end_iteration`, the signal handlers | `Rounds` |
| Circular buffer | `clbuf.c` | array of pointers, read and write index | `clbuf_push`, `clbuf_pop`, `clbuf_count_used`, `clbuf_count_free` | `Clbuf` |
| Polling of a host | `poller.c:141-232`, `clinsert.c`, `cltime.c` | the rows' `cached_time` and `cached_counter`, the list of inserts, error and success counts | `get_clinserts`, `calculate_rate`, `clinsert_for_table`, `clinsert_push_value`, `next_interval` | `HostPoll` |
| Pipeline to the database | `poller.c:100-139`, `database.c` | the queue, `statistics`, each thread's insert, query counter and connection | `process_queries`, `database_run`, `process_database_queue`, `print_database_queue` | `Pipeline` |
| Process life cycle | `main.c:58-304`, `rtgconf.c`, `multithread.c`, `rtgtargets.c:392-431` | the two stop flags, options, configuration, targets, queue, the groups of threads | option checks, `daemonize`, `rtgconf_create`, `rtgconf_verify`, the main loop, `run_threads`, `rtgtargets_copy_cache`, the signal handlers | `Lifecycle` |
| `targets.cfg` parsers | `rtgtargets.c:31-375` | none that lasts | `rtgtargets_parse`, `read_host`, `read_row`, `check_for_duplicate`, `rtgtargets_oldstyle_parse`, the two pushes | `Targets` |
| Query of an insert | `clinsert.c:17-47`, `database.c:163-229`, `clgstr.c` | the insert's values, a growing string | `clinsert_push_value`, `build_insert_query`, `clgstr_append` | `InsertQuery` |
| All threads together | `main.c:211-263` | what the parts share: the stop flag, the queue, the statistics | `run_threads`, `process_host`, the monitor's report | `System` |
| SNMP client | `clsnmp.c` | net-snmp's | `clsnmp_session_create`, `clsnmp_get` | its outcomes only |
| Logging, allocation | `cllog.c`, `xmalloc.c` | none | log lines, memory | not modelled |

How they interact:

* The monitor starts a round by resetting `next_host` and broadcasting
  `global_cond`; the pollers count themselves in `active_threads`, take hosts
  until the list is empty, and wait again.  The monitor takes
  `active_threads = 0` for the end of the round.  Both sides access the counter
  and the flags, and the monitor the list, partly outside of `global_lock`.
* A poller that has a host calls `get_clinserts`, which alone reads and writes
  the host's cached values, without a lock: that is safe only if no other poller
  ever has the host at the same time.  It then pushes the inserts to the queue.
* The queue is shared by pollers and database threads.  Each call of `clbuf` is
  atomic, but both sides first count and then push or pop.
* A signal handler sets `thread_stop_requested` (and for SIGTERM also
  `full_stop_requested`), takes `global_lock` and broadcasts.  All threads are to
  return; main joins them, frees the queue and the configuration, and begins the
  next life, into which it copies the rows' cached values.

What is hard: unlocked reads between lock regions, a round's end that is inferred
from a counter that pollers raise only after waking up, check-then-act on the
queue, signals at any instruction, a database that restarts, counters that wrap.
`PROJECT.json` lists each such hazard with its line and the properties that
would catch it.  What makes each component correct:

* *Rounds*: no host polled twice at a time, each host once per round, a round that
  is over is over, the counter never wraps, polling goes on, a stop stops.
* *Clbuf*: it is a bounded FIFO; full and empty are told apart.
* *HostPoll*: a stored difference is what the counter grew by; one insert per
  table; a dead host costs a bounded number of reads; no interval gets two rounds.
* *Pipeline*: every insert has one owner and is freed once; counts are exact; a
  transaction stays small and is not left open; the queue drains; a stop ends the
  database threads.
* *Lifecycle*: threads use only live objects; a reload keeps the cached values; a
  life works with the configuration as it was written; a SIGTERM lets no other life
  begin.
* *Targets*: no list is overrun; no host polls an OID twice; the count of targets is
  right; a file is read as what its blocks or lines mean.
* *InsertQuery*: no buffer is overrun; a query stores the values it is to store, with
  its separators and fields in place, and their numbers as they are if they fit.
* *System*: every queued insert is reported; when the queue is freed nobody uses it;
  a reload starts no second round in an interval and leaves no stale count.

## The modules

`Rounds` has one program counter per poller and one for the monitor.  A critical
section of `global_lock` is one step, as nothing in it blocks but the condition
wait, which is split into "waiting" and "woken".  Accesses without the lock are
steps of their own: the monitor's two reads of `active_threads`
(`MonitorLook`, `RoundOver`), its `ResetNext`, the pollers' tests of the stop
flag (`PollerTop`, `PollerWoken`, `PollerNext`).  `rtgtargets_next` loads and
stores `next_host` in two steps, `LoadNextHost` and `TakeHost`, as the monitor's
reset, which takes no lock, may fall between them.  A handler is a process of
its own that stores the flag in one step and broadcasts in another; two may
overlap.  The clock is the Boolean `due`: whether the next interval has begun.
Two constants describe the environment: `PromptScheduling` says that the
monitor's naps of 250 ms last until the woken pollers have counted themselves,
`SpuriousWakeups` that a condition wait may return by itself.

`HostRounds` is what the rounds promise, in five actions over the hosts still to
do, the host each poller holds, and two flags.  `Rounds` implements it, with
`todo` the indexes from `next_host` on and `holds` the host of each poller that
polls.

`Clbuf` keeps the array, the indexes and the result of the last call;
`BoundedFifo` is a sequence with the same six outcomes.  The refinement mapping
reads the used slots from the read index on.

`HostPoll` is one host over the rounds: `StartRound` is the monitor's start,
`GetSucceeds`, `GetFails` and `AgentRestarted` the three outcomes of reading a
row, `ProcessReading` the decision to store or skip it.  Unsigned arithmetic is
modulo `Word` and `Wide`, 2^32 and 2^64 in the program, and the difference, its
correction and the cut of the rate are computed as the code does.  Time is the
clock in whole seconds.  The field `grown` of a stored value is a history: what
the device's counter really grew by since the last read that succeeded.  The
process may die in three ways, each a stage: `exited` (`poller.c:151`), `aborted`
(`clinsert.c:57`) and `crashed` (`poller.c:224`).

`Pipeline` has every step of `process_queries` and of the database threads as an
action.  The queue is a sequence, by `ClbufProof!Refinement`.  An insert is a
heap object with one row, and the histories `freed`, `dropped` and `blank` tell
what became of it; reading it after it was freed may yield another number of rows.
MySQL is external: a restart rolls back the open transactions; the client library
reconnects (`MYSQL_OPT_RECONNECT`, `database.c:142-161`) into autocommit mode,
but not while a transaction was open.  `use_db`, chosen in `Init`, selects
between queries and option `-d`, which prints them.

`Lifecycle` has the main thread's steps and the signals, from the check of the
options on (`CheckOptions`).  A process that is to detach reads both files once
before it does (`testing`): `VerifyConfig` then frees `config_test`, and
`ReadTargets` uses it all the same (`main.c:138-140`), so that the interval it
divides by may be any.  `rtg.conf` is read line by line (`ReadDirective`), and may
be edited while it is read.  A signal before the handlers are set kills the
process (`SignalKills`).  A handler that runs while no thread does has
interrupted the main thread, which goes on when it has returned (the guard of
`main_loop`).  A group of threads is one thing that runs or has ended;
a targets file is a sequence of host blocks with sequences of OIDs, in which a host
and an OID may stand more than once, and a cached value is the number of the poll
that stored it.  `MonitorDivides` is the crash over an
interval of 0.

`Targets` reads a file that is given as both parsers see it: its words, each with
the argument behind it, and its lines.  `reader` is the innermost loop.  A word
that is no keyword in this loop is skipped, so that a file with a `}` left out is
read as the code reads it.  `Matches` and `Faults` are the two ways in which
`check_for_duplicate` may end: at a duplicate, or in `strcmp` with a null pointer.
`DividesByZero` and `LineDividesByZero` are the crashes over an interval of 0.
A well-formed file comes with its `blocks`, the places where each host and each
target begins and ends; `BlocksAssumption` says how the words lie between them.
`Target` says what a target means without reading it word by word, `Kept` which
targets of a host are left when those that repeat one are not taken.

`InsertQuery` builds the query of one insert.  A piece of it is a text of the code,
a name or a number, and has a length; `AppendPiece` grows the buffer as
`clgstr_append` does.  `Growth` is the rule by which the arrays of `Targets` and
`InsertQuery` grow.

`System` composes `Rounds` and `Pipeline`, instances over one set of variables that
share `thread_stop_requested`: the poller that polls a host in one is the poller
that queues its inserts in the other (`HostPolled`, `QueueStep`, `HostQueued`), and
the monitor's report is about the inserts (`Report`, `ResetStatistics`).  The main
thread joins the threads, frees the queue and starts the next life
(`mt_threads_join`, `clbuf_free`, `StartThreads`), the last two not in the middle of
a handler, which then runs on the main thread (`NoHandler`).  The histories `reported`,
`discarded` and `leaked` say what became of the count of an insert and of the
insert; `begun`, whether the present interval has had a round.  Failing queries and
restarts of the server are left to `Pipeline` alone.

The modules `MC...` give the constants for TLC.  `ClbufProof`, `RoundsProof`,
`HostPollProof`, `PipelineProof`, `LifecycleProof`, `TargetsProof`,
`InsertQueryProof` and `SystemProof` hold the proofs.
Definitions named `X_Something` after a definition `X` are plausible slips in the
code: each listed property is known to fail when one of them takes the place of `X`
(`"mutants"` in `PROJECT.json`).

## The runs

| Run | Shows | Bounds |
|---|---|---|
| `MCClbuf` | `TypeOK`, `Occupied`, `FifoSpec` | 4 slots, 2 pointers: every rotation of the indexes, empty, full and wrapped |
| `MCRounds` | `TypeOK`, `HostExclusive`, `HostRoundsSpec`, `ReportComplete`, `NothingSwallowed`, `HostsKeepBeingPolled`, `StopSettles` | 3 pollers, 2 hosts, 1 signal; naps are long enough |
| `MCRoundsUntimed` | `ActiveCount`, `AtMostOncePerRound` | 2 pollers, 3 hosts, 2 signals; late and spurious wakeups |
| `MCHostPoll` | `TypeOK`, `DifferenceExact`, `OneInsertPerTable`, `DeadHostSkipped`, `OneRoundPerInterval` | 4 rows in 3 tables with room for 2; words of 1 and 2 bits; 4 seconds, up to 3 rounds |
| `MCPipeline` | `TypeOK`, `SingleOwner`, `TransactionBounded`, `IdleCommitted` | 2 pollers, 2 database threads, 3 inserts, one place in the queue, refused queries |
| `MCPipelineCommit` | `QueueDrains`, `StopEndsPipeline` | 1 poller, 1 database thread, 3 inserts, a restart of the server |
| `MCInsertQuery` | `TypeOK`, `BuffersFit`, `QueryHoldsValues` | up to 3 values, one of them wider than a word; table names of 1 to 16 characters; words modulo 16 and 256 |
| `MCTargets` | `AppendsFit`, `NoDuplicateRows`, `TargetsCounted`, `ReadsBlocks`, `ReadsTable` | one host with up to 3 targets, up to 3 hosts, words of no meaning between them, each also with a `}` left out; tables of up to 4 lines; intervals 0 and 2 |
| `MCLifecycle` | `TypeOK`, `ThreadsUseLiveObjects`, `ConfigAsWritten`, `CacheSurvivesReload`, `StopWhileRunningEnds` | 2 signals, 2 polls, 3 command lines, 4 targets files, 4 `rtg.conf` files |
| `MCSystem` | `EveryQueryReported`, `NothingHeld`, `ActiveInEveryLife`, `OneRoundPerInterval` | 2 pollers, 1 database thread that prints, 2 inserts, one place in the queue, 1 host, 1 SIGHUP; naps are long enough |
| `MCRoundsLostWakeup` | the code violates `StopEndsThreads` | 2 pollers, 1 host, 1 signal |
| `MCPipelineRestart` | the code violates `NoLoss` | 1 poller, 1 database thread, 2 inserts, a restart of the server |

`StopEndsPipeline` says of a stop that every database thread ends and that every
poller comes out of `process_queries`.  It does not say that the pollers return: one
that waits for the next round (`poller.c:74`) may have missed the broadcast, which is
what `MCRoundsLostWakeup` shows.  `StopWhileRunningEnds` is as careful: the process
is *over* when it has ended or when main waits in `mt_threads_join` for nothing but
pollers (`Over`).  A SIGTERM whose two stores fall into one life, from the reset of
the flag at its start on, leads there.  At any other time its first store may be
forgotten (`main.c:232`), which the second part of the property allows, but for one
life only: then main joins threads with the flag clear, and another signal finds it
there.

`NoLoss` is about a program that writes to its database: without `use_db`, which
prints the queries, it says nothing.  In the trace of `MCPipelineRestart` the server
goes down after the ping of a database thread, the query fails, and the insert is
freed.  (A transaction that is rolled back loses inserts, too: its trace is longer.)

`QueryHoldsValues` says what is stored of a value: `Series`, as the code prints it,
equals `Exact`, the numbers of the row as they are, if and only if the current value
`Fits`.  A value that is too wide is in the run, and its number is cut
(see "Known deviations").

Why the bounds are enough.  Three pollers are one that has taken the last host,
one that polls and one that comes late; with two hosts and three pollers there
is also one that finds the list empty.  Rounds repeat without bound, so that
late rounds and overruns occur; one signal stops all threads, and a second one
that overlaps the first is in `MCRoundsUntimed`.  In `HostPoll` differences over
a wrap, over a failed read and over a skipped one need three rounds; the words
are so narrow that every pair of readings occurs.  One place in the queue with
two threads on each side gives the races for the last place and the last insert;
three inserts are one more than the commit interval of the model.  Two signals
are a reload and a stop, or one at the wrong moment; two polls are one in each of
two blocks of a host, of two rows of an OID, or of two lives.  Targets lists begin with two places, so that
the third host or row makes them grow; three targets are two that differ and one
that repeats either, and a host that stands first, last and between two lines of
another needs four lines.  Sixteen lengths of the table's name move the end of the
query over every place of a buffer's last quarter.  In `System` two inserts
are one in each of two rounds or lives, or two of one batch, and one signal is a life
that ends and another that begins; there are no more signals, so that the second
life runs on.  Late and spurious wakeups in `System` are left to the proofs, which
hold on every schedule for all of its properties but `EveryQueryReported`.

`NothingSwallowed`, `HostExclusive`, `HostRoundsSpec`, `ReportComplete` and
`EveryQueryReported` suppose `PromptScheduling` and no spurious wakeups: without them
the monitor may report or reset while pollers work (see "Known deviations").

Deadlock is checked in `Clbuf`, `MCRoundsUntimed`, `Pipeline`, `InsertQuery`,
`Targets` and `Lifecycle`; the modules whose process may end have a step `Rest` for
it.  It is off in the timed runs of `Rounds` and in `System`, where the program
really hangs (see `MCRoundsLostWakeup`), and in `HostPoll`, where the clock is
bounded and the process may die.  `MCRoundsUntimed` cannot hang since spurious
wakeups end every wait.  `MCSystem` checks no liveness: its 1.7 million states leave
no room for it, and that a reload comes to its end is not shown by any run.

### Fairness

Weak fairness only.  *Rounds*: every poller and the monitor run when they can
(the kernel schedules runnable threads, SNMP requests time out), time passes, and
a handler that has begun finishes; no fairness makes a signal arrive.
*Pipeline*: pollers process the inserts they have, database threads run and their
sleeps end, a server that is down comes up; nothing makes new data, a server
failure or a stop happen, and nothing makes a poller return.  *Lifecycle*: the main
thread and the handler run, and the monitor and the database threads that may end
do (`StopSettles` and `StopEndsPipeline` say so of theirs).  Nothing is assumed of
the pollers, in neither module: the lost wakeup keeps one waiting for ever.

## What is proved

`ClbufProof`, for every capacity and every set of pointers: `TypeCorrect`,
`SlotsOccupied` and `Refinement` (`Spec => FifoSpec`).  `Occupied` alone is not
inductive: a push stores at the write index, so `IInv` adds `Consecutive`, which
says that the write index is where the run of used slots ends.  The refinement
then shows for each call that the sequence of used slots is appended to,
shortened at its head or left alone.

`RoundsProof`, for every finite non-empty set of pollers and every number of
hosts, in two layers:

* `Core` is inductive on every schedule, late and spurious wakeups included.
  `ActiveCount` relates `active_threads` to the set of pollers between increment
  and decrement; `OneTaker` is the mutual exclusion of `next_host_lock`;
  `Indexed` and `HandedBelow` say that indexes to be given out lie above those
  that were, which an unlocked reset restarts together with the history.  It
  yields `TypeCorrect`, `ActiveCountExact` and `HandedOutOnce`.
* `Timed` is inductive under `PromptScheduling /\ ~SpuriousWakeups`.  `Quiet`,
  `Arrived`, `StartsAlone` and `Inside` say that outside of the monitor's nap no
  poller is about to enter a round without being counted, which is what the
  monitor's inference from `active_threads = 0` needs; `Attended` says that while
  hosts are left, some counted poller is on its way to them; `StopSeen` that
  threads leave only after a stop.  It yields `HostsExclusive` and
  `Implementation` (`Spec => HostRoundsSpec`).  The assumption is needed: with
  late wakeups TLC finds a round that ends before it began.

`HostPollProof`, for every host, every pair of word sizes with `Word <= Wide` and
every limit: `TypeCorrect`, `DifferencesExact`, `OneInsertForEachTable`,
`ErrorLimitKept` and `RoundsAligned`, all from one invariant `IInv`.  Its parts:
`Synced` says that a row's cached value is the last one read, which holds because
every successful read ends in `Remember` (`poller.c:208-209`), stored or not,
unless the process dies over it; `Counters` that readings fit their width;
`Polling` relates the loop's counters; `Listed` is the shape of the list, whose
values are exact; `RowsBefore` that rows come in order; `Aligned` that
`next_iteration` is the interval after the last round's.  The arithmetic is in
`DifferenceIsGrowth` (`poller.c:153-161`) and `IntervalPassed` (`cltime.c:20-23`).

`PipelineProof`, for every number of threads and inserts and every size of the
queue: `OwnersInvariant`, hence `TypeCorrect` and `InsertsHaveOneOwner`;
`TransactionsInvariant`, hence `TransactionsAreBounded` and
`IdleThreadsCommitted`.  The owners of an insert are exclusive because of `Hands`,
which says what a thread holds at each of its stages, and `OneOwner`, which says
for one insert at a time where it may be; each action moves one insert.  For the
transactions `SmallTransactions` bounds the open transaction at each stage by
`Allowed`: what the counter of the thread is beyond a multiple of the interval.
Failed and blank queries make the bound larger than the transaction, never smaller.

`LifecycleProof`, for all files and command lines: `TypeCorrect`, `LiveObjects`,
`ConfigurationAsWritten` and `ReloadKeepsCache`.  `Stages` says which objects there
are at each stage of main; `Filled`, that the configuration is what the lines read
so far give.  The reload rests on which block and row a lookup finds, the first of
its name (`FindHostFinds`, `FirstIsFound`, `FirstRowIsFound`), on which row of the
old targets is copied, the last (`LastSource`), and on `CopiedValue`, which says of
every row of the new targets what it holds after the copy: one of those values, if
it is the first of its host and OID and there is any, and else what it had.

`TargetsProof`, for all files: `TypeCorrect`, `ListsHoldWhatIsAppended` and
`RowsAreDistinct`.  The first needs that a list has two places or more: `Grown`
of one is one.  The last needs that the grouped reader never has a current host
(`NoCurrentHost`).  `InsertQueryProof`, for all lengths of names and numbers:
`TypeCorrect` and `AppendsFitBuffers`, from `AppendFits`, which is about one piece.

`TargetsProof` also says what the readers produce.  `NumberOfTargets` relates
`ntargets` to the sum of the hosts' rows: a host that is pushed or a row that is
added changes it by as much (`SameRows`, `OneMoreRow`).  `TableIsRead` is for tables
of any length: `Table` says that after each line the list is what `HostsOf` says of
the lines so far, one host for every name, in the order of the first lines, with all
its rows.  `LineRead` is the effect of one line, on a new host (`LineBeginsHost`) or
a known one (`LineAddsRow`); that the search finds the only host of its name rests on
the order, by which two hosts never have the same.

`BlocksAreRead` is for well-formed files of any number of blocks, targets and words.
`Parsed` says where the reader is: in a gap between two blocks, in one between two
targets of a block, or in a target, with the row that the target means up to the
present word (`TargetMore` adds one).  `InGap` is why no step can miss a keyword: a
word of a gap is its end or no keyword.  At the end of a target the rows kept so far
decide, as `Kept` does, whether its row is one more (`RepeatedIsLeft`, `NewIsKept`);
all have a table, so that `strcmp` gets no null pointer.  The theorem does not say
what becomes of a file that is not well-formed; for such files there are
`RowsAreDistinct`, `NumberOfTargets` and `ListsHoldWhatIsAppended`.

`InsertQueryProof!QueryHoldsTheValues` is for any number of values: `Built` says that
the string and the pieces still pending are the header and the series up to the
present value, and that `rows` is positive once there is one, which is what decides
about the next separator; `FieldsMatch`, that a series has a number for every column
of the header, in each of the four configurations; `ExactIfFits`, that its numbers
are those of the row if and only if the current value fits in a word, where it is
asked for (`UnsignedExact`).

`RoundsProof` also has `NothingIsSwallowed`, in the timed layer: between the report
and the reset all pollers wait; and `ReportsAreComplete`, from `Covered`: the
statistics and the pollers that still poll account for every host handed out.  It supposes that
`StatisticsCap`, a bound of the model only, is not below the number of hosts.

`SystemProof` is about the composition, for every number of threads, hosts, inserts
and lives.  Nearly every step of `System` is one of `Rounds`, of `Pipeline` or both,
so that the lemmas of `RoundsProof` and `PipelineProof` about single steps say what
it keeps; the main thread's steps between two lives are new.

* `Lives` is inductive on every schedule: `Core` of `RoundsProof`, `Owners` and
  `SmallTransactions` of `PipelineProof` and `Stages`, which says when the threads
  have ended.  An insert that is lost with its queue counts there as freed
  (`freed <- freed \cup leaked`), which makes freeing the queue a step after which
  all inserts still have their owner.  It yields `ActiveCountInEveryLife` and
  `NothingIsHeld`.
* `OneRoundInEachInterval` needs `NotDueAgain` alone: the interval of a round that
  has begun is not due again, and a new life goes on with it.
* `TimedLives` extends the timed layer over reloads, which stop pollers anywhere in
  a round.  On it rests `EveryQueryIsReported`, with `Accounts`: what was reported,
  what a stop discarded, what is in the statistics and what the pollers have yet to
  add make up what was pushed, and a poller with something to add is polling, so
  that no reset falls in between.

Recursive functions (`RowsUpTo`, `OwnRows`, `SeriesUpTo`) are shown to exist, and to
have values of their type, by the least argument for which they do not
(`LeastElement`, from `WFMin`): the induction theorems take an operator as parameter,
which the installed provers cannot instantiate.  A theorem about several modules
restates what it needs of an instance (`SameSets`, `SamePollers` and their like):
every `INSTANCE` has its own copy of the library's operators.

Assumptions on the constants are the `ASSUME`s of the modules: a capacity of
at least one, a null pointer that is not stored, at least one poller and one
host, positive word sizes and a positive interval in `HostPoll` (`Lifecycle` and
`Targets` have the interval of 0, which `rtgconf_verify` does not refuse), lists
that begin with two places or more, files made of the words they are to hold and
blocks that lie in them as `Laid` says.

Only model-checked: the liveness properties `HostsKeepBeingPolled`, `StopSettles`,
`QueueDrains`, `StopEndsPipeline` and `StopWhileRunningEnds`.  Fairness and ENABLED
are beyond the prover.

## Known deviations

Two are shown by runs and told in `PROJECT.json`, `"findings"`: the lost wakeup of a
stop and the loss at a database restart.  Others met while modelling; the models
have the code's behaviour, and the properties allow it or, where this list names one,
state it.

Rounds and polling:

* `monitor.c:44, 56`: `active_threads` is read at two places of the loop.  Pollers
  that finish a late round in between let the next one start unreported, and its
  report then adds up both.  `ReportComplete` therefore says "at least".
* `monitor.c:50-56`: without `PromptScheduling` a round may be ended before a
  poller has begun.
* `poller.c:193`: a cached counter of 0 counts as "never read" unless the new
  reading is 0, too, so the interval in which an idle counter (or a gauge) leaves
  zero is not stored, though `cached_time` tells that it was read.
* `poller.c:163`: the rate is cut to 32 bits before it is compared with `speed`.
* `poller.c:149`: a row that is read twice in one second, as after a late round,
  would divide by zero; the process exits instead.
* `poller.c:66-71`: a poller stamps `query_threads_finished` after it has decreased
  `active_threads`, so that the monitor may print the stamp of the round before.
* `poller.c:216`: a host is left when its errors reach the limit (`poller.h:21`,
  `globals.h:30`); line 39 of the repository's README.md speaks of a number that is exceeded.
* `poller.c:74`, `monitor.c:120`: both wait without testing the stop flag first.  The
  poller's wait may then last for ever (a finding), the monitor's until the next
  interval.
* `poller.c:222-224`: a session that could not be created is freed, which reads
  through a null pointer.
* `cltime.c:22`: an interval of 0 divides by zero.

Inserts, queue and database:

* `poller.c:120`: an insert is read after it was pushed, when a database thread may
  have freed it; the number of rows that is then counted is what the memory holds.
* `poller.c:127`: `dropped_queries` is `n_queries - processed_inserts`, which is 0
  whenever the loop has ended: drops for lack of space are never counted.
* `clinsert.c:65`: a full list of inserts is read one place behind its end before
  the bound is tested.
* `database.c:181`: values whose rate is 0 are left out unless `-z` was given, also
  when the counter grew by less than one in a second.
* `database.c:213`: the current value is an `unsigned long long` ("Current counter
  value", `clinsert.h:33`) but printed with `%u`, so that of a counter of 2^32 or
  more only the low 32 bits are stored, where option `-C` is to "store current
  interface counter value" (`main.c:216`, and `rtgconf.h:25`).  `QueryHoldsValues`
  states it: the query has the numbers of the row exactly where they fit.

Life cycle:

* `main.c:138-140`: the check before daemonizing frees `config_test` and then parses
  the targets with it, so that what it finds may not be what the program would find.
* `main.c:158`: a signal before the handlers are set kills the process.
* `main.c:232`: `run_threads` clears `thread_stop_requested`; a signal that arrives
  between two lives is forgotten, a SIGTERM too, until the life that has begun is
  stopped by another signal.
* `main.c:234-236`: of the statistics a new life resets some only.
* `main.c:254`: inserts that are still queued when the queue is freed are leaked, and
  their rows lost; the queue is not empty if pollers push after the database
  threads, joined first, have ended.
* `main.c:187`, `rtgtargets.c:392-431`: with a host in two blocks of `targets.cfg`, or
  an OID in two rows of a host, a reload finds the first block and the first row
  only, and the other rows start without a cached value.  Of several rows of the old
  targets the last is copied, a value of 0 (never polled) included.
* `rtgconf.c:60, 70`: an interval or a number of threads of 0 is taken, and a
  directive without its value crashes the process.
* `globals.h:62` says that `global_lock` protects the statistics and counters;
  `monitor.c:70` and `monitor.c:108-113` access them without it.

`targets.cfg`:

* `rtgtargets.c:291`: a row without a table is compared with `strcmp`, which is given
  a null pointer.
* `rtgtargets.c:148`: with a `}` missing, the next block becomes part of the one before
  and its host is not polled.
* `rtgtargets.c:215`: words of a description are scanned as keywords.
* `rtgtargets.c:61`: the word `host` in a description hides a file of the table-like
  style: the first reader finds a host without rows.
* `rtgtargets.c:237`: a speed is divided by the interval only if bits stand before it,
  so that the order of two settings decides what the pollers compare with.
* `rtgtargets.c:367`: ten gigabits do not fit an `unsigned`, what the conversion gives
  is undefined (`TenGigabits`), and it is divided by the interval as an amount is not.

## Not modelled

`getopt`, the help text and the system calls of `daemonize` come before any thread;
their outcome is in `Lifecycle`.  The characters of files, queries and log messages,
net-snmp and `xmalloc`, which ends the process when memory is short, have no state
the properties could tell apart; where a length matters (`InsertQuery`) pieces have
one.  A handler that runs on a thread holding `global_lock` (`main.c:319`) would
block on its own lock; `Rounds` delivers signals to a thread that does not hold it.
Torn or stale reads of the flags, which C leaves undefined and mainstream builds do
not show for aligned words, are not modelled beyond the interleaving of the
accesses.  In `Rounds` the statistics of a host are one step, in `Pipeline` those of
a batch.

## Plan

Done: all components named above, with proofs of every safety property the runs
check.  Next: `System` with two database threads, with restarts of the server, and
with the liveness of a reload on a smaller instance.
