------------------------------ MODULE Lifecycle ------------------------------
(***************************************************************************)
(* The main thread (src/main.c): it checks the options and, before it      *)
(* detaches, the files; then it reads the configuration (src/rtgconf.c)    *)
(* and the targets, carries the rows' cached values over from the targets  *)
(* of the life before (src/rtgtargets.c), starts the threads, joins them   *)
(* and begins again, until a SIGTERM handler has set full_stop_requested.  *)
(*                                                                         *)
(* A group of threads is running or not: it ends once it sees              *)
(* thread_stop_requested (modules Rounds and Pipeline say how).  A polled  *)
(* value is the number of its poll; 0 stands for "never polled".           *)
(***************************************************************************)
EXTENDS Naturals, Sequences, FiniteSetsExt

CONSTANTS ConfFiles,   \* the rtg.conf files that users write: sequences of
                       \* lines [directive |-> .., value |-> number or text]
          Files,       \* the targets files that users write: sequences of host blocks
                       \* [host |-> name, oids |-> sequence of OIDs, speeds |-> BOOLEAN],
                       \* speeds if a target has a speed per interval
          Hosts, Oids, \* the names and OIDs in them
          Options,     \* command lines: [detach |-> BOOLEAN,
                       \* max_db_queue |-> number, num_dbthreads |-> number]
          Numbers,     \* values of interval and threads
          Names,       \* values of the directives for the database
          Absent,      \* a line's missing value, and a null pointer
          NoConfig,    \* the null pointer of the configuration
          NoTargets,   \* the null pointer of the targets
          MaxPolls,    \* bound: polls of a row
          MaxSignals   \* bound: signals delivered

MIN_QUEUE_LENGTH == 100
DEFAULT_INTERVAL == 300
DEFAULT_THREADS == 8

NumberDirectives == {"interval", "threads"}
Directives == NumberDirectives \cup {"db_host", "db_database", "db_user", "db_pass"}

ASSUME LimitsAssumption == MaxPolls \in Nat /\ MaxSignals \in Nat
ASSUME ConfigAssumption ==
  /\ Numbers \subseteq Nat /\ {DEFAULT_INTERVAL, DEFAULT_THREADS} \subseteq Numbers
  /\ \A f \in ConfFiles : \A k \in 1..Len(f) :
       /\ f[k].directive \in NumberDirectives => f[k].value \in Numbers \cup {Absent}
       /\ f[k].directive \in Directives \ NumberDirectives => f[k].value \in Names \cup {Absent}

ASSUME OptionsAssumption ==
  Options \subseteq [detach : BOOLEAN, max_db_queue : Nat, num_dbthreads : Nat]
ASSUME FilesAssumption ==
  /\ Files \subseteq Seq([host : Hosts, oids : Seq(Oids), speeds : BOOLEAN])
  /\ NoTargets \notin Seq([host : Hosts, rows : Seq([oid : Oids, value : 0 .. MaxPolls])])
  /\ NoConfig \notin [Directives -> Numbers \cup Names \cup {Absent}]

VARIABLES main,                    \* where the main thread is
          testing,                 \* it checks the files before it detaches
          options,                 \* the command line
          thread_stop_requested,
          full_stop_requested,
          handler,                 \* a SIGTERM handler is between its two stores
          signals,                 \* signals still to come
          running,                 \* the groups of threads that run
          conf_file, file,         \* the two files, as they are on the disk
          opened, line,            \* the rtg.conf that is read, and the next line of it
          targets, old_targets,    \* as in main()
          config,                  \* the configuration, or NoConfig
          queries,                 \* the queue is allocated
          polls                    \* polls made so far

flagVars == <<thread_stop_requested, full_stop_requested>>
signalVars == <<handler, signals>>
startVars == <<testing, options>>
fileVars == <<conf_file, file>>
readVars == <<opened, line>>
heapVars == <<targets, old_targets, config, queries>>
vars == <<main, startVars, flagVars, signalVars, running, fileVars, readVars, heapVars, polls>>

Init == /\ main = "options"
        /\ testing = FALSE
        /\ options \in Options
        /\ thread_stop_requested = FALSE
        /\ full_stop_requested = FALSE
        /\ handler = FALSE
        /\ signals = MaxSignals
        /\ running = {}
        /\ conf_file \in ConfFiles
        /\ file \in Files
        /\ opened = <<>> /\ line = 1
        /\ targets = NoTargets
        /\ old_targets = NoTargets
        /\ config = NoConfig
        /\ queries = FALSE
        /\ polls = 0

-----------------------------------------------------------------------------
\* Mutated forms of the definitions below, each a plausible slip in the code.
FindHost_SamePlace(t, name) == IF Len(t) > 0 /\ t[1].host = name THEN {1} ELSE {}
Joined_DatabaseOnly == "database" \notin running
NextLife_Always == TRUE
Parsed_NotZeroed(f) ==
  [b \in 1 .. Len(f) |->
     [host |-> f[b].host, rows |-> [r \in 1 .. Len(f[b].oids) |->
                                      [oid |-> f[b].oids[r], value |-> MaxPolls + 1]]]]
Verified_HostOnly(c) == c["db_host"] # Absent

-----------------------------------------------------------------------------
(* The configuration.                                                      *)

Defaults == [d \in Directives |-> IF d = "interval" THEN DEFAULT_INTERVAL
                                  ELSE IF d = "threads" THEN DEFAULT_THREADS ELSE Absent]

\* rtgconf_create opens the file and sets the defaults.
OpenConfig == /\ main = "config"
              /\ opened' = conf_file
              /\ line' = 1
              /\ config' = Defaults
              /\ main' = "directives"
              /\ UNCHANGED <<startVars, flagVars, signalVars, running, fileVars, targets,
                             old_targets, queries, polls>>

\* The file is not there; main takes it for a bad one.
ConfigMissing == /\ main = "config"
                 /\ main' = "failed"
                 /\ UNCHANGED <<startVars, flagVars, signalVars, running, fileVars, readVars,
                                heapVars, polls>>

\* A directive without its value is handed to atoi or strdup as a null pointer.
ReadDirective ==
  /\ main = "directives" /\ line <= Len(opened)
  /\ LET directive == opened[line].directive
         value == opened[line].value
     IN IF directive \notin Directives THEN UNCHANGED <<config, main>>
        ELSE IF value = Absent THEN main' = "crashed" /\ UNCHANGED config
        ELSE config' = [config EXCEPT ![directive] = value] /\ UNCHANGED main
  /\ line' = line + 1
  /\ UNCHANGED <<startVars, flagVars, signalVars, running, fileVars, opened, targets,
                 old_targets, queries, polls>>

\* rtgconf_verify does not look at the interval and the number of threads.
Verified(c) == Absent \notin {c["db_host"], c["db_database"], c["db_user"]}

\* main frees the configuration it tests before it reads the targets with it.
VerifyConfig == /\ main = "directives" /\ line > Len(opened)
                /\ main' = IF Verified(config) THEN "parse" ELSE "failed"
                /\ config' = IF testing /\ Verified(config) THEN NoConfig ELSE config
                /\ UNCHANGED <<startVars, flagVars, signalVars, running, fileVars, readVars,
                               targets, old_targets, queries, polls>>

-----------------------------------------------------------------------------
(* The start.                                                              *)

CheckOptions ==
  /\ main = "options"
  /\ main' = IF options.max_db_queue < MIN_QUEUE_LENGTH \/ options.num_dbthreads < 1 THEN "failed"
             ELSE IF options.detach THEN "config" ELSE "while"
  /\ testing' = options.detach
  /\ UNCHANGED <<options, flagVars, signalVars, running, fileVars, readVars, heapVars, polls>>

\* The parent reports success, and its child goes on; or one of the calls fails.
daemonize == /\ main = "daemonize"
             /\ main' \in {"while", "failed"}
             /\ testing' = FALSE
             /\ UNCHANGED <<options, flagVars, signalVars, running, fileVars, readVars,
                            heapVars, polls>>

-----------------------------------------------------------------------------
(* The targets and their cached values.                                    *)

\* What rtgtargets_parse makes of a file: no row has a cached value.
Parsed(f) ==
  [b \in 1 .. Len(f) |->
     [host |-> f[b].host, rows |-> [r \in 1 .. Len(f[b].oids) |->
                                      [oid |-> f[b].oids[r], value |-> 0]]]]

\* rtgtargets_find_host: the first block of that name, if there is one.
FindHost(t, name) == LET found == {b \in 1 .. Len(t) : t[b].host = name}
                     IN IF found = {} THEN {} ELSE {Min(found)}

\* rtgtargets_find_row: the first of the host's rows with that OID, if there is one.
RowsOf(host, oid) == {r \in 1 .. Len(host.rows) : host.rows[r].oid = oid}
FindRow(host, oid) == IF RowsOf(host, oid) = {} THEN {} ELSE {Min(RowsOf(host, oid))}

\* rtgtargets_copy_cache looks up every row of src in the first block of dest
\* with its host's name; of several such rows the last one wins.
Copied(dest, src) ==
  [d \in 1 .. Len(dest) |->
     [dest[d] EXCEPT !.rows =
        [r \in 1 .. Len(@) |->
           LET oid == dest[d].rows[r].oid
               from == {s \in 1 .. Len(src) : /\ d \in FindHost(dest, src[s].host)
                                              /\ RowsOf(src[s], oid) # {}}
               last == src[Max(from)]
           IN IF from = {} \/ r \notin FindRow(dest[d], oid) THEN dest[d].rows[r]
              ELSE last.rows[Max(RowsOf(last, oid))]]]]

-----------------------------------------------------------------------------
(* The main thread.                                                        *)

\* The test of while (!full_stop_requested).
NextLife == ~full_stop_requested

MainWhile == /\ main = "while"
             /\ main' = IF NextLife THEN "config" ELSE "exited"
             /\ UNCHANGED <<startVars, flagVars, signalVars, running, fileVars, readVars,
                            heapVars, polls>>

NoRows(f) == \A b \in 1..Len(f) : f[b].oids = <<>>
DividesSpeed(f) == \E b \in 1..Len(f) : f[b].speeds

\* rtgtargets_parse: a file without targets ends the program.  In the test the
\* interval is what the freed memory holds.
ReadTargets ==
  /\ main = "parse"
  /\ \E interval \in IF config = NoConfig THEN {0, 1} ELSE {config["interval"]} :
       IF interval = 0 /\ DividesSpeed(file) THEN main' = "crashed" /\ UNCHANGED targets
       ELSE IF testing
       THEN main' = (IF NoRows(file) THEN "failed" ELSE "daemonize") /\ UNCHANGED targets
       ELSE main' = (IF NoRows(file) THEN "failed" ELSE "copy") /\ targets' = Parsed(file)
  /\ UNCHANGED <<startVars, flagVars, signalVars, running, fileVars, readVars, old_targets,
                 config, queries, polls>>

CopyCache == /\ main = "copy"
             /\ targets' = IF old_targets = NoTargets THEN targets
                           ELSE Copied(targets, old_targets)
             /\ old_targets' = NoTargets
             /\ main' = "reset"
             /\ UNCHANGED <<startVars, flagVars, signalVars, running, fileVars, readVars, config,
                            queries, polls>>

\* The first statement of run_threads.
ResetStop == /\ main = "reset"
             /\ thread_stop_requested' = FALSE
             /\ main' = "create"
             /\ UNCHANGED <<startVars, full_stop_requested, signalVars, running, fileVars,
                            readVars, heapVars, polls>>

CreateQueue == /\ main = "create"
               /\ queries' = TRUE
               /\ main' = "pollers"
               /\ UNCHANGED <<startVars, flagVars, signalVars, running, fileVars, readVars,
                              targets, old_targets, config,
                              polls>>

\* create_poller_threads, create_database_threads, create_monitor_thread.  With
\* threads 0 there is no poller.
Started(g) == g # "pollers" \/ config["threads"] > 0

StartThreads == /\ main \in {"pollers", "database", "monitor"}
                /\ running' = IF Started(main) THEN running \cup {main} ELSE running
                /\ main' = IF main = "pollers" THEN "database"
                           ELSE IF main = "database" THEN "monitor" ELSE "join"
                /\ UNCHANGED <<startVars, flagVars, signalVars, fileVars, readVars, heapVars,
                               polls>>

\* The three calls of mt_threads_join have returned.
Joined == running = {}

\* The end of run_threads and of the loop body: the queue is freed, with
\* whatever is still in it, and the targets are kept for the next life.
JoinThreads == /\ main = "join"
               /\ Joined
               /\ queries' = FALSE
               /\ config' = NoConfig
               /\ old_targets' = targets
               /\ main' = "while"
               /\ UNCHANGED <<startVars, flagVars, signalVars, running, fileVars, readVars,
                              targets, polls>>

\* While no other thread runs it is the main thread that handles a signal.
main_loop == /\ running = {} => ~handler
             /\ \/ CheckOptions \/ daemonize
                \/ MainWhile \/ OpenConfig \/ ConfigMissing \/ ReadDirective \/ VerifyConfig
                \/ ReadTargets \/ CopyCache \/ ResetStop
                \/ CreateQueue \/ StartThreads \/ JoinThreads

-----------------------------------------------------------------------------
(* The threads, the signals and the user.  Nothing happens once the        *)
(* process is gone.                                                        *)

ProcessEnded == main \in {"exited", "failed", "crashed", "killed"}

\* The handlers are in place once the process is detached.
HandlersSet == ~ProcessEnded /\ main # "options" /\ ~testing

ThreadsEnd(g) == /\ g \in running
                 /\ ~ProcessEnded
                 /\ thread_stop_requested
                 /\ running' = running \ {g}
                 /\ UNCHANGED <<main, startVars, flagVars, signalVars, fileVars, readVars,
                                heapVars, polls>>

\* The monitor divides by an interval of 0 to find the next one (cltime.c).
MonitorDivides == /\ "monitor" \in running /\ config["interval"] = 0
                  /\ ~ProcessEnded
                  /\ main' = "crashed"
                  /\ UNCHANGED <<startVars, flagVars, signalVars, running, fileVars, readVars,
                                 heapVars, polls>>

\* A poller stores a row's new cached values.
PollRow == /\ "pollers" \in running
           /\ ~ProcessEnded
           /\ polls < MaxPolls
           /\ polls' = polls + 1
           /\ \E b \in DOMAIN targets : \E r \in DOMAIN targets[b].rows :
                targets' = [targets EXCEPT ![b].rows[r].value = polls + 1]
           /\ UNCHANGED <<main, startVars, flagVars, signalVars, running, fileVars, readVars,
                          old_targets, config, queries>>

sighup_handler == /\ signals > 0
                  /\ HandlersSet
                  /\ signals' = signals - 1
                  /\ thread_stop_requested' = TRUE
                  /\ UNCHANGED <<main, startVars, full_stop_requested, handler, running,
                                 fileVars, readVars, heapVars,
                                 polls>>

\* The SIGTERM handler stores thread_stop_requested and then full_stop_requested.
sigterm_handler == /\ signals > 0
                   /\ ~handler
                   /\ HandlersSet
                   /\ signals' = signals - 1
                   /\ thread_stop_requested' = TRUE
                   /\ handler' = TRUE
                   /\ UNCHANGED <<main, startVars, full_stop_requested, running, fileVars,
                                  readVars, heapVars, polls>>

SigtermSecondStore == /\ handler
                      /\ ~ProcessEnded
                      /\ handler' = FALSE
                      /\ full_stop_requested' = TRUE
                      /\ UNCHANGED <<main, startVars, thread_stop_requested, signals, running,
                                     fileVars, readVars, heapVars,
                                     polls>>

\* A signal before the handlers are set has its default effect.
SignalKills == /\ signals > 0
               /\ ~ProcessEnded /\ ~HandlersSet
               /\ signals' = signals - 1
               /\ main' = "killed"
               /\ UNCHANGED <<startVars, flagVars, handler, running, fileVars, readVars, heapVars,
                              polls>>

EditFile == /\ ~ProcessEnded
            /\ \/ file' \in Files \ {file} /\ UNCHANGED conf_file
               \/ conf_file' \in ConfFiles \ {conf_file} /\ UNCHANGED file
            /\ UNCHANGED <<main, startVars, flagVars, signalVars, running, readVars, heapVars,
                           polls>>

Rest == ProcessEnded /\ UNCHANGED vars

Next == \/ main_loop
        \/ \E g \in running : ThreadsEnd(g)
        \/ PollRow \/ MonitorDivides \/ SignalKills
        \/ sighup_handler \/ sigterm_handler \/ SigtermSecondStore
        \/ EditFile
        \/ Rest

Spec == Init /\ [][Next]_vars

\* The main thread and the handler run, and the monitor and the database threads
\* see the flag in the end.  The pollers may never do: one that misses the
\* handler's broadcast waits for ever (poller.c:38-74; StopEndsThreads of module
\* Rounds fails), and nothing is assumed of them.
Fairness == /\ WF_vars(main_loop)
            /\ WF_vars(SigtermSecondStore)
            /\ WF_vars(\E g \in running \ {"pollers"} : ThreadsEnd(g))

FairSpec == Spec /\ Fairness

-----------------------------------------------------------------------------
(* Properties.                                                             *)

TargetsType == Seq([host : Hosts, rows : Seq([oid : Oids, value : 0 .. MaxPolls])])
ConfigType == [Directives -> Numbers \cup Names \cup {Absent}]

\* The variables keep their types (main.c:54-55, globals.c:13-14).
TypeOK == /\ main \in {"options", "daemonize", "while", "config", "directives", "parse",
                       "copy", "reset", "create", "pollers", "database", "monitor", "join",
                       "exited", "failed", "crashed", "killed"}
          /\ testing \in BOOLEAN /\ options \in Options
          /\ thread_stop_requested \in BOOLEAN /\ full_stop_requested \in BOOLEAN
          /\ handler \in BOOLEAN /\ signals \in 0 .. MaxSignals
          /\ running \subseteq {"pollers", "database", "monitor"}
          /\ conf_file \in ConfFiles /\ file \in Files
          /\ opened \in ConfFiles \cup {<<>>} /\ line \in Nat \ {0}
          /\ targets = NoTargets \/ targets \in TargetsType
          /\ old_targets = NoTargets \/ old_targets \in TargetsType
          /\ config = NoConfig \/ config \in ConfigType
          /\ queries \in BOOLEAN
          /\ polls \in 0 .. MaxPolls

\* Threads run only on allocated objects: the queue, the configuration and the
\* targets they were given outlive them (main.c:238-255, 195-198).
ThreadsUseLiveObjects ==
  running # {} => config # NoConfig /\ queries /\ targets # NoTargets /\ old_targets = NoTargets

\* The values that the rows of that host and OID have in the targets t.
Cached(t, host, oid) ==
  UNION {{t[b].rows[r].value : r \in RowsOf(t[b], oid)} : b \in {c \in DOMAIN t : t[c].host = host}}

\* A reload copies the cached values: a row whose host and OID were in the
\* targets of the life before, in whichever rows, starts the new one with the
\* value of one of these, if no row before it has its host and its OID.  That
\* may be the 0 of a duplicate that was never polled, even where another row of
\* theirs was.  No other row is touched (rtgtargets.h:139-145, main.c:187-191).
FirstBlock(t, d) == \A b \in 1 .. (d - 1) : t[b].host # t[d].host
FirstRow(host, r) == \A k \in 1 .. (r - 1) : host.rows[k].oid # host.rows[r].oid
CacheSurvivesReload ==
  [][(main = "copy" /\ main' = "reset" /\ old_targets # NoTargets) =>
       \A d \in DOMAIN targets : \A r \in DOMAIN targets[d].rows :
         LET row == targets[d].rows[r]
             before == Cached(old_targets, targets[d].host, row.oid)
         IN IF FirstBlock(targets, d) /\ FirstRow(targets[d], r) /\ before # {}
            THEN \E v \in before : targets'[d].rows[r] = [oid |-> row.oid, value |-> v]
            ELSE targets'[d].rows[r] = row]_vars

\* From the targets on, the program works with what the rtg.conf it read says:
\* the last value of every directive, or its default, and never without a
\* database, whatever was written to the file since (rtgconf.c:43-88).
Given(d) == LET at == {k \in 1..Len(opened) : opened[k].directive = d}
            IN IF at = {} THEN Defaults[d] ELSE opened[Max(at)].value
ConfigAsWritten ==
  config # NoConfig /\ main # "directives" /\ ~ProcessEnded =>
    /\ \A d \in Directives : config[d] = Given(d)
    /\ \A d \in {"db_host", "db_database", "db_user"} : Given(d) # Absent

\* The process has ended, or run_threads waits in mt_threads_join (main.c:245)
\* for nothing but pollers.
Over == ProcessEnded \/ (main = "join" /\ running = {"pollers"})

\* The flags of a SIGTERM that are both set in a life, its start after the reset
\* of main.c:232 included, let no other life begin: the process ends, or waits
\* for its pollers.  A SIGTERM at any other time, whose thread_stop_requested
\* the reset may forget, is lost for one life at most: the process ends or comes
\* to run threads with the flag clear, and the next signal finds it there.
StopWhileRunningEnds ==
  /\ (/\ main \in {"create", "pollers", "database", "monitor", "join"}
      /\ thread_stop_requested /\ full_stop_requested) ~> Over
  /\ full_stop_requested ~> (Over \/ (main = "join" /\ ~thread_stop_requested))
=============================================================================
