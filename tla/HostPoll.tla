------------------------------ MODULE HostPoll ------------------------------
(***************************************************************************)
(* The polling of one host, round after round: get_clinserts and           *)
(* calculate_rate (src/poller.c) read the counters of the host's rows,     *)
(* compare them with the cached ones and collect the values to store in    *)
(* one insert per table (src/clinsert.c).  Rounds start when the monitor   *)
(* finds the next interval begun (src/monitor.c, src/cltime.c).            *)
(*                                                                         *)
(* Nobody else polls the host meanwhile (theorem HostsExclusive of module  *)
(* RoundsProof).  Time is in seconds, as time() gives it.  Arithmetic on   *)
(* unsigned is modulo Word, on unsigned long long modulo Wide.  The SNMP   *)
(* agent is external: between two readings a counter grows, or starts      *)
(* again from any value because the agent has restarted.                   *)
(***************************************************************************)
EXTENDS Integers, Sequences, FiniteSets

CONSTANTS NRows,      \* nrows: rows are 1 .. NRows
          Bits,       \* of each row: 0 for a gauge, 32 or 64
          Table,      \* of each row: the name of its table
          Speed,      \* of each row: rates from here on are not stored
          Word, Wide, \* 2^32 and 2^64 in the code
          MaxErrors,  \* max_errors_per_host
          MaxTables,  \* MAX_TABLES, 64 in the code
          Interval,   \* the polling interval, in seconds
          MaxGrowth,  \* bound: growth of a counter between two readings
          MaxTime     \* bound: where the clock stops

Rows == 1 .. NRows
Tables == {Table[r] : r \in Rows}

ASSUME RowsAssumption == /\ NRows \in Nat
                         /\ Bits \in [Rows -> {0, 32, 64}]
                         /\ DOMAIN Table = Rows
                         /\ Speed \in [Rows -> Nat]
ASSUME WidthAssumption == Word \in Nat \ {0} /\ Wide \in Nat \ {0} /\ Word <= Wide
ASSUME LimitsAssumption == /\ MaxErrors \in Nat
                           /\ MaxTables \in Nat
                           /\ Interval \in Nat \ {0}
                           /\ MaxGrowth \in Nat
                           /\ MaxTime \in Nat \ {0}

VARIABLES
  clock,
  next_iteration,   \* of the monitor
  stage,            \* "idle", "listed" for this round, "polling", "polled" or how it died
  row,              \* the row to read next, the loop's i
  errors,           \* reads of this poll that failed
  snmp_success,     \* reads of this poll that did not
  statistics,       \* the monitor's statistics: reads of this round, by outcome
  inserts,          \* the list that get_clinserts builds
  cached_time, cached_counter,
  device,           \* the counters as they were at the last reading
  started           \* history: when the last round started

roundVars == <<next_iteration, started>>
pollVars == <<row, errors, snmp_success, inserts>>
cacheVars == <<cached_time, cached_counter>>
vars == <<clock, roundVars, stage, pollVars, statistics, cacheVars, device>>

\* A counter of b bits counts modulo this; gauges are below it, too.
Modulus(b) == IF b = 64 THEN Wide ELSE Word

NoReads == [snmp_fail |-> 0, snmp_success |-> 0]

Init == /\ clock = 1
        /\ next_iteration = 0
        /\ stage = "idle"
        /\ row = 1
        /\ errors = 0
        /\ snmp_success = 0
        /\ statistics = NoReads
        /\ inserts = <<>>
        /\ cached_time = [r \in Rows |-> 0]
        /\ cached_counter = [r \in Rows |-> 0]
        /\ device \in [Rows -> 0 .. Wide - 1]
        /\ \A r \in Rows : device[r] < Modulus(Bits[r])
        /\ started = 0 - Interval

-----------------------------------------------------------------------------
\* Mutated forms of the definitions below, each a plausible slip in the code.
CounterDiff_NoWrap(prev, cur, b) == (cur - prev) % Wide
CounterDiff_WiderType(prev, cur, b) ==
  ((cur - prev) % Wide) + (IF prev > cur THEN Modulus(b) ELSE 0)
InsertFor_FromSecond(list, table) ==
  LET places == {k \in 2 .. Len(list) : list[k].table = table}
  IN IF places = {} THEN Len(list) + 1 ELSE CHOOSE k \in places : \A j \in places : k <= j
TooManyErrors_Exceeded(n) == n > MaxErrors
NextInterval_Rounded(now) == (now \div Interval) * Interval

-----------------------------------------------------------------------------
(* Rates.                                                                  *)

\* The difference of two readings, put right if the counter has wrapped.
CounterDiff(prev, cur, b) ==
  LET diff == (cur - prev) % Wide
  IN IF prev > cur THEN (diff + Modulus(b)) % Wide ELSE diff

\* The rate of a counter's difference, cut to an unsigned.
Rate(diff, elapsed) == (diff \div elapsed) % Word

\* next_interval: the first interval that begins after now.
NextInterval(now) == (now \div Interval + 1) * Interval

-----------------------------------------------------------------------------
(* The list of inserts.                                                    *)

\* clinsert_for_table: the place of the table's insert, or the first free one.
InsertFor(list, table) ==
  LET places == {k \in 1 .. Len(list) : list[k].table = table}
  IN IF places = {} THEN Len(list) + 1 ELSE CHOOSE k \in places : \A j \in places : k <= j

\* The list once a value is pushed to the insert of its table.
Pushed(list, table, value) ==
  LET k == InsertFor(list, table)
  IN IF k > Len(list) THEN Append(list, [table |-> table, values |-> <<value>>])
     ELSE [list EXCEPT ![k].values = Append(@, value)]

-----------------------------------------------------------------------------
(* A round.                                                                *)

\* end_iteration has reset the statistics since the last round.
StartRound == /\ stage = "idle"
              /\ clock >= next_iteration
              /\ next_iteration' = NextInterval(clock)
              /\ started' = clock
              /\ statistics' = NoReads
              /\ stage' = "listed"
              /\ UNCHANGED <<clock, pollVars, cacheVars, device>>

\* A poller takes the host and opens a session.
OpenSession == /\ stage = "listed"
               /\ row' = 1 /\ errors' = 0 /\ snmp_success' = 0
               /\ inserts' = <<>>
               /\ stage' = IF NRows = 0 THEN "polled" ELSE "polling"
               /\ UNCHANGED <<clock, roundVars, statistics, cacheVars, device>>

\* The session cannot be opened: get_clinserts says so, and then frees the
\* session it has not got, which reads through a null pointer.
SessionFails == /\ stage = "listed"
                /\ stage' = "crashed"
                /\ UNCHANGED <<clock, roundVars, pollVars, statistics, cacheVars, device>>

TooManyErrors(n) == n >= MaxErrors

\* On to the next row, unless there is none or the errors are too many.
NextRow(failed) ==
  /\ row' = row + 1
  /\ stage' = IF row = NRows \/ TooManyErrors(failed) THEN "polled" ELSE "polling"

GetFails == /\ stage = "polling"
            /\ errors' = errors + 1
            /\ NextRow(errors + 1)
            /\ UNCHANGED <<clock, roundVars, snmp_success, inserts, statistics,
                           cacheVars, device>>

\* A previous value is needed for a counter ...
HasPrevious(r) == Bits[r] = 0 \/ cached_time[r] # 0

\* ... and a cached zero counts as one only while the reading stays zero.
Usable(r, counter) == cached_counter[r] > 0 \/ (cached_counter[r] = 0 /\ counter = 0)

Difference(r, counter) ==
  IF Bits[r] = 0 THEN counter ELSE CounterDiff(cached_counter[r], counter, Bits[r])
Elapsed(r) == clock - cached_time[r]
RateOf(r, counter) ==
  IF Bits[r] = 0 THEN counter % Word ELSE Rate(Difference(r, counter), Elapsed(r))

\* The reading becomes the row's cached value, whether it was stored or not.
Remember(r, counter) == /\ cached_time' = [cached_time EXCEPT ![r] = clock]
                        /\ cached_counter' = [cached_counter EXCEPT ![r] = counter]
                        /\ snmp_success' = snmp_success + 1

Value(r, counter, grown) ==
  [row |-> r, counter |-> Difference(r, counter), rate |-> RateOf(r, counter), grown |-> grown]

\* The difference is to be stored, but there may be no room for its table.
StoreValue(r, counter, grown) ==
  IF InsertFor(inserts, Table[r]) > MaxTables
  THEN /\ stage' = "aborted"
       /\ UNCHANGED <<pollVars, cacheVars>>
  ELSE /\ inserts' = Pushed(inserts, Table[r], Value(r, counter, grown))
       /\ Remember(r, counter)
       /\ NextRow(errors)
       /\ UNCHANGED errors

\* calculate_rate gives up when no second has passed since the last reading.
RateExits == /\ stage' = "exited"
             /\ UNCHANGED <<pollVars, cacheVars>>

\* The row is not stored: no previous value, an unusable one, or too fast.
SkipRow(r, counter) ==
  /\ Remember(r, counter)
  /\ NextRow(errors)
  /\ UNCHANGED <<errors, inserts>>

\* Stands for the growth of a counter whose agent has restarted.
Restarted == -1

\* What get_clinserts does with a reading of row r; grown is how much the
\* counter has grown since the last one.
ProcessReading(r, counter, grown) ==
  IF ~(HasPrevious(r) /\ Usable(r, counter)) THEN SkipRow(r, counter)
  ELSE IF Bits[r] # 0 /\ Elapsed(r) = 0 THEN RateExits
  ELSE IF RateOf(r, counter) < Speed[r] THEN StoreValue(r, counter, grown)
  ELSE SkipRow(r, counter)

GetSucceeds == /\ stage = "polling"
               /\ \E grown \in 0 .. MaxGrowth :
                    LET counter == (device[row] + grown) % Modulus(Bits[row])
                    IN /\ device' = [device EXCEPT ![row] = counter]
                       /\ ProcessReading(row, counter, grown)
               /\ UNCHANGED <<clock, roundVars, statistics>>

AgentRestarted == /\ stage = "polling"
                  /\ \E counter \in 0 .. Modulus(Bits[row]) - 1 :
                       /\ device' = [device EXCEPT ![row] = counter]
                       /\ ProcessReading(row, counter, Restarted)
                  /\ UNCHANGED <<clock, roundVars, statistics>>

\* The end of get_clinserts.
AddStatistics == /\ stage = "polled"
                 /\ statistics' = [snmp_fail |-> statistics.snmp_fail + errors,
                                   snmp_success |-> statistics.snmp_success + snmp_success]
                 /\ stage' = "idle"
                 /\ UNCHANGED <<clock, roundVars, pollVars, cacheVars, device>>

get_clinserts == \/ OpenSession \/ SessionFails \/ GetFails \/ GetSucceeds \/ AgentRestarted
                 \/ AddStatistics

Tick == /\ clock < MaxTime
        /\ clock' = clock + 1
        /\ UNCHANGED <<roundVars, stage, pollVars, statistics, cacheVars, device>>

Next == StartRound \/ get_clinserts \/ Tick

Spec == Init /\ [][Next]_vars

-----------------------------------------------------------------------------
(* Properties.                                                             *)

Values == UNION {{i.values[k] : k \in DOMAIN i.values} : i \in {inserts[j] : j \in DOMAIN inserts}}

\* The variables keep their types, and what fits an unsigned or an unsigned
\* long long stays in it (rtgtargets.h:24-32, clinsert.h:28-34).
TypeOK == /\ clock \in 1 .. MaxTime
          /\ next_iteration \in Nat /\ started \in Int
          /\ stage \in {"idle", "listed", "polling", "polled", "exited", "aborted", "crashed"}
          /\ row \in 1 .. NRows + 1
          /\ stage = "polling" => row \in Rows
          /\ errors \in 0 .. NRows /\ snmp_success \in 0 .. NRows
          /\ statistics \in [snmp_fail : Nat, snmp_success : Nat]
          /\ cached_time \in [Rows -> 0 .. MaxTime]
          /\ cached_counter \in [Rows -> 0 .. Wide - 1]
          /\ device \in [Rows -> 0 .. Wide - 1]
          /\ DOMAIN inserts = 1 .. Len(inserts)
          /\ \A v \in Values : /\ v.row \in Rows
                               /\ v.counter \in 0 .. Wide - 1 /\ v.rate \in 0 .. Word - 1
                               /\ v.grown \in {Restarted} \cup Nat

\* A stored difference is what the counter has grown by since the last reading
\* that succeeded, however many failed or were not stored in between, and
\* wraps included, unless it grew by more than it can count (poller.h:39).
DifferenceExact == \A v \in Values : (/\ Bits[v.row] # 0
                                     /\ v.grown # Restarted
                                     /\ v.grown < Modulus(Bits[v.row])) => v.counter = v.grown

\* "Clpoll takes care to only do one insert query per table and polling round.
\* That query contains the data for all ports on the polled device"
\* (README.md:23-25): no two inserts for a table, every value in the insert of
\* its row's table, and no row twice, with room for all of them.
OneInsertPerTable ==
  /\ Len(inserts) <= MaxTables
  /\ \A j, k \in DOMAIN inserts : j # k => inserts[j].table # inserts[k].table
  /\ \A j \in DOMAIN inserts :
       /\ inserts[j].values # <<>>
       /\ \A m \in DOMAIN inserts[j].values : Table[inserts[j].values[m].row] = inserts[j].table
       /\ \A m, n \in DOMAIN inserts[j].values :
            m < n => inserts[j].values[m].row < inserts[j].values[n].row

\* A host costs a round as many failed reads as are allowed and no more, and its
\* rows are all read unless they are used up (poller.c:216-219, README.md:38-43).
DeadHostSkipped ==
  (stage = "idle" /\ started >= 0) =>
    /\ statistics.snmp_fail <= (IF MaxErrors = 0 THEN 1 ELSE MaxErrors)
    /\ \/ statistics.snmp_fail + statistics.snmp_success = NRows
       \/ statistics.snmp_fail >= MaxErrors

\* Two rounds never start in the same interval, though a slow round may make
\* the next one start late in its own (monitor.c:44-47, README.md:33-36).
OneRoundPerInterval ==
  [][started' # started => started \div Interval < started' \div Interval]_vars
=============================================================================
