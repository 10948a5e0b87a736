---------------------------- MODULE HostPollProof ----------------------------
(***************************************************************************)
(* Proofs about the polling of a host, for every number of rows, every     *)
(* width of the machine words and every limit.                             *)
(***************************************************************************)
EXTENDS HostPoll, TLAPS

\* Readings fit the width of their row; a row's cached time is not to come.
Counters == \A r \in Rows : /\ device[r] \in 0 .. Modulus(Bits[r]) - 1
                            /\ cached_counter[r] \in 0 .. Modulus(Bits[r]) - 1
                            /\ cached_time[r] <= clock

\* The cached value is the last reading, unless the process died over that one.
Synced == stage \notin {"exited", "aborted"} =>
            \A r \in Rows : cached_time[r] # 0 => cached_counter[r] = device[r]

\* How far the poll has come.
Polling == /\ stage = "polling" => /\ errors + snmp_success = row - 1
                                   /\ errors = 0 \/ errors < MaxErrors
           /\ stage = "polled" => /\ errors + snmp_success = row - 1
                                  /\ errors <= (IF MaxErrors = 0 THEN 1 ELSE MaxErrors)
                                  /\ row = NRows + 1 \/ errors >= MaxErrors
           /\ stage # "idle" => statistics = NoReads
           /\ stage = "idle" => DeadHostSkipped

\* The monitor's next_iteration is the interval after the one of the last round.
Aligned == next_iteration = NextInterval(started)

ValueType == [row : Rows, counter : 0 .. Wide - 1, rate : 0 .. Word - 1,
              grown : {Restarted} \cup Nat]
Exact(v) == (Bits[v.row] # 0 /\ v.grown # Restarted /\ v.grown < Modulus(Bits[v.row]))
              => v.counter = v.grown

\* The lists of inserts and values that a poll builds.
InsertType == [table : Tables, values : Seq({v \in ValueType : Exact(v)})]
Listed == inserts \in Seq(InsertType)

\* Rows come in order, so the row to read next is behind those in the list.
RowsBefore == \A j \in DOMAIN inserts : \A m \in DOMAIN inserts[j].values :
                inserts[j].values[m].row < row

IInv == /\ TypeOK /\ Counters /\ Synced /\ Polling /\ Aligned
        /\ Listed /\ OneInsertPerTable /\ RowsBefore

-----------------------------------------------------------------------------
\* Adding or taking off the modulus once does not change a residue.
LEMMA Residue ==
  ASSUME NEW M \in Nat \ {0}, NEW r \in 0 .. M - 1
  PROVE  r % M = r /\ (r + M) % M = r /\ (r - M) % M = r
OBVIOUS

\* The difference of two readings of a counter that grew by less than its
\* modulus is its growth, whether it wrapped or not.
LEMMA DifferenceIsGrowth ==
  ASSUME NEW b \in {32, 64}, NEW prev \in 0 .. Modulus(b) - 1,
         NEW grown \in 0 .. Modulus(b) - 1
  PROVE  CounterDiff(prev, (prev + grown) % Modulus(b), b) = grown
<1> DEFINE M == Modulus(b)
           cur == (prev + grown) % M
<1>1. M \in Nat \ {0} /\ M <= Wide /\ Wide \in Nat \ {0}
  BY WidthAssumption DEF Modulus
<1> HIDE DEF M
<1>2. CASE prev + grown < M
  <2>1. cur = prev + grown
    BY <1>1, <1>2, Residue DEF M
  <2>2. cur - prev = grown /\ prev <= cur
    BY <1>1, <2>1 DEF M
  <2>3. grown % Wide = grown
    BY <1>1, Residue DEF M
  <2>. QED
    BY <1>1, <2>1, <2>2, <2>3 DEF CounterDiff, M
<1>3. CASE prev + grown >= M
  <2>1. prev + grown - M \in 0 .. M - 1
    BY <1>1, <1>3 DEF M
  <2>2. cur = prev + grown - M
    <3>1. ((prev + grown - M) + M) % M = prev + grown - M
      BY <1>1, <2>1, Residue
    <3>2. (prev + grown - M) + M = prev + grown
      BY <1>1 DEF M
    <3>. QED
      BY <3>1, <3>2
  <2>3. cur < prev /\ cur - prev = grown - M
    BY <1>1, <2>2 DEF M
  <2>4. (grown - M) % Wide = grown - M + Wide
    <3>1. grown - M + Wide \in 0 .. Wide - 1
      BY <1>1 DEF M
    <3>2. ((grown - M + Wide) - Wide) % Wide = grown - M + Wide
      BY <1>1, <3>1, Residue
    <3>3. (grown - M + Wide) - Wide = grown - M
      BY <1>1 DEF M
    <3>. QED
      BY <3>2, <3>3
  <2>5. ((grown - M + Wide) + M) % Wide = grown
    <3>1. grown \in 0 .. Wide - 1
      BY <1>1 DEF M
    <3>2. (grown - M + Wide) + M = grown + Wide
      BY <1>1 DEF M
    <3>. QED
      BY <1>1, <3>1, <3>2, Residue
  <2>6. CounterDiff(prev, cur, b) = (((cur - prev) % Wide) + M) % Wide
    BY <1>1, <2>3 DEF CounterDiff, M
  <2>. QED
    BY <2>3, <2>4, <2>5, <2>6 DEF M
<1>. QED
  BY <1>1, <1>2, <1>3 DEF M

\* Intervals: a round that starts when the next interval has begun starts in
\* a later one.
LEMMA IntervalPassed ==
  ASSUME NEW last \in Int, NEW now \in Int, now >= NextInterval(last)
  PROVE  last \div Interval < now \div Interval
<1>1. Interval \in Nat \ {0}
  BY LimitsAssumption
<1> DEFINE q == last \div Interval
           k == now \div Interval
<1>2. q \in Int /\ k \in Int
  BY <1>1
<1>3. now = k * Interval + (now % Interval) /\ now % Interval \in 0 .. Interval - 1
  BY <1>1
<1>4. now >= (q + 1) * Interval
  BY <1>1 DEF NextInterval
<1> HIDE DEF q, k
<1>5. now < (k + 1) * Interval
  <2>1. (k + 1) * Interval = k * Interval + Interval
    BY <1>1, <1>2
  <2>. QED
    BY <1>1, <1>2, <1>3, <2>1
<1>6. ASSUME k <= q
      PROVE  (k + 1) * Interval <= (q + 1) * Interval
  BY <1>1, <1>2, <1>6
<1>7. k > q
  BY <1>1, <1>2, <1>4, <1>5, <1>6
<1>. QED
  BY <1>7 DEF q, k

-----------------------------------------------------------------------------
\* The values whose difference is what the counter grew by.
Good == {v \in ValueType : Exact(v)}

\* The search finds the only insert of the table, or the first free place.
LEMMA PlaceFound ==
  ASSUME Listed, OneInsertPerTable, NEW table
  PROVE  LET k == InsertFor(inserts, table)
         IN /\ k \in 1 .. Len(inserts) + 1
            /\ k <= Len(inserts) => inserts[k].table = table
            /\ k > Len(inserts) => \A j \in 1 .. Len(inserts) : inserts[j].table # table
<1> DEFINE places == {k \in 1 .. Len(inserts) : inserts[k].table = table}
<1>1. Len(inserts) \in Nat /\ DOMAIN inserts = 1 .. Len(inserts)
  BY DEF Listed
<1>2. CASE places = {}
  BY <1>1, <1>2 DEF InsertFor
<1>3. CASE places # {}
  <2>1. PICK k \in places : TRUE
    BY <1>3
  <2>2. \A j \in places : j = k
    BY <1>1, <2>1 DEF OneInsertPerTable
  <2>3. InsertFor(inserts, table) = CHOOSE i \in places : \A j \in places : i <= j
    BY <1>3 DEF InsertFor
  <2>4. k <= k
    BY <1>1, <2>1
  <2>5. \E i \in places : \A j \in places : i <= j
    BY <2>1, <2>2, <2>4
  <2>6. InsertFor(inserts, table) \in places
    BY <2>3, <2>5
  <2>. QED
    BY <1>1, <2>6
<1>. QED
  BY <1>2, <1>3

\* The list after a value of the row that is being read was pushed.
LEMMA PushKeepsList ==
  ASSUME TypeOK, Listed, OneInsertPerTable, RowsBefore, row \in Rows,
         NEW v \in Good, v.row = row, InsertFor(inserts, Table[row]) <= MaxTables,
         inserts' = Pushed(inserts, Table[row], v), row' = row + 1
  PROVE  Listed' /\ OneInsertPerTable' /\ RowsBefore'
<1> DEFINE table == Table[row]
           k == InsertFor(inserts, table)
           fresh == [table |-> table, values |-> <<v>>]
<1>1. /\ Len(inserts) \in Nat /\ DOMAIN inserts = 1 .. Len(inserts)
      /\ \A j \in DOMAIN inserts : inserts[j] \in InsertType
  BY DEF Listed
<1>2. /\ k \in 1 .. Len(inserts) + 1
      /\ k <= Len(inserts) => inserts[k].table = table
      /\ k > Len(inserts) => \A j \in 1 .. Len(inserts) : inserts[j].table # table
  BY PlaceFound
<1>3. NRows \in Nat /\ row \in Nat /\ table \in Tables /\ MaxTables \in Nat
  BY RowsAssumption, LimitsAssumption DEF Rows, Tables
<1>4. k <= MaxTables
  OBVIOUS
<1>5. inserts' = IF k > Len(inserts) THEN Append(inserts, fresh)
                 ELSE [inserts EXCEPT ![k].values = Append(@, v)]
  BY DEF Pushed
<1>5a. ASSUME NEW j \in DOMAIN inserts, NEW m \in DOMAIN inserts[j].values
       PROVE  inserts[j].values[m].row < row /\ inserts[j].values[m].row \in Rows
  <2>1. inserts[j].values \in Seq(Good)
    BY <1>1 DEF InsertType, Good
  <2>2. inserts[j].values[m] \in Good
    BY <2>1
  <2>. QED
    BY <2>2 DEF RowsBefore, Good, ValueType
<1>6. fresh \in InsertType
  BY <1>3 DEF InsertType, Good
<1> HIDE DEF k
<1>7. CASE k > Len(inserts)
  <2>1. inserts' = Append(inserts, fresh) /\ k = Len(inserts) + 1
    BY <1>1, <1>2, <1>5, <1>7
  <2>2. Listed'
    BY <1>6, <2>1 DEF Listed
  <2>3. /\ DOMAIN inserts' = 1 .. Len(inserts) + 1 /\ Len(inserts') = Len(inserts) + 1
        /\ \A j \in 1 .. Len(inserts) : inserts'[j] = inserts[j]
        /\ inserts'[Len(inserts) + 1] = fresh
    BY <1>1, <1>6, <2>1 DEF Listed
  <2>4. DOMAIN fresh.values = {1} /\ fresh.values[1] = v /\ fresh.table = table
    OBVIOUS
  <2>5. OneInsertPerTable'
    <3>1. Len(inserts') <= MaxTables
      BY <1>4, <2>1, <2>3
    <3>2. \A i, j \in DOMAIN inserts' : i # j => inserts'[i].table # inserts'[j].table
      BY <1>1, <1>2, <1>7, <2>3, <2>4 DEF OneInsertPerTable
    <3>3. ASSUME NEW j \in DOMAIN inserts'
          PROVE  /\ inserts'[j].values # <<>>
                 /\ \A m \in DOMAIN inserts'[j].values :
                       Table[inserts'[j].values[m].row] = inserts'[j].table
                 /\ \A m, n \in DOMAIN inserts'[j].values :
                       m < n => inserts'[j].values[m].row < inserts'[j].values[n].row
      <4>1. CASE j \in 1 .. Len(inserts)
        <5>1. inserts'[j] = inserts[j] /\ j \in DOMAIN inserts
          BY <1>1, <2>3, <4>1
        <5>2. /\ inserts[j].values # <<>>
              /\ \A m \in DOMAIN inserts[j].values :
                    Table[inserts[j].values[m].row] = inserts[j].table
              /\ \A m, n \in DOMAIN inserts[j].values :
                    m < n => inserts[j].values[m].row < inserts[j].values[n].row
          BY <5>1 DEF OneInsertPerTable
        <5>. QED
          BY <5>1, <5>2
      <4>2. CASE j = Len(inserts) + 1
        <5>1. inserts'[j].values = <<v>> /\ inserts'[j].table = table
          BY <2>3, <4>2
        <5>2. \A m \in DOMAIN <<v>> : <<v>>[m] = v /\ m = 1
          OBVIOUS
        <5>3. <<v>> # <<>> /\ Table[v.row] = table
          OBVIOUS
        <5>4. \A m, n \in DOMAIN <<v>> : ~(m < n)
          BY <5>2
        <5>. QED
          BY <5>1, <5>2, <5>3, <5>4
      <4>. QED
        BY <1>1, <2>3, <3>3, <4>1, <4>2
    <3>. QED
      BY <3>1, <3>2, <3>3 DEF OneInsertPerTable
  <2>6. RowsBefore'
    <3> SUFFICES ASSUME NEW j \in DOMAIN inserts', NEW m \in DOMAIN inserts'[j].values
                 PROVE  inserts'[j].values[m].row < row + 1
      BY DEF RowsBefore
    <3>1. CASE j \in 1 .. Len(inserts)
      <4>1. inserts[j].values[m].row < row /\ inserts[j].values[m].row \in Rows
        BY <1>1, <1>5a, <2>3, <3>1
      <4>. QED
        BY <1>3, <2>3, <3>1, <4>1 DEF Rows
    <3>2. CASE j = Len(inserts) + 1
      BY <1>3, <2>3, <2>4, <3>2
    <3>. QED
      BY <1>1, <2>3, <3>1, <3>2
  <2>. QED
    BY <2>2, <2>5, <2>6
<1>8. CASE k <= Len(inserts)
  <2> DEFINE old == inserts[k].values
  <2>1. inserts' = [inserts EXCEPT ![k].values = Append(old, v)] /\ k \in DOMAIN inserts
    <3>1. ~(k > Len(inserts)) /\ k \in DOMAIN inserts
      BY <1>1, <1>2, <1>8
    <3>2. inserts' = [inserts EXCEPT ![k].values = Append(@, v)]
      BY <1>5, <3>1
    <3>. QED
      BY <3>1, <3>2
  <2>2. old \in Seq(Good) /\ inserts[k].table = table /\ inserts[k] \in InsertType
    BY <1>1, <1>2, <1>8, <2>1 DEF InsertType, Good
  <2>3. /\ DOMAIN inserts' = DOMAIN inserts /\ Len(inserts') = Len(inserts)
        /\ \A j \in DOMAIN inserts : j # k => inserts'[j] = inserts[j]
        /\ inserts'[k] = [inserts[k] EXCEPT !.values = Append(old, v)]
    BY <1>1, <2>1 DEF Listed
  <2>4. inserts'[k].table = table /\ inserts'[k].values = Append(old, v)
    BY <2>2, <2>3 DEF InsertType
  <2>5. Append(old, v) \in Seq(Good)
    BY <2>2
  <2>6. inserts'[k] \in InsertType
    BY <2>2, <2>3, <2>5 DEF InsertType, Good
  <2>7. Listed'
    BY <1>1, <2>1, <2>3, <2>6 DEF Listed
  <2>8. /\ Len(old) \in Nat /\ DOMAIN old = 1 .. Len(old)
        /\ DOMAIN Append(old, v) = 1 .. Len(old) + 1
        /\ \A m \in DOMAIN old : Append(old, v)[m] = old[m]
        /\ Append(old, v)[Len(old) + 1] = v
    BY <2>2
  <2>9. \A m \in DOMAIN old : /\ old[m].row < row /\ old[m].row \in Rows
                              /\ Table[old[m].row] = table
    BY <2>1, <2>2, <2>8 DEF RowsBefore, OneInsertPerTable, Good, ValueType
  <2>10. OneInsertPerTable'
    <3>1. \A i, j \in DOMAIN inserts' : i # j => inserts'[i].table # inserts'[j].table
      BY <2>1, <2>2, <2>3, <2>4 DEF OneInsertPerTable
    <3>2. ASSUME NEW j \in DOMAIN inserts'
          PROVE  /\ inserts'[j].values # <<>>
                 /\ \A m \in DOMAIN inserts'[j].values :
                       Table[inserts'[j].values[m].row] = inserts'[j].table
                 /\ \A m, n \in DOMAIN inserts'[j].values :
                       m < n => inserts'[j].values[m].row < inserts'[j].values[n].row
      <4>1. CASE j # k
        BY <2>3, <4>1 DEF OneInsertPerTable
      <4>2. CASE j = k
        <5>1. inserts'[j].values # <<>>
          BY <2>2, <2>4, <4>2
        <5>2. \A m \in 1 .. Len(old) + 1 : Table[Append(old, v)[m].row] = table
          BY <2>8, <2>9
        <5>3. ASSUME NEW m \in 1 .. Len(old) + 1, NEW n \in 1 .. Len(old) + 1, m < n
              PROVE  Append(old, v)[m].row < Append(old, v)[n].row
          <6>1. m \in DOMAIN old
            BY <2>8, <5>3
          <6>2. CASE n \in DOMAIN old
            BY <2>1, <2>8, <5>3, <6>1, <6>2 DEF OneInsertPerTable
          <6>3. CASE n = Len(old) + 1
            BY <2>8, <2>9, <6>1, <6>3
          <6>. QED
            BY <2>8, <6>2, <6>3
        <5>. QED
          BY <2>4, <2>8, <4>2, <5>1, <5>2, <5>3
      <4>. QED
        BY <4>1, <4>2
    <3>. QED
      BY <2>3, <3>1, <3>2 DEF OneInsertPerTable
  <2>11. RowsBefore'
    <3> SUFFICES ASSUME NEW j \in DOMAIN inserts', NEW m \in DOMAIN inserts'[j].values
                 PROVE  inserts'[j].values[m].row < row + 1
      BY DEF RowsBefore
    <3>1. CASE j # k
      <4>1. inserts[j].values[m].row < row /\ inserts[j].values[m].row \in Rows
        BY <1>5a, <2>3, <3>1
      <4>. QED
        BY <1>3, <2>3, <3>1, <4>1 DEF Rows
    <3>2. CASE j = k
      <4>1. m \in 1 .. Len(old) + 1 /\ inserts'[j].values[m] = Append(old, v)[m]
        BY <2>4, <2>8, <3>2
      <4>. QED
        BY <1>3, <2>8, <2>9, <4>1 DEF Rows
    <3>. QED
      BY <3>1, <3>2
  <2>. QED
    BY <2>7, <2>10, <2>11
<1>. QED
  BY <1>1, <1>2, <1>7, <1>8

-----------------------------------------------------------------------------
\* Every value in a list of inserts is a good one.
LEMMA ListTyped ==
  ASSUME NEW list \in Seq(InsertType)
  PROVE  /\ DOMAIN list = 1 .. Len(list)
         /\ \A j \in DOMAIN list : \A k \in DOMAIN list[j].values : list[j].values[k] \in Good
         /\ UNION {{i.values[k] : k \in DOMAIN i.values} : i \in {list[j] : j \in DOMAIN list}}
              \subseteq Good
<1>1. DOMAIN list = 1 .. Len(list)
  OBVIOUS
<1>2. ASSUME NEW j \in DOMAIN list, NEW k \in DOMAIN list[j].values
      PROVE  list[j].values[k] \in Good
  <2>1. list[j] \in InsertType
    BY <1>1
  <2>2. list[j].values \in Seq(Good)
    BY <2>1 DEF InsertType, Good
  <2>. QED
    BY <2>2
<1>. QED
  BY <1>1, <1>2

\* Moduli are positive and no wider than an unsigned long long.
LEMMA ModulusRange ==
  ASSUME NEW r \in Rows
  PROVE  /\ Modulus(Bits[r]) \in Nat \ {0} /\ Modulus(Bits[r]) <= Wide
         /\ Bits[r] \in {0, 32, 64}
BY RowsAssumption, WidthAssumption DEF Modulus

\* What is stored for a reading fits its types, and is what the counter grew by.
LEMMA StoredGood ==
  ASSUME TypeOK, Counters, Synced, stage = "polling",
         NEW counter \in 0 .. Modulus(Bits[row]) - 1,
         NEW grown \in {Restarted} \cup Nat,
         grown # Restarted => counter = (device[row] + grown) % Modulus(Bits[row]),
         HasPrevious(row), Bits[row] = 0 \/ Elapsed(row) # 0
  PROVE  Value(row, counter, grown) \in Good
<1> DEFINE r == row
           v == Value(r, counter, grown)
<1>1. /\ r \in Rows /\ Wide \in Nat \ {0} /\ Word \in Nat \ {0} /\ Word <= Wide
      /\ Modulus(Bits[r]) \in Nat \ {0} /\ Modulus(Bits[r]) <= Wide
      /\ Bits[r] \in {0, 32, 64}
      /\ cached_counter[r] \in 0 .. Modulus(Bits[r]) - 1
      /\ cached_time[r] \in Nat /\ cached_time[r] <= clock /\ clock \in Nat
  BY WidthAssumption, ModulusRange DEF TypeOK, Counters
<1>2. v = [row |-> r, counter |-> Difference(r, counter), rate |-> RateOf(r, counter),
           grown |-> grown]
  BY DEF Value
<1>3. Difference(r, counter) \in 0 .. Wide - 1
  <2>1. CASE Bits[r] = 0
    BY <1>1, <2>1 DEF Difference
  <2>2. CASE Bits[r] # 0
    <3>1. (counter - cached_counter[r]) % Wide \in 0 .. Wide - 1
      BY <1>1
    <3>2. (((counter - cached_counter[r]) % Wide) + Modulus(Bits[r])) % Wide \in 0 .. Wide - 1
      BY <1>1, <3>1
    <3>. QED
      BY <2>2, <3>1, <3>2 DEF Difference, CounterDiff
  <2>. QED
    BY <2>1, <2>2
<1>4. RateOf(r, counter) \in 0 .. Word - 1
  <2>1. CASE Bits[r] = 0
    BY <1>1, <2>1 DEF RateOf
  <2>2. CASE Bits[r] # 0
    <3>1. Elapsed(r) \in Nat \ {0}
      BY <1>1, <2>2 DEF Elapsed
    <3>2. Difference(r, counter) \div Elapsed(r) \in Int
      BY <1>3, <3>1
    <3>3. (Difference(r, counter) \div Elapsed(r)) % Word \in 0 .. Word - 1
      BY <1>1, <3>2
    <3>. QED
      BY <2>2, <3>3 DEF RateOf, Rate
  <2>. QED
    BY <2>1, <2>2
<1>5. v \in ValueType
  BY <1>1, <1>2, <1>3, <1>4 DEF ValueType
<1>6. Exact(v)
  <2> SUFFICES ASSUME Bits[r] # 0, grown # Restarted, grown < Modulus(Bits[r])
               PROVE  Difference(r, counter) = grown
    BY <1>2 DEF Exact
  <2>1. cached_counter[r] = device[r]
    BY <1>1 DEF HasPrevious, Synced
  <2>2. counter = (cached_counter[r] + grown) % Modulus(Bits[r])
    BY <2>1
  <2>3. grown \in 0 .. Modulus(Bits[r]) - 1 /\ Bits[r] \in {32, 64}
    BY <1>1 DEF Restarted
  <2>4. CounterDiff(cached_counter[r], counter, Bits[r]) = grown
    BY <1>1, <2>2, <2>3, DifferenceIsGrowth
  <2>. QED
    BY <2>4 DEF Difference
<1>. QED
  BY <1>5, <1>6 DEF Good

\* On to the next row: how far the poll has come is kept track of.
LEMMA NextRowStep ==
  ASSUME TypeOK, Polling, stage = "polling", NextRow(errors'), statistics' = statistics,
         \/ errors' = errors + 1 /\ snmp_success' = snmp_success
         \/ errors' = errors /\ snmp_success' = snmp_success + 1
  PROVE  /\ Polling'
         /\ row' = row + 1 /\ row' \in 1 .. NRows + 1 /\ (stage' = "polling" => row' \in Rows)
         /\ stage' \in {"polling", "polled"}
         /\ errors' \in 0 .. NRows /\ snmp_success' \in 0 .. NRows
<1>1. /\ NRows \in Nat /\ MaxErrors \in Nat /\ row \in 1 .. NRows
      /\ errors \in Nat /\ snmp_success \in Nat /\ errors + snmp_success = row - 1
      /\ errors = 0 \/ errors < MaxErrors
      /\ statistics = NoReads
  BY RowsAssumption, LimitsAssumption DEF TypeOK, Polling, Rows
<1>2. row' = row + 1 /\ errors' + snmp_success' = row' - 1 /\ errors' \in Nat
      /\ snmp_success' \in Nat
  BY <1>1 DEF NextRow
<1>3. errors' <= (IF MaxErrors = 0 THEN 1 ELSE MaxErrors)
  BY <1>1
<1>3a. /\ row' \in 1 .. NRows + 1 /\ errors' \in 0 .. NRows /\ snmp_success' \in 0 .. NRows
  BY <1>1, <1>2
<1>4. CASE row = NRows \/ errors' >= MaxErrors
  <2>1. stage' = "polled"
    BY <1>4 DEF NextRow, TooManyErrors
  <2>2. row' = NRows + 1 \/ errors' >= MaxErrors
    BY <1>2, <1>4
  <2>3. Polling'
    BY <1>1, <1>2, <1>3, <2>1, <2>2 DEF Polling
  <2>. QED
    BY <1>2, <1>3a, <2>1, <2>3
<1>5. CASE row # NRows /\ ~(errors' >= MaxErrors)
  <2>1. stage' = "polling"
    BY <1>5 DEF NextRow, TooManyErrors
  <2>2. errors' < MaxErrors /\ row' \in Rows
    BY <1>1, <1>2, <1>5 DEF Rows
  <2>3. Polling'
    BY <1>1, <1>2, <2>1, <2>2 DEF Polling
  <2>. QED
    BY <1>2, <1>3a, <2>1, <2>2, <2>3
<1>. QED
  BY <1>4, <1>5

\* A remembered reading is cached, and is the last one.
LEMMA RememberStep ==
  ASSUME TypeOK, Counters, Synced, stage = "polling",
         NEW counter \in 0 .. Modulus(Bits[row]) - 1,
         Remember(row, counter), device' = [device EXCEPT ![row] = counter], clock' = clock
  PROVE  /\ Counters' /\ Synced'
         /\ cached_time' \in [Rows -> 0 .. MaxTime]
         /\ cached_counter' \in [Rows -> 0 .. Wide - 1] /\ device' \in [Rows -> 0 .. Wide - 1]
<1>1. row \in Rows /\ clock \in 1 .. MaxTime /\ MaxTime \in Nat /\ Wide \in Nat \ {0}
      /\ counter \in 0 .. Wide - 1
  BY WidthAssumption, LimitsAssumption, ModulusRange DEF TypeOK
<1>2. /\ cached_time' = [cached_time EXCEPT ![row] = clock]
      /\ cached_counter' = [cached_counter EXCEPT ![row] = counter]
  BY DEF Remember
<1>3. /\ cached_time' \in [Rows -> 0 .. MaxTime]
      /\ cached_counter' \in [Rows -> 0 .. Wide - 1] /\ device' \in [Rows -> 0 .. Wide - 1]
  BY <1>1, <1>2 DEF TypeOK
<1>4. \A r \in Rows : \/ r = row /\ cached_time'[r] = clock /\ cached_counter'[r] = counter
                         /\ device'[r] = counter
                      \/ r # row /\ cached_time'[r] = cached_time[r]
                         /\ cached_counter'[r] = cached_counter[r] /\ device'[r] = device[r]
  BY <1>1, <1>2 DEF TypeOK
<1>5. Counters'
  BY <1>1, <1>4 DEF Counters
<1>6. Synced'
  BY <1>4 DEF Synced
<1>. QED
  BY <1>3, <1>5, <1>6

\* The types, but for the list of inserts, which has its own lemma.
ScalarsOK == /\ clock \in 1 .. MaxTime
             /\ next_iteration \in Nat /\ started \in Int
             /\ stage \in {"idle", "listed", "polling", "polled", "exited", "aborted", "crashed"}
             /\ row \in 1 .. NRows + 1
             /\ stage = "polling" => row \in Rows
             /\ errors \in 0 .. NRows /\ snmp_success \in 0 .. NRows
             /\ statistics \in [snmp_fail : Nat, snmp_success : Nat]
             /\ cached_time \in [Rows -> 0 .. MaxTime]
             /\ cached_counter \in [Rows -> 0 .. Wide - 1]
             /\ device \in [Rows -> 0 .. Wide - 1]

\* They are a part of the type invariant ...
LEMMA TypesByParts == TypeOK => ScalarsOK
BY DEF TypeOK, ScalarsOK

\* ... and with the shape of the list all of it.
LEMMA TypesAfter ==
  ASSUME ScalarsOK', Listed'
  PROVE  TypeOK'
<1>1. DOMAIN inserts' = 1 .. Len(inserts') /\ Values' \subseteq Good
  BY ListTyped DEF Listed, Values
<1>. QED
  BY <1>1 DEF ScalarsOK, TypeOK, Good, ValueType

\* What a successful read does to a row keeps the invariant.
LEMMA ReadStep ==
  ASSUME IInv, stage = "polling",
         NEW counter \in 0 .. Modulus(Bits[row]) - 1,
         NEW grown \in {Restarted} \cup Nat,
         grown # Restarted => counter = (device[row] + grown) % Modulus(Bits[row]),
         device' = [device EXCEPT ![row] = counter], ProcessReading(row, counter, grown),
         UNCHANGED <<clock, roundVars, statistics>>
  PROVE  IInv'
<1>1. row \in Rows /\ stage = "polling" /\ row \in Nat
  BY RowsAssumption DEF IInv, TypeOK, Rows
<1>2. Aligned' /\ clock' \in 1 .. MaxTime /\ next_iteration' \in Nat /\ started' \in Int
      /\ statistics' \in [snmp_fail : Nat, snmp_success : Nat]
  BY DEF IInv, Aligned, roundVars, TypeOK, NextInterval
<1>3. ASSUME Listed', row' \in 1 .. NRows + 1, stage' = "polling" => row' \in Rows,
             stage' \in {"polling", "polled", "exited", "aborted"},
             errors' \in 0 .. NRows, snmp_success' \in 0 .. NRows,
             cached_time' \in [Rows -> 0 .. MaxTime],
             cached_counter' \in [Rows -> 0 .. Wide - 1], device' \in [Rows -> 0 .. Wide - 1]
      PROVE  TypeOK'
  BY <1>2, <1>3, TypesAfter DEF ScalarsOK
<1>4. CASE SkipRow(row, counter)
  <2>1. /\ Counters' /\ Synced'
        /\ cached_time' \in [Rows -> 0 .. MaxTime]
        /\ cached_counter' \in [Rows -> 0 .. Wide - 1] /\ device' \in [Rows -> 0 .. Wide - 1]
    BY <1>4, RememberStep DEF IInv, SkipRow
  <2>2. NextRow(errors') /\ snmp_success' = snmp_success + 1 /\ errors' = errors
        /\ inserts' = inserts
    BY <1>4 DEF SkipRow, Remember
  <2>3. /\ Polling' /\ row' = row + 1 /\ row' \in 1 .. NRows + 1
        /\ stage' = "polling" => row' \in Rows
        /\ stage' \in {"polling", "polled"}
        /\ errors' \in 0 .. NRows /\ snmp_success' \in 0 .. NRows
    BY <2>2, NextRowStep DEF IInv
  <2>4. Listed' /\ OneInsertPerTable'
    BY <2>2 DEF IInv, Listed, OneInsertPerTable
  <2>5. RowsBefore'
    <3>1. \A j \in DOMAIN inserts : \A m \in DOMAIN inserts[j].values :
            inserts[j].values[m].row \in Nat
      <4> TAKE j \in DOMAIN inserts
      <4> TAKE m \in DOMAIN inserts[j].values
      <4>1. inserts[j].values[m] \in Good
        BY ListTyped DEF IInv, Listed
      <4>. QED
        BY <4>1, RowsAssumption DEF Good, ValueType, Rows
    <3>. QED
      BY <1>1, <2>2, <2>3, <3>1 DEF IInv, RowsBefore
  <2>6. TypeOK'
    BY <1>3, <2>1, <2>3, <2>4
  <2>. QED
    BY <1>2, <2>1, <2>3, <2>4, <2>5, <2>6 DEF IInv
<1>5. CASE UNCHANGED <<pollVars, cacheVars>> /\ stage' \in {"exited", "aborted"}
  <2>1. /\ row' = row /\ errors' = errors /\ snmp_success' = snmp_success /\ inserts' = inserts
        /\ cached_time' = cached_time /\ cached_counter' = cached_counter
        /\ clock' = clock /\ statistics' = statistics
    BY <1>5 DEF pollVars, cacheVars
  <2>2. Listed' /\ OneInsertPerTable' /\ RowsBefore'
    BY <2>1 DEF IInv, Listed, OneInsertPerTable, RowsBefore
  <2>3. device' \in [Rows -> 0 .. Wide - 1] /\ Counters'
    <3>1. counter \in 0 .. Wide - 1
      BY <1>1, ModulusRange, WidthAssumption
    <3>2. device' \in [Rows -> 0 .. Wide - 1]
      BY <3>1 DEF IInv, TypeOK
    <3>3. \A r \in Rows : device'[r] = IF r = row THEN counter ELSE device[r]
      BY DEF IInv, TypeOK
    <3>. QED
      BY <2>1, <3>2, <3>3 DEF IInv, Counters
  <2>4. Synced' /\ Polling'
    BY <1>1, <1>5, <2>1 DEF IInv, Synced, Polling
  <2>5. TypeOK'
    BY <1>3, <1>5, <2>1, <2>2, <2>3 DEF IInv, TypeOK
  <2>. QED
    BY <1>2, <2>2, <2>3, <2>4, <2>5 DEF IInv
<1>6. CASE /\ HasPrevious(row) /\ (Bits[row] = 0 \/ Elapsed(row) # 0)
           /\ StoreValue(row, counter, grown)
           /\ InsertFor(inserts, Table[row]) <= MaxTables
  <2> DEFINE v == Value(row, counter, grown)
  <2>1. v \in Good /\ v.row = row
    BY <1>6, StoredGood DEF IInv, Value
  <2>2. /\ inserts' = Pushed(inserts, Table[row], v)
        /\ Remember(row, counter) /\ NextRow(errors) /\ errors' = errors
    <3>1. InsertFor(inserts, Table[row]) \in Nat /\ MaxTables \in Nat
      BY PlaceFound, LimitsAssumption DEF IInv, Listed
    <3>2. ~(InsertFor(inserts, Table[row]) > MaxTables)
      BY <1>6, <3>1
    <3>. QED
      BY <1>6, <3>2 DEF StoreValue
  <2>3. /\ Counters' /\ Synced'
        /\ cached_time' \in [Rows -> 0 .. MaxTime]
        /\ cached_counter' \in [Rows -> 0 .. Wide - 1] /\ device' \in [Rows -> 0 .. Wide - 1]
    BY <2>2, RememberStep DEF IInv
  <2>4. NextRow(errors') /\ snmp_success' = snmp_success + 1
    BY <2>2 DEF Remember
  <2>5. /\ Polling' /\ row' = row + 1 /\ row' \in 1 .. NRows + 1
        /\ stage' = "polling" => row' \in Rows
        /\ stage' \in {"polling", "polled"}
        /\ errors' \in 0 .. NRows /\ snmp_success' \in 0 .. NRows
    BY <2>2, <2>4, NextRowStep DEF IInv
  <2>6. Listed' /\ OneInsertPerTable' /\ RowsBefore'
    <3> HIDE DEF v
    <3>. QED
      BY <1>1, <1>6, <2>1, <2>2, <2>5, PushKeepsList DEF IInv
  <2>7. TypeOK'
    BY <1>3, <2>3, <2>5, <2>6
  <2>. QED
    BY <1>2, <2>3, <2>5, <2>6, <2>7 DEF IInv
<1>7. CASE StoreValue(row, counter, grown) /\ InsertFor(inserts, Table[row]) > MaxTables
  BY <1>5, <1>7 DEF StoreValue
<1>8. CASE RateExits
  BY <1>5, <1>8 DEF RateExits
<1>9. InsertFor(inserts, Table[row]) \in Nat /\ MaxTables \in Nat
  BY PlaceFound, LimitsAssumption DEF IInv, Listed
<1>10. \/ SkipRow(row, counter) \/ RateExits
       \/ /\ HasPrevious(row) /\ (Bits[row] = 0 \/ Elapsed(row) # 0)
          /\ StoreValue(row, counter, grown)
  BY DEF ProcessReading
<1>. QED
  BY <1>4, <1>6, <1>7, <1>8, <1>9, <1>10

\* The other steps of a poll.
LEMMA PollStep ==
  ASSUME IInv, OpenSession \/ SessionFails \/ GetFails \/ AddStatistics
  PROVE  IInv'
<1>1. /\ clock' = clock /\ next_iteration' = next_iteration /\ started' = started
      /\ cached_time' = cached_time /\ cached_counter' = cached_counter /\ device' = device
  BY DEF OpenSession, SessionFails, GetFails, AddStatistics, roundVars, cacheVars
<1>2. Counters' /\ Aligned'
  BY <1>1 DEF IInv, Counters, Aligned, NextInterval
<1>3. Synced'
  BY <1>1 DEF IInv, Synced, OpenSession, SessionFails, GetFails, AddStatistics, NextRow
<1>4. NRows \in Nat /\ MaxErrors \in Nat /\ MaxTables \in Nat
  BY RowsAssumption, LimitsAssumption
<1>5. CASE OpenSession
  <2>1. /\ row' = 1 /\ errors' = 0 /\ snmp_success' = 0 /\ inserts' = <<>>
        /\ statistics' = NoReads
        /\ stage' = IF NRows = 0 THEN "polled" ELSE "polling"
    BY <1>5 DEF IInv, OpenSession, Polling
  <2>2. Listed' /\ OneInsertPerTable' /\ RowsBefore'
    BY <1>4, <2>1 DEF Listed, OneInsertPerTable, RowsBefore
  <2>3. Polling'
    BY <1>4, <2>1 DEF Polling
  <2>4. TypeOK'
    <3>2. statistics' \in [snmp_fail : Nat, snmp_success : Nat]
      BY <2>1 DEF NoReads
    <3>1. /\ row' \in 1 .. NRows + 1 /\ errors' \in 0 .. NRows /\ snmp_success' \in 0 .. NRows
          /\ stage' = "polling" => row' \in Rows
          /\ stage' \in {"polling", "polled"}
      BY <1>4, <2>1 DEF Rows
    <3>3. ScalarsOK'
      BY <1>1, <3>1, <3>2, TypesByParts DEF IInv, ScalarsOK
    <3>. QED
      BY <2>2, <3>3, TypesAfter
  <2>. QED
    BY <1>2, <1>3, <2>2, <2>3, <2>4 DEF IInv
<1>6. CASE SessionFails
  <2>1. /\ row' = row /\ errors' = errors /\ snmp_success' = snmp_success /\ inserts' = inserts
        /\ statistics' = statistics /\ stage' = "crashed" /\ stage = "listed"
    BY <1>6 DEF SessionFails, pollVars
  <2>2. Listed' /\ OneInsertPerTable' /\ RowsBefore'
    BY <2>1 DEF IInv, Listed, OneInsertPerTable, RowsBefore
  <2>3. Polling'
    BY <2>1 DEF IInv, Polling
  <2>4. TypeOK'
    <3>1. ScalarsOK'
      BY <1>1, <2>1, TypesByParts DEF IInv, ScalarsOK
    <3>. QED
      BY <2>2, <3>1, TypesAfter
  <2>. QED
    BY <1>2, <1>3, <2>2, <2>3, <2>4 DEF IInv
<1>7. CASE GetFails
  <2>1. /\ stage = "polling" /\ NextRow(errors') /\ errors' = errors + 1
        /\ snmp_success' = snmp_success /\ inserts' = inserts /\ statistics' = statistics
    BY <1>7 DEF GetFails
  <2>2. /\ Polling' /\ row' = row + 1 /\ row' \in 1 .. NRows + 1
        /\ stage' = "polling" => row' \in Rows
        /\ stage' \in {"polling", "polled"}
        /\ errors' \in 0 .. NRows /\ snmp_success' \in 0 .. NRows
    BY <2>1, NextRowStep DEF IInv
  <2>3. Listed' /\ OneInsertPerTable'
    BY <2>1 DEF IInv, Listed, OneInsertPerTable
  <2>4. RowsBefore'
    <3>1. row \in Nat
      BY <1>4 DEF IInv, TypeOK
    <3>2. \A j \in DOMAIN inserts : \A m \in DOMAIN inserts[j].values :
            inserts[j].values[m].row \in Nat
      BY ListTyped, RowsAssumption DEF IInv, Listed, Good, ValueType, Rows
    <3>. QED
      BY <2>1, <2>2, <3>1, <3>2 DEF IInv, RowsBefore
  <2>5. TypeOK'
    <3>1. ScalarsOK'
      BY <1>1, <2>1, <2>2, TypesByParts DEF IInv, ScalarsOK
    <3>. QED
      BY <2>3, <3>1, TypesAfter
  <2>. QED
    BY <1>2, <1>3, <2>2, <2>3, <2>4, <2>5 DEF IInv
<1>8. CASE AddStatistics
  <2>1. /\ stage = "polled" /\ stage' = "idle" /\ row' = row /\ errors' = errors
        /\ snmp_success' = snmp_success /\ inserts' = inserts
        /\ statistics' = [snmp_fail |-> statistics.snmp_fail + errors,
                          snmp_success |-> statistics.snmp_success + snmp_success]
    BY <1>8 DEF AddStatistics, pollVars
  <2>2. Listed' /\ OneInsertPerTable' /\ RowsBefore'
    BY <2>1 DEF IInv, Listed, OneInsertPerTable, RowsBefore
  <2>3. errors \in Nat /\ snmp_success \in Nat /\ row \in Nat /\ statistics = NoReads
    BY <1>4, <2>1 DEF IInv, TypeOK, Polling
  <2>4. statistics'.snmp_fail = errors /\ statistics'.snmp_success = snmp_success
    BY <2>1, <2>3 DEF NoReads
  <2>5. DeadHostSkipped'
    BY <1>4, <2>1, <2>3, <2>4 DEF IInv, Polling, DeadHostSkipped
  <2>6. Polling'
    BY <2>1, <2>5 DEF Polling
  <2>7. TypeOK'
    <3>1. statistics' \in [snmp_fail : Nat, snmp_success : Nat]
      BY <2>1, <2>3 DEF NoReads
    <3>2. ScalarsOK'
      BY <1>1, <2>1, <3>1, TypesByParts DEF IInv, ScalarsOK
    <3>. QED
      BY <2>2, <3>2, TypesAfter
  <2>. QED
    BY <1>2, <1>3, <2>2, <2>6, <2>7 DEF IInv
<1>. QED
  BY <1>5, <1>6, <1>7, <1>8

-----------------------------------------------------------------------------
\* The cached values are the last ones read, the poll's progress and its list
\* of inserts are as they should be, and rounds are aligned with intervals,
\* for every host and every width of the words (poller.c:141-232).
THEOREM Invariance == Spec => []IInv
<1>1. Init => IInv
  <2> SUFFICES ASSUME Init
               PROVE  IInv
    OBVIOUS
  <2>1. NRows \in Nat /\ MaxErrors \in Nat /\ MaxTables \in Nat /\ Interval \in Nat \ {0}
        /\ MaxTime \in Nat \ {0} /\ Wide \in Nat \ {0}
    BY RowsAssumption, LimitsAssumption, WidthAssumption
  <2>2. TypeOK
    <3>1. Values = {} /\ DOMAIN inserts = 1 .. Len(inserts)
      BY DEF Init, Values
    <3>2. statistics \in [snmp_fail : Nat, snmp_success : Nat]
      BY DEF Init, NoReads
    <3>. QED
      BY <2>1, <3>1, <3>2 DEF Init, TypeOK
  <2>3. Counters
    BY <2>1, ModulusRange DEF Init, Counters
  <2>4. Synced
    BY DEF Init, Synced
  <2>5. Polling
    BY <2>1 DEF Init, Polling, DeadHostSkipped
  <2>6. Aligned
    <3>1. (0 - Interval) \div Interval = -1
      BY <2>1
    <3>. QED
      BY <2>1, <3>1 DEF Init, Aligned, NextInterval
  <2>7. Listed /\ OneInsertPerTable /\ RowsBefore
    BY <2>1 DEF Init, Listed, OneInsertPerTable, RowsBefore
  <2>. QED
    BY <2>2, <2>3, <2>4, <2>5, <2>6, <2>7 DEF IInv
<1>2. IInv /\ [Next]_vars => IInv'
  <2> SUFFICES ASSUME IInv, [Next]_vars
               PROVE  IInv'
    OBVIOUS
  <2>1. CASE StartRound
    <3>1. /\ stage = "idle" /\ stage' = "listed" /\ statistics' = NoReads
          /\ next_iteration' = NextInterval(clock) /\ started' = clock
          /\ UNCHANGED <<clock, row, errors, snmp_success, inserts, cached_time,
                         cached_counter, device>>
      BY <2>1 DEF StartRound, pollVars, cacheVars
    <3>2. Listed' /\ OneInsertPerTable' /\ RowsBefore' /\ Counters' /\ Synced'
      BY <3>1 DEF IInv, Listed, OneInsertPerTable, RowsBefore, Counters, Synced
    <3>3. Polling' /\ Aligned'
      BY <3>1 DEF Polling, Aligned, NextInterval
    <3>4. started' \in Int /\ next_iteration' \in Nat
      <4>1. Interval \in Nat \ {0} /\ clock \in Nat
        BY LimitsAssumption DEF IInv, TypeOK
      <4>2. clock \div Interval \in Nat
        BY <4>1
      <4>. QED
        BY <3>1, <4>1, <4>2 DEF NextInterval
    <3>5. TypeOK'
      <4>1. statistics' \in [snmp_fail : Nat, snmp_success : Nat]
        BY <3>1 DEF NoReads
      <4>2. ScalarsOK'
        BY <3>1, <3>4, <4>1, TypesByParts DEF IInv, ScalarsOK
      <4>. QED
        BY <3>2, <4>2, TypesAfter
    <3>. QED
      BY <3>2, <3>3, <3>5 DEF IInv
  <2>2. CASE OpenSession \/ SessionFails \/ GetFails \/ AddStatistics
    BY <2>2, PollStep
  <2>3. CASE GetSucceeds
    <3>1. PICK grown \in 0 .. MaxGrowth :
            /\ device' = [device EXCEPT ![row] = (device[row] + grown) % Modulus(Bits[row])]
            /\ ProcessReading(row, (device[row] + grown) % Modulus(Bits[row]), grown)
      BY <2>3 DEF GetSucceeds
    <3>2. stage = "polling" /\ UNCHANGED <<clock, roundVars, statistics>> /\ row \in Rows
      BY <2>3 DEF GetSucceeds, IInv, TypeOK
    <3>3. grown \in {Restarted} \cup Nat
      BY LimitsAssumption
    <3>4. (device[row] + grown) % Modulus(Bits[row]) \in 0 .. Modulus(Bits[row]) - 1
      <4>1. device[row] \in Nat /\ grown \in Nat /\ Modulus(Bits[row]) \in Nat \ {0}
        BY <3>2, LimitsAssumption, WidthAssumption, ModulusRange DEF IInv, TypeOK
      <4>. QED
        BY <4>1
    <3>. QED
      BY <3>1, <3>2, <3>3, <3>4, ReadStep
  <2>4. CASE AgentRestarted
    <3>1. PICK counter \in 0 .. Modulus(Bits[row]) - 1 :
            /\ device' = [device EXCEPT ![row] = counter]
            /\ ProcessReading(row, counter, Restarted)
      BY <2>4 DEF AgentRestarted
    <3>2. stage = "polling" /\ UNCHANGED <<clock, roundVars, statistics>>
      BY <2>4 DEF AgentRestarted
    <3>. QED
      BY <3>1, <3>2, ReadStep
  <2>5. CASE Tick
    <3>1. /\ clock < MaxTime /\ clock' = clock + 1
          /\ UNCHANGED <<next_iteration, started, stage, row, errors, snmp_success, inserts,
                         statistics, cached_time, cached_counter, device>>
      BY <2>5 DEF Tick, roundVars, pollVars, cacheVars
    <3>2. Listed' /\ OneInsertPerTable' /\ RowsBefore' /\ Synced' /\ Polling' /\ Aligned'
      BY <3>1 DEF IInv, Listed, OneInsertPerTable, RowsBefore, Synced, Polling, Aligned,
                  DeadHostSkipped, NextInterval
    <3>3. MaxTime \in Nat /\ clock \in 1 .. MaxTime /\ clock' \in 1 .. MaxTime
      BY <3>1, LimitsAssumption DEF IInv, TypeOK
    <3>4. Counters'
      <4>1. \A r \in Rows : cached_time[r] \in Nat
        BY DEF IInv, TypeOK
      <4>. QED
        BY <3>1, <3>3, <4>1 DEF IInv, Counters
    <3>5. TypeOK'
      <4>1. ScalarsOK'
        BY <3>1, <3>3, TypesByParts DEF IInv, ScalarsOK
      <4>. QED
        BY <3>2, <4>1, TypesAfter
    <3>. QED
      BY <3>2, <3>4, <3>5 DEF IInv
  <2>6. CASE UNCHANGED vars
    <3>1. UNCHANGED <<clock, next_iteration, started, stage, row, errors, snmp_success, inserts,
                      statistics, cached_time, cached_counter, device>>
      BY <2>6 DEF vars, roundVars, pollVars, cacheVars
    <3>2. /\ Counters' /\ Listed' /\ OneInsertPerTable' /\ RowsBefore' /\ Synced'
          /\ Polling' /\ Aligned'
      BY <3>1 DEF IInv, Counters, Listed, OneInsertPerTable, RowsBefore, Synced,
                  Polling, Aligned, DeadHostSkipped, NextInterval
    <3>3. ScalarsOK'
      BY <3>1, TypesByParts DEF IInv, ScalarsOK
    <3>4. TypeOK'
      BY <3>2, <3>3, TypesAfter
    <3>. QED
      BY <3>2, <3>4 DEF IInv
  <2>. QED
    BY <2>1, <2>2, <2>3, <2>4, <2>5, <2>6 DEF Next, get_clinserts
<1>. QED
  BY <1>1, <1>2, PTL DEF Spec

\* The variables keep their types: no difference outgrows an unsigned long long
\* and no rate an unsigned (clinsert.h:28-34).
COROLLARY TypeCorrect == Spec => []TypeOK
<1>1. IInv => TypeOK
  BY DEF IInv
<1>. QED
  BY <1>1, Invariance, PTL

\* Stored differences are exact, for counters of both widths and words of every
\* size (poller.c:153-161).
THEOREM DifferencesExact == Spec => []DifferenceExact
<1>1. IInv => DifferenceExact
  <2> SUFFICES ASSUME IInv, NEW v \in Values
               PROVE  Exact(v)
    BY DEF DifferenceExact, Exact
  <2>1. Values \subseteq Good
    BY ListTyped DEF IInv, Listed, Values
  <2>. QED
    BY <2>1 DEF Good
<1>. QED
  BY <1>1, Invariance, PTL

\* A round makes one insert for each table, and no row is in it twice
\* (clinsert.c:49-60).
THEOREM OneInsertForEachTable == Spec => []OneInsertPerTable
<1>1. IInv => OneInsertPerTable
  BY DEF IInv
<1>. QED
  BY <1>1, Invariance, PTL

\* A host costs a round no more failed reads than are allowed, and its rows are
\* all read unless they are used up (poller.c:183-219).
THEOREM ErrorLimitKept == Spec => []DeadHostSkipped
<1>1. IInv => DeadHostSkipped
  <2>1. stage # "idle" => DeadHostSkipped
    BY DEF DeadHostSkipped
  <2>. QED
    BY <2>1 DEF IInv, Polling
<1>. QED
  BY <1>1, Invariance, PTL

\* No interval gets two rounds, however late a round starts (cltime.c:20-23).
THEOREM RoundsAligned == Spec => OneRoundPerInterval
<1>1. ASSUME IInv, [Next]_vars
      PROVE  [started' # started => started \div Interval < started' \div Interval]_vars
  <2>1. CASE StartRound
    <3>1. clock \in Int /\ started \in Int /\ started' = clock /\ clock >= NextInterval(started)
      BY <1>1, <2>1 DEF IInv, TypeOK, Aligned, StartRound
    <3>. QED
      BY <3>1, IntervalPassed
  <2>2. CASE ~StartRound
    <3>1. started' = started
      BY <1>1, <2>2 DEF Next, get_clinserts, OpenSession, SessionFails, GetFails, GetSucceeds,
                        AgentRestarted, AddStatistics, Tick, roundVars, vars
    <3>. QED
      BY <3>1
  <2>. QED
    BY <2>1, <2>2
<1>. QED
  BY <1>1, Invariance, PTL DEF Spec, OneRoundPerInterval
=============================================================================
