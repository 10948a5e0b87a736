------------------------------- MODULE Targets -------------------------------
(***************************************************************************)
(* Reading targets.cfg (src/rtgtargets.c): the grouped style with its      *)
(* nested blocks of hosts and targets, and the table-like style with one   *)
(* target in a line, which is tried when the first reader finds no host.   *)
(*                                                                         *)
(* A file is given as both readers see it: words is the sequence of its    *)
(* words outside of comments, each with the argument that follows it, and  *)
(* lines the sequence of its lines with six fields or more.  A word that   *)
(* is no keyword where it stands is skipped, like descr and {; community   *)
(* and snmpver only fill fields that decide nothing here and count as such *)
(* words.  Texts are compared in lower case and without their semicolon.   *)
(* The blocks of a well-formed file are given by their places: the words   *)
(* where each begins and ends, and those of its targets.  A file that is   *)
(* not well-formed has none.                                               *)
(***************************************************************************)
EXTENDS Growth, Sequences, SequencesExt

CONSTANTS Files,         \* the targets files: [words |-> .., lines |-> .., blocks |-> ..]
          Intervals,     \* values of conf->interval
          Texts,         \* host names, OIDs and tables
          NoTable,       \* the null pointer of a row without a table
          NoName,        \* a queryhost's name before one is read
          TenGigabits,   \* what the compiler makes of (unsigned) 10e9, which is too big
          InitialSpace   \* places in a new list, 8 in the code

\* The blocks of hosts and in them those of targets: the places of their
\* keywords and of their }.
Places == [begins : Nat, ends : Nat]
Blocks == [begins : Nat, ends : Nat, targets : Seq(Places)]

ASSUME IntervalsAssumption == Intervals \subseteq Nat /\ TenGigabits \in Nat
ASSUME FilesAssumption ==
  /\ \A f \in Files : Len(f.words) \in Nat /\ Len(f.lines) \in Nat
  /\ \A f \in Files : \A k \in 1..Len(f.words) :
       /\ f.words[k].key \in {"host", "target", "table"} => f.words[k].arg \in Texts
       /\ f.words[k].key \in {"bits", "id", "speed"} => f.words[k].arg \in Nat
  /\ \A f \in Files : \A k \in 1..Len(f.lines) :
       /\ {f.lines[k].host, f.lines[k].oid, f.lines[k].table} \subseteq Texts
       /\ {f.lines[k].id, f.lines[k].bits} \subseteq Nat
  /\ \A f \in Files : f.blocks \in Seq(Blocks)
  /\ NoTable \notin Texts

\* The words of a well-formed file.  The parts, each from its keyword to its },
\* lie in this order between the words first and last; none of the words
\* outside of them has a key of keys.
After(parts, first, k) == IF k = 1 THEN first ELSE parts[k - 1].ends
Before(parts, last, k) == IF k = Len(parts) + 1 THEN last ELSE parts[k].begins
Laid(words, parts, first, last, keyword, keys) ==
  /\ \A k \in 1..Len(parts) :
       /\ first < parts[k].begins /\ parts[k].begins < parts[k].ends /\ parts[k].ends < last
       /\ words[parts[k].begins].key = keyword /\ words[parts[k].ends].key = "}"
  /\ \A k \in 1..(Len(parts) + 1) :
       /\ After(parts, first, k) < Before(parts, last, k)
       /\ \A m \in (After(parts, first, k) + 1)..(Before(parts, last, k) - 1) :
            words[m].key \notin keys

ASSUME BlocksAssumption ==
  \A f \in Files : f.blocks # <<>> =>
    /\ Laid(f.words, f.blocks, 0, Len(f.words) + 1, "host", {"host"})
    /\ \A n \in 1..Len(f.blocks) :
         LET block == f.blocks[n]
         IN /\ Laid(f.words, block.targets, block.begins, block.ends, "target", {"target", "}"})
            /\ \A k \in 1..Len(block.targets) :
                 \A m \in (block.targets[k].begins + 1)..(block.targets[k].ends - 1) :
                   f.words[m].key # "}"

ASSUME SpaceAssumption == InitialSpace \in Nat \ {0, 1}

VARIABLES file,          \* the file that is read
          interval,      \* conf->interval
          pos,           \* the next word or line
          reader,        \* the innermost loop: "file", "host", "row" or "lines",
                         \* or "done", or "crashed" when the process has died
          host, row,     \* what read_host and read_row are filling
          current_host,  \* its place in the list, 0 for NULL
          hosts, space,  \* the list of targets and the places allocated for it
          ntargets

hostVars == <<hosts, space, ntargets>>
vars == <<file, interval, pos, reader, host, row, current_host, hostVars>>

queryhost_create(name) == [host |-> name, rows |-> <<>>, space |-> InitialSpace]
queryrow_create(oid) == [oid |-> oid, table |-> NoTable, id |-> 0, bits |-> 0, speed |-> 0]

Init == /\ file \in Files
        /\ interval \in Intervals
        /\ pos = 1
        /\ reader = "file"
        /\ host = queryhost_create(NoName)
        /\ row = queryrow_create(NoName)
        /\ current_host = 0
        /\ hosts = <<>>
        /\ space = InitialSpace
        /\ ntargets = 0

-----------------------------------------------------------------------------
\* Mutated forms of the definitions below, each a plausible slip in the code.
Matches_LastRow(h, r) == {k \in {Len(h.rows)} \ {0} : h.rows[k].oid = r.oid}
RowsRead_InHost(h) == 0
SpeedOf_AsGiven(r, given) == given
CurrentHost_NotSearched(name) ==
  IF current_host # 0 /\ hosts[current_host].host = name THEN {current_host} ELSE {}

-----------------------------------------------------------------------------
(* The lists.                                                              *)

queryhost_push_row(h, r) == [h EXCEPT !.rows = Append(@, r),
                                      !.space = Room(Len(h.rows), @)]

\* What pushing host h adds to ntargets.
RowsRead(h) == Len(h.rows)

rtgtargets_push_host(h) == /\ hosts' = Append(hosts, h)
                           /\ space' = Room(Len(hosts), space)
                           /\ ntargets' = ntargets + RowsRead(h)

\* The rows of h that r repeats: they have its OID, or its table and id.
Matches(h, r) == {k \in DOMAIN h.rows : \/ h.rows[k].oid = r.oid
                                        \/ /\ h.rows[k].table = r.table
                                           /\ h.rows[k].id = r.id}

\* The rows with which r is compared by table when one of the two has none:
\* strcmp is given a null pointer.
Faults(h, r) == {k \in DOMAIN h.rows : /\ h.rows[k].oid # r.oid
                                       /\ NoTable \in {h.rows[k].table, r.table}}

\* check_for_duplicate stops at the first row of either kind.
Crashes(h, r) == \E k \in Faults(h, r) : \A m \in Matches(h, r) \ Faults(h, r) : k < m
Duplicate(h, r) == Matches(h, r) # {}

-----------------------------------------------------------------------------
(* The grouped style.                                                      *)

Word == file.words[pos]
AtEnd == pos > Len(file.words)
Reads(key) == ~AtEnd /\ Word.key = key
Consume == pos' = IF AtEnd THEN pos ELSE pos + 1

\* The meaning of a row's speed depends on the bits read so far.
SpeedOf(r, given) == IF r.bits = 0 THEN given ELSE given \div interval

\* Any word in a loop that is neither a keyword of that loop nor its end.
SkipWord == /\ ~AtEnd
            /\ \/ reader = "file" /\ Word.key # "host"
               \/ reader = "host" /\ Word.key \notin {"target", "}"}
               \/ reader = "row" /\ Word.key \notin {"bits", "table", "id", "speed", "}"}
            /\ Consume
            /\ UNCHANGED <<file, interval, reader, host, row, current_host, hostVars>>

HostBegins == /\ reader = "file" /\ Reads("host")
              /\ host' = queryhost_create(Word.arg)
              /\ reader' = "host"
              /\ Consume
              /\ UNCHANGED <<file, interval, row, current_host, hostVars>>

TargetBegins == /\ reader = "host" /\ Reads("target")
                /\ row' = queryrow_create(Word.arg)
                /\ reader' = "row"
                /\ Consume
                /\ UNCHANGED <<file, interval, host, current_host, hostVars>>

SetField == /\ reader = "row"
            /\ \/ Reads("bits") /\ row' = [row EXCEPT !.bits = Word.arg]
               \/ Reads("table") /\ row' = [row EXCEPT !.table = Word.arg]
               \/ Reads("id") /\ row' = [row EXCEPT !.id = Word.arg]
               \/ /\ Reads("speed")
                  /\ row.bits = 0 \/ interval # 0
                  /\ row' = [row EXCEPT !.speed = SpeedOf(row, Word.arg)]
            /\ Consume
            /\ UNCHANGED <<file, interval, reader, host, current_host, hostVars>>

\* An interval of 0, which rtgconf_verify lets pass.
DividesByZero == /\ reader = "row" /\ Reads("speed")
                 /\ row.bits # 0 /\ interval = 0
                 /\ reader' = "crashed"
                 /\ UNCHANGED <<file, interval, pos, host, row, current_host, hostVars>>

\* A } or the end of the file ends read_row; read_host then keeps the row
\* unless it is a duplicate.
RowEnds == /\ reader = "row" /\ (AtEnd \/ Reads("}"))
           /\ IF Crashes(host, row) THEN reader' = "crashed" /\ UNCHANGED host
              ELSE /\ reader' = "host"
                   /\ host' = IF Duplicate(host, row) THEN host
                              ELSE queryhost_push_row(host, row)
           /\ Consume
           /\ UNCHANGED <<file, interval, row, current_host, hostVars>>

HostEnds == /\ reader = "host" /\ (AtEnd \/ Reads("}"))
            /\ rtgtargets_push_host(host)
            /\ reader' = "file"
            /\ Consume
            /\ UNCHANGED <<file, interval, host, row, current_host>>

\* rtgtargets_parse: a file without a host is read again in the other style.
FallsBack == hosts = <<>>

FileEnds == /\ reader = "file" /\ AtEnd
            /\ reader' = IF FallsBack THEN "lines" ELSE "done"
            /\ pos' = 1
            /\ UNCHANGED <<file, interval, host, row, current_host, hostVars>>

-----------------------------------------------------------------------------
(* The table-like style.                                                   *)

Line == file.lines[pos]
MoreLines == reader = "lines" /\ pos <= Len(file.lines)

\* The host of the line before, or else the first one of that name.
CurrentHost(name) ==
  IF current_host # 0 /\ hosts[current_host].host = name THEN {current_host}
  ELSE LET named == {k \in DOMAIN hosts : hosts[k].host = name}
       IN {k \in named : \A m \in named : k <= m}

\* The row of a line, with the speed of a ten gigabit interface.
RowOf(line) == [oid |-> line.oid, table |-> line.table, id |-> line.id, bits |-> line.bits,
                speed |-> (TenGigabits \div 8) \div interval]

ReadLine == /\ MoreLines
            /\ interval # 0
            /\ LET known == CurrentHost(Line.host)
                   k == IF known = {} THEN Len(hosts) + 1 ELSE CHOOSE m \in known : TRUE
                   h == IF known = {} THEN queryhost_create(Line.host) ELSE hosts[k]
               IN /\ current_host' = k
                  /\ hosts' = [m \in DOMAIN hosts \cup {k} |->
                                 IF m = k THEN queryhost_push_row(h, RowOf(Line)) ELSE hosts[m]]
                  /\ space' = IF known = {} THEN Room(Len(hosts), space) ELSE space
            /\ ntargets' = ntargets + 1
            /\ pos' = pos + 1
            /\ UNCHANGED <<file, interval, reader, host, row>>

LineDividesByZero == /\ MoreLines
                     /\ interval = 0
                     /\ reader' = "crashed"
                     /\ UNCHANGED <<file, interval, pos, host, row, current_host, hostVars>>

LinesEnd == /\ reader = "lines" /\ ~MoreLines
            /\ reader' = "done"
            /\ UNCHANGED <<file, interval, pos, host, row, current_host, hostVars>>

Rest == reader \in {"done", "crashed"} /\ UNCHANGED vars

Next == \/ SkipWord \/ HostBegins \/ TargetBegins \/ SetField \/ DividesByZero
        \/ RowEnds \/ HostEnds \/ FileEnds
        \/ ReadLine \/ LineDividesByZero \/ LinesEnd \/ Rest

Spec == Init /\ [][Next]_vars

-----------------------------------------------------------------------------
(* Properties.                                                             *)

RowType == [oid : Texts \cup {NoName}, table : Texts \cup {NoTable},
            id : Nat, bits : Nat, speed : Nat]
HostType == [host : Texts \cup {NoName}, rows : Seq(RowType), space : Nat]

\* Every variable has its type, and the reader is in the file or at its end.
TypeOK == /\ file \in Files /\ interval \in Intervals
          /\ pos \in Nat \ {0}
          /\ reader \in {"file", "host", "row", "lines", "done", "crashed"}
          /\ host \in HostType /\ row \in RowType
          /\ hosts \in Seq(HostType)
          /\ current_host \in 0..Len(hosts)
          /\ space \in Nat /\ ntargets \in Nat

\* No array is written past its end: the list of hosts and every host's list
\* of rows fit in the space allocated for them (rtgtargets.c:73, 193).
FitsIn(h) == Len(h.rows) <= h.space
AppendsFit == /\ Len(hosts) <= space /\ FitsIn(host)
              /\ \A k \in 1..Len(hosts) : FitsIn(hosts[k])

\* Whatever the file holds, unclosed blocks included, no host read in the
\* grouped style polls one OID twice or writes two rows with the same table
\* and id: the order of the rows and the early returns of check_for_duplicate
\* (rtgtargets.c:284) do not matter.
Distinct(h) == \A i, j \in 1..Len(h.rows) :
                 i # j => /\ h.rows[i].oid # h.rows[j].oid
                          /\ \/ h.rows[i].table # h.rows[j].table
                             \/ h.rows[i].id # h.rows[j].id
NoDuplicateRows == current_host = 0 => /\ Distinct(host)
                                       /\ \A k \in 1..Len(hosts) : Distinct(hosts[k])

\* The number of targets, without which main does not start (main.c:143), is
\* the number of rows the pollers will find, in both styles.
RowsUpTo[k \in 0..Len(hosts)] == IF k = 0 THEN 0 ELSE RowsUpTo[k - 1] + Len(hosts[k].rows)
TargetsCounted == ntargets = RowsUpTo[Len(hosts)]

\* What a target means, said without reading it word by word: it has the last
\* value given for each setting, here from the words up to place to; and a speed
\* given after bits other than 0 is an amount in an interval.
Having(key, from, to) == {k \in from..to : file.words[k].key = key}

Given(key, from, to, default) ==
  IF Having(key, from, to) = {} THEN default ELSE file.words[Max(Having(key, from, to))].arg

SpeedGiven(from, to) ==
  LET last == Max(Having("speed", from, to))
  IN CASE Having("speed", from, to) = {} -> 0
       [] OTHER -> IF Given("bits", from, last - 1, 0) = 0 THEN file.words[last].arg
                   ELSE file.words[last].arg \div interval

Target(t, to) ==
  LET from == t.begins + 1
  IN [oid |-> file.words[t.begins].arg, table |-> Given("table", from, to, NoTable),
      id |-> Given("id", from, to, 0), bits |-> Given("bits", from, to, 0),
      speed |-> SpeedGiven(from, to)]

SameRow(r, q) == r.oid = q.oid \/ (r.table = q.table /\ r.id = q.id)

\* The rows are the first n targets in their order, without those that repeat a
\* target that is kept.
Kept(rows, targets, n) ==
  \E kept \in [1..Len(rows) -> 1..n] :
    /\ \A i, j \in 1..Len(rows) : i < j => kept[i] < kept[j]
    /\ \A i \in 1..Len(rows) : rows[i] = targets[kept[i]]
    /\ \A k \in 1..n : (\E i \in 1..Len(rows) : kept[i] = k)
                       <=> \A i \in 1..Len(rows) : kept[i] < k => ~SameRow(rows[i], targets[k])

TargetsOf(block) ==
  [k \in 1..Len(block.targets) |-> Target(block.targets[k], block.targets[k].ends - 1)]

HostOf(h, block) == /\ h.host = file.words[block.begins].arg
                    /\ Kept(h.rows, TargetsOf(block), Len(block.targets))

HasTable(t) == Having("table", t.begins + 1, t.ends - 1) # {}

\* A well-formed file of the grouped style, in which every target has a table,
\* is read to its end, as the hosts its blocks mean and in their order, less
\* the targets that repeat one that was kept (rtgtargets.c:81-262).
Grouped == /\ file.blocks # <<>> /\ interval # 0
           /\ \A n \in 1..Len(file.blocks) : \A k \in 1..Len(file.blocks[n].targets) :
                HasTable(file.blocks[n].targets[k])
HostsOfBlocks == /\ Len(hosts) = Len(file.blocks)
                 /\ \A n \in 1..Len(hosts) : HostOf(hosts[n], file.blocks[n])
ReadsBlocks ==
  Grouped /\ reader \in {"done", "crashed"} => reader = "done" /\ HostsOfBlocks

\* The rows that the first n lines give to each host name.
OwnRows[n \in 0..Len(file.lines)] ==
  IF n = 0 THEN [name \in Texts |-> <<>>]
  ELSE LET line == file.lines[n]
           before == OwnRows[n - 1]
       IN [name \in Texts |-> IF name = line.host THEN Append(before[name], RowOf(line))
                              ELSE before[name]]

\* The hosts are those of the first n lines: each has the rows of all lines of
\* its name, and begins before the next, which is another.
HostsOf(n) ==
  /\ \A k \in 1..Len(hosts) : hosts[k].rows = OwnRows[n][hosts[k].host]
  /\ \A k \in 1..Len(hosts) : \E l \in 1..n : file.lines[l].host = hosts[k].host
  /\ \A l \in 1..n : \E k \in 1..Len(hosts) : hosts[k].host = file.lines[l].host
  /\ \A k, m \in 1..Len(hosts) :
       k < m => \E l \in 1..n : /\ file.lines[l].host = hosts[k].host
                                /\ \A x \in 1..l : file.lines[x].host # hosts[m].host

\* A file of the table-like style is read as one host for every name in it, in
\* the order of their first lines, with the rows of all its lines, wherever
\* those stand (rtgtargets.c:338-368); provided that no description has the
\* word host in it, which the other reader takes for a block.
ReadsTable ==
  (reader = "done" /\ \A k \in 1..Len(file.words) : file.words[k].key # "host")
  => HostsOf(Len(file.lines))
=============================================================================
