------------------------------ MODULE MCTargets ------------------------------
(***************************************************************************)
(* The targets files that are read: one well-formed host with up to three  *)
(* targets of eight forms, two hosts with a target or two, the same files  *)
(* with a } left out, and tables of up to four lines of two hosts, with a  *)
(* word host in a description and without.                                 *)
(***************************************************************************)
EXTENDS Targets

Set(key, arg) == [key |-> key, arg |-> arg]
A_row(table, id) == <<Set("bits", 64), Set("table", table), Set("id", id), Set("speed", 600)>>

\* Plain counters, a gauge, a speed before the bits, bits given twice, a row
\* without a table, and one whose description holds a keyword of the file.
Settings == {A_row("t", 1), A_row("t", 2), <<Set("bits", 0)>> \o A_row("t", 2),
             <<Set("speed", 600), Set("bits", 32), Set("table", "u"), Set("id", 1)>>,
             <<Set("descr", "text"), Set("bits", 0), Set("speed", 600), Set("table", "u")>>,
             <<Set("bits", 64), Set("id", 1)>>}
TargetsGiven == {[oid |-> oid, settings |-> s] : oid \in {"a", "b"}, s \in Settings}
Plain == {[oid |-> oid, settings |-> A_row("t", id)] : oid \in {"a", "b"}, id \in {1, 2}}

Open(key, arg) == <<Set(key, arg), Set("{", "")>>
WordsOfTarget(t) == Open("target", t.oid) \o t.settings \o <<Set("}", "")>>
HeadOfBlock(b) == Open("host", b.host) \o <<Set("community", "public")>>
WordsOfBlock(b) == HeadOfBlock(b)
                   \o FlattenSeq([k \in DOMAIN b.targets |-> WordsOfTarget(b.targets[k])])
                   \o <<Set("}", "")>>
WordsOf(blocks) == FlattenSeq([k \in DOMAIN blocks |-> WordsOfBlock(blocks[k])])

\* The places of lists of words that follow one another from place first on.
PlacesOf(lists, first) ==
  [k \in DOMAIN lists |->
     LET before == Len(FlattenSeq(SubSeq(lists, 1, k - 1)))
     IN [begins |-> first + before, ends |-> first + before + Len(lists[k]) - 1]]
Tree(blocks) ==
  LET at == PlacesOf([n \in DOMAIN blocks |-> WordsOfBlock(blocks[n])], 1)
      PlacesIn(n) == PlacesOf([k \in DOMAIN blocks[n].targets |->
                                WordsOfTarget(blocks[n].targets[k])],
                             at[n].begins + Len(HeadOfBlock(blocks[n])))
  IN [n \in DOMAIN blocks |->
        [begins |-> at[n].begins, ends |-> at[n].ends, targets |-> PlacesIn(n)]]

Block(name, targets) == [host |-> name, targets |-> targets]
OneHost == {<<Block("h", ts)>> : ts \in BoundedSeq(TargetsGiven, 2) \cup [1..3 -> Plain]}
ManyHosts == {<<Block("h", ts), Block(name, us)>> : ts, us \in BoundedSeq(Plain, 1), name \in {"g", "h"}}
             \cup {<<Block("h", <<>>), Block("g", <<>>), Block("f", us)>> : us \in [1..2 -> Plain]}

File(blocks) == [words |-> WordsOf(blocks), lines |-> <<>>, blocks |-> Tree(blocks)]
GroupedFiles == {File(bs) : bs \in OneHost \cup ManyHosts}

Without(words, k) == [words |-> RemoveAt(words, k), lines |-> <<>>, blocks |-> <<>>]
UnclosedFiles == UNION {{Without(WordsOf(bs), k) : k \in {m \in DOMAIN WordsOf(bs) : WordsOf(bs)[m].key = "}"}} :
                          bs \in ManyHosts}

LinesGiven == [host : {"g", "h"}, oid : {"a", "b"}, table : {"t"}, id : {1}, bits : {0}]
Table(lines, words) == [words |-> words, lines |-> lines, blocks |-> <<>>]
TableFiles == {Table(ls, ws) : ls \in BoundedSeq(LinesGiven, 3), ws \in {<<>>, <<Set("host", "h")>>}}
              \cup {Table(<<l, l, m, l>>, <<>>) : l, m \in LinesGiven}

MCFiles == GroupedFiles \cup UnclosedFiles \cup TableFiles
=============================================================================
