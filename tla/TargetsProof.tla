---------------------------- MODULE TargetsProof ----------------------------
(***************************************************************************)
(* Proofs about reading targets.cfg, for every file, interval and initial  *)
(* size of the lists: no list is written past its end, no host of the      *)
(* grouped style has a row twice, every row is counted as a target, and a  *)
(* file is read as the hosts its lines name or its blocks mean.            *)
(***************************************************************************)
EXTENDS Targets, WellFoundedInduction, TLAPS

\* A host that can be added to.  From two places on the list grows when it is
\* full; from one, the next size, rounded down, would be one again.
Sound(h) == h \in HostType /\ h.space >= 2 /\ FitsIn(h)

\* Only the table-like style has a current host, and it has none before the
\* first line.
NoCurrentHost == /\ reader \in {"file", "host", "row"} => current_host = 0
                 /\ reader = "lines" /\ current_host = 0 => hosts = <<>>

IInv == /\ TypeOK /\ AppendsFit /\ NoDuplicateRows
        /\ NoCurrentHost
        /\ host.space >= 2 /\ space >= 2
        /\ \A k \in 1..Len(hosts) : hosts[k].space >= 2

-----------------------------------------------------------------------------
(* The lists.                                                              *)

\* After growing by half there is room for one more element, if there were
\* two places or more; from one place the new size, rounded down, is one
\* again (rtgtargets.c:74, 194).
LEMMA RoomForMore ==
  ASSUME NEW n \in Nat, NEW places \in Nat, places >= 2, n <= places
  PROVE  /\ Room(n, places) \in Nat
         /\ Room(n, places) >= 2
         /\ n + 1 <= Room(n, places)
BY DEF Room, Grown

\* A quotient of naturals is a natural.
LEMMA Quotient ==
  ASSUME NEW a \in Nat, NEW b \in Nat, b # 0
  PROVE  a \div b \in Nat
OBVIOUS

\* A new host or row has its type, and the host has room.
LEMMA NewIsSound ==
  ASSUME NEW name \in Texts \cup {NoName}
  PROVE  /\ Sound(queryhost_create(name))
         /\ Distinct(queryhost_create(name))
         /\ queryrow_create(name) \in RowType
BY SpaceAssumption DEF Sound, HostType, RowType, FitsIn, Distinct, queryhost_create,
   queryrow_create

\* Pushing a row keeps a host sound, and distinct if the row repeats none.
LEMMA PushedRow ==
  ASSUME NEW h, Sound(h), NEW r \in RowType
  PROVE  /\ Sound(queryhost_push_row(h, r))
         /\ Distinct(h) /\ ~Duplicate(h, r) => Distinct(queryhost_push_row(h, r))
<1> DEFINE g == queryhost_push_row(h, r)
<1>1. /\ h.rows \in Seq(RowType) /\ h.space \in Nat /\ h.host \in Texts \cup {NoName}
      /\ h = [host |-> h.host, rows |-> h.rows, space |-> h.space]
      /\ h.space >= 2 /\ Len(h.rows) <= h.space /\ Len(h.rows) \in Nat
  BY DEF Sound, HostType, FitsIn
<1>2. g = [host |-> h.host, rows |-> Append(h.rows, r), space |-> Room(Len(h.rows), h.space)]
  <2>1. h \in [host : Texts \cup {NoName}, rows : Seq(RowType), space : Nat]
    BY DEF Sound, HostType
  <2>2. queryhost_push_row(h, r) = [h EXCEPT !.rows = Append(h.rows, r),
                                            !.space = Room(Len(h.rows), h.space)]
    BY DEF queryhost_push_row
  <2>. QED
    BY <2>1, <2>2
<1>3. /\ Append(h.rows, r) \in Seq(RowType)
      /\ Len(Append(h.rows, r)) = Len(h.rows) + 1
      /\ Append(h.rows, r)[Len(h.rows) + 1] = r
      /\ \A k \in 1..Len(h.rows) : Append(h.rows, r)[k] = h.rows[k]
  BY <1>1
<1>4. Sound(g)
  <2>1. /\ Room(Len(h.rows), h.space) \in Nat
        /\ Room(Len(h.rows), h.space) >= 2
        /\ Len(h.rows) + 1 <= Room(Len(h.rows), h.space)
    BY <1>1, RoomForMore
  <2>. QED
    BY <1>1, <1>2, <1>3, <2>1 DEF Sound, HostType, FitsIn
<1>5. ASSUME Distinct(h), ~Duplicate(h, r)
      PROVE  Distinct(g)
  <2>1. \A k \in 1..Len(h.rows) : /\ h.rows[k].oid # r.oid
                                  /\ h.rows[k].table # r.table \/ h.rows[k].id # r.id
    BY <1>1, <1>5 DEF Duplicate, Matches
  <2>2. /\ Len(g.rows) = Len(h.rows) + 1
        /\ g.rows[Len(h.rows) + 1] = r
        /\ \A k \in 1..Len(h.rows) : g.rows[k] = h.rows[k]
    BY <1>2, <1>3
  <2>3. SUFFICES ASSUME NEW i \in 1..Len(g.rows), NEW j \in 1..Len(g.rows), i # j
                 PROVE  /\ g.rows[i].oid # g.rows[j].oid
                        /\ \/ g.rows[i].table # g.rows[j].table
                           \/ g.rows[i].id # g.rows[j].id
    BY DEF Distinct
  <2>4. CASE i \in 1..Len(h.rows) /\ j \in 1..Len(h.rows)
    BY <1>5, <2>2, <2>4, <2>3 DEF Distinct
  <2>5. CASE i = Len(h.rows) + 1 /\ j \in 1..Len(h.rows)
    BY <2>1, <2>2, <2>5
  <2>6. CASE j = Len(h.rows) + 1 /\ i \in 1..Len(h.rows)
    BY <2>1, <2>2, <2>6
  <2>. QED
    BY <1>1, <2>2, <2>3, <2>4, <2>5, <2>6
<1>. QED
  BY <1>4, <1>5

\* Every set of naturals with an element has a least one.
LEMMA LeastElement ==
  ASSUME NEW S, S \subseteq Nat, S # {}
  PROVE  \E x \in S : \A y \in S : x <= y
<1> DEFINE R == {p \in Nat \X Nat : p[1] < p[2]}
<1>1. IsWellFoundedOn(R, Nat)
  BY NatLessThanWellFounded, Zenon DEF OpToRel
<1>2. \E x \in S : \A y \in S : <<y, x>> \notin R
  <2> HIDE DEF R
  <2>. QED
    BY <1>1, WFMin, Zenon
<1>3. ASSUME NEW x \in S, NEW y \in S, <<y, x>> \notin R
      PROVE  x <= y
  <2>1. <<y, x>> \in Nat \X Nat
    OBVIOUS
  <2>. QED
    BY <1>3, <2>1
<1>. QED
  BY <1>2, <1>3

-----------------------------------------------------------------------------
(* The invariant.                                                          *)

LEMMA InitialInvariant == Init => IInv
<1> SUFFICES ASSUME Init PROVE IInv
  OBVIOUS
<1>1. Sound(host) /\ Distinct(host) /\ row \in RowType
  BY NewIsSound DEF Init
<1>. QED
  BY <1>1, SpaceAssumption, IntervalsAssumption
     DEF Init, IInv, TypeOK, AppendsFit, NoDuplicateRows, NoCurrentHost, Sound

\* The steps of the grouped style before a host is pushed leave the list alone.
LEMMA WordsKeep ==
  ASSUME IInv, UNCHANGED <<file, interval, current_host, hostVars>>,
         pos' \in Nat \ {0}, reader' \in {"file", "host", "row", "done", "crashed"},
         reader \in {"file", "host", "row"},
         Sound(host'), Distinct(host'), row' \in RowType
  PROVE  IInv'
BY DEF IInv, TypeOK, AppendsFit, NoDuplicateRows, NoCurrentHost, Sound, hostVars, FitsIn, Distinct

\* What the word at pos gives has its type.
LEMMA WordType ==
  ASSUME IInv, ~AtEnd
  PROVE  /\ Word.key \in {"host", "target", "table"} => Word.arg \in Texts
         /\ Word.key \in {"bits", "id", "speed"} => Word.arg \in Nat
<1>1. file \in Files /\ pos \in Nat \ {0}
  BY DEF IInv, TypeOK
<1>2. CASE Len(file.words) \in Nat
  BY <1>1, <1>2, FilesAssumption DEF AtEnd, Word
<1>. QED
  BY <1>1, <1>2

\* So does the row of a line.
LEMMA LineType ==
  ASSUME IInv, ReadLine
  PROVE  Line.host \in Texts /\ RowOf(Line) \in RowType
<1>1. /\ Line.host \in Texts /\ Line.oid \in Texts /\ Line.table \in Texts
      /\ Line.id \in Nat /\ Line.bits \in Nat
  BY FilesAssumption DEF ReadLine, MoreLines, Line, IInv, TypeOK
<1>2. (TenGigabits \div 8) \div interval \in Nat
  <2>1. interval \in Nat /\ interval # 0 /\ TenGigabits \div 8 \in Nat
    BY Quotient, IntervalsAssumption DEF ReadLine, IInv, TypeOK
  <2>. QED
    BY <2>1, Quotient
<1>. QED
  BY <1>1, <1>2 DEF RowOf, RowType

\* What a line does to the list: its row goes to the host of its name, or if
\* there is none, to a new one at the end (rtgtargets.c:338-368).
LEMMA LineRead ==
  ASSUME IInv, ReadLine
  PROVE  \E place \in 1..(Len(hosts) + 1), g \in HostType :
           /\ Sound(g) /\ hosts' \in Seq(HostType)
           /\ current_host' = place
           /\ space' = IF place = Len(hosts) + 1 THEN Room(Len(hosts), space) ELSE space
           /\ Len(hosts') = IF place = Len(hosts) + 1 THEN Len(hosts) + 1 ELSE Len(hosts)
           /\ place \in 1..Len(hosts')
           /\ \A k \in 1..Len(hosts') : hosts'[k] = IF k = place THEN g ELSE hosts[k]
           /\ g.host = Line.host
           /\ IF place = Len(hosts) + 1
              THEN /\ g.rows = <<RowOf(Line)>>
                   /\ \A k \in 1..Len(hosts) : hosts[k].host # Line.host
              ELSE /\ g.rows = Append(hosts[place].rows, RowOf(Line))
                   /\ hosts[place].host = Line.host
<1> DEFINE known == CurrentHost(Line.host)
           place == IF known = {} THEN Len(hosts) + 1 ELSE CHOOSE m \in known : TRUE
           h == IF known = {} THEN queryhost_create(Line.host) ELSE hosts[place]
           g == queryhost_push_row(h, RowOf(Line))
<1>1. /\ hosts \in Seq(HostType) /\ Len(hosts) \in Nat /\ current_host \in 0..Len(hosts)
      /\ hosts' = [m \in DOMAIN hosts \cup {place} |-> IF m = place THEN g ELSE hosts[m]]
      /\ current_host' = place
      /\ space' = IF known = {} THEN Room(Len(hosts), space) ELSE space
  BY DEF ReadLine, IInv, TypeOK
<1>2. /\ known \subseteq 1..Len(hosts) /\ \A k \in known : hosts[k].host = Line.host
      /\ known = {} => \A k \in 1..Len(hosts) : hosts[k].host # Line.host
  <2> DEFINE named == {k \in DOMAIN hosts : hosts[k].host = Line.host}
             first == {k \in named : \A m \in named : k <= m}
  <2>1. DOMAIN hosts = 1..Len(hosts) /\ named \subseteq Nat
    BY <1>1
  <2>2. named # {} => first # {}
    <3> HIDE DEF named
    <3>. QED
      BY <2>1, LeastElement
  <2>3. known = IF current_host # 0 /\ hosts[current_host].host = Line.host THEN {current_host}
                ELSE first
    BY DEF CurrentHost
  <2>. QED
    BY <1>1, <2>1, <2>2, <2>3
<1>3. /\ place \in 1..(Len(hosts) + 1) /\ (known # {} => place \in known)
      /\ (place = Len(hosts) + 1 <=> known = {})
  BY <1>1, <1>2
<1>4. Sound(h)
  <2>1. CASE known = {}
    BY <2>1, LineType, NewIsSound
  <2>2. CASE known # {}
    BY <1>1, <1>2, <1>3, <2>2 DEF IInv, AppendsFit, Sound
  <2>. QED
    BY <2>1, <2>2
<1>5. /\ h.host = Line.host /\ h.rows \in Seq(RowType)
      /\ IF known = {} THEN h.rows = <<>> ELSE h = hosts[place]
  BY <1>2, <1>3, <1>4 DEF queryhost_create, Sound, HostType
<1>6. Sound(g) /\ g.host = h.host /\ g.rows = Append(h.rows, RowOf(Line))
  <2>1. Sound(g)
    BY <1>4, LineType, PushedRow
  <2>2. h \in [host : Texts \cup {NoName}, rows : Seq(RowType), space : Nat]
    BY <1>4 DEF Sound, HostType
  <2> HIDE DEF h
  <2>. QED
    BY <2>1, <2>2 DEF queryhost_push_row
<1> HIDE DEF g, h, known, place
<1>7. g \in HostType
  BY <1>6 DEF Sound
<1>8. CASE place = Len(hosts) + 1
  <2>1. DOMAIN hosts \cup {place} = 1..(Len(hosts) + 1)
    BY <1>1, <1>8
  <2>2. hosts' = [m \in 1..(Len(hosts) + 1) |-> IF m = Len(hosts) + 1 THEN g ELSE hosts[m]]
    BY <1>1, <1>8, <2>1
  <2>3. Len(hosts') = Len(hosts) + 1 /\ hosts' \in Seq(HostType)
    BY <1>1, <1>7, <2>2
  <2>4. g.rows = <<RowOf(Line)>>
    <3>1. g.rows = Append(<<>>, RowOf(Line))
      BY <1>3, <1>5, <1>6, <1>8
    <3>2. Append(<<>>, RowOf(Line)) = <<RowOf(Line)>>
      OBVIOUS
    <3>. QED
      BY <3>1, <3>2
  <2>5. \A k \in 1..Len(hosts') : hosts'[k] = IF k = place THEN g ELSE hosts[k]
    BY <1>1, <1>8, <2>2, <2>3
  <2>6. \A k \in 1..Len(hosts) : hosts[k].host # Line.host
    BY <1>2, <1>3, <1>8
  <2>. QED
    BY <1>1, <1>3, <1>5, <1>6, <1>7, <1>8, <2>3, <2>4, <2>5, <2>6
<1>9. CASE place # Len(hosts) + 1
  <2>1. place \in 1..Len(hosts) /\ h = hosts[place]
    BY <1>1, <1>3, <1>5, <1>9
  <2>2. hosts' = [hosts EXCEPT ![place] = g]
    BY <1>1, <2>1
  <2>3. /\ Len(hosts') = Len(hosts) /\ hosts' \in Seq(HostType)
        /\ \A k \in 1..Len(hosts) : hosts'[k] = IF k = place THEN g ELSE hosts[k]
    BY <1>1, <1>7, <2>1, <2>2
  <2>. QED
    BY <1>1, <1>3, <1>5, <1>6, <1>7, <1>9, <2>1, <2>3
<1>. QED
  BY <1>8, <1>9

LEMMA NextInvariant == IInv /\ [Next]_vars => IInv'
<1> SUFFICES ASSUME IInv, [Next]_vars PROVE IInv'
  OBVIOUS
<1>1. /\ Sound(host) /\ row \in RowType
      /\ reader \in {"file", "host", "row"} => Distinct(host)
      /\ pos \in Nat \ {0} /\ interval \in Nat
      /\ hosts \in Seq(HostType) /\ Len(hosts) \in Nat /\ current_host \in 0..Len(hosts)
  BY IntervalsAssumption DEF IInv, TypeOK, AppendsFit, NoDuplicateRows, NoCurrentHost, Sound
<1>2. Consume => pos' \in Nat \ {0}
  BY <1>1 DEF Consume
<1>3. CASE SkipWord
  BY <1>1, <1>2, <1>3, WordsKeep DEF SkipWord
<1>4. CASE HostBegins
  BY <1>1, <1>2, <1>4, WordsKeep, WordType, NewIsSound DEF HostBegins, Reads
<1>5. CASE TargetBegins
  BY <1>1, <1>2, <1>5, WordsKeep, WordType, NewIsSound DEF TargetBegins, Reads
<1>6. CASE SetField
  <2>1. Reads("speed") /\ (row.bits = 0 \/ interval # 0) => SpeedOf(row, Word.arg) \in Nat
    BY <1>1, WordType, Quotient DEF SpeedOf, Reads
  <2>2. row' \in RowType
    BY <1>1, <1>6, <2>1, WordType DEF SetField, Reads, RowType
  <2>. QED
    BY <1>1, <1>2, <1>6, <2>2, WordsKeep DEF SetField
<1>7. CASE DividesByZero
  BY <1>1, <1>7, WordsKeep DEF DividesByZero
<1>8. CASE RowEnds
  BY <1>1, <1>2, <1>8, WordsKeep, PushedRow DEF RowEnds
<1>9. CASE HostEnds
  <2>1. /\ hosts' = Append(hosts, host) /\ space' = Room(Len(hosts), space)
        /\ ntargets' = ntargets + RowsRead(host) /\ reader = "host" /\ reader' = "file"
        /\ UNCHANGED <<file, interval, host, row, current_host>> /\ pos' \in Nat \ {0}
    BY <1>2, <1>9 DEF HostEnds, rtgtargets_push_host
  <2>2. space' \in Nat /\ space' >= 2 /\ Len(hosts) + 1 <= space'
    BY <1>1, <2>1, RoomForMore DEF IInv, TypeOK, AppendsFit
  <2>3. host \in HostType /\ host.space >= 2 /\ FitsIn(host)
    BY <1>1 DEF Sound
  <2>4. /\ hosts' \in Seq(HostType) /\ Len(hosts') = Len(hosts) + 1
        /\ \A k \in 1..Len(hosts') : hosts'[k] = IF k <= Len(hosts) THEN hosts[k] ELSE host
    BY <1>1, <2>1, <2>3
  <2>5. ntargets' \in Nat
    BY <2>1, <2>3 DEF RowsRead, HostType, IInv, TypeOK
  <2>6. TypeOK'
    BY <1>1, <2>1, <2>2, <2>4, <2>5 DEF TypeOK, IInv
  <2>7. \A k \in 1..Len(hosts') : FitsIn(hosts'[k]) /\ hosts'[k].space >= 2
    BY <1>1, <2>3, <2>4 DEF IInv, AppendsFit
  <2>8. \A k \in 1..Len(hosts') : Distinct(hosts'[k])
    BY <1>1, <2>1, <2>4 DEF IInv, NoDuplicateRows, NoCurrentHost
  <2>9. AppendsFit' /\ NoDuplicateRows' /\ NoCurrentHost'
    <3>1. FitsIn(host)' /\ Distinct(host)'
      BY <1>1, <2>1, <2>3 DEF FitsIn, Distinct
    <3>2. (Len(hosts) <= space)'
      BY <2>2, <2>4
    <3>3. \A k \in 1..Len(hosts') : FitsIn(hosts[k])' /\ Distinct(hosts[k])'
      BY <2>7, <2>8 DEF FitsIn, Distinct
    <3>. QED
      BY <1>1, <2>1, <3>1, <3>2, <3>3 DEF AppendsFit, NoDuplicateRows, NoCurrentHost, IInv
  <2>. QED
    BY <2>1, <2>2, <2>3, <2>6, <2>7, <2>9 DEF IInv
<1>10. CASE FileEnds
  BY <1>1, <1>10 DEF FileEnds, FallsBack, IInv, TypeOK, AppendsFit, NoDuplicateRows,
     NoCurrentHost, hostVars, FitsIn, Distinct
<1>11. CASE ReadLine
  <2>1. /\ MoreLines /\ ntargets' = ntargets + 1 /\ pos' = pos + 1
        /\ UNCHANGED <<file, interval, reader, host, row>>
    BY <1>11 DEF ReadLine
  <2>2. PICK place \in 1..(Len(hosts) + 1), g \in HostType :
           /\ Sound(g) /\ hosts' \in Seq(HostType)
           /\ current_host' = place
           /\ space' = IF place = Len(hosts) + 1 THEN Room(Len(hosts), space) ELSE space
           /\ Len(hosts') = IF place = Len(hosts) + 1 THEN Len(hosts) + 1 ELSE Len(hosts)
           /\ place \in 1..Len(hosts')
           /\ \A k \in 1..Len(hosts') : hosts'[k] = IF k = place THEN g ELSE hosts[k]
    BY <1>11, LineRead
  <2>3. \A k \in 1..Len(hosts') : FitsIn(hosts'[k]) /\ hosts'[k].space >= 2
    BY <1>1, <2>2 DEF Sound, IInv, AppendsFit
  <2>4. space' \in Nat /\ space' >= 2 /\ Len(hosts') <= space'
    <3>1. CASE place = Len(hosts) + 1
      BY <1>1, <2>2, <3>1, RoomForMore DEF IInv, TypeOK, AppendsFit
    <3>2. CASE place # Len(hosts) + 1
      BY <1>1, <2>2, <3>2 DEF IInv, TypeOK, AppendsFit
    <3>. QED
      BY <3>1, <3>2
  <2>5. TypeOK'
    BY <1>1, <2>1, <2>2, <2>4 DEF TypeOK, IInv
  <2>6. AppendsFit'
    <3>1. \A k \in 1..Len(hosts') : FitsIn(hosts[k])'
      BY <2>3 DEF FitsIn
    <3>. QED
      BY <1>1, <2>1, <2>4, <3>1 DEF AppendsFit, FitsIn, IInv
  <2>7. NoDuplicateRows' /\ NoCurrentHost'
    BY <1>1, <2>1, <2>2 DEF MoreLines, NoDuplicateRows, NoCurrentHost
  <2>8. host'.space >= 2
    BY <2>1 DEF IInv
  <2>. QED
    BY <2>3, <2>4, <2>5, <2>6, <2>7, <2>8 DEF IInv
<1>12. CASE LineDividesByZero \/ LinesEnd
  <2>1. /\ UNCHANGED <<file, interval, pos, host, row, current_host, hosts, space, ntargets>>
        /\ reader' \in {"done", "crashed"}
    BY <1>12 DEF LineDividesByZero, LinesEnd, hostVars
  <2>2. TypeOK' /\ AppendsFit' /\ NoDuplicateRows' /\ NoCurrentHost'
    BY <2>1 DEF IInv, TypeOK, AppendsFit, NoDuplicateRows, NoCurrentHost, FitsIn, Distinct
  <2>. QED
    BY <2>1, <2>2 DEF IInv
<1>13. CASE UNCHANGED vars
  BY <1>13 DEF vars, hostVars, IInv, TypeOK, AppendsFit, NoDuplicateRows, NoCurrentHost,
     FitsIn, Distinct
<1>. QED
  BY <1>3, <1>4, <1>5, <1>6, <1>7, <1>8, <1>9, <1>10, <1>11, <1>12, <1>13 DEF Next, Rest

THEOREM Invariant == Spec => []IInv
BY InitialInvariant, NextInvariant, PTL DEF Spec

\* The reader's variables have their types in every state of every run.
THEOREM TypeCorrect == Spec => []TypeOK
<1>1. IInv => TypeOK
  BY DEF IInv
<1>. QED
  BY <1>1, Invariant, PTL

\* Neither the list of hosts nor a host's list of rows is written past its
\* end (rtgtargets.c:73, 193), from any initial size of two places or more.
THEOREM ListsHoldWhatIsAppended == Spec => []AppendsFit
<1>1. IInv => AppendsFit
  BY DEF IInv
<1>. QED
  BY <1>1, Invariant, PTL

\* Whatever a file of the grouped style holds, no host polls an OID twice or
\* writes two rows with the same table and id (rtgtargets.c:284-299).
THEOREM RowsAreDistinct == Spec => []NoDuplicateRows
<1>1. IInv => NoDuplicateRows
  BY DEF IInv
<1>. QED
  BY <1>1, Invariant, PTL

-----------------------------------------------------------------------------
(* The number of targets.                                                  *)

\* RowsUpTo, as a function of the list of hosts.
Sums(hs) == CHOOSE f : f = [k \in 0..Len(hs) |->
                              IF k = 0 THEN 0 ELSE f[k - 1] + Len(hs[k].rows)]

\* There is such a function for every list: a first host that none reaches
\* would be one past the last that one reaches.
LEMMA SumsExist ==
  ASSUME NEW hs \in Seq(HostType)
  PROVE  Sums(hs) = [k \in 0..Len(hs) |->
                       IF k = 0 THEN 0 ELSE Sums(hs)[k - 1] + Len(hs[k].rows)]
<1> DEFINE Reach(n) == \E f : f = [k \in 0..n |-> IF k = 0 THEN 0 ELSE f[k - 1] + Len(hs[k].rows)]
           short == {n \in 0..Len(hs) : ~Reach(n)}
<1>1. Len(hs) \in Nat
  OBVIOUS
<1>2. Reach(0)
  <2> DEFINE f == [k \in 0..0 |-> 0]
  <2>1. f = [k \in 0..0 |-> IF k = 0 THEN 0 ELSE f[k - 1] + Len(hs[k].rows)]
    OBVIOUS
  <2>. QED
    BY <2>1
<1>3. ASSUME NEW n \in 1..Len(hs), Reach(n - 1)
      PROVE  Reach(n)
  <2>1. PICK f : f = [k \in 0..(n - 1) |-> IF k = 0 THEN 0 ELSE f[k - 1] + Len(hs[k].rows)]
    BY <1>3
  <2> DEFINE g == [k \in 0..n |-> IF k = n THEN f[n - 1] + Len(hs[n].rows) ELSE f[k]]
             step == [k \in 0..n |-> IF k = 0 THEN 0 ELSE g[k - 1] + Len(hs[k].rows)]
  <2>2. ASSUME NEW k \in 0..n
        PROVE  g[k] = step[k]
    <3>1. CASE k = 0
      BY <1>1, <2>1, <3>1
    <3>2. CASE k = n
      BY <1>1, <3>2
    <3>3. CASE k \in 1..(n - 1)
      <4>1. f[k] = f[k - 1] + Len(hs[k].rows)
        BY <1>1, <2>1, <3>3
      <4>2. g[k] = f[k] /\ g[k - 1] = f[k - 1]
        BY <1>1, <3>3
      <4>. QED
        BY <1>1, <3>3, <4>1, <4>2
    <3>. QED
      BY <1>1, <3>1, <3>2, <3>3
  <2>3. g = step
    BY <2>2
  <2>. QED
    BY <2>3
<1>4. short = {}
  <2>1. SUFFICES ASSUME short # {} PROVE FALSE
    OBVIOUS
  <2>2. short \subseteq Nat
    BY <1>1
  <2>3. PICK n \in short : \A m \in short : n <= m
    <3> HIDE DEF short
    <3>. QED
      BY <2>1, <2>2, LeastElement
  <2>4. n \in 0..Len(hs) /\ ~Reach(n)
    OBVIOUS
  <2> HIDE DEF Reach
  <2>5. n \in 1..Len(hs) /\ n - 1 \in 0..Len(hs) /\ ~(n <= n - 1)
    BY <1>1, <1>2, <2>4
  <2>6. Reach(n - 1)
    BY <2>3, <2>5
  <2>. QED
    BY <1>3, <2>4, <2>5, <2>6
<1>5. Reach(Len(hs))
  <2> HIDE DEF Reach
  <2>. QED
    BY <1>1, <1>4
<1>. QED
  BY <1>5 DEF Sums

\* What it is before the first host, and what every host adds.
LEMMA SumsAre ==
  ASSUME NEW hs \in Seq(HostType)
  PROVE  /\ Sums(hs)[0] = 0
         /\ \A k \in 1..Len(hs) : Sums(hs)[k] = Sums(hs)[k - 1] + Len(hs[k].rows)
         /\ \A k \in 1..Len(hs) : Len(hs[k].rows) \in Nat
<1> DEFINE S == Sums(hs)
<1>1. S = [k \in 0..Len(hs) |-> IF k = 0 THEN 0 ELSE S[k - 1] + Len(hs[k].rows)]
  BY SumsExist
<1> HIDE DEF S
<1>2. \A k \in 1..Len(hs) : Len(hs[k].rows) \in Nat
  BY DEF HostType
<1>3. S[0] = 0 /\ \A k \in 1..Len(hs) : S[k] = S[k - 1] + Len(hs[k].rows)
  BY <1>1
<1>. QED
  BY <1>2, <1>3 DEF S

\* Two lists with as many rows in every host up to n, but one more in the host
\* at place, if that is among them.
LEMMA OneMoreRow ==
  ASSUME NEW hs \in Seq(HostType), NEW gs \in Seq(HostType), NEW place \in Nat,
         NEW n \in Nat, n <= Len(hs), n <= Len(gs),
         \A k \in 1..n : k # place => Len(gs[k].rows) = Len(hs[k].rows),
         place \in 1..n => Len(gs[place].rows) = Len(hs[place].rows) + 1
  PROVE  /\ Sums(hs)[n] \in Nat
         /\ place \notin 1..n => Sums(gs)[n] = Sums(hs)[n]
         /\ place \in 1..n => Sums(gs)[n] = Sums(hs)[n] + 1
<1> DEFINE Right(k) == /\ Sums(hs)[k] \in Nat
                       /\ place \notin 1..k => Sums(gs)[k] = Sums(hs)[k]
                       /\ place \in 1..k => Sums(gs)[k] = Sums(hs)[k] + 1
           wrong == {k \in 0..n : ~Right(k)}
<1>1. Right(0)
  BY SumsAre
<1>2. ASSUME NEW k \in 1..n, Right(k - 1)
      PROVE  Right(k)
  <2>1. k \in 1..Len(hs) /\ k \in 1..Len(gs)
    OBVIOUS
  <2>2. /\ Sums(hs)[k] = Sums(hs)[k - 1] + Len(hs[k].rows) /\ Len(hs[k].rows) \in Nat
        /\ Sums(gs)[k] = Sums(gs)[k - 1] + Len(gs[k].rows)
        /\ k # place => Len(gs[k].rows) = Len(hs[k].rows)
        /\ k = place => Len(gs[k].rows) = Len(hs[k].rows) + 1
    BY <2>1, SumsAre
  <2>3. place \in 1..k <=> place \in 1..(k - 1) \/ k = place
    OBVIOUS
  <2>4. ~(place \in 1..(k - 1) /\ k = place)
    OBVIOUS
  <2>5. /\ Sums(hs)[k - 1] \in Nat
        /\ place \notin 1..(k - 1) => Sums(gs)[k - 1] = Sums(hs)[k - 1]
        /\ place \in 1..(k - 1) => Sums(gs)[k - 1] = Sums(hs)[k - 1] + 1
    BY <1>2
  <2>6. Sums(hs)[k] \in Nat
    BY <2>2, <2>5
  <2>7. /\ place \notin 1..k => Sums(gs)[k] = Sums(hs)[k]
        /\ place \in 1..k => Sums(gs)[k] = Sums(hs)[k] + 1
    <3>1. CASE k = place
      BY <2>2, <2>3, <2>4, <2>5, <3>1
    <3>2. CASE k # place
      <4>1. Sums(gs)[k] = Sums(gs)[k - 1] + Len(hs[k].rows)
        BY <2>2, <3>2
      <4>2. CASE place \in 1..(k - 1)
        <5>1. Sums(gs)[k] = (Sums(hs)[k - 1] + 1) + Len(hs[k].rows)
          BY <2>5, <4>1, <4>2
        <5>2. Sums(hs)[k] = Sums(hs)[k - 1] + Len(hs[k].rows) /\ Len(hs[k].rows) \in Nat
          BY <2>2
        <5>3. Sums(gs)[k] = Sums(hs)[k] + 1
          BY <2>5, <5>1, <5>2
        <5>. QED
          BY <2>3, <4>2, <5>3
      <4>3. CASE place \notin 1..(k - 1)
        BY <2>2, <2>3, <2>5, <3>2, <4>1, <4>3
      <4>. QED
        BY <4>2, <4>3
    <3>. QED
      BY <3>1, <3>2
  <2>. QED
    BY <2>6, <2>7
<1>3. wrong = {}
  <2>1. SUFFICES ASSUME wrong # {} PROVE FALSE
    OBVIOUS
  <2>2. PICK k \in wrong : \A m \in wrong : k <= m
    <3>1. wrong \subseteq Nat
      OBVIOUS
    <3> HIDE DEF wrong
    <3>. QED
      BY <2>1, <3>1, LeastElement
  <2> HIDE DEF Right
  <2>3. k \in 1..n /\ k - 1 \in 0..n /\ ~(k <= k - 1) /\ ~Right(k)
    BY <1>1, <2>2
  <2>4. Right(k - 1)
    BY <2>2, <2>3
  <2>. QED
    BY <1>2, <2>3, <2>4
<1>. QED
  BY <1>3

\* Hosts that are added do not change the rows of those before them.
LEMMA SameRows ==
  ASSUME NEW hs \in Seq(HostType), NEW gs \in Seq(HostType), Len(hs) <= Len(gs),
         \A k \in 1..Len(hs) : gs[k] = hs[k]
  PROVE  Sums(hs)[Len(hs)] \in Nat /\ Sums(gs)[Len(hs)] = Sums(hs)[Len(hs)]
<1>1. PICK n : n = Len(hs)
  OBVIOUS
<1>2. n \in Nat /\ 0 \in Nat /\ 0 \notin 1..n /\ n <= Len(hs) /\ n <= Len(gs)
  BY <1>1
<1>3. \A k \in 1..n : k # 0 => Len(gs[k].rows) = Len(hs[k].rows)
  BY <1>1
<1>4. 0 \in 1..n => Len(gs[0].rows) = Len(hs[0].rows) + 1
  BY <1>2
<1>5. Sums(hs)[n] \in Nat /\ (0 \notin 1..n => Sums(gs)[n] = Sums(hs)[n])
  BY <1>2, <1>3, <1>4, OneMoreRow, ZenonT(60)
<1>. QED
  BY <1>1, <1>2, <1>5

\* The hosts of a file of either style are counted as their rows are read.
LEMMA CountedStep == IInv /\ IInv' /\ TargetsCounted /\ [Next]_vars => TargetsCounted'
<1> SUFFICES ASSUME IInv, IInv', TargetsCounted, [Next]_vars PROVE TargetsCounted'
  OBVIOUS
<1>1. /\ hosts \in Seq(HostType) /\ hosts' \in Seq(HostType) /\ host \in HostType
      /\ Len(hosts) \in Nat /\ Len(hosts') \in Nat /\ current_host \in 0..Len(hosts)
  BY DEF IInv, TypeOK
<1>2. ntargets = Sums(hosts)[Len(hosts)]
  BY DEF TargetsCounted, RowsUpTo, Sums
<1>3. SUFFICES ntargets' = Sums(hosts')[Len(hosts')]
  BY DEF TargetsCounted, RowsUpTo, Sums
<1>4. CASE UNCHANGED <<hosts, ntargets>>
  BY <1>2, <1>4
<1>5. CASE HostEnds
  <2>1. hosts' = Append(hosts, host) /\ ntargets' = ntargets + Len(host.rows)
    BY <1>5 DEF HostEnds, rtgtargets_push_host, RowsRead
  <2>2. /\ Len(hosts') = Len(hosts) + 1 /\ hosts'[Len(hosts')] = host
        /\ \A k \in 1..Len(hosts) : hosts'[k] = hosts[k]
    BY <1>1, <2>1
  <2>3. Sums(hosts')[Len(hosts)] = Sums(hosts)[Len(hosts)] /\ Sums(hosts)[Len(hosts)] \in Nat
    BY <1>1, <2>2, SameRows
  <2>4. Sums(hosts')[Len(hosts')] = Sums(hosts')[Len(hosts)] + Len(host.rows)
    BY <1>1, <2>2, SumsAre
  <2>. QED
    BY <1>2, <2>1, <2>3, <2>4
<1>6. CASE ReadLine
  <2>1. PICK place \in 1..(Len(hosts) + 1), g \in HostType :
           /\ Len(hosts') = IF place = Len(hosts) + 1 THEN Len(hosts) + 1 ELSE Len(hosts)
           /\ place \in 1..Len(hosts')
           /\ \A k \in 1..Len(hosts') : hosts'[k] = IF k = place THEN g ELSE hosts[k]
           /\ IF place = Len(hosts) + 1 THEN g.rows = <<RowOf(Line)>>
              ELSE g.rows = Append(hosts[place].rows, RowOf(Line))
    BY <1>6, LineRead
  <2>2. ntargets' = ntargets + 1
    BY <1>6 DEF ReadLine
  <2>3. CASE place = Len(hosts) + 1
    <3>1. Len(hosts') = Len(hosts) + 1 /\ \A k \in 1..Len(hosts) : hosts'[k] = hosts[k]
      BY <1>1, <2>1, <2>3
    <3>2. Sums(hosts')[Len(hosts)] = Sums(hosts)[Len(hosts)] /\ Sums(hosts)[Len(hosts)] \in Nat
      BY <1>1, <3>1, SameRows
    <3>3. Len(hosts') \in 1..Len(hosts') /\ Len(hosts') - 1 = Len(hosts)
      BY <1>1, <3>1
    <3>4. Len(hosts'[Len(hosts')].rows) = 1
      <4>1. hosts'[Len(hosts')] = g /\ g.rows = <<RowOf(Line)>>
        BY <2>1, <2>3, <3>1, <3>3
      <4>2. Len(<<RowOf(Line)>>) = 1
        OBVIOUS
      <4>. QED
        BY <4>1, <4>2
    <3>5. Sums(hosts')[Len(hosts')] = Sums(hosts')[Len(hosts)] + 1
      BY <1>1, <3>3, <3>4, SumsAre
    <3>. QED
      BY <1>2, <2>2, <3>2, <3>5
  <2>4. CASE place # Len(hosts) + 1
    <3>1. /\ place \in 1..Len(hosts) /\ Len(hosts') = Len(hosts)
          /\ g.rows = Append(hosts[place].rows, RowOf(Line))
          /\ hosts'[place] = g /\ \A k \in 1..Len(hosts) : k # place => hosts'[k] = hosts[k]
      BY <1>1, <2>1, <2>4
    <3>2. Len(hosts'[place].rows) = Len(hosts[place].rows) + 1
      <4>1. hosts[place] \in HostType
        BY <1>1, <3>1
      <4>2. hosts[place].rows \in Seq(RowType)
        BY <4>1 DEF HostType
      <4>3. RowOf(Line) \in RowType
        BY <1>6, LineType
      <4>. QED
        BY <3>1, <4>2, <4>3
    <3>3. Sums(hosts')[Len(hosts)] = Sums(hosts)[Len(hosts)] + 1
      <4>1. \A k \in 1..Len(hosts) : k # place => Len(hosts'[k].rows) = Len(hosts[k].rows)
        BY <3>1
      <4>2. Len(hosts) <= Len(hosts') /\ Len(hosts) <= Len(hosts) /\ place \in Nat
        BY <1>1, <3>1
      <4>3. place \in 1..Len(hosts)
        BY <3>1
      <4>. QED
        BY <1>1, <3>2, <4>1, <4>2, <4>3, OneMoreRow
    <3>. QED
      BY <1>2, <2>2, <3>1, <3>3
  <2>. QED
    BY <2>3, <2>4
<1>. QED
  BY <1>4, <1>5, <1>6 DEF Next, SkipWord, HostBegins, TargetBegins, SetField, DividesByZero,
     RowEnds, FileEnds, LineDividesByZero, LinesEnd, Rest, vars, hostVars

\* The number of targets is the number of rows that the pollers will find, in
\* both styles and whatever the file (rtgtargets.c:77, 369, main.c:143).
THEOREM NumberOfTargets == Spec => []TargetsCounted
<1>1. Init => TargetsCounted
  <2> SUFFICES ASSUME Init PROVE TargetsCounted
    OBVIOUS
  <2>1. hosts = <<>> /\ ntargets = 0 /\ <<>> \in Seq(HostType) /\ Len(<<>>) = 0
    BY DEF Init
  <2>2. Sums(<<>>)[0] = 0
    BY <2>1, SumsAre
  <2>. QED
    BY <2>1, <2>2 DEF TargetsCounted, RowsUpTo, Sums
<1>2. IInv /\ IInv' /\ TargetsCounted /\ [Next]_vars => TargetsCounted'
  BY CountedStep
<1>. QED
  BY <1>1, <1>2, Invariant, PTL DEF Spec

-----------------------------------------------------------------------------
(* The hosts of the table-like style.                                      *)

\* What line n adds to the rows of each name.
Gives(before, n) == [name \in Texts |-> IF name = file.lines[n].host
                                        THEN Append(before[name], RowOf(file.lines[n]))
                                        ELSE before[name]]

\* OwnRows is defined for every number of lines.
LEMMA OwnRowsExist ==
  ASSUME file \in Files
  PROVE  OwnRows = [n \in 0..Len(file.lines) |-> IF n = 0 THEN [name \in Texts |-> <<>>]
                                                  ELSE Gives(OwnRows[n - 1], n)]
<1> DEFINE none == [name \in Texts |-> <<>>]
           Reach(n) == \E f : f = [k \in 0..n |-> IF k = 0 THEN none ELSE Gives(f[k - 1], k)]
           short == {n \in 0..Len(file.lines) : ~Reach(n)}
<1>1. Len(file.lines) \in Nat
  BY FilesAssumption
<1>2. Reach(0)
  <2> DEFINE f == [k \in 0..0 |-> none]
  <2>1. f = [k \in 0..0 |-> IF k = 0 THEN none ELSE Gives(f[k - 1], k)]
    OBVIOUS
  <2>. QED
    BY <2>1
<1>3. ASSUME NEW n \in 1..Len(file.lines), Reach(n - 1)
      PROVE  Reach(n)
  <2>1. PICK f : f = [k \in 0..(n - 1) |-> IF k = 0 THEN none ELSE Gives(f[k - 1], k)]
    BY <1>3
  <2> DEFINE g == [k \in 0..n |-> IF k = n THEN Gives(f[n - 1], n) ELSE f[k]]
             step == [k \in 0..n |-> IF k = 0 THEN none ELSE Gives(g[k - 1], k)]
  <2>2. ASSUME NEW k \in 0..n
        PROVE  g[k] = step[k]
    <3>1. CASE k = 0
      BY <1>1, <2>1, <3>1
    <3>2. CASE k = n
      BY <1>1, <3>2
    <3>3. CASE k \in 1..(n - 1)
      <4>1. f[k] = Gives(f[k - 1], k)
        BY <1>1, <2>1, <3>3
      <4>2. g[k] = f[k] /\ g[k - 1] = f[k - 1]
        BY <1>1, <3>3
      <4>. QED
        BY <1>1, <3>3, <4>1, <4>2
    <3>. QED
      BY <1>1, <3>1, <3>2, <3>3
  <2>3. g = step
    BY <2>2
  <2>. QED
    BY <2>3
<1>4. short = {}
  <2>1. SUFFICES ASSUME short # {} PROVE FALSE
    OBVIOUS
  <2>2. short \subseteq Nat
    BY <1>1
  <2>3. PICK n \in short : \A m \in short : n <= m
    <3> HIDE DEF short
    <3>. QED
      BY <2>1, <2>2, LeastElement
  <2>4. n \in 0..Len(file.lines) /\ ~Reach(n)
    OBVIOUS
  <2> HIDE DEF Reach
  <2>5. n \in 1..Len(file.lines) /\ n - 1 \in 0..Len(file.lines) /\ ~(n <= n - 1)
    BY <1>1, <1>2, <2>4
  <2>6. Reach(n - 1)
    BY <2>3, <2>5
  <2>. QED
    BY <1>3, <2>4, <2>5, <2>6
<1>5. Reach(Len(file.lines))
  <2> HIDE DEF Reach
  <2>. QED
    BY <1>1, <1>4
<1>6. OwnRows = CHOOSE f : f = [n \in 0..Len(file.lines) |->
                                  IF n = 0 THEN none ELSE Gives(f[n - 1], n)]
  BY DEF OwnRows, Gives
<1>. QED
  BY <1>5, <1>6

\* A line gives its row to its own host.
LEMMA OwnRowsAre ==
  ASSUME file \in Files
  PROVE  \A name \in Texts :
           /\ OwnRows[0][name] = <<>>
           /\ \A n \in 1..Len(file.lines) :
                OwnRows[n][name] = IF name = file.lines[n].host
                                   THEN Append(OwnRows[n - 1][name], RowOf(file.lines[n]))
                                   ELSE OwnRows[n - 1][name]
<1> DEFINE S == OwnRows
           Read(n) == IF n = 0 THEN [name \in Texts |-> <<>>] ELSE Gives(S[n - 1], n)
<1>1. S = [n \in 0..Len(file.lines) |-> Read(n)]
  BY OwnRowsExist
<1>2. Len(file.lines) \in Nat
  BY FilesAssumption
<1>3. \A n \in 0..Len(file.lines) : S[n] = Read(n)
  <2> HIDE DEF Read, S
  <2>. QED
    BY <1>1
<1>4. S[0] = [name \in Texts |-> <<>>]
  <2> HIDE DEF S
  <2>. QED
    BY <1>2, <1>3
<1>5. \A n \in 1..Len(file.lines) : S[n] = Gives(S[n - 1], n)
  <2> HIDE DEF S
  <2>. QED
    BY <1>2, <1>3
<1>. QED
  <2> HIDE DEF S
  <2>1. \A name \in Texts, n \in 1..Len(file.lines) :
          S[n][name] = IF name = file.lines[n].host
                       THEN Append(S[n - 1][name], RowOf(file.lines[n]))
                       ELSE S[n - 1][name]
    <3>1. ASSUME NEW name \in Texts, NEW n \in 1..Len(file.lines)
          PROVE  Gives(S[n - 1], n)[name] = IF name = file.lines[n].host
                                            THEN Append(S[n - 1][name], RowOf(file.lines[n]))
                                            ELSE S[n - 1][name]
      BY <3>1 DEF Gives
    <3>2. ASSUME NEW name \in Texts, NEW n \in 1..Len(file.lines)
          PROVE  S[n][name] = Gives(S[n - 1], n)[name]
      <4>1. S[n] = Gives(S[n - 1], n)
        BY <1>5
      <4>. QED
        BY <4>1
    <3>. QED
      BY <3>1, <3>2
  <2>2. \A name \in Texts : S[0][name] = <<>>
    BY <1>4
  <2>. QED
    BY <2>1, <2>2 DEF S

\* A name that no line has had has no rows.
LEMMA NoRowsYet ==
  ASSUME file \in Files, NEW name \in Texts, NEW n \in 0..Len(file.lines),
         \A l \in 1..n : file.lines[l].host # name
  PROVE  OwnRows[n][name] = <<>>
<1> DEFINE wrong == {k \in 0..n : OwnRows[k][name] # <<>>}
<1>1. wrong = {}
  <2>1. SUFFICES ASSUME wrong # {} PROVE FALSE
    OBVIOUS
  <2>2. PICK k \in wrong : \A m \in wrong : k <= m
    <3>1. wrong \subseteq Nat
      OBVIOUS
    <3> HIDE DEF wrong
    <3>. QED
      BY <2>1, <3>1, LeastElement
  <2>3. k \in 1..n /\ k - 1 \in 0..n /\ ~(k <= k - 1) /\ k \in 1..Len(file.lines)
    BY OwnRowsAre, FilesAssumption
  <2>4. OwnRows[k - 1][name] = <<>>
    BY <2>2, <2>3
  <2>. QED
    BY <2>3, <2>4, OwnRowsAre
<1>. QED
  BY <1>1

\* What has been read of a file in which no word is host.
Table ==
  (\A k \in 1..Len(file.words) : file.words[k].key # "host") =>
    /\ reader \in {"file", "lines", "done", "crashed"}
    /\ reader = "file" => hosts = <<>>
    /\ reader = "lines" => pos \in 1..(Len(file.lines) + 1) /\ HostsOf(pos - 1)
    /\ reader = "done" => HostsOf(Len(file.lines))

\* The names in the file are names.
LEMMA NamesOfLines ==
  ASSUME file \in Files
  PROVE  \A l \in 1..Len(file.lines) : file.lines[l].host \in Texts
BY FilesAssumption

\* Where the line that is read stands, and what it does to the rows.
LEMMA AtLine ==
  ASSUME IInv, ReadLine, NEW n, n = pos - 1, HostsOf(n)
  PROVE  /\ n \in Nat /\ pos' - 1 = n + 1 /\ n + 1 \in 1..Len(file.lines)
         /\ file \in Files /\ n \in 0..Len(file.lines)
         /\ Len(hosts) \in Nat /\ UNCHANGED file
         /\ Line = file.lines[n + 1] /\ Line.host \in Texts
         /\ OwnRows' = OwnRows
         /\ \A name \in Texts :
              OwnRows[n + 1][name] = IF name = Line.host
                                     THEN Append(OwnRows[n][name], RowOf(Line))
                                     ELSE OwnRows[n][name]
         /\ \A k \in 1..Len(hosts) : hosts[k].host \in Texts
<1>1. file \in Files /\ pos \in Nat \ {0} /\ Len(hosts) \in Nat
  BY DEF IInv, TypeOK
<1>2. pos <= Len(file.lines) /\ pos' = pos + 1 /\ UNCHANGED <<file, interval>>
  BY DEF ReadLine, MoreLines
<1>3. Len(file.lines) \in Nat
  BY <1>1, FilesAssumption
<1>4. /\ n \in Nat /\ pos = n + 1 /\ pos' - 1 = n + 1 /\ n + 1 \in 1..Len(file.lines)
      /\ n \in 0..Len(file.lines) /\ (n + 1) - 1 = n
  BY <1>1, <1>2, <1>3
<1>5. Line = file.lines[n + 1]
  BY <1>4 DEF Line
<1>6. OwnRows' = OwnRows
  BY <1>2 DEF OwnRows, RowOf
<1>7. Line.host \in Texts
  BY <1>1, <1>4, <1>5, NamesOfLines
<1>8. \A name \in Texts :
        OwnRows[n + 1][name] = IF name = Line.host
                               THEN Append(OwnRows[n][name], RowOf(Line))
                               ELSE OwnRows[n][name]
  <2>1. \A name \in Texts :
          OwnRows[n + 1][name] = IF name = Line.host
                                 THEN Append(OwnRows[(n + 1) - 1][name], RowOf(Line))
                                 ELSE OwnRows[(n + 1) - 1][name]
    BY <1>1, <1>4, <1>5, OwnRowsAre
  <2>. QED
    BY <1>4, <2>1
<1>9. \A k \in 1..Len(hosts) : hosts[k].host \in Texts
  <2>1. ASSUME NEW k \in 1..Len(hosts)
        PROVE  hosts[k].host \in Texts
    <3>1. PICK l \in 1..n : file.lines[l].host = hosts[k].host
      BY DEF HostsOf
    <3>2. l \in 1..Len(file.lines)
      BY <1>3, <1>4
    <3>. QED
      BY <1>1, <3>1, <3>2, NamesOfLines
  <2>. QED
    BY <2>1
<1>. QED
  BY <1>1, <1>2, <1>4, <1>5, <1>6, <1>7, <1>8, <1>9

\* A line of a new name begins a host at the end of the list.
LEMMA LineBeginsHost ==
  ASSUME IInv, IInv', ReadLine, HostsOf(pos - 1),
         \A k \in 1..Len(hosts) : hosts[k].host # Line.host,
         Len(hosts') = Len(hosts) + 1,
         \A k \in 1..Len(hosts) : hosts'[k] = hosts[k],
         hosts'[Len(hosts) + 1].host = Line.host,
         hosts'[Len(hosts) + 1].rows = <<RowOf(Line)>>
  PROVE  HostsOf(pos - 1)'
<1> DEFINE name == Line.host
<1>1. PICK n : n = pos - 1
  OBVIOUS
<1>2. /\ n \in Nat /\ pos' - 1 = n + 1 /\ n + 1 \in 1..Len(file.lines)
      /\ file \in Files /\ n \in 0..Len(file.lines)
      /\ Len(hosts) \in Nat /\ UNCHANGED file
      /\ Line = file.lines[n + 1] /\ name \in Texts
  BY <1>1, AtLine
<1>3. OwnRows' = OwnRows
  BY <1>1, AtLine
<1>4. HostsOf(n)
  BY <1>1
<1>5. \A x \in 1..n : file.lines[x].host # name
  <2>1. ASSUME NEW x \in 1..n
        PROVE  file.lines[x].host # name
    <3>1. PICK k \in 1..Len(hosts) : hosts[k].host = file.lines[x].host
      BY <1>4 DEF HostsOf
    <3>. QED
      BY <3>1
  <2>. QED
    BY <2>1
<1>6. OwnRows[n][name] = <<>>
  BY <1>2, <1>5, NoRowsYet
<1>7. \A other \in Texts :
        OwnRows[n + 1][other] = IF other = name THEN Append(OwnRows[n][other], RowOf(Line))
                                ELSE OwnRows[n][other]
  BY <1>1, AtLine
<1>8. \A k \in 1..Len(hosts) : hosts[k].host \in Texts /\ hosts[k].host # name
  BY <1>1, AtLine
<1> HIDE DEF name
<1>9. \A k \in 1..Len(hosts') : hosts'[k].rows = OwnRows[n + 1][hosts'[k].host]
  <2>1. ASSUME NEW k \in 1..Len(hosts)
        PROVE  hosts'[k].rows = OwnRows[n + 1][hosts'[k].host]
    <3>1. hosts[k].rows = OwnRows[n][hosts[k].host]
      BY <1>4 DEF HostsOf
    <3>2. OwnRows[n + 1][hosts[k].host] = OwnRows[n][hosts[k].host]
      BY <1>7, <1>8
    <3>. QED
      BY <3>1, <3>2
  <2>2. hosts'[Len(hosts) + 1].rows = OwnRows[n + 1][hosts'[Len(hosts) + 1].host]
    <3>1. Append(<<>>, RowOf(Line)) = <<RowOf(Line)>>
      OBVIOUS
    <3>2. OwnRows[n + 1][name] = Append(OwnRows[n][name], RowOf(Line))
      BY <1>2, <1>7
    <3>3. OwnRows[n + 1][name] = <<RowOf(Line)>>
      BY <1>6, <3>1, <3>2
    <3>4. hosts'[Len(hosts) + 1].host = name
      BY DEF name
    <3>. QED
      BY <3>3, <3>4
  <2>. QED
    BY <1>2, <2>1, <2>2
<1>10. \A k \in 1..Len(hosts') : \E l \in 1..(n + 1) : file.lines[l].host = hosts'[k].host
  <2>1. ASSUME NEW k \in 1..Len(hosts)
        PROVE  \E l \in 1..(n + 1) : file.lines[l].host = hosts'[k].host
    <3>1. PICK l \in 1..n : file.lines[l].host = hosts[k].host
      BY <1>4 DEF HostsOf
    <3>. QED
      BY <1>2, <3>1
  <2>2. \E l \in 1..(n + 1) : file.lines[l].host = hosts'[Len(hosts) + 1].host
    <3>1. n + 1 \in 1..(n + 1)
      BY <1>2
    <3>. QED
      BY <1>2, <3>1
  <2>. QED
    BY <1>2, <2>1, <2>2
<1>11. \A l \in 1..(n + 1) : \E k \in 1..Len(hosts') : hosts'[k].host = file.lines[l].host
  <2>1. ASSUME NEW l \in 1..n
        PROVE  \E k \in 1..Len(hosts') : hosts'[k].host = file.lines[l].host
    <3>1. PICK k \in 1..Len(hosts) : hosts[k].host = file.lines[l].host
      BY <1>4 DEF HostsOf
    <3>. QED
      BY <1>2, <3>1
  <2>2. \E k \in 1..Len(hosts') : hosts'[k].host = file.lines[n + 1].host
    <3>1. Len(hosts) + 1 \in 1..Len(hosts')
      BY <1>2
    <3>. QED
      BY <1>2, <3>1
  <2>. QED
    BY <1>2, <2>1, <2>2
<1>12. ASSUME NEW k \in 1..Len(hosts'), NEW m \in 1..Len(hosts'), k < m
       PROVE  \E l \in 1..(n + 1) : /\ file.lines[l].host = hosts'[k].host
                                    /\ \A x \in 1..l : file.lines[x].host # hosts'[m].host
  <2>1. k \in 1..Len(hosts) /\ hosts'[k] = hosts[k]
    BY <1>2, <1>12
  <2>2. CASE m \in 1..Len(hosts)
    <3>1. PICK l \in 1..n : /\ file.lines[l].host = hosts[k].host
                            /\ \A x \in 1..l : file.lines[x].host # hosts[m].host
      BY <1>4, <1>12, <2>1, <2>2 DEF HostsOf
    <3>2. l \in 1..(n + 1) /\ hosts'[m] = hosts[m]
      BY <1>2, <2>2
    <3>. QED
      BY <2>1, <3>1, <3>2
  <2>3. CASE m = Len(hosts) + 1
    <3>1. PICK l \in 1..n : file.lines[l].host = hosts[k].host
      BY <1>4, <2>1 DEF HostsOf
    <3>2. l \in 1..(n + 1) /\ \A x \in 1..l : x \in 1..n
      BY <1>2
    <3>3. \A x \in 1..l : file.lines[x].host # hosts'[m].host
      BY <1>5, <2>3, <3>2 DEF name
    <3>. QED
      BY <2>1, <3>1, <3>2, <3>3
  <2>4. m \in 1..Len(hosts) \/ m = Len(hosts) + 1
    BY <1>2
  <2>. QED
    BY <2>2, <2>3, <2>4
<1>13. HostsOf(n + 1)'
  <2>1. \A k \in 1..Len(hosts') : hosts'[k].rows = OwnRows'[n + 1][hosts'[k].host]
    BY <1>3, <1>9
  <2>2. file' = file
    BY <1>2
  <2>. QED
    BY <1>10, <1>11, <1>12, <2>1, <2>2, SMTT(30) DEF HostsOf
<1>. QED
  BY <1>2, <1>13

\* A line of a known name adds its row to the host of that name, and to no
\* other.
LEMMA LineAddsRow ==
  ASSUME IInv, IInv', ReadLine, HostsOf(pos - 1),
         Len(hosts') = Len(hosts),
         NEW place \in 1..Len(hosts),
         \A k \in 1..Len(hosts) : k # place => hosts'[k] = hosts[k],
         hosts[place].host = Line.host,
         hosts'[place].host = Line.host,
         hosts'[place].rows = Append(hosts[place].rows, RowOf(Line))
  PROVE  HostsOf(pos - 1)'
<1> DEFINE name == Line.host
<1>1. PICK n : n = pos - 1
  OBVIOUS
<1>2. /\ n \in Nat /\ pos' - 1 = n + 1 /\ n + 1 \in 1..Len(file.lines)
      /\ Len(hosts) \in Nat /\ UNCHANGED file
      /\ Line = file.lines[n + 1]
  BY <1>1, AtLine
<1>3. OwnRows' = OwnRows
  BY <1>1, AtLine
<1>4. HostsOf(n)
  BY <1>1
<1>5. \A k \in 1..Len(hosts) : hosts'[k].host = hosts[k].host
  OBVIOUS
<1>6. \A k \in 1..Len(hosts) : k # place => hosts[k].host # name
  <2>1. ASSUME NEW k \in 1..Len(hosts), NEW m \in 1..Len(hosts), k < m
        PROVE  hosts[k].host # hosts[m].host
    <3>1. PICK l \in 1..n : /\ file.lines[l].host = hosts[k].host
                            /\ \A x \in 1..l : file.lines[x].host # hosts[m].host
      BY <1>4, <2>1 DEF HostsOf
    <3>2. l \in 1..l
      BY <1>2
    <3>. QED
      BY <3>1, <3>2
  <2>2. ASSUME NEW k \in 1..Len(hosts), k # place
        PROVE  k < place \/ place < k
    BY <1>2, <2>2
  <2>. QED
    BY <2>1, <2>2
<1>7. \A other \in Texts :
        OwnRows[n + 1][other] = IF other = name THEN Append(OwnRows[n][other], RowOf(Line))
                                ELSE OwnRows[n][other]
  BY <1>1, AtLine
<1>8. \A k \in 1..Len(hosts) : hosts[k].host \in Texts
  BY <1>1, AtLine
<1>9. \A k \in 1..Len(hosts) : hosts'[k].rows = OwnRows[n + 1][hosts[k].host]
  <2> SUFFICES ASSUME NEW k \in 1..Len(hosts)
               PROVE  hosts'[k].rows = OwnRows[n + 1][hosts[k].host]
    OBVIOUS
  <2>1. hosts[k].rows = OwnRows[n][hosts[k].host] /\ hosts[k].host \in Texts
    BY <1>4, <1>8 DEF HostsOf
  <2>2. CASE k = place
    BY <1>7, <2>1, <2>2
  <2>3. CASE k # place
    BY <1>6, <1>7, <2>1, <2>3
  <2>. QED
    BY <2>2, <2>3
<1>10. \A k \in 1..Len(hosts) : \E l \in 1..(n + 1) : file.lines[l].host = hosts[k].host
  <2>1. 1..n \subseteq 1..(n + 1)
    BY <1>2
  <2>. QED
    BY <1>4, <2>1 DEF HostsOf
<1>11. \A l \in 1..(n + 1) : \E k \in 1..Len(hosts) : hosts[k].host = file.lines[l].host
  <2> SUFFICES ASSUME NEW l \in 1..(n + 1)
               PROVE  \E k \in 1..Len(hosts) : hosts[k].host = file.lines[l].host
    OBVIOUS
  <2>1. l \in 1..n \/ l = n + 1
    BY <1>2
  <2>. QED
    BY <1>2, <1>4, <2>1 DEF HostsOf
<1>12. ASSUME NEW k \in 1..Len(hosts), NEW m \in 1..Len(hosts), k < m
       PROVE  \E l \in 1..(n + 1) : /\ file.lines[l].host = hosts[k].host
                                    /\ \A x \in 1..l : file.lines[x].host # hosts[m].host
  <2>1. 1..n \subseteq 1..(n + 1)
    BY <1>2
  <2>2. PICK l \in 1..n : /\ file.lines[l].host = hosts[k].host
                          /\ \A x \in 1..l : file.lines[x].host # hosts[m].host
    BY <1>4, <1>12 DEF HostsOf
  <2>. QED
    BY <2>1, <2>2
<1>13. HostsOf(n + 1)'
  <2>1. \A k \in 1..Len(hosts') : hosts'[k].rows = OwnRows'[n + 1][hosts'[k].host]
    BY <1>3, <1>5, <1>9
  <2>2. \A k \in 1..Len(hosts') : \E l \in 1..(n + 1) : file'.lines[l].host = hosts'[k].host
    BY <1>2, <1>5, <1>10
  <2>3. \A l \in 1..(n + 1) : \E k \in 1..Len(hosts') : hosts'[k].host = file'.lines[l].host
    BY <1>2, <1>5, <1>11
  <2>4. ASSUME NEW k \in 1..Len(hosts'), NEW m \in 1..Len(hosts'), k < m
        PROVE  \E l \in 1..(n + 1) : /\ file'.lines[l].host = hosts'[k].host
                                     /\ \A x \in 1..l : file'.lines[x].host # hosts'[m].host
    <3>1. PICK l \in 1..(n + 1) : /\ file.lines[l].host = hosts[k].host
                                  /\ \A x \in 1..l : file.lines[x].host # hosts[m].host
      BY <1>12, <2>4
    <3>. QED
      BY <1>2, <1>5, <3>1
  <2>. QED
    BY <2>1, <2>2, <2>3, <2>4 DEF HostsOf
<1>. QED
  BY <1>2, <1>13

\* A line adds its host, unless there is one, and its row.
LEMMA LineAdds ==
  ASSUME IInv, IInv', ReadLine, HostsOf(pos - 1)
  PROVE  HostsOf(pos - 1)'
<1>1. PICK place \in 1..(Len(hosts) + 1), g \in HostType :
         /\ Len(hosts') = IF place = Len(hosts) + 1 THEN Len(hosts) + 1 ELSE Len(hosts)
         /\ place \in 1..Len(hosts')
         /\ \A k \in 1..Len(hosts') : hosts'[k] = IF k = place THEN g ELSE hosts[k]
         /\ g.host = Line.host
         /\ IF place = Len(hosts) + 1
            THEN /\ g.rows = <<RowOf(Line)>>
                 /\ \A k \in 1..Len(hosts) : hosts[k].host # Line.host
            ELSE /\ g.rows = Append(hosts[place].rows, RowOf(Line))
                 /\ hosts[place].host = Line.host
  BY LineRead
<1>2. Len(hosts) \in Nat
  BY DEF IInv, TypeOK
<1>3. CASE place = Len(hosts) + 1
  <2>1. /\ \A k \in 1..Len(hosts) : hosts[k].host # Line.host
        /\ Len(hosts') = Len(hosts) + 1
        /\ \A k \in 1..Len(hosts) : hosts'[k] = hosts[k]
        /\ hosts'[Len(hosts) + 1] = g /\ g.host = Line.host /\ g.rows = <<RowOf(Line)>>
    BY <1>1, <1>2, <1>3
  <2>. QED
    BY <2>1, LineBeginsHost
<1>4. CASE place # Len(hosts) + 1
  <2>1. /\ place \in 1..Len(hosts) /\ Len(hosts') = Len(hosts)
        /\ \A k \in 1..Len(hosts) : k # place => hosts'[k] = hosts[k]
        /\ hosts'[place] = g /\ g.host = Line.host /\ hosts[place].host = Line.host
        /\ g.rows = Append(hosts[place].rows, RowOf(Line))
    BY <1>1, <1>2, <1>4
  <2>. QED
    BY <2>1, LineAddsRow
<1>. QED
  BY <1>3, <1>4

\* The first reader finds no host in such a file; the second keeps the hosts
\* of the lines it has read.
LEMMA TableStep == IInv /\ IInv' /\ Table /\ [Next]_vars => Table'
<1> SUFFICES ASSUME IInv, IInv', Table, [Next]_vars,
                    \A k \in 1..Len(file'.words) : file'.words[k].key # "host"
             PROVE  /\ reader' \in {"file", "lines", "done", "crashed"}
                    /\ reader' = "file" => hosts' = <<>>
                    /\ reader' = "lines" => /\ pos' \in 1..(Len(file'.lines) + 1)
                                            /\ HostsOf(pos - 1)'
                    /\ reader' = "done" => HostsOf(Len(file.lines))'
  BY DEF Table
<1>1. /\ UNCHANGED <<file, interval>> /\ file \in Files
      /\ Len(file.words) \in Nat /\ Len(file.lines) \in Nat /\ pos \in Nat \ {0}
  BY FilesAssumption DEF Next, SkipWord, HostBegins, TargetBegins, SetField, DividesByZero,
     RowEnds, HostEnds, FileEnds, ReadLine, LineDividesByZero, LinesEnd, Rest, vars, IInv, TypeOK
<1>2. /\ reader \in {"file", "lines", "done", "crashed"}
      /\ reader = "file" => hosts = <<>>
      /\ reader = "lines" => pos \in 1..(Len(file.lines) + 1) /\ HostsOf(pos - 1)
      /\ reader = "done" => HostsOf(Len(file.lines))
  BY <1>1 DEF Table
<1>3. OwnRows' = OwnRows
  BY <1>1 DEF OwnRows, RowOf
<1>4. ASSUME hosts' = hosts, pos' = pos
      PROVE  /\ HostsOf(pos - 1) => HostsOf(pos - 1)'
             /\ HostsOf(Len(file.lines)) => HostsOf(Len(file.lines))'
  <2>1. file' = file
    BY <1>1
  <2>2. ASSUME NEW n, HostsOf(n)
        PROVE  HostsOf(n)'
    <3>1. \A k \in 1..Len(hosts') : hosts'[k].rows = OwnRows'[n][hosts'[k].host]
      BY <1>3, <1>4, <2>2 DEF HostsOf
    <3>2. /\ \A k \in 1..Len(hosts') : \E l \in 1..n : file'.lines[l].host = hosts'[k].host
          /\ \A l \in 1..n : \E k \in 1..Len(hosts') : hosts'[k].host = file'.lines[l].host
      BY <1>4, <2>1, <2>2 DEF HostsOf
    <3>3. ASSUME NEW k \in 1..Len(hosts'), NEW m \in 1..Len(hosts'), k < m
          PROVE  \E l \in 1..n : /\ file'.lines[l].host = hosts'[k].host
                                 /\ \A x \in 1..l : file'.lines[x].host # hosts'[m].host
      <4>1. k \in 1..Len(hosts) /\ m \in 1..Len(hosts)
        BY <1>4
      <4>2. PICK l \in 1..n : /\ file.lines[l].host = hosts[k].host
                              /\ \A x \in 1..l : file.lines[x].host # hosts[m].host
        BY <2>2, <3>3, <4>1 DEF HostsOf
      <4>. QED
        BY <1>4, <2>1, <4>2
    <3>. QED
      BY <3>1, <3>2, <3>3 DEF HostsOf
  <2>. QED
    BY <1>4, <2>1, <2>2
<1>5. ~HostBegins
  BY <1>1 DEF HostBegins, Reads, AtEnd, Word
<1>6. CASE SkipWord
  BY <1>2, <1>6 DEF SkipWord, hostVars
<1>7. CASE FileEnds
  <2>1. reader' = "lines" /\ pos' = 1 /\ hosts' = <<>>
    BY <1>2, <1>7 DEF FileEnds, FallsBack, hostVars
  <2>2. HostsOf(pos - 1)'
    BY <2>1 DEF HostsOf
  <2>. QED
    BY <1>1, <2>1, <2>2
<1>8. CASE ReadLine
  <2>1. reader = "lines" /\ reader' = "lines" /\ pos' = pos + 1 /\ pos <= Len(file.lines)
    BY <1>8 DEF ReadLine, MoreLines
  <2>2. HostsOf(pos - 1)'
    BY <1>2, <1>8, <2>1, LineAdds
  <2>. QED
    BY <1>1, <2>1, <2>2
<1>9. CASE LineDividesByZero
  BY <1>9 DEF LineDividesByZero
<1>10. CASE LinesEnd
  <2>1. reader = "lines" /\ reader' = "done" /\ pos' = pos /\ hosts' = hosts
    BY <1>10 DEF LinesEnd, hostVars
  <2>2. pos - 1 = Len(file.lines)
    BY <1>1, <1>2, <1>10, <2>1 DEF LinesEnd, MoreLines
  <2>. QED
    BY <1>2, <1>4, <2>1, <2>2
<1>11. CASE UNCHANGED vars
  <2>1. hosts' = hosts /\ pos' = pos /\ reader' = reader
    BY <1>11 DEF vars, hostVars
  <2>. QED
    BY <1>1, <1>2, <1>4, <2>1
<1>. QED
  BY <1>2, <1>5, <1>6, <1>7, <1>8, <1>9, <1>10, <1>11
     DEF Next, TargetBegins, SetField, DividesByZero, RowEnds, HostEnds, Rest

\* A file of the table-like style is read as it means: one host for every name,
\* in the order of the first lines, with the rows of all its lines, wherever
\* those stand (rtgtargets.c:338-368).
THEOREM TableIsRead == Spec => []ReadsTable
<1>1. Init => Table
  BY DEF Init, Table
<1>2. IInv /\ IInv' /\ Table /\ [Next]_vars => Table'
  BY TableStep
<1>3. Table => ReadsTable
  BY DEF Table, ReadsTable
<1>. QED
  BY <1>1, <1>2, <1>3, Invariant, PTL DEF Spec

-----------------------------------------------------------------------------
(* Blocks of targets: the rows that are kept of a host's targets.          *)

\* No target is kept of none.
LEMMA NoneKept ==
  ASSUME NEW targets
  PROVE  Kept(<<>>, targets, 0)
<1>1. Len(<<>>) = 0 /\ 1..0 = {}
  OBVIOUS
<1>2. <<>> \in [1..0 -> 1..0]
  OBVIOUS
<1>. QED
  BY <1>1, <1>2 DEF Kept

\* One more target is left out if a row that is kept is the same.
LEMMA RepeatedIsLeft ==
  ASSUME NEW rows, Len(rows) \in Nat, NEW targets, NEW n \in Nat, Kept(rows, targets, n),
         \E i \in 1..Len(rows) : SameRow(rows[i], targets[n + 1])
  PROVE  Kept(rows, targets, n + 1)
<1>1. PICK kept \in [1..Len(rows) -> 1..n] :
        /\ \A i, j \in 1..Len(rows) : i < j => kept[i] < kept[j]
        /\ \A i \in 1..Len(rows) : rows[i] = targets[kept[i]]
        /\ \A k \in 1..n : (\E i \in 1..Len(rows) : kept[i] = k)
                           <=> \A i \in 1..Len(rows) : kept[i] < k => ~SameRow(rows[i], targets[k])
  BY DEF Kept
<1>2. kept \in [1..Len(rows) -> 1..(n + 1)] /\ \A i \in 1..Len(rows) : kept[i] \in 1..n
  <2>1. 1..n \subseteq 1..(n + 1) /\ \A i \in 1..Len(rows) : kept[i] \in 1..n
    OBVIOUS
  <2>. QED
    BY <2>1
<1>3. ASSUME NEW k \in 1..(n + 1)
      PROVE  (\E i \in 1..Len(rows) : kept[i] = k)
             <=> \A i \in 1..Len(rows) : kept[i] < k => ~SameRow(rows[i], targets[k])
  <2>1. CASE k \in 1..n
    BY <1>1, <2>1
  <2>2. CASE k = n + 1
    <3>1. \A i \in 1..Len(rows) : kept[i] < k /\ kept[i] # k
      BY <1>2, <2>2
    <3>. QED
      BY <2>2, <3>1
  <2>. QED
    BY <2>1, <2>2
<1>. QED
  BY <1>1, <1>2, <1>3 DEF Kept

\* It is kept if none is.
LEMMA NewIsKept ==
  ASSUME NEW S, NEW rows \in Seq(S), NEW targets, NEW n \in Nat, Kept(rows, targets, n),
         targets[n + 1] \in S,
         \A i \in 1..Len(rows) : ~SameRow(rows[i], targets[n + 1])
  PROVE  Kept(Append(rows, targets[n + 1]), targets, n + 1)
<1>1. PICK kept \in [1..Len(rows) -> 1..n] :
        /\ \A i, j \in 1..Len(rows) : i < j => kept[i] < kept[j]
        /\ \A i \in 1..Len(rows) : rows[i] = targets[kept[i]]
        /\ \A k \in 1..n : (\E i \in 1..Len(rows) : kept[i] = k)
                           <=> \A i \in 1..Len(rows) : kept[i] < k => ~SameRow(rows[i], targets[k])
  BY DEF Kept
<1> DEFINE more == Append(rows, targets[n + 1])
           keeps == [i \in 1..(Len(rows) + 1) |-> IF i = Len(rows) + 1 THEN n + 1 ELSE kept[i]]
<1>2. /\ Len(rows) \in Nat /\ Len(more) = Len(rows) + 1
      /\ more[Len(rows) + 1] = targets[n + 1]
      /\ \A i \in 1..Len(rows) : more[i] = rows[i]
  OBVIOUS
<1>3. /\ keeps[Len(rows) + 1] = n + 1
      /\ \A i \in 1..Len(rows) : keeps[i] = kept[i] /\ keeps[i] \in 1..n
  BY <1>2
<1>4. keeps \in [1..Len(more) -> 1..(n + 1)]
  BY <1>2
<1> HIDE DEF more, keeps
<1>5. \A i, j \in 1..Len(more) : i < j => keeps[i] < keeps[j]
  BY <1>1, <1>2, <1>3
<1>6. \A i \in 1..Len(more) : more[i] = targets[keeps[i]]
  BY <1>1, <1>2, <1>3
<1>7. ASSUME NEW k \in 1..(n + 1)
      PROVE  (\E i \in 1..Len(more) : keeps[i] = k)
             <=> \A i \in 1..Len(more) : keeps[i] < k => ~SameRow(more[i], targets[k])
  <2>1. CASE k \in 1..n
    <3>1. (\E i \in 1..Len(more) : keeps[i] = k) <=> \E i \in 1..Len(rows) : kept[i] = k
      BY <1>2, <1>3, <2>1
    <3>2. \A i \in 1..Len(more) : keeps[i] < k => i \in 1..Len(rows)
      BY <1>2, <1>3, <2>1
    <3>3. (\A i \in 1..Len(more) : keeps[i] < k => ~SameRow(more[i], targets[k]))
          <=> \A i \in 1..Len(rows) : kept[i] < k => ~SameRow(rows[i], targets[k])
      <4>1. \A i \in 1..Len(rows) : i \in 1..Len(more)
        BY <1>2
      <4>. QED
        BY <1>2, <1>3, <3>2, <4>1
    <3>. QED
      BY <1>1, <2>1, <3>1, <3>3
  <2>2. CASE k = n + 1
    <3>1. Len(rows) + 1 \in 1..Len(more) /\ keeps[Len(rows) + 1] = k
      BY <1>2, <1>3, <2>2
    <3>2. ASSUME NEW i \in 1..Len(more), keeps[i] < k
          PROVE  ~SameRow(more[i], targets[k])
      <4>1. i \in 1..Len(rows)
        BY <1>2, <1>3, <2>2, <3>2
      <4>. QED
        BY <1>2, <2>2, <4>1
    <3>. QED
      BY <3>1, <3>2
  <2>. QED
    BY <2>1, <2>2
<1>. QED
  BY <1>4, <1>5, <1>6, <1>7 DEF Kept, more

-----------------------------------------------------------------------------
(* What the words mean, one more at a time.                                *)

\* One more word with a key is the last of them; one without it adds none.
LEMMA HavingMore ==
  ASSUME NEW key, NEW from \in Nat, NEW to \in Nat, from <= to
  PROVE  /\ file.words[to].key = key => /\ Having(key, from, to) # {}
                                       /\ Max(Having(key, from, to)) = to
         /\ file.words[to].key # key => Having(key, from, to) = Having(key, from, to - 1)
<1>1. ASSUME file.words[to].key = key
      PROVE  Having(key, from, to) # {} /\ Max(Having(key, from, to)) = to
  <2>1. to \in Having(key, from, to) /\ \A k \in Having(key, from, to) : k \in Nat /\ k <= to
    BY <1>1 DEF Having
  <2>2. \A k \in Having(key, from, to) : k >= to => k = to
    BY <2>1
  <2>. QED
    BY <2>1, <2>2 DEF Max
<1>2. ASSUME file.words[to].key # key
      PROVE  Having(key, from, to) = Having(key, from, to - 1)
  <2>1. \A k : k \in from..to /\ k # to <=> k \in from..(to - 1)
    OBVIOUS
  <2>. QED
    BY <1>2, <2>1 DEF Having
<1>. QED
  BY <1>1, <1>2

\* So the value given for a setting is that of the next word, or what it was.
LEMMA GivenMore ==
  ASSUME NEW key, NEW from \in Nat, NEW to \in Nat, from <= to, NEW default
  PROVE  Given(key, from, to, default) =
           IF file.words[to].key = key THEN file.words[to].arg
           ELSE Given(key, from, to - 1, default)
BY HavingMore DEF Given

\* The speed is that of the last word speed, as the bits before it make it.
LEMMA SpeedMore ==
  ASSUME NEW from \in Nat, NEW to \in Nat, from <= to
  PROVE  SpeedGiven(from, to) =
           IF file.words[to].key # "speed" THEN SpeedGiven(from, to - 1)
           ELSE IF Given("bits", from, to - 1, 0) = 0 THEN file.words[to].arg
           ELSE file.words[to].arg \div interval
BY HavingMore DEF SpeedGiven

\* A target of which nothing has been read after its name is a new row.
LEMMA TargetBefore ==
  ASSUME NEW t, t.begins \in Nat
  PROVE  Target(t, t.begins) = queryrow_create(file.words[t.begins].arg)
<1>1. \A key : Having(key, t.begins + 1, t.begins) = {}
  BY DEF Having
<1>. QED
  BY <1>1 DEF Target, Given, SpeedGiven, queryrow_create

\* And every word changes what its key says.
LEMMA TargetMore ==
  ASSUME NEW t, t.begins \in Nat, NEW to \in Nat, t.begins < to
  PROVE  LET w == file.words[to]
             r == Target(t, to - 1)
         IN Target(t, to) =
              [oid |-> r.oid,
               table |-> IF w.key = "table" THEN w.arg ELSE r.table,
               id |-> IF w.key = "id" THEN w.arg ELSE r.id,
               bits |-> IF w.key = "bits" THEN w.arg ELSE r.bits,
               speed |-> IF w.key = "speed" THEN SpeedOf(r, w.arg) ELSE r.speed]
<1> DEFINE w == file.words[to]
           r == Target(t, to - 1)
<1>1. PICK from \in Nat : from = t.begins + 1
  OBVIOUS
<1>2. from <= to
  BY <1>1
<1>3. r = [oid |-> file.words[t.begins].arg, table |-> Given("table", from, to - 1, NoTable),
           id |-> Given("id", from, to - 1, 0), bits |-> Given("bits", from, to - 1, 0),
           speed |-> SpeedGiven(from, to - 1)]
  BY <1>1 DEF Target
<1>4. Target(t, to) =
        [oid |-> file.words[t.begins].arg, table |-> Given("table", from, to, NoTable),
         id |-> Given("id", from, to, 0), bits |-> Given("bits", from, to, 0),
         speed |-> SpeedGiven(from, to)]
  BY <1>1 DEF Target
<1>5. /\ Given("table", from, to, NoTable) = IF w.key = "table" THEN w.arg ELSE r.table
      /\ Given("id", from, to, 0) = IF w.key = "id" THEN w.arg ELSE r.id
      /\ Given("bits", from, to, 0) = IF w.key = "bits" THEN w.arg ELSE r.bits
  BY <1>2, <1>3, GivenMore
<1>6. SpeedGiven(from, to) = IF w.key = "speed" THEN SpeedOf(r, w.arg) ELSE r.speed
  <2>1. r.bits = Given("bits", from, to - 1, 0) /\ r.speed = SpeedGiven(from, to - 1)
    BY <1>3
  <2>2. SpeedGiven(from, to) =
           IF file.words[to].key # "speed" THEN SpeedGiven(from, to - 1)
           ELSE IF Given("bits", from, to - 1, 0) = 0 THEN file.words[to].arg
           ELSE file.words[to].arg \div interval
    BY <1>2, SpeedMore
  <2> HIDE DEF r
  <2>. QED
    BY <2>1, <2>2 DEF SpeedOf
<1>7. r.oid = file.words[t.begins].arg
  BY <1>3
<1>. QED
  BY <1>4, <1>5, <1>6, <1>7

-----------------------------------------------------------------------------
(* Parts in their order, and the gaps before, between and after them.      *)

Placed(parts) == \A k \in 1..Len(parts) : parts[k].begins \in Nat /\ parts[k].ends \in Nat

\* A gap begins after the part before it, or at the first word.
LEMMA GapBegins ==
  ASSUME NEW parts, Len(parts) \in Nat, Placed(parts), NEW first \in Nat,
         NEW k \in 1..(Len(parts) + 1)
  PROVE  After(parts, first, k) \in Nat
<1>1. CASE k = 1
  BY <1>1 DEF After
<1>2. CASE k # 1
  <2>1. k - 1 \in 1..Len(parts)
    BY <1>2
  <2>. QED
    BY <1>2, <2>1 DEF After, Placed
<1>. QED
  BY <1>1, <1>2

\* It ends before the next part, or at the last word.
GapEnd(words, parts, last, keyword, k) ==
  /\ Before(parts, last, k) \in Nat /\ Before(parts, last, k) <= last
  /\ \/ k = Len(parts) + 1 /\ Before(parts, last, k) = last
     \/ /\ k \in 1..Len(parts) /\ Before(parts, last, k) = parts[k].begins
        /\ Before(parts, last, k) # last
        /\ words[Before(parts, last, k)].key = keyword

LEMMA GapEnds ==
  ASSUME NEW words, NEW parts, Len(parts) \in Nat, Placed(parts),
         NEW first \in Nat, NEW last \in Nat, NEW keyword, NEW keys,
         Laid(words, parts, first, last, keyword, keys),
         NEW k \in 1..(Len(parts) + 1)
  PROVE  GapEnd(words, parts, last, keyword, k)
<1>1. CASE k = Len(parts) + 1
  BY <1>1 DEF Before, GapEnd
<1>2. CASE k # Len(parts) + 1
  <2>1. k \in 1..Len(parts) /\ Before(parts, last, k) = parts[k].begins
    BY <1>2 DEF Before
  <2>2. PICK begins \in Nat, ends \in Nat : begins = parts[k].begins /\ ends = parts[k].ends
    BY <2>1 DEF Placed
  <2>3. begins < ends /\ ends < last /\ words[begins].key = keyword
    BY <2>1, <2>2 DEF Laid
  <2>4. begins < last
    BY <2>2, <2>3
  <2>. QED
    BY <2>1, <2>2, <2>3, <2>4 DEF GapEnd
<1>. QED
  BY <1>1, <1>2

\* After a part the next gap begins.
LEMMA GapFollows ==
  ASSUME NEW words, NEW parts, Len(parts) \in Nat, Placed(parts),
         NEW first \in Nat, NEW last \in Nat, NEW keyword, NEW keys,
         Laid(words, parts, first, last, keyword, keys),
         NEW k \in 1..(Len(parts) + 1), NEW p \in Nat, p = After(parts, first, k)
  PROVE  p < p + 1 /\ p + 1 <= Before(parts, last, k)
<1>1. PICK b \in Nat : b = Before(parts, last, k)
  <2>1. GapEnd(words, parts, last, keyword, k)
    BY GapEnds, Zenon
  <2>. QED
    BY <2>1 DEF GapEnd
<1>2. p < b
  BY <1>1 DEF Laid
<1>. QED
  BY <1>1, <1>2

\* A word in a gap is its end, after the last part, or the keyword of the next
\* part, or else no keyword, and the word after it is in the gap too.
WordOfGap(words, parts, first, last, keyword, keys, k, p) ==
  /\ p <= last
  /\ \/ k = Len(parts) + 1 /\ p = last
     \/ k \in 1..Len(parts) /\ p = parts[k].begins /\ p # last /\ words[p].key = keyword
     \/ /\ words[p].key \notin keys /\ p # last
        /\ After(parts, first, k) < p + 1 /\ p + 1 <= Before(parts, last, k)

LEMMA InGap ==
  ASSUME NEW words, NEW parts, Len(parts) \in Nat, Placed(parts),
         NEW first \in Nat, NEW last \in Nat, NEW keyword, NEW keys,
         Laid(words, parts, first, last, keyword, keys),
         NEW k \in 1..(Len(parts) + 1), NEW p \in Nat,
         After(parts, first, k) < p, p <= Before(parts, last, k)
  PROVE  WordOfGap(words, parts, first, last, keyword, keys, k, p)
<1>1. GapEnd(words, parts, last, keyword, k)
  BY GapEnds, Zenon
<1>2. PICK a \in Nat, b \in Nat : a = After(parts, first, k) /\ b = Before(parts, last, k)
  BY <1>1, GapBegins DEF GapEnd
<1>3. \A m \in (a + 1)..(b - 1) : words[m].key \notin keys
  BY <1>2 DEF Laid
<1>4. a < p /\ p <= b
  BY <1>2
<1>5. p # b => p \in (a + 1)..(b - 1) /\ a < p + 1 /\ p + 1 <= b
  BY <1>4
<1>6. /\ b <= last
      /\ \/ k = Len(parts) + 1 /\ b = last
         \/ k \in 1..Len(parts) /\ b = parts[k].begins /\ b # last /\ words[b].key = keyword
  BY <1>1, <1>2 DEF GapEnd
<1>7. p # b => p # last /\ words[p].key \notin keys
  BY <1>3, <1>4, <1>5, <1>6
<1>8. p <= last
  BY <1>4, <1>6
<1>. QED
  BY <1>2, <1>5, <1>6, <1>7, <1>8 DEF WordOfGap
-----------------------------------------------------------------------------
(* Where the reader is in a well-formed file, and what it has read.        *)

\* Between two blocks, before the next one's keyword.
InFile == reader = "file" =>
  \E n \in 1..(Len(file.blocks) + 1) :
    /\ Len(hosts) = n - 1
    /\ After(file.blocks, 0, n) < pos
    /\ pos <= Before(file.blocks, Len(file.words) + 1, n)

\* In a block, after so many of its targets.
InHost == reader = "host" =>
  \E n \in 1..Len(file.blocks) : \E j \in 1..(Len(file.blocks[n].targets) + 1) :
    LET block == file.blocks[n]
    IN /\ Len(hosts) = n - 1
       /\ host.host = file.words[block.begins].arg
       /\ Kept(host.rows, TargetsOf(block), j - 1)
       /\ After(block.targets, block.begins, j) < pos
       /\ pos <= Before(block.targets, block.ends, j)

\* In a target, with the row that its words so far mean.
InRow == reader = "row" =>
  \E n \in 1..Len(file.blocks) : \E j \in 1..Len(file.blocks[n].targets) :
    LET block == file.blocks[n]
        t == block.targets[j]
    IN /\ Len(hosts) = n - 1
       /\ host.host = file.words[block.begins].arg
       /\ Kept(host.rows, TargetsOf(block), j - 1)
       /\ t.begins < pos /\ pos <= t.ends
       /\ row = Target(t, pos - 1)

HostsRead == \A n \in 1..Len(hosts) : HostOf(hosts[n], file.blocks[n])

Parsed == Grouped => /\ reader \in {"file", "host", "row", "done"}
                     /\ HostsRead
                     /\ InFile /\ InHost /\ InRow
                     /\ reader = "done" => Len(hosts) = Len(file.blocks)

\* The places of a well-formed file.
LEMMA PlacesOfBlock ==
  ASSUME IInv, Grouped, NEW n \in 1..Len(file.blocks)
  PROVE  LET block == file.blocks[n]
         IN /\ Len(file.blocks) \in Nat /\ Len(file.words) \in Nat
            /\ block.begins \in Nat /\ block.ends \in Nat
            /\ block.targets \in Seq(Places) /\ Len(block.targets) \in Nat
            /\ 0 < block.begins /\ block.begins < block.ends /\ block.ends < Len(file.words) + 1
            /\ file.words[block.begins].key = "host"
            /\ Laid(file.words, block.targets, block.begins, block.ends, "target", {"target", "}"})
            /\ file.words[block.ends].key = "}"
            /\ \A k \in 1..Len(block.targets) :
                 \A m \in (block.targets[k].begins + 1)..(block.targets[k].ends - 1) :
                   file.words[m].key # "}"
<1> DEFINE block == file.blocks[n]
<1>1. /\ file \in Files /\ file.blocks \in Seq(Blocks) /\ Len(file.words) \in Nat
      /\ file.blocks # <<>>
  BY FilesAssumption DEF IInv, TypeOK, Grouped
<1>2. block \in Blocks /\ Len(file.blocks) \in Nat
  BY <1>1
<1>3. /\ block.begins \in Nat /\ block.ends \in Nat
      /\ block.targets \in Seq(Places) /\ Len(block.targets) \in Nat
  <2> HIDE DEF block
  <2>. QED
    BY <1>2 DEF Blocks
<1>4. Laid(file.words, file.blocks, 0, Len(file.words) + 1, "host", {"host"})
  BY <1>1, BlocksAssumption
<1>5. /\ 0 < block.begins /\ block.begins < block.ends /\ block.ends < Len(file.words) + 1
      /\ file.words[block.begins].key = "host" /\ file.words[block.ends].key = "}"
  BY <1>4 DEF Laid
<1>6. /\ Laid(file.words, block.targets, block.begins, block.ends, "target", {"target", "}"})
      /\ \A k \in 1..Len(block.targets) :
           \A m \in (block.targets[k].begins + 1)..(block.targets[k].ends - 1) :
             file.words[m].key # "}"
  BY <1>1, BlocksAssumption
<1>. QED
  BY <1>1, <1>2, <1>3, <1>5, <1>6

\* Those of a target.
LEMMA PlacesOfTarget ==
  ASSUME IInv, Grouped, NEW n \in 1..Len(file.blocks),
         NEW j \in 1..Len(file.blocks[n].targets)
  PROVE  LET block == file.blocks[n]
             t == block.targets[j]
         IN /\ t.begins \in Nat /\ t.ends \in Nat
            /\ block.begins < t.begins /\ t.begins < t.ends /\ t.ends < block.ends
            /\ file.words[t.begins].key = "target" /\ file.words[t.ends].key = "}"
            /\ \A m \in (t.begins + 1)..(t.ends - 1) : file.words[m].key # "}"
            /\ TargetsOf(block)[j] = Target(t, t.ends - 1)
            /\ HasTable(t)
<1> DEFINE block == file.blocks[n]
           t == block.targets[j]
<1>1. /\ block.targets \in Seq(Places)
      /\ Laid(file.words, block.targets, block.begins, block.ends, "target", {"target", "}"})
      /\ \A m \in (t.begins + 1)..(t.ends - 1) : file.words[m].key # "}"
  BY PlacesOfBlock
<1>2. t.begins \in Nat /\ t.ends \in Nat
  <2>1. j \in 1..Len(block.targets) /\ block.targets \in Seq(Places)
    BY <1>1
  <2> HIDE DEF block
  <2>2. t \in Places
    BY <2>1
  <2> HIDE DEF t
  <2>. QED
    BY <2>2 DEF Places
<1>3. /\ block.begins < t.begins /\ t.begins < t.ends /\ t.ends < block.ends
      /\ file.words[t.begins].key = "target" /\ file.words[t.ends].key = "}"
  BY <1>1 DEF Laid
<1>4. TargetsOf(block)[j] = Target(t, t.ends - 1) /\ HasTable(t)
  BY DEF TargetsOf, Grouped
<1>. QED
  BY <1>1, <1>2, <1>3, <1>4

\* A set of places with an element has a last one.
LEMMA LastPlace ==
  ASSUME NEW to \in Nat, NEW S, S \subseteq 0..to, S # {}
  PROVE  Max(S) \in S
<1> DEFINE D == {d \in 0..to : to - d \in S}
<1>1. D \subseteq Nat /\ D # {}
  <2>1. PICK x \in S : x \in 0..to
    OBVIOUS
  <2>2. to - x \in 0..to /\ to - (to - x) = x
    BY <2>1
  <2>3. to - x \in D /\ D \subseteq Nat
    BY <2>1, <2>2
  <2> HIDE DEF D
  <2>. QED
    BY <2>3
<1>2. PICK d \in D : \A e \in D : d <= e
  <2> HIDE DEF D
  <2>. QED
    BY <1>1, LeastElement
<1>3. to - d \in S /\ d \in 0..to
  BY <1>2
<1>4. ASSUME NEW y \in S
      PROVE  to - d >= y
  <2>1. y \in 0..to /\ to - y \in 0..to /\ to - (to - y) = y
    OBVIOUS
  <2>2. to - y \in D
    BY <2>1
  <2>. QED
    BY <1>2, <1>3, <2>1, <2>2
<1>. QED
  BY <1>3, <1>4 DEF Max

\* Every target has a table, so check_for_duplicate has one to compare.
LEMMA TableOfTarget ==
  ASSUME IInv, Grouped, NEW n \in 1..Len(file.blocks),
         NEW j \in 1..Len(file.blocks[n].targets)
  PROVE  TargetsOf(file.blocks[n])[j].table # NoTable
<1> DEFINE block == file.blocks[n]
           t == block.targets[j]
           S == Having("table", t.begins + 1, t.ends - 1)
<1>1. /\ t.begins \in Nat /\ t.ends \in Nat /\ t.ends < Len(file.words) + 1
      /\ TargetsOf(block)[j] = Target(t, t.ends - 1) /\ HasTable(t) /\ Len(file.words) \in Nat
      /\ t.begins < t.ends
  <2>1. Len(file.words) \in Nat /\ block.ends < Len(file.words) + 1 /\ block.ends \in Nat
    BY PlacesOfBlock
  <2>2. /\ t.begins \in Nat /\ t.ends \in Nat /\ t.ends < block.ends
        /\ TargetsOf(block)[j] = Target(t, t.ends - 1) /\ HasTable(t)
        /\ t.begins < t.ends
    BY PlacesOfTarget
  <2>. QED
    BY <2>1, <2>2
<1> HIDE DEF t
<1>2. /\ S # {} /\ S \subseteq 0..Len(file.words)
      /\ \A k \in S : k \in 1..Len(file.words) /\ file.words[k].key = "table"
  <2>1. S # {}
    BY <1>1 DEF HasTable
  <2>2. PICK from \in Nat : from = t.begins + 1
    BY <1>1
  <2>3. PICK to \in Nat : to = t.ends - 1
    BY <1>1
  <2>4. S = Having("table", from, to) /\ 0 < from /\ to <= Len(file.words)
    BY <1>1, <2>2, <2>3
  <2> HIDE DEF S
  <2>5. \A k \in S : k \in from..to /\ file.words[k].key = "table"
    BY <2>4 DEF Having
  <2>6. \A k \in from..to : k \in 1..Len(file.words) /\ k \in 0..Len(file.words)
    BY <1>1, <2>4
  <2>. QED
    BY <2>1, <2>5, <2>6
<1>3. Max(S) \in S
  <2> HIDE DEF S
  <2>. QED
    BY <1>1, <1>2, LastPlace
<1>4. file.words[Max(S)].arg \in Texts
  BY <1>2, <1>3, FilesAssumption DEF IInv, TypeOK
<1>5. TargetsOf(block)[j].table = file.words[Max(S)].arg
  BY <1>1, <1>2 DEF Target, Given
<1>. QED
  BY <1>4, <1>5, FilesAssumption DEF t

\* Nor is there a row without a table among those that are kept.
LEMMA TablesOfKept ==
  ASSUME IInv, Grouped, NEW n \in 1..Len(file.blocks),
         NEW j \in 1..Len(file.blocks[n].targets), NEW rows,
         Kept(rows, TargetsOf(file.blocks[n]), j - 1)
  PROVE  \A i \in 1..Len(rows) : rows[i].table # NoTable
<1>1. Len(file.blocks[n].targets) \in Nat
  BY PlacesOfBlock
<1>2. PICK kept \in [1..Len(rows) -> 1..(j - 1)] :
        \A i \in 1..Len(rows) : rows[i] = TargetsOf(file.blocks[n])[kept[i]]
  BY DEF Kept
<1>3. \A i \in 1..Len(rows) : kept[i] \in 1..Len(file.blocks[n].targets)
  BY <1>1, <1>2
<1>. QED
  BY <1>2, <1>3, TableOfTarget

\* What the file means does not change.
LEMMA SameMeaning ==
  ASSUME UNCHANGED <<file, interval>>
  PROVE  /\ Grouped' <=> Grouped
         /\ \A t, to : Target(t, to)' = Target(t, to)
         /\ \A block : TargetsOf(block)' = TargetsOf(block)
         /\ \A h, block : HostOf(h, block)' <=> HostOf(h, block)
         /\ \A rows, targets, n : Kept(rows, targets, n)' <=> Kept(rows, targets, n)
<1>1. Grouped' <=> Grouped
  BY DEF Grouped, HasTable, Having
<1>2. \A t, to : Target(t, to)' = Target(t, to)
  BY DEF Target, Given, SpeedGiven, Having
<1>3. \A block : TargetsOf(block)' = TargetsOf(block)
  BY <1>2 DEF TargetsOf
<1>4. \A rows, targets, n : Kept(rows, targets, n)' <=> Kept(rows, targets, n)
  OBVIOUS
<1>5. \A h, block : HostOf(h, block)' <=> HostOf(h, block)
  BY <1>3, <1>4 DEF HostOf
<1>. QED
  BY <1>1, <1>2, <1>3, <1>4, <1>5

\* From between the blocks into the next one.
LEMMA IntoHost ==
  ASSUME IInv, Grouped, UNCHANGED <<file, interval>>, reader' = "host",
         NEW n \in 1..Len(file.blocks), NEW j \in 1..(Len(file.blocks[n].targets) + 1),
         Len(hosts') = n - 1,
         host'.host = file.words[file.blocks[n].begins].arg,
         Kept(host'.rows, TargetsOf(file.blocks[n]), j - 1),
         After(file.blocks[n].targets, file.blocks[n].begins, j) < pos',
         pos' <= Before(file.blocks[n].targets, file.blocks[n].ends, j)
  PROVE  InFile' /\ InHost' /\ InRow'
<1>1. InFile' /\ InRow'
  BY DEF InFile, InRow
<1>2. InHost'
  BY SameMeaning DEF InHost
<1>. QED
  BY <1>1, <1>2

\* Into a target, or one word further in it.
LEMMA IntoRow ==
  ASSUME IInv, Grouped, UNCHANGED <<file, interval>>, reader' = "row",
         NEW n \in 1..Len(file.blocks), NEW j \in 1..Len(file.blocks[n].targets),
         Len(hosts') = n - 1,
         host'.host = file.words[file.blocks[n].begins].arg,
         Kept(host'.rows, TargetsOf(file.blocks[n]), j - 1),
         file.blocks[n].targets[j].begins < pos', pos' <= file.blocks[n].targets[j].ends,
         row' = Target(file.blocks[n].targets[j], pos' - 1)
  PROVE  InFile' /\ InHost' /\ InRow'
<1>1. InFile' /\ InHost'
  BY DEF InFile, InHost
<1>2. InRow'
  BY SameMeaning DEF InRow
<1>. QED
  BY <1>1, <1>2

\* Out of a block or past a word between two.
LEMMA IntoFile ==
  ASSUME IInv, Grouped, UNCHANGED <<file, interval>>, reader' = "file",
         NEW n \in 1..(Len(file.blocks) + 1), Len(hosts') = n - 1,
         After(file.blocks, 0, n) < pos',
         pos' <= Before(file.blocks, Len(file.words) + 1, n)
  PROVE  InFile' /\ InHost' /\ InRow'
<1>1. InHost' /\ InRow'
  BY DEF InHost, InRow
<1>2. InFile'
  BY DEF InFile, After, Before
<1>. QED
  BY <1>1, <1>2

\* The gaps between the blocks.
LEMMA GapsOfFile ==
  ASSUME IInv, Grouped
  PROVE  /\ Len(file.blocks) \in Nat /\ Len(file.blocks) > 0 /\ Placed(file.blocks)
         /\ Len(file.words) + 1 \in Nat
         /\ Laid(file.words, file.blocks, 0, Len(file.words) + 1, "host", {"host"})
<1>1. /\ file.blocks \in Seq(Blocks) /\ file.blocks # <<>> /\ Len(file.words) \in Nat
      /\ Laid(file.words, file.blocks, 0, Len(file.words) + 1, "host", {"host"})
  BY FilesAssumption, BlocksAssumption DEF IInv, TypeOK, Grouped
<1>2. Placed(file.blocks)
  BY PlacesOfBlock DEF Placed
<1>. QED
  BY <1>1, <1>2

\* The gaps between the targets of a block.
LEMMA GapsOfBlock ==
  ASSUME IInv, Grouped, NEW n \in 1..Len(file.blocks)
  PROVE  LET block == file.blocks[n]
         IN /\ Len(block.targets) \in Nat /\ Placed(block.targets)
            /\ block.begins \in Nat /\ block.ends \in Nat
            /\ Laid(file.words, block.targets, block.begins, block.ends, "target", {"target", "}"})
BY PlacesOfBlock, PlacesOfTarget DEF Placed

\* A step between two blocks skips a word, begins the next block or ends the
\* file, after the last one.
LEMMA FileStep ==
  ASSUME IInv, Grouped, HostsRead, InFile, reader = "file",
         SkipWord \/ HostBegins \/ FileEnds
  PROVE  /\ reader' \in {"file", "host", "done"}
         /\ HostsRead'
         /\ InFile' /\ InHost' /\ InRow'
         /\ reader' = "done" => Len(hosts') = Len(file.blocks)
<1>1. PICK n \in 1..(Len(file.blocks) + 1) :
        /\ Len(hosts) = n - 1
        /\ After(file.blocks, 0, n) < pos
        /\ pos <= Before(file.blocks, Len(file.words) + 1, n)
  BY DEF InFile
<1>2. PICK last \in Nat : last = Len(file.words) + 1
  BY GapsOfFile
<1>3. /\ Len(file.blocks) \in Nat /\ Placed(file.blocks)
      /\ Laid(file.words, file.blocks, 0, last, "host", {"host"})
      /\ After(file.blocks, 0, n) < pos /\ pos <= Before(file.blocks, last, n)
      /\ pos \in Nat /\ 0 \in Nat
  BY <1>1, <1>2, GapsOfFile DEF IInv, TypeOK
<1>4. /\ pos <= last
      /\ \/ n = Len(file.blocks) + 1 /\ pos = last
         \/ /\ n \in 1..Len(file.blocks) /\ pos = file.blocks[n].begins
            /\ pos # last /\ file.words[pos].key = "host"
         \/ /\ file.words[pos].key \notin {"host"} /\ pos # last
            /\ After(file.blocks, 0, n) < pos + 1 /\ pos + 1 <= Before(file.blocks, last, n)
  <2>1. WordOfGap(file.words, file.blocks, 0, last, "host", {"host"}, n, pos)
    BY <1>3, InGap, Zenon
  <2>. QED
    BY <2>1 DEF WordOfGap
<1>5. AtEnd <=> pos = last
  BY <1>2, <1>3, <1>4, GapsOfFile DEF AtEnd
<1>6. UNCHANGED <<file, interval, hosts>> /\ HostsRead'
  <2>1. UNCHANGED <<file, interval, hosts>>
    BY DEF SkipWord, HostBegins, FileEnds, hostVars
  <2>. QED
    BY <2>1, SameMeaning DEF HostsRead
<1>7. CASE SkipWord
  <2>1. Word.key # "host" /\ pos' = pos + 1 /\ reader' = "file" /\ ~AtEnd
    BY <1>7 DEF SkipWord, Consume
  <2>2. After(file.blocks, 0, n) < pos' /\ pos' <= Before(file.blocks, last, n)
    BY <1>4, <1>5, <2>1 DEF Word
  <2>. QED
    BY <1>1, <1>2, <1>6, <2>1, <2>2, IntoFile
<1>8. CASE HostBegins
  <2>1. /\ Word.key = "host" /\ pos' = pos + 1 /\ reader' = "host" /\ ~AtEnd
        /\ host' = queryhost_create(Word.arg)
    BY <1>8 DEF HostBegins, Reads, Consume
  <2> DEFINE block == file.blocks[n]
             targets == block.targets
  <2>2. n \in 1..Len(file.blocks) /\ pos = block.begins
    BY <1>4, <1>5, <2>1 DEF Word
  <2>3. /\ host'.host = file.words[block.begins].arg
        /\ Kept(host'.rows, TargetsOf(block), 1 - 1)
    BY <2>1, <2>2, NoneKept DEF queryhost_create, Word
  <2>4. /\ Len(targets) \in Nat /\ Placed(targets)
        /\ block.begins \in Nat /\ block.ends \in Nat
        /\ Laid(file.words, targets, block.begins, block.ends, "target", {"target", "}"})
    BY <2>2, GapsOfBlock
  <2>5. 1 \in 1..(Len(targets) + 1)
    <3>1. PICK m \in Nat : m = Len(targets)
      BY <2>4
    <3>. QED
      BY <3>1
  <2>6. After(targets, block.begins, 1) = block.begins
    BY DEF After
  <2>7. /\ After(targets, block.begins, 1) < pos'
        /\ pos' <= Before(targets, block.ends, 1)
    BY <2>1, <2>2, <2>4, <2>5, <2>6, GapFollows
  <2>. QED
    BY <1>1, <1>6, <2>1, <2>2, <2>3, <2>5, <2>7, IntoHost
<1>9. CASE FileEnds
  <2>1. n = Len(file.blocks) + 1
    BY <1>4, <1>5, <1>9 DEF FileEnds
  <2>2. Len(hosts) = Len(file.blocks) /\ hosts # <<>>
    BY <1>1, <2>1, GapsOfFile
  <2>3. reader' = "done"
    BY <1>9, <2>2 DEF FileEnds, FallsBack
  <2>. QED
    BY <1>6, <2>2, <2>3 DEF InFile, InHost, InRow
<1>. QED
  BY <1>7, <1>8, <1>9

\* A step in a block skips a word, begins the next target or ends the block,
\* after the last one.
LEMMA HostStep ==
  ASSUME IInv, Grouped, HostsRead, InHost, reader = "host",
         SkipWord \/ TargetBegins \/ HostEnds
  PROVE  /\ reader' \in {"file", "host", "row"}
         /\ HostsRead'
         /\ InFile' /\ InHost' /\ InRow'
<1>1. PICK n \in 1..Len(file.blocks) : \E j \in 1..(Len(file.blocks[n].targets) + 1) :
        LET block == file.blocks[n]
        IN /\ Len(hosts) = n - 1
           /\ host.host = file.words[block.begins].arg
           /\ Kept(host.rows, TargetsOf(block), j - 1)
           /\ After(block.targets, block.begins, j) < pos
           /\ pos <= Before(block.targets, block.ends, j)
  BY DEF InHost
<1>2. PICK block : block = file.blocks[n]
  OBVIOUS
<1>3. PICK targets : targets = block.targets
  OBVIOUS
<1>4. PICK j \in 1..(Len(targets) + 1) :
        /\ Len(hosts) = n - 1
        /\ host.host = file.words[block.begins].arg
        /\ Kept(host.rows, TargetsOf(block), j - 1)
        /\ After(targets, block.begins, j) < pos
        /\ pos <= Before(targets, block.ends, j)
  BY <1>1, <1>2, <1>3
<1>5. /\ Len(targets) \in Nat /\ Placed(targets)
      /\ block.begins \in Nat /\ block.ends \in Nat
      /\ Laid(file.words, targets, block.begins, block.ends, "target", {"target", "}"})
  BY <1>2, <1>3, GapsOfBlock
<1>6. pos \in Nat
  BY DEF IInv, TypeOK
<1>7. /\ pos <= block.ends
      /\ \/ j = Len(targets) + 1 /\ pos = block.ends
         \/ /\ j \in 1..Len(targets) /\ pos = targets[j].begins
            /\ pos # block.ends /\ file.words[pos].key = "target"
         \/ /\ file.words[pos].key \notin {"target", "}"} /\ pos # block.ends
            /\ After(targets, block.begins, j) < pos + 1
            /\ pos + 1 <= Before(targets, block.ends, j)
  <2>1. WordOfGap(file.words, targets, block.begins, block.ends, "target", {"target", "}"}, j, pos)
    BY <1>4, <1>5, <1>6, InGap, Zenon
  <2>. QED
    BY <2>1 DEF WordOfGap
<1>8. /\ ~AtEnd
      /\ file.words[block.ends].key = "}"
      /\ Len(file.blocks) \in Nat
  <2>1. /\ block.ends < Len(file.words) + 1 /\ file.words[block.ends].key = "}"
        /\ Len(file.words) \in Nat /\ Len(file.blocks) \in Nat
    BY <1>2, PlacesOfBlock
  <2>2. pos <= block.ends /\ block.ends \in Nat
    BY <1>5, <1>7
  <2>3. PICK ends \in Nat, length \in Nat : ends = block.ends /\ length = Len(file.words)
    BY <2>1, <2>2
  <2>4. pos <= ends /\ ends < length + 1
    BY <2>1, <2>2, <2>3
  <2>5. ~(pos > length)
    BY <1>6, <2>4
  <2>. QED
    BY <2>1, <2>3, <2>5 DEF AtEnd
<1>9. CASE SkipWord
  <2>1. /\ Word.key \notin {"target", "}"} /\ pos' = pos + 1 /\ reader' = "host"
        /\ hosts' = hosts /\ host' = host /\ UNCHANGED <<file, interval>>
    BY <1>8, <1>9 DEF SkipWord, Consume, hostVars
  <2>2. After(targets, block.begins, j) < pos' /\ pos' <= Before(targets, block.ends, j)
    BY <1>7, <1>8, <2>1 DEF Word
  <2>3. InFile' /\ InHost' /\ InRow'
    BY <1>2, <1>3, <1>4, <2>1, <2>2, IntoHost
  <2>4. HostsRead'
    BY <2>1, SameMeaning DEF HostsRead
  <2>. QED
    BY <2>1, <2>3, <2>4
<1>10. CASE TargetBegins
  <2>1. /\ Word.key = "target" /\ pos' = pos + 1 /\ reader' = "row" /\ hosts' = hosts
        /\ host' = host /\ row' = queryrow_create(Word.arg) /\ UNCHANGED <<file, interval>>
    BY <1>8, <1>10 DEF TargetBegins, Reads, Consume, hostVars
  <2>2. j \in 1..Len(targets) /\ pos = targets[j].begins
    BY <1>7, <1>8, <2>1 DEF Word
  <2>3. PICK t : t = targets[j]
    OBVIOUS
  <2>4. t.begins \in Nat /\ t.ends \in Nat /\ t.begins < t.ends
    BY <1>2, <1>3, <2>2, <2>3, PlacesOfTarget
  <2>5. row' = Target(t, t.begins)
    BY <2>1, <2>2, <2>3, <2>4, TargetBefore DEF Word
  <2>6. pos' - 1 = t.begins /\ t.begins < pos' /\ pos' <= t.ends
    BY <2>1, <2>2, <2>3, <2>4
  <2>7. InFile' /\ InHost' /\ InRow'
    BY <1>2, <1>3, <1>4, <2>1, <2>2, <2>3, <2>5, <2>6, IntoRow
  <2>8. HostsRead'
    BY <2>1, SameMeaning DEF HostsRead
  <2>. QED
    BY <2>1, <2>7, <2>8
<1>11. CASE HostEnds
  <2>1. /\ Word.key = "}" /\ pos' = pos + 1 /\ reader' = "file" /\ hosts' = Append(hosts, host)
        /\ UNCHANGED <<file, interval>>
    BY <1>8, <1>11 DEF HostEnds, Reads, Consume, rtgtargets_push_host
  <2>2. j = Len(targets) + 1 /\ pos = block.ends
    BY <1>7, <2>1 DEF Word
  <2>3. HostOf(host, block)
    <3>1. j - 1 = Len(targets)
      <4>1. Len(targets) \in Nat
        BY <1>5
      <4>. QED
        BY <2>2, <4>1
    <3>. QED
      BY <1>3, <1>4, <3>1 DEF HostOf
  <2>4. Len(hosts') = n /\ \A k \in 1..n : hosts'[k] = IF k = n THEN host ELSE hosts[k]
    <3>1. n \in Nat /\ Len(hosts) = n - 1
      <4>1. Len(file.blocks) \in Nat
        BY <1>8
      <4>2. n \in Nat
        BY <4>1
      <4>3. Len(hosts) = n - 1
        BY <1>4
      <4>. QED
        BY <4>2, <4>3
    <3>2. hosts \in Seq(HostType)
      BY DEF IInv, TypeOK
    <3>3. hosts' = Append(hosts, host)
      BY <2>1
    <3>4. /\ Len(hosts') = Len(hosts) + 1
          /\ \A k \in 1..(Len(hosts) + 1) :
               hosts'[k] = IF k = Len(hosts) + 1 THEN host ELSE hosts[k]
      BY <3>2, <3>3
    <3>5. Len(hosts) + 1 = n
      BY <3>1
    <3>. QED
      BY <3>4, <3>5
  <2>5. HostsRead'
    <3>1. ASSUME NEW k \in 1..n
          PROVE  HostOf(hosts'[k], file.blocks[k])
      <4>1. CASE k = n
        BY <1>2, <2>3, <2>4, <4>1
      <4>2. CASE k # n
        <5>1. k \in 1..Len(hosts) /\ hosts'[k] = hosts[k]
          BY <1>4, <2>4, <4>2
        <5>. QED
          BY <5>1 DEF HostsRead
      <4>. QED
        BY <4>1, <4>2
    <3>. QED
      BY <2>1, <2>4, <3>1, SameMeaning DEF HostsRead
  <2>6. n + 1 \in 1..(Len(file.blocks) + 1) /\ Len(hosts') = (n + 1) - 1
    <3>1. Len(file.blocks) \in Nat /\ Len(hosts') = n
      BY <1>8, <2>4
    <3>. QED
      BY <3>1
  <2>7. /\ After(file.blocks, 0, n + 1) < pos'
        /\ pos' <= Before(file.blocks, Len(file.words) + 1, n + 1)
    <3>1. After(file.blocks, 0, n + 1) = block.ends
      BY <1>2 DEF After
    <3>2. 0 \in Nat /\ pos = After(file.blocks, 0, n + 1)
      BY <2>2, <3>1
    <3>3. pos < pos + 1 /\ pos + 1 <= Before(file.blocks, Len(file.words) + 1, n + 1)
      BY <1>6, <2>6, <3>2, GapsOfFile, GapFollows, Zenon
    <3>. QED
      BY <2>1, <3>2, <3>3
  <2>8. InFile' /\ InHost' /\ InRow'
    BY <2>1, <2>6, <2>7, IntoFile
  <2>. QED
    BY <2>1, <2>5, <2>8
<1>. QED
  BY <1>9, <1>10, <1>11

\* A step in a target reads a word, which does to the row what it means, or
\* ends the target: the row is kept unless it repeats one that was.
LEMMA RowStep ==
  ASSUME IInv, Grouped, HostsRead, InRow, reader = "row",
         SkipWord \/ SetField \/ DividesByZero \/ RowEnds
  PROVE  /\ reader' \in {"host", "row"}
         /\ HostsRead'
         /\ InFile' /\ InHost' /\ InRow'
<1>1. PICK n \in 1..Len(file.blocks) : \E j \in 1..Len(file.blocks[n].targets) :
        LET block == file.blocks[n]
            t == block.targets[j]
        IN /\ Len(hosts) = n - 1
           /\ host.host = file.words[block.begins].arg
           /\ Kept(host.rows, TargetsOf(block), j - 1)
           /\ t.begins < pos /\ pos <= t.ends
           /\ row = Target(t, pos - 1)
  BY DEF InRow
<1>2. PICK block : block = file.blocks[n]
  OBVIOUS
<1>3. PICK targets : targets = block.targets
  OBVIOUS
<1>4. PICK j, t :
        /\ j \in 1..Len(targets) /\ t = targets[j]
        /\ Len(hosts) = n - 1
        /\ host.host = file.words[block.begins].arg
        /\ Kept(host.rows, TargetsOf(block), j - 1)
        /\ t.begins < pos /\ pos <= t.ends
        /\ row = Target(t, pos - 1)
  BY <1>1, <1>2, <1>3
<1>5. t.begins \in Nat /\ t.ends \in Nat
  BY <1>2, <1>3, <1>4, PlacesOfTarget
<1>6. /\ t.begins < t.ends /\ t.ends < block.ends
      /\ file.words[t.ends].key = "}"
      /\ \A m \in (t.begins + 1)..(t.ends - 1) : file.words[m].key # "}"
      /\ TargetsOf(block)[j] = Target(t, t.ends - 1)
  BY <1>2, <1>3, <1>4, PlacesOfTarget
<1>7. pos \in Nat
  BY DEF IInv, TypeOK
<1>8. ~AtEnd
  <2>1. block.ends \in Nat /\ block.ends < Len(file.words) + 1 /\ Len(file.words) \in Nat
    BY <1>2, PlacesOfBlock
  <2>2. PICK ends \in Nat, last \in Nat, length \in Nat :
          ends = t.ends /\ last = block.ends /\ length = Len(file.words)
    BY <1>5, <2>1
  <2>3. pos <= ends /\ ends < last /\ last < length + 1
    BY <1>4, <1>6, <2>1, <2>2
  <2>4. ~(pos > length)
    BY <1>7, <2>3
  <2>. QED
    BY <2>2, <2>4 DEF AtEnd
<1>9. Word.key = "}" <=> pos = t.ends
  <2>1. pos # t.ends => pos \in (t.begins + 1)..(t.ends - 1)
    BY <1>4, <1>5, <1>7
  <2>. QED
    BY <1>6, <2>1 DEF Word
<1>10. row \in RowType
  BY DEF IInv, TypeOK
\* The row that the target means with one more word.
<1>11. Target(t, pos) = [oid |-> row.oid,
                         table |-> IF Word.key = "table" THEN Word.arg ELSE row.table,
                         id |-> IF Word.key = "id" THEN Word.arg ELSE row.id,
                         bits |-> IF Word.key = "bits" THEN Word.arg ELSE row.bits,
                         speed |-> IF Word.key = "speed" THEN SpeedOf(row, Word.arg) ELSE row.speed]
  BY <1>4, <1>5, <1>7, TargetMore DEF Word
<1>12. ASSUME UNCHANGED <<file, interval, host, hosts>>, reader' = "row", Word.key # "}",
              pos' = pos + 1, row' = Target(t, pos)
       PROVE  HostsRead' /\ InFile' /\ InHost' /\ InRow'
  <2>1. pos' - 1 = pos /\ t.begins < pos' /\ pos' <= t.ends
    <3>1. t.begins < pos /\ pos <= t.ends /\ pos # t.ends /\ pos' = pos + 1
      BY <1>4, <1>9, <1>12
    <3>. QED
      BY <1>5, <1>7, <3>1
  <2>2. InFile' /\ InHost' /\ InRow'
    BY <1>2, <1>3, <1>4, <1>12, <2>1, IntoRow
  <2>3. HostsRead'
    BY <1>12, SameMeaning DEF HostsRead
  <2>. QED
    BY <2>2, <2>3
<1>13. CASE SkipWord
  <2>1. /\ Word.key \notin {"bits", "table", "id", "speed", "}"} /\ pos' = pos + 1
        /\ reader' = "row" /\ row' = row /\ UNCHANGED <<file, interval, host, hosts>>
    BY <1>8, <1>13 DEF SkipWord, Consume, hostVars
  <2>2. row' = Target(t, pos)
    BY <1>10, <1>11, <2>1 DEF RowType
  <2>. QED
    BY <1>12, <2>1, <2>2
<1>14. CASE SetField
  <2>1. /\ Word.key \in {"bits", "table", "id", "speed"} /\ pos' = pos + 1
        /\ reader' = "row" /\ UNCHANGED <<file, interval, host, hosts>>
        /\ Word.key = "bits" => row' = [row EXCEPT !.bits = Word.arg]
        /\ Word.key = "table" => row' = [row EXCEPT !.table = Word.arg]
        /\ Word.key = "id" => row' = [row EXCEPT !.id = Word.arg]
        /\ Word.key = "speed" => row' = [row EXCEPT !.speed = SpeedOf(row, Word.arg)]
    BY <1>8, <1>14 DEF SetField, Reads, Consume, hostVars
  <2>2. row' = Target(t, pos)
    BY <1>10, <1>11, <2>1 DEF RowType
  <2>. QED
    BY <1>12, <2>1, <2>2
<1>15. ~DividesByZero
  BY DEF DividesByZero, Grouped
<1>16. CASE RowEnds
  <2>1. Word.key = "}" /\ UNCHANGED <<file, interval, hosts>> /\ pos' = pos + 1
    BY <1>8, <1>16 DEF RowEnds, Reads, Consume, hostVars
  <2>2. row = TargetsOf(block)[j] /\ row.table # NoTable
    BY <1>2, <1>3, <1>4, <1>6, <1>9, <2>1, TableOfTarget
  <2>3. \A i \in 1..Len(host.rows) : host.rows[i].table # NoTable
    BY <1>2, <1>3, <1>4, TablesOfKept
  <2>4. host.rows \in Seq(RowType) /\ host \in HostType
    BY DEF IInv, TypeOK, HostType
  <2>5. ~Crashes(host, row)
    <3>1. DOMAIN host.rows = 1..Len(host.rows)
      BY <2>4
    <3>. QED
      BY <2>2, <2>3, <3>1 DEF Crashes, Faults
  <2>6. Duplicate(host, row) <=> \E i \in 1..Len(host.rows) : SameRow(host.rows[i], row)
    <3>1. DOMAIN host.rows = 1..Len(host.rows)
      BY <2>4
    <3>. QED
      BY <3>1 DEF Duplicate, Matches, SameRow
  <2>7. /\ reader' = "host"
        /\ Duplicate(host, row) => host' = host
        /\ ~Duplicate(host, row) => host' = queryhost_push_row(host, row)
    BY <1>16, <2>5 DEF RowEnds
  <2>8. Kept(host'.rows, TargetsOf(block), j) /\ host'.host = host.host
    <3>1. PICK i \in Nat : i = j - 1 /\ i + 1 = j
      <4>1. Len(targets) \in Nat
        BY <1>2, <1>3, PlacesOfBlock
      <4>. QED
        BY <1>4, <4>1
    <3>2. Kept(host.rows, TargetsOf(block), i) /\ row = TargetsOf(block)[i + 1]
      BY <1>4, <2>2, <3>1
    <3>3. CASE Duplicate(host, row)
      <4>1. Kept(host.rows, TargetsOf(block), i + 1)
        BY <2>4, <2>6, <3>2, <3>3, RepeatedIsLeft
      <4>. QED
        BY <2>7, <3>1, <3>3, <4>1
    <3>4. CASE ~Duplicate(host, row)
      <4>1. Kept(Append(host.rows, row), TargetsOf(block), i + 1)
        BY <1>10, <2>4, <2>6, <3>2, <3>4, NewIsKept
      <4>2. host'.rows = Append(host.rows, row) /\ host'.host = host.host
        BY <2>4, <2>7, <3>4 DEF queryhost_push_row, HostType
      <4>. QED
        BY <3>1, <4>1, <4>2
    <3>. QED
      BY <3>3, <3>4
  <2>9. j + 1 \in 1..(Len(targets) + 1) /\ (j + 1) - 1 = j /\ j + 1 - 1 = j
    <3>1. Len(targets) \in Nat
      BY <1>2, <1>3, PlacesOfBlock
    <3>. QED
      BY <1>4, <3>1
  <2>10. /\ After(targets, block.begins, j + 1) < pos'
         /\ pos' <= Before(targets, block.ends, j + 1)
    <3>1. After(targets, block.begins, j + 1) = t.ends
      BY <1>4, <2>9 DEF After
    <3>2. /\ Len(targets) \in Nat /\ Placed(targets)
          /\ block.begins \in Nat /\ block.ends \in Nat
          /\ Laid(file.words, targets, block.begins, block.ends, "target", {"target", "}"})
      BY <1>2, <1>3, GapsOfBlock
    <3>3. pos = After(targets, block.begins, j + 1)
      BY <1>9, <2>1, <3>1
    <3>4. pos < pos + 1 /\ pos + 1 <= Before(targets, block.ends, j + 1)
      BY <1>7, <2>9, <3>2, <3>3, GapFollows, Zenon
    <3>. QED
      BY <2>1, <3>3, <3>4
  <2>11. InFile' /\ InHost' /\ InRow'
    BY <1>2, <1>3, <1>4, <2>1, <2>7, <2>8, <2>9, <2>10, IntoHost
  <2>12. HostsRead'
    BY <2>1, SameMeaning DEF HostsRead
  <2>. QED
    BY <2>7, <2>11, <2>12
<1>. QED
  BY <1>13, <1>14, <1>15, <1>16

\* Every step keeps what has been read and where the reader is.
LEMMA ParsedStep == IInv /\ Parsed /\ [Next]_vars => Parsed'
<1> SUFFICES ASSUME IInv, Parsed, [Next]_vars, Grouped'
             PROVE  /\ reader' \in {"file", "host", "row", "done"}
                    /\ HostsRead'
                    /\ InFile' /\ InHost' /\ InRow'
                    /\ reader' = "done" => Len(hosts') = Len(file'.blocks)
  BY DEF Parsed
<1>1. UNCHANGED <<file, interval>>
  BY DEF Next, SkipWord, HostBegins, TargetBegins, SetField, DividesByZero, RowEnds, HostEnds,
     FileEnds, ReadLine, LineDividesByZero, LinesEnd, Rest, vars
<1>2. /\ Grouped /\ reader \in {"file", "host", "row", "done"}
      /\ HostsRead /\ InFile /\ InHost /\ InRow
      /\ reader = "done" => Len(hosts) = Len(file.blocks)
  BY <1>1, SameMeaning DEF Parsed
<1>3. CASE UNCHANGED vars
  <2>1. UNCHANGED <<file, interval, pos, reader, host, row, hosts>>
    BY <1>3 DEF vars, hostVars
  <2>2. HostsRead'
    BY <1>2, <2>1, SameMeaning DEF HostsRead
  <2>3. InFile'
    BY <1>2, <2>1 DEF InFile, After, Before
  <2>4. InHost' /\ InRow'
    BY <1>2, <2>1, SameMeaning DEF InHost, InRow, After, Before
  <2>. QED
    BY <1>2, <2>1, <2>2, <2>3, <2>4
<1>4. CASE Next /\ ~UNCHANGED vars /\ reader = "file"
  <2>1. SkipWord \/ HostBegins \/ FileEnds
    BY <1>4 DEF Next, TargetBegins, SetField, DividesByZero, RowEnds, HostEnds, ReadLine,
       LineDividesByZero, LinesEnd, MoreLines, Rest
  <2>. QED
    BY <1>1, <1>2, <1>4, <2>1, FileStep
<1>5. CASE Next /\ ~UNCHANGED vars /\ reader = "host"
  <2>1. SkipWord \/ TargetBegins \/ HostEnds
    BY <1>5 DEF Next, HostBegins, SetField, DividesByZero, RowEnds, FileEnds, ReadLine,
       LineDividesByZero, LinesEnd, MoreLines, Rest
  <2>. QED
    BY <1>2, <1>5, <2>1, HostStep
<1>6. CASE Next /\ ~UNCHANGED vars /\ reader = "row"
  <2>1. SkipWord \/ SetField \/ DividesByZero \/ RowEnds
    BY <1>6 DEF Next, HostBegins, TargetBegins, HostEnds, FileEnds, ReadLine,
       LineDividesByZero, LinesEnd, MoreLines, Rest
  <2>. QED
    BY <1>2, <1>6, <2>1, RowStep
<1>7. ~(Next /\ ~UNCHANGED vars /\ reader = "done")
  BY DEF Next, SkipWord, HostBegins, TargetBegins, SetField, DividesByZero, RowEnds, HostEnds,
     FileEnds, ReadLine, LineDividesByZero, LinesEnd, MoreLines, Rest
<1>. QED
  BY <1>2, <1>3, <1>4, <1>5, <1>6, <1>7

\* At first the reader is before the first block.
LEMMA ParsedInit == Init => Parsed
<1> SUFFICES ASSUME Init, Grouped
             PROVE  HostsRead /\ InFile /\ InHost /\ InRow
  BY DEF Init, Parsed
<1>1. IInv
  BY InitialInvariant
<1>2. 1 \in 1..(Len(file.blocks) + 1)
  <2>1. Len(file.blocks) \in Nat
    BY <1>1, GapsOfFile
  <2>. QED
    BY <2>1
<1>3. After(file.blocks, 0, 1) = 0
  BY DEF After
<1>4. pos <= Before(file.blocks, Len(file.words) + 1, 1)
  <2>1. 0 \in Nat /\ 0 = After(file.blocks, 0, 1) /\ 0 + 1 = 1
    BY <1>3
  <2>2. 0 < 0 + 1 /\ 0 + 1 <= Before(file.blocks, Len(file.words) + 1, 1)
    BY <1>1, <1>2, <2>1, GapsOfFile, GapFollows, Zenon
  <2>. QED
    BY <2>1, <2>2 DEF Init
<1>5. InFile
  BY <1>2, <1>3, <1>4 DEF InFile, Init
<1>. QED
  BY <1>5 DEF Init, HostsRead, InHost, InRow

\* A well-formed file of the grouped style is read to its end as the hosts its
\* blocks mean, in their order, less the targets that repeat one that was kept,
\* whatever stands between its blocks and among its settings
\* (rtgtargets.c:81-262).
THEOREM BlocksAreRead == Spec => []ReadsBlocks
<1>1. Parsed => ReadsBlocks
  BY DEF Parsed, ReadsBlocks, HostsOfBlocks, HostsRead
<1>. QED
  BY <1>1, ParsedInit, ParsedStep, Invariant, PTL DEF Spec
=============================================================================
