--------------------------- MODULE LifecycleProof ---------------------------
(***************************************************************************)
(* Proofs about the main thread, for all files, command lines and bounds:  *)
(* threads run on live objects only, a life works with the configuration   *)
(* as it was written, and a reload carries the cached values over.         *)
(***************************************************************************)
EXTENDS Lifecycle, WellFoundedInduction, TLAPS

\* Which objects there are at every stage of the main thread.
Stages ==
  /\ testing => main \in {"config", "directives", "parse", "daemonize"} \/ ProcessEnded
  /\ main = "directives" => config # NoConfig
  /\ main = "parse" => (testing <=> config = NoConfig)
  /\ main \in {"copy", "reset", "create", "pollers", "database", "monitor", "join"} =>
       config # NoConfig /\ targets # NoTargets
  /\ main \in {"reset", "create", "pollers", "database", "monitor", "join"} =>
       old_targets = NoTargets
  /\ main \in {"pollers", "database", "monitor", "join"} => queries
  /\ running # {} => main \in {"database", "monitor", "join", "crashed"}

\* What the first n lines of the file give the directive d.
Lines(d, n) == {k \in 1..n : opened[k].directive = d}
ReadSoFar(d, n) == IF Lines(d, n) = {} THEN Defaults[d] ELSE opened[Max(Lines(d, n))].value

\* The configuration holds what the lines read so far give.
Filled ==
  /\ line \in 1..(Len(opened) + 1)
  /\ config # NoConfig /\ ~ProcessEnded =>
       /\ \A d \in Directives : config[d] = ReadSoFar(d, line - 1)
       /\ main # "directives" => line = Len(opened) + 1 /\ Verified(config)

IInv == TypeOK /\ Stages /\ ThreadsUseLiveObjects /\ Filled

-----------------------------------------------------------------------------
(* The least and the greatest number of a set.                             *)

\* Every set of naturals with an element has a least one.
LEMMA LeastElement ==
  ASSUME NEW S, S \subseteq Nat, S # {}
  PROVE  \E x \in S : \A y \in S : x <= y
<1> DEFINE R == {p \in Nat \X Nat : p[1] < p[2]}
<1>1. IsWellFoundedOn(R, Nat)
  BY NatLessThanWellFounded, Zenon DEF OpToRel
<1>2. \E x \in S : \A y \in S : <<y, x>> \notin R
  <2> HIDE DEF R
  <2>. QED
    BY <1>1, WFMin, Zenon
<1>3. ASSUME NEW x \in S, NEW y \in S, <<y, x>> \notin R
      PROVE  x <= y
  <2>1. <<y, x>> \in Nat \X Nat
    OBVIOUS
  <2>. QED
    BY <1>3, <2>1
<1>. QED
  BY <1>2, <1>3

LEMMA MinOf ==
  ASSUME NEW S, S \subseteq Nat, S # {}
  PROVE  Min(S) \in S /\ \A y \in S : Min(S) <= y
BY LeastElement DEF Min

\* A set of naturals with an element and a bound has a greatest element.
LEMMA MaxOf ==
  ASSUME NEW n \in Nat, NEW S, S \subseteq 0..n, S # {}
  PROVE  Max(S) \in S /\ \A y \in S : Max(S) >= y
<1> DEFINE T == {n - s : s \in S}
<1>1. T \subseteq Nat
  <2>1. \A s \in S : s \in Int /\ 0 <= s /\ s <= n
    OBVIOUS
  <2>2. \A s \in S : n - s \in Nat
    BY <2>1
  <2>. QED
    BY <2>2
<1>2. T # {}
  OBVIOUS
<1>3. PICK t \in T : \A u \in T : t <= u
  <2> HIDE DEF T
  <2>. QED
    BY <1>1, <1>2, LeastElement
<1>4. PICK x \in S : t = n - x
  OBVIOUS
<1>5. ASSUME NEW y \in S
      PROVE  x >= y
  <2>1. n - x <= n - y
    BY <1>3, <1>4
  <2>. QED
    BY <2>1
<1>. QED
  BY <1>5 DEF Max

-----------------------------------------------------------------------------
(* The objects.                                                            *)

\* A file's lines have their types.
LEMMA LineType ==
  ASSUME TypeOK, NEW k \in 1..Len(opened), opened[k].directive \in Directives
  PROVE  opened[k].value \in Numbers \cup Names \cup {Absent}
BY ConfigAssumption DEF TypeOK, Directives, NumberDirectives

LEMMA DefaultsType == Defaults \in ConfigType /\ Defaults # NoConfig
<1>1. Defaults \in ConfigType
  BY ConfigAssumption DEF Defaults, ConfigType
<1>. QED
  BY <1>1, FilesAssumption DEF ConfigType

\* What a row of targets is, a block of them, and a sequence of these.
RowSet == [oid : Oids, value : 0 .. MaxPolls]
BlockSet == [host : Hosts, rows : Seq(RowSet)]

LEMMA TargetsAreBlocks == TargetsType = Seq(BlockSet) /\ NoTargets \notin TargetsType
BY FilesAssumption DEF TargetsType, BlockSet, RowSet

\* The parser makes targets of a file, and they are not the null pointer.
LEMMA ParsedType ==
  ASSUME NEW f \in Files
  PROVE  Parsed(f) \in TargetsType /\ Parsed(f) # NoTargets
<1> DEFINE FileBlocks == [host : Hosts, oids : Seq(Oids), speeds : BOOLEAN]
<1>1. f \in Seq(FileBlocks) /\ Len(f) \in Nat
  <2>1. f \in Seq(FileBlocks)
    BY FilesAssumption, Zenon
  <2> HIDE DEF FileBlocks
  <2>. QED
    BY <2>1
<1> DEFINE rows(b) == [r \in 1 .. Len(f[b].oids) |-> [oid |-> f[b].oids[r], value |-> 0]]
           block(b) == [host |-> f[b].host, rows |-> rows(b)]
<1>2. ASSUME NEW b \in 1..Len(f)
      PROVE  block(b) \in BlockSet
  <2>1. f[b] \in FileBlocks
    <3> HIDE DEF FileBlocks
    <3>. QED
      BY <1>1
  <2>2. f[b].host \in Hosts /\ f[b].oids \in Seq(Oids)
    BY <2>1
  <2>3. \A r \in 1 .. Len(f[b].oids) : [oid |-> f[b].oids[r], value |-> 0] \in RowSet
    BY <2>2, LimitsAssumption DEF RowSet
  <2>4. rows(b) \in Seq(RowSet)
    BY <2>2, <2>3
  <2> HIDE DEF rows
  <2>. QED
    BY <2>2, <2>4 DEF BlockSet
<1>3. Parsed(f) = [b \in 1..Len(f) |-> block(b)]
  BY DEF Parsed
<1> HIDE DEF block
<1>4. Parsed(f) \in TargetsType
  BY <1>1, <1>2, <1>3, TargetsAreBlocks
<1>. QED
  BY <1>4, TargetsAreBlocks

\* What is known of one block of targets, and of one row.
LEMMA BlockType ==
  ASSUME NEW t \in TargetsType, NEW b \in 1..Len(t)
  PROVE  /\ t[b] \in BlockSet
         /\ t[b].host \in Hosts
         /\ t[b].rows \in Seq(RowSet) /\ Len(t[b].rows) \in Nat
         /\ t[b] = [host |-> t[b].host, rows |-> t[b].rows]
<1>1. t[b] \in BlockSet
  BY TargetsAreBlocks
<1>. QED
  BY <1>1 DEF BlockSet

LEMMA RowType ==
  ASSUME NEW block \in BlockSet, NEW r \in 1..Len(block.rows)
  PROVE  /\ block.rows[r] \in RowSet
         /\ block.rows[r].oid \in Oids /\ block.rows[r].value \in 0 .. MaxPolls
         /\ block.rows[r] = [oid |-> block.rows[r].oid, value |-> block.rows[r].value]
<1>1. block.rows[r] \in RowSet
  BY DEF BlockSet
<1>. QED
  BY <1>1 DEF RowSet

\* A lookup by name finds a block of that name, the first there is.
LEMMA FindHostFinds ==
  ASSUME NEW t \in TargetsType, NEW name, NEW d \in FindHost(t, name)
  PROVE  d \in 1..Len(t) /\ t[d].host = name
<1> DEFINE found == {b \in 1..Len(t) : t[b].host = name}
<1>1. found \subseteq Nat /\ found # {} /\ d = Min(found)
  BY DEF FindHost, TargetsType
<1>2. Min(found) \in found
  <2> HIDE DEF found
  <2>. QED
    BY <1>1, MinOf
<1>. QED
  BY <1>1, <1>2

LEMMA FirstIsFound ==
  ASSUME NEW t \in TargetsType, NEW d \in 1..Len(t)
  PROVE  d \in FindHost(t, t[d].host) <=> FirstBlock(t, d)
<1> DEFINE found == {b \in 1..Len(t) : t[b].host = t[d].host}
<1>1. found \subseteq Nat /\ d \in found
  BY DEF TargetsType
<1>2. Min(found) \in found /\ \A b \in found : Min(found) <= b
  <2> HIDE DEF found
  <2>. QED
    BY <1>1, MinOf
<1>3. d \in FindHost(t, t[d].host) <=> d = Min(found)
  BY <1>1 DEF FindHost
<1>4. FirstBlock(t, d) => d = Min(found)
  <2>1. FirstBlock(t, d) => \A b \in 1..(d - 1) : b \notin found
    BY DEF FirstBlock
  <2>. QED
    BY <1>1, <1>2, <2>1
<1>5. d = Min(found) => FirstBlock(t, d)
  <2>1. ASSUME d = Min(found), NEW b \in 1..(d - 1)
        PROVE  t[b].host # t[d].host
    <3>1. b \in 1..Len(t) /\ ~(d <= b)
      BY DEF TargetsType
    <3>2. b \notin found
      BY <1>2, <2>1, <3>1
    <3>. QED
      BY <3>1, <3>2
  <2>. QED
    BY <2>1 DEF FirstBlock
<1>. QED
  BY <1>3, <1>4, <1>5

\* A lookup by OID finds the first row of that OID.
LEMMA FirstRowIsFound ==
  ASSUME NEW block \in BlockSet, NEW r \in 1..Len(block.rows)
  PROVE  r \in FindRow(block, block.rows[r].oid) <=> FirstRow(block, r)
<1> DEFINE found == RowsOf(block, block.rows[r].oid)
<1>1. found \subseteq Nat \ {0} /\ r \in found
  BY DEF RowsOf
<1>2. Min(found) \in found /\ \A k \in found : Min(found) <= k
  <2> HIDE DEF found
  <2>. QED
    BY <1>1, MinOf
<1>3. r \in FindRow(block, block.rows[r].oid) <=> r = Min(found)
  BY <1>1 DEF FindRow
<1>4. FirstRow(block, r) => r = Min(found)
  <2>1. FirstRow(block, r) => \A k \in 1..(r - 1) : k \notin found
    BY DEF FirstRow, RowsOf
  <2>. QED
    BY <1>1, <1>2, <2>1
<1>5. r = Min(found) => FirstRow(block, r)
  <2>1. ASSUME r = Min(found), NEW k \in 1..(r - 1)
        PROVE  block.rows[k].oid # block.rows[r].oid
    <3>1. k \in 1..Len(block.rows) /\ ~(r <= k)
      BY DEF BlockSet
    <3>2. k \notin found
      BY <1>2, <2>1, <3>1
    <3>. QED
      BY <3>1, <3>2 DEF RowsOf
  <2>. QED
    BY <2>1 DEF FirstRow
<1>. QED
  BY <1>3, <1>4, <1>5

\* The blocks of src with rows whose values go to rows of that OID in block d.
Sources(dest, src, d, oid) == {s \in 1 .. Len(src) : /\ d \in FindHost(dest, src[s].host)
                                                     /\ RowsOf(src[s], oid) # {}}

\* Where there are such blocks, the last row of that OID in the last of them is one.
LastBlock(dest, src, d, oid) == src[Max(Sources(dest, src, d, oid))]
LastRow(dest, src, d, oid) == Max(RowsOf(LastBlock(dest, src, d, oid), oid))

LEMMA LastSource ==
  ASSUME NEW dest, NEW src \in TargetsType, NEW d, NEW oid, Sources(dest, src, d, oid) # {}
  PROVE  \E s \in Sources(dest, src, d, oid) :
           /\ src[s] \in BlockSet
           /\ LastBlock(dest, src, d, oid) = src[s]
           /\ LastRow(dest, src, d, oid) \in RowsOf(src[s], oid)
<1>1. Len(src) \in Nat /\ Sources(dest, src, d, oid) \subseteq 0..Len(src)
  BY DEF Sources, TargetsType
<1>2. PICK s \in Sources(dest, src, d, oid) : s = Max(Sources(dest, src, d, oid))
  BY <1>1, MaxOf
<1>3. s \in 1..Len(src) /\ RowsOf(src[s], oid) # {}
  BY DEF Sources
<1>4. src[s] \in BlockSet /\ Len(src[s].rows) \in Nat
  BY <1>3, BlockType
<1>5. RowsOf(src[s], oid) \subseteq 0..Len(src[s].rows)
  BY <1>4 DEF RowsOf
<1>6. Max(RowsOf(src[s], oid)) \in RowsOf(src[s], oid)
  BY <1>3, <1>4, <1>5, MaxOf
<1>. QED
  BY <1>2, <1>4, <1>6 DEF LastBlock, LastRow

\* Whether copying the cache gives row r of block d another value, and which.
Refilled(dest, src, d, r) ==
  Sources(dest, src, d, dest[d].rows[r].oid) # {} /\ r \in FindRow(dest[d], dest[d].rows[r].oid)

CopiedRow(dest, src, d, r) ==
  IF Refilled(dest, src, d, r)
  THEN LastBlock(dest, src, d, dest[d].rows[r].oid).rows[LastRow(dest, src, d, dest[d].rows[r].oid)]
  ELSE dest[d].rows[r]

\* What copying the cache does to one row.
LEMMA CopiedValue ==
  ASSUME NEW dest \in TargetsType, NEW src \in TargetsType
  PROVE  /\ Copied(dest, src) \in TargetsType
         /\ Copied(dest, src) # NoTargets
         /\ \A d \in 1..Len(dest) : \A r \in 1..Len(dest[d].rows) :
              Copied(dest, src)[d].rows[r] = CopiedRow(dest, src, d, r)
<1> DEFINE rows(d) == [r \in 1..Len(dest[d].rows) |-> CopiedRow(dest, src, d, r)]
           block(d) == [host |-> dest[d].host, rows |-> rows(d)]
<1>1. ASSUME NEW d \in 1..Len(dest), NEW r \in 1..Len(dest[d].rows)
      PROVE  CopiedRow(dest, src, d, r) \in RowSet
  <2> DEFINE oid == dest[d].rows[r].oid
  <2>1. CASE ~Refilled(dest, src, d, r)
    <3>1. dest[d].rows[r] \in RowSet
      BY BlockType, RowType
    <3>. QED
      BY <2>1, <3>1 DEF CopiedRow
  <2>2. CASE Refilled(dest, src, d, r)
    <3>1. PICK s \in Sources(dest, src, d, oid) :
             /\ src[s] \in BlockSet
             /\ LastBlock(dest, src, d, oid) = src[s]
             /\ LastRow(dest, src, d, oid) \in RowsOf(src[s], oid)
      BY <2>2, LastSource DEF Refilled
    <3>2. LastRow(dest, src, d, oid) \in 1..Len(src[s].rows)
      BY <3>1 DEF RowsOf
    <3>3. src[s].rows[LastRow(dest, src, d, oid)] \in RowSet
      BY <3>1, <3>2, RowType
    <3>. QED
      BY <2>2, <3>1, <3>3 DEF CopiedRow
  <2>. QED
    BY <2>1, <2>2
<1>2. Copied(dest, src) = [d \in 1..Len(dest) |-> block(d)]
  <2> DEFINE copied(d, r) == LET oid == dest[d].rows[r].oid
                                 from == {s \in 1 .. Len(src) : /\ d \in FindHost(dest, src[s].host)
                                                                /\ RowsOf(src[s], oid) # {}}
                                 last == src[Max(from)]
                             IN IF from = {} \/ r \notin FindRow(dest[d], oid) THEN dest[d].rows[r]
                                ELSE last.rows[Max(RowsOf(last, oid))]
  <2>1. \A d \in 1..Len(dest) : \A r \in 1..Len(dest[d].rows) :
          copied(d, r) = CopiedRow(dest, src, d, r)
    BY DEF CopiedRow, Refilled, LastBlock, LastRow, Sources
  <2>2. Copied(dest, src) = [d \in 1..Len(dest) |->
                               [dest[d] EXCEPT !.rows = [r \in 1..Len(@) |-> copied(d, r)]]]
    BY DEF Copied
  <2> HIDE DEF copied
  <2>3. ASSUME NEW d \in 1..Len(dest)
        PROVE  [dest[d] EXCEPT !.rows = [r \in 1..Len(@) |-> copied(d, r)]] = block(d)
    <3>1. dest[d] = [host |-> dest[d].host, rows |-> dest[d].rows]
      BY BlockType
    <3>2. [r \in 1..Len(dest[d].rows) |-> copied(d, r)] = rows(d)
      BY <2>1
    <3> HIDE DEF rows
    <3>3. [dest[d] EXCEPT !.rows = rows(d)] = block(d)
      BY <3>1
    <3>. QED
      BY <3>2, <3>3, Zenon
  <2> HIDE DEF block
  <2>. QED
    BY <2>2, <2>3
<1>3. ASSUME NEW d \in 1..Len(dest)
      PROVE  block(d) \in BlockSet
  <2>1. dest[d].host \in Hosts /\ Len(dest[d].rows) \in Nat
    BY BlockType
  <2>2. rows(d) \in Seq(RowSet)
    BY <1>1, <2>1
  <2> HIDE DEF rows
  <2>. QED
    BY <2>1, <2>2 DEF BlockSet
<1>4. \A d \in 1..Len(dest) : \A r \in 1..Len(dest[d].rows) :
        block(d).rows[r] = CopiedRow(dest, src, d, r)
  OBVIOUS
<1> HIDE DEF block
<1>5. Copied(dest, src) \in TargetsType
  <2>1. Len(dest) \in Nat
    BY TargetsAreBlocks
  <2>. QED
    BY <1>2, <1>3, <2>1, TargetsAreBlocks
<1>6. \A d \in 1..Len(dest) : Copied(dest, src)[d] = block(d)
  BY <1>2
<1>. QED
  BY <1>4, <1>5, <1>6, TargetsAreBlocks

-----------------------------------------------------------------------------
(* Reading rtg.conf.                                                       *)

\* One line more gives its directive its value, and no other directive one.
LEMMA OneLineMore ==
  ASSUME NEW n \in Nat, NEW d
  PROVE  ReadSoFar(d, n + 1) = IF opened[n + 1].directive = d THEN opened[n + 1].value
                               ELSE ReadSoFar(d, n)
<1>1. CASE opened[n + 1].directive = d
  <2>1. n + 1 \in Lines(d, n + 1) /\ Lines(d, n + 1) \subseteq 0..(n + 1)
    BY <1>1 DEF Lines
  <2>2. Max(Lines(d, n + 1)) = n + 1
    <3>1. /\ Max(Lines(d, n + 1)) \in Lines(d, n + 1)
          /\ Max(Lines(d, n + 1)) >= n + 1
      BY <2>1, MaxOf
    <3>. QED
      BY <2>1, <3>1
  <2>. QED
    BY <1>1, <2>1, <2>2 DEF ReadSoFar
<1>2. CASE opened[n + 1].directive # d
  <2>1. Lines(d, n + 1) = Lines(d, n)
    BY <1>2 DEF Lines
  <2>. QED
    BY <1>2, <2>1 DEF ReadSoFar
<1>. QED
  BY <1>1, <1>2

\* The whole file gives what the configuration is to hold.
LEMMA WholeFile ==
  ASSUME NEW d
  PROVE  ReadSoFar(d, Len(opened)) = Given(d)
BY DEF ReadSoFar, Lines, Given

-----------------------------------------------------------------------------
(* The invariant.                                                          *)

LEMMA InitialInvariant == Init => IInv
<1> SUFFICES ASSUME Init PROVE IInv
  OBVIOUS
<1>1. TypeOK
  <2>1. signals \in 0 .. MaxSignals /\ polls \in 0 .. MaxPolls /\ line \in Nat \ {0}
    BY LimitsAssumption DEF Init
  <2>. QED
    BY <2>1, Zenon DEF Init, TypeOK
<1>2. Stages /\ ThreadsUseLiveObjects
  BY DEF Init, Stages, ThreadsUseLiveObjects, ProcessEnded
<1>3. Filled
  <2>1. opened = <<>> /\ line = 1 /\ config = NoConfig
    BY DEF Init
  <2>2. Len(opened) = 0
    BY <2>1
  <2>. QED
    BY <2>1, <2>2 DEF Filled
<1>. QED
  BY <1>1, <1>2, <1>3 DEF IInv

\* A step that leaves the file that is read alone keeps what is read of it.
LEMMA FilledKept ==
  ASSUME Filled, UNCHANGED <<readVars, config>>,
         config # NoConfig /\ ~ProcessEnded' => ~ProcessEnded /\ (main' # "directives" => main # "directives")
  PROVE  Filled'
BY DEF Filled, readVars, ReadSoFar, Lines, Verified

\* A step that leaves the main thread and the objects alone keeps their stages.
LEMMA StagesKept ==
  ASSUME Stages, ThreadsUseLiveObjects, UNCHANGED <<main, testing, running, heapVars>>
  PROVE  Stages' /\ ThreadsUseLiveObjects'
BY Zenon DEF Stages, ThreadsUseLiveObjects, ProcessEnded, heapVars

LEMMA NextInvariant == IInv /\ [Next]_vars => IInv'
<1> SUFFICES ASSUME IInv, [Next]_vars PROVE IInv'
  OBVIOUS
<1> USE DEF startVars, flagVars, signalVars, fileVars, heapVars
<1>1. CASE CheckOptions
  <2>1. Filled'
    BY <1>1, FilledKept DEF CheckOptions, IInv, ProcessEnded, Stages
  <2>2. /\ main = "options" /\ main' \in {"failed", "config", "while"} /\ testing' \in BOOLEAN
        /\ testing' => main' \in {"failed", "config"}
        /\ options' = options /\ running' = running
        /\ UNCHANGED <<flagVars, signalVars, fileVars, readVars, heapVars, polls>>
    <3>1. options.detach \in BOOLEAN
      BY OptionsAssumption DEF IInv, TypeOK
    <3>. QED
      BY <1>1, <3>1, Zenon DEF CheckOptions
  <2>3. TypeOK'
    BY <2>2 DEF IInv, TypeOK, readVars
  <2>4. Stages' /\ ThreadsUseLiveObjects'
    BY <2>2 DEF IInv, Stages, ThreadsUseLiveObjects, ProcessEnded
  <2>. QED
    BY <2>1, <2>3, <2>4 DEF IInv
<1>2. CASE daemonize
  <2>1. Filled'
    BY <1>2, FilledKept DEF daemonize, IInv, ProcessEnded, Stages
  <2>2. TypeOK'
    <3>1. /\ main' \in {"while", "failed"} /\ testing' \in BOOLEAN
          /\ UNCHANGED <<options, flagVars, signalVars, running, fileVars, readVars, heapVars, polls>>
      BY <1>2 DEF daemonize
    <3>. QED
      BY <3>1 DEF IInv, TypeOK, readVars
  <2>3. Stages' /\ ThreadsUseLiveObjects'
    BY <1>2 DEF daemonize, IInv, Stages, ThreadsUseLiveObjects, ProcessEnded
  <2>. QED
    BY <2>1, <2>2, <2>3 DEF IInv
<1>3. CASE MainWhile
  <2>1. Filled'
    BY <1>3, FilledKept DEF MainWhile, IInv, ProcessEnded, Stages
  <2>. QED
    BY <1>3, <2>1 DEF MainWhile, IInv, TypeOK, Stages, ThreadsUseLiveObjects, ProcessEnded, readVars
<1>4. CASE OpenConfig
  <2>1. Filled'
    <3>1. \A d \in Directives : (config[d] = ReadSoFar(d, line - 1))'
      BY <1>4 DEF OpenConfig, ReadSoFar, Lines
    <3>2. Len(opened') \in Nat
      BY <1>4, ConfigAssumption DEF OpenConfig, IInv, TypeOK
    <3>. QED
      BY <1>4, <3>1, <3>2 DEF OpenConfig, Filled
  <2>. QED
    BY <1>4, <2>1, DefaultsType
       DEF OpenConfig, IInv, TypeOK, Stages, ThreadsUseLiveObjects, ProcessEnded, readVars
<1>5. CASE ConfigMissing
  <2>1. Filled'
    BY <1>5, FilledKept DEF ConfigMissing, IInv, ProcessEnded, Stages
  <2>. QED
    BY <1>5, <2>1 DEF ConfigMissing, IInv, TypeOK, Stages, ThreadsUseLiveObjects, ProcessEnded, readVars
<1>6. CASE ReadDirective
  <2>1. /\ main = "directives" /\ line \in Nat \ {0} /\ line \in 1..Len(opened) /\ Len(opened) \in Nat
        /\ config \in ConfigType /\ config # NoConfig
        /\ opened' = opened /\ line' = line + 1
        /\ UNCHANGED <<startVars, flagVars, signalVars, running, fileVars, targets, old_targets,
                       queries, polls>>
    BY <1>6, ConfigAssumption DEF ReadDirective, IInv, TypeOK, Stages, Filled
  <2>2. config' \in ConfigType /\ config' # NoConfig
    <3>1. config' \in ConfigType
      BY <1>6, <2>1, LineType DEF ReadDirective, IInv, ConfigType
    <3>. QED
      BY <3>1, FilesAssumption DEF ConfigType
  <2>3. main' \in {"directives", "crashed"}
    BY <1>6, <2>1 DEF ReadDirective
  <2>4. TypeOK'
    BY <2>1, <2>2, <2>3 DEF IInv, TypeOK
  <2>5. Filled'
    <3>1. ASSUME NEW d \in Directives, main' = "directives"
          PROVE  config'[d] = ReadSoFar(d, line)
      <4>1. config[d] = ReadSoFar(d, line - 1)
        BY <2>1 DEF IInv, Filled, ProcessEnded
      <4>2. config'[d] = IF opened[line].directive = d THEN opened[line].value ELSE config[d]
        BY <1>6, <2>1, <3>1 DEF ReadDirective, ConfigType
      <4>3. ReadSoFar(d, (line - 1) + 1) = IF opened[(line - 1) + 1].directive = d
                                           THEN opened[(line - 1) + 1].value
                                           ELSE ReadSoFar(d, line - 1)
        <5>1. line - 1 \in Nat
          BY <2>1
        <5>. QED
          BY <5>1, OneLineMore
      <4>4. (line - 1) + 1 = line
        BY <2>1
      <4>. QED
        BY <4>1, <4>2, <4>3, <4>4
    <3>2. ASSUME NEW d PROVE ReadSoFar(d, line)' = ReadSoFar(d, line')
      BY <2>1 DEF ReadSoFar, Lines
    <3>3. ASSUME NEW d PROVE ReadSoFar(d, line - 1)' = ReadSoFar(d, line)
      BY <2>1 DEF ReadSoFar, Lines
    <3>4. line' \in 1..(Len(opened') + 1)
      BY <2>1
    <3>. QED
      BY <2>1, <2>3, <3>1, <3>3, <3>4 DEF Filled, ProcessEnded
  <2>6. Stages' /\ ThreadsUseLiveObjects'
    BY <2>1, <2>2, <2>3 DEF IInv, Stages, ThreadsUseLiveObjects, ProcessEnded
  <2>. QED
    BY <2>4, <2>5, <2>6 DEF IInv
<1>7. CASE VerifyConfig
  <2>1. /\ main = "directives" /\ line = Len(opened) + 1 /\ config \in ConfigType /\ config # NoConfig
        /\ opened' = opened /\ line' = line
        /\ main' = IF Verified(config) THEN "parse" ELSE "failed"
        /\ config' = IF testing /\ Verified(config) THEN NoConfig ELSE config
        /\ UNCHANGED <<startVars, flagVars, signalVars, running, fileVars, targets, old_targets,
                       queries, polls>>
    BY <1>7, ConfigAssumption DEF VerifyConfig, IInv, TypeOK, Stages, Filled, readVars
  <2>2. Filled'
    <3>1. \A d \in Directives : config[d] = ReadSoFar(d, line - 1)
      BY <2>1 DEF IInv, Filled, ProcessEnded
    <3>2. ASSUME NEW d PROVE ReadSoFar(d, line - 1)' = ReadSoFar(d, line - 1)
      BY <2>1 DEF ReadSoFar, Lines
    <3>. QED
      BY <2>1, <3>1, <3>2 DEF IInv, Filled, ProcessEnded
  <2>. QED
    BY <2>1, <2>2 DEF IInv, TypeOK, Stages, ThreadsUseLiveObjects, ProcessEnded
<1>8. CASE ReadTargets
  <2>1. /\ main = "parse"
        /\ UNCHANGED <<startVars, flagVars, signalVars, running, fileVars, readVars, old_targets,
                       config, queries, polls>>
        /\ \/ main' \in {"crashed", "failed"} /\ targets' \in {targets, Parsed(file)}
           \/ testing /\ main' = "daemonize" /\ targets' = targets
           \/ ~testing /\ main' = "copy" /\ targets' = Parsed(file)
    BY <1>8 DEF ReadTargets
  <2>2. Filled'
    BY <2>1, FilledKept DEF IInv, ProcessEnded
  <2>3. Parsed(file) \in TargetsType /\ Parsed(file) # NoTargets
    BY ParsedType DEF IInv, TypeOK
  <2>. QED
    BY <2>1, <2>2, <2>3 DEF IInv, TypeOK, Stages, ThreadsUseLiveObjects, ProcessEnded, readVars
<1>9. CASE CopyCache
  <2>1. Filled'
    BY <1>9, FilledKept DEF CopyCache, IInv, ProcessEnded
  <2>2. targets' \in TargetsType /\ targets' # NoTargets
    BY <1>9, CopiedValue DEF CopyCache, IInv, TypeOK, Stages
  <2>. QED
    BY <1>9, <2>1, <2>2
       DEF CopyCache, IInv, TypeOK, Stages, ThreadsUseLiveObjects, ProcessEnded, readVars
<1>10. CASE ResetStop
  <2>1. Filled'
    BY <1>10, FilledKept DEF ResetStop, IInv, ProcessEnded
  <2>. QED
    BY <1>10, <2>1
       DEF ResetStop, IInv, TypeOK, Stages, ThreadsUseLiveObjects, ProcessEnded, readVars
<1>18. CASE CreateQueue
  <2>1. Filled'
    BY <1>18, FilledKept DEF CreateQueue, IInv, ProcessEnded
  <2>. QED
    BY <1>18, <2>1
       DEF CreateQueue, IInv, TypeOK, Stages, ThreadsUseLiveObjects, ProcessEnded, readVars
<1>11. CASE StartThreads
  <2>1. Filled'
    BY <1>11, FilledKept DEF StartThreads, IInv, ProcessEnded
  <2>. QED
    BY <1>11, <2>1
       DEF StartThreads, IInv, TypeOK, Stages, ThreadsUseLiveObjects, ProcessEnded, readVars
<1>12. CASE JoinThreads
  <2>1. Filled'
    BY <1>12 DEF JoinThreads, IInv, Filled, readVars
  <2>. QED
    BY <1>12, <2>1
       DEF JoinThreads, Joined, IInv, TypeOK, Stages, ThreadsUseLiveObjects, ProcessEnded, readVars
<1>13. ASSUME NEW g \in running, ThreadsEnd(g)
       PROVE  IInv'
  <2>1. Filled'
    BY <1>13, FilledKept DEF ThreadsEnd, IInv, ProcessEnded
  <2>. QED
    BY <1>13, <2>1
       DEF ThreadsEnd, IInv, TypeOK, Stages, ThreadsUseLiveObjects, ProcessEnded, readVars
<1>14. CASE PollRow
  <2>1. Filled'
    BY <1>14, FilledKept DEF PollRow, IInv, ProcessEnded
  <2>2. PICK b \in DOMAIN targets : \E r \in DOMAIN targets[b].rows :
          targets' = [targets EXCEPT ![b].rows[r].value = polls + 1]
    BY <1>14 DEF PollRow
  <2>3. PICK r \in DOMAIN targets[b].rows :
          targets' = [targets EXCEPT ![b].rows[r].value = polls + 1]
    BY <2>2
  <2>4. targets \in TargetsType /\ targets # NoTargets /\ polls + 1 \in 0 .. MaxPolls
    BY <1>14, LimitsAssumption DEF PollRow, IInv, TypeOK, ThreadsUseLiveObjects
  <2>5. targets' \in TargetsType /\ targets' # NoTargets
    <3> DEFINE row == [targets[b].rows[r] EXCEPT !.value = polls + 1]
               rows == [targets[b].rows EXCEPT ![r] = row]
               block == [host |-> targets[b].host, rows |-> rows]
    <3>1. b \in 1..Len(targets) /\ targets \in Seq(BlockSet)
      BY <2>4, TargetsAreBlocks
    <3>2. block \in BlockSet
      <4>1. targets[b].host \in Hosts /\ targets[b].rows \in Seq(RowSet)
        BY <2>4, <3>1, BlockType
      <4>2. r \in 1..Len(targets[b].rows) /\ targets[b].rows[r] \in RowSet
        BY <4>1
      <4>3. row \in RowSet
        BY <2>4, <4>2 DEF RowSet
      <4>4. rows \in Seq(RowSet)
        <5> HIDE DEF row
        <5>. QED
          BY <4>1, <4>3
      <4> HIDE DEF rows
      <4>. QED
        BY <4>1, <4>4 DEF BlockSet
    <3>3. targets' = [targets EXCEPT ![b] = block]
      <4>1. targets[b] = [host |-> targets[b].host, rows |-> targets[b].rows]
        BY <2>4, <3>1, BlockType
      <4>2. [targets[b] EXCEPT !.rows = rows] = block
        <5> HIDE DEF rows
        <5>. QED
          BY <4>1
      <4>3. targets' = [targets EXCEPT ![b] = [targets[b] EXCEPT !.rows = rows]]
        BY <2>3
      <4> HIDE DEF block, rows
      <4>. QED
        BY <4>2, <4>3
    <3>4. targets' \in Seq(BlockSet)
      <4> HIDE DEF block
      <4>. QED
        BY <3>1, <3>2, <3>3
    <3>. QED
      BY <3>4, TargetsAreBlocks
  <2>. QED
    BY <1>14, <2>1, <2>4, <2>5
       DEF PollRow, IInv, TypeOK, Stages, ThreadsUseLiveObjects, ProcessEnded, readVars
<1>15. CASE MonitorDivides
  <2>1. Filled'
    BY <1>15, FilledKept DEF MonitorDivides, IInv, ProcessEnded
  <2>. QED
    BY <1>15, <2>1
       DEF MonitorDivides, IInv, TypeOK, Stages, ThreadsUseLiveObjects, ProcessEnded, readVars
<1>16. CASE SignalKills
  <2>1. Filled'
    BY <1>16, FilledKept DEF SignalKills, IInv, ProcessEnded
  <2>2. running = {}
    BY <1>16 DEF SignalKills, HandlersSet, IInv, Stages, ProcessEnded
  <2>3. signals' \in 0 .. MaxSignals
    BY <1>16, LimitsAssumption DEF SignalKills, IInv, TypeOK
  <2>4. TypeOK'
    BY <1>16, <2>3 DEF SignalKills, IInv, TypeOK, readVars
  <2>5. Stages' /\ ThreadsUseLiveObjects'
    BY <1>16, <2>2 DEF SignalKills, IInv, Stages, ThreadsUseLiveObjects, ProcessEnded
  <2>. QED
    BY <2>1, <2>4, <2>5 DEF IInv
<1>19. CASE sighup_handler
  <2>1. Filled'
    BY <1>19, FilledKept DEF sighup_handler, IInv, ProcessEnded
  <2>3. signals' \in 0 .. MaxSignals
    BY <1>19, LimitsAssumption DEF sighup_handler, IInv, TypeOK
  <2>4. TypeOK'
    BY <1>19, <2>3 DEF sighup_handler, IInv, TypeOK, readVars
  <2>5. Stages' /\ ThreadsUseLiveObjects'
    <3>1. UNCHANGED <<main, testing, running, heapVars>>
      BY <1>19 DEF sighup_handler
    <3>. QED
      BY <3>1, StagesKept DEF IInv
  <2>. QED
    BY <2>1, <2>4, <2>5 DEF IInv
<1>20. CASE sigterm_handler
  <2>1. Filled'
    BY <1>20, FilledKept DEF sigterm_handler, IInv, ProcessEnded
  <2>3. signals' \in 0 .. MaxSignals
    BY <1>20, LimitsAssumption DEF sigterm_handler, IInv, TypeOK
  <2>4. TypeOK'
    BY <1>20, <2>3 DEF sigterm_handler, IInv, TypeOK, readVars
  <2>5. Stages' /\ ThreadsUseLiveObjects'
    <3>1. UNCHANGED <<main, testing, running, heapVars>>
      BY <1>20 DEF sigterm_handler
    <3>. QED
      BY <3>1, StagesKept DEF IInv
  <2>. QED
    BY <2>1, <2>4, <2>5 DEF IInv
<1>21. CASE SigtermSecondStore
  <2>1. Filled'
    BY <1>21, FilledKept DEF SigtermSecondStore, IInv, ProcessEnded
  <2>2. TypeOK'
    <3>1. /\ handler' \in BOOLEAN /\ full_stop_requested' \in BOOLEAN
          /\ UNCHANGED <<main, startVars, thread_stop_requested, signals, running, fileVars,
                         readVars, heapVars, polls>>
      BY <1>21 DEF SigtermSecondStore
    <3>. QED
      BY <3>1, Zenon DEF IInv, TypeOK, readVars
  <2>3. Stages' /\ ThreadsUseLiveObjects'
    <3>1. UNCHANGED <<main, testing, running, heapVars>>
      BY <1>21 DEF SigtermSecondStore
    <3>. QED
      BY <3>1, StagesKept DEF IInv
  <2>. QED
    BY <2>1, <2>2, <2>3 DEF IInv
<1>22. CASE EditFile
  <2>1. Filled'
    BY <1>22, FilledKept DEF EditFile, IInv, ProcessEnded
  <2>2. TypeOK'
    BY <1>22 DEF EditFile, IInv, TypeOK, readVars
  <2>3. Stages' /\ ThreadsUseLiveObjects'
    <3>1. UNCHANGED <<main, testing, running, heapVars>>
      BY <1>22 DEF EditFile
    <3>. QED
      BY <3>1, StagesKept DEF IInv
  <2>. QED
    BY <2>1, <2>2, <2>3 DEF IInv
<1>17. CASE UNCHANGED vars
  <2>1. Filled'
    BY <1>17, FilledKept DEF vars, IInv, ProcessEnded
  <2>2. TypeOK'
    BY <1>17 DEF vars, IInv, TypeOK, readVars
  <2>3. Stages' /\ ThreadsUseLiveObjects'
    <3>1. UNCHANGED <<main, testing, running, heapVars>>
      BY <1>17 DEF vars
    <3>. QED
      BY <3>1, StagesKept DEF IInv
  <2>. QED
    BY <2>1, <2>2, <2>3 DEF IInv
<1>. QED
  BY <1>1, <1>2, <1>3, <1>4, <1>5, <1>6, <1>7, <1>8, <1>9, <1>10, <1>11, <1>12, <1>13, <1>14,
     <1>15, <1>16, <1>17, <1>18, <1>19, <1>20, <1>21, <1>22 DEF Next, main_loop, Rest

THEOREM Invariant == Spec => []IInv
BY InitialInvariant, NextInvariant, PTL DEF Spec

\* The variables of the main thread keep their types, among them the targets
\* that a reload makes out of two files (main.c:54-55).
THEOREM TypeCorrect == Spec => []TypeOK
<1>1. IInv => TypeOK
  BY DEF IInv
<1>. QED
  BY <1>1, Invariant, PTL

\* Threads use the queue, the configuration and the targets only while they are
\* allocated, in every life of the process (main.c:195-198, 238-255).
THEOREM LiveObjects == Spec => []ThreadsUseLiveObjects
<1>1. IInv => ThreadsUseLiveObjects
  BY DEF IInv
<1>. QED
  BY <1>1, Invariant, PTL

\* Whatever stands in rtg.conf, and whatever is written to it later, a life
\* works with the last value of every directive in the file it read, and with
\* a database (rtgconf.c:43-88).
THEOREM ConfigurationAsWritten == Spec => []ConfigAsWritten
<1>1. IInv => ConfigAsWritten
  <2> SUFFICES ASSUME IInv, config # NoConfig, main # "directives", ~ProcessEnded
               PROVE  /\ \A d \in Directives : config[d] = Given(d)
                      /\ \A d \in {"db_host", "db_database", "db_user"} : Given(d) # Absent
    BY DEF ConfigAsWritten
  <2>1. line - 1 = Len(opened)
    BY ConfigAssumption DEF IInv, Filled, TypeOK
  <2>2. \A d \in Directives : config[d] = Given(d)
    BY <2>1, WholeFile DEF IInv, Filled
  <2>3. Verified(config)
    BY DEF IInv, Filled
  <2>. QED
    BY <2>2, <2>3 DEF Verified, Directives
<1>. QED
  BY <1>1, Invariant, PTL

\* A reload gives the first row of every host and OID that is found again a
\* value it had before, in whatever order and however often the two files name
\* the hosts and the OIDs, and leaves every other row alone
\* (rtgtargets.c:392-431).
THEOREM ReloadKeepsCache == Spec => CacheSurvivesReload
<1>1. ASSUME IInv, Next, main = "copy", main' = "reset", old_targets # NoTargets,
             NEW d \in DOMAIN targets, NEW r \in DOMAIN targets[d].rows
      PROVE  LET row == targets[d].rows[r]
                 before == Cached(old_targets, targets[d].host, row.oid)
             IN IF FirstBlock(targets, d) /\ FirstRow(targets[d], r) /\ before # {}
                THEN \E v \in before : targets'[d].rows[r] = [oid |-> row.oid, value |-> v]
                ELSE targets'[d].rows[r] = row
  <2> DEFINE row == targets[d].rows[r]
             before == Cached(old_targets, targets[d].host, row.oid)
             S == Sources(targets, old_targets, d, row.oid)
  <2>1. /\ targets \in TargetsType /\ old_targets \in TargetsType
        /\ DOMAIN targets = 1..Len(targets) /\ DOMAIN old_targets = 1..Len(old_targets)
    BY <1>1 DEF IInv, TypeOK, Stages, TargetsType
  <2>2. targets' = Copied(targets, old_targets)
    BY <1>1 DEF Next, main_loop, CheckOptions, daemonize, MainWhile, OpenConfig, ConfigMissing,
       ReadDirective, VerifyConfig, ReadTargets, CopyCache, ResetStop, CreateQueue, StartThreads,
       JoinThreads, ThreadsEnd, PollRow, MonitorDivides, SignalKills, sighup_handler,
       sigterm_handler, SigtermSecondStore, EditFile, Rest, vars
  <2>3. d \in 1..Len(targets) /\ targets[d] \in BlockSet /\ r \in 1..Len(targets[d].rows)
    <3>1. d \in 1..Len(targets)
      BY <2>1
    <3>2. targets[d] \in BlockSet /\ targets[d].rows \in Seq(RowSet)
      BY <2>1, <3>1, BlockType
    <3>. QED
      BY <3>1, <3>2
  <2>4. targets'[d].rows[r] = CopiedRow(targets, old_targets, d, r)
    BY <2>1, <2>2, <2>3, CopiedValue
  <2>5. S # {} <=> FirstBlock(targets, d) /\ before # {}
    <3>1. ASSUME NEW s \in S
          PROVE  FirstBlock(targets, d) /\ before # {}
      <4>1. /\ s \in DOMAIN old_targets /\ d \in FindHost(targets, old_targets[s].host)
            /\ RowsOf(old_targets[s], row.oid) # {}
        BY <2>1 DEF Sources
      <4>2. old_targets[s].host = targets[d].host
        BY <2>1, <4>1, FindHostFinds
      <4>3. FirstBlock(targets, d)
        BY <2>1, <2>3, <4>1, <4>2, FirstIsFound
      <4>4. PICK k \in RowsOf(old_targets[s], row.oid) : TRUE
        BY <4>1
      <4>5. old_targets[s].rows[k].value \in before
        BY <4>1, <4>2 DEF Cached
      <4>. QED
        BY <4>3, <4>5
    <3>2. ASSUME FirstBlock(targets, d), NEW v \in before
          PROVE  S # {}
      <4>1. PICK s \in DOMAIN old_targets : /\ old_targets[s].host = targets[d].host
                                            /\ RowsOf(old_targets[s], row.oid) # {}
        BY DEF Cached
      <4>2. d \in FindHost(targets, targets[d].host)
        BY <2>1, <2>3, <3>2, FirstIsFound
      <4>3. s \in S
        BY <2>1, <4>1, <4>2 DEF Sources
      <4>. QED
        BY <4>3
    <3>. QED
      BY <3>1, <3>2
  <2>6. Refilled(targets, old_targets, d, r) <=>
          FirstBlock(targets, d) /\ FirstRow(targets[d], r) /\ before # {}
    BY <2>3, <2>5, FirstRowIsFound DEF Refilled
  <2>7. CASE Refilled(targets, old_targets, d, r)
    <3>1. PICK s \in S :
             /\ old_targets[s] \in BlockSet
             /\ LastBlock(targets, old_targets, d, row.oid) = old_targets[s]
             /\ LastRow(targets, old_targets, d, row.oid) \in RowsOf(old_targets[s], row.oid)
      BY <2>1, <2>7, LastSource DEF Refilled
    <3>2. PICK k \in RowsOf(old_targets[s], row.oid) :
             targets'[d].rows[r] = old_targets[s].rows[k]
      BY <2>4, <2>7, <3>1 DEF CopiedRow
    <3>3. s \in DOMAIN old_targets /\ old_targets[s].host = targets[d].host
      <4>1. s \in DOMAIN old_targets /\ d \in FindHost(targets, old_targets[s].host)
        BY <2>1 DEF Sources
      <4>. QED
        BY <2>1, <4>1, FindHostFinds
    <3>4. old_targets[s].rows[k].value \in before
      BY <3>3 DEF Cached
    <3>5. old_targets[s].rows[k] = [oid |-> row.oid, value |-> old_targets[s].rows[k].value]
      <4>1. k \in 1..Len(old_targets[s].rows) /\ old_targets[s].rows[k].oid = row.oid
        BY DEF RowsOf
      <4>. QED
        BY <3>1, <4>1, RowType
    <3>. QED
      BY <2>6, <2>7, <3>2, <3>4, <3>5
  <2>8. CASE ~Refilled(targets, old_targets, d, r)
    BY <2>4, <2>6, <2>8 DEF CopiedRow
  <2>. QED
    BY <2>7, <2>8
<1>2. IInv /\ [Next]_vars =>
        [(main = "copy" /\ main' = "reset" /\ old_targets # NoTargets) =>
           \A d \in DOMAIN targets : \A r \in DOMAIN targets[d].rows :
             LET row == targets[d].rows[r]
                 before == Cached(old_targets, targets[d].host, row.oid)
             IN IF FirstBlock(targets, d) /\ FirstRow(targets[d], r) /\ before # {}
                THEN \E v \in before : targets'[d].rows[r] = [oid |-> row.oid, value |-> v]
                ELSE targets'[d].rows[r] = row]_vars
  BY <1>1
<1>. QED
  BY <1>2, Invariant, PTL DEF Spec, CacheSurvivesReload

=============================================================================
