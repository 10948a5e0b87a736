-------------------------- MODULE InsertQueryProof --------------------------
(***************************************************************************)
(* Proofs about an insert and its query, for every set of values, every    *)
(* table name and every initial size of two places or one character: what  *)
(* is appended fits, and the query holds the values it should.             *)
(***************************************************************************)
EXTENDS InsertQuery, SequenceTheorems, FiniteSetTheorems, WellFoundedInduction, TLAPS

\* The list of values never has fewer than two places, from which it grows.
IInv == TypeOK /\ BuffersFit /\ space >= 2

-----------------------------------------------------------------------------
\* After growing by half there is room for one more element, if there were
\* two places or more; from one place the new size, rounded down, is one
\* again (clinsert.c:37).
LEMMA RoomForMore ==
  ASSUME NEW n \in Nat, NEW places \in Nat, places >= 2, n <= places
  PROVE  /\ Room(n, places) \in Nat
         /\ Room(n, places) >= 2
         /\ n + 1 <= Room(n, places)
BY DEF Room, Grown

\* What grows is not smaller afterwards.
LEMMA GrownIsEnough ==
  ASSUME NEW places \in Nat
  PROVE  Grown(places) \in Nat /\ Grown(places) >= places
BY DEF Grown

-----------------------------------------------------------------------------
(* The pieces.                                                             *)

\* What stands for a text of the query is a piece.
LEMMA TextType ==
  ASSUME NEW text \in Texts, NEW size \in Nat
  PROVE  Text(text, size) \in PieceType
BY WordAssumption DEF Text, PieceType

\* So is what stands for a number.
LEMMA NumberType ==
  ASSUME NEW n \in 0..(Wide - 1)
  PROVE  Number(n) \in PieceType
<1>1. n % Wide = n
  BY WordAssumption
<1>. QED
  BY <1>1, ValuesAssumption DEF Number, PieceType, Texts

\* The separator is a piece ...
LEMMA CommaType == Comma \in PieceType
BY TextType DEF Comma, Texts

\* ... and what is before the first value is pieces.
LEMMA HeaderType == TypeOK => Header \in Seq(PieceType)
<1> SUFFICES ASSUME TypeOK PROVE Header \in Seq(PieceType)
  OBVIOUS
<1>1. table \in Nat 
  BY ValuesAssumption DEF TypeOK
<1>2. <<Text("insert", 12), Text("table", table), Text("columns", 20)>> \in Seq(PieceType)
  <2>1. Text("insert", 12) \in PieceType
    BY TextType DEF Texts
  <2>2. Text("table", table) \in PieceType
    BY <1>1, TextType DEF Texts
  <2>3. Text("columns", 20) \in PieceType
    BY TextType DEF Texts
  <2>. QED
    BY <2>1, <2>2, <2>3
<1>3. Optional(config.use_rate_column, <<Text("rate", 6)>>) \in Seq(PieceType)
  <2>1. <<Text("rate", 6)>> \in Seq(PieceType)
    BY TextType DEF Texts
  <2>. QED
    BY <2>1 DEF Optional
<1>4. Optional(config.use_currvalue_column, <<Text("currvalue", 11)>>) \in Seq(PieceType)
  <2>1. <<Text("currvalue", 11)>> \in Seq(PieceType)
    BY TextType DEF Texts
  <2>. QED
    BY <2>1 DEF Optional
<1>5. <<Text("values", 9)>> \in Seq(PieceType)
  BY TextType DEF Texts
<1>. QED
  BY <1>2, <1>3, <1>4, <1>5 DEF Header

\* What stands for a value, but for its closing bracket, is pieces ...
LEMMA SeriesPieces ==
  ASSUME TypeOK, NEW v \in ValueType
  PROVE  <<Text("open", 1), Number(v.id), Text("from_unixtime", 16), Number(v.dtime),
           Text("close", 1), Comma, Number(v.counter)>> \o Extras(v) \in Seq(PieceType)
<1>1. /\ v.id \in 0..(Wide - 1) /\ v.dtime \in 0..(Wide - 1) /\ v.counter \in 0..(Wide - 1)
      /\ v.rate \in 0..(Wide - 1) /\ Unsigned(v.currvalue) \in 0..(Wide - 1)
  BY WordAssumption DEF ValueType, Unsigned
<1>3. /\ Number(v.id) \in PieceType /\ Number(v.dtime) \in PieceType
      /\ Number(v.counter) \in PieceType /\ Number(v.rate) \in PieceType
      /\ Number(Unsigned(v.currvalue)) \in PieceType
  BY <1>1, NumberType
<1>4. /\ Text("open", 1) \in PieceType /\ Text("from_unixtime", 16) \in PieceType
      /\ Text("close", 1) \in PieceType /\ Comma \in PieceType
  BY TextType, CommaType DEF Texts
<1>5. <<Text("open", 1), Number(v.id), Text("from_unixtime", 16), Number(v.dtime),
        Text("close", 1), Comma, Number(v.counter)>> \in Seq(PieceType)
  BY <1>3, <1>4
<1>6. Extras(v) \in Seq(PieceType)
  <2>1. <<Comma, Number(v.rate)>> \in Seq(PieceType)
    BY <1>3, <1>4
  <2>2. <<Comma, Number(Unsigned(v.currvalue))>> \in Seq(PieceType)
    BY <1>3, <1>4
  <2>. QED
    BY <2>1, <2>2 DEF Extras, Optional
<1>. QED
  BY <1>5, <1>6

\* ... and all of it is.
LEMMA SeriesType ==
  ASSUME TypeOK, NEW v \in ValueType
  PROVE  Series(v) \in Seq(PieceType)
<1>1. <<Text("close", 1)>> \in Seq(PieceType)
  BY TextType DEF Texts
<1>. QED
  BY <1>1, SeriesPieces DEF Series

-----------------------------------------------------------------------------
(* The invariant.                                                          *)

LEMMA InitialInvariant == Init => IInv
BY SpaceAssumption DEF Init, IInv, TypeOK, BuffersFit, NULL

\* Appending a piece leaves room for the terminating zero.
LEMMA AppendFits ==
  ASSUME IInv, NEW piece \in PieceType, clgstr_append(piece)
  PROVE  /\ string' \in Seq(PieceType) /\ length' \in Nat /\ allocated' \in Nat
         /\ length' + 1 <= allocated'
<1>1. /\ string \in Seq(PieceType) /\ length \in Nat /\ allocated \in Nat
      /\ length + 1 <= allocated /\ piece.size \in Nat
  BY DEF IInv, TypeOK, BuffersFit, PieceType
<1>2. CASE NeedsRoom(piece.size)
  <2> DEFINE needed == allocated + piece.size + 1
  <2>1. Grown(needed) \in Nat /\ Grown(needed) >= needed
    <3>1. needed \in Nat
      BY <1>1
    <3> HIDE DEF needed
    <3>. QED
      BY <3>1, GrownIsEnough
  <2>2. allocated' = Grown(needed)
    BY <1>2 DEF clgstr_append
  <2>. QED
    BY <1>1, <2>1, <2>2 DEF clgstr_append
<1>3. CASE ~NeedsRoom(piece.size)
  BY <1>1, <1>3 DEF clgstr_append, NeedsRoom
<1>. QED
  BY <1>2, <1>3

LEMMA NextInvariant == IInv /\ [Next]_vars => IInv'
<1> SUFFICES ASSUME IInv, [Next]_vars PROVE IInv'
  OBVIOUS
<1> USE DEF insertVars, stringVars
<1>1. ASSUME NEW v \in Values, clinsert_push_value(v)
      PROVE  IInv'
  <2>1. v \in ValueType
    BY ValuesAssumption
  <2>2. Room(Len(values), space) \in Nat /\ Room(Len(values), space) >= 2
        /\ Len(values) + 1 <= Room(Len(values), space)
    BY RoomForMore DEF IInv, TypeOK, BuffersFit
  <2>3. values' \in Seq(ValueType) /\ Len(values') = Len(values) + 1
    BY <1>1, <2>1 DEF IInv, TypeOK, clinsert_push_value
  <2>. QED
    BY <1>1, <2>2, <2>3 DEF IInv, TypeOK, BuffersFit, clinsert_push_value
<1>2. CASE BuildStarts
  <2>1. Header \in Seq(PieceType)
    BY HeaderType DEF IInv
  <2>. QED
    BY <1>2, <2>1 DEF IInv, TypeOK, BuffersFit, BuildStarts
<1>3. CASE AppendPiece
  <2>1. Head(pending) \in PieceType /\ Tail(pending) \in Seq(PieceType)
    BY <1>3 DEF AppendPiece, IInv, TypeOK
  <2>2. /\ string' \in Seq(PieceType) /\ length' \in Nat /\ allocated' \in Nat
        /\ length' + 1 <= allocated'
    BY <1>3, <2>1, AppendFits DEF AppendPiece
  <2>. QED
    BY <1>3, <2>1, <2>2 DEF IInv, TypeOK, BuffersFit, AppendPiece
<1>4. CASE NextValue
  <2>1. ASSUME Stored(values[i])
        PROVE  Optional(Separator, <<Comma>>) \o Series(values[i]) \in Seq(PieceType)
    <3>1. values[i] \in ValueType
      BY <1>4 DEF NextValue, IInv, TypeOK
    <3>2. Series(values[i]) \in Seq(PieceType)
      BY <3>1, SeriesType DEF IInv
    <3>3. Optional(Separator, <<Comma>>) \in Seq(PieceType)
      BY CommaType DEF Optional
    <3>. QED
      BY <3>2, <3>3
  <2>2. pending' \in Seq(PieceType) /\ rows' \in Nat
    <3>1. CASE Stored(values[i])
      <4>1. /\ pending' = Optional(Separator, <<Comma>>) \o Series(values[i])
            /\ rows' = rows + 1
        BY <1>4, <3>1 DEF NextValue
      <4>. QED
        BY <2>1, <3>1, <4>1 DEF IInv, TypeOK
    <3>2. CASE ~Stored(values[i])
      BY <1>4, <3>2 DEF NextValue, IInv, TypeOK
    <3>. QED
      BY <3>1, <3>2
  <2>3. /\ i' = i + 1
        /\ UNCHANGED <<config, table, values, space, stage, string, length, allocated, result>>
    BY <1>4 DEF NextValue
  <2>. QED
    BY <2>2, <2>3 DEF IInv, TypeOK, BuffersFit
<1>5. CASE QueryBuilt
  BY <1>5 DEF IInv, TypeOK, BuffersFit, QueryBuilt, NULL
<1>6. CASE UNCHANGED vars
  BY <1>6 DEF vars, IInv, TypeOK, BuffersFit
<1>. QED
  BY <1>1, <1>2, <1>3, <1>4, <1>5, <1>6 DEF Next, Rest

THEOREM Invariant == Spec => []IInv
BY InitialInvariant, NextInvariant, PTL DEF Spec

\* The insert's and the query's variables have their types in every state.
THEOREM TypeCorrect == Spec => []TypeOK
<1>1. IInv => TypeOK
  BY DEF IInv
<1>. QED
  BY <1>1, Invariant, PTL

\* However long the table's name and the numbers are, and however many values
\* there are, the list of values and the string hold what is appended
\* (clinsert.c:36, clgstr.c:38-47).
THEOREM AppendsFitBuffers == Spec => []BuffersFit
<1>1. IInv => BuffersFit
  BY DEF IInv
<1>. QED
  BY <1>1, Invariant, PTL

-----------------------------------------------------------------------------
(* What the query holds.                                                   *)

\* Every set of naturals with an element has a least one.
LEMMA LeastElement ==
  ASSUME NEW S, S \subseteq Nat, S # {}
  PROVE  \E x \in S : \A y \in S : x <= y
<1> DEFINE R == {p \in Nat \X Nat : p[1] < p[2]}
<1>1. IsWellFoundedOn(R, Nat)
  BY NatLessThanWellFounded, Zenon DEF OpToRel
<1>2. \E x \in S : \A y \in S : <<y, x>> \notin R
  <2> HIDE DEF R
  <2>. QED
    BY <1>1, WFMin, Zenon
<1>3. ASSUME NEW x \in S, NEW y \in S, <<y, x>> \notin R
      PROVE  x <= y
  <2>1. <<y, x>> \in Nat \X Nat
    OBVIOUS
  <2>. QED
    BY <1>3, <2>1
<1>. QED
  BY <1>2, <1>3

\* What value k adds to the series before it.
Longer(before, k) ==
  IF ~Chosen(values[k]) THEN before
  ELSE (before \o Optional(before # <<>>, <<Comma>>)) \o Series(values[k])

\* SeriesUpTo is defined for every number of values: a first value that no such
\* function reaches would be one past the last that one reaches.
LEMMA SeriesExist ==
  ASSUME TypeOK
  PROVE  SeriesUpTo = [k \in 0..Len(values) |->
                         IF k = 0 THEN <<>> ELSE Longer(SeriesUpTo[k - 1], k)]
<1> DEFINE Reach(n) == \E f : f = [k \in 0..n |-> IF k = 0 THEN <<>> ELSE Longer(f[k - 1], k)]
           short == {n \in 0..Len(values) : ~Reach(n)}
<1>1. Len(values) \in Nat
  BY DEF TypeOK
<1>2. Reach(0)
  <2> DEFINE f == [k \in 0..0 |-> <<>>]
  <2>1. f = [k \in 0..0 |-> IF k = 0 THEN <<>> ELSE Longer(f[k - 1], k)]
    OBVIOUS
  <2>. QED
    BY <2>1
<1>3. ASSUME NEW n \in 1..Len(values), Reach(n - 1)
      PROVE  Reach(n)
  <2>1. PICK f : f = [k \in 0..(n - 1) |-> IF k = 0 THEN <<>> ELSE Longer(f[k - 1], k)]
    BY <1>3
  <2> DEFINE g == [k \in 0..n |-> IF k = n THEN Longer(f[n - 1], n) ELSE f[k]]
             step == [k \in 0..n |-> IF k = 0 THEN <<>> ELSE Longer(g[k - 1], k)]
  <2>2. ASSUME NEW k \in 0..n
        PROVE  g[k] = step[k]
    <3>1. CASE k = 0
      BY <1>1, <2>1, <3>1
    <3>2. CASE k = n
      BY <1>1, <3>2
    <3>3. CASE k \in 1..(n - 1)
      <4>1. f[k] = Longer(f[k - 1], k)
        BY <1>1, <2>1, <3>3
      <4>2. g[k] = f[k] /\ g[k - 1] = f[k - 1]
        BY <1>1, <3>3
      <4>. QED
        BY <1>1, <3>3, <4>1, <4>2
    <3>. QED
      BY <1>1, <3>1, <3>2, <3>3
  <2>3. g = step
    BY <2>2
  <2>. QED
    BY <2>3
<1>4. short = {}
  <2>1. SUFFICES ASSUME short # {} PROVE FALSE
    OBVIOUS
  <2>2. short \subseteq Nat
    BY <1>1
  <2>3. PICK n \in short : \A m \in short : n <= m
    <3> HIDE DEF short
    <3>. QED
      BY <2>1, <2>2, LeastElement
  <2>4. n \in 0..Len(values) /\ ~Reach(n)
    OBVIOUS
  <2> HIDE DEF Reach
  <2>5. n \in 1..Len(values) /\ n - 1 \in 0..Len(values) /\ ~(n <= n - 1)
    BY <1>1, <1>2, <2>4
  <2>6. Reach(n - 1)
    BY <2>3, <2>5
  <2>. QED
    BY <1>3, <2>4, <2>5, <2>6
<1>5. Reach(Len(values))
  <2> HIDE DEF Reach
  <2>. QED
    BY <1>1, <1>4
<1>6. SeriesUpTo = CHOOSE f : f = [k \in 0..Len(values) |->
                                     IF k = 0 THEN <<>> ELSE Longer(f[k - 1], k)]
  BY DEF SeriesUpTo, Longer
<1>. QED
  BY <1>5, <1>6

\* They are pieces, and a value that is chosen makes them longer.
LEMMA SeriesAre ==
  ASSUME TypeOK
  PROVE  /\ SeriesUpTo[0] = <<>>
         /\ \A k \in 1..Len(values) : SeriesUpTo[k] = Longer(SeriesUpTo[k - 1], k)
         /\ \A k \in 0..Len(values) : SeriesUpTo[k] \in Seq(PieceType)
<1>1. Len(values) \in Nat /\ values \in Seq(ValueType)
  BY DEF TypeOK
<1>2. /\ SeriesUpTo[0] = <<>>
      /\ \A k \in 1..Len(values) : SeriesUpTo[k] = Longer(SeriesUpTo[k - 1], k)
  <2> DEFINE S == SeriesUpTo
  <2>1. S = [k \in 0..Len(values) |-> IF k = 0 THEN <<>> ELSE Longer(S[k - 1], k)]
    BY SeriesExist
  <2> HIDE DEF S
  <2>2. S[0] = <<>> /\ \A k \in 1..Len(values) : S[k] = Longer(S[k - 1], k)
    BY <1>1, <2>1
  <2>. QED
    BY <2>2 DEF S
<1>3. ASSUME NEW k \in 1..Len(values), NEW before \in Seq(PieceType)
      PROVE  Longer(before, k) \in Seq(PieceType)
  <2>1. Series(values[k]) \in Seq(PieceType)
    BY <1>1, SeriesType
  <2>2. Optional(before # <<>>, <<Comma>>) \in Seq(PieceType)
    BY CommaType DEF Optional
  <2>. QED
    BY <2>1, <2>2 DEF Longer
<1> DEFINE wrong == {k \in 0..Len(values) : SeriesUpTo[k] \notin Seq(PieceType)}
<1>4. wrong = {}
  <2>1. SUFFICES ASSUME wrong # {} PROVE FALSE
    OBVIOUS
  <2>2. PICK k \in wrong : \A m \in wrong : k <= m
    <3>1. wrong \subseteq Nat
      BY <1>1
    <3> HIDE DEF wrong
    <3>. QED
      BY <2>1, <3>1, LeastElement
  <2>3. k # 0
    BY <1>2, EmptySeq
  <2>4. k \in 1..Len(values) /\ k - 1 \in 0..Len(values) /\ ~(k <= k - 1)
    BY <1>1, <2>3
  <2>5. SeriesUpTo[k - 1] \in Seq(PieceType)
    BY <2>2, <2>4
  <2>. QED
    BY <1>2, <1>3, <2>4, <2>5
<1>. QED
  BY <1>2, <1>4

\* The string with what is still to be appended of a piece of code is the
\* header and the series of the values before the next.
Built ==
  /\ stage = "pushing" => string = <<>> /\ pending = <<>> /\ i = 1 /\ rows = 0
  /\ stage = "building" => /\ i \in 1..(Len(values) + 1)
                           /\ string \o pending = Header \o SeriesUpTo[i - 1]
                           /\ rows > 0 <=> SeriesUpTo[i - 1] # <<>>
  /\ stage = "done" => LET all == SeriesUpTo[Len(values)]
                       IN result = IF all = <<>> THEN NULL ELSE Header \o all

\* A value has at least its closing bracket.
LEMMA SeriesNotEmpty ==
  ASSUME TypeOK, NEW v \in ValueType
  PROVE  Series(v) # <<>>
<1> DEFINE s == <<Text("open", 1), Number(v.id), Text("from_unixtime", 16), Number(v.dtime),
                  Text("close", 1), Comma, Number(v.counter)>> \o Extras(v)
           t == <<Text("close", 1)>>
<1>1. Series(v) = s \o t
  BY DEF Series
<1>2. s \in Seq(PieceType)
  BY SeriesPieces
<1>3. t \in Seq(PieceType) /\ t # <<>>
  BY TextType DEF Texts
<1> HIDE DEF s, t
<1>. QED
  BY <1>1, <1>2, <1>3, ConcatEqualIffEmpty

\* Moving the first piece from what is pending to the string changes nothing.
LEMMA MovedPiece ==
  ASSUME NEW S, NEW s \in Seq(S), NEW t \in Seq(S), t # <<>>
  PROVE  Append(s, Head(t)) \o Tail(t) = s \o t
<1>1. t = <<Head(t)>> \o Tail(t) /\ Append(s, Head(t)) = s \o <<Head(t)>>
  OBVIOUS
<1>2. <<Head(t)>> \in Seq(S) /\ Tail(t) \in Seq(S)
  BY HeadTailProperties
<1>. QED
  BY <1>1, <1>2, ConcatAssociative

\* While the values and the columns stay, so do the series and the header.
LEMMA SameSeries ==
  ASSUME UNCHANGED <<config, table, values>>
  PROVE  SeriesUpTo' = SeriesUpTo /\ Header' = Header
BY DEF SeriesUpTo, Header, Chosen, Series, Extras

LEMMA BuiltStep == TypeOK /\ TypeOK' /\ Built /\ [Next]_vars => Built'
<1> SUFFICES ASSUME TypeOK, TypeOK', Built, [Next]_vars PROVE Built'
  OBVIOUS
<1>1. ASSUME NEW v \in Values, clinsert_push_value(v)
      PROVE  Built'
  BY <1>1 DEF Built, clinsert_push_value, stringVars
<1>2. CASE BuildStarts
  <2>1. /\ stage = "pushing" /\ stage' = "building" /\ pending' = Header /\ string' = <<>>
        /\ i' = 1 /\ rows' = 0 /\ UNCHANGED <<config, table, values>>
    BY <1>2 DEF BuildStarts, Built, insertVars, stringVars
  <2>2. SeriesUpTo' = SeriesUpTo /\ Header' = Header
    BY <2>1, SameSeries
  <2>3. Header \in Seq(PieceType) /\ Len(values) \in Nat
    BY HeaderType DEF TypeOK
  <2>4. string' \o pending' = Header \o <<>>
    BY <2>1, <2>3, ConcatEmptySeq
  <2>5. SeriesUpTo[0] = <<>>
    BY SeriesAre
  <2>. QED
    BY <2>1, <2>2, <2>3, <2>4, <2>5 DEF Built
<1>3. CASE AppendPiece
  <2>1. /\ stage = "building" /\ pending # <<>> /\ pending' = Tail(pending)
        /\ string' = Append(string, Head(pending))
        /\ UNCHANGED <<config, table, values, stage, i, rows>>
    BY <1>3 DEF AppendPiece, clgstr_append, insertVars
  <2>2. string' \o pending' = string \o pending
    BY <2>1, MovedPiece DEF TypeOK
  <2>3. SeriesUpTo' = SeriesUpTo /\ Header' = Header
    BY <2>1, SameSeries
  <2>. QED
    BY <2>1, <2>2, <2>3 DEF Built
<1>4. CASE NextValue
  <2>1. /\ stage = "building" /\ pending = <<>> /\ i <= Len(values) /\ i' = i + 1
        /\ UNCHANGED <<config, table, values, stage, string>>
    BY <1>4 DEF NextValue, insertVars, stringVars
  <2>2. SeriesUpTo' = SeriesUpTo /\ Header' = Header
    BY <2>1, SameSeries
  <2>3. /\ i \in 1..Len(values) /\ i - 1 \in 0..Len(values)
        /\ i' \in 1..(Len(values) + 1) /\ i' - 1 = i
    BY <2>1 DEF TypeOK
  <2>4. values[i] \in ValueType /\ values[i].rate \in Nat
    <3>1. values[i] \in ValueType
      BY <2>3 DEF TypeOK
    <3>2. \A v \in ValueType : v.rate \in Nat
      BY WordAssumption DEF ValueType
    <3>. QED
      BY <3>1, <3>2
  <2>5. Stored(values[i]) <=> Chosen(values[i])
    BY <2>4 DEF Stored, Chosen
  <2> DEFINE before == SeriesUpTo[i - 1]
  <2>6. /\ SeriesUpTo[i] = Longer(before, i)
        /\ before \in Seq(PieceType) /\ Header \in Seq(PieceType) /\ string \in Seq(PieceType)
    BY <2>3, SeriesAre, HeaderType DEF TypeOK
  <2> HIDE DEF before
  <2>7. string = Header \o before /\ (rows > 0 <=> before # <<>>)
    <3>1. string \o <<>> = string
      BY <2>6, ConcatEmptySeq
    <3>. QED
      BY <2>1, <3>1 DEF Built, before
  <2>8. CASE ~Chosen(values[i])
    <3>1. pending' = <<>> /\ rows' = rows /\ SeriesUpTo[i] = before
      BY <1>4, <2>1, <2>5, <2>6, <2>8 DEF NextValue, Longer
    <3>2. string' \o pending' = Header \o SeriesUpTo[i]
      BY <2>1, <2>6, <2>7, <3>1, ConcatEmptySeq
    <3>. QED
      BY <2>1, <2>2, <2>3, <2>7, <3>1, <3>2 DEF Built
  <2>9. CASE Chosen(values[i])
    <3> DEFINE sep == Optional(before # <<>>, <<Comma>>)
               own == Series(values[i])
    <3>1. pending' = sep \o own /\ rows' = rows + 1 /\ SeriesUpTo[i] = (before \o sep) \o own
      <4>1. Optional(Separator, <<Comma>>) = sep
        BY <2>7 DEF Optional, Separator
      <4>2. pending' = Optional(Separator, <<Comma>>) \o own /\ rows' = rows + 1
        BY <1>4, <2>5, <2>9 DEF NextValue
      <4>3. SeriesUpTo[i] = (before \o sep) \o own
        BY <2>6, <2>9 DEF Longer
      <4>. QED
        BY <4>1, <4>2, <4>3
    <3>2. sep \in Seq(PieceType) /\ own \in Seq(PieceType)
      BY <2>4, SeriesType, CommaType DEF Optional
    <3>3. own # <<>>
      BY <2>4, SeriesNotEmpty
    <3> HIDE DEF sep, own
    <3>4. (before \o sep) \o own = before \o (sep \o own)
      BY <2>6, <3>2, ConcatAssociative
    <3>5. (Header \o before) \o (sep \o own) = Header \o (before \o (sep \o own))
      <4>1. sep \o own \in Seq(PieceType)
        BY <3>2, ConcatProperties
      <4> DEFINE both == sep \o own
      <4>2. both \in Seq(PieceType)
        BY <4>1
      <4>3. (Header \o before) \o both = Header \o (before \o both)
        <5> HIDE DEF both
        <5>. QED
          BY <2>6, <4>2, ConcatAssociative
      <4>. QED
        BY <4>3
    <3>6. string' \o pending' = Header \o SeriesUpTo[i]
      BY <2>1, <2>7, <3>1, <3>4, <3>5
    <3>7. SeriesUpTo[i] # <<>>
      BY <2>6, <3>1, <3>2, <3>3, ConcatEqualIffEmpty, ConcatProperties
    <3>8. rows' > 0
      BY <3>1 DEF TypeOK
    <3>. QED
      BY <2>1, <2>2, <2>3, <3>6, <3>7, <3>8 DEF Built
  <2>. QED
    BY <2>8, <2>9
<1>5. CASE QueryBuilt
  <2>1. /\ stage = "building" /\ pending = <<>> /\ i > Len(values) /\ stage' = "done"
        /\ result' = IF rows > 0 THEN string ELSE NULL
        /\ UNCHANGED <<config, table, values>>
    BY <1>5 DEF QueryBuilt, insertVars
  <2>2. SeriesUpTo' = SeriesUpTo /\ Header' = Header
    BY <2>1, SameSeries
  <2>3. i - 1 = Len(values)
    <3>1. i \in Nat /\ Len(values) \in Nat
      BY DEF TypeOK
    <3>2. i - 1 <= Len(values)
      BY <2>1 DEF Built
    <3>. QED
      BY <2>1, <3>1, <3>2
  <2>4. string = Header \o SeriesUpTo[Len(values)]
    <3>1. string \o <<>> = string
      BY ConcatEmptySeq DEF TypeOK
    <3>. QED
      BY <2>1, <2>3, <3>1 DEF Built
  <2>5. rows > 0 <=> SeriesUpTo[Len(values)] # <<>>
    BY <2>1, <2>3 DEF Built
  <2>. QED
    BY <2>1, <2>2, <2>4, <2>5 DEF Built
<1>6. CASE UNCHANGED vars
  <2>1. SeriesUpTo' = SeriesUpTo /\ Header' = Header
    BY <1>6, SameSeries DEF vars, insertVars
  <2>. QED
    BY <1>6, <2>1 DEF vars, insertVars, stringVars, Built
<1>. QED
  BY <1>1, <1>2, <1>3, <1>4, <1>5, <1>6 DEF Next, Rest

-----------------------------------------------------------------------------
(* A field for every column.                                               *)

\* A set with one more element.
LEMMA OneMore ==
  ASSUME NEW S, IsFiniteSet(S), NEW n \in Nat, Cardinality(S) = n, NEW x, x \notin S
  PROVE  IsFiniteSet(S \cup {x}) /\ Cardinality(S \cup {x}) = n + 1
BY FS_AddElement

\* The sizes of the sets of fields and of optional columns that there can be.
LEMMA Sizes ==
  /\ Cardinality({}) = 0 /\ Cardinality({4}) = 1 /\ Cardinality({4, 5}) = 2
  /\ Cardinality({2, 4, 7}) = 3 /\ Cardinality({2, 4, 7, 9}) = 4
  /\ Cardinality({2, 4, 7, 9, 11}) = 5
<1>1. Cardinality({}) = 0
  BY FS_EmptySet
<1>2. \A x : IsFiniteSet({x}) /\ Cardinality({x}) = 1
  BY FS_Singleton
<1>3. Cardinality({4, 5}) = 2
  <2>1. IsFiniteSet({4}) /\ Cardinality({4}) = 1 /\ 1 \in Nat /\ 5 \notin {4}
    <3>1. 1 \in Nat /\ 5 \notin {4}
      OBVIOUS
    <3>. QED
      BY <1>2, <3>1, Zenon
  <2>2. Cardinality({4} \cup {5}) = 1 + 1
    BY <2>1, OneMore, Zenon
  <2>3. {4, 5} = {4} \cup {5} /\ 1 + 1 = 2
    OBVIOUS
  <2>. QED
    BY <2>2, <2>3, Zenon
<1>4. IsFiniteSet({2, 4}) /\ Cardinality({2, 4}) = 2
  <2>1. IsFiniteSet({2}) /\ Cardinality({2}) = 1 /\ 1 \in Nat /\ 4 \notin {2}
    <3>1. 1 \in Nat /\ 4 \notin {2}
      OBVIOUS
    <3>. QED
      BY <1>2, <3>1, Zenon
  <2>2. IsFiniteSet({2} \cup {4}) /\ Cardinality({2} \cup {4}) = 1 + 1
    BY <2>1, OneMore, Zenon
  <2>3. {2, 4} = {2} \cup {4} /\ 1 + 1 = 2
    OBVIOUS
  <2>. QED
    BY <2>2, <2>3, Zenon
<1>5. IsFiniteSet({2, 4, 7}) /\ Cardinality({2, 4, 7}) = 3
  <2>1. IsFiniteSet({2, 4}) /\ Cardinality({2, 4}) = 2 /\ 2 \in Nat /\ 7 \notin {2, 4}
    <3>1. 2 \in Nat /\ 7 \notin {2, 4}
      OBVIOUS
    <3>. QED
      BY <1>4, <3>1, Zenon
  <2>2. IsFiniteSet({2, 4} \cup {7}) /\ Cardinality({2, 4} \cup {7}) = 2 + 1
    BY <2>1, OneMore, Zenon
  <2>3. {2, 4, 7} = {2, 4} \cup {7} /\ 2 + 1 = 3
    OBVIOUS
  <2>. QED
    BY <2>2, <2>3, Zenon
<1>6. IsFiniteSet({2, 4, 7, 9}) /\ Cardinality({2, 4, 7, 9}) = 4
  <2>1. IsFiniteSet({2, 4, 7}) /\ Cardinality({2, 4, 7}) = 3 /\ 3 \in Nat /\ 9 \notin {2, 4, 7}
    <3>1. 3 \in Nat /\ 9 \notin {2, 4, 7}
      OBVIOUS
    <3>. QED
      BY <1>5, <3>1, Zenon
  <2>2. IsFiniteSet({2, 4, 7} \cup {9}) /\ Cardinality({2, 4, 7} \cup {9}) = 3 + 1
    BY <2>1, OneMore, Zenon
  <2>3. {2, 4, 7, 9} = {2, 4, 7} \cup {9} /\ 3 + 1 = 4
    OBVIOUS
  <2>. QED
    BY <2>2, <2>3, Zenon
<1>7. IsFiniteSet({2, 4, 7, 9, 11}) /\ Cardinality({2, 4, 7, 9, 11}) = 5
  <2>1. IsFiniteSet({2, 4, 7, 9}) /\ Cardinality({2, 4, 7, 9}) = 4 /\ 4 \in Nat /\ 11 \notin {2, 4, 7, 9}
    <3>1. 4 \in Nat /\ 11 \notin {2, 4, 7, 9}
      OBVIOUS
    <3>. QED
      BY <1>6, <3>1, Zenon
  <2>2. IsFiniteSet({2, 4, 7, 9} \cup {11}) /\ Cardinality({2, 4, 7, 9} \cup {11}) = 4 + 1
    BY <2>1, OneMore, Zenon
  <2>3. {2, 4, 7, 9, 11} = {2, 4, 7, 9} \cup {11} /\ 4 + 1 = 5
    OBVIOUS
  <2>. QED
    BY <2>2, <2>3, Zenon
<1>. QED
  BY <1>1, <1>2, <1>3, <1>5, <1>6, <1>7

\* The numbers in a series are three and one for each column that is in use, as
\* are the columns of the header.
LEMMA FieldsMatch ==
  ASSUME TypeOK, NEW v \in ValueType
  PROVE  Fields(v) = Columns
<1> DEFINE rate == config.use_rate_column
           curr == config.use_currvalue_column
<1>1. rate \in BOOLEAN /\ curr \in BOOLEAN
  BY DEF TypeOK
<1>2. CASE rate /\ curr
  <2>1. {k \in DOMAIN Series(v) : Series(v)[k].text = "number"} = {2, 4, 7, 9, 11}
    BY <1>2 DEF Series, Extras, Optional, Text, Number, Comma
  <2>2. {k \in DOMAIN Header : Header[k].text \in {"rate", "currvalue"}} = {4, 5}
    BY <1>2 DEF Header, Optional, Text
  <2>3. Fields(v) = 5
    BY <2>1, Sizes, Zenon DEF Fields
  <2>4. Columns = 5
    <3>1. Cardinality({k \in DOMAIN Header : Header[k].text \in {"rate", "currvalue"}}) = 2
      BY <2>2, Sizes, Zenon
    <3>. QED
      BY <3>1 DEF Columns
  <2>. QED
    BY <2>3, <2>4
<1>3. CASE rate /\ ~curr
  <2>1. {k \in DOMAIN Series(v) : Series(v)[k].text = "number"} = {2, 4, 7, 9}
    BY <1>3 DEF Series, Extras, Optional, Text, Number, Comma
  <2>2. {k \in DOMAIN Header : Header[k].text \in {"rate", "currvalue"}} = {4}
    BY <1>3 DEF Header, Optional, Text
  <2>3. Fields(v) = 4
    BY <2>1, Sizes, Zenon DEF Fields
  <2>4. Columns = 4
    <3>1. Cardinality({k \in DOMAIN Header : Header[k].text \in {"rate", "currvalue"}}) = 1
      BY <2>2, Sizes, Zenon
    <3>. QED
      BY <3>1 DEF Columns
  <2>. QED
    BY <2>3, <2>4
<1>4. CASE ~rate /\ curr
  <2>1. {k \in DOMAIN Series(v) : Series(v)[k].text = "number"} = {2, 4, 7, 9}
    BY <1>4 DEF Series, Extras, Optional, Text, Number, Comma
  <2>2. {k \in DOMAIN Header : Header[k].text \in {"rate", "currvalue"}} = {4}
    BY <1>4 DEF Header, Optional, Text
  <2>3. Fields(v) = 4
    BY <2>1, Sizes, Zenon DEF Fields
  <2>4. Columns = 4
    <3>1. Cardinality({k \in DOMAIN Header : Header[k].text \in {"rate", "currvalue"}}) = 1
      BY <2>2, Sizes, Zenon
    <3>. QED
      BY <3>1 DEF Columns
  <2>. QED
    BY <2>3, <2>4
<1>5. CASE ~rate /\ ~curr
  <2>1. {k \in DOMAIN Series(v) : Series(v)[k].text = "number"} = {2, 4, 7}
    BY <1>5 DEF Series, Extras, Optional, Text, Number, Comma
  <2>2. {k \in DOMAIN Header : Header[k].text \in {"rate", "currvalue"}} = {}
    BY <1>5 DEF Header, Optional, Text
  <2>3. Fields(v) = 3
    BY <2>1, Sizes, Zenon DEF Fields
  <2>4. Columns = 3
    <3>1. Cardinality({k \in DOMAIN Header : Header[k].text \in {"rate", "currvalue"}}) = 0
      BY <2>2, Sizes, Zenon
    <3>. QED
      BY <3>1 DEF Columns
  <2>. QED
    BY <2>3, <2>4
<1>. QED
  BY <1>1, <1>2, <1>3, <1>4, <1>5

\* What printing with %u leaves of a number: all of it if it is one of a word,
\* and something else if it is wider.
LEMMA UnsignedExact ==
  ASSUME NEW n \in Nat
  PROVE  Unsigned(n) = n <=> n < Word
<1>1. Word \in Nat \ {0}
  BY WordAssumption
<1>2. n % Word \in 0..(Word - 1)
  BY <1>1
<1>3. n < Word => n % Word = n
  BY <1>1
<1>. QED
  BY <1>1, <1>2, <1>3 DEF Unsigned

\* A series is the one that the row means exactly if its current value fits.
LEMMA ExactIfFits ==
  ASSUME NEW v \in ValueType
  PROVE  Series(v) = Exact(v) <=> Fits(v)
<1>1. v.currvalue \in Nat /\ v.rate \in Nat
  BY WordAssumption DEF ValueType
<1>2. Unsigned(v.currvalue) = v.currvalue <=> v.currvalue < Word
  BY <1>1, UnsignedExact
<1>3. Number(Unsigned(v.currvalue)) = Number(v.currvalue)
        <=> Unsigned(v.currvalue) = v.currvalue
  BY DEF Number
<1>4. Unsigned(v.currvalue) = v.currvalue => Series(v) = Exact(v)
  BY Zenon DEF Series, Extras, Exact
<1>5. CASE config.use_rate_column /\ config.use_currvalue_column
  <2>1. Series(v)[11] = Number(Unsigned(v.currvalue))
    BY <1>5 DEF Series, Extras, Optional
  <2>2. Exact(v)[11] = Number(v.currvalue)
    BY <1>5 DEF Exact, Optional
  <2>. QED
    BY <1>2, <1>3, <1>4, <1>5, <2>1, <2>2, Zenon DEF Fits
<1>6. CASE ~config.use_rate_column /\ config.use_currvalue_column
  <2>1. Series(v)[9] = Number(Unsigned(v.currvalue))
    BY <1>6 DEF Series, Extras, Optional
  <2>2. Exact(v)[9] = Number(v.currvalue)
    BY <1>6 DEF Exact, Optional
  <2>. QED
    BY <1>2, <1>3, <1>4, <1>6, <2>1, <2>2, Zenon DEF Fits
<1>7. CASE ~config.use_currvalue_column
  BY <1>7, Zenon DEF Series, Extras, Exact, Optional, Fits
<1>. QED
  BY <1>5, <1>6, <1>7

\* For every number of values, every mix of those that -z lets through and every
\* choice of columns: the query holds those values and no other, in their order,
\* with a field for every column and a separator between two of them and nowhere
\* else, and holds their numbers as they are exactly where the current value
\* fits in a word (database.c:171-228).
THEOREM QueryHoldsTheValues == Spec => []QueryHoldsValues
<1>1. TypeOK /\ Built => QueryHoldsValues
  <2> SUFFICES ASSUME TypeOK, Built, stage = "done"
               PROVE  /\ LET all == SeriesUpTo[Len(values)]
                         IN result = IF all = <<>> THEN NULL ELSE Header \o all
                      /\ \A k \in 1..Len(values) :
                           Chosen(values[k]) =>
                             /\ Fields(values[k]) = Columns
                             /\ Series(values[k]) = Exact(values[k]) <=> Fits(values[k])
    BY DEF QueryHoldsValues
  <2>1. \A k \in 1..Len(values) : values[k] \in ValueType
    BY DEF TypeOK
  <2>2. \A k \in 1..Len(values) : Fields(values[k]) = Columns
    BY FieldsMatch DEF TypeOK
  <2>3. \A k \in 1..Len(values) : Series(values[k]) = Exact(values[k]) <=> Fits(values[k])
    BY <2>1, ExactIfFits
  <2>. QED
    BY <2>2, <2>3 DEF Built
<1>2. Init => Built
  BY DEF Init, Built
<1>3. TypeOK /\ TypeOK' /\ Built /\ [Next]_vars => Built'
  BY BuiltStep
<1>4. IInv => TypeOK
  BY DEF IInv
<1>. QED
  BY <1>1, <1>2, <1>3, <1>4, Invariant, PTL DEF Spec
=============================================================================
