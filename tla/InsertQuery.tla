----------------------------- MODULE InsertQuery -----------------------------
(***************************************************************************)
(* One insert: the values a poller pushes to it (src/clinsert.c), and the  *)
(* query the database thread makes of them (build_insert_query in          *)
(* src/database.c), piece by piece in a growing string (src/clgstr.c).     *)
(*                                                                         *)
(* A piece of the query is a text of the code, the name of the table or a  *)
(* number, with the number of its characters.                              *)
(***************************************************************************)
EXTENDS Growth, Sequences, FiniteSets

CONSTANTS Values,        \* the values a row of targets may give
          MaxValues,     \* bound on the number of rows with this table
          TableLengths,  \* lengths of the table's name
          Word,          \* 2^32 in the code
          Wide,          \* 2^64 in the code
          Digits,        \* the number of digits of each number
          InitialSpace,  \* places in a new list of values, 8 in the code
          InitialString  \* characters in a new string, 64 in the code

ValueType == [id : 0..(Word - 1), counter : 0..(Wide - 1), rate : 0..(Word - 1),
              dtime : 0..(Wide - 1), currvalue : 0..(Wide - 1)]

ASSUME WordAssumption == Word \in Nat \ {0} /\ Wide \in Nat /\ Word <= Wide
ASSUME ValuesAssumption == /\ Values \subseteq ValueType
                           /\ MaxValues \in Nat
                           /\ TableLengths \subseteq Nat
                           /\ Digits \in [0..(Wide - 1) -> Nat]
ASSUME SpaceAssumption == /\ InitialSpace \in Nat \ {0, 1}
                          /\ InitialString \in Nat \ {0}

VARIABLES config,         \* the columns in use, and allow_db_zero of main's -z
          table,          \* the length of the table's name
          values, space,  \* the insert
          stage,          \* "pushing", "building" or "done"
          i, rows,        \* the next value; the series begun
          pending,        \* what is still to be appended of the piece of code at hand
          string, length, allocated,  \* the growing string
          result          \* what build_insert_query returns

insertVars == <<values, space>>
stringVars == <<string, length, allocated>>
vars == <<config, table, insertVars, stage, i, rows, pending, stringVars, result>>

NULL == <<>>

Init == /\ config \in [use_rate_column : BOOLEAN, use_currvalue_column : BOOLEAN,
                       allow_db_zero : BOOLEAN]
        /\ table \in TableLengths
        /\ values = <<>> /\ space = InitialSpace
        /\ stage = "pushing"
        /\ i = 1 /\ rows = 0
        /\ pending = <<>>
        /\ string = <<>> /\ length = 0 /\ allocated = InitialString
        /\ result = NULL

-----------------------------------------------------------------------------
\* Mutated forms of the definitions below, each a plausible slip in the code.
NeedsRoom_NoZero(add_len) == allocated < length + add_len
Separator_Always == i > 1
Unsigned_Signed(n) == IF n < Word THEN n ELSE (n % Word) - Word

-----------------------------------------------------------------------------
(* The insert.                                                             *)

clinsert_push_value(v) == /\ stage = "pushing"
                          /\ Len(values) < MaxValues
                          /\ values' = Append(values, v)
                          /\ space' = Room(Len(values), space)
                          /\ UNCHANGED <<config, table, stage, i, rows, pending, stringVars, result>>

-----------------------------------------------------------------------------
(* The query.                                                              *)

Text(text, size) == [text |-> text, number |-> 0, size |-> size]
Number(n) == [text |-> "number", number |-> n, size |-> Digits[n % Wide]]
Comma == Text("comma", 2)

Optional(used, pieces) == IF used THEN pieces ELSE <<>>

Header == <<Text("insert", 12), Text("table", table), Text("columns", 20)>>
          \o Optional(config.use_rate_column, <<Text("rate", 6)>>)
          \o Optional(config.use_currvalue_column, <<Text("currvalue", 11)>>)
          \o <<Text("values", 9)>>

\* Printing with %u what may be wider than an unsigned.
Unsigned(n) == n % Word

\* The part of a series behind the counter.
Extras(v) ==
  Optional(config.use_rate_column, <<Comma, Number(v.rate)>>)
  \o Optional(config.use_currvalue_column, <<Comma, Number(Unsigned(v.currvalue))>>)

Series(v) == <<Text("open", 1), Number(v.id), Text("from_unixtime", 16), Number(v.dtime),
               Text("close", 1), Comma, Number(v.counter)>>
             \o Extras(v) \o <<Text("close", 1)>>

\* Without -z a value whose rate is 0 is not stored.
Stored(v) == config.allow_db_zero \/ v.rate # 0

BuildStarts == /\ stage = "pushing" /\ values # <<>>
               /\ stage' = "building"
               /\ pending' = Header
               /\ UNCHANGED <<config, table, insertVars, i, rows, stringVars, result>>

NeedsRoom(add_len) == allocated < length + add_len + 1

clgstr_append(piece) ==
  /\ allocated' = IF NeedsRoom(piece.size) THEN Grown(allocated + piece.size + 1) ELSE allocated
  /\ string' = Append(string, piece)
  /\ length' = length + piece.size

AppendPiece == /\ stage = "building" /\ pending # <<>>
               /\ clgstr_append(Head(pending))
               /\ pending' = Tail(pending)
               /\ UNCHANGED <<config, table, insertVars, stage, i, rows, result>>

\* A separator goes before every series but the first.
Separator == rows > 0

NextValue == /\ stage = "building" /\ pending = <<>>
             /\ i <= Len(values)
             /\ IF Stored(values[i])
                THEN /\ pending' = Optional(Separator, <<Comma>>) \o Series(values[i])
                     /\ rows' = rows + 1
                ELSE UNCHANGED <<pending, rows>>
             /\ i' = i + 1
             /\ UNCHANGED <<config, table, insertVars, stage, stringVars, result>>

QueryBuilt == /\ stage = "building" /\ pending = <<>>
              /\ i > Len(values)
              /\ result' = IF rows > 0 THEN string ELSE NULL
              /\ stage' = "done"
              /\ UNCHANGED <<config, table, insertVars, i, rows, pending, stringVars>>

Rest == stage = "done" /\ UNCHANGED vars

Next == \/ \E v \in Values : clinsert_push_value(v)
        \/ BuildStarts \/ AppendPiece \/ NextValue \/ QueryBuilt \/ Rest

Spec == Init /\ [][Next]_vars

-----------------------------------------------------------------------------
(* Properties.                                                             *)

Texts == {"insert", "table", "columns", "rate", "currvalue", "values",
          "open", "from_unixtime", "close", "comma", "number"}
PieceType == [text : Texts, number : 0..(Wide - 1), size : Nat]

\* Every variable has its type: the numbers in a query are numbers of 64 bits.
TypeOK == /\ config \in [use_rate_column : BOOLEAN, use_currvalue_column : BOOLEAN,
                         allow_db_zero : BOOLEAN]
          /\ table \in TableLengths
          /\ values \in Seq(ValueType) /\ space \in Nat
          /\ stage \in {"pushing", "building", "done"}
          /\ i \in Nat \ {0} /\ rows \in Nat
          /\ pending \in Seq(PieceType)
          /\ string \in Seq(PieceType) /\ length \in Nat /\ allocated \in Nat
          /\ result \in Seq(PieceType)

\* Nothing is written past the end of an array: the values fit in the list of
\* the insert (clinsert.c:36), and the string with its terminating zero in the
\* buffer, whatever the length of the table's name (clgstr.c:38-47).
BuffersFit == Len(values) <= space /\ length + 1 <= allocated

\* A series has as many fields as the query names columns.
Columns == 3 + Cardinality({k \in DOMAIN Header : Header[k].text \in {"rate", "currvalue"}})
Fields(v) == Cardinality({k \in DOMAIN Series(v) : Series(v)[k].text = "number"})

\* The series of those of the first k values that -z lets through, with a
\* separator between two series and nowhere else.
Chosen(v) == config.allow_db_zero \/ v.rate > 0
SeriesUpTo[k \in 0..Len(values)] ==
  IF k = 0 THEN <<>>
  ELSE IF ~Chosen(values[k]) THEN SeriesUpTo[k - 1]
  ELSE (SeriesUpTo[k - 1] \o Optional(SeriesUpTo[k - 1] # <<>>, <<Comma>>)) \o Series(values[k])

\* The series as the row means it: "Current counter value" (clinsert.h:33) is an
\* unsigned long long, and every number is written as it is.
Exact(v) == <<Text("open", 1), Number(v.id), Text("from_unixtime", 16), Number(v.dtime),
              Text("close", 1), Comma, Number(v.counter)>>
            \o (Optional(config.use_rate_column, <<Comma, Number(v.rate)>>)
                \o Optional(config.use_currvalue_column, <<Comma, Number(v.currvalue)>>))
            \o <<Text("close", 1)>>

\* The current value is not asked for, or is no wider than an unsigned.
Fits(v) == config.use_currvalue_column => v.currvalue < Word

\* The query stores the values that -z lets through and no other, in the order
\* of the rows, with a field for every column it names and with a separator
\* between two series and nowhere else even when the first value is left out;
\* and there is no query for none (database.c:171-228).  The numbers stored are
\* those of the row exactly where the current value fits in 32 bits: a wider one
\* is cut by the %u of database.c:213, though clinsert.h:33 and rtgconf.h:25
\* mean the whole counter to be stored.
QueryHoldsValues ==
  stage = "done" =>
    LET all == SeriesUpTo[Len(values)]
    IN /\ result = IF all = <<>> THEN NULL ELSE Header \o all
       /\ \A k \in 1..Len(values) :
            Chosen(values[k]) => /\ Fields(values[k]) = Columns
                                 /\ Series(values[k]) = Exact(values[k]) <=> Fits(values[k])
=============================================================================
