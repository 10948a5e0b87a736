---------------------------- MODULE MCLifecycle ----------------------------
(***************************************************************************)
(* Lifecycle on a few small files and command lines.                       *)
(***************************************************************************)
EXTENDS Lifecycle

CONSTANTS h1, h2, o1, o2, db

Block(h, rows) == [host |-> h, oids |-> rows, speeds |-> TRUE]

\* A host moves, loses a row, is removed, has a row twice, or is in the file
\* twice; and a file of gauges, none of which has a speed per interval.
FilesUsed == {<<Block(h1, <<o1, o2, o1>>), Block(h2, <<o1>>)>>,
              <<Block(h2, <<o1>>), Block(h1, <<o1>>), Block(h1, <<o2>>)>>,
              <<[Block(h1, <<o1>>) EXCEPT !.speeds = FALSE]>>,
              <<Block(h1, <<>>)>>}

\* An interval given twice, an interval of 0 with no threads, both with the
\* database's directives; a database without a name, and a missing value.
Line(directive, value) == <<[directive |-> directive, value |-> value]>>
Database == Line("db_host", db) \o Line("db_database", db) \o Line("db_user", db)
ConfFilesUsed == {Line("interval", 60) \o Database \o Line("interval", 300),
                  Line("interval", 0) \o Database \o Line("threads", 0),
                  Line("db_host", db) \o Line("other", db),
                  Line("threads", Absent)}

OptionsUsed == {[detach |-> TRUE, max_db_queue |-> 100, num_dbthreads |-> 1],
                [detach |-> TRUE, max_db_queue |-> 99, num_dbthreads |-> 1],
                [detach |-> FALSE, max_db_queue |-> 100, num_dbthreads |-> 0]}
=============================================================================
