----------------------------- MODULE MCHostPoll -----------------------------
(* HostPoll for a host with counters of both widths and gauges, and narrow   *)
(* machine words.  The rows are of three tables, one more than there is room *)
(* for; two rows of a table have one of another between them.                *)
EXTENDS HostPoll

CONSTANTS octets, packets, alarms

MixedBits == <<32, 0, 64, 0>>
MixedTables == <<octets, packets, octets, alarms>>
MixedSpeeds == <<2, 2, 1, 2>>

\* A host with one counter.
OneCounter == <<32>>
OneTable == <<octets>>
OneSpeed == <<2>>
=============================================================================
