-------------------------------- MODULE Clbuf --------------------------------
(***************************************************************************)
(* The circular buffer of src/clbuf.c.  Every function takes the buffer's  *)
(* (recursive) lock on entry and releases it before it returns, and        *)
(* nothing else touches the fields, so a call is one step here.            *)
(*                                                                         *)
(* The code keeps no count: equal indexes mean "full" when the slot they   *)
(* point at is set and "empty" when it is not, which is why a null pointer *)
(* must never be stored and why a popped slot must be zeroed.              *)
(***************************************************************************)
EXTENDS Naturals, Sequences

CONSTANTS Items,   \* the pointers a client may store
          NULL,    \* the null pointer
          Size     \* allocated_size

ASSUME SizeAssumption == Size \in Nat \ {0}
ASSUME ItemsAssumption == NULL \notin Items

VARIABLES buffer,       \* the slots, indexed from 0
          read_index,   \* the slot the next pop reads
          write_index,  \* the slot the next push writes
          result        \* the value the last call returned

vars == <<buffer, read_index, write_index, result>>

Indexes == 0 .. Size - 1

Init == /\ buffer = [i \in Indexes |-> NULL]
        /\ read_index = 0
        /\ write_index = 0
        /\ result = NULL

-----------------------------------------------------------------------------
\* Mutated forms of the definitions below, each a plausible slip in the code.
UsedSlots_NoFullCase == IF write_index >= read_index
                        THEN write_index - read_index
                        ELSE write_index + Size - read_index
Advance_OffByOne(index) == (index + 1) % (Size + 1)
Cleared_Kept(i) == buffer

-----------------------------------------------------------------------------
\* Equal indexes and a set slot: the test clbuf_push refuses on.
IsFull == write_index = read_index /\ buffer[write_index] # NULL

\* Equal indexes and a clear slot: the test clbuf_pop refuses on.
IsEmpty == write_index = read_index /\ buffer[read_index] = NULL

\* index++; index %= allocated_size
Advance(index) == (index + 1) % Size

\* The buffer once the slot just popped is zeroed.
Cleared(i) == [buffer EXCEPT ![i] = NULL]

\* The four cases of clbuf_count_used.
UsedSlots == IF IsEmpty THEN 0
             ELSE IF IsFull THEN Size
             ELSE IF write_index >= read_index THEN write_index - read_index
             ELSE write_index + Size - read_index

FreeSlots == Size - UsedSlots

-----------------------------------------------------------------------------
clbuf_push(ptr) == /\ ptr # NULL
                   /\ ~IsFull
                   /\ buffer' = [buffer EXCEPT ![write_index] = ptr]
                   /\ write_index' = Advance(write_index)
                   /\ result' = ptr
                   /\ UNCHANGED read_index

\* The two early returns of clbuf_push: a null pointer, or a full buffer.
clbuf_push_refused(ptr) == /\ ptr = NULL \/ IsFull
                           /\ result' = NULL
                           /\ UNCHANGED <<buffer, read_index, write_index>>

clbuf_pop == /\ ~IsEmpty
             /\ result' = buffer[read_index]
             /\ buffer' = Cleared(read_index)
             /\ read_index' = Advance(read_index)
             /\ UNCHANGED write_index

\* The early return of clbuf_pop: an empty buffer.
clbuf_pop_empty == /\ IsEmpty
                   /\ result' = NULL
                   /\ UNCHANGED <<buffer, read_index, write_index>>

clbuf_count_used == /\ result' = UsedSlots
                    /\ UNCHANGED <<buffer, read_index, write_index>>

clbuf_count_free == /\ result' = FreeSlots
                    /\ UNCHANGED <<buffer, read_index, write_index>>

Next == \/ \E ptr \in Items \cup {NULL} : clbuf_push(ptr) \/ clbuf_push_refused(ptr)
        \/ clbuf_pop \/ clbuf_pop_empty
        \/ clbuf_count_used \/ clbuf_count_free

Spec == Init /\ [][Next]_vars

-----------------------------------------------------------------------------
(* Properties.                                                             *)

\* The fields keep their types: indexes stay inside the allocation and a
\* call returns a pointer or a count (the fields of clbuf.c:15-21).
TypeOK == /\ buffer \in [Indexes -> Items \cup {NULL}]
          /\ read_index \in Indexes
          /\ write_index \in Indexes
          /\ result \in Items \cup {NULL} \cup (0 .. Size)

\* The slot k places after the read index, around the end of the array.
SlotAt(k) == IF read_index + k < Size THEN read_index + k
                                      ELSE read_index + k - Size

\* The used slots are the UsedSlots places from the read index on, and no
\* others: the sentinel tests of clbuf.c:59 and 83 never mistake a full
\* buffer for an empty one, whatever the history of pushes and pops.
Occupied == \A k \in Indexes : buffer[SlotAt(k)] # NULL <=> k < UsedSlots

\* The write index is where the run of used slots ends.
Consecutive == write_index = SlotAt(UsedSlots)

\* The stored pointers, oldest first.
Stored == [k \in 1 .. UsedSlots |-> buffer[SlotAt(k - 1)]]

\* The circular buffer is the bounded first-in first-out queue of clbuf.h:
\* no pointer is lost, duplicated or reordered, and every count is exact.
Fifo == INSTANCE BoundedFifo WITH fifo <- Stored
FifoSpec == Fifo!Spec
==============================================================================
