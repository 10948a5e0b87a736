----------------------------- MODULE BoundedFifo -----------------------------
(***************************************************************************)
(* What clbuf.h promises of the queue of outstanding database inserts: a   *)
(* first-in first-out buffer of at most Size pointers, shared by threads,  *)
(* whose every call takes effect at one instant and reports the truth      *)
(* about that instant.  `result' is what the last call returned to its     *)
(* caller; the circular buffer of module Clbuf implements this module.     *)
(***************************************************************************)
EXTENDS Naturals, Sequences

CONSTANTS Items,   \* the pointers a client may store
          NULL,    \* the null pointer
          Size     \* the capacity asked of clbuf_create

VARIABLES fifo,    \* the stored pointers, oldest first
          result   \* the value the last call returned

vars == <<fifo, result>>

Init == /\ fifo = <<>>
        /\ result = NULL

\* A push stores its pointer and returns it exactly when there is room.
Push(ptr) == /\ ptr # NULL
             /\ Len(fifo) < Size
             /\ fifo' = Append(fifo, ptr)
             /\ result' = ptr

\* A push of the null pointer, or into a full buffer, changes nothing.
RefusePush(ptr) == /\ ptr = NULL \/ Len(fifo) = Size
                   /\ result' = NULL
                   /\ UNCHANGED fifo

\* A pop returns the oldest stored pointer ...
Pop == /\ fifo # <<>>
       /\ result' = Head(fifo)
       /\ fifo' = Tail(fifo)

\* ... and the null pointer exactly when nothing is stored.
PopEmpty == /\ fifo = <<>>
            /\ result' = NULL
            /\ UNCHANGED fifo

CountUsed == /\ result' = Len(fifo)
             /\ UNCHANGED fifo

CountFree == /\ result' = Size - Len(fifo)
             /\ UNCHANGED fifo

Next == \/ \E ptr \in Items \cup {NULL} : Push(ptr) \/ RefusePush(ptr)
        \/ Pop \/ PopEmpty
        \/ CountUsed \/ CountFree

Spec == Init /\ [][Next]_vars
==============================================================================
