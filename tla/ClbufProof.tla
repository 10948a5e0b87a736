----------------------------- MODULE ClbufProof -----------------------------
(***************************************************************************)
(* Proofs about the circular buffer, for every capacity and every set of   *)
(* pointers.  The inductive invariant says that the slots in use are       *)
(* exactly the UsedSlots places from read_index on, ending at write_index; *)
(* from it the buffer is shown to implement the bounded queue.             *)
(***************************************************************************)
EXTENDS Clbuf, SequenceTheorems, TLAPS

\* What makes the invariant inductive: the fields' types, which slots are
\* set, and where the run of set slots ends.
IInv == TypeOK /\ Occupied /\ Consecutive

\* Advancing an index wraps at the end of the array and stays inside it.
LEMMA AdvanceWraps ==
  ASSUME NEW i \in Indexes
  PROVE  /\ Advance(i) = IF i + 1 = Size THEN 0 ELSE i + 1
         /\ Advance(i) \in Indexes
<1> USE SizeAssumption DEF Indexes, Advance
<1>1. CASE i + 1 = Size
  BY <1>1
<1>2. CASE i + 1 < Size
  BY <1>2
<1>. QED
  BY <1>1, <1>2

\* The count is a number of slots, zero exactly when the code's test for an
\* empty buffer succeeds and the capacity exactly when its test for a full
\* one does.
LEMMA UsedSlotsRange ==
  ASSUME TypeOK
  PROVE  /\ UsedSlots \in 0 .. Size
         /\ UsedSlots = 0 <=> IsEmpty
         /\ UsedSlots = Size <=> IsFull
<1> USE SizeAssumption DEF TypeOK, Indexes
<1>1. CASE IsEmpty
  BY <1>1 DEF UsedSlots, IsEmpty, IsFull
<1>2. CASE IsFull
  BY <1>2 DEF UsedSlots, IsEmpty, IsFull
<1>3. CASE ~IsEmpty /\ ~IsFull
  <2>1. write_index # read_index
    BY <1>3 DEF IsEmpty, IsFull
  <2>. QED
    BY <1>3, <2>1 DEF UsedSlots
<1>. QED
  BY <1>1, <1>2, <1>3

\* The places counted from the read index are slots of the array, and
\* different places are different slots.
LEMMA SlotAtInjective ==
  ASSUME TypeOK, NEW j \in Indexes, NEW k \in Indexes
  PROVE  /\ SlotAt(k) \in Indexes
         /\ SlotAt(j) = SlotAt(k) <=> j = k
BY SizeAssumption DEF TypeOK, Indexes, SlotAt

-----------------------------------------------------------------------------
\* A push uses one slot more: the one just behind the run of used slots.
LEMMA PushStep ==
  ASSUME IInv, NEW ptr \in Items, clbuf_push(ptr)
  PROVE  /\ TypeOK' /\ Occupied' /\ Consecutive'
         /\ UsedSlots < Size
         /\ UsedSlots' = UsedSlots + 1
         /\ SlotAt(UsedSlots) = write_index
<1> USE SizeAssumption, ItemsAssumption
<1>1. TypeOK /\ Occupied /\ Consecutive
  BY DEF IInv
<1>2. /\ ~IsFull
      /\ buffer' = [buffer EXCEPT ![write_index] = ptr]
      /\ write_index' = Advance(write_index)
      /\ read_index' = read_index
      /\ result' = ptr
      /\ ptr # NULL
  BY DEF clbuf_push
<1>3. /\ UsedSlots \in 0 .. Size - 1
      /\ UsedSlots = 0 <=> IsEmpty
  BY <1>1, <1>2, UsedSlotsRange
<1>4. /\ Advance(write_index) = IF write_index + 1 = Size THEN 0 ELSE write_index + 1
      /\ Advance(write_index) \in Indexes
  BY <1>1, AdvanceWraps DEF TypeOK
<1>5. SlotAt(UsedSlots) = write_index
  BY <1>1 DEF Consecutive
<1>6. TypeOK'
  BY <1>1, <1>2, <1>4 DEF TypeOK
<1>7. ASSUME NEW k \in Indexes
      PROVE  /\ SlotAt(k)' = SlotAt(k)
             /\ SlotAt(k) \in Indexes
             /\ SlotAt(k) = write_index <=> k = UsedSlots
  BY <1>1, <1>2, <1>3, <1>5, SlotAtInjective DEF SlotAt, Indexes
<1>8. UsedSlots' = UsedSlots + 1
  <2>1. CASE UsedSlots = Size - 1
    <3>1. write_index' = read_index
      BY <1>1, <1>2, <1>4, <1>5, <2>1 DEF SlotAt, TypeOK, Indexes
    <3>2. buffer'[read_index] # NULL
      <4>1. CASE UsedSlots = 0
        BY <1>1, <1>2, <1>5, <4>1 DEF SlotAt, TypeOK, Indexes
      <4>2. CASE UsedSlots > 0
        <5>1. SlotAt(0) = read_index /\ 0 \in Indexes
          BY <1>1 DEF SlotAt, TypeOK, Indexes
        <5>2. buffer[read_index] # NULL
          BY <1>1, <5>1, <4>2 DEF Occupied
        <5>. QED
          BY <1>1, <1>2, <5>2 DEF TypeOK
      <4>. QED
        BY <4>1, <4>2, <1>3
    <3>3. IsFull' /\ ~IsEmpty'
      BY <3>1, <3>2, <1>2 DEF IsFull, IsEmpty
    <3>4. UsedSlots' = Size
      BY <3>3 DEF UsedSlots
    <3>. QED
      BY <3>4, <2>1
  <2>2. CASE UsedSlots < Size - 1
    <3>1. write_index' # read_index'
      BY <1>1, <1>2, <1>3, <1>4, <1>5, <2>2 DEF SlotAt, TypeOK, Indexes
    <3>2. UsedSlots' = IF write_index' >= read_index' THEN write_index' - read_index'
                       ELSE write_index' + Size - read_index'
      BY <3>1 DEF UsedSlots, IsEmpty, IsFull
    <3>3. write_index = IF read_index + UsedSlots < Size THEN read_index + UsedSlots
                        ELSE read_index + UsedSlots - Size
      BY <1>5 DEF SlotAt
    <3>. HIDE DEF UsedSlots
    <3>. QED
      BY <1>1, <1>2, <1>3, <1>4, <3>2, <3>3, <2>2 DEF TypeOK, Indexes
  <2>. QED
    BY <2>1, <2>2, <1>3
<1>9. Occupied'
  <2>1. ASSUME NEW k \in Indexes
        PROVE  buffer'[SlotAt(k)] # NULL <=> k < UsedSlots + 1
    <3>1. CASE k = UsedSlots
      BY <3>1, <1>1, <1>2, <1>3, <1>7 DEF TypeOK
    <3>2. CASE k # UsedSlots
      <4>1. buffer'[SlotAt(k)] = buffer[SlotAt(k)]
        BY <3>2, <1>1, <1>2, <1>7 DEF TypeOK
      <4>. QED
        BY <4>1, <3>2, <1>1, <1>3 DEF Occupied, Indexes
    <3>. QED
      BY <3>1, <3>2
  <2>. QED
    BY <2>1, <1>7, <1>8 DEF Occupied
<1>10. Consecutive'
  BY <1>1, <1>2, <1>3, <1>4, <1>5, <1>8 DEF Consecutive, SlotAt, TypeOK, Indexes
<1>. QED
  BY <1>3, <1>5, <1>6, <1>8, <1>9, <1>10

\* A pop frees the first used slot, so every other used slot comes one place
\* nearer to the new read index.
LEMMA PopStep ==
  ASSUME IInv, clbuf_pop
  PROVE  /\ TypeOK' /\ Occupied' /\ Consecutive'
         /\ UsedSlots > 0
         /\ UsedSlots' = UsedSlots - 1
         /\ \A k \in 0 .. UsedSlots - 2 : /\ SlotAt(k)' = SlotAt(k + 1)
                                         /\ SlotAt(k + 1) # read_index
         /\ SlotAt(0) = read_index
<1> USE SizeAssumption, ItemsAssumption
<1>1. TypeOK /\ Occupied /\ Consecutive
  BY DEF IInv
<1>2. /\ ~IsEmpty
      /\ buffer' = [buffer EXCEPT ![read_index] = NULL]
      /\ read_index' = Advance(read_index)
      /\ write_index' = write_index
      /\ result' = buffer[read_index]
  BY DEF clbuf_pop, Cleared
<1>3. UsedSlots \in 1 .. Size
  BY <1>1, <1>2, UsedSlotsRange
<1>4. /\ Advance(read_index) = IF read_index + 1 = Size THEN 0 ELSE read_index + 1
      /\ Advance(read_index) \in Indexes
  BY <1>1, AdvanceWraps DEF TypeOK
<1>5. write_index = SlotAt(UsedSlots)
  BY <1>1 DEF Consecutive
<1>6. TypeOK'
  BY <1>1, <1>2, <1>4 DEF TypeOK
<1>7. SlotAt(0) = read_index
  BY <1>1 DEF SlotAt, TypeOK, Indexes
<1>8. ASSUME NEW k \in Indexes, k < Size - 1
      PROVE  /\ SlotAt(k)' = SlotAt(k + 1)
             /\ k + 1 \in Indexes
             /\ SlotAt(k + 1) # read_index
             /\ SlotAt(k + 1) \in Indexes
  <2>1. SlotAt(k)' = SlotAt(k + 1)
    BY <1>1, <1>2, <1>4, <1>8 DEF SlotAt, TypeOK, Indexes
  <2>2. k + 1 \in Indexes
    BY <1>8 DEF Indexes
  <2>. QED
    BY <1>1, <1>8, <2>1, <2>2 DEF SlotAt, TypeOK, Indexes
<1>9. ASSUME NEW k \in Indexes, k = Size - 1
      PROVE  SlotAt(k)' = read_index
  BY <1>1, <1>2, <1>4, <1>9 DEF SlotAt, TypeOK, Indexes
<1>10. UsedSlots' = UsedSlots - 1
  <2>1. CASE UsedSlots = 1
    <3>1. write_index' = read_index'
      BY <1>1, <1>2, <1>4, <1>5, <2>1 DEF SlotAt, TypeOK, Indexes
    <3>2. buffer'[read_index'] = NULL
      <4>1. CASE Size = 1
        BY <4>1, <1>1, <1>2, <1>4 DEF TypeOK, Indexes
      <4>2. CASE Size > 1
        <5>1. SlotAt(1) = read_index' /\ 1 \in Indexes
          BY <1>1, <1>2, <1>4, <4>2 DEF SlotAt, TypeOK, Indexes
        <5>2. buffer[read_index'] = NULL
          BY <1>1, <2>1, <5>1 DEF Occupied
        <5>. QED
          BY <5>2, <1>1, <1>2, <1>4 DEF TypeOK
      <4>. QED
        BY <4>1, <4>2
    <3>3. IsEmpty'
      BY <3>1, <3>2 DEF IsEmpty
    <3>. QED
      BY <3>3, <2>1 DEF UsedSlots
  <2>2. CASE UsedSlots > 1
    <3>1. write_index' # read_index'
      BY <1>1, <1>2, <1>3, <1>4, <1>5, <2>2 DEF SlotAt, TypeOK, Indexes
    <3>2. UsedSlots' = IF write_index' >= read_index' THEN write_index' - read_index'
                       ELSE write_index' + Size - read_index'
      BY <3>1 DEF UsedSlots, IsEmpty, IsFull
    <3>3. write_index = IF read_index + UsedSlots < Size THEN read_index + UsedSlots
                        ELSE read_index + UsedSlots - Size
      BY <1>5 DEF SlotAt
    <3>. HIDE DEF UsedSlots
    <3>. QED
      BY <1>1, <1>2, <1>3, <1>4, <3>2, <3>3, <2>2 DEF TypeOK, Indexes
  <2>. QED
    BY <2>1, <2>2, <1>3
<1>11. Occupied'
  <2>1. ASSUME NEW k \in Indexes
        PROVE  buffer'[SlotAt(k)'] # NULL <=> k < UsedSlots - 1
    <3>1. CASE k = Size - 1
      BY <3>1, <1>1, <1>2, <1>3, <1>9 DEF TypeOK
    <3>2. CASE k < Size - 1
      <4>1. buffer'[SlotAt(k)'] = buffer[SlotAt(k + 1)]
        BY <3>2, <1>1, <1>2, <1>8 DEF TypeOK
      <4>2. buffer[SlotAt(k + 1)] # NULL <=> k + 1 < UsedSlots
        BY <3>2, <1>1, <1>8 DEF Occupied
      <4>. QED
        BY <4>1, <4>2, <1>3 DEF Indexes
    <3>. QED
      BY <3>1, <3>2 DEF Indexes
  <2>. QED
    BY <2>1, <1>10 DEF Occupied, Indexes
<1>12. Consecutive'
  BY <1>1, <1>2, <1>3, <1>4, <1>5, <1>10 DEF Consecutive, SlotAt, TypeOK, Indexes
<1>13. \A k \in 0 .. UsedSlots - 2 : k \in Indexes /\ k < Size - 1
  BY <1>3 DEF Indexes
<1>. QED
  BY <1>3, <1>6, <1>7, <1>8, <1>10, <1>11, <1>12, <1>13

\* A call that is refused, finds nothing or only counts leaves the fields
\* alone.
LEMMA ReadOnlyStep ==
  ASSUME IInv, UNCHANGED <<buffer, read_index, write_index>>,
         result' \in Items \cup {NULL} \cup (0 .. Size)
  PROVE  IInv'
BY DEF IInv, TypeOK, Occupied, Consecutive, SlotAt, UsedSlots, IsEmpty, IsFull

-----------------------------------------------------------------------------
\* The indexes stay inside the array, the used slots are the run that starts
\* at read_index, and full is never mistaken for empty (clbuf.c:59, 83), for
\* every capacity.
THEOREM Invariance == Spec => []IInv
<1>1. Init => IInv
  BY SizeAssumption, ItemsAssumption
     DEF Init, IInv, TypeOK, Occupied, Consecutive, Indexes, SlotAt, UsedSlots, IsEmpty, IsFull
<1>2. IInv /\ [Next]_vars => IInv'
  <2> SUFFICES ASSUME IInv, [Next]_vars
               PROVE  IInv'
    OBVIOUS
  <2>0. TypeOK /\ UsedSlots \in 0 .. Size
    BY UsedSlotsRange DEF IInv
  <2>1. ASSUME NEW ptr \in Items \cup {NULL}, clbuf_push(ptr)
        PROVE  IInv'
    <3>1. ptr \in Items
      BY <2>1 DEF clbuf_push
    <3>. QED
      BY <2>1, <3>1, PushStep DEF IInv
  <2>2. ASSUME NEW ptr \in Items \cup {NULL}, clbuf_push_refused(ptr)
        PROVE  IInv'
    BY <2>2, ReadOnlyStep DEF clbuf_push_refused
  <2>3. CASE clbuf_pop
    BY <2>3, PopStep DEF IInv
  <2>4. CASE clbuf_pop_empty
    BY <2>4, ReadOnlyStep DEF clbuf_pop_empty
  <2>5. CASE clbuf_count_used
    BY <2>0, <2>5, ReadOnlyStep DEF clbuf_count_used
  <2>6. CASE clbuf_count_free
    <3>1. FreeSlots \in 0 .. Size
      BY <2>0, SizeAssumption DEF FreeSlots
    <3>. QED
      BY <2>6, <3>1, ReadOnlyStep DEF clbuf_count_free
  <2>7. CASE UNCHANGED vars
    BY <2>0, <2>7, ReadOnlyStep DEF vars, TypeOK
  <2>. QED
    BY <2>1, <2>2, <2>3, <2>4, <2>5, <2>6, <2>7 DEF Next
<1>. QED
  BY <1>1, <1>2, PTL DEF Spec

\* The fields keep their types.
COROLLARY TypeCorrect == Spec => []TypeOK
<1>1. IInv => TypeOK
  BY DEF IInv
<1>. QED
  BY <1>1, Invariance, PTL

\* The used slots are the UsedSlots places from read_index on.
COROLLARY SlotsOccupied == Spec => []Occupied
<1>1. IInv => Occupied
  BY DEF IInv
<1>. QED
  BY <1>1, Invariance, PTL

-----------------------------------------------------------------------------
\* What the queue operators say of the stored pointers.
LEMMA StoredSeq ==
  IInv => /\ Stored \in Seq(Items)
          /\ Len(Stored) = UsedSlots
          /\ \A k \in 1 .. UsedSlots : Stored[k] = buffer[SlotAt(k - 1)]
<1> SUFFICES ASSUME IInv
             PROVE  /\ Stored \in Seq(Items)
                    /\ Len(Stored) = UsedSlots
                    /\ \A k \in 1 .. UsedSlots : Stored[k] = buffer[SlotAt(k - 1)]
  OBVIOUS
<1>1. UsedSlots \in 0 .. Size
  BY UsedSlotsRange DEF IInv
<1>2. ASSUME NEW k \in 1 .. UsedSlots
      PROVE  buffer[SlotAt(k - 1)] \in Items
  <2>1. k - 1 \in Indexes /\ k - 1 < UsedSlots
    BY <1>1, SizeAssumption DEF Indexes
  <2>2. SlotAt(k - 1) \in Indexes
    BY <2>1, SlotAtInjective DEF IInv
  <2>3. buffer[SlotAt(k - 1)] # NULL
    BY <2>1 DEF IInv, Occupied
  <2>. QED
    BY <2>2, <2>3 DEF IInv, TypeOK
<1>3. Stored \in [1 .. UsedSlots -> Items]
  BY <1>2 DEF Stored
<1>. HIDE DEF Stored
<1>4. Stored \in Seq(Items) /\ Len(Stored) = UsedSlots
  BY <1>1, <1>3
<1>. QED
  BY <1>4 DEF Stored

\* The part of it that is wanted of the next state too.
StoredFits == Stored \in Seq(Items) /\ Len(Stored) = UsedSlots

\* The stored pointers are a sequence after a step as before it.
LEMMA StoredSeqNext ==
  IInv' => StoredFits'
<1>1. IInv => StoredFits
  BY StoredSeq DEF StoredFits
<1>. QED
  BY <1>1, PTL

\* A push appends its pointer.
LEMMA PushAppends ==
  ASSUME IInv, NEW ptr \in Items, clbuf_push(ptr)
  PROVE  Fifo!Push(ptr)
<1> USE SizeAssumption
<1>1. IInv' /\ UsedSlots < Size /\ UsedSlots' = UsedSlots + 1 /\ SlotAt(UsedSlots) = write_index
  BY PushStep DEF IInv
<1>2. UsedSlots \in 0 .. Size - 1
  BY <1>1, UsedSlotsRange, SizeAssumption DEF IInv
<1>3. ASSUME NEW k \in 1 .. UsedSlots'
      PROVE  Stored'[k] = Append(Stored, ptr)[k]
  <2>1. Stored'[k] = buffer'[SlotAt(k - 1)']
    BY <1>3 DEF Stored
  <2>2. SlotAt(k - 1)' = SlotAt(k - 1)
    BY DEF SlotAt, clbuf_push
  <2>3. k - 1 \in Indexes /\ UsedSlots \in Indexes
    BY <1>1, <1>2, SizeAssumption DEF Indexes
  <2>4. SlotAt(k - 1) \in Indexes /\ (SlotAt(k - 1) = write_index <=> k - 1 = UsedSlots)
    BY <1>1, <2>3, SlotAtInjective DEF IInv
  <2>5. buffer'[SlotAt(k - 1)] = IF k - 1 = UsedSlots THEN ptr ELSE buffer[SlotAt(k - 1)]
    BY <2>4 DEF clbuf_push, IInv, TypeOK
  <2>6. CASE k = UsedSlots + 1
    BY <2>1, <2>2, <2>5, <2>6, <1>2, StoredSeq
  <2>7. CASE k \in 1 .. UsedSlots
    BY <2>1, <2>2, <2>5, <2>7, <1>2, StoredSeq
  <2>. QED
    <3>1. k = UsedSlots + 1 \/ k \in 1 .. UsedSlots
      BY <1>1, <1>2
    <3>. QED
      BY <2>6, <2>7, <3>1
<1>4. Stored' \in Seq(Items) /\ Len(Stored') = UsedSlots'
  BY <1>1, StoredSeqNext DEF StoredFits
<1>5. Append(Stored, ptr) \in Seq(Items) /\ Len(Append(Stored, ptr)) = UsedSlots + 1
  BY StoredSeq
<1>6. Stored' = Append(Stored, ptr)
  BY <1>1, <1>3, <1>4, <1>5, SeqEqual
<1>. QED
  BY <1>1, <1>6, StoredSeq DEF Fifo!Push, clbuf_push

\* A pop removes and returns the oldest stored pointer.
LEMMA PopRemovesHead ==
  ASSUME IInv, clbuf_pop
  PROVE  Fifo!Pop
<1> USE SizeAssumption
<1>1. /\ IInv'
      /\ UsedSlots > 0
      /\ UsedSlots' = UsedSlots - 1
      /\ SlotAt(0) = read_index
  BY PopStep DEF IInv
<1>2. UsedSlots \in 1 .. Size
  BY <1>1, UsedSlotsRange DEF IInv
<1>3. Stored \in Seq(Items) /\ Stored # <<>> /\ Head(Stored) = buffer[read_index]
  BY <1>1, <1>2, StoredSeq
<1>4. Tail(Stored) \in Seq(Items) /\ Len(Tail(Stored)) = UsedSlots - 1
  BY <1>2, <1>3, StoredSeq
<1>5. Stored' \in Seq(Items) /\ Len(Stored') = UsedSlots'
  BY <1>1, StoredSeqNext DEF StoredFits
<1>6. ASSUME NEW k \in 1 .. UsedSlots'
      PROVE  Stored'[k] = Tail(Stored)[k]
  <2>1. Stored'[k] = buffer'[SlotAt(k - 1)']
    BY <1>6 DEF Stored
  <2>2. k - 1 \in 0 .. UsedSlots - 2
    BY <1>1, <1>2
  <2>3. SlotAt(k - 1)' = SlotAt(k - 1 + 1) /\ SlotAt(k - 1 + 1) # read_index
    BY <2>2, PopStep
  <2>4. k \in Indexes /\ k - 1 + 1 = k
    BY <2>2, <1>1, <1>2 DEF Indexes
  <2>5. SlotAt(k) \in Indexes
    BY <2>4, SlotAtInjective DEF IInv
  <2>6. buffer'[SlotAt(k)] = buffer[SlotAt(k)]
    BY <2>3, <2>4, <2>5 DEF clbuf_pop, Cleared, IInv, TypeOK
  <2>7. Tail(Stored)[k] = Stored[k + 1]
    BY <1>1, <1>2, <1>3, <1>4, StoredSeq
  <2>8. k + 1 \in 1 .. UsedSlots /\ k + 1 - 1 = k
    BY <1>1, <1>2
  <2>9. Stored[k + 1] = buffer[SlotAt(k)]
    BY <2>8, StoredSeq
  <2>. QED
    BY <2>1, <2>3, <2>4, <2>6, <2>7, <2>9
<1>7. Stored' = Tail(Stored)
  BY <1>1, <1>4, <1>5, <1>6, SeqEqual
<1>. QED
  BY <1>3, <1>7 DEF Fifo!Pop, clbuf_pop

\* The circular buffer implements the bounded queue of clbuf.h: no pointer
\* stored is lost, duplicated or reordered, a push is refused exactly when
\* the queue is full, a pop exactly when it is empty, and the counts are
\* exact, for every capacity (clbuf.c:49-118).
THEOREM Refinement == Spec => FifoSpec
<1>1. Init => Fifo!Init
  <2>1. Init => UsedSlots = 0
    BY SizeAssumption DEF Init, UsedSlots, IsEmpty, Indexes
  <2>2. UsedSlots = 0 => Stored = <<>>
    BY DEF Stored
  <2>. QED
    BY <2>1, <2>2 DEF Init, Fifo!Init
<1>2. IInv /\ [Next]_vars => [Fifo!Next]_(Fifo!vars)
  <2> SUFFICES ASSUME IInv, [Next]_vars
               PROVE  Fifo!Next \/ UNCHANGED Fifo!vars
    OBVIOUS
  <2>1. /\ UsedSlots \in 0 .. Size
        /\ UsedSlots = 0 <=> IsEmpty
        /\ UsedSlots = Size <=> IsFull
        /\ Len(Stored) = UsedSlots
        /\ Stored \in Seq(Items)
    BY UsedSlotsRange, StoredSeq DEF IInv
  <2>2. ASSUME UNCHANGED <<buffer, read_index, write_index>>
        PROVE  Stored' = Stored
    BY <2>2 DEF Stored, SlotAt, UsedSlots, IsEmpty, IsFull
  <2>3. ASSUME NEW ptr \in Items \cup {NULL}, clbuf_push(ptr)
        PROVE  Fifo!Next
    <3>1. ptr \in Items
      BY <2>3 DEF clbuf_push
    <3>. QED
      BY <2>3, <3>1, PushAppends DEF Fifo!Next
  <2>4. ASSUME NEW ptr \in Items \cup {NULL}, clbuf_push_refused(ptr)
        PROVE  Fifo!Next
    <3>1. Fifo!RefusePush(ptr)
      BY <2>1, <2>2, <2>4 DEF clbuf_push_refused, Fifo!RefusePush
    <3>. QED
      BY <3>1 DEF Fifo!Next
  <2>5. CASE clbuf_pop
    BY <2>5, PopRemovesHead DEF Fifo!Next
  <2>6. CASE clbuf_pop_empty
    <3>1. Stored = <<>>
      BY <2>1, <2>6 DEF clbuf_pop_empty
    <3>. QED
      BY <3>1, <2>2, <2>6 DEF clbuf_pop_empty, Fifo!Next, Fifo!PopEmpty
  <2>7. CASE clbuf_count_used
    BY <2>1, <2>2, <2>7 DEF clbuf_count_used, Fifo!Next, Fifo!CountUsed
  <2>8. CASE clbuf_count_free
    BY <2>1, <2>2, <2>8 DEF clbuf_count_free, FreeSlots, Fifo!Next, Fifo!CountFree
  <2>9. CASE UNCHANGED vars
    BY <2>2, <2>9 DEF vars, Fifo!vars
  <2>. QED
    BY <2>3, <2>4, <2>5, <2>6, <2>7, <2>8, <2>9 DEF Next
<1>. QED
  BY <1>1, <1>2, Invariance, PTL DEF Spec, FifoSpec, Fifo!Spec

=============================================================================
