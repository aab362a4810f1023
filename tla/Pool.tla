-------------------------------- MODULE Pool --------------------------------
(***************************************************************************)
(* The memory pool behind every Array (Omega_h_pool.cpp) and the switch    *)
(* that puts it in front of malloc (Omega_h_malloc.cpp).  Requests are     *)
(* rounded up to a power of two; a block that is given back stays in the   *)
(* free list of its size class and is lent again, last in first out; when  *)
(* malloc has nothing left the pool gives all its free blocks back to it   *)
(* and tries once more.                                                    *)
(*                                                                         *)
(* enable_pooling and disable_pooling come from the constructor and the    *)
(* destructor of Library.  Blocks lent before pooling was switched on are  *)
(* unknown to the pool; blocks still lent when it is switched off are      *)
(* freed under their users, who must not touch them again.                 *)
(***************************************************************************)
EXTENDS Integers, SequencesExt, FiniteSetsExt, TLC

CONSTANTS Block,      \* addresses
          Sizes,      \* bytes a user may ask for
          Capacity,   \* bytes malloc can hand out
          MaxShift    \* bound: size classes 0..MaxShift of the code's 64

\* std::size_t(1) << i: the bytes of a block of class i.
Bytes[i \in Nat] == IF i = 0 THEN 1 ELSE 2 * Bytes[i - 1]

ASSUME BlockAssumption == IsFiniteSet(Block)
ASSUME MaxShiftAssumption == MaxShift \in Nat
ASSUME CapacityAssumption == Capacity \in Nat
ASSUME SizesAssumption == \A s \in Sizes : s \in 0..Bytes[MaxShift]

VARIABLES
    pooled,     \* device_pool is not null
    used,       \* used[i]: used_blocks[i]
    free,       \* free[i]: free_blocks[i]
    heap,       \* heap[b]: bytes malloc has handed out at b, or NotAllocated
    lent,       \* lent[b]: what the user holding b asked for, or Nobody
    failure     \* the call of Omega_h_fail that ended the program, or NoFailure

vars == <<pooled, used, free, heap, lent, failure>>

Shifts == 0..MaxShift
NotAllocated == -1
Nobody == [size |-> -1, pooled |-> FALSE]
NoFailure == [in |-> "none", size |-> 0, lender |-> Nobody]

Request == [size : Sizes, pooled : BOOLEAN]

TypeOK ==
    /\ pooled \in BOOLEAN
    /\ used \in [Shifts -> Seq(Block)]
    /\ free \in [Shifts -> Seq(Block)]
    /\ heap \in [Block -> {NotAllocated} \cup 0..Bytes[MaxShift]]
    /\ lent \in [Block -> {Nobody} \cup Request]
    /\ failure \in {NoFailure} \cup
            [in : {"allocate", "deallocate"}, size : Sizes, lender : {Nobody} \cup Request]

-----------------------------------------------------------------------------
\* Faulty variant: rounds down.
shift_down(size) == Min({i \in Shifts : Bytes[i + 1] > size})

\* The first shift whose power of two is not less than size.
shift(size) == Min({i \in Shifts : Bytes[i] >= size})

Blocks(list) == UNION {ToSet(list[i]) : i \in Shifts}
NoBlocks == [i \in Shifts |-> <<>>]

OnHeap == {b \in Block : heap[b] # NotAllocated}
TotalSize(h) == MapThenSumSet(LAMBDA b : IF h[b] = NotAllocated THEN 0 ELSE h[b], Block)

\* malloc finds room for size bytes in the heap h.
Fits(h, size) == TotalSize(h) + size <= Capacity

\* call_underlying_frees: every block of the lists goes back to malloc.
FreedAll(h, list) ==
    [b \in Block |-> IF b \in Blocks(list) THEN NotAllocated ELSE h[b]]

-----------------------------------------------------------------------------
Init ==
    /\ pooled = FALSE
    /\ used = NoBlocks
    /\ free = NoBlocks
    /\ heap = [b \in Block |-> NotAllocated]
    /\ lent = [b \in Block |-> Nobody]
    /\ failure = NoFailure

Running == failure = NoFailure

\* A new Pool with empty lists; the library makes one only when it has none.
enable_pooling ==
    /\ Running
    /\ ~pooled
    /\ pooled' = TRUE
    /\ used' = NoBlocks
    /\ free' = NoBlocks
    /\ UNCHANGED <<heap, lent, failure>>

\* Faulty variant: ~Pool forgets the free blocks.
disable_leaking ==
    /\ Running
    /\ pooled
    /\ pooled' = FALSE
    /\ heap' = FreedAll(heap, used)
    /\ lent' = [b \in Block |-> IF b \in Blocks(used) THEN Nobody ELSE lent[b]]
    /\ used' = NoBlocks
    /\ free' = NoBlocks
    /\ UNCHANGED failure

\* ~Pool frees the used and the free blocks.
disable_pooling ==
    /\ Running
    /\ pooled
    /\ pooled' = FALSE
    /\ heap' = FreedAll(FreedAll(heap, used), free)
    /\ lent' = [b \in Block |-> IF b \in Blocks(used) THEN Nobody ELSE lent[b]]
    /\ used' = NoBlocks
    /\ free' = NoBlocks
    /\ UNCHANGED failure

\* allocate takes the last free block of the size class.
AllocateReuse(size) ==
    LET i == shift(size) IN
    /\ Running
    /\ pooled
    /\ free[i] # <<>>
    /\ used' = [used EXCEPT ![i] = Append(@, Last(free[i]))]
    /\ free' = [free EXCEPT ![i] = Front(@)]
    /\ lent' = [lent EXCEPT ![Last(free[i])] = [size |-> size, pooled |-> TRUE]]
    /\ UNCHANGED <<pooled, heap, failure>>

\* Faulty variant: asks malloc for the next larger class.
AllocateFreshDouble(size, b) ==
    LET i == shift(size) IN
    /\ Running
    /\ pooled
    /\ free[i] = <<>>
    /\ Fits(heap, Bytes[i + 1])
    /\ b \notin OnHeap
    /\ heap' = [heap EXCEPT ![b] = Bytes[i + 1]]
    /\ used' = [used EXCEPT ![i] = Append(@, b)]
    /\ lent' = [lent EXCEPT ![b] = [size |-> size, pooled |-> TRUE]]
    /\ UNCHANGED <<pooled, free, failure>>

\* No free block in the class: malloc has room for one.
AllocateFresh(size, b) ==
    LET i == shift(size) IN
    /\ Running
    /\ pooled
    /\ free[i] = <<>>
    /\ Fits(heap, Bytes[i])
    /\ b \notin OnHeap
    /\ heap' = [heap EXCEPT ![b] = Bytes[i]]
    /\ used' = [used EXCEPT ![i] = Append(@, b)]
    /\ lent' = [lent EXCEPT ![b] = [size |-> size, pooled |-> TRUE]]
    /\ UNCHANGED <<pooled, free, failure>>

\* malloc has no room: give it all free blocks of the other classes and retry.
AllocateAfterPurge(size, b) ==
    LET i == shift(size)
        purged == FreedAll(heap, free)
    IN
    /\ Running
    /\ pooled
    /\ free[i] = <<>>
    /\ ~Fits(heap, Bytes[i])
    /\ Fits(purged, Bytes[i])
    /\ purged[b] = NotAllocated
    /\ heap' = [purged EXCEPT ![b] = Bytes[i]]
    /\ free' = NoBlocks
    /\ used' = [used EXCEPT ![i] = Append(@, b)]
    /\ lent' = [lent EXCEPT ![b] = [size |-> size, pooled |-> TRUE]]
    /\ UNCHANGED <<pooled, failure>>

\* Faulty variant: gives up without a retry.
AllocateFailsAtOnce(size) ==
    /\ Running
    /\ pooled
    /\ free[shift(size)] = <<>>
    /\ ~Fits(heap, Bytes[shift(size)])
    /\ failure' = [in |-> "allocate", size |-> size, lender |-> Nobody]
    /\ UNCHANGED <<pooled, used, free, heap, lent>>

\* The retry failed too.
AllocateFails(size) ==
    LET i == shift(size) IN
    /\ Running
    /\ pooled
    /\ free[i] = <<>>
    /\ ~Fits(heap, Bytes[i])
    /\ ~Fits(FreedAll(heap, free), Bytes[i])
    /\ heap' = FreedAll(heap, free)
    /\ free' = NoBlocks
    /\ failure' = [in |-> "allocate", size |-> size, lender |-> Nobody]
    /\ UNCHANGED <<pooled, used, lent>>

\* The user of b gives it back with the size it asked for.
Deallocate(b) ==
    LET i == shift(lent[b].size) IN
    /\ Running
    /\ pooled
    /\ lent[b] # Nobody
    /\ Contains(used[i], b)
    /\ free' = [free EXCEPT ![i] = Append(@, b)]
    /\ used' = [used EXCEPT ![i] = RemoveFirst(@, b)]
    /\ lent' = [lent EXCEPT ![b] = Nobody]
    /\ UNCHANGED <<pooled, heap, failure>>

\* "Tried to deallocate from pool, but pool didn't allocate it".
DeallocateFails(b) ==
    /\ Running
    /\ pooled
    /\ lent[b] # Nobody
    /\ ~Contains(used[shift(lent[b].size)], b)
    /\ failure' = [in |-> "deallocate", size |-> lent[b].size, lender |-> lent[b]]
    /\ UNCHANGED <<pooled, used, free, heap, lent>>

\* Without a pool requests go to malloc as they are.
DeviceMalloc(size, b) ==
    /\ Running
    /\ ~pooled
    /\ Fits(heap, size)
    /\ b \notin OnHeap
    /\ heap' = [heap EXCEPT ![b] = size]
    /\ lent' = [lent EXCEPT ![b] = [size |-> size, pooled |-> FALSE]]
    /\ UNCHANGED <<pooled, used, free, failure>>

\* A null pointer from malloc: Alloc::init fails.
DeviceMallocFails(size) ==
    /\ Running
    /\ ~pooled
    /\ size > 0
    /\ ~Fits(heap, size)
    /\ failure' = [in |-> "allocate", size |-> size, lender |-> Nobody]
    /\ UNCHANGED <<pooled, used, free, heap, lent>>

DeviceFree(b) ==
    /\ Running
    /\ ~pooled
    /\ lent[b] # Nobody
    /\ heap' = [heap EXCEPT ![b] = NotAllocated]
    /\ lent' = [lent EXCEPT ![b] = Nobody]
    /\ UNCHANGED <<pooled, used, free, failure>>

Next ==
    \/ enable_pooling
    \/ disable_pooling
    \/ \E size \in Sizes :
        \/ AllocateReuse(size)
        \/ AllocateFails(size)
        \/ DeviceMallocFails(size)
        \/ \E b \in Block :
            \/ AllocateFresh(size, b)
            \/ AllocateAfterPurge(size, b)
            \/ DeviceMalloc(size, b)
    \/ \E b \in Block : Deallocate(b) \/ DeallocateFails(b) \/ DeviceFree(b)

Spec == Init /\ [][Next]_vars

-----------------------------------------------------------------------------
(* Properties *)

\* The pool's two arrays of lists and malloc's own view of the heap agree: a
\* block is in one list at most and there once, with the size of its class, and
\* nothing is handed out by malloc that neither a user nor a free list holds
\* (nothing leaks through reuse, purging or ~Pool).
ListsMatchHeap ==
    LET lists == [i \in Shifts |-> used[i] \o free[i]] IN
    /\ OnHeap = {b \in Block : lent[b] # Nobody} \cup Blocks(free)
    /\ Blocks(used) = {b \in Block : lent[b].pooled}
    /\ \A i, j \in Shifts : \A p \in DOMAIN lists[i], q \in DOMAIN lists[j] :
        lists[i][p] = lists[j][q] => i = j /\ p = q
    /\ \A i \in Shifts : \A b \in ToSet(lists[i]) : heap[b] = Bytes[i]

\* A user's block is large enough for its request, less than twice as large
\* when it came from the pool, and in the used list deallocate will look in.
LentBlocksFit ==
    \A b \in Block :
        lent[b] # Nobody =>
            /\ heap[b] >= lent[b].size
            /\ lent[b].pooled => heap[b] < 2 * Max({lent[b].size, 1})
            /\ lent[b].pooled => Contains(used[shift(lent[b].size)], b)

\* allocate gives up only when the rounded request would not even fit beside
\* the blocks in use alone: blocks idle in free lists never cause a failure.
FailsOnlyWhenFull ==
    failure.in = "allocate" =>
        LET inUse == [b \in Block |-> IF lent[b] = Nobody THEN NotAllocated ELSE heap[b]] IN
        ~Fits(inUse, IF pooled THEN Bytes[shift(failure.size)] ELSE failure.size)

\* deallocate finds every block that was allocated while pooling was on.
FailsOnlyForForeignBlocks ==
    failure.in = "deallocate" => ~failure.lender.pooled

\* The two ways in which the pool gives up have no other cause than these.
FailsOnlyForCause == FailsOnlyWhenFull /\ FailsOnlyForForeignBlocks

\* Blocks differ only by their names.
BlockSymmetry == Permutations(Block)
=============================================================================
