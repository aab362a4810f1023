--------------------------- MODULE AllocTracking ---------------------------
(***************************************************************************)
(* The optional memory accounting of Omega_h_shared_alloc.cpp: between     *)
(* start_tracking_allocations and stop_tracking_allocations the Allocs of  *)
(* a process form a doubly linked list, and whenever the total reaches a   *)
(* new maximum that list is walked to record who holds how much, for the   *)
(* report stop_tracking_allocations prints.                                *)
(***************************************************************************)
EXTENDS Integers, Sequences, FiniteSetsExt

CONSTANTS Alloc,      \* addresses of Alloc objects
          Sizes,      \* sizes in bytes
          nullptr

VARIABLES
    tracking,   \* global_allocs is not null
    live,       \* the Allocs that exist
    size,       \* size[a], prev[a], next[a]: the fields of the Alloc at a
    prev,
    next,
    first,      \* the fields of global_allocs
    last,
    total_bytes,
    high_water_bytes,
    high_water_records,
    corrupted   \* memory of a deleted Alloc has been written

fields == <<size, prev, next>>
lists == <<first, last, total_bytes, high_water_bytes, high_water_records>>
vars == <<tracking, live, fields, lists, corrupted>>

Init ==
    /\ tracking = FALSE
    /\ live = {}
    /\ size = [a \in Alloc |-> 0]
    /\ prev = [a \in Alloc |-> nullptr]
    /\ next = [a \in Alloc |-> nullptr]
    /\ first = nullptr
    /\ last = nullptr
    /\ total_bytes = 0
    /\ high_water_bytes = 0
    /\ high_water_records = <<>>
    /\ corrupted = FALSE

\* Tracking starts before there are Allocs: theirs would not be in the list.
start_tracking_allocations ==
    /\ ~tracking
    /\ ~corrupted
    /\ live = {}
    /\ tracking' = TRUE
    /\ first' = nullptr
    /\ last' = nullptr
    /\ total_bytes' = 0
    /\ high_water_bytes' = 0
    /\ high_water_records' = <<>>
    /\ UNCHANGED <<live, fields, corrupted>>

\* The report is printed and global_allocs deleted.
stop_tracking_allocations ==
    /\ tracking
    /\ ~corrupted
    /\ tracking' = FALSE
    /\ UNCHANGED <<live, fields, lists, corrupted>>

\* The Allocs met from a along the next fields nx; no walk is longer than the
\* number of Allocs.
Walk(a, nx) ==
    LET from[k \in 0..Cardinality(Alloc)] ==
            IF k = 0 THEN <<a>>
            ELSE LET w == from[k - 1] IN
                 IF w[Len(w)] = nullptr THEN w ELSE Append(w, nx[w[Len(w)]])
        w == from[Cardinality(Alloc)]
    IN SelectSeq(w, LAMBDA p : p # nullptr)

\* Alloc::init appends the Alloc to the list.
init(a, n) ==
    LET nx == IF last = nullptr THEN [next EXCEPT ![a] = nullptr]
              ELSE [next EXCEPT ![a] = nullptr, ![last] = a]
        fst == IF last = nullptr THEN a ELSE first
        sz == [size EXCEPT ![a] = n]
        total == total_bytes + n
    IN
    /\ tracking
    /\ ~corrupted
    /\ a \notin live
    /\ live' = live \cup {a}
    /\ size' = sz
    /\ IF last # nullptr /\ last \notin live
       THEN corrupted' = TRUE /\ UNCHANGED <<prev, next, lists>>
       ELSE /\ prev' = [prev EXCEPT ![a] = last]
            /\ next' = nx
            /\ first' = fst
            /\ last' = IF last = nullptr THEN a ELSE last
            /\ total_bytes' = total
            /\ IF total > high_water_bytes
               THEN /\ high_water_bytes' = total
                    /\ high_water_records' =
                        LET w == Walk(fst, nx) IN [k \in DOMAIN w |-> sz[w[k]]]
               ELSE UNCHANGED <<high_water_bytes, high_water_records>>
            /\ UNCHANGED corrupted
    /\ UNCHANGED tracking

\* ~Alloc takes it out again.
delete(a) ==
    /\ tracking
    /\ ~corrupted
    /\ a \in live
    /\ live' = live \ {a}
    /\ IF {prev[a], next[a]} \subseteq live \cup {nullptr}
       THEN /\ last' = IF next[a] = nullptr THEN prev[a] ELSE last
            /\ first' = IF prev[a] = nullptr THEN next[a] ELSE first
            /\ prev' = [p \in Alloc |-> IF p = next[a] THEN prev[a] ELSE prev[p]]
            /\ next' = [p \in Alloc |-> IF p = prev[a] THEN next[a] ELSE next[p]]
            /\ total_bytes' = total_bytes - size[a]
            /\ UNCHANGED <<high_water_bytes, high_water_records, corrupted>>
       ELSE corrupted' = TRUE /\ UNCHANGED <<prev, next, lists>>
    /\ UNCHANGED <<tracking, size>>

\* Without tracking an Alloc is not linked; its fields are not initialized.
deleteUntracked(a) ==
    /\ ~tracking
    /\ ~corrupted
    /\ a \in live
    /\ live' = live \ {a}
    /\ UNCHANGED <<tracking, fields, lists, corrupted>>

Next ==
    \/ start_tracking_allocations
    \/ stop_tracking_allocations
    \/ \E a \in Alloc :
        \/ \E n \in Sizes : init(a, n)
        \/ delete(a)
        \/ deleteUntracked(a)

Spec == Init /\ [][Next]_vars

-----------------------------------------------------------------------------
(* Properties *)

RecordedBytes ==
    MapThenSumSet(LAMBDA k : high_water_records[k], DOMAIN high_water_records)

\* The report of stop_tracking_allocations, "The high water memory usage was
\* ... bytes, allocated as follows", lists records that add up to that usage.
RecordsAddUp == high_water_bytes = RecordedBytes
=============================================================================
