---------------------------- MODULE SharedAlloc ----------------------------
(***************************************************************************)
(* The reference-counted handle behind Write and Read                      *)
(* (Omega_h_shared_alloc.hpp) and its passage into a parallel kernel       *)
(* (Omega_h_for.hpp).  The count is an ordinary int, shared by all copies  *)
(* and not atomic, so it must not be touched where threads run: on the way *)
(* into a kernel, while the global flag entering_parallel is set, a handle *)
(* becomes a "parallel" one, which carries the size in place of the        *)
(* pointer to the counted Alloc and can be copied without counting.        *)
(*                                                                         *)
(* A lambda captures a handle by value (FUNCTOR); for_each moves it into   *)
(* the object the threads call (KERNEL), and every thread may copy the     *)
(* captured handle.  The host thread waits in for_each meanwhile.  Two     *)
(* rules the callers keep are guards here: a handle is not assigned to     *)
(* itself, and a captured variable still exists when its lambda is         *)
(* launched.                                                               *)
(***************************************************************************)
EXTENDS Integers, FiniteSets

CONSTANTS Variable,   \* handles of the host thread
          Thread,     \* threads of a kernel
          Alloc,      \* addresses of Alloc objects
          Size,       \* sizes in bytes
          NoAlloc,    \* the null pointer
          FUNCTOR,    \* the handle captured in a lambda on the host
          KERNEL      \* the handle in the functor the threads share

Object == Variable \cup Thread \cup {FUNCTOR, KERNEL}

ASSUME ObjectAssumption ==
    /\ IsFiniteSet(Variable)
    /\ IsFiniteSet(Thread)
    /\ FUNCTOR # KERNEL
    /\ Variable \cap Thread = {}
    /\ {FUNCTOR, KERNEL} \cap (Variable \cup Thread) = {}
ASSUME AllocAssumption == NoAlloc \notin Alloc
ASSUME SizeAssumption == Size \subseteq Nat

VARIABLES
    obj,        \* obj[o]: the handle in object o
    live,       \* live[a]: the Alloc at a exists and its memory is allocated
    use_count,  \* use_count[a]: its field of that name
    size        \* size[a]: its field of that name

allocVars == <<obj, live, use_count, size>>

\* The states of a handle: no object at all, uninitialized, allocated, and
\* allocated in parallel.  ptr is direct_ptr, bytes the size in the tagged word.
Absent == [kind |-> "absent", ptr |-> NoAlloc, bytes |-> 0]
Null == [kind |-> "null", ptr |-> NoAlloc, bytes |-> 0]
Allocated(a) == [kind |-> "allocated", ptr |-> a, bytes |-> 0]
InParallel(a, n) == [kind |-> "parallel", ptr |-> a, bytes |-> n]

SharedAllocs ==
    {Absent, Null} \cup {Allocated(a) : a \in Alloc}
        \cup {InParallel(a, n) : a \in Alloc, n \in Size}

AllocTypeOK ==
    /\ obj \in [Object -> SharedAllocs]
    /\ live \in [Alloc -> BOOLEAN]
    /\ use_count \in [Alloc -> Nat]
    /\ size \in [Alloc -> Size]

Counted(h) == h.kind = "allocated"

-----------------------------------------------------------------------------
\* Faulty variant: handles enter a kernel as they are.
Untagged(h, entering) == h

\* What copy() and move() leave in the new handle, and what they do to the
\* count; entering is the flag entering_parallel.
Tagged(h, entering) ==
    IF Counted(h) /\ entering THEN InParallel(h.ptr, size[h.ptr]) ELSE h

\* Faulty variant: copies are not counted.
CopyUncounted(h, entering) == use_count

CopyCount(h, entering) ==
    IF Counted(h) /\ ~entering
    THEN [use_count EXCEPT ![h.ptr] = @ + 1] ELSE use_count

\* Faulty variant: moving into a kernel keeps the lambda's share of the count.
MoveKeepsCount(h, entering) == use_count

\* Faulty variant: every move gives up a share of the count.
MoveAlwaysCounts(h, entering) ==
    IF Counted(h) THEN [use_count EXCEPT ![h.ptr] = @ - 1] ELSE use_count

MoveCount(h, entering) ==
    IF Counted(h) /\ entering
    THEN [use_count EXCEPT ![h.ptr] = @ - 1] ELSE use_count

\* clear(): the last counted handle deletes the Alloc.
ClearCount(h) ==
    IF Counted(h) THEN [use_count EXCEPT ![h.ptr] = @ - 1] ELSE use_count
ClearLive(h) ==
    IF Counted(h) /\ use_count[h.ptr] = 1 THEN [live EXCEPT ![h.ptr] = FALSE] ELSE live

\* clear() of one handle followed by copy() of another, outside a kernel.
AssignCount(h, g) ==
    [a \in Alloc |->
        use_count[a] - (IF Counted(h) /\ h.ptr = a THEN 1 ELSE 0)
                     + (IF Counted(g) /\ g.ptr = a THEN 1 ELSE 0)]

-----------------------------------------------------------------------------
AllocInit ==
    /\ obj = [o \in Object |-> Absent]
    /\ live = [a \in Alloc |-> FALSE]
    /\ use_count = [a \in Alloc |-> 0]
    /\ size \in [Alloc -> Size]

\* The host thread runs: no kernel does.
HostRuns == obj[KERNEL] = Absent

DefaultConstruct(v) ==
    /\ HostRuns
    /\ obj[v] = Absent
    /\ obj' = [obj EXCEPT ![v] = Null]
    /\ UNCHANGED <<live, use_count, size>>

\* SharedAlloc(size, name): a new Alloc with a count of one (Alloc::init).
Construct(v, a, n) ==
    /\ HostRuns
    /\ obj[v] = Absent
    /\ ~live[a]
    /\ obj' = [obj EXCEPT ![v] = Allocated(a)]
    /\ live' = [live EXCEPT ![a] = TRUE]
    /\ use_count' = [use_count EXCEPT ![a] = 1]
    /\ size' = [size EXCEPT ![a] = n]

CopyConstruct(v, w) ==
    /\ HostRuns
    /\ obj[v] = Absent
    /\ obj[w] # Absent
    /\ obj' = [obj EXCEPT ![v] = Tagged(obj[w], FALSE)]
    /\ use_count' = CopyCount(obj[w], FALSE)
    /\ UNCHANGED <<live, size>>

MoveConstruct(v, w) ==
    /\ HostRuns
    /\ obj[v] = Absent
    /\ obj[w] # Absent
    /\ obj' = [obj EXCEPT ![v] = Tagged(obj[w], FALSE), ![w] = Null]
    /\ use_count' = MoveCount(obj[w], FALSE)
    /\ UNCHANGED <<live, size>>

\* operator=: clear() what v held, then copy() or move().
CopyAssign(v, w) ==
    /\ HostRuns
    /\ v # w
    /\ obj[v] # Absent
    /\ obj[w] # Absent
    /\ obj' = [obj EXCEPT ![v] = Tagged(obj[w], FALSE)]
    /\ live' = ClearLive(obj[v])
    /\ use_count' = AssignCount(obj[v], obj[w])
    /\ UNCHANGED size

MoveAssign(v, w) ==
    /\ HostRuns
    /\ v # w
    /\ obj[v] # Absent
    /\ obj[w] # Absent
    /\ obj' = [obj EXCEPT ![v] = Tagged(obj[w], FALSE), ![w] = Null]
    /\ live' = ClearLive(obj[v])
    /\ use_count' = ClearCount(obj[v])
    /\ UNCHANGED size

\* ~SharedAlloc of a host variable, or of the lambda that captured one.
Destroy(o) ==
    /\ HostRuns
    /\ obj[o] # Absent
    /\ obj' = [obj EXCEPT ![o] = Absent]
    /\ live' = ClearLive(obj[o])
    /\ use_count' = ClearCount(obj[o])
    /\ UNCHANGED size

\* The captured variable, or another handle of the same Alloc, still exists.
CapturedOutlives ==
    Counted(obj[FUNCTOR]) =>
        \E v \in Variable : Counted(obj[v]) /\ obj[v].ptr = obj[FUNCTOR].ptr

\* parallel_for(n, f): for_each moves the caller's lambda into the kernel.
Launch ==
    /\ HostRuns
    /\ obj[FUNCTOR] # Absent
    /\ CapturedOutlives
    /\ obj' = [obj EXCEPT ![KERNEL] = Tagged(obj[FUNCTOR], TRUE), ![FUNCTOR] = Null]
    /\ use_count' = MoveCount(obj[FUNCTOR], TRUE)
    /\ UNCHANGED <<live, size>>

\* parallel_for(n, f, name): the lambda is copied and the copy moved, so that
\* the caller's own can be launched again.
LaunchCopy ==
    /\ HostRuns
    /\ obj[FUNCTOR] # Absent
    /\ obj' = [obj EXCEPT ![KERNEL] = Tagged(obj[FUNCTOR], TRUE)]
    /\ UNCHANGED <<live, use_count, size>>

\* A thread copies the kernel's handle.  Counting here would be a data race, in
\* which an increment can be lost.
CopyInKernel(t) ==
    /\ obj[KERNEL] # Absent
    /\ obj[t] = Absent
    /\ obj' = [obj EXCEPT ![t] = Tagged(obj[KERNEL], FALSE)]
    /\ use_count' \in {CopyCount(obj[KERNEL], FALSE)} \cup
            (IF Cardinality(Thread) > 1 THEN {use_count} ELSE {})
    /\ UNCHANGED <<live, size>>

DestroyInKernel(t) ==
    /\ obj[t] # Absent
    /\ obj' = [obj EXCEPT ![t] = Absent]
    /\ live' = ClearLive(obj[t])
    /\ use_count' = ClearCount(obj[t])
    /\ UNCHANGED size

\* for_each returns and its functor is destroyed.
EndKernel ==
    /\ obj[KERNEL] # Absent
    /\ \A t \in Thread : obj[t] = Absent
    /\ obj' = [obj EXCEPT ![KERNEL] = Absent]
    /\ live' = ClearLive(obj[KERNEL])
    /\ use_count' = ClearCount(obj[KERNEL])
    /\ UNCHANGED size

HostObject == Variable \cup {FUNCTOR}

AllocNext ==
    \/ \E v \in Variable :
        \/ DefaultConstruct(v)
        \/ \E a \in Alloc, n \in Size : Construct(v, a, n)
        \/ \E w \in Variable :
            \/ MoveConstruct(v, w)
            \/ CopyAssign(v, w)
            \/ MoveAssign(v, w)
    \/ \E o \in HostObject, w \in Variable : CopyConstruct(o, w)
    \/ \E o \in HostObject : Destroy(o)
    \/ Launch
    \/ LaunchCopy
    \/ \E t \in Thread : CopyInKernel(t) \/ DestroyInKernel(t)
    \/ EndKernel

AllocSpec == AllocInit /\ [][AllocNext]_allocVars

-----------------------------------------------------------------------------
(* Properties *)

Holders(a) == {o \in Object : Counted(obj[o]) /\ obj[o].ptr = a}

\* The count of every Alloc is the number of host handles that hold it, through
\* construction, assignment, moves and any number of kernels, and the Alloc is
\* deleted exactly when that number falls to zero.
CountsExact ==
    \A a \in Alloc : use_count[a] = Cardinality(Holders(a)) /\ (live[a] <=> use_count[a] > 0)

\* No handle, on the host or in a kernel, points to memory that has been freed.
NothingDangles ==
    \A o \in Object : obj[o].ptr # NoAlloc => live[obj[o].ptr]

\* Only handles that never touch the count exist where threads run, and size()
\* in a kernel is the size of the allocation.
KernelHandlesTagged ==
    \A o \in Thread \cup {KERNEL} :
        obj[o].ptr # NoAlloc => obj[o] = InParallel(obj[o].ptr, size[obj[o].ptr])
=============================================================================
