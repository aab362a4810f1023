------------------------------ MODULE MCMemory ------------------------------
(***************************************************************************)
(* Small instances of the two layers under every array: the pool that      *)
(* lends blocks (Pool) and the counted handles through which they are held *)
(* and passed into kernels (SharedAlloc).  Neither looks at the state of   *)
(* the other, so a behaviour is about one of them, named by mode, and the  *)
(* other one does not move.                                                *)
(***************************************************************************)
EXTENDS Pool, SharedAlloc

VARIABLE mode

memoryVars == <<mode, vars, allocVars>>

MemoryInit ==
    /\ mode \in {"pool", "handles"}
    /\ Init /\ AllocInit
    /\ mode = "pool" => \A a \in Alloc : size[a] = 0

PoolStep == mode = "pool" /\ Next /\ UNCHANGED <<mode, allocVars>>

\* A program that has failed does nothing any more.
Stopped == mode = "pool" /\ ~Running /\ UNCHANGED memoryVars

HandleStep == mode = "handles" /\ AllocNext /\ UNCHANGED <<mode, vars>>

MemoryNext == PoolStep \/ Stopped \/ HandleStep

MemorySpec == MemoryInit /\ [][MemoryNext]_memoryVars

\* Blocks, and variables, differ only by their names.
MemorySymmetry == BlockSymmetry \cup Permutations(Variable)
=============================================================================
