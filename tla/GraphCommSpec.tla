--------------------------- MODULE GraphCommSpec ---------------------------
(***************************************************************************)
(* What Comm::graph promises its callers (Omega_h_comm.cpp:167): it is a   *)
(* collective operation in which every rank names the ranks it will send   *)
(* to, and every rank learns exactly the ranks that named it.  A call may  *)
(* return only after every rank of the communicator has made it, and the   *)
(* n-th call of one rank is matched with the n-th call of every other.     *)
(***************************************************************************)
EXTENDS Integers

CONSTANTS Rank,      \* the ranks of the communicator
          MaxCall    \* bound: collective calls made on the communicator

VARIABLES
    ncalls,    \* ncalls[r]: calls of graph that r has begun
    nreturns,  \* nreturns[r]: calls of graph that have returned on r
    dsts,      \* dsts[c][r]: the destinations r passed to its c-th call
    srcs       \* srcs[r][s]: how often s occurs in the sources last returned

vars == <<ncalls, nreturns, dsts, srcs>>

Calls == 1..MaxCall

NoSources == [s \in Rank |-> 0]

\* The sources that belong to r in call c: the ranks that named r, once each.
SourcesOf(r, c) == [s \in Rank |-> IF r \in dsts[c][s] THEN 1 ELSE 0]

Init ==
    /\ ncalls = [r \in Rank |-> 0]
    /\ nreturns = [r \in Rank |-> 0]
    /\ dsts = [c \in Calls |-> [r \in Rank |-> {}]]
    /\ srcs = [r \in Rank |-> NoSources]

Call(r, D) ==
    /\ ncalls[r] = nreturns[r]
    /\ ncalls[r] < MaxCall
    /\ ncalls' = [ncalls EXCEPT ![r] = @ + 1]
    /\ dsts' = [dsts EXCEPT ![ncalls[r] + 1][r] = D]
    /\ UNCHANGED <<nreturns, srcs>>

Return(r) ==
    /\ nreturns[r] < ncalls[r]
    /\ \A q \in Rank : ncalls[q] >= ncalls[r]
    /\ nreturns' = [nreturns EXCEPT ![r] = @ + 1]
    /\ srcs' = [srcs EXCEPT ![r] = SourcesOf(r, ncalls[r])]
    /\ UNCHANGED <<ncalls, dsts>>

Next ==
    \E r \in Rank :
        \/ \E D \in SUBSET Rank : Call(r, D)
        \/ Return(r)

Spec == Init /\ [][Next]_vars
=============================================================================
