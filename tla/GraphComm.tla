----------------------------- MODULE GraphComm -----------------------------
(***************************************************************************)
(* Comm::graph and sources_from_destinations (Omega_h_comm.cpp:119-180).   *)
(* Every rank knows whom it will send to and has to discover who will send *)
(* to it.  Each rank issues one synchronous non-blocking send to each of   *)
(* its destinations, receives whatever a probe for MPI_ANY_SOURCE finds,   *)
(* enters a non-blocking barrier once its own sends have been matched, and *)
(* stops receiving once that barrier has completed.  All calls use the     *)
(* same communicator and the same tag, so that a probe cannot tell the     *)
(* messages of one call from those of the next: only the two blocking      *)
(* barriers keep them apart.                                               *)
(*                                                                         *)
(* MPI itself is external and appears through its guarantees: a barrier    *)
(* is left only after all have entered it, an Issend completes only after  *)
(* it was matched, messages of one sender to one receiver do not overtake, *)
(* and a probe or a test may miss what has already happened elsewhere.     *)
(***************************************************************************)
EXTENDS Integers, FiniteSets

CONSTANTS Rank,       \* the ranks of the communicator
          MaxCall,    \* bound: collective calls made on the communicator
          MaxDegree   \* bound: destinations of one rank in one call

ASSUME RankAssumption == IsFiniteSet(Rank)
ASSUME MaxCallAssumption == MaxCall \in Nat
ASSUME MaxDegreeAssumption == MaxDegree \in Nat

VARIABLES
    pc,           \* pc[r]: where r is in sources_from_destinations
    call,         \* call[r]: the number of the call r is in, or made last
    dsts,         \* dsts[c][r]: the argument of the c-th call of r
    toSend,       \* toSend[r]: destinations of the send loop still to come
    pending,      \* messages issued and not yet matched by a receive
    sources,      \* sources[r][s]: how often s is in the vector "sources"
    locallyDone,  \* locallyDone[r]: locally_done_flag
    srcs          \* srcs[r][s]: how often s is in the sources last returned

vars == <<pc, call, dsts, toSend, pending, sources, locallyDone, srcs>>

Calls == 1..MaxCall

Message == [src : Rank, dst : Rank, call : Calls]

\* Faulty variant: the vector starts with a place reserved for every rank.
ReservedSources == [s \in Rank |-> -1]
NoSources == [s \in Rank |-> 0]

Destinations == {D \in SUBSET Rank : Cardinality(D) <= MaxDegree}

TypeOK ==
    /\ pc \in [Rank -> {"idle", "barrier1", "send", "probe", "test", "barrier2"}]
    /\ call \in [Rank -> 0..MaxCall]
    /\ dsts \in [Calls -> [Rank -> SUBSET Rank]]
    /\ toSend \in [Rank -> SUBSET Rank]
    /\ pending \in SUBSET Message
    /\ sources \in [Rank -> [Rank -> Nat]]
    /\ locallyDone \in [Rank -> BOOLEAN]
    /\ srcs \in [Rank -> [Rank -> Nat]]

-----------------------------------------------------------------------------
\* Which ranks have entered a barrier of call c: a call enters the first one at
\* once, and the second one when its receive loop has ended.
EnteredFirst(q, c) == call[q] >= c
EnteredSecond(q, c) ==
    \/ call[q] > c
    \/ call[q] = c /\ pc[q] \in {"barrier2", "idle"}

\* Faulty variant: the MPI_Ibarrier is entered with the sends still under way.
EnteredIbarrierEarly(q, c) == call[q] >= c

\* MPI_Ibarrier is entered when the local sends are done, and only then.
EnteredIbarrier(q, c) == call[q] > c \/ (call[q] = c /\ locallyDone[q])

\* Faulty variant: a rank stops receiving once its own sends are done.
ProbedUntilDone(m, r) == m \in pending /\ m.dst = r /\ ~locallyDone[r]

\* MPI's non-overtaking rule: a probe finds the oldest message of a sender.
Probed(m, r) ==
    /\ m \in pending
    /\ m.dst = r
    /\ \A n \in pending : (n.src = m.src /\ n.dst = r) => n.call >= m.call

-----------------------------------------------------------------------------
Init ==
    /\ pc = [r \in Rank |-> "idle"]
    /\ call = [r \in Rank |-> 0]
    /\ dsts = [c \in Calls |-> [r \in Rank |-> {}]]
    /\ toSend = [r \in Rank |-> {}]
    /\ pending = {}
    /\ sources = [r \in Rank |-> NoSources]
    /\ locallyDone = [r \in Rank |-> FALSE]
    /\ srcs = [r \in Rank |-> NoSources]

\* A rank calls graph(dsts), with locals of its own for this call, and waits in
\* the first MPI_Barrier.
Graph(r, D) ==
    /\ pc[r] = "idle"
    /\ call[r] < MaxCall
    /\ pc' = [pc EXCEPT ![r] = "barrier1"]
    /\ call' = [call EXCEPT ![r] = @ + 1]
    /\ dsts' = [dsts EXCEPT ![call[r] + 1][r] = D]
    /\ toSend' = [toSend EXCEPT ![r] = D]
    /\ sources' = [sources EXCEPT ![r] = NoSources]
    /\ locallyDone' = [locallyDone EXCEPT ![r] = FALSE]
    /\ UNCHANGED <<pending, srcs>>

FirstBarrier(r) ==
    /\ pc[r] = "barrier1"
    /\ \A q \in Rank : EnteredFirst(q, call[r])
    /\ pc' = [pc EXCEPT ![r] = "send"]
    /\ UNCHANGED <<call, dsts, toSend, pending, sources, locallyDone, srcs>>

\* One turn of the loop of MPI_Issend.
Issend(r, d) ==
    /\ pc[r] = "send"
    /\ d \in toSend[r]
    /\ pending' = pending \cup {[src |-> r, dst |-> d, call |-> call[r]]}
    /\ toSend' = [toSend EXCEPT ![r] = @ \ {d}]
    /\ UNCHANGED <<pc, call, dsts, sources, locallyDone, srcs>>

AllIssued(r) ==
    /\ pc[r] = "send"
    /\ toSend[r] = {}
    /\ pc' = [pc EXCEPT ![r] = "probe"]
    /\ UNCHANGED <<call, dsts, toSend, pending, sources, locallyDone, srcs>>

\* MPI_Iprobe sees a message, MPI_Recv takes it.
ProbeHit(r, m) ==
    /\ pc[r] = "probe"
    /\ Probed(m, r)
    /\ pending' = pending \ {m}
    /\ sources' = [sources EXCEPT ![r][m.src] = @ + 1]
    /\ pc' = [pc EXCEPT ![r] = "test"]
    /\ UNCHANGED <<call, dsts, toSend, locallyDone, srcs>>

\* MPI_Iprobe sees nothing: there is no message, or it is still on its way.
ProbeMiss(r) ==
    /\ pc[r] = "probe"
    /\ pc' = [pc EXCEPT ![r] = "test"]
    /\ UNCHANGED <<call, dsts, toSend, pending, sources, locallyDone, srcs>>

\* Faulty variant: MPI_Isend, complete before a receive has matched it.
SendsBuffered(r) == toSend[r] = {}

\* MPI_Testall reports that all sends were matched: enter MPI_Ibarrier.
SendsMatched(r) == \A m \in pending : m.src # r
TestallDone(r) ==
    /\ pc[r] = "test"
    /\ ~locallyDone[r]
    /\ SendsMatched(r)
    /\ locallyDone' = [locallyDone EXCEPT ![r] = TRUE]
    /\ pc' = [pc EXCEPT ![r] = "probe"]
    /\ UNCHANGED <<call, dsts, toSend, pending, sources, srcs>>

\* MPI_Test reports that the MPI_Ibarrier has completed: the loop ends and the
\* rank waits in the second MPI_Barrier.
TestDone(r) ==
    /\ pc[r] = "test"
    /\ locallyDone[r]
    /\ \A q \in Rank : EnteredIbarrier(q, call[r])
    /\ pc' = [pc EXCEPT ![r] = "barrier2"]
    /\ UNCHANGED <<call, dsts, toSend, pending, sources, locallyDone, srcs>>

\* MPI_Testall or MPI_Test reports nothing new.
TestMiss(r) ==
    /\ pc[r] = "test"
    /\ pc' = [pc EXCEPT ![r] = "probe"]
    /\ UNCHANGED <<call, dsts, toSend, pending, sources, locallyDone, srcs>>

\* The second MPI_Barrier is left and the sorted sources are returned.  Sorting
\* makes the result a function of how often each rank was received from.
SecondBarrier(r) ==
    /\ pc[r] = "barrier2"
    /\ \A q \in Rank : EnteredSecond(q, call[r])
    /\ pc' = [pc EXCEPT ![r] = "idle"]
    /\ srcs' = [srcs EXCEPT ![r] = sources[r]]
    /\ UNCHANGED <<call, dsts, toSend, pending, sources, locallyDone>>

Done ==
    /\ \A r \in Rank : pc[r] = "idle" /\ call[r] = MaxCall
    /\ UNCHANGED vars

Next ==
    \/ \E r \in Rank :
        \/ \E D \in Destinations : Graph(r, D)
        \/ FirstBarrier(r)
        \/ \E d \in Rank : Issend(r, d)
        \/ AllIssued(r)
        \/ \E m \in pending : ProbeHit(r, m)
        \/ ProbeMiss(r)
        \/ TestallDone(r)
        \/ TestDone(r)
        \/ TestMiss(r)
        \/ SecondBarrier(r)
    \/ Done

Spec == Init /\ [][Next]_vars

\* Every rank makes the collective call and keeps running, and MPI makes
\* progress: what has happened is seen by some later probe or test.
Fairness ==
    \A r \in Rank :
        /\ WF_vars(\E D \in Destinations : Graph(r, D))
        /\ WF_vars(FirstBarrier(r))
        /\ WF_vars(\E d \in Rank : Issend(r, d))
        /\ WF_vars(AllIssued(r))
        /\ WF_vars(ProbeMiss(r))
        /\ WF_vars(TestMiss(r))
        /\ WF_vars(SecondBarrier(r))
        /\ SF_vars(\E m \in pending : ProbeHit(r, m))
        /\ SF_vars(TestallDone(r))
        /\ SF_vars(TestDone(r))

FairSpec == Spec /\ Fairness

-----------------------------------------------------------------------------
(* Properties *)

\* The receive loop of sources_from_destinations ends on a rank only when
\* "sources" holds exactly the ranks that named it in this call, each once:
\* none is missed because the barrier completed early, none is a message of
\* the next call taken by a rank still looping in this one.
LoopEndsWithAllSources ==
    \A r \in Rank :
        pc[r] = "barrier2" =>
            \A s \in Rank :
                sources[r][s] = IF r \in dsts[call[r]][s] THEN 1 ELSE 0

\* A probe for MPI_ANY_SOURCE only ever finds messages of the receiver's own
\* call, although all calls share the communicator and the tag 377.
NoMessageCrossesCalls ==
    \A m \in pending : pc[m.dst] \in {"probe", "test"} => m.call = call[m.dst]

\* Comm::graph is the collective operation GraphCommSpec describes.
Discovery == INSTANCE GraphCommSpec WITH
    ncalls <- call,
    nreturns <- [r \in Rank |-> IF pc[r] = "idle" THEN call[r] ELSE call[r] - 1]
ImplementsDiscovery == Discovery!Spec

\* The polling loop of every rank ends in every call: nobody waits for a
\* barrier that somebody else cannot reach.
AllCallsReturn == <>(\A r \in Rank : pc[r] = "idle" /\ call[r] = MaxCall)

=============================================================================
