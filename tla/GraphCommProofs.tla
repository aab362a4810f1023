-------------------------- MODULE GraphCommProofs --------------------------
(***************************************************************************)
(* Proofs about GraphComm, for any finite set of ranks, any number of      *)
(* calls and any destinations.                                             *)
(***************************************************************************)
EXTENDS GraphComm, TLAPS

\* The message of s to r in call c has been issued.
Sent(s, r, c) ==
    \/ call[s] > c /\ r \in dsts[c][s]
    \/ call[s] = c /\ r \in dsts[c][s] /\ r \notin toSend[s]

Msg(s, r, c) == [src |-> s, dst |-> r, call |-> c]

\* Where each rank's locals stand at each point of the routine.
LocalInv ==
    \A r \in Rank :
        /\ pc[r] # "idle" => call[r] >= 1
        /\ pc[r] = "barrier1" => toSend[r] = dsts[call[r]][r]
        /\ pc[r] = "send" => toSend[r] \subseteq dsts[call[r]][r]
        /\ pc[r] \in {"barrier1", "send"} => ~locallyDone[r]
        /\ pc[r] \notin {"barrier1", "send"} => toSend[r] = {}
        /\ pc[r] = "barrier2" => locallyDone[r]

\* What the blocking barriers keep apart: a rank past the first barrier of its
\* call has no rank behind that call, and a rank that has begun a call has no
\* rank still looping in the call before.
BarrierInv ==
    \A r, q \in Rank :
        /\ pc[r] # "barrier1" => call[q] >= call[r]
        /\ EnteredSecond(q, call[r] - 1)
        /\ pc[r] = "idle" => EnteredSecond(q, call[r])

\* Who has left the receive loop has seen the MPI_Ibarrier complete.
IbarrierInv ==
    \A r, q \in Rank : pc[r] = "barrier2" => EnteredIbarrier(q, call[r])

\* An unmatched message keeps its sender in the loop of the message's call.
PendingInv ==
    \A m \in pending :
        /\ m.call = call[m.src]
        /\ pc[m.src] \in {"send", "probe", "test"}
        /\ ~locallyDone[m.src]
        /\ m.dst \in dsts[m.call][m.src] /\ m.dst \notin toSend[m.src]

\* A rank has received from s exactly if the message of s to it in its own call
\* was issued and is matched.
CountInv ==
    \A r, s \in Rank :
        call[r] >= 1 =>
            sources[r][s] =
                IF Sent(s, r, call[r]) /\ Msg(s, r, call[r]) \notin pending
                THEN 1 ELSE 0

IInv == TypeOK /\ LocalInv /\ BarrierInv /\ IbarrierInv /\ PendingInv /\ CountInv

-----------------------------------------------------------------------------
\* Two ranks in the loop at the same time are in the same call.
LEMMA SameCall ==
    ASSUME IInv, NEW r \in Rank, NEW s \in Rank,
           pc[r] \in {"send", "probe", "test"}, pc[s] \in {"send", "probe", "test"}
    PROVE  call[r] = call[s]
<1>1. call[r] \in Int /\ call[s] \in Int
  BY MaxCallAssumption DEF IInv, TypeOK
<1>2. call[r] >= call[s] /\ call[s] >= call[r]
  BY DEF IInv, BarrierInv
<1> QED
  BY <1>1, <1>2

\* What is sent and received is not touched by the other steps.
LEMMA CountUntouched ==
    ASSUME CountInv, UNCHANGED <<call, dsts, toSend, pending, sources>>
    PROVE  CountInv'
  BY DEF CountInv, Sent, Msg

LEMMA InitInv == Init => IInv
<1> SUFFICES ASSUME Init PROVE IInv
  OBVIOUS
<1>1. TypeOK
  BY MaxCallAssumption DEF Init, TypeOK, Calls, NoSources
<1>2. LocalInv /\ IbarrierInv /\ PendingInv /\ CountInv
  BY DEF Init, LocalInv, IbarrierInv, PendingInv, CountInv
<1>3. BarrierInv
  BY DEF Init, BarrierInv, EnteredSecond
<1> QED
  BY <1>1, <1>2, <1>3 DEF IInv

LEMMA GraphInv ==
    ASSUME IInv, NEW r \in Rank, NEW D \in Destinations, Graph(r, D)
    PROVE  IInv'
<1> USE DEF IInv, Graph
<1>0. call[r] \in 0..MaxCall /\ call[r] + 1 \in Calls /\ D \in SUBSET Rank
  BY MaxCallAssumption DEF TypeOK, Calls, Destinations
<1>1. TypeOK'
  <2>1. call' \in [Rank -> 0..MaxCall]
    BY <1>0, MaxCallAssumption DEF TypeOK, Calls
  <2>2. dsts' \in [Calls -> [Rank -> SUBSET Rank]]
    BY <1>0 DEF TypeOK
  <2>3. sources' \in [Rank -> [Rank -> Nat]]
    BY DEF TypeOK, NoSources
  <2> QED
    BY <1>0, <2>1, <2>2, <2>3 DEF TypeOK
<1>2. LocalInv'
  <2>1. dsts'[call[r] + 1][r] = D
    BY <1>0 DEF TypeOK
  <2>2. \A q \in Rank : q # r => \A c \in Calls : dsts'[c][q] = dsts[c][q]
    BY DEF TypeOK
  <2>3. \A q \in Rank : pc[q] # "idle" => call[q] \in Calls
    BY MaxCallAssumption DEF TypeOK, LocalInv, Calls
  <2> QED
    BY <1>0, <1>1, <2>1, <2>2, <2>3 DEF TypeOK, LocalInv
<1>3. BarrierInv'
  BY <1>1 DEF TypeOK, LocalInv, BarrierInv, EnteredSecond
<1>4. IbarrierInv'
  BY <1>1 DEF TypeOK, LocalInv, BarrierInv, IbarrierInv, EnteredIbarrier, EnteredSecond
<1>5. PendingInv'
  BY <1>1 DEF TypeOK, LocalInv, PendingInv, Message
<1>6. ASSUME NEW p \in Rank, NEW s \in Rank, call'[p] >= 1
      PROVE  sources'[p][s] =
                IF Sent(s, p, call[p])' /\ Msg(s, p, call[p])' \notin pending'
                THEN 1 ELSE 0
  <2> DEFINE c == call[p]
  <2>1. call[r] \in 0..MaxCall /\ call[s] \in 0..MaxCall /\ c \in 0..MaxCall
    BY DEF TypeOK
  <2>2. CASE p = r
    \* The call of r begins: every other rank is at most in its first barrier.
    <3>1. sources'[p][s] = 0 /\ call'[p] = c + 1
      BY <2>2, <2>1 DEF TypeOK, NoSources
    <3>2. call[s] <= c + 1
      BY <2>1, <2>2, MaxCallAssumption DEF BarrierInv, EnteredSecond
    <3>3. CASE s = r
      BY <2>1, <2>2, <3>1, <3>3, MaxCallAssumption DEF Sent, TypeOK, Calls
    <3>4. CASE s # r /\ call[s] = c + 1
      <4>1. pc[s] = "barrier1"
        BY <3>4, <2>1, <2>2, MaxCallAssumption DEF BarrierInv
      <4>2. toSend[s] = dsts[c + 1][s]
        BY <4>1, <3>4 DEF LocalInv
      <4>3. toSend'[s] = toSend[s] /\ dsts'[c + 1][s] = dsts[c + 1][s] /\ call'[s] = c + 1
        BY <3>4, <2>1, <2>2, MaxCallAssumption DEF TypeOK, Calls
      <4> QED
        BY <4>2, <4>3, <3>1, <2>1, MaxCallAssumption DEF Sent
    <3>5. CASE s # r /\ call[s] < c + 1
      BY <2>1, <2>2, <3>1, <3>5, MaxCallAssumption DEF Sent, TypeOK
    <3> QED
      BY <3>2, <3>3, <3>4, <3>5, <2>1, MaxCallAssumption
  <2>3. CASE p # r
    <3>1. call'[p] = c /\ sources'[p][s] = sources[p][s] /\ c >= 1
      BY <2>3, <1>6, <2>1 DEF TypeOK
    <3>2. Sent(s, p, call[p])' <=> Sent(s, p, call[p])
      <4>1. CASE s # r
        <5>1. c \in Calls /\ call'[s] = call[s] /\ toSend'[s] = toSend[s]
          BY <4>1, <3>1, <2>1, MaxCallAssumption DEF TypeOK, Calls
        <5>2. dsts'[c][s] = dsts[c][s]
          BY <4>1, <5>1 DEF TypeOK
        <5> QED
          BY <5>1, <5>2, <3>1 DEF Sent
      <4>2. CASE s = r
        <5>1. call'[s] = call[s] + 1 /\ toSend[s] = {} /\ toSend'[s] = D
          BY <4>2, <2>1, MaxCallAssumption DEF TypeOK, LocalInv
        <5>2. dsts'[call[s] + 1][s] = D
          BY <4>2, <2>1, MaxCallAssumption DEF TypeOK, Calls
        <5>3. c # call[s] + 1 => dsts'[c][s] = dsts[c][s]
          BY <4>2, <3>1, <2>1, MaxCallAssumption DEF TypeOK, Calls
        <5> QED
          BY <5>1, <5>2, <5>3, <3>1, <2>1, MaxCallAssumption DEF Sent
      <4> QED
        BY <4>1, <4>2
    <3> QED
      BY <3>1, <3>2 DEF CountInv, Msg
  <2> QED
    BY <2>2, <2>3
<1> QED
  BY <1>1, <1>2, <1>3, <1>4, <1>5, <1>6 DEF CountInv

LEMMA FirstBarrierInv ==
    ASSUME IInv, NEW r \in Rank, FirstBarrier(r)
    PROVE  IInv'
<1> USE DEF IInv, FirstBarrier, EnteredFirst
<1>1. TypeOK'
  BY MaxCallAssumption DEF TypeOK, LocalInv, Destinations, NoSources, Calls, Message
<1>2. LocalInv'
  BY <1>1 DEF TypeOK, LocalInv, PendingInv, Calls, Message
<1>3. BarrierInv'
  BY <1>1 DEF TypeOK, LocalInv, BarrierInv, EnteredSecond
<1>4. IbarrierInv'
  BY <1>1 DEF TypeOK, LocalInv, BarrierInv, IbarrierInv, EnteredIbarrier, EnteredSecond
<1>5. PendingInv'
  BY <1>1 DEF TypeOK, LocalInv, PendingInv, Message
<1>6. CountInv'
  BY CountUntouched
<1> QED
  BY <1>1, <1>2, <1>3, <1>4, <1>5, <1>6

LEMMA IssendInv ==
    ASSUME IInv, NEW r \in Rank, NEW d \in Rank, Issend(r, d)
    PROVE  IInv'
<1> USE DEF IInv, Issend
<1>1. TypeOK'
  BY MaxCallAssumption DEF TypeOK, LocalInv, Destinations, NoSources, Calls, Message
<1>2. LocalInv'
  <2>1. \A q \in Rank : q # r => toSend'[q] = toSend[q]
    BY DEF TypeOK
  <2>2. toSend'[r] = toSend[r] \ {d} /\ pc[r] = "send"
    BY DEF TypeOK
  <2>3. UNCHANGED <<pc, call, dsts, locallyDone>>
    OBVIOUS
  <2> QED
    BY <2>1, <2>2, <2>3 DEF LocalInv
<1>3. BarrierInv'
  BY <1>1 DEF TypeOK, LocalInv, BarrierInv, EnteredSecond
<1>4. IbarrierInv'
  BY <1>1 DEF TypeOK, LocalInv, BarrierInv, IbarrierInv, EnteredIbarrier, EnteredSecond
<1>5. PendingInv'
  BY <1>1 DEF TypeOK, LocalInv, PendingInv, Message
<1>6. ASSUME NEW p \in Rank, NEW s \in Rank, call'[p] >= 1
      PROVE  sources'[p][s] =
                IF Sent(s, p, call[p])' /\ Msg(s, p, call[p])' \notin pending'
                THEN 1 ELSE 0
  <2>1. call[r] \in 0..MaxCall /\ call[s] \in 0..MaxCall /\ call[p] \in 0..MaxCall
    BY DEF TypeOK
  <2>2. CASE s = r /\ p = d
    \* The new message is pending, so that it does not count yet.
    <3>1. call[p] = call[s] \/ call[p] # call[s]
      OBVIOUS
    <3>2. call[p] >= call[s] /\ EnteredSecond(s, call[p] - 1)
      BY <2>2 DEF BarrierInv
    <3>3. call[p] = call[s]
      BY <3>2, <2>1, <2>2, MaxCallAssumption DEF EnteredSecond
    <3>4. d \in toSend[s] /\ Msg(s, p, call[p]) \in pending'
      BY <3>3, <2>2 DEF Msg
    <3>5. ~Sent(s, p, call[p])
      BY <3>3, <3>4, <2>1, <2>2, MaxCallAssumption DEF Sent
    <3>6. sources[p][s] = 0
      BY <3>5, <1>6 DEF CountInv
    <3> QED
      BY <3>4, <3>6 DEF Msg
  <2>3. CASE ~(s = r /\ p = d)
    <3>1. Msg(s, p, call[p]) \in pending' <=> Msg(s, p, call[p]) \in pending
      BY <2>3 DEF Msg
    <3>2. Sent(s, p, call[p])' <=> Sent(s, p, call[p])
      BY <2>3 DEF Sent, TypeOK
    <3> QED
      BY <3>1, <3>2, <1>6 DEF CountInv, Msg
  <2> QED
    BY <2>2, <2>3
<1> QED
  BY <1>1, <1>2, <1>3, <1>4, <1>5, <1>6 DEF CountInv

LEMMA AllIssuedInv ==
    ASSUME IInv, NEW r \in Rank, AllIssued(r)
    PROVE  IInv'
<1> USE DEF IInv, AllIssued
<1>1. TypeOK'
  BY MaxCallAssumption DEF TypeOK, LocalInv, Destinations, NoSources, Calls, Message
<1>2. LocalInv'
  BY <1>1 DEF TypeOK, LocalInv, PendingInv, Calls, Message
<1>3. BarrierInv'
  BY <1>1 DEF TypeOK, LocalInv, BarrierInv, EnteredSecond
<1>4. IbarrierInv'
  BY <1>1 DEF TypeOK, LocalInv, BarrierInv, IbarrierInv, EnteredIbarrier, EnteredSecond
<1>5. PendingInv'
  BY <1>1 DEF TypeOK, LocalInv, PendingInv, Message
<1>6. CountInv'
  BY CountUntouched
<1> QED
  BY <1>1, <1>2, <1>3, <1>4, <1>5, <1>6

LEMMA ProbeHitInv ==
    ASSUME IInv, NEW r \in Rank, NEW m \in pending, ProbeHit(r, m)
    PROVE  IInv'
<1> USE DEF IInv, ProbeHit, Probed
<1>0. m.src \in Rank /\ m.dst = r /\ m.call = call[r]
  <2>1. m.src \in Rank /\ m.dst = r
    BY DEF TypeOK, Message
  <2>2. m.call = call[m.src] /\ pc[m.src] \in {"send", "probe", "test"}
    BY DEF PendingInv
  <2> QED
    BY <2>1, <2>2, SameCall
<1>1. TypeOK'
  <2>1. sources' \in [Rank -> [Rank -> Nat]]
    BY <1>0 DEF TypeOK
  <2> QED
    BY <2>1 DEF TypeOK
<1>2. LocalInv'
  BY <1>1 DEF TypeOK, LocalInv, PendingInv, Calls, Message
<1>3. BarrierInv'
  BY <1>1 DEF TypeOK, LocalInv, BarrierInv, EnteredSecond
<1>4. IbarrierInv'
  BY <1>1 DEF TypeOK, LocalInv, BarrierInv, IbarrierInv, EnteredIbarrier, EnteredSecond
<1>5. PendingInv'
  BY <1>1 DEF TypeOK, LocalInv, PendingInv, Message
<1>6. ASSUME NEW p \in Rank, NEW s \in Rank, call'[p] >= 1
      PROVE  sources'[p][s] =
                IF Sent(s, p, call[p])' /\ Msg(s, p, call[p])' \notin pending'
                THEN 1 ELSE 0
  <2>1. m = Msg(m.src, r, call[r])
    BY <1>0, MaxCallAssumption DEF Msg, Message, TypeOK
  <2>2. Sent(s, p, call[p])' <=> Sent(s, p, call[p])
    BY DEF Sent
  <2>3. CASE p = r /\ s = m.src
    \* The message had been issued, so the count goes from 0 to 1.
    <3>1. m.dst \in dsts[call[r]][s] /\ Sent(s, r, call[r])
      BY <2>3, <1>0 DEF Sent, PendingInv
    <3>2. sources[r][s] = 0
      BY <3>1, <2>1, <2>3, <1>6 DEF CountInv
    <3>3. sources'[r][s] = 1
      BY <3>2, <2>3, <1>0 DEF TypeOK
    <3>4. Msg(s, r, call[r]) \notin pending'
      BY <2>1, <2>3
    <3> QED
      BY <2>2, <2>3, <3>1, <3>3, <3>4 DEF Msg
  <2>4. CASE ~(p = r /\ s = m.src)
    <3>1. Msg(s, p, call[p]) # m
      BY <2>4, <1>0 DEF Msg
    <3>2. sources'[p][s] = sources[p][s]
      BY <2>4, <1>0 DEF TypeOK
    <3> QED
      BY <2>2, <3>1, <3>2, <1>6 DEF CountInv, Msg
  <2> QED
    BY <2>3, <2>4
<1> QED
  BY <1>1, <1>2, <1>3, <1>4, <1>5, <1>6 DEF CountInv

LEMMA ProbeMissInv ==
    ASSUME IInv, NEW r \in Rank, ProbeMiss(r)
    PROVE  IInv'
<1> USE DEF IInv, ProbeMiss
<1>1. TypeOK'
  BY MaxCallAssumption DEF TypeOK, LocalInv, Destinations, NoSources, Calls, Message
<1>2. LocalInv'
  BY <1>1 DEF TypeOK, LocalInv, PendingInv, Calls, Message
<1>3. BarrierInv'
  BY <1>1 DEF TypeOK, LocalInv, BarrierInv, EnteredSecond
<1>4. IbarrierInv'
  BY <1>1 DEF TypeOK, LocalInv, BarrierInv, IbarrierInv, EnteredIbarrier, EnteredSecond
<1>5. PendingInv'
  BY <1>1 DEF TypeOK, LocalInv, PendingInv, Message
<1>6. CountInv'
  BY CountUntouched
<1> QED
  BY <1>1, <1>2, <1>3, <1>4, <1>5, <1>6

LEMMA TestallDoneInv ==
    ASSUME IInv, NEW r \in Rank, TestallDone(r)
    PROVE  IInv'
<1> USE DEF IInv, TestallDone, SendsMatched
<1>1. TypeOK'
  BY MaxCallAssumption DEF TypeOK, LocalInv, Destinations, NoSources, Calls, Message
<1>2. LocalInv'
  BY <1>1 DEF TypeOK, LocalInv, PendingInv, Calls, Message
<1>3. BarrierInv'
  BY <1>1 DEF TypeOK, LocalInv, BarrierInv, EnteredSecond
<1>4. IbarrierInv'
  BY <1>1 DEF TypeOK, LocalInv, BarrierInv, IbarrierInv, EnteredIbarrier, EnteredSecond
<1>5. PendingInv'
  BY <1>1 DEF TypeOK, LocalInv, PendingInv, Message
<1>6. CountInv'
  BY CountUntouched
<1> QED
  BY <1>1, <1>2, <1>3, <1>4, <1>5, <1>6

LEMMA TestDoneInv ==
    ASSUME IInv, NEW r \in Rank, TestDone(r)
    PROVE  IInv'
<1> USE DEF IInv, TestDone
<1>1. TypeOK'
  BY MaxCallAssumption DEF TypeOK, LocalInv, Destinations, NoSources, Calls, Message
<1>2. LocalInv'
  BY <1>1 DEF TypeOK, LocalInv, PendingInv, Calls, Message
<1>3. BarrierInv'
  BY <1>1 DEF TypeOK, LocalInv, BarrierInv, EnteredSecond
<1>4. IbarrierInv'
  BY <1>1 DEF TypeOK, LocalInv, BarrierInv, IbarrierInv, EnteredIbarrier, EnteredSecond
<1>5. PendingInv'
  BY <1>1 DEF TypeOK, LocalInv, PendingInv, Message
<1>6. CountInv'
  BY CountUntouched
<1> QED
  BY <1>1, <1>2, <1>3, <1>4, <1>5, <1>6

LEMMA TestMissInv ==
    ASSUME IInv, NEW r \in Rank, TestMiss(r)
    PROVE  IInv'
<1> USE DEF IInv, TestMiss
<1>1. TypeOK'
  BY MaxCallAssumption DEF TypeOK, LocalInv, Destinations, NoSources, Calls, Message
<1>2. LocalInv'
  BY <1>1 DEF TypeOK, LocalInv, PendingInv, Calls, Message
<1>3. BarrierInv'
  BY <1>1 DEF TypeOK, LocalInv, BarrierInv, EnteredSecond
<1>4. IbarrierInv'
  BY <1>1 DEF TypeOK, LocalInv, BarrierInv, IbarrierInv, EnteredIbarrier, EnteredSecond
<1>5. PendingInv'
  BY <1>1 DEF TypeOK, LocalInv, PendingInv, Message
<1>6. CountInv'
  BY CountUntouched
<1> QED
  BY <1>1, <1>2, <1>3, <1>4, <1>5, <1>6

LEMMA SecondBarrierInv ==
    ASSUME IInv, NEW r \in Rank, SecondBarrier(r)
    PROVE  IInv'
<1> USE DEF IInv, SecondBarrier
<1>1. TypeOK'
  BY MaxCallAssumption DEF TypeOK, LocalInv, Destinations, NoSources, Calls, Message
<1>2. LocalInv'
  BY <1>1 DEF TypeOK, LocalInv, PendingInv, Calls, Message
<1>3. BarrierInv'
  BY <1>1 DEF TypeOK, LocalInv, BarrierInv, EnteredSecond
<1>4. IbarrierInv'
  BY <1>1 DEF TypeOK, LocalInv, BarrierInv, IbarrierInv, EnteredIbarrier, EnteredSecond
<1>5. PendingInv'
  BY <1>1 DEF TypeOK, LocalInv, PendingInv, Message
<1>6. CountInv'
  BY CountUntouched
<1> QED
  BY <1>1, <1>2, <1>3, <1>4, <1>5, <1>6

-----------------------------------------------------------------------------
LEMMA StepInv == IInv /\ [Next]_vars => IInv'
<1> SUFFICES ASSUME IInv, [Next]_vars PROVE IInv'
  OBVIOUS
<1>1. CASE UNCHANGED vars \/ Done
  BY <1>1 DEF Done, vars, IInv, TypeOK, LocalInv, BarrierInv, IbarrierInv, PendingInv,
              CountInv, Sent, Msg, EnteredSecond, EnteredIbarrier
<1> QED
  BY <1>1, GraphInv, FirstBarrierInv, IssendInv, AllIssuedInv, ProbeHitInv,
     ProbeMissInv, TestallDoneInv, TestDoneInv, TestMissInv, SecondBarrierInv
  DEF Next

LEMMA Invariance == Spec => []IInv
  BY InitInv, StepInv, PTL DEF Spec

\* The state of Comm::graph keeps its types on every rank, in every call.
THEOREM TypeCorrect == Spec => []TypeOK
<1>1. IInv => TypeOK
  BY DEF IInv
<1> QED
  BY <1>1, Invariance, PTL

LEMMA SourcesAtLoopEnd == IInv => LoopEndsWithAllSources
<1> SUFFICES ASSUME IInv, NEW r \in Rank, pc[r] = "barrier2", NEW s \in Rank
             PROVE  sources[r][s] = IF r \in dsts[call[r]][s] THEN 1 ELSE 0
  BY DEF LoopEndsWithAllSources
<1> DEFINE c == call[r]
<1>1. c >= 1 /\ c \in Int /\ call[s] \in Int
  BY MaxCallAssumption DEF IInv, TypeOK, LocalInv
<1>2. sources[r][s] = IF Sent(s, r, c) /\ Msg(s, r, c) \notin pending THEN 1 ELSE 0
  BY <1>1 DEF IInv, CountInv
<1>3. EnteredIbarrier(s, c)
  BY DEF IInv, IbarrierInv
<1>4. Msg(s, r, c) \notin pending
  <2> SUFFICES ASSUME Msg(s, r, c) \in pending PROVE FALSE
    OBVIOUS
  <2>1. c = call[s] /\ ~locallyDone[s]
    BY DEF IInv, PendingInv, Msg
  <2> QED
    BY <2>1, <1>1, <1>3 DEF EnteredIbarrier
<1>5. Sent(s, r, c) <=> r \in dsts[c][s]
  <2>1. call[s] = c => toSend[s] = {}
    BY <1>1, <1>3 DEF IInv, LocalInv, EnteredIbarrier
  <2> QED
    BY <2>1, <1>1, <1>3 DEF Sent, EnteredIbarrier
<1> QED
  BY <1>2, <1>4, <1>5

\* No rank leaves the receive loop of sources_from_destinations before it has
\* received from exactly the ranks that named it in this call.
THEOREM DiscoveryComplete == Spec => []LoopEndsWithAllSources
  BY SourcesAtLoopEnd, Invariance, PTL

\* A probe for MPI_ANY_SOURCE never finds a message of another call.
THEOREM CallsKeptApart == Spec => []NoMessageCrossesCalls
<1>1. IInv => NoMessageCrossesCalls
  <2> SUFFICES ASSUME IInv, NEW m \in pending, pc[m.dst] \in {"probe", "test"}
               PROVE  m.call = call[m.dst]
    BY DEF NoMessageCrossesCalls
  <2>1. m.src \in Rank /\ m.dst \in Rank
    BY DEF IInv, TypeOK, Message
  <2>2. m.call = call[m.src] /\ pc[m.src] \in {"send", "probe", "test"}
    BY DEF IInv, PendingInv
  <2> QED
    BY <2>1, <2>2, SameCall
<1> QED
  BY <1>1, Invariance, PTL

-----------------------------------------------------------------------------
\* Comm::graph implements the collective operation of GraphCommSpec: beginning
\* a call is Call, leaving the second barrier is Return, all else stutters.
THEOREM Refinement == Spec => ImplementsDiscovery
<1>1. Init => Discovery!Init
  BY DEF Init, Discovery!Init, Discovery!Calls, Calls, Discovery!NoSources, NoSources
<1>2. IInv /\ [Next]_vars => [Discovery!Next]_(Discovery!vars)
  <2> SUFFICES ASSUME IInv, [Next]_vars PROVE [Discovery!Next]_(Discovery!vars)
    OBVIOUS
  <2> DEFINE returns == [r \in Rank |-> IF pc[r] = "idle" THEN call[r] ELSE call[r] - 1]
  <2> USE DEF Discovery!vars
  <2>1. CASE UNCHANGED vars \/ Done
    BY <2>1 DEF vars, Done
  <2>2. ASSUME NEW r \in Rank, NEW D \in Destinations, Graph(r, D)
        PROVE  Discovery!Next
    <3>1. returns' = returns
      BY <2>2, MaxCallAssumption DEF Graph, IInv, TypeOK
    <3>2. Discovery!Call(r, D)
      BY <2>2, <3>1 DEF Graph, Discovery!Call
    <3> QED
      BY <3>2 DEF Discovery!Next, Destinations
  <2>3. ASSUME NEW r \in Rank, SecondBarrier(r) PROVE Discovery!Next
    <3>1. call[r] \in Int /\ returns[r] = call[r] - 1
      BY <2>3, MaxCallAssumption DEF SecondBarrier, IInv, TypeOK
    <3>2. returns' = [returns EXCEPT ![r] = @ + 1]
      <4>1. call' = call /\ \A q \in Rank : pc'[q] = IF q = r THEN "idle" ELSE pc[q]
        BY <2>3 DEF SecondBarrier, IInv, TypeOK
      <4>2. returns'[r] = returns[r] + 1
        BY <4>1, <3>1
      <4>3. \A q \in Rank \ {r} : returns'[q] = returns[q]
        BY <4>1
      <4> HIDE DEF returns
      <4>4. returns' = [q \in Rank |-> IF q = r THEN returns[q] + 1 ELSE returns[q]]
        BY <4>2, <4>3 DEF returns
      <4>5. returns = [q \in Rank |-> returns[q]]
        BY DEF returns
      <4> QED
        BY <4>4, <4>5
    <3>3. sources[r] = Discovery!SourcesOf(r, call[r])
      BY <2>3, SourcesAtLoopEnd
      DEF SecondBarrier, LoopEndsWithAllSources, Discovery!SourcesOf, IInv, TypeOK
    <3>4. \A q \in Rank : call[q] >= call[r]
      BY <2>3 DEF SecondBarrier, IInv, BarrierInv
    <3>5. Discovery!Return(r)
      BY <2>3, <3>1, <3>2, <3>3, <3>4 DEF SecondBarrier, Discovery!Return
    <3> QED
      BY <3>5 DEF Discovery!Next
  <2>4. ASSUME NEW r \in Rank,
               \/ FirstBarrier(r) \/ AllIssued(r) \/ ProbeMiss(r)
               \/ TestallDone(r) \/ TestDone(r) \/ TestMiss(r)
               \/ \E d \in Rank : Issend(r, d)
               \/ \E m \in pending : ProbeHit(r, m)
        PROVE  UNCHANGED Discovery!vars
    <3>1. UNCHANGED <<call, dsts, srcs>>
      BY <2>4 DEF FirstBarrier, AllIssued, ProbeMiss, TestallDone, TestDone, TestMiss,
                  Issend, ProbeHit
    <3>2. \A q \in Rank : pc'[q] = "idle" <=> pc[q] = "idle"
      BY <2>4 DEF FirstBarrier, AllIssued, ProbeMiss, TestallDone, TestDone, TestMiss,
                  Issend, ProbeHit, IInv, TypeOK
    <3> QED
      BY <3>1, <3>2
  <2> QED
    BY <2>1, <2>2, <2>3, <2>4 DEF Next
<1> QED
  BY <1>1, <1>2, Invariance, PTL DEF Spec, ImplementsDiscovery, Discovery!Spec
=============================================================================
