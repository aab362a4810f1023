------------------------------- MODULE Future -------------------------------
(***************************************************************************)
(* Exchanges that go on while the program does something else              *)
(* (Omega_h_future.cpp, Comm::ialltoallv, Dist::iexch,                     *)
(* Mesh::isync_array).  Every rank starts the same exchanges in the same   *)
(* order, each with every neighbour, and asks for each result once.        *)
(*                                                                         *)
(* A message is the number of its exchange; MPI keeps the messages of two  *)
(* ranks in order, and gives the next one to the receive posted first.     *)
(* A result is correct when every neighbour's part has the number of the   *)
(* exchange.  The callback that Dist::iexch adds reads the Dist it was     *)
(* called on, to unmap what has arrived.  The Dist of isync_array is a     *)
(* temporary and gone by then: what the callback reads in its place may    *)
(* still be right, or not.                                                 *)
(***************************************************************************)
EXTENDS Integers, Sequences, FiniteSets

CONSTANTS Ranks,
          NExchanges,  \* started by each rank: bound
          Polled       \* ranks whose caller asks completed() until it says so (one that
                       \* asks once gets like these if told so, and if not like the rest)

ASSUME ExchangesAssumption ==
    NExchanges \in Nat /\ Polled \subseteq Ranks

VARIABLES futures,  \* futures[r][k]: see NewFuture; no entry: not started
          wire,     \* wire[<<s, r>>]: messages from s to r, in order
          results,  \* results[r][k]: what get() returned
          failed    \* ranks stopped by a second get()

vars == <<futures, wire, results, failed>>

Pending == 0
Garbage == -1
peers(r) == Ranks \ {r}
Started(r) == Len(futures[r])

\* Faulty variant: a rank expects a message from itself too.
NewFuture_of_all(r) ==
    [status |-> "waiting", waiting |-> Ranks, sending |-> peers(r),
     recvbuf |-> [s \in peers(r) |-> Pending], dist_alive |-> TRUE, polled |-> FALSE]

\* The requests of a future are receives from `waiting' and sends to
\* `sending' that have not ended; polled is the last answer of completed(), and
\* dist_alive says that the caller has the Dist for as long as the future.
NewFuture(r) ==
    [status |-> "waiting", waiting |-> peers(r), sending |-> peers(r),
     recvbuf |-> [s \in peers(r) |-> Pending], dist_alive |-> TRUE, polled |-> FALSE]

Init == /\ futures = [r \in Ranks |-> <<>>]
        /\ wire = [c \in Ranks \X Ranks |-> <<>>]
        /\ results = [r \in Ranks |-> <<>>]
        /\ failed = {}

\* Neighbor_ialltoallv: all sends and receives are posted.
posted(r) == [c \in DOMAIN wire |->
                IF c[1] = r /\ c[2] # r THEN Append(wire[c], Started(r) + 1) ELSE wire[c]]

\* Dist::iexch on a Dist of the caller's own.
iexch(r) == NewFuture(r)

\* isync_array, of a mesh that could be shared: the inverse it calls iexch on is
\* gone when it has returned.  (Of any other mesh it makes no request at all.)
isync_array(r) == [NewFuture(r) EXCEPT !.dist_alive = FALSE]

Iexch(r) ==
    /\ r \notin failed /\ Started(r) < NExchanges
    /\ \E f \in {iexch(r), isync_array(r)} :
          futures' = [futures EXCEPT ![r] = Append(@, f)]
    /\ results' = [results EXCEPT ![r] = Append(@, [s \in peers(r) |-> Pending])]
    /\ wire' = posted(r)
    /\ UNCHANGED failed

\* MPI: a message goes to the first receive posted for its sender, and a send
\* ends whenever MPI has taken the message.
first_receive(r, s) ==
    CHOOSE k \in 1..Started(r) :
        /\ s \in futures[r][k].waiting
        /\ \A j \in 1..(k - 1) : s \notin futures[r][j].waiting

\* Faulty variant: the receive posted last.
matched_last(r, s) ==
    CHOOSE k \in 1..Started(r) :
        /\ s \in futures[r][k].waiting
        /\ \A j \in (k + 1)..Started(r) : s \notin futures[r][j].waiting

matched(r, s) == first_receive(r, s)

received(f, s, message) ==
    [f EXCEPT !.waiting = @ \ {s}, !.recvbuf = [@ EXCEPT ![s] = message]]

Deliver(s, r) ==
    /\ wire[<<s, r>>] # <<>> /\ \E k \in 1..Started(r) : s \in futures[r][k].waiting
    /\ LET k == matched(r, s) IN
       futures' = [futures EXCEPT ![r][k] = received(@, s, Head(wire[<<s, r>>]))]
    /\ wire' = [wire EXCEPT ![<<s, r>>] = Tail(@)]
    /\ UNCHANGED <<results, failed>>

EndSend(r, k, d) ==
    /\ d \in futures[r][k].sending
    /\ futures' = [futures EXCEPT ![r][k].sending = @ \ {d}]
    /\ UNCHANGED <<wire, results, failed>>

RequestsDone(f) == f.waiting = {} /\ f.sending = {}

\* Future::completed: MPI_Testall sets flag when all requests have ended.
\* The code compares flag with zero.
Completed(r, k) ==
    LET f == futures[r][k]
        flag == IF RequestsDone(f) THEN 1 ELSE 0 IN
    /\ r \in Polled \ failed /\ f.status = "waiting"
    /\ futures' = [futures EXCEPT ![r][k].status = IF flag = 0 THEN "completed" ELSE @,
                                  ![r][k].polled = (flag = 0)]
    /\ UNCHANGED <<wire, results, failed>>

\* What the callback of iexch may make of the buffer.
called_back(f) ==
    {f.recvbuf} \union (IF f.dist_alive THEN {} ELSE {[s \in DOMAIN f.recvbuf |-> Garbage]})

\* Faulty variant: what is received is not waited for.
ready_sent(f) == f.status = "waiting" => f.sending = {}

\* Faulty variant: what is sent is not waited for.
ready_received(f) == f.status = "waiting" => f.waiting = {}

\* get waits unless the status says that there is nothing to wait for.
ready(f) == f.status = "waiting" => RequestsDone(f)

Get(r, k) ==
    LET f == futures[r][k] IN
    /\ r \notin failed /\ f.status \in {"waiting", "completed"}
    /\ r \in Polled => f.polled
    /\ ready(f)
    /\ futures' = [futures EXCEPT ![r][k].status = "consumed"]
    /\ \E result \in called_back(f) : results' = [results EXCEPT ![r][k] = result]
    /\ UNCHANGED <<wire, failed>>

\* "Can not ask the result more than once."
GetAgain(r, k) ==
    /\ r \notin failed /\ futures[r][k].status = "consumed"
    /\ failed' = failed \union {r}
    /\ UNCHANGED <<futures, wire, results>>

AllConsumed(r) == Started(r) = NExchanges
                  /\ \A k \in 1..NExchanges : futures[r][k].status = "consumed"
Stop == (\A r \in Ranks : r \in failed \/ AllConsumed(r)) /\ UNCHANGED vars

Next == \/ \E r \in Ranks : \/ Iexch(r)
                            \/ \E k \in 1..Started(r) :
                                  \/ Completed(r, k) \/ Get(r, k) \/ GetAgain(r, k)
                                  \/ \E d \in peers(r) : EndSend(r, k, d)
        \/ \E s \in Ranks : \E r \in peers(s) : Deliver(s, r)
        \/ Stop

\* MPI makes progress, and every rank goes on with its program.
Fairness ==
    /\ \A r \in Ranks : /\ WF_vars(Iexch(r))
                        /\ \A k \in 1..NExchanges :
                             /\ WF_vars(k \in 1..Started(r) /\ Get(r, k))
                             /\ WF_vars(k \in 1..Started(r) /\ Completed(r, k))
                             /\ \A d \in peers(r) : WF_vars(k \in 1..Started(r) /\ EndSend(r, k, d))
    /\ \A s \in Ranks : \A r \in peers(s) : WF_vars(Deliver(s, r))

Spec == Init /\ [][Next]_vars /\ Fairness

-----------------------------------------------------------------------------
Message == Nat \ {Pending}

FutureRecord(r) ==
    [status : {"waiting", "completed", "consumed"}, waiting : SUBSET peers(r), sending : SUBSET peers(r),
     recvbuf : [peers(r) -> Nat], dist_alive : BOOLEAN, polled : BOOLEAN]

\* Every rank's futures, results and messages have their types, and a rank starts
\* no more exchanges than it has.
TypeOK ==
    /\ DOMAIN futures = Ranks /\ DOMAIN results = Ranks
    /\ \A r \in Ranks : /\ futures[r] \in Seq(FutureRecord(r))
                        /\ results[r] \in Seq([peers(r) -> Int])
                        /\ Len(results[r]) = Started(r) /\ Started(r) <= NExchanges
    /\ wire \in [Ranks \X Ranks -> Seq(Message)]
    /\ failed \subseteq Ranks

Consumed(r) == {k \in 1..Started(r) : futures[r][k].status = "consumed"}

\* What get hands to the callback is all of what the neighbours sent in that
\* exchange, unless completed had said that it was over (Future::get): completed
\* answers the opposite, and get believes it.  What get returns is that, or a part
\* of it, whenever the caller has the Dist; of isync_array it is that or nothing
\* the neighbours sent.  No result has a part of another exchange that is under way.
ResultsComplete ==
    \A r \in Ranks : \A k \in Consumed(r) : \A s \in peers(r) :
        LET f == futures[r][k]
            result == results[r][k][s] IN
        /\ ~f.polled => f.recvbuf[s] = k
        /\ result \in {k} \union (IF f.polled THEN {Pending} ELSE {})
                       \union (IF f.dist_alive THEN {} ELSE {Garbage})

\* get waits until the operation has completed and returns what the neighbours sent.
ResultsAreTheMessages ==
    \A r \in Ranks : \A k \in Consumed(r) : \A s \in peers(r) :
        ~futures[r][k].polled => results[r][k][s] = k

\* Exchanges under way at the same time do not receive each other's messages,
\* although all of them use one tag (Neighbor_ialltoallv), whoever asks completed.
MessagesNotMixed ==
    \A r \in Ranks : \A k \in 1..Started(r) : \A s \in peers(r) :
        futures[r][k].recvbuf[s] \in {Pending, k}

\* The buffers of a future are given up only when MPI has no more requests on them
\* (MPI_Waitall in Future::get), or after completed had said that the operation was
\* over while it was not.
BuffersHeldWhileInUse ==
    \A r \in Ranks : \A k \in Consumed(r) : RequestsDone(futures[r][k]) \/ futures[r][k].polled

\* A rank that asks for each result once gets all of them (Future::get), unless it
\* waits for completed to say so.
EveryResultArrives ==
    \A r \in Ranks \ Polled : <>(AllConsumed(r) \/ failed # {})
=============================================================================
