--------------------------- MODULE FutureProofs ----------------------------
(***************************************************************************)
(* Proofs about Future, for any ranks, any number of exchanges, and        *)
(* whatever the callers keep and ask.                                      *)
(***************************************************************************)
EXTENDS Future, SequenceTheorems, TLAPS

\* Of the exchanges of s with r, the first n have arrived at r: those are in the
\* buffers of the futures of the same numbers, the ones s started after them are
\* on the wire in order, and all later futures of r still wait for s.
ArrivedUpTo(s, r, n) ==
    /\ n <= Started(s)
    /\ \A k \in 1..Started(r) :
          /\ s \in futures[r][k].waiting <=> k > n
          /\ futures[r][k].recvbuf[s] = IF k > n THEN Pending ELSE k
    /\ Len(wire[<<s, r>>]) = Started(s) - n
    /\ \A i \in 1..Len(wire[<<s, r>>]) : wire[<<s, r>>][i] = n + i

FifoInv == \A r \in Ranks : \A s \in peers(r) : \E n \in 0..Started(r) : ArrivedUpTo(s, r, n)

\* The part v of a result is what the buffer has from s, or was not there when
\* completed had said that it was, or was not unmapped.
FromBuffer(f, s, v) ==
    \/ v = f.recvbuf[s]
    \/ f.polled /\ v = Pending
    \/ ~f.dist_alive /\ v = Garbage

\* What is consumed was waited for or believed to be over, and its result is what
\* the callback made of the buffer.
Waited(r, k) ==
    /\ futures[r][k].status = "completed" => futures[r][k].polled
    /\ futures[r][k].status = "consumed" =>
          /\ RequestsDone(futures[r][k]) \/ futures[r][k].polled
          /\ \A s \in peers(r) : FromBuffer(futures[r][k], s, results[r][k][s])

ConsumedInv == \A r \in Ranks : \A k \in 1..Started(r) : Waited(r, k)

IInv == TypeOK /\ FifoInv /\ ConsumedInv

-----------------------------------------------------------------------------
(* Facts about futures *)

LEMMA FutureTypes ==
    ASSUME TypeOK, NEW r \in Ranks, NEW k \in 1..Started(r)
    PROVE  /\ Started(r) \in Nat /\ k \in Nat \ {0}
           /\ futures[r][k] \in FutureRecord(r)
           /\ results[r][k] \in [peers(r) -> Int] /\ k \in 1..Len(results[r])
  <1>1. futures[r] \in Seq(FutureRecord(r)) /\ results[r] \in Seq([peers(r) -> Int])
        /\ Len(results[r]) = Len(futures[r])
    BY Zenon DEF TypeOK, Started
  <1> QED BY <1>1, ElementOfSeq, LenProperties DEF Started

LEMMA StartedType ==
    ASSUME TypeOK, NEW r \in Ranks
    PROVE  Started(r) \in Nat /\ futures[r] \in Seq(FutureRecord(r))
  <1>1. futures[r] \in Seq(FutureRecord(r))
    BY Zenon DEF TypeOK
  <1> QED BY <1>1, LenProperties DEF Started

\* One future changes, the others are as they were.
Replaces(r, k, g) == futures' = [futures EXCEPT ![r] = [@ EXCEPT ![k] = g]]

LEMMA OneFuture ==
    ASSUME TypeOK, NEW r \in Ranks, NEW k \in 1..Started(r), NEW g \in FutureRecord(r),
           Replaces(r, k, g)
    PROVE  /\ DOMAIN futures' = Ranks
           /\ futures'[r][k] = g
           /\ \A q \in Ranks : /\ futures'[q] \in Seq(FutureRecord(q))
                               /\ Started(q)' = Started(q)
                               /\ \A j \in 1..Started(q) :
                                    q # r \/ j # k => futures'[q][j] = futures[q][j]
  <1>0. futures' = [futures EXCEPT ![r] = [@ EXCEPT ![k] = g]]
    BY DEF Replaces
  <1>1. DOMAIN futures = Ranks
    BY DEF TypeOK
  <1>2. DOMAIN futures' = Ranks /\ futures'[r] = [futures[r] EXCEPT ![k] = g]
    BY <1>0, <1>1
  <1>3. \A q \in Ranks : q # r => futures'[q] = futures[q]
    BY <1>0, <1>1
  <1>4. /\ futures'[r] \in Seq(FutureRecord(r)) /\ Len(futures'[r]) = Len(futures[r])
        /\ \A j \in 1..Len(futures[r]) : futures'[r][j] = IF j = k THEN g ELSE futures[r][j]
    <2>1. futures[r] \in Seq(FutureRecord(r)) /\ k \in 1..Len(futures[r])
      BY StartedType DEF Started
    <2> QED BY <1>2, <2>1, ExceptSeq
  <1>5. ASSUME NEW q \in Ranks
        PROVE  /\ futures'[q] \in Seq(FutureRecord(q)) /\ Len(futures'[q]) = Len(futures[q])
               /\ \A j \in 1..Len(futures[q]) :
                    q # r \/ j # k => futures'[q][j] = futures[q][j]
    <2>1. CASE q = r
      BY <1>4, <2>1
    <2>2. CASE q # r
      BY <1>3, <2>2, StartedType
    <2> QED BY <2>1, <2>2
  <1>6. futures'[r][k] = g
    BY <1>4 DEF Started
  <1> QED BY <1>2, <1>5, <1>6, Zenon DEF Started

-----------------------------------------------------------------------------
(* Init *)

LEMMA InitIInv == Init => IInv
  <1> SUFFICES ASSUME Init PROVE IInv
    OBVIOUS
  <1> USE DEF Init
  <1>1. \A r \in Ranks : Started(r) = 0 /\ 1..Started(r) = {} /\ 0 \in 0..Started(r)
    BY EmptySeq DEF Started
  <1>2. TypeOK
    <2>1. \A r \in Ranks : /\ futures[r] \in Seq(FutureRecord(r))
                          /\ results[r] \in Seq([peers(r) -> Int]) /\ Len(results[r]) = 0
      BY EmptySeq
    <2>2. wire \in [Ranks \X Ranks -> Seq(Message)]
      BY EmptySeq
    <2> QED BY <1>1, <2>1, <2>2, ExchangesAssumption DEF TypeOK
  <1>3. FifoInv
    <2> SUFFICES ASSUME NEW r \in Ranks, NEW s \in peers(r)
                 PROVE  ArrivedUpTo(s, r, 0)
      BY <1>1 DEF FifoInv
    <2>1. s \in Ranks /\ wire[<<s, r>>] = <<>> /\ Len(wire[<<s, r>>]) = 0
      BY EmptySeq DEF peers
    <2> QED BY <1>1, <2>1 DEF ArrivedUpTo
  <1>4. ConsumedInv
    BY <1>1 DEF ConsumedInv
  <1> QED BY <1>2, <1>3, <1>4 DEF IInv

-----------------------------------------------------------------------------
(* Iexch *)

\* A rank that starts an exchange has one more future, which waits for everyone.
IsNew(r, f) ==
    /\ f.status = "waiting" /\ f.waiting = peers(r)
    /\ \A s \in peers(r) : f.recvbuf[s] = Pending

LEMMA StartedOne ==
    ASSUME TypeOK, NEW r \in Ranks, Iexch(r)
    PROVE  /\ DOMAIN futures' = Ranks /\ DOMAIN results' = Ranks
           /\ \A q \in Ranks :
                /\ futures'[q] \in Seq(FutureRecord(q))
                /\ results'[q] \in Seq([peers(q) -> Int]) /\ Len(results'[q]) = Started(q)'
                /\ Started(q)' = IF q = r THEN Started(q) + 1 ELSE Started(q)
                /\ \A j \in 1..Started(q) : /\ futures'[q][j] = futures[q][j]
                                          /\ results'[q][j] = results[q][j]
           /\ IsNew(r, futures'[r][Started(r) + 1])
  <1>0. /\ NewFuture(r) \in FutureRecord(r) /\ isync_array(r) \in FutureRecord(r)
        /\ IsNew(r, NewFuture(r)) /\ IsNew(r, isync_array(r))
    BY DEF NewFuture, isync_array, FutureRecord, IsNew, Pending
  <1>f. PICK f \in {iexch(r), isync_array(r)} :
          futures' = [futures EXCEPT ![r] = Append(futures[r], f)]
    BY DEF Iexch
  <1>1. f \in FutureRecord(r) /\ IsNew(r, f)
    BY <1>0, <1>f, Zenon DEF iexch
  <1>2. [s \in peers(r) |-> Pending] \in [peers(r) -> Int]
    BY DEF Pending
  <1>3. /\ futures' = [futures EXCEPT ![r] = Append(futures[r], f)]
        /\ results' = [results EXCEPT ![r] = Append(results[r], [s \in peers(r) |-> Pending])]
        /\ DOMAIN futures = Ranks /\ DOMAIN results = Ranks
    BY <1>f DEF Iexch, TypeOK
  <1>4. ASSUME NEW q \in Ranks
        PROVE  /\ futures'[q] \in Seq(FutureRecord(q))
               /\ results'[q] \in Seq([peers(q) -> Int]) /\ Len(results'[q]) = Started(q)'
               /\ Started(q)' = IF q = r THEN Started(q) + 1 ELSE Started(q)
               /\ \A j \in 1..Started(q) : /\ futures'[q][j] = futures[q][j]
                                         /\ results'[q][j] = results[q][j]
    <2>1. /\ futures[q] \in Seq(FutureRecord(q)) /\ results[q] \in Seq([peers(q) -> Int])
          /\ Len(results[q]) = Len(futures[q])
      BY DEF TypeOK, Started
    <2>2. CASE q = r
      <3>1. /\ futures'[q] = Append(futures[q], f)
            /\ results'[q] = Append(results[q], [s \in peers(q) |-> Pending])
        BY <1>3, <2>2
      <3> QED BY <3>1, <2>1, <1>1, <1>2, <2>2, AppendProperties DEF Started
    <2>3. CASE q # r
      BY <1>3, <2>1, <2>3 DEF Started
    <2> QED BY <2>2, <2>3
  <1>5. futures'[r][Started(r) + 1] = f
    <2>1. futures[r] \in Seq(FutureRecord(r)) /\ futures'[r] = Append(futures[r], f)
      BY <1>3, StartedType
    <2> QED BY <2>1, <1>1, AppendProperties DEF Started
  <1> QED BY <1>1, <1>3, <1>4, <1>5

LEMMA IexchIInv ==
    ASSUME IInv, NEW r \in Ranks, Iexch(r)
    PROVE  IInv'
  <1>0. TypeOK /\ FifoInv /\ ConsumedInv
    BY DEF IInv
  <1>1. \A q \in Ranks : Started(q) \in Nat /\ Started(q) <= NExchanges
    BY <1>0, StartedType DEF TypeOK
  <1>s. /\ DOMAIN futures' = Ranks /\ DOMAIN results' = Ranks
        /\ \A q \in Ranks :
                /\ futures'[q] \in Seq(FutureRecord(q))
                /\ results'[q] \in Seq([peers(q) -> Int]) /\ Len(results'[q]) = Started(q)'
                /\ Started(q)' = IF q = r THEN Started(q) + 1 ELSE Started(q)
                /\ \A j \in 1..Started(q) : /\ futures'[q][j] = futures[q][j]
                                          /\ results'[q][j] = results[q][j]
        /\ IsNew(r, futures'[r][Started(r) + 1])
    BY <1>0, StartedOne
  <1>c. \A q \in Ranks : Started(q)' = IF q = r THEN Started(q) + 1 ELSE Started(q)
    BY <1>s, Zenon
  <1>n. \A q \in Ranks : Started(q)' \in Nat /\ Started(q) <= Started(q)'
    BY <1>1, <1>c
  <1>2. r \notin failed /\ Started(r) < NExchanges /\ wire' = posted(r) /\ failed' = failed
    BY DEF Iexch
  <1>w. /\ wire \in [Ranks \X Ranks -> Seq(Message)]
        /\ Started(r) + 1 \in Message
    BY <1>0, <1>1 DEF TypeOK, Message, Pending
  <1>3. wire' \in [Ranks \X Ranks -> Seq(Message)]
    <2>1. \A c \in Ranks \X Ranks : Append(wire[c], Started(r) + 1) \in Seq(Message)
      BY <1>w, AppendProperties
    <2> QED BY <1>2, <1>w, <2>1 DEF posted
  <1>4. TypeOK'
    <2>1. \A q \in Ranks : Started(q)' <= NExchanges
      BY <1>1, <1>2, <1>c, ExchangesAssumption
    <2>2. failed' \subseteq Ranks
      BY <1>0, <1>2 DEF TypeOK
    <2> QED BY <1>3, <1>s, <2>1, <2>2, Zenon DEF TypeOK
  <1>5. FifoInv'
    <2> SUFFICES ASSUME NEW q \in Ranks, NEW s \in peers(q)
                 PROVE  \E n \in 0..Started(q)' : ArrivedUpTo(s, q, n)'
      BY DEF FifoInv, peers
    <2>1. s \in Ranks /\ s # q /\ <<s, q>> \in Ranks \X Ranks
      BY DEF peers
    <2>2. PICK n \in 0..Started(q) : ArrivedUpTo(s, q, n)
      BY <1>0 DEF FifoInv
    <2>3. n \in 0..Started(q)' /\ n <= Started(s)'
      BY <1>1, <1>n, <2>1, <2>2 DEF ArrivedUpTo
    <2>4. \A k \in 1..Started(q)' :
            /\ s \in futures'[q][k].waiting <=> k > n
            /\ futures'[q][k].recvbuf[s] = IF k > n THEN Pending ELSE k
      <3> SUFFICES ASSUME NEW k \in 1..Started(q)'
                   PROVE  /\ s \in futures'[q][k].waiting <=> k > n
                          /\ futures'[q][k].recvbuf[s] = IF k > n THEN Pending ELSE k
        OBVIOUS
      <3>1. CASE k \in 1..Started(q)
        BY <1>0, <2>2, <3>1, <1>s DEF ArrivedUpTo
      <3>2. CASE k \notin 1..Started(q)
        <4>1. q = r /\ k = Started(q) + 1
          BY <1>1, <1>c, <3>2
        <4>3. futures'[q][k].waiting = peers(q) /\ futures'[q][k].recvbuf[s] = Pending
          BY <4>1, <1>s DEF IsNew
        <4> QED BY <4>1, <4>3, <1>1, <2>2
      <3> QED BY <3>1, <3>2
    <2>5. /\ Len(wire'[<<s, q>>]) = Started(s)' - n
          /\ \A i \in 1..Len(wire'[<<s, q>>]) : wire'[<<s, q>>][i] = n + i
      <3>1. wire[<<s, q>>] \in Seq(Message)
        BY <1>w, <2>1
      <3>2. CASE s = r
        <4>1. wire'[<<s, q>>] = Append(wire[<<s, q>>], Started(s) + 1)
          BY <1>2, <1>w, <2>1, <3>2 DEF posted
        <4>2. Started(s)' = Started(s) + 1
          BY <1>0, <3>2, <1>s
        <4>3. /\ Len(wire'[<<s, q>>]) = Len(wire[<<s, q>>]) + 1
              /\ \A i \in 1..Len(wire[<<s, q>>]) : wire'[<<s, q>>][i] = wire[<<s, q>>][i]
              /\ wire'[<<s, q>>][Len(wire[<<s, q>>]) + 1] = Started(s) + 1
          BY <3>1, <3>2, <4>1, <1>w, AppendProperties
        <4>4. /\ Len(wire[<<s, q>>]) = Started(s) - n /\ Started(s) \in Nat /\ n \in Nat
              /\ \A i \in 1..Len(wire[<<s, q>>]) : wire[<<s, q>>][i] = n + i
          <5>1. /\ Len(wire[<<s, q>>]) = Started(s) - n
                /\ \A i \in 1..Len(wire[<<s, q>>]) : wire[<<s, q>>][i] = n + i
            BY <2>2, Zenon DEF ArrivedUpTo
          <5>2. Started(s) \in Nat /\ Started(q) \in Nat
            BY <1>1, <2>1
          <5>3. n \in Nat
            BY <5>2
          <5> QED BY <5>1, <5>2, <5>3, Zenon
        <4>5. ASSUME NEW i \in 1..Len(wire'[<<s, q>>])
              PROVE  wire'[<<s, q>>][i] = n + i
          <5>1. i \in 1..Len(wire[<<s, q>>]) \/ i = Len(wire[<<s, q>>]) + 1
            BY <4>3, <4>4
          <5>2. i = Len(wire[<<s, q>>]) + 1 => n + i = Started(s) + 1
            BY <4>4
          <5> QED BY <4>3, <4>4, <5>1, <5>2, Zenon
        <4>6. Len(wire'[<<s, q>>]) = Started(s)' - n
          BY <4>2, <4>3, <4>4
        <4> QED BY <4>5, <4>6, Zenon
      <3>3. CASE s # r
        <4>1. wire'[<<s, q>>] = wire[<<s, q>>]
          BY <1>2, <1>w, <2>1, <3>3 DEF posted
        <4> QED BY <1>0, <2>1, <2>2, <3>3, <4>1, <1>s DEF ArrivedUpTo
      <3> QED BY <3>2, <3>3
    <2> QED BY <2>3, <2>4, <2>5 DEF ArrivedUpTo
  <1>6. ConsumedInv'
    <2> SUFFICES ASSUME NEW q \in Ranks, NEW k \in 1..Started(q)'
                 PROVE  Waited(q, k)'
      BY DEF ConsumedInv
    <2>1. CASE k \in 1..Started(q)
      <3>1. futures'[q][k] = futures[q][k] /\ results'[q][k] = results[q][k] /\ Waited(q, k)
        BY <1>0, <1>s, <2>1 DEF ConsumedInv
      <3> QED BY <3>1, Zenon DEF Waited
    <2>2. CASE k \notin 1..Started(q)
      <3>1. q = r /\ k = Started(q) + 1
        BY <1>1, <1>c, <2>2
      <3>2. futures'[q][k].status = "waiting"
        BY <3>1, <1>s DEF IsNew
      <3> QED BY <3>2 DEF Waited
    <2> QED BY <2>1, <2>2
  <1> QED BY <1>4, <1>5, <1>6 DEF IInv

-----------------------------------------------------------------------------
(* What MPI does *)

\* The first receive posted for a sender is that of the exchange whose message
\* comes next.
LEMMA FirstReceive ==
    ASSUME TypeOK, NEW r \in Ranks, NEW s \in peers(r), NEW n \in 0..Started(r),
           ArrivedUpTo(s, r, n), \E k \in 1..Started(r) : s \in futures[r][k].waiting
    PROVE  n + 1 \in 1..Started(r) /\ matched(r, s) = n + 1
  <1>1. Started(r) \in Nat /\ n \in Nat
    BY StartedType
  <1>2. \A k \in 1..Started(r) : s \in futures[r][k].waiting <=> k > n
    BY Zenon DEF ArrivedUpTo
  <1>3. n + 1 \in 1..Started(r)
    BY <1>1, <1>2
  <1>4. \A k \in 1..Started(r) :
          (/\ s \in futures[r][k].waiting
           /\ \A j \in 1..(k - 1) : s \notin futures[r][j].waiting) <=> k = n + 1
    <2> SUFFICES ASSUME NEW k \in 1..Started(r)
                 PROVE  (/\ s \in futures[r][k].waiting
                         /\ \A j \in 1..(k - 1) : s \notin futures[r][j].waiting) <=> k = n + 1
      OBVIOUS
    <2>1. \A j \in 1..(k - 1) : s \in futures[r][j].waiting <=> j > n
      BY <1>1, <1>2
    <2>2. (k > n /\ \A j \in 1..(k - 1) : ~(j > n)) <=> k = n + 1
      <3>1. CASE k > n + 1
        BY <1>1, <3>1
      <3>2. CASE k <= n + 1
        BY <1>1, <3>2
      <3> QED BY <1>1, <3>1, <3>2
    <2> QED BY <1>2, <2>1, <2>2, Zenon
  <1> QED BY <1>3, <1>4, Zenon DEF matched, first_receive

\* The message that is delivered is that of the exchange it is received for.
LEMMA DeliverIInv ==
    ASSUME IInv, NEW r \in Ranks, NEW s \in peers(r), Deliver(s, r)
    PROVE  IInv'
  <1>0. TypeOK /\ FifoInv /\ ConsumedInv
    BY DEF IInv
  <1>1. \A q \in Ranks : Started(q) \in Nat
    BY <1>0, StartedType
  <1>2. s \in Ranks /\ s # r /\ <<s, r>> \in Ranks \X Ranks
    BY DEF peers
  <1>3. /\ wire[<<s, r>>] # <<>> /\ \E k \in 1..Started(r) : s \in futures[r][k].waiting
        /\ results' = results /\ failed' = failed
    BY DEF Deliver
  <1>4. PICK n \in 0..Started(r) : ArrivedUpTo(s, r, n)
    BY <1>0, Zenon DEF FifoInv
  <1>5. n + 1 \in 1..Started(r) /\ matched(r, s) = n + 1
    BY <1>0, <1>3, <1>4, FirstReceive
  <1>6. /\ wire \in [Ranks \X Ranks -> Seq(Message)] /\ wire[<<s, r>>] \in Seq(Message)
        /\ wire' = [wire EXCEPT ![<<s, r>>] = Tail(wire[<<s, r>>])]
    BY <1>0, <1>2 DEF TypeOK, Deliver
  <1>7. /\ Tail(wire[<<s, r>>]) \in Seq(Message)
        /\ Len(Tail(wire[<<s, r>>])) = Len(wire[<<s, r>>]) - 1
        /\ \A i \in 1..Len(Tail(wire[<<s, r>>])) : Tail(wire[<<s, r>>])[i] = wire[<<s, r>>][i + 1]
        /\ Len(wire[<<s, r>>]) \in Nat \ {0}
    BY <1>3, <1>6, HeadTailProperties, EmptySeq, LenProperties
  <1>8. Head(wire[<<s, r>>]) = n + 1
    <2>1. \A i \in 1..Len(wire[<<s, r>>]) : wire[<<s, r>>][i] = n + i
      BY <1>4, Zenon DEF ArrivedUpTo
    <2> QED BY <1>3, <1>7, <2>1
  <1> DEFINE k == n + 1
             f == futures[r][k]
             g == received(f, s, k)
  <1>9. f \in FutureRecord(r) /\ k \in Nat
    BY <1>0, <1>1, <1>5, FutureTypes
  <1>10. /\ g \in FutureRecord(r)
         /\ g.waiting = f.waiting \ {s}
         /\ g.recvbuf = [f.recvbuf EXCEPT ![s] = k]
         /\ g.status = f.status /\ g.sending = f.sending
    BY <1>9 DEF FutureRecord, received
  <1>11. (g.dist_alive <=> f.dist_alive) /\ (g.polled <=> f.polled)
    BY <1>9 DEF FutureRecord, received
  <1>12. Replaces(r, k, g)
    <2>1. futures' = [futures EXCEPT ![r][n + 1] = received(@, s, n + 1)]
      BY <1>5, <1>8, Zenon DEF Deliver
    <2> QED BY <2>1 DEF Replaces
  <1> HIDE DEF k, g
  <1>13. /\ DOMAIN futures' = Ranks /\ futures'[r][k] = g
         /\ \A q \in Ranks : /\ futures'[q] \in Seq(FutureRecord(q))
                             /\ Started(q)' = Started(q)
                             /\ \A j \in 1..Started(q) :
                                  q # r \/ j # k => futures'[q][j] = futures[q][j]
    <2>1. k \in 1..Started(r) /\ g \in FutureRecord(r)
      BY <1>5, <1>10 DEF k
    <2> QED BY <1>0, <1>12, <2>1, OneFuture
  <1>14. TypeOK'
    <2>1. wire' \in [Ranks \X Ranks -> Seq(Message)]
      BY <1>6, <1>7
    <2>3. \A q \in Ranks : Started(q)' = Started(q)
      BY <1>13, Zenon
    <2> QED BY <1>0, <1>3, <1>13, <2>1, <2>3, Zenon DEF TypeOK
  <1>15. FifoInv'
    <2> SUFFICES ASSUME NEW q \in Ranks, NEW p \in peers(q)
                 PROVE  \E m \in 0..Started(q)' : ArrivedUpTo(p, q, m)'
      BY DEF FifoInv, peers
    <2>1. p \in Ranks /\ p # q /\ <<p, q>> \in Ranks \X Ranks
      BY DEF peers
    <2>2. Started(q)' = Started(q) /\ Started(p)' = Started(p)
      BY <1>13, <2>1, Zenon
    <2>3. CASE q = r /\ p = s
      <3>1. k \in 0..Started(q)' /\ k <= Started(p)'
        <4>1. n <= Started(s) /\ Len(wire[<<s, r>>]) = Started(s) - n
          BY <1>4, Zenon DEF ArrivedUpTo
        <4> QED BY <1>1, <1>5, <1>7, <2>1, <2>2, <2>3, <4>1 DEF k
      <3>2. ASSUME NEW j \in 1..Started(q)'
            PROVE  /\ p \in futures'[q][j].waiting <=> j > k
                   /\ futures'[q][j].recvbuf[p] = IF j > k THEN Pending ELSE j
        <4>1. /\ s \in futures[r][j].waiting <=> j > n
              /\ futures[r][j].recvbuf[s] = IF j > n THEN Pending ELSE j
          BY <1>4, <2>2, <2>3, <3>2, Zenon DEF ArrivedUpTo
        <4>2. CASE j = k
          <5>1. futures'[q][j] = g
            BY <1>13, <2>2, <2>3, <4>2, Zenon
          <5>2. s \notin g.waiting /\ g.recvbuf[s] = k
            BY <1>9, <1>10 DEF FutureRecord
          <5> QED BY <1>9, <2>3, <4>2, <5>1, <5>2 DEF k
        <4>3. CASE j # k
          <5>1. futures'[q][j] = futures[r][j]
            BY <1>13, <2>2, <2>3, <4>3, Zenon
          <5>2. j > n <=> j > k
            BY <1>1, <2>2, <4>3 DEF k
          <5> QED BY <2>3, <4>1, <5>1, <5>2, Zenon
        <4> QED BY <4>2, <4>3
      <3>3. /\ Len(wire'[<<p, q>>]) = Started(p)' - k
            /\ \A i \in 1..Len(wire'[<<p, q>>]) : wire'[<<p, q>>][i] = k + i
        <4>1. wire'[<<p, q>>] = Tail(wire[<<s, r>>])
          BY <1>2, <1>6, <2>3
        <4>2. /\ Len(wire[<<s, r>>]) = Started(s) - n
              /\ \A i \in 1..Len(wire[<<s, r>>]) : wire[<<s, r>>][i] = n + i
          BY <1>4, Zenon DEF ArrivedUpTo
        <4>3. Len(wire'[<<p, q>>]) = Started(p)' - k
          BY <1>1, <1>2, <1>7, <2>2, <2>3, <4>1, <4>2 DEF k
        <4>4. ASSUME NEW i \in 1..Len(Tail(wire[<<s, r>>]))
              PROVE  Tail(wire[<<s, r>>])[i] = k + i
          <5>1. i + 1 \in 1..Len(wire[<<s, r>>]) /\ n + (i + 1) = k + i
            BY <1>7 DEF k
          <5> QED BY <1>7, <4>2, <5>1
        <4> QED BY <4>1, <4>3, <4>4, Zenon
      <3> QED BY <3>1, <3>2, <3>3, Zenon DEF ArrivedUpTo
    <2>4. CASE ~(q = r /\ p = s)
      <3>1. PICK m \in 0..Started(q) : ArrivedUpTo(p, q, m)
        BY <1>0, Zenon DEF FifoInv
      <3>2. wire'[<<p, q>>] = wire[<<p, q>>]
        BY <1>2, <1>6, <2>1, <2>4
      <3>3. ASSUME NEW j \in 1..Started(q)
            PROVE  /\ p \in futures'[q][j].waiting <=> p \in futures[q][j].waiting
                   /\ futures'[q][j].recvbuf[p] = futures[q][j].recvbuf[p]
        <4>1. CASE q = r /\ j = k
          <5>1. futures'[q][j] = g /\ futures[q][j] = f /\ p # s
            BY <1>13, <2>4, <4>1, Zenon DEF k
          <5>2. f.recvbuf \in [peers(r) -> Nat]
            BY <1>9 DEF FutureRecord
          <5> QED BY <1>10, <4>1, <5>1, <5>2
        <4>2. CASE ~(q = r /\ j = k)
          BY <1>13, <4>2, Zenon
        <4> QED BY <4>1, <4>2
      <3> QED BY <2>2, <3>1, <3>2, <3>3, Zenon DEF ArrivedUpTo
    <2> QED BY <2>3, <2>4
  <1>16. ConsumedInv'
    <2> SUFFICES ASSUME NEW q \in Ranks, NEW j \in 1..Started(q)'
                 PROVE  Waited(q, j)'
      BY DEF ConsumedInv
    <2>1. j \in 1..Started(q) /\ Waited(q, j)
      BY <1>0, <1>13, Zenon DEF ConsumedInv
    <2>2. CASE q = r /\ j = k
      <3>1. s \in f.waiting
        <4>1. s \in futures[r][n + 1].waiting <=> n + 1 > n
          BY <1>4, <1>5, Zenon DEF ArrivedUpTo
        <4>2. n + 1 > n
          BY <1>1
        <4> QED BY <4>1, <4>2 DEF k
      <3>2. /\ futures'[q][j] = g /\ futures[q][j] = f /\ results'[q][j] = results[r][k]
            /\ g.status = f.status
        BY <1>3, <1>10, <1>13, <2>1, <2>2, Zenon DEF k
      <3>3. /\ f.status = "completed" => f.polled
            /\ f.status = "consumed" => f.polled /\ \A p \in peers(r) : FromBuffer(f, p, results[r][k][p])
        BY <2>1, <2>2, <3>1, <3>2, Zenon DEF Waited, RequestsDone
      \* The message comes too late for a result that did not wait for it.
      <3>4. ASSUME NEW p \in peers(r), f.polled, FromBuffer(f, p, results[r][k][p])
            PROVE  FromBuffer(g, p, results[r][k][p])
        <4>1. CASE p = s
          <5>1. f.recvbuf[s] = Pending
            <6>1. f.recvbuf[s] = IF k > n THEN Pending ELSE k
              BY <1>4, <1>5, Zenon DEF ArrivedUpTo, k
            <6>2. k > n
              BY <1>1 DEF k
            <6> QED BY <6>1, <6>2
          <5> QED BY <1>11, <3>4, <4>1, <5>1, Zenon DEF FromBuffer
        <4>2. CASE p # s
          <5>1. g.recvbuf[p] = f.recvbuf[p]
            BY <1>9, <1>10, <4>2 DEF FutureRecord
          <5> QED BY <1>11, <3>4, <5>1, Zenon DEF FromBuffer
        <4> QED BY <4>1, <4>2
      <3> QED BY <1>11, <2>2, <3>2, <3>3, <3>4, Zenon DEF Waited
    <2>3. CASE ~(q = r /\ j = k)
      <3>1. futures'[q][j] = futures[q][j] /\ results'[q][j] = results[q][j]
        BY <1>3, <1>13, <2>1, <2>3, Zenon
      <3> QED BY <2>1, <3>1, Zenon DEF Waited
    <2> QED BY <2>2, <2>3
  <1> QED BY <1>14, <1>15, <1>16 DEF IInv

\* A send that ends, a test, and a result that is asked for change neither what is
\* on the wires nor what was received.
SameMessages(r, k, g) ==
    /\ g.waiting = futures[r][k].waiting /\ g.recvbuf = futures[r][k].recvbuf
    /\ g.dist_alive <=> futures[r][k].dist_alive

OtherResults(r, k) ==
    /\ DOMAIN results' = Ranks
    /\ \A q \in Ranks : /\ results'[q] \in Seq([peers(q) -> Int])
                        /\ Len(results'[q]) = Len(results[q])
                        /\ \A j \in 1..Started(q) :
                             q # r \/ j # k => results'[q][j] = results[q][j]

LEMMA OtherStep ==
    ASSUME IInv, NEW r \in Ranks, NEW k \in 1..Started(r), NEW g \in FutureRecord(r),
           Replaces(r, k, g),
           SameMessages(r, k, g), wire' = wire, failed' = failed,
           OtherResults(r, k),
           Waited(r, k)'
    PROVE  IInv'
  <1>0. TypeOK /\ FifoInv /\ ConsumedInv
    BY DEF IInv
  <1>1. /\ DOMAIN futures' = Ranks /\ futures'[r][k] = g
        /\ \A q \in Ranks : /\ futures'[q] \in Seq(FutureRecord(q))
                            /\ Started(q)' = Started(q)
                            /\ \A j \in 1..Started(q) :
                                 q # r \/ j # k => futures'[q][j] = futures[q][j]
    BY <1>0, OneFuture
  <1>2. \A q \in Ranks : \A j \in 1..Started(q) :
            /\ futures'[q][j].waiting = futures[q][j].waiting
            /\ futures'[q][j].recvbuf = futures[q][j].recvbuf
    <2> SUFFICES ASSUME NEW q \in Ranks, NEW j \in 1..Started(q)
                 PROVE  /\ futures'[q][j].waiting = futures[q][j].waiting
                        /\ futures'[q][j].recvbuf = futures[q][j].recvbuf
      OBVIOUS
    <2>1. CASE q = r /\ j = k
      BY <1>1, <2>1 DEF SameMessages
    <2>2. CASE q # r \/ j # k
      BY <1>1, <2>2, Zenon
    <2> QED BY <2>1, <2>2
  <1>3. TypeOK'
    <2>1. \A q \in Ranks : Started(q)' = Started(q)
      BY <1>1, Zenon
    <2> QED BY <1>0, <1>1, <1>2, <2>1, Zenon DEF TypeOK, OtherResults
  <1>4. FifoInv'
    <2> SUFFICES ASSUME NEW q \in Ranks, NEW s \in peers(q)
                 PROVE  \E n \in 0..Started(q)' : ArrivedUpTo(s, q, n)'
      BY DEF FifoInv, peers
    <2>1. s \in Ranks
      BY DEF peers
    <2>2. PICK n \in 0..Started(q) : ArrivedUpTo(s, q, n)
      BY <1>0, Zenon DEF FifoInv
    <2>3. Started(q)' = Started(q) /\ Started(s)' = Started(s)
      BY <1>1, <2>1, Zenon
    <2>4. ASSUME NEW j \in 1..Started(q)'
          PROVE  /\ s \in futures'[q][j].waiting <=> j > n
                 /\ futures'[q][j].recvbuf[s] = IF j > n THEN Pending ELSE j
      <3>1. /\ s \in futures[q][j].waiting <=> j > n
            /\ futures[q][j].recvbuf[s] = IF j > n THEN Pending ELSE j
        BY <2>2, <2>3, Zenon DEF ArrivedUpTo
      <3>2. /\ futures'[q][j].waiting = futures[q][j].waiting
            /\ futures'[q][j].recvbuf = futures[q][j].recvbuf
        BY <1>2, <2>3, Zenon
      <3> QED BY <3>1, <3>2, Zenon
    <2> QED BY <2>2, <2>3, <2>4, Zenon DEF ArrivedUpTo
  <1>5. ConsumedInv'
    <2> SUFFICES ASSUME NEW q \in Ranks, NEW j \in 1..Started(q)'
                 PROVE  Waited(q, j)'
      BY DEF ConsumedInv
    <2>1. j \in 1..Started(q) /\ Waited(q, j)
      BY <1>0, <1>1, Zenon DEF ConsumedInv
    <2>2. CASE q = r /\ j = k
      BY <2>2, Zenon
    <2>3. CASE ~(q = r /\ j = k)
      <3>1. futures'[q][j] = futures[q][j] /\ results'[q][j] = results[q][j]
        BY <1>1, <2>1, <2>3, Zenon DEF OtherResults
      <3> QED BY <2>1, <3>1, Zenon DEF Waited
    <2> QED BY <2>2, <2>3
  <1> QED BY <1>3, <1>4, <1>5 DEF IInv

LEMMA EndSendIInv ==
    ASSUME IInv, NEW r \in Ranks, NEW k \in 1..Started(r), NEW d \in peers(r), EndSend(r, k, d)
    PROVE  IInv'
  <1> DEFINE f == futures[r][k]
             g == [f EXCEPT !.sending = f.sending \ {d}]
  <1>0. TypeOK /\ ConsumedInv
    BY DEF IInv
  <1>1. f \in FutureRecord(r)
    BY <1>0, FutureTypes
  <1>2. /\ g \in FutureRecord(r) /\ SameMessages(r, k, g) /\ g.status = f.status
        /\ g.polled <=> f.polled
    BY <1>1 DEF FutureRecord, SameMessages
  <1>3. Replaces(r, k, g)
    BY DEF Replaces, EndSend
  <1>4. d \in f.sending /\ results' = results /\ wire' = wire /\ failed' = failed
    BY DEF EndSend
  <1>5. Waited(r, k)'
    <2>1. /\ f.status = "completed" => f.polled
          /\ f.status = "consumed" => f.polled /\ \A p \in peers(r) : FromBuffer(f, p, results[r][k][p])
      BY <1>0, <1>4, Zenon DEF ConsumedInv, Waited, RequestsDone
    <2>2. futures'[r][k] = g
      BY <1>0, <1>2, <1>3, OneFuture
    <2> HIDE DEF g
    <2>3. \A p \in peers(r) : FromBuffer(f, p, results[r][k][p]) => FromBuffer(g, p, results[r][k][p])
      BY <1>2, Zenon DEF FromBuffer, SameMessages
    <2> QED BY <1>2, <1>4, <2>1, <2>2, <2>3, Zenon DEF Waited
  <1>6. OtherResults(r, k)
    BY <1>0, <1>4, Zenon DEF TypeOK, OtherResults
  <1> HIDE DEF g
  <1> QED BY <1>2, <1>3, <1>4, <1>5, <1>6, OtherStep

LEMMA CompletedIInv ==
    ASSUME IInv, NEW r \in Ranks, NEW k \in 1..Started(r), Completed(r, k)
    PROVE  IInv'
  <1> DEFINE f == futures[r][k]
             flag == IF RequestsDone(f) THEN 1 ELSE 0
             g == [f EXCEPT !.status = IF flag = 0 THEN "completed" ELSE f.status, !.polled = (flag = 0)]
  <1>0. TypeOK /\ ConsumedInv
    BY DEF IInv
  <1>1. f \in FutureRecord(r)
    BY <1>0, FutureTypes
  <1>2. g \in FutureRecord(r) /\ SameMessages(r, k, g)
    BY <1>1 DEF FutureRecord, SameMessages
  <1>3. Replaces(r, k, g)
    BY DEF Replaces, Completed
  <1>5. Waited(r, k)'
    <2>1. futures'[r][k] = g
      BY <1>0, <1>2, <1>3, OneFuture
    <2>2. f.status = "waiting"
      BY DEF Completed
    <2>3. g.status # "consumed" /\ (g.status = "completed" => g.polled)
      BY <1>1, <2>2 DEF FutureRecord
    <2> HIDE DEF g
    <2> QED BY <2>1, <2>3, Zenon DEF Waited
  <1>4. results' = results /\ wire' = wire /\ failed' = failed
    BY DEF Completed
  <1>6. OtherResults(r, k)
    BY <1>0, <1>4, Zenon DEF TypeOK, OtherResults
  <1> HIDE DEF g
  <1> QED BY <1>2, <1>3, <1>4, <1>5, <1>6, OtherStep

\* The callback gives the buffer, or something else if the Dist is not there.
LEMMA CallbackFacts ==
    ASSUME NEW r \in Ranks, NEW f \in FutureRecord(r), NEW result \in called_back(f)
    PROVE  /\ result \in [peers(r) -> Int]
           /\ \A s \in peers(r) : FromBuffer(f, s, result[s])
  <1>1. f.recvbuf \in [peers(r) -> Nat]
    BY DEF FutureRecord
  <1>2. /\ f.recvbuf \in [peers(r) -> Int] /\ DOMAIN f.recvbuf = peers(r)
        /\ [s \in DOMAIN f.recvbuf |-> Garbage] \in [peers(r) -> Int]
    BY <1>1 DEF Garbage
  <1>3. CASE result = f.recvbuf
    BY <1>2, <1>3, Zenon DEF FromBuffer
  <1>4. CASE ~f.dist_alive /\ result = [s \in DOMAIN f.recvbuf |-> Garbage]
    BY <1>2, <1>4, Zenon DEF FromBuffer
  <1>5. result = f.recvbuf \/ (~f.dist_alive /\ result = [s \in DOMAIN f.recvbuf |-> Garbage])
    BY Zenon DEF called_back
  <1> QED BY <1>3, <1>4, <1>5

LEMMA GetIInv ==
    ASSUME IInv, NEW r \in Ranks, NEW k \in 1..Started(r), Get(r, k)
    PROVE  IInv'
  <1> DEFINE f == futures[r][k]
             g == [f EXCEPT !.status = "consumed"]
  <1>0. TypeOK /\ ConsumedInv
    BY DEF IInv
  <1>1. f \in FutureRecord(r) /\ k \in 1..Len(results[r])
    BY <1>0, FutureTypes
  <1>2. /\ g \in FutureRecord(r) /\ SameMessages(r, k, g) /\ g.status = "consumed"
        /\ g.sending = f.sending /\ (g.polled <=> f.polled)
    BY <1>1 DEF FutureRecord, SameMessages
  <1>3. Replaces(r, k, g)
    BY DEF Replaces, Get
  <1>4. /\ ready(f) /\ f.status \in {"waiting", "completed"} /\ wire' = wire /\ failed' = failed
        /\ \E result \in called_back(f) :
              results' = [results EXCEPT ![r] = [@ EXCEPT ![k] = result]]
    BY DEF Get
  <1>r. PICK result \in called_back(f) :
          results' = [results EXCEPT ![r] = [@ EXCEPT ![k] = result]]
    BY <1>4
  <1>5. DOMAIN results = Ranks /\ \A q \in Ranks : results[q] \in Seq([peers(q) -> Int])
                                                /\ Len(results[q]) = Started(q)
    BY <1>0, Zenon DEF TypeOK
  <1>6. result \in [peers(r) -> Int] /\ \A p \in peers(r) : FromBuffer(f, p, result[p])
    BY <1>1, CallbackFacts
  <1>7. /\ DOMAIN results' = Ranks /\ results'[r][k] = result
        /\ \A q \in Ranks : /\ results'[q] \in Seq([peers(q) -> Int])
                            /\ Len(results'[q]) = Len(results[q])
                            /\ \A j \in 1..Started(q) :
                                 q # r \/ j # k => results'[q][j] = results[q][j]
    <2>1. results'[r] = [results[r] EXCEPT ![k] = result]
      BY <1>r, <1>5
    <2>2. /\ results'[r] \in Seq([peers(r) -> Int]) /\ Len(results'[r]) = Len(results[r])
          /\ \A j \in 1..Len(results[r]) :
                results'[r][j] = IF j = k THEN result ELSE results[r][j]
      BY <1>1, <1>5, <1>6, <2>1, ExceptSeq
    <2>3. \A q \in Ranks : q # r => results'[q] = results[q]
      BY <1>r, <1>5
    <2>4. DOMAIN results' = Ranks
      BY <1>r, <1>5
    <2> QED BY <1>1, <1>5, <2>2, <2>3, <2>4, Zenon
  <1>8. Waited(r, k)'
    <2>1. RequestsDone(f) \/ f.polled
      BY <1>0, <1>4, Zenon DEF ConsumedInv, Waited, ready
    <2>2. futures'[r][k] = g
      BY <1>0, <1>2, <1>3, OneFuture
    <2> HIDE DEF g
    <2>3. RequestsDone(g) \/ g.polled
      BY <1>2, <2>1, Zenon DEF RequestsDone, SameMessages
    <2>4. \A p \in peers(r) : FromBuffer(g, p, result[p])
      BY <1>2, <1>6, Zenon DEF FromBuffer, SameMessages
    <2>5. RequestsDone(futures'[r][k]) \/ futures'[r][k].polled
      BY <2>2, <2>3, Zenon
    <2>6. "consumed" # "completed" /\ futures'[r][k].status = "consumed"
      BY <1>2, <2>2
    <2> QED BY <1>7, <2>2, <2>4, <2>5, <2>6, Zenon DEF Waited
  <1> HIDE DEF g
  <1>9. OtherResults(r, k)
    BY <1>7, Zenon DEF OtherResults
  <1> QED BY <1>2, <1>3, <1>4, <1>8, <1>9, OtherStep

-----------------------------------------------------------------------------
(* All steps together, and the theorems *)

LEMMA SameState ==
    ASSUME IInv, UNCHANGED <<futures, wire, results>>, failed' \subseteq Ranks
    PROVE  IInv'
  <1>1. TypeOK'
    BY DEF IInv, TypeOK, Started
  <1>2. FifoInv'
    BY DEF IInv, FifoInv, ArrivedUpTo, Started
  <1>3. ConsumedInv'
    BY DEF IInv, ConsumedInv, Waited, Started, RequestsDone, FromBuffer
  <1> QED BY <1>1, <1>2, <1>3 DEF IInv

LEMMA NextIInv == IInv /\ [Next]_vars => IInv'
  <1> SUFFICES ASSUME IInv, [Next]_vars PROVE IInv'
    OBVIOUS
  <1>1. ASSUME NEW r \in Ranks, Iexch(r) PROVE IInv'
    BY <1>1, IexchIInv
  <1>2. ASSUME NEW r \in Ranks, NEW k \in 1..Started(r), Completed(r, k) PROVE IInv'
    BY <1>2, CompletedIInv
  <1>3. ASSUME NEW r \in Ranks, NEW k \in 1..Started(r), Get(r, k) PROVE IInv'
    BY <1>3, GetIInv
  <1>4. ASSUME NEW r \in Ranks, NEW k \in 1..Started(r), GetAgain(r, k) PROVE IInv'
    <2>1. UNCHANGED <<futures, wire, results>> /\ failed' \subseteq Ranks
      BY <1>4 DEF GetAgain, IInv, TypeOK
    <2> QED BY <2>1, SameState
  <1>5. ASSUME NEW r \in Ranks, NEW k \in 1..Started(r), NEW d \in peers(r), EndSend(r, k, d)
        PROVE  IInv'
    BY <1>5, EndSendIInv
  <1>6. ASSUME NEW s \in Ranks, NEW r \in peers(s), Deliver(s, r) PROVE IInv'
    <2>1. r \in Ranks /\ s \in peers(r)
      BY DEF peers
    <2> QED BY <1>6, <2>1, DeliverIInv
  <1>7. CASE UNCHANGED vars
    <2>1. UNCHANGED <<futures, wire, results>> /\ failed' \subseteq Ranks
      BY <1>7 DEF vars, IInv, TypeOK
    <2> QED BY <2>1, SameState
  <1> QED BY <1>1, <1>2, <1>3, <1>4, <1>5, <1>6, <1>7 DEF Next, Stop

LEMMA Inductive == Spec => []IInv
  BY InitIInv, NextIInv, PTL DEF Spec

\* The types, and the order and number of exchanges that a rank starts, hold in
\* every state (Comm::ialltoallv, Future::get).
THEOREM TypeCorrect == Spec => []TypeOK
  <1>1. IInv => TypeOK
    BY DEF IInv
  <1> QED BY <1>1, Inductive, PTL

\* A buffer holds nothing yet or what its sender sent in that exchange, however
\* many exchanges go on at once and whatever the callers ask (Neighbor_ialltoallv).
THEOREM MessagesKeptApart == Spec => []MessagesNotMixed
  <1>1. IInv => MessagesNotMixed
    <2> SUFFICES ASSUME IInv, NEW r \in Ranks, NEW k \in 1..Started(r), NEW s \in peers(r)
                 PROVE  futures[r][k].recvbuf[s] \in {Pending, k}
      BY DEF MessagesNotMixed
    <2>1. PICK n \in 0..Started(r) : ArrivedUpTo(s, r, n)
      BY Zenon DEF IInv, FifoInv
    <2> QED BY <2>1, Zenon DEF ArrivedUpTo
  <1> QED BY <1>1, Inductive, PTL

\* The buffers are given up only when all requests have ended (MPI_Waitall in
\* Future::get), or when completed had said so.
THEOREM BuffersAreHeld == Spec => []BuffersHeldWhileInUse
  <1>1. IInv => BuffersHeldWhileInUse
    BY Zenon DEF IInv, ConsumedInv, Waited, BuffersHeldWhileInUse, Consumed
  <1> QED BY <1>1, Inductive, PTL

\* What get hands to the callback is what all neighbours sent in that exchange, unless
\* completed had said that it was over; what it returns is that or a part of it if the
\* caller has the Dist, and never a part of another exchange (Future::get,
\* Dist::iexch, Mesh::isync_array).
THEOREM ResultsAreComplete == Spec => []ResultsComplete
  <1>1. IInv => ResultsComplete
    <2> SUFFICES ASSUME IInv, NEW r \in Ranks, NEW k \in Consumed(r), NEW s \in peers(r)
                 PROVE  /\ ~futures[r][k].polled => futures[r][k].recvbuf[s] = k
                        /\ results[r][k][s] \in
                              {k} \union (IF futures[r][k].polled THEN {Pending} ELSE {})
                              \union (IF futures[r][k].dist_alive THEN {} ELSE {Garbage})
      BY Zenon DEF ResultsComplete
    <2>1. k \in 1..Started(r) /\ futures[r][k].status = "consumed"
      BY DEF Consumed
    <2>2. /\ RequestsDone(futures[r][k]) \/ futures[r][k].polled
          /\ FromBuffer(futures[r][k], s, results[r][k][s])
      BY <2>1, Zenon DEF IInv, ConsumedInv, Waited
    <2>3. PICK n \in 0..Started(r) : ArrivedUpTo(s, r, n)
      BY Zenon DEF IInv, FifoInv
    <2>4. /\ s \in futures[r][k].waiting <=> k > n
          /\ futures[r][k].recvbuf[s] = IF k > n THEN Pending ELSE k
      BY <2>1, <2>3, Zenon DEF ArrivedUpTo
    <2>5. /\ ~futures[r][k].polled => futures[r][k].recvbuf[s] = k
          /\ futures[r][k].recvbuf[s] \in {Pending, k}
      BY <2>2, <2>4, Zenon DEF RequestsDone
    <2> QED BY <2>2, <2>5, Zenon DEF FromBuffer
  <1> QED BY <1>1, Inductive, PTL
=============================================================================
