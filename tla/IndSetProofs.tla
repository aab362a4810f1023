---------------------------- MODULE IndSetProofs ----------------------------
(***************************************************************************)
(* Proofs about IndSet, for any mesh, any distribution of it over any set  *)
(* of ranks that satisfies the assumptions, any candidates and qualities.  *)
(***************************************************************************)
EXTENDS IndSet, SequenceTheorems, TLAPS

\* The number of rounds a rank has sent, and the value of e after k rounds.
N(r) == Len(posts[r])
Val(e, k) ==
    IF k = 0 THEN IF candidates[e] THEN UNKNOWN ELSE NOT_IN
    ELSE posts[Owner[e]][k][e]

\* Where the reductions and syncs of a rank stand.
PhaseInv ==
    \A r \in Rank :
        /\ pc[r] \in {"start", "failed"} => Len(votes[r]) = 0 /\ N(r) = 0
        /\ pc[r] = "sync" => Len(votes[r]) = N(r) /\ N(r) >= 1
        /\ pc[r] \in {"reduce", "sync"} => owners_have_all_upward /\ entDim # ELEM
        /\ pc[r] = "reduce" => Len(votes[r]) = N(r) + 1
        /\ pc[r] = "done" => Len(votes[r]) <= N(r) + 1
        /\ N(r) >= 1 => owners_have_all_upward /\ entDim # ELEM

\* The reduction keeps any two ranks within one round of each other.
LagInv == \A r, s \in Rank : N(r) <= N(s) + 1

\* Every array sent covers the sender's copies.
PostTypeInv ==
    \A r \in Rank : \A k \in 1..N(r) : posts[r][k] \in [Copies(r) -> Status]

\* A rank's copies hold the owners' values of the round it has synced.
StateInv ==
    \A r \in Rank : \A e \in Copies(r) :
        /\ pc[r] = "reduce" => N(Owner[e]) >= N(r) /\ state[r][e] = Val(e, N(r))
        /\ pc[r] = "sync" =>
            N(Owner[e]) >= N(r) - 1 /\ state[r][e] = Val(e, N(r) - 1)

\* What a rank sent last is one local iteration on the owners' values of the
\* round before.
RoundInv ==
    \A r \in Rank :
        N(r) >= 1 =>
            posts[r][N(r)] =
                local_iteration(r, [e \in Copies(r) |-> Val(e, N(r) - 1)])

IInv ==
    /\ TypeOK
    /\ PhaseInv
    /\ LagInv
    /\ PostTypeInv
    /\ StateInv
    /\ RoundInv
    /\ SelectedAreIndependent

-----------------------------------------------------------------------------
(* Facts about the operators *)

LEMMA CopiesType == \A r : Copies(r) \in SUBSET Ent
  BY DEF Copies

LEMMA ArrayType ==
    ASSUME NEW r, NEW a \in [Copies(r) -> Status]
    PROVE  a \in Array
  BY CopiesType DEF Array

LEMMA IterationType ==
    ASSUME NEW r, NEW old \in [Copies(r) -> Status]
    PROVE  local_iteration(r, old) \in [Copies(r) -> Status]
  BY DEF local_iteration, Status, NOT_IN, IS_IN, UNKNOWN

\* An owner has a copy of what it owns.
LEMMA OwnersHold ==
    ASSUME TypeOK, NEW e \in Ent
    PROVE  Owner[e] \in Rank /\ e \in Copies(Owner[e])
  BY CopyAssumption, OwnerAssumption DEF TypeOK, Copies

\* The check of find_indset makes the owner's local star the whole star.
LEMMA StarComplete ==
    ASSUME TypeOK, owners_have_all_upward, entDim # ELEM,
           NEW u \in Ent, NEW v \in Ent
    PROVE  u \in Star(Owner[v], v) <=> Adjacent(u, v)
<1>1. OwnersHaveAll(parting, entDim)
  BY GhostedAssumption, VertBasedAssumption, SerialAssumption
  DEF owners_have_all_upward, have_all_upward, TypeOK
<1>2. Up[entDim][v] \subseteq ElemsOn[parting][Owner[v]]
  BY <1>1 DEF OwnersHaveAll
<1> QED
  BY <1>2 DEF Star, Copies, Adjacent

LEMMA AdjacentSymmetric == \A u, v : Adjacent(u, v) => Adjacent(v, u)
  BY DEF Adjacent

LEMMA LessAsymmetric ==
    ASSUME TypeOK, NEW u \in Ent, NEW v \in Ent, Less(u, v)
    PROVE  ~Less(v, u)
<1>1. quality[u] \in Int /\ quality[v] \in Int /\ u \in Int /\ v \in Int
  BY QualityAssumption, EntAssumption DEF TypeOK
<1> QED
  BY <1>1 DEF Less

LEMMA PostCount == ASSUME TypeOK, NEW r \in Rank PROVE N(r) \in Nat /\ Len(votes[r]) \in Nat
  BY LenProperties DEF TypeOK, N

\* What an owner decided last is its value after the rounds it has sent.
LEMMA ViewIsVal ==
    ASSUME TypeOK, NEW e \in Ent
    PROVE  OwnersView(e) = Val(e, N(Owner[e]))
<1>1. Owner[e] \in Rank /\ posts[Owner[e]] \in Seq(Array)
  BY OwnersHold DEF TypeOK
<1>2. posts[Owner[e]] = <<>> <=> N(Owner[e]) = 0
  BY <1>1, EmptySeq DEF N
<1> QED
  BY <1>2 DEF OwnersView, Val, N

LEMMA ValType ==
    ASSUME TypeOK, PostTypeInv, NEW e \in Ent, NEW k \in 0..N(Owner[e])
    PROVE  Val(e, k) \in Status
<1>1. CASE k = 0
  BY <1>1 DEF Val, Status, NOT_IN, UNKNOWN
<1>2. CASE k # 0
  <2>1. k \in 1..N(Owner[e])
    BY <1>2, OwnersHold, PostCount
  <2> QED
    BY <1>2, <2>1, OwnersHold DEF Val, PostTypeInv
<1> QED
  BY <1>1, <1>2

-----------------------------------------------------------------------------
(* One step *)

LEMMA InputsFixed ==
    ASSUME UNCHANGED inputs
    PROVE  /\ \A r : Copies(r)' = Copies(r)
           /\ \A r, v : Star(r, v)' = Star(r, v)
           /\ \A u, v : Adjacent(u, v)' <=> Adjacent(u, v)
           /\ \A u, v : Less(u, v)' <=> Less(u, v)
           /\ owners_have_all_upward' <=> owners_have_all_upward
  BY DEF inputs, Copies, Star, Adjacent, Less, owners_have_all_upward, have_all_upward

\* While r decides round n + 1, every owner has sent n rounds or n + 1.
LEMMA OthersRound ==
    ASSUME IInv, NEW r \in Rank, pc[r] = "reduce", Reduced(Len(votes[r])),
           NEW s \in Rank
    PROVE  N(s) = N(r) \/ N(s) = N(r) + 1
<1>1. N(r) \in Nat /\ N(s) \in Nat /\ Len(votes[s]) \in Nat
  BY PostCount DEF IInv
<1>2. Len(votes[r]) = N(r) + 1 /\ Len(votes[s]) >= N(r) + 1
  BY DEF IInv, PhaseInv, Reduced
<1>3. Len(votes[s]) <= N(s) + 1
  BY <1>1 DEF IInv, PhaseInv, TypeOK
<1>4. N(s) <= N(r) + 1
  BY DEF IInv, LagInv
<1> QED
  BY <1>1, <1>2, <1>3, <1>4

\* An owner a round ahead has decided from the values r sees now.
LEMMA ViewAhead ==
    ASSUME IInv, NEW u \in Ent, NEW n \in Nat, N(Owner[u]) = n + 1
    PROVE  OwnersView(u) =
             local_iteration(Owner[u], [w \in Copies(Owner[u]) |-> Val(w, n)])[u]
<1>1. Owner[u] \in Rank /\ N(Owner[u]) >= 1 /\ N(Owner[u]) - 1 = n
  BY OwnersHold DEF IInv
<1>2. posts[Owner[u]][n + 1] =
        local_iteration(Owner[u], [w \in Copies(Owner[u]) |-> Val(w, n)])
  BY <1>1 DEF IInv, RoundInv
<1>3. OwnersView(u) = posts[Owner[u]][n + 1][u]
  BY ViewIsVal DEF IInv, Val
<1> QED
  BY <1>2, <1>3

\* The value one local iteration gives to an entity.
LEMMA IterationAt ==
    ASSUME NEW r, NEW old, NEW v \in Copies(r)
    PROVE  local_iteration(r, old)[v] =
            IF old[v] # UNKNOWN THEN old[v]
            ELSE IF \E u \in Star(r, v) : old[u] = IS_IN THEN NOT_IN
            ELSE IF \E u \in Star(r, v) : old[u] # NOT_IN /\ ~Less(u, v) THEN UNKNOWN
            ELSE IS_IN
  BY DEF local_iteration

\* A selection from the values of round n is still right for the owners' views,
\* some of which are a round further.
LEMMA SelectionSound ==
    ASSUME IInv, NEW r \in Rank, pc[r] = "reduce", Reduced(Len(votes[r])),
           NEW v \in Ent, Owner[v] = r, Val(v, N(r)) = UNKNOWN,
           NEW u \in Ent, Adjacent(u, v)
    PROVE  /\ Val(u, N(r)) = IS_IN => OwnersView(u) = IS_IN
           /\ Val(u, N(r)) = NOT_IN => OwnersView(u) = NOT_IN
           /\ Val(u, N(r)) = UNKNOWN /\ Less(u, v) => OwnersView(u) \in {NOT_IN, UNKNOWN}
<1> DEFINE n == N(r)
           s == Owner[u]
           old == [w \in Copies(s) |-> Val(w, n)]
<1>1. s \in Rank /\ u \in Copies(s) /\ n \in Nat /\ n + 1 # n
  BY OwnersHold, PostCount DEF IInv
<1>2. CASE N(s) = n
  BY <1>2, ViewIsVal DEF IInv, NOT_IN, IS_IN, UNKNOWN
<1>3. CASE N(s) = n + 1
  <2>1. OwnersView(u) = local_iteration(s, old)[u]
    BY <1>1, <1>3, ViewAhead
  <2>2. owners_have_all_upward /\ entDim # ELEM
    BY DEF IInv, PhaseInv
  <2>3. v \in Star(s, u)
    BY <2>2, StarComplete, AdjacentSymmetric DEF IInv
  <2>4. v \in Copies(s) /\ old[v] = UNKNOWN /\ old[u] = Val(u, n)
    BY <2>3, <1>1 DEF Star
  <2>5. Less(u, v) => ~Less(v, u)
    BY LessAsymmetric DEF IInv
  <2>6. local_iteration(s, old)[u] =
            IF old[u] # UNKNOWN THEN old[u]
            ELSE IF \E w \in Star(s, u) : old[w] = IS_IN THEN NOT_IN
            ELSE IF \E w \in Star(s, u) : old[w] # NOT_IN /\ ~Less(w, u) THEN UNKNOWN
            ELSE IS_IN
    BY <1>1, IterationAt
  <2> HIDE DEF old
  <2>7. Less(u, v) =>
            \E w \in Star(s, u) : old[w] # NOT_IN /\ ~Less(w, u)
    BY <2>3, <2>4, <2>5 DEF NOT_IN, UNKNOWN
  <2> QED
    BY <2>1, <2>4, <2>6, <2>7 DEF NOT_IN, IS_IN, UNKNOWN
<1> QED
  BY <1>1, <1>2, <1>3, OthersRound

\* What Iterate does to the arrays sent.
LEMMA IteratePosts ==
    ASSUME IInv, NEW r \in Rank, Iterate(r)
    PROVE  /\ posts' \in [Rank -> Seq(Array)]
           /\ N(r)' = N(r) + 1
           /\ posts'[r][N(r) + 1] = local_iteration(r, state[r])
           /\ \A k \in 1..N(r) : posts'[r][k] = posts[r][k]
           /\ \A s \in Rank : s # r => posts'[s] = posts[s] /\ N(s)' = N(s)
<1> DEFINE a == local_iteration(r, state[r])
<1>1. a \in [Copies(r) -> Status] /\ a \in Array
  BY IterationType, ArrayType DEF IInv, TypeOK, Iterate
<1>2. posts[r] \in Seq(Array) /\ posts'[r] = Append(posts[r], a)
  BY DEF IInv, TypeOK, Iterate
<1> HIDE DEF a
<1>3. /\ posts'[r] \in Seq(Array)
      /\ Len(posts'[r]) = Len(posts[r]) + 1
      /\ posts'[r][Len(posts[r]) + 1] = a
      /\ \A k \in 1..Len(posts[r]) : posts'[r][k] = posts[r][k]
  BY <1>1, <1>2, AppendProperties
<1>4. \A s \in Rank : s # r => posts'[s] = posts[s]
  BY DEF IInv, TypeOK, Iterate
<1>5. posts' \in [Rank -> Seq(Array)]
  BY <1>3, <1>4 DEF IInv, TypeOK, Iterate
<1> QED
  BY <1>3, <1>4, <1>5 DEF N, a

\* The values of earlier rounds are never changed.
LEMMA IterateVal ==
    ASSUME IInv, NEW r \in Rank, Iterate(r), NEW e \in Ent,
           NEW k \in 0..N(Owner[e])
    PROVE  Val(e, k)' = Val(e, k)
<1>1. k = 0 \/ k \in 1..N(Owner[e])
  BY PostCount, OwnersHold DEF IInv
<1>2. candidates' = candidates /\ Owner[e] \in Rank
  BY OwnersHold DEF IInv, Iterate, inputs
<1> QED
  BY <1>1, <1>2, IteratePosts DEF Val

\* The owners' views follow IndSetSpec.
LEMMA IterateView ==
    ASSUME IInv, NEW r \in Rank, Iterate(r), NEW v \in Ent
    PROVE  \/ OwnersView(v)' = OwnersView(v)
           \/ /\ OwnersView(v)' = IS_IN
              /\ OwnersView(v) = UNKNOWN
              /\ \A u \in Ent : Adjacent(u, v) =>
                    \/ OwnersView(u) = NOT_IN
                    \/ OwnersView(u) = UNKNOWN /\ Less(u, v)
           \/ /\ OwnersView(v)' = NOT_IN
              /\ OwnersView(v) = UNKNOWN
              /\ \E u \in Ent : Adjacent(u, v) /\ OwnersView(u) = IS_IN
<1> DEFINE n == N(r)
           old == state[r]
<1>0. n \in Nat /\ Owner[v] \in Rank /\ v \in Copies(Owner[v])
  BY PostCount, OwnersHold DEF IInv
<1>1. CASE Owner[v] # r
  <2>1. posts'[Owner[v]] = posts[Owner[v]] /\ candidates' = candidates
    BY <1>0, <1>1, IteratePosts DEF Iterate, inputs
  <2> QED
    BY <2>1 DEF OwnersView
<1>2. CASE Owner[v] = r
  <2>1. pc[r] = "reduce" /\ Reduced(Len(votes[r]))
    BY DEF Iterate
  <2>2. OwnersView(v) = old[v] /\ old[v] = Val(v, n)
    BY <1>0, <1>2, <2>1, ViewIsVal DEF IInv, StateInv
  <2>3. OwnersView(v)' = local_iteration(r, old)[v]
    <3>1. posts'[r] # <<>> /\ Len(posts'[r]) = n + 1
      BY <1>0, IteratePosts, EmptySeq DEF N
    <3> QED
      BY <3>1, <1>2, IteratePosts DEF OwnersView
  <2>4. owners_have_all_upward /\ entDim # ELEM
    BY <2>1 DEF IInv, PhaseInv
  <2>5. \A u \in Ent : u \in Star(r, v) <=> Adjacent(u, v)
    BY <1>2, <2>4, StarComplete DEF IInv
  <2>6. Star(r, v) \in SUBSET Copies(r) /\ Copies(r) \in SUBSET Ent
    BY CopiesType DEF Star
  <2>7. \A u \in Star(r, v) : old[u] = Val(u, n) /\ old[u] \in Status
    BY <2>1, <2>6 DEF IInv, StateInv, TypeOK
  <2>8. local_iteration(r, old)[v] =
            IF old[v] # UNKNOWN THEN old[v]
            ELSE IF \E u \in Star(r, v) : old[u] = IS_IN THEN NOT_IN
            ELSE IF \E u \in Star(r, v) : old[u] # NOT_IN /\ ~Less(u, v) THEN UNKNOWN
            ELSE IS_IN
    BY <1>0, <1>2, IterationAt
  <2> HIDE DEF old, n
  <2>9. CASE old[v] = UNKNOWN /\ \E u \in Star(r, v) : old[u] = IS_IN
    <3>1. PICK u \in Star(r, v) : old[u] = IS_IN
      BY <2>9
    <3>2. u \in Ent /\ Adjacent(u, v) /\ Val(u, n) = IS_IN
      BY <3>1, <2>5, <2>6, <2>7
    <3>3. OwnersView(u) = IS_IN
      BY <3>2, <2>1, <2>2, <2>9, <1>2, SelectionSound DEF n
    <3> QED
      BY <2>2, <2>3, <2>8, <2>9, <3>2, <3>3
  <2>10. CASE /\ old[v] = UNKNOWN
              /\ \A u \in Star(r, v) : old[u] # IS_IN
              /\ \A u \in Star(r, v) : old[u] # NOT_IN => Less(u, v)
    <3>1. OwnersView(v)' = IS_IN
      BY <2>3, <2>8, <2>10
    <3>2. ASSUME NEW u \in Ent, Adjacent(u, v)
          PROVE  \/ OwnersView(u) = NOT_IN
                 \/ OwnersView(u) = UNKNOWN /\ Less(u, v)
      <4>1. /\ Val(u, n) = NOT_IN => OwnersView(u) = NOT_IN
            /\ Val(u, n) = UNKNOWN /\ Less(u, v) => OwnersView(u) \in {NOT_IN, UNKNOWN}
        BY <3>2, <2>1, <2>2, <2>10, <1>2, SelectionSound DEF n
      <4>2. u \in Star(r, v)
        BY <2>5, <3>2
      <4>3. Val(u, n) = NOT_IN \/ (Val(u, n) = UNKNOWN /\ Less(u, v))
        BY <4>2, <2>7, <2>10 DEF Status
      <4> QED
        BY <4>1, <4>3
    <3> QED
      BY <2>2, <2>10, <3>1, <3>2
  <2>11. CASE \/ old[v] # UNKNOWN
              \/ /\ \A u \in Star(r, v) : old[u] # IS_IN
                 /\ \E u \in Star(r, v) : old[u] # NOT_IN /\ ~Less(u, v)
    BY <2>2, <2>3, <2>8, <2>11
  <2> QED
    BY <2>9, <2>10, <2>11
<1> QED
  BY <1>1, <1>2

\* Independence is preserved by any step that decides soundly.
LEMMA DecisionsIndependent ==
    ASSUME IInv, UNCHANGED inputs,
           \A v \in Ent :
               \/ OwnersView(v)' = OwnersView(v)
               \/ /\ OwnersView(v)' = IS_IN
                  /\ OwnersView(v) = UNKNOWN
                  /\ \A u \in Ent : Adjacent(u, v) =>
                        \/ OwnersView(u) = NOT_IN
                        \/ OwnersView(u) = UNKNOWN /\ Less(u, v)
               \/ /\ OwnersView(v)' = NOT_IN
                  /\ OwnersView(v) = UNKNOWN
                  /\ \E u \in Ent : Adjacent(u, v) /\ OwnersView(u) = IS_IN
    PROVE  SelectedAreIndependent'
<1>1. entDim' = entDim /\ \A u, v : Adjacent(u, v)' <=> Adjacent(u, v)
  BY InputsFixed DEF inputs
<1> SUFFICES ASSUME entDim # ELEM, NEW u \in Ent, NEW v \in Ent, Adjacent(u, v),
                    OwnersView(u)' = IS_IN, OwnersView(v)' = IS_IN
             PROVE  FALSE
  BY <1>1 DEF SelectedAreIndependent
<1>2. Adjacent(v, u)
  BY AdjacentSymmetric
<1>3. ~(OwnersView(u) = IS_IN /\ OwnersView(v) = IS_IN)
  BY DEF IInv, SelectedAreIndependent
<1>4. ~(Less(u, v) /\ Less(v, u))
  BY LessAsymmetric DEF IInv
<1> QED
  BY <1>2, <1>3, <1>4 DEF NOT_IN, IS_IN, UNKNOWN

LEMMA IterateInv ==
    ASSUME IInv, NEW r \in Rank, Iterate(r)
    PROVE  IInv'
<1> DEFINE n == N(r)
<1>1. /\ pc[r] = "reduce" /\ Reduced(Len(votes[r])) /\ UNCHANGED <<inputs, state, votes>>
      /\ pc' = [pc EXCEPT ![r] = "sync"]
      /\ entDim' = entDim /\ parting' = parting
      /\ quality' = quality /\ candidates' = candidates
  BY DEF Iterate, inputs
<1>2. /\ \A s : Copies(s)' = Copies(s)
      /\ owners_have_all_upward' <=> owners_have_all_upward
  BY <1>1, InputsFixed
<1>3. \A s \in Rank : N(s) \in Nat /\ N(s)' \in Nat /\ N(s)' = IF s = r THEN n + 1 ELSE N(s)
  BY PostCount, IteratePosts DEF IInv
<1>4. \A s \in Rank : N(s) = n \/ N(s) = n + 1
  BY <1>1, OthersRound
<1>5. \A s \in Rank : Copies(s) \in SUBSET Ent
  BY CopiesType
<1>6. TypeOK'
  BY <1>1, <1>2, IteratePosts DEF IInv, TypeOK
<1>7. PhaseInv'
  BY <1>1, <1>2, <1>3 DEF IInv, PhaseInv, TypeOK
<1>8. LagInv'
  BY <1>3, <1>4 DEF IInv, LagInv
<1>9. PostTypeInv'
  <2>1. local_iteration(r, state[r]) \in [Copies(r) -> Status]
    BY <1>1, IterationType DEF IInv, TypeOK
  <2>2. \A k \in 1..N(r)' : k \in 1..n \/ k = n + 1
    BY <1>3
  <2> QED
    BY <2>1, <2>2, <1>2, <1>3, IteratePosts DEF IInv, PostTypeInv
<1>10. StateInv'
  <2> SUFFICES ASSUME NEW s \in Rank, NEW e \in Copies(s)
               PROVE  /\ pc'[s] = "reduce" => N(Owner[e])' >= N(s)' /\ state'[s][e] = Val(e, N(s))'
                      /\ pc'[s] = "sync" =>
                            N(Owner[e])' >= N(s)' - 1 /\ state'[s][e] = Val(e, N(s) - 1)'
    BY <1>2 DEF StateInv
  <2>1. e \in Ent /\ Owner[e] \in Rank
    BY <1>5, OwnersHold DEF IInv
  <2>2. \A k \in 0..N(Owner[e]) : Val(e, k)' = Val(e, k)
    BY <2>1, IterateVal
  <2>3. CASE s = r
    <3>1. N(Owner[e]) >= n /\ state[r][e] = Val(e, n)
      BY <2>3, <1>1 DEF IInv, StateInv
    <3>2. n \in 0..N(Owner[e]) /\ N(s)' - 1 = n /\ N(s)' = n + 1 /\ N(Owner[e])' >= n
      BY <3>1, <2>1, <2>3, <1>3
    <3>3. Val(e, N(s) - 1)' = Val(e, n)
      BY <3>2, <2>2
    <3> QED
      BY <3>1, <3>2, <3>3, <2>3, <1>1 DEF IInv, TypeOK
  <2>4. CASE s # r
    <3>1. pc'[s] = pc[s] /\ N(s)' = N(s) /\ N(Owner[e])' >= N(Owner[e]) /\ state' = state
      <4>1. pc'[s] = pc[s] /\ N(s)' = N(s) /\ state' = state
        BY <2>4, <1>1, <1>3 DEF IInv, TypeOK
      <4>2. N(Owner[e])' = IF Owner[e] = r THEN n + 1 ELSE N(Owner[e])
        BY <2>1, <1>3
      <4> QED
        BY <4>1, <4>2, <2>1, <1>3
    <3>2. pc[s] = "reduce" => N(s) \in 0..N(Owner[e])
      BY <2>1, <1>3 DEF IInv, StateInv
    <3>3. pc[s] = "sync" => N(s) - 1 \in 0..N(Owner[e])
      BY <2>1, <1>3 DEF IInv, StateInv, PhaseInv
    <3>4. pc[s] = "reduce" => Val(e, N(s))' = Val(e, N(s))
      BY <3>1, <3>2, <2>2
    <3>5. pc[s] = "sync" => Val(e, N(s) - 1)' = Val(e, N(s) - 1)
      BY <3>1, <3>3, <2>2
    <3> QED
      BY <3>1, <3>2, <3>3, <3>4, <3>5, <2>1, <1>3 DEF IInv, StateInv
  <2> QED
    BY <2>3, <2>4
<1>11. RoundInv'
  <2> SUFFICES ASSUME NEW s \in Rank, N(s)' >= 1
               PROVE  posts'[s][N(s)'] =
                        local_iteration(s, [e \in Copies(s) |-> Val(e, N(s) - 1)])'
    BY DEF RoundInv
  <2> DEFINE F == [e \in Copies(s) |-> Val(e, N(s) - 1)]
             G == IF s = r THEN state[r] ELSE F
  <2>1. F' = G
    <3>1. CASE s = r
      <4>1. \A e \in Copies(r) : n \in 0..N(Owner[e]) /\ state[r][e] = Val(e, n)
        BY <1>1, <1>3, <1>5, OwnersHold DEF IInv, StateInv
      <4>2. \A e \in Copies(r) : \A k \in 0..N(Owner[e]) : Val(e, k)' = Val(e, k)
        BY <1>5, IterateVal
      <4>3. N(s)' - 1 = n
        BY <3>1, <1>3
      <4>4. ASSUME NEW e \in Copies(r) PROVE Val(e, N(s) - 1)' = state[r][e]
        BY <4>1, <4>2, <4>3
      <4>5. state[r] \in [Copies(r) -> Status]
        BY <1>1 DEF IInv, TypeOK
      <4> QED
        BY <4>4, <4>5, <3>1, <1>2
    <3>2. CASE s # r
      <4>1. N(s)' = N(s) /\ N(s) >= 1
        BY <3>2, <1>3
      <4>2. \A e \in Copies(s) : N(s) - 1 \in 0..N(Owner[e])
        BY <4>1, <1>3, <1>5, OwnersHold DEF IInv, LagInv
      <4>3. \A e \in Copies(s) : Val(e, N(s) - 1)' = Val(e, N(s) - 1)
        BY <4>1, <4>2, <1>5, IterateVal
      <4> QED
        BY <4>3, <3>2, <1>2
    <3> QED
      BY <3>1, <3>2
  <2>2. posts'[s][N(s)'] = local_iteration(s, G)
    <3>1. CASE s = r
      BY <3>1, <1>3, IteratePosts
    <3>2. CASE s # r
      BY <3>2, <1>3, IteratePosts DEF IInv, RoundInv
    <3> QED
      BY <3>1, <3>2
  <2> HIDE DEF F, G
  <2>3. local_iteration(s, F)' = local_iteration(s, G)
    BY <2>1, <1>1, InputsFixed DEF local_iteration
  <2> QED
    BY <2>2, <2>3 DEF F
<1>12. SelectedAreIndependent'
  BY <1>1, IterateView, DecisionsIndependent
<1> QED
  BY <1>6, <1>7, <1>8, <1>9, <1>10, <1>11, <1>12 DEF IInv

\* The steps that send nothing leave the values of all rounds alone.
LEMMA NothingSent ==
    ASSUME IInv, UNCHANGED <<inputs, posts>>
    PROVE  /\ \A r : N(r)' = N(r)
           /\ \A e, k : Val(e, k)' = Val(e, k)
           /\ \A e : OwnersView(e)' = OwnersView(e)
           /\ LagInv' /\ PostTypeInv' /\ RoundInv' /\ SelectedAreIndependent'
<1>1. entDim' = entDim /\ candidates' = candidates /\ posts' = posts
  BY DEF inputs
<1>2. /\ \A r : N(r)' = N(r)
      /\ \A e, k : Val(e, k)' = Val(e, k)
      /\ \A e : OwnersView(e)' = OwnersView(e)
  BY <1>1 DEF N, Val, OwnersView
<1>3. LagInv' /\ PostTypeInv'
  BY <1>1, <1>2, InputsFixed DEF IInv, LagInv, PostTypeInv
<1>4. RoundInv'
  <2> SUFFICES ASSUME NEW r \in Rank, N(r) >= 1
               PROVE  posts[r][N(r)] =
                        local_iteration(r, [e \in Copies(r) |-> Val(e, N(r) - 1)])'
    BY <1>1, <1>2 DEF RoundInv
  <2> DEFINE F == [e \in Copies(r) |-> Val(e, N(r) - 1)]
  <2>1. F' = F
    BY <1>2, InputsFixed
  <2>2. posts[r][N(r)] = local_iteration(r, F)
    BY DEF IInv, RoundInv
  <2> HIDE DEF F
  <2>3. local_iteration(r, F)' = local_iteration(r, F)
    BY <2>1, InputsFixed DEF local_iteration
  <2> QED
    BY <2>2, <2>3 DEF F
<1>5. SelectedAreIndependent'
  BY <1>2, DecisionsIndependent
<1> QED
  BY <1>2, <1>3, <1>4, <1>5

LEMMA VoteType ==
    ASSUME TypeOK, NEW r \in Rank, NEW b \in BOOLEAN,
           votes' = [votes EXCEPT ![r] = Append(@, b)]
    PROVE  /\ votes' \in [Rank -> Seq(BOOLEAN)]
           /\ Len(votes'[r]) = Len(votes[r]) + 1
           /\ \A s \in Rank : s # r => votes'[s] = votes[s]
  BY AppendProperties DEF TypeOK

LEMMA BeginInv == ASSUME IInv, NEW r \in Rank, Begin(r) PROVE IInv'
<1>1. UNCHANGED <<inputs, posts>> /\ entDim' = entDim /\ parting' = parting
      /\ quality' = quality /\ candidates' = candidates
  BY DEF Begin, inputs
<1>2. /\ \A s : N(s)' = N(s)
      /\ \A e, k : Val(e, k)' = Val(e, k)
      /\ LagInv' /\ PostTypeInv' /\ RoundInv' /\ SelectedAreIndependent'
  BY <1>1, NothingSent
<1>3. \A s : Copies(s)' = Copies(s)
  BY <1>1, InputsFixed
<1>4. owners_have_all_upward' <=> owners_have_all_upward
  BY <1>1, InputsFixed
<1>5. initial_state(r) \in [Copies(r) -> Status] /\ initial_state(r) \in Array
  <2>1. initial_state(r) \in [Copies(r) -> Status]
    BY DEF initial_state, Status, NOT_IN, UNKNOWN
  <2> QED
    BY <2>1, ArrayType
<1>6. Undecided(initial_state(r)) \in BOOLEAN
  BY DEF Undecided
<1>7. /\ votes' \in [Rank -> Seq(BOOLEAN)] /\ Len(votes'[r]) = Len(votes[r]) + 1
      /\ \A s \in Rank : s # r => votes'[s] = votes[s]
  BY <1>6, VoteType DEF IInv, Begin
<1>8. TypeOK'
  BY <1>1, <1>3, <1>5, <1>7 DEF IInv, TypeOK, Begin
<1>9. PhaseInv'
  BY <1>1, <1>2, <1>4, <1>7, PostCount DEF IInv, PhaseInv, TypeOK, Begin
<1>10. StateInv'
  <2>1. N(r) = 0 /\ pc'[r] = "reduce" /\ state'[r] = initial_state(r)
    BY DEF IInv, PhaseInv, TypeOK, Begin
  <2>2. \A e \in Copies(r) : N(Owner[e]) >= 0 /\ initial_state(r)[e] = Val(e, 0)
    BY CopiesType, OwnersHold, PostCount DEF initial_state, Val, IInv
  <2>3. \A s \in Rank : s # r => pc'[s] = pc[s] /\ state'[s] = state[s]
    BY DEF IInv, TypeOK, Begin
  <2> QED
    BY <2>1, <2>2, <2>3, <1>2, <1>3 DEF IInv, StateInv
<1> QED
  BY <1>2, <1>8, <1>9, <1>10 DEF IInv

LEMMA SyncInv == ASSUME IInv, NEW r \in Rank, Sync(r) PROVE IInv'
<1>1. UNCHANGED <<inputs, posts>> /\ entDim' = entDim /\ parting' = parting
      /\ quality' = quality /\ candidates' = candidates
  BY DEF Sync, inputs
<1>2. /\ \A s : N(s)' = N(s)
      /\ \A e, k : Val(e, k)' = Val(e, k)
      /\ LagInv' /\ PostTypeInv' /\ RoundInv' /\ SelectedAreIndependent'
  BY <1>1, NothingSent
<1>3. \A s : Copies(s)' = Copies(s)
  BY <1>1, InputsFixed
<1>4. owners_have_all_upward' <=> owners_have_all_upward
  BY <1>1, InputsFixed
<1>5. N(r) \in Nat /\ N(r) >= 1 /\ Len(votes[r]) = N(r)
  BY PostCount DEF IInv, PhaseInv, Sync
<1>6. \A e \in Copies(r) : N(Owner[e]) >= N(r) /\ Synced(r)[e] = Val(e, N(r))
  BY <1>5 DEF Sync, Synced, Val, N
<1>7. Synced(r) \in [Copies(r) -> Status] /\ Synced(r) \in Array
  <2>1. \A e \in Copies(r) : e \in Ent /\ N(r) \in 0..N(Owner[e])
    BY <1>5, <1>6, CopiesType, OwnersHold, PostCount DEF IInv
  <2>2. \A e \in Copies(r) : Synced(r)[e] \in Status
    BY <2>1, <1>6, ValType DEF IInv
  <2>3. Synced(r) \in [Copies(r) -> Status]
    BY <2>2 DEF Synced
  <2> QED
    BY <2>3, ArrayType
<1>8. Undecided(Synced(r)) \in BOOLEAN
  BY DEF Undecided
<1>9. /\ votes' \in [Rank -> Seq(BOOLEAN)] /\ Len(votes'[r]) = Len(votes[r]) + 1
      /\ \A s \in Rank : s # r => votes'[s] = votes[s]
  BY <1>8, VoteType DEF IInv, Sync
<1>10. TypeOK'
  BY <1>1, <1>3, <1>7, <1>9 DEF IInv, TypeOK, Sync
<1>11. PhaseInv'
  BY <1>1, <1>2, <1>4, <1>5, <1>9 DEF IInv, PhaseInv, TypeOK, Sync
<1>12. StateInv'
  <2>1. pc'[r] = "reduce" /\ state'[r] = Synced(r)
    BY DEF IInv, TypeOK, Sync
  <2>2. \A s \in Rank : s # r => pc'[s] = pc[s] /\ state'[s] = state[s]
    BY DEF IInv, TypeOK, Sync
  <2> QED
    BY <2>1, <2>2, <1>2, <1>3, <1>6 DEF IInv, StateInv
<1> QED
  BY <1>2, <1>10, <1>11, <1>12 DEF IInv

\* The steps that stop a rank.
LEMMA StopInv ==
    ASSUME IInv, NEW r \in Rank, ReturnCandidates(r) \/ CheckFails(r) \/ Return(r)
    PROVE  IInv' /\ UNCHANGED <<inputs, posts>>
<1>1. UNCHANGED <<inputs, posts, votes>> /\ entDim' = entDim /\ parting' = parting
      /\ quality' = quality /\ candidates' = candidates
  BY DEF ReturnCandidates, CheckFails, Return, inputs
<1>2. /\ \A s : N(s)' = N(s)
      /\ \A e, k : Val(e, k)' = Val(e, k)
      /\ LagInv' /\ PostTypeInv' /\ RoundInv' /\ SelectedAreIndependent'
  BY <1>1, NothingSent
<1>3. \A s : Copies(s)' = Copies(s)
  BY <1>1, InputsFixed
<1>4. owners_have_all_upward' <=> owners_have_all_upward
  BY <1>1, InputsFixed
<1>5. \A s \in Rank : s # r => pc'[s] = pc[s] /\ state'[s] = state[s]
  BY DEF IInv, TypeOK, ReturnCandidates, CheckFails, Return
<1>6. \/ pc[r] = "start" /\ pc'[r] \in {"done", "failed"}
      \/ pc[r] = "reduce" /\ pc'[r] = "done"
  BY DEF IInv, TypeOK, ReturnCandidates, CheckFails, Return
<1>7. TypeOK'
  <2> DEFINE a == [e \in Copies(r) |-> IF candidates[e] THEN IS_IN ELSE NOT_IN]
  <2>1. a \in [Copies(r) -> Status] /\ a \in Array
    <3>1. a \in [Copies(r) -> Status]
      BY DEF Status, NOT_IN, IS_IN
    <3> QED
      BY <3>1, ArrayType
  <2>2. pc'[r] = "done" => (state'[r] = state[r] /\ pc[r] = "reduce") \/ state'[r] = a
    BY DEF IInv, TypeOK, ReturnCandidates, CheckFails, Return
  <2>3. state' \in [Rank -> Array] /\ pc' \in [Rank -> {"start", "reduce", "sync", "done", "failed"}]
    BY <2>1 DEF IInv, TypeOK, ReturnCandidates, CheckFails, Return
  <2> HIDE DEF a
  <2> QED
    BY <2>1, <2>2, <2>3, <1>1, <1>3, <1>5, <1>6 DEF IInv, TypeOK
<1>8. PhaseInv'
  BY <1>1, <1>2, <1>4, <1>5, <1>6, PostCount DEF IInv, PhaseInv, TypeOK
<1>9. StateInv'
  BY <1>2, <1>3, <1>5, <1>6 DEF IInv, StateInv
<1> QED
  BY <1>1, <1>2, <1>7, <1>8, <1>9 DEF IInv

LEMMA InitInv == Init => IInv
<1> SUFFICES ASSUME Init PROVE IInv
  OBVIOUS
<1>1. <<>> \in Seq(Array) /\ <<>> \in Seq(BOOLEAN) /\ Len(<<>>) = 0
  BY EmptySeq
<1>0. [e \in {} |-> NOT_IN] \in Array
  BY DEF Array
<1>2. TypeOK
  BY <1>0, <1>1 DEF Init, TypeOK
<1>3. \A r \in Rank : N(r) = 0 /\ Len(votes[r]) = 0 /\ pc[r] = "start"
  BY <1>1 DEF Init, N
<1>4. PhaseInv /\ LagInv /\ PostTypeInv /\ StateInv /\ RoundInv
  BY <1>3 DEF PhaseInv, LagInv, PostTypeInv, StateInv, RoundInv
<1>5. SelectedAreIndependent
  BY OwnerAssumption DEF SelectedAreIndependent, OwnersView, Init, NOT_IN, IS_IN, UNKNOWN
<1> QED
  BY <1>2, <1>4, <1>5 DEF IInv

LEMMA StepInv == IInv /\ [Next]_vars => IInv'
<1> SUFFICES ASSUME IInv, [Next]_vars PROVE IInv'
  OBVIOUS
<1>1. CASE UNCHANGED vars
  <2>1. UNCHANGED <<inputs, posts, pc, state, votes>>
    BY <1>1 DEF vars, inputs
  <2>2. TypeOK'
    BY <2>1, InputsFixed DEF IInv, TypeOK, inputs
  <2>3. PhaseInv' /\ StateInv'
    BY <2>1, InputsFixed, NothingSent DEF IInv, PhaseInv, StateInv, inputs
  <2> QED
    BY <2>1, <2>2, <2>3, NothingSent DEF IInv
<1>2. CASE Next
  BY <1>2, BeginInv, IterateInv, SyncInv, StopInv DEF Next, Step
<1> QED
  BY <1>1, <1>2

LEMMA Invariance == Spec => []IInv
  BY InitInv, StepInv, PTL DEF Spec

-----------------------------------------------------------------------------
(***************************************************************************)
(* What the search ends with: a decision has a reason that lasts, the last *)
(* vote of a rank tells whether it has decided everything, and what a rank *)
(* returns is what the owners had decided in its last round.               *)
(***************************************************************************)

\* A neighbor of a selected entity is rejected or will be, and compares less
\* when it is not yet; a candidate is rejected for a selected neighbor that
\* compares greater.
GreedyInv ==
    \A v \in Ent :
        /\ ~candidates[v] => OwnersView(v) = NOT_IN
        /\ OwnersView(v) = IS_IN =>
            \A u \in Ent : Adjacent(u, v) =>
                \/ OwnersView(u) = NOT_IN
                \/ OwnersView(u) = UNKNOWN /\ Less(u, v)
        /\ candidates[v] /\ OwnersView(v) = NOT_IN =>
            \E u \in Ent : Adjacent(u, v) /\ Less(v, u) /\ OwnersView(u) = IS_IN

VoteInv ==
    \A r \in Rank :
        pc[r] = "reduce" => (votes[r][Len(votes[r])] <=> Undecided(state[r]))

DoneInv ==
    \A r \in Rank : pc[r] = "done" =>
        /\ entDim # ELEM => ~Undecided(state[r])
        /\ \A e \in Copies(r) :
            /\ entDim = ELEM => state[r][e] = IF candidates[e] THEN IS_IN ELSE NOT_IN
            /\ entDim # ELEM => N(Owner[e]) >= N(r) /\ state[r][e] = Val(e, N(r))

ResultInv == IInv /\ GreedyInv /\ VoteInv /\ DoneInv

LEMMA DecisionsGreedy ==
    ASSUME IInv, GreedyInv, UNCHANGED inputs,
           \A v \in Ent :
               \/ OwnersView(v)' = OwnersView(v)
               \/ /\ OwnersView(v)' = IS_IN
                  /\ OwnersView(v) = UNKNOWN
                  /\ \A u \in Ent : Adjacent(u, v) =>
                        \/ OwnersView(u) = NOT_IN
                        \/ OwnersView(u) = UNKNOWN /\ Less(u, v)
               \/ /\ OwnersView(v)' = NOT_IN
                  /\ OwnersView(v) = UNKNOWN
                  /\ \E u \in Ent : Adjacent(u, v) /\ OwnersView(u) = IS_IN
    PROVE  GreedyInv'
<1>1. /\ candidates' = candidates
      /\ \A u, v : Adjacent(u, v)' <=> Adjacent(u, v)
      /\ \A u, v : Less(u, v)' <=> Less(u, v)
  BY InputsFixed DEF inputs
<1>2. \A v \in Ent : OwnersView(v) # UNKNOWN => OwnersView(v)' = OwnersView(v)
  OBVIOUS
<1>3. IS_IN # NOT_IN /\ IS_IN # UNKNOWN /\ NOT_IN # UNKNOWN
  BY DEF IS_IN, NOT_IN, UNKNOWN
<1>4. ASSUME NEW v \in Ent, ~candidates[v] PROVE OwnersView(v)' = NOT_IN
  BY <1>2, <1>3, <1>4 DEF GreedyInv
<1>5. ASSUME NEW v \in Ent, OwnersView(v)' = IS_IN, NEW u \in Ent, Adjacent(u, v)
      PROVE  \/ OwnersView(u)' = NOT_IN
             \/ OwnersView(u)' = UNKNOWN /\ Less(u, v)
  <2>1. /\ OwnersView(v) = IS_IN \/ OwnersView(v) = UNKNOWN
        /\ \/ OwnersView(u) = NOT_IN
           \/ OwnersView(u) = UNKNOWN /\ Less(u, v)
    BY <1>3, <1>5 DEF GreedyInv
  <2>2. CASE OwnersView(u) = NOT_IN
    BY <1>2, <1>3, <2>2
  <2>3. CASE OwnersView(u) = UNKNOWN /\ Less(u, v)
    <3>1. ~(OwnersView(v) = NOT_IN \/ (OwnersView(v) = UNKNOWN /\ Less(v, u)))
      BY <1>3, <2>1, <2>3, LessAsymmetric DEF IInv
    <3>2. Adjacent(v, u)
      BY <1>5, AdjacentSymmetric
    <3> QED
      BY <1>3, <2>3, <3>1, <3>2
  <2> QED
    BY <2>1, <2>2, <2>3
<1>6. ASSUME NEW v \in Ent, candidates[v], OwnersView(v)' = NOT_IN
      PROVE  \E u \in Ent : Adjacent(u, v) /\ Less(v, u) /\ OwnersView(u)' = IS_IN
  <2>1. CASE OwnersView(v) = NOT_IN
    BY <1>2, <1>3, <1>6, <2>1 DEF GreedyInv
  <2>2. CASE OwnersView(v) # NOT_IN
    <3>1. OwnersView(v) = UNKNOWN
      BY <1>2, <1>6, <2>2
    <3>2. PICK u \in Ent : Adjacent(u, v) /\ OwnersView(u) = IS_IN
      BY <1>3, <1>6, <3>1
    <3>3. Less(v, u)
      BY <1>3, <3>1, <3>2, AdjacentSymmetric DEF GreedyInv
    <3> QED
      BY <1>2, <1>3, <3>2, <3>3
  <2> QED
    BY <2>1, <2>2
<1> QED
  BY <1>1, <1>4, <1>5, <1>6 DEF GreedyInv

\* The ranks that are done keep what they return.
LEMMA DoneStays ==
    ASSUME IInv, DoneInv, UNCHANGED inputs, NEW s \in Rank, pc[s] = "done",
           state'[s] = state[s], N(s)' = N(s),
           \A e \in Ent : /\ N(Owner[e])' >= N(Owner[e])
                          /\ \A k \in 0..N(Owner[e]) : Val(e, k)' = Val(e, k)
    PROVE  /\ (entDim # ELEM)' => ~Undecided(state[s])'
           /\ \A e \in Copies(s)' :
                /\ (entDim = ELEM)' => state'[s][e] = IF candidates'[e] THEN IS_IN ELSE NOT_IN
                /\ (entDim # ELEM)' => N(Owner[e])' >= N(s)' /\ state'[s][e] = Val(e, N(s))'
<1>1. entDim' = entDim /\ candidates' = candidates /\ Copies(s)' = Copies(s)
  BY InputsFixed DEF inputs
<1>2. Undecided(state[s])' <=> Undecided(state[s])
  BY DEF Undecided
<1>3. ASSUME NEW e \in Copies(s), entDim # ELEM
      PROVE  N(Owner[e])' >= N(s)' /\ state'[s][e] = Val(e, N(s))'
  <2>1. e \in Ent /\ Owner[e] \in Rank /\ N(s) \in Nat /\ N(Owner[e]) \in Nat
    BY CopiesType, OwnersHold, PostCount DEF IInv
  <2>2. N(Owner[e]) >= N(s) /\ state[s][e] = Val(e, N(s))
    BY <1>3 DEF DoneInv
  <2>3. N(s) \in 0..N(Owner[e])
    BY <2>1, <2>2
  <2>4. Val(e, N(s))' = Val(e, N(s))
    BY <2>1, <2>3
  <2>5. N(Owner[e])' \in Nat \/ N(Owner[e])' >= N(Owner[e])
    BY <2>1
  <2>6. N(Owner[e])' >= N(s)
    BY <2>1, <2>2 DEF N
  <2> QED
    BY <2>2, <2>4, <2>6
<1> QED
  BY <1>1, <1>2, <1>3 DEF DoneInv

LEMMA IterateResult ==
    ASSUME ResultInv, NEW r \in Rank, Iterate(r)
    PROVE  GreedyInv' /\ VoteInv' /\ DoneInv'
<1>1. IInv /\ GreedyInv /\ VoteInv /\ DoneInv
  BY DEF ResultInv
<1>2. UNCHANGED <<inputs, state, votes>>
  BY DEF Iterate
<1>3. /\ pc'[r] = "sync"
      /\ \A s \in Rank : s # r => pc'[s] = pc[s] /\ N(s)' = N(s)
  BY <1>1, IteratePosts DEF IInv, TypeOK, Iterate
<1>4. GreedyInv'
  BY <1>1, <1>2, IterateView, DecisionsGreedy
<1>5. VoteInv'
  BY <1>1, <1>2, <1>3 DEF VoteInv, Undecided
<1>6. DoneInv'
  <2>1. ASSUME NEW e \in Ent
        PROVE  /\ N(Owner[e])' >= N(Owner[e])
               /\ \A k \in 0..N(Owner[e]) : Val(e, k)' = Val(e, k)
    <3>1. Owner[e] \in Rank /\ N(Owner[e]) \in Nat
      BY <1>1, OwnersHold, PostCount DEF IInv
    <3>2. N(Owner[e])' = N(Owner[e]) + 1 \/ N(Owner[e])' = N(Owner[e])
      BY <1>1, <1>3, <3>1, IteratePosts
    <3> QED
      BY <1>1, <3>1, <3>2, IterateVal
  <2>2. ASSUME NEW s \in Rank, pc'[s] = "done"
        PROVE  s # r /\ pc[s] = "done" /\ state'[s] = state[s] /\ N(s)' = N(s)
    BY <1>2, <1>3, <2>2
  <2> QED
    BY <1>1, <1>2, <2>1, <2>2, DoneStays DEF DoneInv
<1> QED
  BY <1>4, <1>5, <1>6

\* Begin and Sync: the vote is about the array that the rank goes on with.
LEMMA VotedResult ==
    ASSUME ResultInv, NEW r \in Rank, Begin(r) \/ Sync(r)
    PROVE  GreedyInv' /\ VoteInv' /\ DoneInv'
<1>1. IInv /\ GreedyInv /\ VoteInv /\ DoneInv
  BY DEF ResultInv
<1>2. UNCHANGED <<inputs, posts>>
  BY DEF Begin, Sync
<1>3. /\ pc'[r] = "reduce"
      /\ \A s \in Rank : s # r => pc'[s] = pc[s] /\ state'[s] = state[s] /\ votes'[s] = votes[s]
  BY <1>1 DEF IInv, TypeOK, Begin, Sync
<1>4. GreedyInv'
  BY <1>1, <1>2, NothingSent, DecisionsGreedy
<1>5. VoteInv'
  <2>1. PICK b \in BOOLEAN : /\ votes' = [votes EXCEPT ![r] = Append(@, b)]
                             /\ b <=> Undecided(state[r])'
    BY <1>1 DEF IInv, TypeOK, Begin, Sync, Undecided
  <2>2. votes[r] \in Seq(BOOLEAN) /\ votes'[r] = Append(votes[r], b)
    BY <1>1, <2>1 DEF IInv, TypeOK
  <2>3. votes'[r][Len(votes'[r])] = b
    BY <2>2, AppendProperties
  <2>4. ASSUME NEW s \in Rank, s # r
        PROVE  votes'[s] = votes[s] /\ (Undecided(state[s])' <=> Undecided(state[s]))
    BY <1>3, <2>4 DEF Undecided
  <2>5. (votes[r][Len(votes[r])] <=> Undecided(state[r]))'
    BY <2>1, <2>3
  <2> QED
    BY <1>1, <1>3, <2>4, <2>5 DEF VoteInv
<1>6. DoneInv'
  <2>1. ASSUME NEW e \in Ent
        PROVE  /\ N(Owner[e])' >= N(Owner[e])
               /\ \A k \in 0..N(Owner[e]) : Val(e, k)' = Val(e, k)
    BY <1>1, <1>2, NothingSent, OwnersHold, PostCount DEF IInv
  <2>2. ASSUME NEW s \in Rank, pc'[s] = "done"
        PROVE  pc[s] = "done" /\ state'[s] = state[s] /\ N(s)' = N(s)
    BY <1>1, <1>2, <1>3, <2>2, NothingSent
  <2> QED
    BY <1>1, <1>2, <2>1, <2>2, DoneStays DEF DoneInv
<1> QED
  BY <1>4, <1>5, <1>6

LEMMA StopResult ==
    ASSUME ResultInv, NEW r \in Rank, ReturnCandidates(r) \/ CheckFails(r) \/ Return(r)
    PROVE  GreedyInv' /\ VoteInv' /\ DoneInv'
<1>1. IInv /\ GreedyInv /\ VoteInv /\ DoneInv
  BY DEF ResultInv
<1>2. UNCHANGED <<inputs, posts>> /\ votes' = votes
  BY DEF ReturnCandidates, CheckFails, Return
<1>3. /\ pc'[r] \in {"done", "failed"}
      /\ \A s \in Rank : s # r => pc'[s] = pc[s] /\ state'[s] = state[s]
  BY <1>1 DEF IInv, TypeOK, ReturnCandidates, CheckFails, Return
<1>4. GreedyInv'
  BY <1>1, <1>2, NothingSent, DecisionsGreedy
<1>5. VoteInv'
  <2>1. ASSUME NEW s \in Rank, pc'[s] = "reduce"
        PROVE  /\ pc[s] = "reduce" /\ votes'[s] = votes[s]
               /\ Undecided(state[s])' <=> Undecided(state[s])
    BY <1>2, <1>3, <2>1 DEF Undecided
  <2> QED
    BY <1>1, <2>1 DEF VoteInv
<1>6. ASSUME NEW e \in Ent
      PROVE  /\ N(Owner[e])' >= N(Owner[e])
             /\ \A k \in 0..N(Owner[e]) : Val(e, k)' = Val(e, k)
  BY <1>1, <1>2, NothingSent, OwnersHold, PostCount DEF IInv
<1>7. /\ entDim' = entDim /\ candidates' = candidates /\ \A s : Copies(s)' = Copies(s)
      /\ \A s : N(s)' = N(s) /\ \A e, k : Val(e, k)' = Val(e, k)
  BY <1>1, <1>2, InputsFixed, NothingSent DEF inputs
<1>8. CASE ReturnCandidates(r)
  <2>1. entDim = ELEM
        /\ \A e \in Copies(r) : state'[r][e] = IF candidates[e] THEN IS_IN ELSE NOT_IN
    BY <1>1, <1>8 DEF IInv, TypeOK, ReturnCandidates
  <2>2. ASSUME NEW s \in Rank, s # r, pc'[s] = "done"
        PROVE  pc[s] = "done" /\ state'[s] = state[s] /\ N(s)' = N(s)
    BY <1>3, <1>7, <2>2
  <2>3. ASSUME NEW s \in Rank, s # r, pc'[s] = "done"
        PROVE  \A e \in Copies(s) : state'[s][e] = IF candidates[e] THEN IS_IN ELSE NOT_IN
    BY <1>1, <2>1, <2>2, <2>3 DEF DoneInv
  <2>4. ASSUME NEW s \in Rank, pc'[s] = "done", NEW e \in Copies(s)'
        PROVE  state'[s][e] = IF candidates'[e] THEN IS_IN ELSE NOT_IN
    BY <1>7, <2>1, <2>3, <2>4
  <2>5. entDim' = ELEM
    BY <1>7, <2>1
  <2>6. DoneInv'
    BY <2>4, <2>5 DEF DoneInv
  <2> QED
    BY <1>4, <1>5, <2>6
<1>9. CASE CheckFails(r)
  <2>1. pc'[r] # "done"
    BY <1>1, <1>9 DEF IInv, TypeOK, CheckFails
  <2>2. ASSUME NEW s \in Rank, pc'[s] = "done"
        PROVE  pc[s] = "done" /\ state'[s] = state[s] /\ N(s)' = N(s)
    BY <1>3, <1>7, <2>1, <2>2
  <2>3. DoneInv'
    BY <1>1, <1>2, <1>6, <2>2, DoneStays DEF DoneInv
  <2> QED
    BY <1>4, <1>5, <2>3
<1>10. CASE Return(r)
  <2>1. pc[r] = "reduce" /\ ~votes[r][Len(votes[r])] /\ state' = state
    BY <1>10 DEF Return, AnyUndecided
  <2>2. ~Undecided(state[r])' /\ entDim # ELEM
    BY <1>1, <2>1 DEF VoteInv, Undecided, IInv, PhaseInv
  <2>3. \A e \in Copies(r) : N(Owner[e]) >= N(r) /\ state[r][e] = Val(e, N(r))
    BY <1>1, <2>1 DEF IInv, StateInv
  <2>4. ASSUME NEW s \in Rank, s # r, pc'[s] = "done"
        PROVE  /\ ~Undecided(state[s])'
               /\ \A e \in Copies(s) : N(Owner[e]) >= N(s) /\ state[s][e] = Val(e, N(s))
    BY <1>1, <1>3, <2>1, <2>2, <2>4 DEF DoneInv, Undecided
  <2>5. DoneInv'
    BY <1>7, <2>1, <2>2, <2>3, <2>4 DEF DoneInv
  <2> QED
    BY <1>4, <1>5, <2>5
<1> QED
  BY <1>4, <1>5, <1>8, <1>9, <1>10

LEMMA InitResult == Init => ResultInv
<1> SUFFICES ASSUME Init PROVE ResultInv
  OBVIOUS
<1>1. IInv
  BY InitInv
<1>2. \A e \in Ent : OwnersView(e) = IF candidates[e] THEN UNKNOWN ELSE NOT_IN
  BY OwnerAssumption DEF Init, OwnersView
<1>3. GreedyInv
  BY <1>2 DEF GreedyInv, NOT_IN, IS_IN, UNKNOWN
<1>4. VoteInv /\ DoneInv
  BY DEF Init, VoteInv, DoneInv
<1> QED
  BY <1>1, <1>3, <1>4 DEF ResultInv

LEMMA StepResult == ResultInv /\ [Next]_vars => ResultInv'
<1> SUFFICES ASSUME ResultInv, [Next]_vars PROVE ResultInv'
  OBVIOUS
<1>1. IInv /\ GreedyInv /\ VoteInv /\ DoneInv
  BY DEF ResultInv
<1>2. IInv'
  BY <1>1, StepInv
<1>3. CASE UNCHANGED vars
  <2>1. UNCHANGED <<inputs, posts, pc, state, votes>>
    BY <1>3 DEF vars, inputs
  <2>2. GreedyInv'
    BY <1>1, <2>1, NothingSent, DecisionsGreedy
  <2>3. VoteInv'
    BY <1>1, <2>1 DEF VoteInv, Undecided
  <2>4. DoneInv'
    BY <1>1, <2>1, InputsFixed, NothingSent DEF DoneInv, Undecided, inputs
  <2> QED
    BY <1>2, <2>2, <2>3, <2>4 DEF ResultInv
<1>4. ASSUME NEW r \in Rank, Step(r) PROVE GreedyInv' /\ VoteInv' /\ DoneInv'
  BY <1>4, IterateResult, VotedResult, StopResult DEF Step
<1> QED
  BY <1>2, <1>3, <1>4 DEF Next, ResultInv

LEMMA ResultInvariance == Spec => []ResultInv
  BY InitResult, StepResult, PTL DEF Spec

-----------------------------------------------------------------------------
(* Theorems *)

\* The arrays of find_indset keep their types: every state, sent or synced,
\* covers the rank's copies.
THEOREM TypeCorrect == Spec => []TypeOK
<1>1. IInv => TypeOK
  BY DEF IInv
<1> QED
  BY <1>1, Invariance, PTL

\* No two entities that share an element are ever both selected, whatever the
\* partition and however far the ranks drift apart between reductions.
THEOREM Independence == Spec => []SelectedAreIndependent
<1>1. IInv => SelectedAreIndependent
  BY DEF IInv
<1> QED
  BY <1>1, Invariance, PTL

\* Every copy of an entity ends with its owner's decision: ranks that have sent
\* the same number of rounds agree on the entities they share, whatever part of
\* the star each of them sees.
THEOREM CopiesEndAlike == Spec => []CopiesAgree
<1>1. ASSUME ResultInv PROVE CopiesAgree
  <2> SUFFICES ASSUME NEW r \in Rank, NEW s \in Rank,
                      pc[r] \in {"reduce", "done"}, pc[s] \in {"reduce", "done"}, N(r) = N(s),
                      NEW e \in Copies(r) \cap Copies(s)
               PROVE  state[r][e] = state[s][e]
    BY DEF CopiesAgree, N
  <2>1. IInv /\ DoneInv
    BY <1>1 DEF ResultInv
  <2>2. ASSUME NEW t \in {r, s}, entDim # ELEM PROVE state[t][e] = Val(e, N(t))
    BY <2>1, <2>2 DEF IInv, StateInv, DoneInv
  <2>3. ASSUME NEW t \in {r, s}, entDim = ELEM
        PROVE  state[t][e] = IF candidates[e] THEN IS_IN ELSE NOT_IN
    BY <2>1, <2>3 DEF IInv, PhaseInv, DoneInv
  <2> QED
    BY <2>2, <2>3
<1> QED
  BY <1>1, ResultInvariance, PTL

\* The result does not depend on the partition: when all ranks are done, an owner
\* has selected a candidate exactly if no neighbor that compares greater is
\* selected, which determines the set.
THEOREM GreedyResult == Spec => []ResultIsGreedy
<1>1. ASSUME ResultInv, entDim # ELEM, \A r \in Rank : pc[r] = "done", NEW v \in Ent
      PROVE  state[Owner[v]][v] = OwnersView(v) /\ OwnersView(v) \in {NOT_IN, IS_IN}
  <2>1. IInv /\ DoneInv
    BY <1>1 DEF ResultInv
  <2>2. Owner[v] \in Rank /\ v \in Copies(Owner[v]) /\ pc[Owner[v]] = "done"
    BY <1>1, <2>1, OwnersHold DEF IInv
  <2>3. state[Owner[v]][v] = Val(v, N(Owner[v])) /\ ~Undecided(state[Owner[v]])
    BY <1>1, <2>1, <2>2 DEF DoneInv
  <2>4. state[Owner[v]] \in [Copies(Owner[v]) -> Status]
    BY <2>1, <2>2 DEF IInv, TypeOK
  <2>5. state[Owner[v]][v] \in Status \ {UNKNOWN}
    BY <2>2, <2>3, <2>4 DEF Undecided
  <2> QED
    BY <2>1, <2>3, <2>5, ViewIsVal DEF IInv, Status
<1>2. ASSUME ResultInv, entDim # ELEM, \A r \in Rank : pc[r] = "done", NEW v \in Ent
      PROVE  OwnersView(v) = IF candidates[v] /\ \A u \in Ent :
                                  Adjacent(u, v) /\ Less(v, u) => OwnersView(u) # IS_IN
                             THEN IS_IN ELSE NOT_IN
  <2>1. GreedyInv /\ TypeOK
    BY <1>2 DEF ResultInv, IInv
  <2>2. CASE OwnersView(v) = IS_IN
    <3>1. candidates[v]
      BY <2>1, <2>2 DEF GreedyInv, NOT_IN, IS_IN
    <3>2. ASSUME NEW u \in Ent, Adjacent(u, v), Less(v, u) PROVE OwnersView(u) # IS_IN
      BY <2>1, <2>2, <3>2, LessAsymmetric DEF GreedyInv, NOT_IN, IS_IN, UNKNOWN
    <3> QED
      BY <2>2, <3>1, <3>2
  <2>3. CASE OwnersView(v) = NOT_IN
    BY <2>1, <2>3 DEF GreedyInv
  <2> QED
    BY <1>1, <1>2, <2>2, <2>3
<1>3. ResultInv => ResultIsGreedy
  BY <1>1, <1>2 DEF ResultIsGreedy
<1> QED
  BY <1>3, ResultInvariance, PTL

\* The owners' decisions are those of the serial greedy algorithm: Iterate is a
\* set of sound decisions of IndSetSpec, every other step leaves them alone.
THEOREM Refinement == Spec => ImplementsGreedy
<1> DEFINE view == [e \in Ent |-> OwnersView(e)]
           adjacency == {p \in Ent \X Ent : Adjacent(p[1], p[2])}
           order == {p \in Ent \X Ent : Less(p[1], p[2])}
<1>0. ASSUME NEW u \in Ent, NEW v \in Ent
      PROVE  /\ <<u, v>> \in adjacency <=> Adjacent(u, v)
             /\ <<u, v>> \in order <=> Less(u, v)
  OBVIOUS
<1>1. Init => Greedy!Init
  <2> SUFFICES ASSUME Init PROVE Greedy!Init
    OBVIOUS
  <2>1. TypeOK
    BY InitInv DEF IInv
  <2>2. \A u, v \in Ent : <<u, v>> \in adjacency => u # v /\ <<v, u>> \in adjacency
    BY <1>0, AdjacentSymmetric DEF Adjacent
  <2>3. \A u, v \in Ent : ~(<<u, v>> \in order /\ <<v, u>> \in order)
    BY <1>0, <2>1, LessAsymmetric
  <2>4. view \in [Ent -> {Greedy!NOT_IN, Greedy!UNKNOWN}]
    BY OwnerAssumption
    DEF Init, OwnersView, NOT_IN, UNKNOWN, Greedy!NOT_IN, Greedy!UNKNOWN
  <2> QED
    BY <2>2, <2>3, <2>4 DEF Greedy!Init
<1>2. IInv /\ [Next]_vars => [Greedy!Decide]_(Greedy!vars)
  <2> SUFFICES ASSUME IInv, [Next]_vars PROVE [Greedy!Decide]_(Greedy!vars)
    OBVIOUS
  <2>1. UNCHANGED inputs => adjacency' = adjacency /\ order' = order
    BY InputsFixed
  <2>2. CASE UNCHANGED <<inputs, posts>>
    <3>1. view' = view
      BY <2>2, NothingSent
    <3> QED
      BY <3>1, <2>1, <2>2 DEF Greedy!vars
  <2>3. ASSUME NEW r \in Rank, Iterate(r) PROVE Greedy!Decide
    <3>1. UNCHANGED inputs
      BY <2>3 DEF Iterate
    <3>2. IInv'
      BY <2>3, IterateInv
    <3>3. \A e \in Ent : OwnersView(e)' \in Status
      <4> TAKE e \in Ent
      <4>1. TypeOK' /\ PostTypeInv'
        BY <3>2 DEF IInv
      <4>2. Owner[e] \in Rank
        BY OwnerAssumption
      <4>3. /\ posts' \in [Rank -> Seq(Array)] /\ candidates' \in [Ent -> BOOLEAN]
            /\ N(Owner[e])' \in Nat
        BY <4>1, <4>2, LenProperties DEF TypeOK, N
      <4>4. e \in Copies(Owner[e])'
        BY <4>1, CopyAssumption DEF TypeOK, Copies
      <4>5. posts'[Owner[e]] # <<>> => N(Owner[e])' \in 1..N(Owner[e])'
        BY <4>2, <4>3, EmptySeq DEF N
      <4>6. posts'[Owner[e]] # <<>> => posts'[Owner[e]][N(Owner[e])'] \in [Copies(Owner[e])' -> Status]
        BY <4>1, <4>2, <4>5 DEF PostTypeInv
      <4> QED
        BY <4>4, <4>6 DEF OwnersView, N, Status, NOT_IN, UNKNOWN
    <3>4. view' \in [Ent -> {Greedy!NOT_IN, Greedy!IS_IN, Greedy!UNKNOWN}]
      BY <3>3 DEF Status, NOT_IN, IS_IN, UNKNOWN, Greedy!NOT_IN, Greedy!IS_IN, Greedy!UNKNOWN
    <3>5. ASSUME NEW v \in Ent
          PROVE  \/ view'[v] = view[v]
                 \/ view'[v] = Greedy!IS_IN /\ Greedy!CanSelect(v)
                 \/ view'[v] = Greedy!NOT_IN /\ Greedy!CanReject(v)
      BY <1>0, <2>3, IterateView
      DEF Greedy!CanSelect, Greedy!CanReject, NOT_IN, IS_IN, UNKNOWN,
          Greedy!NOT_IN, Greedy!IS_IN, Greedy!UNKNOWN
    <3> QED
      BY <2>1, <3>1, <3>4, <3>5 DEF Greedy!Decide
  <2>4. ASSUME NEW r \in Rank, Begin(r) \/ Sync(r) PROVE UNCHANGED <<inputs, posts>>
    BY <2>4 DEF Begin, Sync
  <2>5. CASE UNCHANGED vars
    BY <2>5, <2>2 DEF vars, inputs
  <2> QED
    BY <2>2, <2>3, <2>4, <2>5, StopInv DEF Next, Step
<1> QED
  BY <1>1, <1>2, Invariance, PTL DEF Spec, ImplementsGreedy, Greedy!Spec
=============================================================================
