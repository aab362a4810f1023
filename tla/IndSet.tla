------------------------------- MODULE IndSet -------------------------------
(***************************************************************************)
(* The distributed independent-set search of the mesh adaptation cycle     *)
(* (Omega_h_indset.cpp, Omega_h_indset_inline.hpp): find_indset chooses,   *)
(* among candidate entities, a set no two members of which share an        *)
(* element, so that the cavities around them can be modified at once.      *)
(*                                                                         *)
(* Every rank holds some elements and copies of their entities.  A round   *)
(* decides entities from the states of the previous round on each rank     *)
(* alone (local_iteration), then replaces every copy by its owner's value  *)
(* (Mesh::sync_array); rounds go on while any rank has an undecided entity *)
(* (get_max over the communicator).  The ranks only meet in that reduction *)
(* and in the point-to-point messages of the sync.                         *)
(***************************************************************************)
EXTENDS Integers, Sequences, FiniteSets

CONSTANTS
    Rank,       \* ranks of the mesh's communicator
    Ent,        \* entities of one dimension: their global numbers
    Elem,       \* elements
    Up,         \* Up[d][e]: the elements around entity e of dimension d
    Owner,      \* Owner[e]: the rank that owns entity e
    ElemsOn,    \* ElemsOn[p][r]: the elements rank r holds under parting p
    Qualities   \* the values of the quality array

VERT == "vert"
EDGE == "edge"
ELEM == "elem"
EntDims == {VERT, EDGE, ELEM}

ELEM_BASED == "elem_based"
GHOSTED == "ghosted"
VERT_BASED == "vert_based"
Partings == {ELEM_BASED, GHOSTED, VERT_BASED}

NOT_IN == 0
IS_IN == 1      \* IN in the code, a reserved word of TLA+
UNKNOWN == 2
Status == {NOT_IN, IS_IN, UNKNOWN}

\* Under parting p the owner of every entity of dimension d holds all elements
\* around it.
OwnersHaveAll(p, d) == \A e \in Ent : Up[d][e] \subseteq ElemsOn[p][Owner[e]]

ASSUME EntAssumption == Ent \subseteq Int
ASSUME QualityAssumption == Qualities \subseteq Int
ASSUME UpAssumption == Up \in [EntDims -> [Ent -> SUBSET Elem]]
ASSUME OwnerAssumption == Owner \in [Ent -> Rank]
ASSUME ElemsOnAssumption == ElemsOn \in [Partings -> [Rank -> SUBSET Elem]]
\* The owner of an entity has a copy of it under every parting.
ASSUME CopyAssumption ==
    \A p \in Partings, d \in EntDims, e \in Ent :
        Up[d][e] \cap ElemsOn[p][Owner[e]] # {}
\* What ghosting, partitioning by vertices and having a single rank provide.
ASSUME GhostedAssumption == \A d \in EntDims : OwnersHaveAll(GHOSTED, d)
ASSUME VertBasedAssumption == OwnersHaveAll(VERT_BASED, VERT)
ASSUME SerialAssumption ==
    Cardinality(Rank) = 1 =>
        \A p \in Partings, d \in EntDims : OwnersHaveAll(p, d)

VARIABLES
    entDim,     \* argument ent_dim
    parting,    \* the mesh's parting
    quality,    \* argument quality, the same on every copy
    candidates, \* argument candidates, the same on every copy
    pc,         \* pc[r]: where rank r is
    state,      \* state[r][e]: the state array of rank r
    votes,      \* votes[r][k]: rank r had an undecided entity in reduction k
    posts       \* posts[r][k]: the array rank r sent in sync k

inputs == <<entDim, parting, quality, candidates>>
vars == <<entDim, parting, quality, candidates, pc, state, votes, posts>>

-----------------------------------------------------------------------------
\* The local entities of r, and their star graph: neighbours share an element
\* that r holds (Mesh::ask_star).
Copies(r) == {e \in Ent : Up[entDim][e] \cap ElemsOn[parting][r] # {}}
\* Faulty variant: the part of the star that the rank owns.
OwnedStar(r, v) ==
    {u \in Copies(r) \ {v} :
        Owner[u] = r /\ Up[entDim][u] \cap Up[entDim][v] # {}}

Star(r, v) ==
    {u \in Copies(r) \ {v} :
        Up[entDim][u] \cap Up[entDim][v] \cap ElemsOn[parting][r] # {}}

\* The same graph on the whole mesh.
Adjacent(u, v) == u # v /\ Up[entDim][u] \cap Up[entDim][v] # {}

\* Faulty variant: equal qualities are not told apart.
LessOrEqual(u, v) == quality[u] <= quality[v]

\* QualityCompare: by quality, then by global number.
Less(u, v) ==
    IF quality[u] # quality[v] THEN quality[u] < quality[v] ELSE u < v

have_all_upward == Cardinality(Rank) = 1 \/ parting = GHOSTED
owners_have_all_upward ==
    have_all_upward \/ (parting = VERT_BASED /\ entDim = VERT)

\* Faulty variant: a greater undecided neighbour already rejects v.
hasty_iteration(r, old) ==
    [v \in Copies(r) |->
        IF old[v] # UNKNOWN THEN old[v]
        ELSE IF \E u \in Star(r, v) : old[u] # NOT_IN /\ ~Less(u, v) THEN NOT_IN
        ELSE IS_IN]

\* local_iteration: a selected neighbour rejects v, and a local maximum among
\* the neighbours not rejected is selected.
local_iteration(r, old) ==
    [v \in Copies(r) |->
        IF old[v] # UNKNOWN THEN old[v]
        ELSE IF \E u \in Star(r, v) : old[u] = IS_IN THEN NOT_IN
        ELSE IF \E u \in Star(r, v) : old[u] # NOT_IN /\ ~Less(u, v) THEN UNKNOWN
        ELSE IS_IN]

Undecided(s) == \E e \in DOMAIN s : s[e] = UNKNOWN

\* Faulty variant: an array over all entities.
global_state(r) == [e \in Ent |-> IF candidates[e] THEN UNKNOWN ELSE NOT_IN]

initial_state(r) ==
    [e \in Copies(r) |-> IF candidates[e] THEN UNKNOWN ELSE NOT_IN]

-----------------------------------------------------------------------------
Init ==
    /\ entDim \in EntDims
    /\ parting \in Partings
    /\ quality \in [Ent -> Qualities]
    /\ candidates \in [Ent -> BOOLEAN]
    /\ pc = [r \in Rank |-> "start"]
    /\ state = [r \in Rank |-> [e \in {} |-> NOT_IN]]
    /\ votes = [r \in Rank |-> <<>>]
    /\ posts = [r \in Rank |-> <<>>]

\* Elements are independent by themselves: the candidates are returned.
ReturnCandidates(r) ==
    /\ pc[r] = "start"
    /\ entDim = ELEM
    /\ pc' = [pc EXCEPT ![r] = "done"]
    /\ state' = [state EXCEPT ![r] =
                    [e \in Copies(r) |-> IF candidates[e] THEN IS_IN ELSE NOT_IN]]
    /\ UNCHANGED <<inputs, votes, posts>>

\* OMEGA_H_CHECK(owners_have_all_upward) fails and the program stops.
CheckFails(r) ==
    /\ pc[r] = "start"
    /\ entDim # ELEM
    /\ ~owners_have_all_upward
    /\ pc' = [pc EXCEPT ![r] = "failed"]
    /\ UNCHANGED <<inputs, state, votes, posts>>

\* find builds the initial state and enters the first reduction.
Begin(r) ==
    /\ pc[r] = "start"
    /\ entDim # ELEM
    /\ owners_have_all_upward
    /\ pc' = [pc EXCEPT ![r] = "reduce"]
    /\ state' = [state EXCEPT ![r] = initial_state(r)]
    /\ votes' = [votes EXCEPT ![r] = Append(@, Undecided(initial_state(r)))]
    /\ UNCHANGED <<inputs, posts>>

\* Faulty variant: waits for one reduction more.
ReducedLate(k) == \A s \in Rank : Len(votes[s]) > k

\* The k-th reduction is complete once every rank has entered it.
Reduced(k) == \A s \in Rank : Len(votes[s]) >= k
AnyUndecided(k) == \E s \in Rank : votes[s][k]

\* The loop goes on: decide what can be decided here and send it.
Iterate(r) ==
    LET k == Len(votes[r]) IN
    /\ pc[r] = "reduce"
    /\ Reduced(k)
    /\ AnyUndecided(k)
    /\ posts' = [posts EXCEPT ![r] = Append(@, local_iteration(r, state[r]))]
    /\ pc' = [pc EXCEPT ![r] = "sync"]
    /\ UNCHANGED <<inputs, state, votes>>

\* Faulty variant: every copy keeps what its own rank decided.
Unsynced(r) == [e \in Copies(r) |-> posts[r][Len(posts[r])][e]]

\* The k-th messages of all owners have arrived: every copy, the owner's own
\* included, takes the owner's value, and the next reduction is entered.
Synced(r) ==
    [e \in Copies(r) |-> posts[Owner[e]][Len(posts[r])][e]]
Sync(r) ==
    /\ pc[r] = "sync"
    /\ \A e \in Copies(r) : Len(posts[Owner[e]]) >= Len(posts[r])
    /\ pc' = [pc EXCEPT ![r] = "reduce"]
    /\ state' = [state EXCEPT ![r] = Synced(r)]
    /\ votes' = [votes EXCEPT ![r] = Append(@, Undecided(Synced(r)))]
    /\ UNCHANGED <<inputs, posts>>

Return(r) ==
    LET k == Len(votes[r]) IN
    /\ pc[r] = "reduce"
    /\ Reduced(k)
    /\ ~AnyUndecided(k)
    /\ pc' = [pc EXCEPT ![r] = "done"]
    /\ UNCHANGED <<inputs, state, votes, posts>>

Step(r) ==
    \/ ReturnCandidates(r)
    \/ CheckFails(r)
    \/ Begin(r)
    \/ Iterate(r)
    \/ Sync(r)
    \/ Return(r)

Next == \E r \in Rank : Step(r)

Spec == Init /\ [][Next]_vars

\* Every rank keeps running; the messages it waits for arrive.
Fairness == \A r \in Rank : WF_vars(Step(r))
FairSpec == Spec /\ Fairness

-----------------------------------------------------------------------------
(* Properties *)

Array == UNION {[S -> Status] : S \in SUBSET Ent}

TypeOK ==
    /\ entDim \in EntDims
    /\ parting \in Partings
    /\ quality \in [Ent -> Qualities]
    /\ candidates \in [Ent -> BOOLEAN]
    /\ pc \in [Rank -> {"start", "reduce", "sync", "done", "failed"}]
    /\ state \in [Rank -> Array]
    /\ \A r \in Rank :
        pc[r] \notin {"start", "failed"} => state[r] \in [Copies(r) -> Status]
    /\ votes \in [Rank -> Seq(BOOLEAN)]
    /\ posts \in [Rank -> Seq(Array)]

\* What the owner of e last decided of it, sent or not.
OwnersView(e) ==
    LET own == posts[Owner[e]] IN
    IF own # <<>> THEN own[Len(own)][e]
    ELSE IF candidates[e] THEN UNKNOWN ELSE NOT_IN

\* At no time have two entities that share an element both been selected by
\* their owners, although each rank decides from the previous round's states
\* while another rank is already a round further.
SelectedAreIndependent ==
    entDim # ELEM =>
        \A u, v \in Ent :
            Adjacent(u, v) => ~(OwnersView(u) = IS_IN /\ OwnersView(v) = IS_IN)

\* The result does not depend on the partition: it is the set the serial greedy
\* algorithm would choose, in which a candidate is selected exactly if no
\* neighbour that compares greater is selected.
ResultIsGreedy ==
    (entDim # ELEM /\ \A r \in Rank : pc[r] = "done") =>
        \A v \in Ent :
            state[Owner[v]][v] =
                IF candidates[v] /\ \A u \in Ent :
                    Adjacent(u, v) /\ Less(v, u) => state[Owner[u]][u] # IS_IN
                THEN IS_IN ELSE NOT_IN

\* Every copy of an entity ends with its owner's decision, also where the
\* copy's rank sees only a part of the entity's star.
CopiesAgree ==
    \A r, s \in Rank :
        (pc[r] \in {"reduce", "done"} /\ pc[s] \in {"reduce", "done"}
            /\ Len(posts[r]) = Len(posts[s])) =>
                \A e \in Copies(r) \cap Copies(s) : state[r][e] = state[s][e]

\* The owners' decisions follow IndSetSpec step by step.
Greedy == INSTANCE IndSetSpec WITH
    adj <- {p \in Ent \X Ent : Adjacent(p[1], p[2])},
    less <- {p \in Ent \X Ent : Less(p[1], p[2])},
    status <- [e \in Ent |-> OwnersView(e)]
ImplementsGreedy == Greedy!Spec

\* The search ends on every rank, and no rank is left waiting in a reduction or
\* a sync that another rank has left the loop without entering: in every round
\* the greatest undecided entity is decided.
EventuallyStopped == <>(\A r \in Rank : pc[r] \in {"done", "failed"})
=============================================================================
