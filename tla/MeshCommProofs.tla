--------------------------- MODULE MeshCommProofs ---------------------------
(***************************************************************************)
(* Proofs about MeshComm, for any number of ranks, any communicators and   *)
(* any operations, and for any matches of any entities.                    *)
(***************************************************************************)
EXTENDS MeshComm, SequenceTheorems, TLAPS

RankList(c) == c \in Seq(Ranks) /\ \A i, j \in DOMAIN c : c[i] = c[j] => i = j

-----------------------------------------------------------------------------
(* Numbers of ranks in communicators *)

LEMMA SetOfList ==
  ASSUME NEW S, NEW c \in Seq(S)
  PROVE  /\ Len(c) \in Nat /\ DOMAIN c = 1..Len(c)
         /\ \A x : x \in ToSet(c) <=> \E i \in 1..Len(c) : c[i] = x
         /\ ToSet(c) \subseteq S
  <1>1. Len(c) \in Nat /\ DOMAIN c = 1..Len(c) /\ \A i \in 1..Len(c) : c[i] \in S
    BY LenProperties, ElementOfSeq
  <1> QED BY <1>1 DEF ToSet

\* A rank has a number in a communicator that it is in, and is found under it.
LEMMA IndexInFacts ==
  ASSUME NEW S, NEW c \in Seq(S), NEW r \in ToSet(c)
  PROVE  IndexIn(c, r) \in 0..Len(c) - 1 /\ c[IndexIn(c, r) + 1] = r
  <1>1. PICK i \in 1..Len(c) : c[i] = r
    BY SetOfList
  <1> DEFINE k == CHOOSE j \in 1..Len(c) : c[j] = r
  <1>2. k \in 1..Len(c) /\ c[k] = r
    BY <1>1
  <1>3. IndexIn(c, r) = k - 1 /\ Len(c) \in Nat
    BY SetOfList DEF IndexIn
  <1> QED BY <1>2, <1>3

\* o are the numbers in c of the ranks w.
Denotes(c, o, w) ==
  /\ o \in Seq(Nat) /\ Len(o) = Len(w)
  /\ \A i \in 1..Len(w) : o[i] \in 0..Len(c) - 1 /\ c[o[i] + 1] = w[i]

\* Dist::change_comm: the same ranks have other numbers.
LEMMA NumbersChange ==
  ASSUME NEW d, NEW w \in Seq(Ranks), Denotes(d[1], d[2], w),
         NEW new \in Seq(Ranks), \A i \in 1..Len(w) : w[i] \in ToSet(new)
  PROVE  Denotes(new, Dist_change_comm(d, new)[2], w)
  <1> DEFINE o == [i \in 1..Len(d[2]) |-> IndexIn(new, d[1][d[2][i] + 1])]
  <1>1. Dist_change_comm(d, new)[2] = o
    BY DEF Dist_change_comm
  <1>2. Len(d[2]) = Len(w) /\ Len(w) \in Nat
    BY SetOfList DEF Denotes
  <1>3. ASSUME NEW i \in 1..Len(w)
        PROVE  o[i] \in 0..Len(new) - 1 /\ new[o[i] + 1] = w[i]
    <2>1. o[i] = IndexIn(new, w[i])
      BY <1>2 DEF Denotes
    <2> QED BY <2>1, IndexInFacts
  <1>4. Len(new) \in Nat
    BY SetOfList
  <1>5. ASSUME NEW i \in 1..Len(w) PROVE o[i] \in Nat
    <2> HIDE DEF o
    <2> QED BY <1>3, <1>4
  <1>6. o \in Seq(Nat) /\ Len(o) = Len(w)
    <2> HIDE DEF o
    <2>1. o = [i \in 1..Len(w) |-> o[i]]
      BY <1>2 DEF o
    <2> QED BY <1>2, <1>5, <2>1, IsASeq, LenProperties
  <1> QED BY <1>1, <1>3, <1>6 DEF Denotes

-----------------------------------------------------------------------------
(* The invariant *)

TagLists == {<<>>} \cup {p.tags : p \in Parts}
FullLists == {<<>>} \cup {p.sets : p \in Parts}
SetLists == FullLists \cup {sent_sets(x) : x \in FullLists}
MeshType ==
  [comm : Seq(Ranks), parting : Partings \cup {Unset}, layers : Int, tags : TagLists, sets : SetLists,
   hints : BOOLEAN, owners : Seq(Nat), dist : {<<>>} \cup (Seq(Ranks) \X Seq(Nat))]

\* A mesh is there or not, and the numbers it has of ranks stand for the owners w;
\* those of a cached Dist do in the communicator of that Dist, which may be an old
\* one.
Holds(m, w) ==
  /\ m \in MeshType /\ w \in Seq(Ranks)
  /\ m.parting = Unset => w = <<>> /\ m.dist = <<>> /\ m.hints = FALSE
  /\ m.parting # Unset /\ m.parting # GHOSTED => m.layers = default_layers(m.parting)
  /\ Denotes(m.comm, m.owners, w)
  /\ m.dist # <<>> => Denotes(m.dist[1], m.dist[2], w)

OnRank(m, r) ==
  /\ m.comm # <<>> => RankList(m.comm) /\ r \in ToSet(m.comm)
  /\ m.comm = <<>> => m = NewMesh

\* What two ranks have in common, if u is in what they may differ.
Alike(m, n, u) ==
  /\ m.comm = n.comm /\ m.parting = n.parting /\ m.tags = n.tags /\ m.hints = n.hints
  /\ sent_sets(m.sets) = sent_sets(n.sets)
  /\ "sets" \in u \/ m.sets = n.sets
  /\ "layers" \in u \/ m.layers = n.layers

\* Their Dists, if v and w own their entities.
DistsAlike(m, n, v, w) ==
  /\ m.dist = <<>> <=> n.dist = <<>>
  /\ m.dist # <<>> /\ v # <<>> /\ w # <<>> => m.dist[1] = n.dist[1]

\* Their calls c and d.
CallsAlike(m, n, c, d, u) ==
  c = d \/ ("layers" \in u /\ m.parting = GHOSTED /\ m.layers # n.layers)

NumbersKept(m, u) == m.dist # <<>> => m.dist[2] = m.owners \/ "numbers" \in u

CommInv ==
  /\ failed \in BOOLEAN /\ ops \in 0..MaxOps /\ unlike \subseteq {"layers", "sets", "numbers"}
  /\ mesh \in [Ranks -> MeshType] /\ owner \in [Ranks -> Seq(Ranks)]
  /\ \A r \in Ranks : Holds(mesh[r], owner[r]) /\ OnRank(mesh[r], r) /\ NumbersKept(mesh[r], unlike)
  /\ \A q, r \in Ranks : HasComm(q) /\ HasComm(r) =>
       /\ Alike(mesh[q], mesh[r], unlike)
       /\ DistsAlike(mesh[q], mesh[r], owner[q], owner[r])
       /\ CallsAlike(mesh[q], mesh[r], calls[q], calls[r], unlike)

\* Sets without pairs are not sent, those that were sent are.
LEMMA SentTwice == ASSUME NEW x PROVE sent_sets(sent_sets(x)) = sent_sets(x)
  <1> DEFINE K == {k \in DOMAIN x : x[k] # <<>>}
             y == [n \in K |-> x[n]]
             L == {k \in DOMAIN y : y[k] # <<>>}
  <1>1. sent_sets(x) = y /\ DOMAIN y = K /\ \A n \in K : y[n] = x[n]
    BY DEF sent_sets
  <1>2. sent_sets(y) = [n \in L |-> y[n]]
    BY DEF sent_sets
  <1>3. L = K
    BY <1>1
  <1>4. [n \in L |-> y[n]] = [n \in K |-> x[n]]
    BY <1>1, <1>3
  <1> QED BY <1>1, <1>2, <1>4

LEMMA SentListed == ASSUME NEW x \in SetLists PROVE sent_sets(x) \in SetLists
  BY SentTwice DEF SetLists

LEMMA EmptyDenotes ==
  ASSUME NEW c PROVE Denotes(c, <<>>, <<>>)
  BY DEF Denotes

LEMMA NewMeshHolds == NewMesh \in MeshType /\ Holds(NewMesh, <<>>)
  <1>1. NewMesh \in MeshType
    BY DEF NewMesh, MeshType, TagLists, SetLists, FullLists, Unset
  <1> QED BY <1>1, EmptyDenotes DEF Holds, NewMesh, Unset

LEMMA InitInv == CallersFit /\ CommInit => CommInv
  <1> SUFFICES ASSUME CallersFit, CommInit PROVE CommInv
    OBVIOUS
  <1>1. ops \in 0..MaxOps /\ failed \in BOOLEAN /\ unlike = {}
    <2>1. MaxOps \in Nat
      BY DEF CallersFit
    <2>2. ops = 0 /\ failed = FALSE /\ unlike = {}
      BY DEF CommInit
    <2>3. 0 \in 0..MaxOps
      BY <2>1
    <2> QED BY <2>2, <2>3
  <1>2. mesh \in [Ranks -> MeshType] /\ owner \in [Ranks -> Seq(Ranks)]
    BY NewMeshHolds DEF CommInit
  <1>3. \A r \in Ranks : mesh[r] = NewMesh /\ owner[r] = <<>>
    BY DEF CommInit
  <1>4. NewMesh.comm = <<>> /\ NewMesh.dist = <<>>
    BY DEF NewMesh
  <1>5. \A r \in Ranks : ~HasComm(r) /\ OnRank(mesh[r], r) /\ NumbersKept(mesh[r], unlike)
    BY <1>3, <1>4 DEF HasComm, OnRank, NumbersKept
  <1> QED BY <1>1, <1>2, <1>3, <1>5, NewMeshHolds DEF CommInv

-----------------------------------------------------------------------------
(* set_comm *)

LEMMA HoldsFields ==
  ASSUME NEW m, NEW w, Holds(m, w)
  PROVE  /\ m.comm \in Seq(Ranks) /\ m.parting \in Partings \cup {Unset} /\ m.hints \in BOOLEAN
         /\ m.owners \in Seq(Nat) /\ m.dist \in {<<>>} \cup (Seq(Ranks) \X Seq(Nat))
         /\ w \in Seq(Ranks) /\ Len(w) \in Nat
  BY SetOfList DEF Holds, MeshType

\* ask_dist: the Dist a mesh has or gets stands for the owners.
LEMMA AskDistFacts ==
  ASSUME NEW m, NEW w, Holds(m, w), m.parting # Unset
  PROVE  /\ ask_dist(m) \in Seq(Ranks) \X Seq(Nat)
         /\ ask_dist(m) # <<>>
         /\ Denotes(ask_dist(m)[1], ask_dist(m)[2], w)
  <1>1. CASE m.dist = <<>>
    BY <1>1, HoldsFields DEF ask_dist, Holds
  <1>2. CASE m.dist # <<>>
    BY <1>2, HoldsFields DEF ask_dist, Holds
  <1> QED BY <1>1, <1>2

\* A rank that has part of the mesh gets another communicator.
LEMMA Recommed ==
  ASSUME NEW m, NEW w, Holds(m, w), m.parting # Unset,
         NEW new \in Seq(Ranks), \A i \in 1..Len(w) : w[i] \in ToSet(new)
  PROVE  Holds([m EXCEPT !.comm = new, !.dist = ask_dist(m),
                         !.owners = Dist_change_comm(ask_dist(m), new)[2]], w)
  <1> DEFINE d == ask_dist(m)
             n == [m EXCEPT !.comm = new, !.dist = d, !.owners = Dist_change_comm(d, new)[2]]
  <1>1. d \in Seq(Ranks) \X Seq(Nat) /\ d # <<>> /\ Denotes(d[1], d[2], w)
    BY AskDistFacts
  <1>2. Denotes(new, Dist_change_comm(d, new)[2], w)
    BY <1>1, NumbersChange, HoldsFields
  <1>3. Dist_change_comm(d, new)[2] \in Seq(Nat)
    BY <1>2 DEF Denotes
  <1> HIDE DEF d
  <1>4. m \in MeshType
    BY DEF Holds
  <1>5. /\ n \in MeshType /\ n.comm = new /\ n.dist = d /\ n.owners = Dist_change_comm(d, new)[2]
        /\ n.parting = m.parting /\ n.layers = m.layers /\ n.sets = m.sets
    BY <1>1, <1>3, <1>4 DEF MeshType
  <1> HIDE DEF n
  <1>6. Holds(n, w)
    BY <1>1, <1>2, <1>5, HoldsFields DEF Holds
  <1> QED BY <1>6 DEF n, d

\* A rank without a mesh gets one, or the only rank another.
LEMMA OnlyComm ==
  ASSUME NEW m, NEW w, Holds(m, w), NEW new \in Seq(Ranks), Denotes(new, m.owners, w)
  PROVE  Holds([m EXCEPT !.comm = new], w)
  <1> DEFINE n == [m EXCEPT !.comm = new]
  <1>1. m \in MeshType
    BY DEF Holds
  <1>2. /\ n \in MeshType /\ n.comm = new /\ n.dist = m.dist /\ n.owners = m.owners
        /\ n.parting = m.parting /\ n.layers = m.layers /\ n.sets = m.sets /\ n.hints = m.hints
    BY <1>1 DEF MeshType
  <1> HIDE DEF n
  <1>3. Holds(n, w)
    BY <1>2 DEF Holds
  <1> QED BY <1>3 DEF n

LEMMA WithoutOwners ==
  ASSUME NEW m, Holds(m, <<>>), NEW c PROVE m.owners = <<>> /\ Denotes(c, m.owners, <<>>)
  <1>1. m.owners \in Seq(Nat) /\ Len(m.owners) = 0
    BY EmptySeq DEF Holds, Denotes
  <1>2. m.owners = <<>>
    BY <1>1, EmptySeq
  <1> QED BY <1>2, EmptyDenotes

\* In a world of one rank all communicators are the same.
LEMMA OneRank ==
  ASSUME NRanks = 1, NEW c, RankList(c), c # <<>>
  PROVE  Len(c) = 1 /\ c[1] = 0
  <1>1. Len(c) \in Nat \ {0} /\ DOMAIN c = 1..Len(c) /\ \A i \in 1..Len(c) : c[i] \in Ranks
    BY EmptySeq, LenProperties, ElementOfSeq DEF RankList
  <1>2. \A i \in 1..Len(c) : c[i] = 0
    <2>1. Ranks = 0..0
      BY DEF Ranks
    <2>2. \A x \in 0..0 : x = 0
      OBVIOUS
    <2> QED BY <1>1, <2>1, <2>2
  <1>3. 1 \in DOMAIN c /\ Len(c) \in DOMAIN c
    BY <1>1
  <1>4. 1 = Len(c)
    BY <1>1, <1>2, <1>3 DEF RankList
  <1> QED BY <1>2, <1>3, <1>1, <1>4

LEMMA OneRankDenotes ==
  ASSUME NRanks = 1, NEW c, RankList(c), c # <<>>, NEW new, RankList(new), new # <<>>,
         NEW o, NEW w \in Seq(Ranks), Denotes(c, o, w)
  PROVE  Denotes(new, o, w)
  <1>1. Len(c) = 1 /\ c[1] = 0 /\ Len(new) = 1 /\ new[1] = 0
    BY OneRank
  <1> QED BY <1>1 DEF Denotes

\* What a rank has before it gets the new communicator.
carried(r, had, new) ==
  IF r \in had THEN forget_hints(mesh[r], Growing(had, new))
  ELSE IF Growing(had, new) THEN bcast_mesh([mesh[r] EXCEPT !.comm = <<r>>], mesh[new[1]]) ELSE mesh[r]

SetCommOK(had, new) ==
  /\ CallersFit /\ CommInv /\ new \in Comms
  /\ had = {r \in ToSet(new) : HasComm(r)}
  /\ \A r \in Ranks : HasComm(r) => ToSet(mesh[r].comm) \subseteq ToSet(new)
  /\ Growing(had, new) => new[1] \in had /\ mesh[new[1]].parting # Unset

LEMMA NewComm ==
  ASSUME NEW had, NEW new, SetCommOK(had, new)
  PROVE  /\ new \in Seq(Ranks) /\ new # <<>> /\ RankList(new)
         /\ ToSet(new) \subseteq Ranks /\ had \subseteq ToSet(new)
         /\ new[1] \in ToSet(new)
  <1>1. new \in Seq(Ranks) /\ new # <<>> /\ RankList(new)
    BY DEF SetCommOK, CallersFit, RankList
  <1>2. Len(new) \in Nat \ {0}
    BY <1>1, EmptySeq
  <1>3. had \subseteq ToSet(new)
    BY DEF SetCommOK
  <1> QED BY <1>1, <1>2, <1>3, SetOfList

\* set_comm forgets the hints of a rank: the mesh holds as before.
LEMMA ForgotHolds ==
  ASSUME NEW m, NEW w, Holds(m, w), NEW grows \in BOOLEAN
  PROVE  LET n == forget_hints(m, grows)
         IN  /\ Holds(n, w) /\ n.comm = m.comm /\ n.parting = m.parting /\ n.layers = m.layers
             /\ n.tags = m.tags /\ n.sets = m.sets /\ n.owners = m.owners /\ n.dist = m.dist
             /\ n.hints = IF grows THEN FALSE ELSE m.hints
  <1> DEFINE n == [m EXCEPT !.hints = FALSE]
  <1>1. m \in MeshType
    BY DEF Holds
  <1>2. /\ n \in MeshType /\ n.comm = m.comm /\ n.dist = m.dist /\ n.owners = m.owners
        /\ n.parting = m.parting /\ n.layers = m.layers /\ n.sets = m.sets /\ n.tags = m.tags
        /\ n.hints = FALSE
    BY <1>1 DEF MeshType
  <1> HIDE DEF n
  <1>3. Holds(n, w)
    BY <1>2 DEF Holds
  <1>4. CASE grows
    BY <1>2, <1>3, <1>4 DEF forget_hints, n
  <1>5. CASE ~grows
    BY <1>5 DEF forget_hints
  <1> QED BY <1>4, <1>5

\* bcast_mesh gives a rank without a mesh what the root has, except hints, layers and
\* sets without pairs.
LEMMA SentHolds ==
  ASSUME NEW root, NEW w, Holds(root, w), root.parting # Unset, NEW r \in Ranks
  PROVE  LET n == bcast_mesh([NewMesh EXCEPT !.comm = <<r>>], root)
         IN  /\ Holds(n, <<>>) /\ n.parting = root.parting /\ n.layers = default_layers(root.parting)
             /\ n.tags = root.tags /\ n.sets = sent_sets(root.sets) /\ n.hints = FALSE
             /\ n.owners = <<>> /\ n.dist = <<>> /\ n.comm = <<r>>
  <1> DEFINE n == bcast_mesh([NewMesh EXCEPT !.comm = <<r>>], root)
             layers == default_layers(root.parting)
             sets == sent_sets(root.sets)
  <1>1. root \in MeshType /\ root.parting \in Partings
    BY DEF Holds, MeshType
  <1>2. layers \in Int /\ root.tags \in TagLists /\ root.sets \in SetLists
    BY <1>1 DEF MeshType, default_layers
  <1>3. sets \in SetLists
    BY <1>2, SentListed
  <1>4. <<r>> \in Seq(Ranks)
    OBVIOUS
  <1> DEFINE k == [NewMesh EXCEPT !.comm = <<r>>]
  <1>5. /\ k \in MeshType
        /\ k.hints = NewMesh.hints /\ k.owners = NewMesh.owners /\ k.dist = NewMesh.dist /\ k.comm = <<r>>
    BY <1>4, NewMeshHolds DEF MeshType
  <1>6. NewMesh.hints = FALSE /\ NewMesh.owners = <<>> /\ NewMesh.dist = <<>>
    BY DEF NewMesh
  <1> HIDE DEF k
  <1>7. n = [k EXCEPT !.parting = root.parting, !.layers = layers, !.tags = root.tags, !.sets = sets]
    BY DEF bcast_mesh, k
  <1>8. layers = default_layers(root.parting) /\ sets = sent_sets(root.sets)
    OBVIOUS
  <1> HIDE DEF n, layers, sets
  <1>9. /\ n \in MeshType /\ n.parting = root.parting /\ n.layers = layers /\ n.tags = root.tags
        /\ n.sets = sets /\ n.hints = k.hints /\ n.owners = k.owners /\ n.dist = k.dist
        /\ n.comm = k.comm
    BY <1>1, <1>2, <1>3, <1>5, <1>7 DEF MeshType
  <1>10. <<>> \in Seq(Ranks) /\ Unset \notin Partings
    BY EmptySeq DEF Unset, Partings, ELEM_BASED, GHOSTED, VERT_BASED
  <1>11. Holds(n, <<>>)
    BY <1>1, <1>5, <1>6, <1>8, <1>9, <1>10, EmptyDenotes DEF Holds
  <1> QED BY <1>5, <1>6, <1>8, <1>9, <1>11 DEF n

\* Ranks with and without a communicator before set_comm.
LEMMA BeforeSetComm ==
  ASSUME NEW had, NEW new, SetCommOK(had, new), NEW r \in ToSet(new)
  PROVE  /\ r \in Ranks /\ Holds(mesh[r], owner[r]) /\ OnRank(mesh[r], r)
         /\ r \in had <=> HasComm(r)
         /\ r \notin had => mesh[r] = NewMesh /\ owner[r] = <<>>
         /\ \A i \in 1..Len(owner[r]) : owner[r][i] \in ToSet(new)
  <1>1. r \in Ranks /\ (r \in had <=> HasComm(r))
    BY NewComm DEF SetCommOK
  <1>2. Holds(mesh[r], owner[r]) /\ OnRank(mesh[r], r)
    BY <1>1 DEF SetCommOK, CommInv
  <1>3. r \notin had => mesh[r] = NewMesh
    BY <1>1, <1>2 DEF OnRank, HasComm
  <1>4. r \notin had => owner[r] = <<>>
    BY <1>2, <1>3 DEF Holds, NewMesh
  <1>5. ASSUME NEW i \in 1..Len(owner[r]) PROVE owner[r][i] \in ToSet(new)
    <2>1. r \in had
      BY <1>4, EmptySeq
    <2>2. ToSet(mesh[r].comm) \subseteq ToSet(new)
      BY <1>1, <2>1 DEF SetCommOK
    <2>3. /\ mesh[r].comm \in Seq(Ranks) /\ mesh[r].owners \in Seq(Nat)
          /\ mesh[r].owners[i] \in 0..Len(mesh[r].comm) - 1
          /\ mesh[r].comm[mesh[r].owners[i] + 1] = owner[r][i]
      BY <1>2, HoldsFields DEF Holds, Denotes
    <2>4. Len(mesh[r].comm) \in Nat /\ mesh[r].owners[i] + 1 \in 1..Len(mesh[r].comm)
      <3>1. Len(mesh[r].comm) \in Nat
        BY <2>3, SetOfList
      <3>2. \A n \in Nat : \A k \in 0..n - 1 : k + 1 \in 1..n
        OBVIOUS
      <3> QED BY <2>3, <3>1, <3>2
    <2>5. owner[r][i] \in ToSet(mesh[r].comm)
      <3>1. \E k \in 1..Len(mesh[r].comm) : mesh[r].comm[k] = owner[r][i]
        BY <2>3, <2>4
      <3>2. \A x : x \in ToSet(mesh[r].comm) <=> \E k \in 1..Len(mesh[r].comm) : mesh[r].comm[k] = x
        BY <2>3, SetOfList
      <3> QED BY <3>1, <3>2
    <2> QED BY <2>2, <2>5
  <1> QED BY <1>1, <1>2, <1>3, <1>4, <1>5

\* The root of a communicator that grows has the mesh.
LEMMA RootHolds ==
  ASSUME NEW had, NEW new, SetCommOK(had, new), Growing(had, new)
  PROVE  /\ new[1] \in had /\ new[1] \in Ranks /\ HasComm(new[1])
         /\ Holds(mesh[new[1]], owner[new[1]]) /\ mesh[new[1]].parting # Unset
  <1>1. new[1] \in had /\ mesh[new[1]].parting # Unset /\ new[1] \in ToSet(new)
    BY NewComm DEF SetCommOK
  <1> QED BY <1>1, BeforeSetComm

\* What a rank has before it gets the new communicator is of one kind on all ranks.
LEMMA CarriedHolds ==
  ASSUME NEW had, NEW new, SetCommOK(had, new), NEW r \in ToSet(new)
  PROVE  /\ Holds(carried(r, had, new), owner[r])
         /\ r \in had => /\ carried(r, had, new).owners = mesh[r].owners
                       /\ carried(r, had, new).comm = mesh[r].comm
                       /\ carried(r, had, new).dist = mesh[r].dist
                       /\ carried(r, had, new).parting = mesh[r].parting
         /\ r \notin had => owner[r] = <<>>
  <1>1. CASE r \in had
    <2>1. Growing(had, new) \in BOOLEAN
      BY DEF Growing
    <2>2. carried(r, had, new) = forget_hints(mesh[r], Growing(had, new))
      BY <1>1 DEF carried
    <2>3. Holds(mesh[r], owner[r])
      BY BeforeSetComm
    <2>4. /\ Holds(forget_hints(mesh[r], Growing(had, new)), owner[r])
          /\ forget_hints(mesh[r], Growing(had, new)).owners = mesh[r].owners
          /\ forget_hints(mesh[r], Growing(had, new)).comm = mesh[r].comm
          /\ forget_hints(mesh[r], Growing(had, new)).dist = mesh[r].dist
          /\ forget_hints(mesh[r], Growing(had, new)).parting = mesh[r].parting
      <3> DEFINE grows == Growing(had, new)
      <3>1. grows \in BOOLEAN
        BY <2>1
      <3> HIDE DEF grows
      <3>2. Holds(forget_hints(mesh[r], grows), owner[r])
        BY <3>1, <2>3, ForgotHolds
      <3>3. /\ forget_hints(mesh[r], grows).owners = mesh[r].owners
            /\ forget_hints(mesh[r], grows).comm = mesh[r].comm
            /\ forget_hints(mesh[r], grows).dist = mesh[r].dist
            /\ forget_hints(mesh[r], grows).parting = mesh[r].parting
        BY <3>1, <2>3, ForgotHolds
      <3> QED BY <3>2, <3>3 DEF grows
    <2> QED BY <1>1, <2>2, <2>4
  <1>2. CASE r \notin had /\ Growing(had, new)
    <2>2. carried(r, had, new) = bcast_mesh([NewMesh EXCEPT !.comm = <<r>>], mesh[new[1]])
      BY <1>2, BeforeSetComm DEF carried
    <2>3. r \in Ranks /\ owner[r] = <<>>
      BY <1>2, BeforeSetComm
    <2>4. Holds(mesh[new[1]], owner[new[1]]) /\ mesh[new[1]].parting # Unset
      BY <1>2, RootHolds
    <2>5. Holds(carried(r, had, new), <<>>)
      BY <2>2, <2>3, <2>4, SentHolds
    <2> QED BY <1>2, <2>3, <2>5
  <1>3. CASE r \notin had /\ ~Growing(had, new)
    BY <1>3, BeforeSetComm DEF carried
  <1> QED BY <1>1, <1>2, <1>3

LEMMA SetCommRank ==
  ASSUME NEW had, NEW new, SetCommOK(had, new), NEW r \in ToSet(new)
  PROVE  /\ Holds(set_comm(r, had, new), owner[r]) /\ OnRank(set_comm(r, had, new), r)
         /\ set_comm(r, had, new).comm = new
  <1> DEFINE m == carried(r, had, new)
             n == [m EXCEPT !.comm = new]
             k == [m EXCEPT !.comm = new, !.dist = ask_dist(m), !.owners = Dist_change_comm(ask_dist(m), new)[2]]
  <1>1. set_comm(r, had, new) = IF had # {} /\ NRanks > 1 /\ m.parting # Unset THEN k ELSE n
    BY DEF set_comm, carried
  <1>2. Holds(m, owner[r]) /\ m \in MeshType
    <2>1. Holds(carried(r, had, new), owner[r])
      BY CarriedHolds
    <2> QED BY <2>1 DEF Holds
  <1>3. k.comm = new /\ n.comm = new
    BY <1>2 DEF MeshType
  <1>4. new \in Seq(Ranks) /\ new # <<>> /\ RankList(new) /\ r \in Ranks
    BY NewComm, BeforeSetComm
  <1> HIDE DEF m
  <1>5. CASE had # {} /\ NRanks > 1 /\ m.parting # Unset
    <2>1. \A i \in 1..Len(owner[r]) : owner[r][i] \in ToSet(new)
      BY BeforeSetComm
    <2>2. Holds(k, owner[r])
      BY <1>2, <1>4, <1>5, <2>1, Recommed
    <2> QED BY <1>1, <1>3, <1>4, <1>5, <2>2 DEF OnRank
  <1>6. CASE ~(had # {} /\ NRanks > 1 /\ m.parting # Unset)
    <2>1. Denotes(new, m.owners, owner[r])
      <3>1. CASE m.parting = Unset \/ r \notin had
        <4>1. owner[r] = <<>>
          BY <1>2, <3>1, CarriedHolds DEF Holds
        <4> QED BY <1>2, <4>1, WithoutOwners
      <3>2. CASE m.parting # Unset /\ r \in had
        <4>1. NRanks = 1
          <5>1. NRanks \in Nat /\ ~(NRanks > 1)
            BY <1>6, <3>2 DEF SetCommOK, CallersFit
          <5>2. NRanks # 0
            BY <1>4, <5>1 DEF Ranks
          <5> QED BY <5>1, <5>2
        <4>2. RankList(mesh[r].comm) /\ mesh[r].comm # <<>> /\ Holds(mesh[r], owner[r])
          BY <3>2, BeforeSetComm DEF HasComm, OnRank
        <4>3. m.owners = mesh[r].owners
          BY <3>2, CarriedHolds DEF m
        <4> QED BY <1>4, <4>1, <4>2, <4>3, OneRankDenotes DEF Holds
      <3> QED BY <3>1, <3>2
    <2>2. Holds(n, owner[r])
      BY <1>2, <1>4, <2>1, OnlyComm
    <2> QED BY <1>1, <1>3, <1>4, <1>6, <2>2 DEF OnRank
  <1> QED BY <1>5, <1>6

\* Ranks of the new communicator end up with the same, in spite of their different
\* ways to it, or it is said that they may not.
LEMMA CarriedAlike ==
  ASSUME NEW had, NEW new, SetCommOK(had, new), NEW q \in ToSet(new), NEW r \in ToSet(new)
  PROVE  LET m == carried(q, had, new)
             n == carried(r, had, new)
             u == unlike \cup set_apart(had, new)
         IN  /\ m.parting = n.parting /\ m.tags = n.tags /\ m.hints = n.hints
             /\ sent_sets(m.sets) = sent_sets(n.sets)
             /\ "sets" \in u \/ m.sets = n.sets
             /\ "layers" \in u \/ m.layers = n.layers
  <1> DEFINE u == unlike \cup set_apart(had, new)
  <1>1. CASE Growing(had, new)
    <2> DEFINE root == mesh[new[1]]
               layers == default_layers(root.parting)
               sets == sent_sets(root.sets)
    <2>1. Growing(had, new) \in BOOLEAN
      BY DEF Growing
    <2>2. /\ new[1] \in Ranks /\ HasComm(new[1]) /\ Holds(root, owner[new[1]]) /\ root.parting # Unset
      BY <1>1, RootHolds
    <2>3. "sets" \notin u => "sets" \notin unlike /\ sets = root.sets
      BY <1>1 DEF set_apart
    <2>4. "layers" \notin u => \A s \in had : mesh[s].layers = default_layers(mesh[s].parting)
      BY <1>1 DEF set_apart
    <2>5. ASSUME NEW s \in ToSet(new)
          PROVE  LET k == carried(s, had, new)
                 IN  /\ k.parting = root.parting /\ k.tags = root.tags /\ k.hints = FALSE
                     /\ sent_sets(k.sets) = sets
                     /\ "sets" \in u \/ k.sets = root.sets
                     /\ "layers" \in u \/ k.layers = layers
      <3>1. s \in Ranks /\ Holds(mesh[s], owner[s]) /\ (s \in had <=> HasComm(s))
        BY BeforeSetComm
      <3>2. CASE s \in had
        <4>1. Alike(mesh[s], root, unlike)
          BY <2>2, <3>1, <3>2 DEF SetCommOK, CommInv
        <4>2. /\ carried(s, had, new).parting = mesh[s].parting
              /\ carried(s, had, new).layers = mesh[s].layers
              /\ carried(s, had, new).tags = mesh[s].tags
              /\ carried(s, had, new).sets = mesh[s].sets
              /\ carried(s, had, new).hints = FALSE
          BY <1>1, <2>1, <3>1, <3>2, ForgotHolds DEF carried
        <4>3. "sets" \in u \/ mesh[s].sets = root.sets
          BY <2>3, <4>1 DEF Alike
        <4>4. "layers" \in u \/ mesh[s].layers = layers
          BY <2>4, <3>2, <4>1 DEF Alike
        <4> QED BY <4>1, <4>2, <4>3, <4>4 DEF Alike
      <3>3. CASE s \notin had
        <4> DEFINE k == bcast_mesh([NewMesh EXCEPT !.comm = <<s>>], root)
        <4>1. /\ k.parting = root.parting /\ k.layers = layers /\ k.tags = root.tags
              /\ k.sets = sets /\ k.hints = FALSE
          <5> HIDE DEF root
          <5> QED BY <2>2, <3>1, SentHolds
        <4>2. carried(s, had, new) = k
          BY <1>1, <3>3, BeforeSetComm DEF carried
        <4> HIDE DEF k
        <4>3. sent_sets(sets) = sets
          BY SentTwice
        <4> QED BY <2>3, <4>1, <4>2, <4>3
      <3> QED BY <3>2, <3>3
    <2> HIDE DEF root, layers, sets, u
    <2> QED BY <2>5 DEF u
  <1>2. CASE ~Growing(had, new) /\ had = {}
    BY <1>2, BeforeSetComm DEF carried
  <1>3. CASE ~Growing(had, new) /\ had # {}
    <2>1. q \in had /\ r \in had
      BY <1>3 DEF Growing
    <2>2. Alike(mesh[q], mesh[r], unlike)
      BY <2>1, BeforeSetComm DEF SetCommOK, CommInv
    <2>3. Holds(mesh[q], owner[q]) /\ Holds(mesh[r], owner[r]) /\ Growing(had, new) \in BOOLEAN
      BY BeforeSetComm DEF Growing
    <2>4. ASSUME NEW s \in {q, r}
          PROVE  /\ carried(s, had, new).parting = mesh[s].parting
                 /\ carried(s, had, new).layers = mesh[s].layers
                 /\ carried(s, had, new).tags = mesh[s].tags
                 /\ carried(s, had, new).sets = mesh[s].sets
                 /\ carried(s, had, new).hints = mesh[s].hints
      <3>1. Holds(mesh[s], owner[s])
        BY <2>3
      <3>2. s \in had
        BY <2>1
      <3> QED BY <1>3, <2>3, <3>1, <3>2, ForgotHolds DEF carried
    <2>5. "sets" \in unlike => "sets" \in u
      OBVIOUS
    <2>6. "layers" \in unlike => "layers" \in u
      OBVIOUS
    <2> HIDE DEF u
    <2> QED BY <2>2, <2>4, <2>5, <2>6 DEF Alike, u
  <1> QED BY <1>1, <1>2, <1>3

LEMMA SetCommKeeps ==
  ASSUME NEW had, NEW new, SetCommOK(had, new), NEW r \in ToSet(new)
  PROVE  LET m == carried(r, had, new)
             n == set_comm(r, had, new)
             d == ask_dist(m)
         IN  /\ n.parting = m.parting /\ n.layers = m.layers /\ n.tags = m.tags
             /\ n.sets = m.sets /\ n.hints = m.hints
             /\ IF had # {} /\ NRanks > 1 /\ m.parting # Unset
                THEN n.dist = d /\ n.owners = Dist_change_comm(d, new)[2]
                ELSE n.dist = m.dist /\ n.owners = m.owners
  <1> DEFINE m == carried(r, had, new)
             n == [m EXCEPT !.comm = new]
             k == [m EXCEPT !.comm = new, !.dist = ask_dist(m), !.owners = Dist_change_comm(ask_dist(m), new)[2]]
  <1>1. set_comm(r, had, new) = IF had # {} /\ NRanks > 1 /\ m.parting # Unset THEN k ELSE n
    BY DEF set_comm, carried
  <1>2. m \in MeshType
    BY CarriedHolds DEF Holds
  <1> HIDE DEF m
  <1>3. /\ k.parting = m.parting /\ k.layers = m.layers /\ k.tags = m.tags
        /\ k.sets = m.sets /\ k.hints = m.hints
        /\ k.dist = ask_dist(m) /\ k.owners = Dist_change_comm(ask_dist(m), new)[2]
    BY <1>2 DEF MeshType
  <1>4. /\ n.parting = m.parting /\ n.layers = m.layers /\ n.tags = m.tags
        /\ n.sets = m.sets /\ n.hints = m.hints /\ n.dist = m.dist /\ n.owners = m.owners
    BY <1>2 DEF MeshType
  <1> HIDE DEF k, n
  <1>5. CASE had # {} /\ NRanks > 1 /\ m.parting # Unset
    BY <1>1, <1>3, <1>5 DEF m
  <1>6. CASE ~(had # {} /\ NRanks > 1 /\ m.parting # Unset)
    BY <1>1, <1>4, <1>6 DEF m
  <1> QED BY <1>5, <1>6

\* The Dists that set_comm uses and leaves.
LEMMA SetCommDists ==
  ASSUME NEW had, NEW new, SetCommOK(had, new), NEW q \in ToSet(new), NEW r \in ToSet(new)
  PROVE  DistsAlike(set_comm(q, had, new), set_comm(r, had, new), owner[q], owner[r])
  <1> DEFINE m == carried(q, had, new)
             n == carried(r, had, new)
  <1>1. m.parting = n.parting
    BY CarriedAlike
  <1>2. Holds(m, owner[q]) /\ Holds(n, owner[r])
    BY CarriedHolds
  <1>3. q \in had /\ r \in had => /\ DistsAlike(mesh[q], mesh[r], owner[q], owner[r])
                                  /\ mesh[q].comm = mesh[r].comm
    <2> SUFFICES ASSUME q \in had, r \in had
                 PROVE  DistsAlike(mesh[q], mesh[r], owner[q], owner[r]) /\ mesh[q].comm = mesh[r].comm
      OBVIOUS
    <2> HIDE DEF m, n
    <2>1. q \in Ranks /\ r \in Ranks /\ HasComm(q) /\ HasComm(r)
      BY BeforeSetComm
    <2>2. Alike(mesh[q], mesh[r], unlike) /\ DistsAlike(mesh[q], mesh[r], owner[q], owner[r])
      BY <2>1 DEF SetCommOK, CommInv
    <2> QED BY <2>2 DEF Alike
  <1>4. owner[q] # <<>> /\ owner[r] # <<>> => q \in had /\ r \in had
    BY CarriedHolds
  <1>5. q \in had => m.dist = mesh[q].dist /\ m.comm = mesh[q].comm /\ m.parting = mesh[q].parting
    BY CarriedHolds
  <1>6. r \in had => n.dist = mesh[r].dist /\ n.comm = mesh[r].comm /\ n.parting = mesh[r].parting
    BY CarriedHolds
  <1>7. CASE had # {} /\ NRanks > 1 /\ m.parting # Unset
    <2>1. set_comm(q, had, new).dist = ask_dist(m) /\ set_comm(r, had, new).dist = ask_dist(n)
      BY <1>1, <1>7, SetCommKeeps
    <2>2. ask_dist(m) # <<>> /\ ask_dist(n) # <<>>
      BY <1>1, <1>2, <1>7, AskDistFacts
    <2>3. ASSUME owner[q] # <<>>, owner[r] # <<>> PROVE ask_dist(m)[1] = ask_dist(n)[1]
      <3>1. /\ m.dist = mesh[q].dist /\ m.comm = mesh[q].comm /\ n.dist = mesh[r].dist /\ n.comm = mesh[r].comm
            /\ DistsAlike(mesh[q], mesh[r], owner[q], owner[r]) /\ mesh[q].comm = mesh[r].comm
        BY <1>3, <1>4, <1>5, <1>6, <2>3
      <3> HIDE DEF m, n
      <3> QED BY <2>3, <3>1 DEF ask_dist, DistsAlike
    <2> HIDE DEF m, n
    <2> QED BY <2>1, <2>2, <2>3 DEF DistsAlike
  <1>8. CASE ~(had # {} /\ NRanks > 1 /\ m.parting # Unset)
    <2>1. set_comm(q, had, new).dist = m.dist /\ set_comm(r, had, new).dist = n.dist
      BY <1>1, <1>8, SetCommKeeps
    <2>2. CASE m.parting = Unset
      <3>1. m.dist = <<>> /\ n.dist = <<>>
        BY <1>1, <1>2, <2>2 DEF Holds
      <3> QED BY <2>1, <3>1 DEF DistsAlike
    <2>3. CASE m.parting # Unset /\ had = {}
      <3>1. m = mesh[q] /\ mesh[q] = NewMesh
        BY <2>3, BeforeSetComm DEF carried, Growing
      <3> QED BY <2>3, <3>1 DEF NewMesh
    <2>4. CASE had # {} /\ ~(NRanks > 1)
      <3>1. q \in Ranks /\ r \in Ranks /\ NRanks \in Nat
        BY BeforeSetComm DEF SetCommOK, CallersFit
      <3>2. q = r
        BY <2>4, <3>1 DEF Ranks
      <3> QED BY <3>2 DEF DistsAlike
    <2> QED BY <1>8, <2>2, <2>3, <2>4
  <1> QED BY <1>7, <1>8

\* A rank is found under one number.
LEMMA IndexOfItem ==
  ASSUME NEW c, RankList(c), NEW k \in Nat, k \in 0..Len(c) - 1
  PROVE  c[k + 1] \in ToSet(c) /\ IndexIn(c, c[k + 1]) = k
  <1>1. c \in Seq(Ranks) /\ Len(c) \in Nat /\ DOMAIN c = 1..Len(c)
    BY SetOfList DEF RankList
  <1>2. k + 1 \in 1..Len(c)
    BY <1>1
  <1>3. c[k + 1] \in ToSet(c)
    BY <1>1, <1>2, SetOfList
  <1>4. IndexIn(c, c[k + 1]) \in 0..Len(c) - 1 /\ c[IndexIn(c, c[k + 1]) + 1] = c[k + 1]
    BY <1>1, <1>3, IndexInFacts
  <1>5. IndexIn(c, c[k + 1]) + 1 \in 1..Len(c)
    BY <1>1, <1>4
  <1>6. IndexIn(c, c[k + 1]) + 1 = k + 1
    BY <1>1, <1>2, <1>4, <1>5 DEF RankList
  <1> QED BY <1>3, <1>4, <1>6

\* Where no rank gets another number, all numbers of owners stay.
LEMMA NumbersStay ==
  ASSUME NEW had, NEW new, SetCommOK(had, new), NEW r \in had, ~Renumbers(had, new),
         NEW d, Denotes(d[1], d[2], owner[r])
  PROVE  Dist_change_comm(d, new)[2] = mesh[r].owners
  <1> DEFINE w == owner[r]
             o == [i \in 1..Len(d[2]) |-> IndexIn(new, d[1][d[2][i] + 1])]
             m == mesh[r]
  <1>1. r \in ToSet(new) /\ Holds(m, w) /\ RankList(m.comm)
    BY BeforeSetComm DEF SetCommOK, OnRank, HasComm
  <1>2. /\ Denotes(m.comm, m.owners, w) /\ m.owners \in Seq(Nat) /\ Len(w) \in Nat
    BY <1>1, HoldsFields DEF Holds
  <1>3. Len(m.owners) = Len(w) /\ Len(d[2]) = Len(w)
    BY <1>2 DEF Denotes
  <1>4. ASSUME NEW i \in 1..Len(w) PROVE o[i] = m.owners[i]
    <2>1. d[1][d[2][i] + 1] = w[i]
      BY DEF Denotes
    <2>2. m.owners[i] \in Nat /\ m.owners[i] \in 0..Len(m.comm) - 1 /\ m.comm[m.owners[i] + 1] = w[i]
      BY <1>2, <1>3, ElementOfSeq DEF Denotes
    <2>3. w[i] \in ToSet(m.comm) /\ IndexIn(m.comm, w[i]) = m.owners[i]
      BY <1>1, <2>2, IndexOfItem
    <2>4. IndexIn(new, w[i]) = IndexIn(m.comm, w[i])
      BY <2>3 DEF Renumbers
    <2> QED BY <1>3, <2>1, <2>3, <2>4
  <1>5. m.owners = [i \in 1..Len(w) |-> m.owners[i]]
    BY <1>2, <1>3, LenProperties
  <1>6. o = m.owners
    <2> HIDE DEF m, w
    <2>1. o = [i \in 1..Len(w) |-> o[i]]
      BY <1>3
    <2> HIDE DEF o
    <2> QED BY <1>4, <1>5, <2>1
  <1> QED BY <1>6 DEF Dist_change_comm

LEMMA SetCommNumbers ==
  ASSUME NEW had, NEW new, SetCommOK(had, new), NEW r \in ToSet(new)
  PROVE  NumbersKept(set_comm(r, had, new), unlike \cup set_apart(had, new))
  <1> DEFINE m == carried(r, had, new)
             n == set_comm(r, had, new)
             u == unlike \cup set_apart(had, new)
  <1>1. Holds(m, owner[r]) /\ Holds(n, owner[r])
    BY CarriedHolds, SetCommRank
  <1>2. CASE r \notin had
    <2>1. owner[r] = <<>>
      BY <1>2, CarriedHolds
    <2>2. Denotes(n.comm, n.owners, <<>>) /\ (n.dist # <<>> => Denotes(n.dist[1], n.dist[2], <<>>))
      BY <1>1, <2>1 DEF Holds
    <2>3. n.owners = <<>> /\ (n.dist # <<>> => n.dist[2] = <<>>)
      BY <2>2, EmptySeq DEF Denotes
    <2> QED BY <2>3 DEF NumbersKept
  <1>3. CASE r \in had /\ "numbers" \notin u
    <2>1. ~Renumbers(had, new) /\ "numbers" \notin unlike
      BY <1>3 DEF set_apart
    <2>2. m.dist = mesh[r].dist /\ m.owners = mesh[r].owners
      BY <1>3, CarriedHolds
    <2>3. m.dist # <<>> => m.dist[2] = m.owners
      <3>1. NumbersKept(mesh[r], unlike)
        BY BeforeSetComm DEF SetCommOK, CommInv
      <3> QED BY <2>1, <2>2, <3>1 DEF NumbersKept
    <2>4. CASE had # {} /\ NRanks > 1 /\ m.parting # Unset
      <3>1. n.dist = ask_dist(m) /\ n.owners = Dist_change_comm(ask_dist(m), new)[2]
        BY <2>4, SetCommKeeps
      <3>2. Denotes(ask_dist(m)[1], ask_dist(m)[2], owner[r])
        BY <1>1, <2>4, AskDistFacts
      <3>3. n.owners = mesh[r].owners
        BY <1>3, <2>1, <3>1, <3>2, NumbersStay
      <3>4. ask_dist(m)[2] = m.owners
        <4> HIDE DEF m
        <4> QED BY <2>3 DEF ask_dist
      <3> QED BY <2>2, <3>1, <3>3, <3>4 DEF NumbersKept
    <2>5. CASE ~(had # {} /\ NRanks > 1 /\ m.parting # Unset)
      <3>1. n.dist = m.dist /\ n.owners = m.owners
        BY <2>5, SetCommKeeps
      <3> QED BY <2>3, <3>1 DEF NumbersKept
    <2> QED BY <2>4, <2>5
  <1>4. CASE "numbers" \in u
    BY <1>4 DEF NumbersKept
  <1> QED BY <1>2, <1>3, <1>4

LEMMA ApartListed == ASSUME NEW had, NEW new PROVE set_apart(had, new) \subseteq {"layers", "sets", "numbers"}
  BY DEF set_apart

LEMMA SetCommInv ==
  ASSUME CallersFit, CommInv, SetComm
  PROVE  CommInv'
  <1>1. PICK new \in Comms :
          LET had == {r \in ToSet(new) : HasComm(r)}
              root == mesh[new[1]]
              refused == Growing(had, new) /\ (new[1] \notin had \/ root.parting = Unset)
              past == Growing(had, new) /\ \E r \in had : reads_past(mesh[r], root)
          IN  /\ Going
              /\ \A r \in Ranks : HasComm(r) => ToSet(mesh[r].comm) \subseteq ToSet(new)
              /\ \/ /\ refused \/ past
                    /\ failed' = TRUE
                    /\ UNCHANGED <<mesh, unlike>>
                 \/ /\ ~refused
                    /\ failed' = FALSE
                    /\ mesh' = [r \in Ranks |-> IF r \in ToSet(new) THEN set_comm(r, had, new) ELSE mesh[r]]
                    /\ unlike' = unlike \cup set_apart(had, new)
              /\ calls' = [r \in Ranks |-> <<>>]
              /\ UNCHANGED owner
    BY DEF SetComm
  <1> DEFINE had == {r \in ToSet(new) : HasComm(r)}
             refused == Growing(had, new) /\ (new[1] \notin had \/ mesh[new[1]].parting = Unset)
  <1>2. ops' \in 0..MaxOps
    <2>1. ops \in 0..MaxOps /\ MaxOps \in Nat
      BY DEF CommInv, CallersFit
    <2> QED BY <1>1, <2>1 DEF Going
  <1>3. \A q, r \in Ranks : calls'[q] = calls'[r]
    BY <1>1
  <1>4. CASE failed' = TRUE /\ UNCHANGED <<mesh, unlike>>
    <2>1. failed' = TRUE /\ mesh' = mesh /\ owner' = owner /\ unlike' = unlike
      BY <1>1, <1>4
    <2>2. \A q, r \in Ranks : CallsAlike(mesh[q], mesh[r], calls'[q], calls'[r], unlike)
      BY <1>3 DEF CallsAlike
    <2> QED BY <1>2, <2>1, <2>2 DEF CommInv, HasComm
  <1>5. CASE /\ ~refused /\ failed' = FALSE
             /\ mesh' = [r \in Ranks |-> IF r \in ToSet(new) THEN set_comm(r, had, new) ELSE mesh[r]]
             /\ unlike' = unlike \cup set_apart(had, new)
    <2>1. /\ failed' = FALSE /\ owner' = owner /\ unlike' = unlike \cup set_apart(had, new)
          /\ mesh' = [r \in Ranks |-> IF r \in ToSet(new) THEN set_comm(r, had, new) ELSE mesh[r]]
      BY <1>1, <1>5
    <2>2. SetCommOK(had, new)
      BY <1>1, <1>5 DEF SetCommOK
    <2>3. ASSUME NEW r \in Ranks, HasComm(r) PROVE r \in ToSet(new)
      BY <1>1, <2>3 DEF CommInv, OnRank, HasComm
    <2> HIDE DEF had
    <2>4. ASSUME NEW r \in Ranks
          PROVE  /\ Holds(mesh'[r], owner[r]) /\ OnRank(mesh'[r], r) /\ NumbersKept(mesh'[r], unlike')
      <3>1. CASE r \in ToSet(new)
        BY <2>1, <2>2, <3>1, SetCommRank, SetCommNumbers
      <3>2. CASE r \notin ToSet(new)
        <4>1. mesh'[r] = mesh[r] /\ Holds(mesh[r], owner[r]) /\ OnRank(mesh[r], r)
          BY <2>1, <3>2 DEF CommInv
        <4>2. mesh[r] = NewMesh
          BY <2>3, <3>2, <4>1 DEF OnRank, HasComm
        <4>3. NumbersKept(mesh[r], unlike')
          BY <4>2 DEF NumbersKept, NewMesh
        <4> QED BY <4>1, <4>3
      <3> QED BY <3>1, <3>2
    <2>5. mesh' \in [Ranks -> MeshType]
      BY <2>1, <2>4 DEF Holds
    <2>6. ASSUME NEW r \in Ranks, mesh'[r].comm # <<>> PROVE r \in ToSet(new)
      BY <2>1, <2>3, <2>6 DEF HasComm
    <2>7. ASSUME NEW q \in ToSet(new), NEW r \in ToSet(new)
          PROVE  /\ Alike(set_comm(q, had, new), set_comm(r, had, new), unlike')
                 /\ DistsAlike(set_comm(q, had, new), set_comm(r, had, new), owner[q], owner[r])
      <3>1. set_comm(q, had, new).comm = new /\ set_comm(r, had, new).comm = new
        BY <2>2, SetCommRank
      <3>2. Alike(set_comm(q, had, new), set_comm(r, had, new), unlike \cup set_apart(had, new))
        BY <2>2, <3>1, SetCommKeeps, CarriedAlike DEF Alike
      <3>3. DistsAlike(set_comm(q, had, new), set_comm(r, had, new), owner[q], owner[r])
        BY <2>2, SetCommDists
      <3> QED BY <2>1, <3>2, <3>3
    <2>8. ASSUME NEW q \in Ranks, NEW r \in Ranks, mesh'[q].comm # <<>>, mesh'[r].comm # <<>>
          PROVE  /\ Alike(mesh'[q], mesh'[r], unlike')
                 /\ DistsAlike(mesh'[q], mesh'[r], owner[q], owner[r])
                 /\ CallsAlike(mesh'[q], mesh'[r], calls'[q], calls'[r], unlike')
      <3>1. q \in ToSet(new) /\ r \in ToSet(new)
        BY <2>6, <2>8
      <3> QED BY <1>3, <2>1, <2>7, <3>1 DEF CallsAlike
    <2>9. unlike' \subseteq {"layers", "sets", "numbers"}
      BY <2>1, ApartListed DEF CommInv
    <2> QED BY <1>2, <2>1, <2>4, <2>5, <2>8, <2>9 DEF CommInv, HasComm
  <1> QED BY <1>1, <1>4, <1>5

-----------------------------------------------------------------------------
(* Build, AskDist, SetParting and Balance *)

LEMMA OpsInRange ==
  ASSUME CallersFit, CommInv, Going
  PROVE  ops' \in 0..MaxOps
  <1>1. ops \in 0..MaxOps /\ MaxOps \in Nat
    BY DEF CommInv, CallersFit
  <1> QED BY <1>1 DEF Going

\* The owners of two entities of a rank, as numbers.
LEMMA TwoOwners ==
  ASSUME NEW c \in Seq(Ranks), NEW q \in ToSet(c), NEW r \in ToSet(c)
  PROVE  /\ Denotes(c, <<IndexIn(c, q), IndexIn(c, r)>>, <<q, r>>)
         /\ <<q, r>> \in Seq(Ranks)
  <1>1. /\ IndexIn(c, q) \in 0..Len(c) - 1 /\ c[IndexIn(c, q) + 1] = q
        /\ IndexIn(c, r) \in 0..Len(c) - 1 /\ c[IndexIn(c, r) + 1] = r
        /\ Len(c) \in Nat /\ q \in Ranks /\ r \in Ranks
    BY IndexInFacts, SetOfList
  <1>2. IndexIn(c, q) \in Nat /\ IndexIn(c, r) \in Nat
    BY <1>1
  <1> QED BY <1>1, <1>2 DEF Denotes

LEMMA FirstRank ==
  ASSUME NEW c, RankList(c), c # <<>>
  PROVE  c[1] \in ToSet(c) /\ IndexIn(c, c[1]) = 0
  <1>1. c \in Seq(Ranks) /\ Len(c) \in Nat \ {0} /\ DOMAIN c = 1..Len(c)
    BY EmptySeq, LenProperties DEF RankList
  <1>2. c[1] \in ToSet(c)
    BY <1>1, SetOfList
  <1>3. IndexIn(c, c[1]) \in 0..Len(c) - 1 /\ c[IndexIn(c, c[1]) + 1] = c[1]
    BY <1>1, <1>2, IndexInFacts
  <1>4. IndexIn(c, c[1]) + 1 \in DOMAIN c /\ 1 \in DOMAIN c
    BY <1>1, <1>3
  <1>5. IndexIn(c, c[1]) + 1 = 1
    BY <1>3, <1>4 DEF RankList
  <1> QED BY <1>1, <1>2, <1>3, <1>5

LEMMA RankFacts ==
  ASSUME CommInv, NEW r \in Ranks
  PROVE  /\ mesh[r] \in MeshType /\ Holds(mesh[r], owner[r])
         /\ mesh[r].comm \in Seq(Ranks)
         /\ HasComm(r) => /\ RankList(mesh[r].comm) /\ mesh[r].comm # <<>> /\ r \in ToSet(mesh[r].comm)
                          /\ \A q \in Ranks : HasComm(q) => mesh[q].comm = mesh[r].comm
  BY HoldsFields DEF CommInv, Holds, OnRank, HasComm, Alike

LEMMA LayersFacts ==
  ASSUME NEW parting, NEW layers, LayersFit(parting, layers)
  PROVE  /\ parting \in Partings /\ parting # Unset /\ layers \in Int
         /\ parting # GHOSTED => layers = default_layers(parting)
  BY DEF LayersFit, Partings, Unset, ELEM_BASED, GHOSTED, VERT_BASED

\* The ranks of the communicator have the mesh or none of them has it.
LEMMA MadeTogether ==
  ASSUME CommInv, NEW q \in Ranks, NEW r \in Ranks, HasComm(q), HasComm(r)
  PROVE  /\ q \in Made <=> r \in Made
         /\ Alike(mesh[q], mesh[r], unlike)
         /\ DistsAlike(mesh[q], mesh[r], owner[q], owner[r])
         /\ CallsAlike(mesh[q], mesh[r], calls[q], calls[r], unlike)
  BY DEF CommInv, Made, Alike

\* Where no rank is stuck all have made the same calls.
LEMMA CallsSame ==
  ASSUME CommInv, ~Stuck, NEW q \in Ranks, NEW r \in Ranks, HasComm(q), HasComm(r)
  PROVE  calls[q] = calls[r]
  <1>1. CASE q \in Made
    BY <1>1, MadeTogether DEF Stuck
  <1>2. CASE q \notin Made
    <2>1. mesh[q].parting = Unset
      BY <1>2 DEF Made
    <2>2. GHOSTED # Unset
      BY DEF GHOSTED, Unset
    <2> QED BY <2>1, <2>2, MadeTogether DEF CallsAlike
  <1> QED BY <1>1, <1>2

LEMMA BuildInv ==
  ASSUME CallersFit, CommInv, Build
  PROVE  CommInv'
  <1> DEFINE on == {r \in Ranks : HasComm(r)}
  <1>1. PICK p \in Parts :
          /\ Going /\ on # {} /\ \A r \in on : mesh[r].parting = Unset
          /\ \E who \in [on -> on] :
               /\ owner' = [r \in Ranks |-> IF r \in on THEN <<who[r], r>> ELSE <<>>]
               /\ mesh' = [r \in Ranks |-> IF r \notin on THEN mesh[r] ELSE
                    [mesh[r] EXCEPT !.parting = p.parting, !.layers = p.layers, !.tags = p.tags,
                       !.sets = p.sets,
                       !.owners = <<IndexIn(mesh[r].comm, who[r]), IndexIn(mesh[r].comm, r)>>]]
          /\ UNCHANGED <<calls, failed, unlike>>
    BY DEF Build
  <1>2. PICK who \in [on -> on] :
          /\ owner' = [r \in Ranks |-> IF r \in on THEN <<who[r], r>> ELSE <<>>]
          /\ mesh' = [r \in Ranks |-> IF r \notin on THEN mesh[r] ELSE
               [mesh[r] EXCEPT !.parting = p.parting, !.layers = p.layers, !.tags = p.tags,
                  !.sets = p.sets,
                  !.owners = <<IndexIn(mesh[r].comm, who[r]), IndexIn(mesh[r].comm, r)>>]]
    BY <1>1
  <1>3. /\ p.parting \in Partings /\ p.layers \in Int /\ p.parting # Unset
        /\ p.parting # GHOSTED => p.layers = default_layers(p.parting)
        /\ p.tags \in TagLists /\ p.sets \in SetLists
    BY LayersFacts DEF CallersFit, TagLists, SetLists, FullLists
  <1>4. ASSUME NEW r \in on
        PROVE  /\ Holds(mesh'[r], owner'[r]) /\ OnRank(mesh'[r], r)
               /\ mesh'[r].comm = mesh[r].comm /\ mesh'[r].dist = <<>>
               /\ mesh'[r].parting = p.parting /\ mesh'[r].layers = p.layers
               /\ mesh'[r].tags = p.tags /\ mesh'[r].sets = p.sets /\ mesh'[r].hints = FALSE
    <2> DEFINE c == mesh[r].comm
               o == <<IndexIn(c, who[r]), IndexIn(c, r)>>
               m == [mesh[r] EXCEPT !.parting = p.parting, !.layers = p.layers, !.tags = p.tags,
                       !.sets = p.sets, !.owners = o]
    <2>1. r \in Ranks /\ HasComm(r) /\ who[r] \in Ranks /\ HasComm(who[r])
      OBVIOUS
    <2>2. c \in Seq(Ranks) /\ RankList(c) /\ c # <<>> /\ r \in ToSet(c) /\ who[r] \in ToSet(c)
      BY <2>1, RankFacts
    <2>3. Denotes(c, o, <<who[r], r>>) /\ <<who[r], r>> \in Seq(Ranks)
      BY <2>2, TwoOwners
    <2>4. o \in Seq(Nat)
      BY <2>3 DEF Denotes
    <2>5. mesh[r] \in MeshType /\ mesh[r].dist = <<>> /\ mesh[r].hints = FALSE
      BY <1>1, <2>1, RankFacts DEF Holds
    <2>6. mesh'[r] = m /\ owner'[r] = <<who[r], r>>
      BY <1>2, <2>1
    <2> HIDE DEF o
    <2>7. /\ m \in MeshType /\ m.comm = c /\ m.owners = o /\ m.dist = mesh[r].dist
          /\ m.hints = mesh[r].hints /\ m.parting = p.parting /\ m.layers = p.layers
          /\ m.tags = p.tags /\ m.sets = p.sets
      BY <1>3, <2>4, <2>5 DEF MeshType
    <2> HIDE DEF m
    <2>8. Holds(m, <<who[r], r>>)
      BY <1>3, <2>3, <2>5, <2>7 DEF Holds
    <2>9. OnRank(m, r)
      BY <2>2, <2>7 DEF OnRank
    <2> QED BY <2>5, <2>6, <2>7, <2>8, <2>9
  <1>5. ASSUME NEW r \in Ranks, r \notin on
        PROVE  /\ Holds(mesh'[r], owner'[r]) /\ OnRank(mesh'[r], r) /\ mesh'[r].comm = <<>>
               /\ mesh'[r].dist = <<>>
    <2>1. mesh[r] = NewMesh /\ NewMesh.comm = <<>> /\ NewMesh.dist = <<>>
      BY <1>5 DEF CommInv, OnRank, HasComm, NewMesh
    <2>2. mesh'[r] = NewMesh /\ owner'[r] = <<>>
      BY <1>2, <1>5, <2>1
    <2> QED BY <2>1, <2>2, NewMeshHolds DEF OnRank
  <1>6. \A r \in Ranks : Holds(mesh'[r], owner'[r]) /\ OnRank(mesh'[r], r) /\ mesh'[r].dist = <<>>
    BY <1>4, <1>5
  <1>7. mesh' \in [Ranks -> MeshType] /\ owner' \in [Ranks -> Seq(Ranks)]
    BY <1>2, <1>6 DEF Holds
  <1>8. \A q, r \in Ranks : mesh'[q].comm # <<>> /\ mesh'[r].comm # <<>> =>
          /\ Alike(mesh'[q], mesh'[r], unlike)
          /\ DistsAlike(mesh'[q], mesh'[r], owner'[q], owner'[r])
          /\ CallsAlike(mesh'[q], mesh'[r], calls[q], calls[r], unlike)
    <2> SUFFICES ASSUME NEW q \in Ranks, NEW r \in Ranks, mesh'[q].comm # <<>>, mesh'[r].comm # <<>>
                 PROVE  /\ Alike(mesh'[q], mesh'[r], unlike)
                        /\ DistsAlike(mesh'[q], mesh'[r], owner'[q], owner'[r])
                        /\ CallsAlike(mesh'[q], mesh'[r], calls[q], calls[r], unlike)
      OBVIOUS
    <2>1. q \in on /\ r \in on
      BY <1>5
    <2>2. mesh[q].comm = mesh[r].comm /\ calls[q] = calls[r]
      BY <1>1, <2>1, RankFacts, CallsSame DEF Going
    <2> QED BY <1>4, <2>1, <2>2 DEF Alike, DistsAlike, CallsAlike
  <1>9. ops' \in 0..MaxOps /\ failed' = failed /\ calls' = calls /\ unlike' = unlike
    BY <1>1, OpsInRange
  <1>10. \A r \in Ranks : NumbersKept(mesh'[r], unlike)
    BY <1>6 DEF NumbersKept
  <1> QED BY <1>6, <1>7, <1>8, <1>9, <1>10 DEF CommInv, HasComm

LEMMA AskDistInv ==
  ASSUME CallersFit, CommInv, AskDist
  PROVE  CommInv'
  <1>1. /\ Going /\ failed' = failed /\ calls' = calls /\ owner' = owner /\ unlike' = unlike
        /\ mesh' = [r \in Ranks |-> IF r \in Made THEN [mesh[r] EXCEPT !.dist = ask_dist(mesh[r])] ELSE mesh[r]]
    BY DEF AskDist
  <1>2. ASSUME NEW r \in Ranks
        PROVE  /\ Holds(mesh'[r], owner[r]) /\ OnRank(mesh'[r], r) /\ NumbersKept(mesh'[r], unlike)
               /\ Alike(mesh'[r], mesh[r], {}) /\ mesh'[r].owners = mesh[r].owners
               /\ mesh'[r].dist = IF r \in Made THEN ask_dist(mesh[r]) ELSE mesh[r].dist
    <2>1. CASE r \in Made
      <3> DEFINE m == mesh[r]
                 d == ask_dist(m)
                 n == [m EXCEPT !.dist = d]
      <3>1. /\ m.parting # Unset /\ m.comm # <<>> /\ m \in MeshType /\ Holds(m, owner[r]) /\ OnRank(m, r)
            /\ NumbersKept(m, unlike)
        BY <2>1, RankFacts DEF Made, HasComm, CommInv
      <3>2. d \in Seq(Ranks) \X Seq(Nat) /\ Denotes(d[1], d[2], owner[r])
        BY <3>1, AskDistFacts
      <3>3. mesh'[r] = n
        BY <1>1, <2>1
      <3>4. d[2] = m.owners \/ "numbers" \in unlike
        <4> HIDE DEF m
        <4> QED BY <3>1 DEF ask_dist, NumbersKept
      <3> HIDE DEF d
      <3>5. /\ n \in MeshType /\ n.dist = d /\ n.comm = m.comm /\ n.owners = m.owners
            /\ n.parting = m.parting /\ n.layers = m.layers /\ n.tags = m.tags /\ n.sets = m.sets
            /\ n.hints = m.hints
        BY <3>1, <3>2 DEF MeshType
      <3> HIDE DEF n, m
      <3>6. Holds(n, owner[r])
        BY <3>1, <3>2, <3>5 DEF Holds
      <3>7. OnRank(n, r) /\ Alike(n, m, {}) /\ NumbersKept(n, unlike)
        BY <3>1, <3>4, <3>5 DEF OnRank, Alike, NumbersKept
      <3> QED BY <2>1, <3>3, <3>5, <3>6, <3>7 DEF m, d
    <2>2. CASE r \notin Made
      BY <1>1, <2>2 DEF CommInv, Alike
    <2> QED BY <2>1, <2>2
  <1>3. mesh' \in [Ranks -> MeshType]
    BY <1>1, <1>2 DEF Holds
  <1>4. \A q, r \in Ranks : mesh'[q].comm # <<>> /\ mesh'[r].comm # <<>> =>
          /\ Alike(mesh'[q], mesh'[r], unlike)
          /\ DistsAlike(mesh'[q], mesh'[r], owner[q], owner[r])
          /\ CallsAlike(mesh'[q], mesh'[r], calls[q], calls[r], unlike)
    <2> SUFFICES ASSUME NEW q \in Ranks, NEW r \in Ranks, mesh'[q].comm # <<>>, mesh'[r].comm # <<>>
                 PROVE  /\ Alike(mesh'[q], mesh'[r], unlike)
                        /\ DistsAlike(mesh'[q], mesh'[r], owner[q], owner[r])
                        /\ CallsAlike(mesh'[q], mesh'[r], calls[q], calls[r], unlike)
      OBVIOUS
    <2>1. Alike(mesh'[q], mesh[q], {}) /\ Alike(mesh'[r], mesh[r], {})
      BY <1>2
    <2>2. HasComm(q) /\ HasComm(r)
      BY <2>1 DEF Alike, HasComm
    <2>3. /\ Alike(mesh[q], mesh[r], unlike) /\ calls[q] = calls[r] /\ (q \in Made <=> r \in Made)
          /\ DistsAlike(mesh[q], mesh[r], owner[q], owner[r])
      BY <1>1, <2>2, MadeTogether, CallsSame DEF Going
    <2>4. CASE q \in Made
      <3>1. ask_dist(mesh[q]) # <<>> /\ ask_dist(mesh[r]) # <<>>
        <4>1. /\ Holds(mesh[q], owner[q]) /\ mesh[q].parting # Unset
              /\ Holds(mesh[r], owner[r]) /\ mesh[r].parting # Unset
          BY <2>3, <2>4, RankFacts DEF Made
        <4> QED BY <4>1, AskDistFacts
      <3>2. ASSUME owner[q] # <<>>, owner[r] # <<>> PROVE ask_dist(mesh[q])[1] = ask_dist(mesh[r])[1]
        BY <2>3, <3>2 DEF ask_dist, Alike, DistsAlike
      <3>3. mesh'[q].dist = ask_dist(mesh[q]) /\ mesh'[r].dist = ask_dist(mesh[r])
        BY <1>2, <2>3, <2>4
      <3>4. DistsAlike(mesh'[q], mesh'[r], owner[q], owner[r])
        BY <3>1, <3>2, <3>3 DEF DistsAlike
      <3> QED BY <2>1, <2>3, <3>4 DEF Alike, CallsAlike
    <2>5. CASE q \notin Made
      <3>1. mesh'[q] = mesh[q] /\ mesh'[r] = mesh[r]
        BY <1>1, <2>3, <2>5
      <3> QED BY <2>3, <3>1 DEF CallsAlike
    <2> QED BY <2>4, <2>5
  <1>5. ops' \in 0..MaxOps
    BY <1>1, OpsInRange
  <1> QED BY <1>1, <1>2, <1>3, <1>4, <1>5 DEF CommInv, HasComm

\* What a migration leaves on a rank: the first rank of the communicator owns one of
\* its entities.
LEMMA OwnersOfMigrated ==
  ASSUME CommInv, NEW r \in Made
  PROVE  LET c == mesh[r].comm
             o == <<0, IndexIn(c, r)>>
         IN  o \in Seq(Nat) /\ Denotes(c, o, <<c[1], r>>) /\ <<c[1], r>> \in Seq(Ranks)
  <1> DEFINE c == mesh[r].comm
  <1>1. RankList(c) /\ c \in Seq(Ranks) /\ c # <<>> /\ r \in ToSet(c)
    BY RankFacts DEF Made
  <1>2. c[1] \in ToSet(c) /\ IndexIn(c, c[1]) = 0
    BY <1>1, FirstRank
  <1> HIDE DEF c
  <1>3. Denotes(c, <<0, IndexIn(c, r)>>, <<c[1], r>>) /\ <<c[1], r>> \in Seq(Ranks)
    BY <1>1, <1>2, TwoOwners
  <1> QED BY <1>3 DEF Denotes, c

\* What set_parting and balance make of a mesh that migrated, and of one that did not.
Moved(r, parting, layers, hints) ==
  [migrated(r) EXCEPT !.parting = parting, !.layers = layers, !.hints = hints]
Placed(m, parting, layers) == [m EXCEPT !.parting = parting, !.layers = layers]

\* A mesh that was migrated to another parting.
LEMMA MigratedHolds ==
  ASSUME CommInv, NEW r \in Made, NEW parting, NEW layers, LayersFit(parting, layers), NEW hints \in BOOLEAN
  PROVE  LET n == Moved(r, parting, layers, hints)
         IN  /\ Holds(n, <<mesh[r].comm[1], r>>) /\ OnRank(n, r) /\ n.comm = mesh[r].comm
             /\ n.tags = mesh[r].tags /\ n.sets = mesh[r].sets /\ n.hints = hints
             /\ n.parting = parting /\ n.layers = layers /\ n.dist = <<>>
  <1> DEFINE o == <<0, IndexIn(mesh[r].comm, r)>>
             k == migrated(r)
             n == [k EXCEPT !.parting = parting, !.layers = layers, !.hints = hints]
  <1>1. r \in Ranks /\ HasComm(r)
    BY DEF Made
  <1>2. mesh[r] \in MeshType /\ RankList(mesh[r].comm) /\ mesh[r].comm # <<>> /\ r \in ToSet(mesh[r].comm)
    BY <1>1, RankFacts
  <1>3. o \in Seq(Nat) /\ Denotes(mesh[r].comm, o, <<mesh[r].comm[1], r>>) /\ <<mesh[r].comm[1], r>> \in Seq(Ranks)
    BY OwnersOfMigrated
  <1>4. k = [mesh[r] EXCEPT !.dist = <<>>, !.owners = o]
    BY DEF migrated
  <1> HIDE DEF o, k
  <1>5. /\ k \in MeshType /\ k.comm = mesh[r].comm /\ k.tags = mesh[r].tags /\ k.sets = mesh[r].sets
        /\ k.dist = <<>> /\ k.owners = o
    BY <1>2, <1>3, <1>4 DEF MeshType
  <1>6. /\ parting \in Partings /\ parting # Unset /\ layers \in Int
        /\ parting # GHOSTED => layers = default_layers(parting)
    BY LayersFacts
  <1>7. /\ n \in MeshType /\ n.comm = k.comm /\ n.tags = k.tags /\ n.sets = k.sets
        /\ n.hints = hints /\ n.parting = parting /\ n.layers = layers /\ n.dist = k.dist /\ n.owners = k.owners
    BY <1>5, <1>6 DEF MeshType
  <1> HIDE DEF n
  <1>8. Holds(n, <<mesh[r].comm[1], r>>) /\ OnRank(n, r)
    BY <1>2, <1>3, <1>5, <1>6, <1>7 DEF Holds, OnRank
  <1>9. n = Moved(r, parting, layers, hints)
    BY DEF n, k, Moved
  <1> QED BY <1>5, <1>7, <1>8, <1>9

\* One whose set_parting had nothing to move.
LEMMA PartedHolds ==
  ASSUME CommInv, NEW r \in Made, NEW parting, NEW layers, LayersFit(parting, layers)
  PROVE  LET n == Placed(mesh[r], parting, layers)
         IN  /\ Holds(n, owner[r]) /\ OnRank(n, r) /\ n.comm = mesh[r].comm
             /\ n.tags = mesh[r].tags /\ n.sets = mesh[r].sets /\ n.hints = mesh[r].hints
             /\ n.parting = parting /\ n.layers = layers /\ n.dist = mesh[r].dist /\ n.owners = mesh[r].owners
  <1> DEFINE n == [mesh[r] EXCEPT !.parting = parting, !.layers = layers]
  <1>1. r \in Ranks /\ HasComm(r) /\ mesh[r].parting # Unset
    BY DEF Made
  <1>2. mesh[r] \in MeshType /\ Holds(mesh[r], owner[r]) /\ OnRank(mesh[r], r) /\ mesh[r].comm # <<>>
    BY <1>1, RankFacts DEF CommInv
  <1>3. /\ parting \in Partings /\ parting # Unset /\ layers \in Int
        /\ parting # GHOSTED => layers = default_layers(parting)
    BY LayersFacts
  <1>4. /\ n \in MeshType /\ n.comm = mesh[r].comm /\ n.tags = mesh[r].tags /\ n.sets = mesh[r].sets
        /\ n.hints = mesh[r].hints /\ n.parting = parting /\ n.layers = layers
        /\ n.dist = mesh[r].dist /\ n.owners = mesh[r].owners
    BY <1>2, <1>3 DEF MeshType
  <1> HIDE DEF n
  <1>5. Holds(n, owner[r]) /\ OnRank(n, r)
    BY <1>1, <1>2, <1>3, <1>4 DEF Holds, OnRank
  <1>6. n = Placed(mesh[r], parting, layers)
    BY DEF n, Placed
  <1> QED BY <1>4, <1>5, <1>6

\* If two ranks are not called on alike, they have other layers, and new ranks were
\* not told.
LEMMA PartingCalls ==
  ASSUME CommInv, NEW q \in Made, NEW r \in Made, NEW parting, NEW layers,
         set_parting(mesh[q], parting, layers) # set_parting(mesh[r], parting, layers)
  PROVE  /\ mesh[q].layers # mesh[r].layers /\ mesh[q].parting = GHOSTED /\ "layers" \in unlike
  <1>1. /\ q \in Ranks /\ r \in Ranks /\ HasComm(q) /\ HasComm(r)
        /\ mesh[q].parting # Unset /\ mesh[r].parting # Unset
    BY DEF Made
  <1>2. Alike(mesh[q], mesh[r], unlike)
    BY <1>1, MadeTogether
  <1>3. mesh[q].parting = mesh[r].parting
    BY <1>2 DEF Alike
  <1>4. mesh[q].layers # mesh[r].layers
    BY <1>3 DEF set_parting
  <1>5. mesh[q].parting = GHOSTED
    <2>1. /\ mesh[q].parting # GHOSTED => mesh[q].layers = default_layers(mesh[q].parting)
          /\ mesh[r].parting # GHOSTED => mesh[r].layers = default_layers(mesh[r].parting)
      BY <1>1, RankFacts DEF Holds
    <2> QED BY <1>3, <1>4, <2>1
  <1> QED BY <1>2, <1>4, <1>5 DEF Alike

LEMMA SetPartingInv ==
  ASSUME CallersFit, CommInv, SetParting
  PROVE  CommInv'
  <1>1. PICK l \in Layouts :
          LET called == [r \in Ranks |-> IF r \in Made THEN set_parting(mesh[r], l[1], l[2]) ELSE <<>>]
              moved == {r \in Made : called[r] # <<>> /\ Len(mesh[r].comm) > 1}
          IN  /\ Going /\ Made # {}
              /\ calls' = called
              /\ IF \E q, r \in Made : called[q] # called[r]
                 THEN UNCHANGED <<mesh, owner, unlike>>
                 ELSE /\ mesh' = [r \in Ranks |-> IF r \notin Made THEN mesh[r]
                                  ELSE [(IF r \in moved THEN migrated(r) ELSE mesh[r])
                                          EXCEPT !.parting = l[1], !.layers = l[2]]]
                      /\ owner' = [r \in Ranks |-> IF r \in moved THEN <<mesh[r].comm[1], r>> ELSE owner[r]]
                      /\ unlike' = unlike \ ({"layers"} \cup IF moved # {} THEN {"numbers"} ELSE {})
              /\ UNCHANGED failed
    BY DEF SetParting
  <1> DEFINE called == [r \in Ranks |-> IF r \in Made THEN set_parting(mesh[r], l[1], l[2]) ELSE <<>>]
             moved == {r \in Made : called[r] # <<>> /\ Len(mesh[r].comm) > 1}
  <1>2. ops' \in 0..MaxOps /\ failed' \in BOOLEAN /\ LayersFit(l[1], l[2])
    BY <1>1, OpsInRange DEF CommInv, CallersFit
  <1>3. CASE \E q, r \in Made : called[q] # called[r]
    <2>1. mesh' = mesh /\ owner' = owner /\ unlike' = unlike /\ calls' = called
      BY <1>1, <1>3
    <2>2. ASSUME NEW q \in Ranks, NEW r \in Ranks, HasComm(q), HasComm(r)
          PROVE  CallsAlike(mesh[q], mesh[r], called[q], called[r], unlike)
      <3>1. q \in Made <=> r \in Made
        BY <2>2, MadeTogether
      <3>2. CASE q \in Made
        <4>1. called[q] = set_parting(mesh[q], l[1], l[2]) /\ called[r] = set_parting(mesh[r], l[1], l[2])
          BY <3>1, <3>2
        <4> HIDE DEF called
        <4> QED BY <3>1, <3>2, <4>1, PartingCalls DEF CallsAlike
      <3>3. CASE q \notin Made
        BY <3>1, <3>3 DEF CallsAlike
      <3> QED BY <3>2, <3>3
    <2> HIDE DEF called, moved
    <2> QED BY <1>2, <2>1, <2>2 DEF CommInv, HasComm
  <1>4. CASE ~\E q, r \in Made : called[q] # called[r]
    <2>1. /\ calls' = called
          /\ mesh' = [r \in Ranks |-> IF r \notin Made THEN mesh[r]
                      ELSE [(IF r \in moved THEN migrated(r) ELSE mesh[r])
                              EXCEPT !.parting = l[1], !.layers = l[2]]]
          /\ owner' = [r \in Ranks |-> IF r \in moved THEN <<mesh[r].comm[1], r>> ELSE owner[r]]
          /\ unlike' = unlike \ ({"layers"} \cup IF moved # {} THEN {"numbers"} ELSE {})
      BY <1>1, <1>4
    <2>2. ASSUME NEW q \in Ranks, NEW r \in Ranks, HasComm(q), HasComm(r)
          PROVE  called[q] = called[r] /\ (q \in moved <=> r \in moved)
      <3>1. (q \in Made <=> r \in Made) /\ mesh[q].comm = mesh[r].comm
        BY <2>2, MadeTogether DEF Alike
      <3>2. called[q] = called[r]
        <4>1. CASE q \in Made
          BY <1>4, <3>1, <4>1
        <4>2. CASE q \notin Made
          BY <3>1, <4>2
        <4> QED BY <4>1, <4>2
      <3> QED BY <3>1, <3>2
    <2>3. /\ moved \subseteq Made /\ Made \subseteq Ranks /\ \A r \in Made : HasComm(r)
          /\ \A q, r \in Ranks : HasComm(q) /\ HasComm(r) => (q \in moved <=> r \in moved)
      BY <2>2 DEF Made
    <2>4. \A q, r \in Ranks : HasComm(q) /\ HasComm(r) => called[q] = called[r]
      BY <2>2
    <2> HIDE DEF called, moved
    <2>5. /\ "layers" \notin unlike' /\ ("sets" \in unlike' <=> "sets" \in unlike)
          /\ "numbers" \in unlike' <=> "numbers" \in unlike /\ moved = {}
          /\ unlike' \subseteq {"layers", "sets", "numbers"}
      BY <2>1 DEF CommInv
    <2>6. ASSUME NEW r \in moved
          PROVE  /\ Holds(mesh'[r], owner'[r]) /\ OnRank(mesh'[r], r)
                 /\ mesh'[r].comm = mesh[r].comm /\ mesh'[r].tags = mesh[r].tags
                 /\ mesh'[r].sets = mesh[r].sets /\ mesh'[r].hints = mesh[r].hints
                 /\ mesh'[r].parting = l[1] /\ mesh'[r].layers = l[2] /\ mesh'[r].dist = <<>>
      <3>1. r \in Made /\ r \in Ranks
        BY <2>3
      <3>2. mesh[r].hints \in BOOLEAN /\ mesh[r] \in MeshType
        BY <3>1, RankFacts, HoldsFields
      <3> DEFINE k == migrated(r)
                 n == [k EXCEPT !.parting = l[1], !.layers = l[2]]
      <3>3. mesh'[r] = n /\ owner'[r] = <<mesh[r].comm[1], r>>
        BY <2>1, <3>1
      <3>4. k = [mesh[r] EXCEPT !.dist = <<>>, !.owners = <<0, IndexIn(mesh[r].comm, r)>>]
        BY DEF migrated
      <3>5. <<0, IndexIn(mesh[r].comm, r)>> \in Seq(Nat)
        BY <3>1, OwnersOfMigrated
      <3> HIDE DEF k
      <3>6. k \in MeshType /\ k.hints = mesh[r].hints
        BY <3>2, <3>4, <3>5 DEF MeshType
      <3>7. n = [k EXCEPT !.parting = l[1], !.layers = l[2], !.hints = mesh[r].hints]
        BY <3>6 DEF MeshType
      <3>8. n = Moved(r, l[1], l[2], mesh[r].hints)
        BY <3>7 DEF k, Moved
      <3> HIDE DEF n
      <3>9. LET x == Moved(r, l[1], l[2], mesh[r].hints)
            IN  /\ Holds(x, <<mesh[r].comm[1], r>>) /\ OnRank(x, r) /\ x.comm = mesh[r].comm
                /\ x.tags = mesh[r].tags /\ x.sets = mesh[r].sets /\ x.hints = mesh[r].hints
                /\ x.parting = l[1] /\ x.layers = l[2] /\ x.dist = <<>>
        BY <1>2, <2>3, <3>1, <3>2, MigratedHolds
      <3> QED BY <3>3, <3>8, <3>9
    <2>7. ASSUME NEW r \in Made, r \notin moved
          PROVE  /\ Holds(mesh'[r], owner'[r]) /\ OnRank(mesh'[r], r) /\ owner'[r] = owner[r]
                 /\ mesh'[r].comm = mesh[r].comm /\ mesh'[r].tags = mesh[r].tags
                 /\ mesh'[r].sets = mesh[r].sets /\ mesh'[r].hints = mesh[r].hints
                 /\ mesh'[r].parting = l[1] /\ mesh'[r].layers = l[2]
                 /\ mesh'[r].dist = mesh[r].dist /\ mesh'[r].owners = mesh[r].owners
      <3>1. mesh'[r] = Placed(mesh[r], l[1], l[2]) /\ owner'[r] = owner[r]
        BY <2>1, <2>3, <2>7 DEF Placed
      <3> QED BY <1>2, <3>1, PartedHolds
    <2>8. ASSUME NEW r \in Ranks, r \notin Made
          PROVE  mesh'[r] = mesh[r] /\ owner'[r] = owner[r] /\ Holds(mesh'[r], owner'[r]) /\ OnRank(mesh'[r], r)
      BY <2>1, <2>3, <2>8 DEF CommInv
    <2>9. ASSUME NEW r \in Ranks PROVE NumbersKept(mesh'[r], unlike')
      <3>1. NumbersKept(mesh[r], unlike)
        BY DEF CommInv
      <3>2. CASE r \in moved
        BY <2>6, <3>2 DEF NumbersKept
      <3>3. CASE r \notin Made
        <4>1. r \notin Made => mesh[r].dist = <<>>
          <5>1. Holds(mesh[r], owner[r]) /\ OnRank(mesh[r], r)
            BY DEF CommInv
          <5> QED BY <5>1 DEF Made, HasComm, Holds, OnRank, NewMesh
        <4> QED BY <2>8, <3>3, <4>1 DEF NumbersKept
      <3>4. CASE r \in Made /\ r \notin moved
        <4>1. moved = {}
          BY <2>3, <3>4
        <4> QED BY <2>5, <2>7, <3>1, <3>4, <4>1 DEF NumbersKept
      <3> QED BY <3>2, <3>3, <3>4
    <2>10. \A r \in Ranks : Holds(mesh'[r], owner'[r]) /\ OnRank(mesh'[r], r) /\ NumbersKept(mesh'[r], unlike')
      BY <2>6, <2>7, <2>8, <2>9
    <2>11. mesh' \in [Ranks -> MeshType] /\ owner' \in [Ranks -> Seq(Ranks)]
      <3>1. \A r \in Ranks : mesh'[r] \in MeshType /\ owner'[r] \in Seq(Ranks)
        BY <2>10 DEF Holds
      <3> QED BY <2>1, <3>1
    <2>12. ASSUME NEW q \in Ranks, NEW r \in Ranks, mesh'[q].comm # <<>>, mesh'[r].comm # <<>>
           PROVE  /\ Alike(mesh'[q], mesh'[r], unlike')
                  /\ DistsAlike(mesh'[q], mesh'[r], owner'[q], owner'[r])
                  /\ CallsAlike(mesh'[q], mesh'[r], calls'[q], calls'[r], unlike')
      <3>1. HasComm(q) /\ HasComm(r)
        BY <2>6, <2>7, <2>8, <2>12 DEF HasComm
      <3>2. /\ q \in Made <=> r \in Made
            /\ q \in moved <=> r \in moved
            /\ Alike(mesh[q], mesh[r], unlike) /\ DistsAlike(mesh[q], mesh[r], owner[q], owner[r])
        BY <2>3, <3>1, MadeTogether
      <3>3. calls'[q] = calls'[r]
        BY <2>1, <2>4, <3>1
      <3>4. CASE q \in moved
        <4>1. DistsAlike(mesh'[q], mesh'[r], owner'[q], owner'[r])
          BY <2>6, <3>2, <3>4 DEF DistsAlike
        <4>2. Alike(mesh'[q], mesh'[r], unlike')
          BY <2>5, <2>6, <3>2, <3>4 DEF Alike
        <4> QED BY <3>3, <4>1, <4>2 DEF CallsAlike
      <3>5. CASE q \in Made /\ q \notin moved
        <4>1. DistsAlike(mesh'[q], mesh'[r], owner'[q], owner'[r])
          BY <2>7, <3>2, <3>5 DEF DistsAlike
        <4>2. Alike(mesh'[q], mesh'[r], unlike')
          BY <2>5, <2>7, <3>2, <3>5 DEF Alike
        <4> QED BY <3>3, <4>1, <4>2 DEF CallsAlike
      <3>6. CASE q \notin Made
        <4>1. mesh[q].parting = Unset /\ mesh[r].parting = Unset /\ GHOSTED # Unset
          BY <3>1, <3>2, <3>6 DEF Made, GHOSTED, Unset
        <4>2. mesh'[q] = mesh[q] /\ mesh'[r] = mesh[r] /\ owner'[q] = owner[q] /\ owner'[r] = owner[r]
          BY <2>8, <3>2, <3>6
        <4>3. Made = {}
          BY <2>3, <3>1, <3>6, MadeTogether
        <4> QED BY <1>1, <4>3
      <3> QED BY <2>3, <3>4, <3>5, <3>6
    <2> QED BY <1>2, <2>5, <2>10, <2>11, <2>12 DEF CommInv, HasComm
  <1> QED BY <1>3, <1>4

LEMMA BalanceInv ==
  ASSUME CallersFit, CommInv, Balance
  PROVE  CommInv'
  <1> DEFINE moved == {r \in Made : Len(mesh[r].comm) > 1}
  <1>1. /\ Going /\ Made # {} /\ failed' = failed
        /\ calls' = [r \in Ranks |-> IF r \in moved THEN set_parting(mesh[r], ELEM_BASED, 0) ELSE <<>>]
        /\ mesh' = [r \in Ranks |-> IF r \notin moved THEN mesh[r]
                    ELSE [migrated(r) EXCEPT !.parting = ELEM_BASED, !.layers = 0, !.hints = TRUE]]
        /\ owner' = [r \in Ranks |-> IF r \in moved THEN <<mesh[r].comm[1], r>> ELSE owner[r]]
        /\ unlike' = IF moved # {} THEN unlike \ {"layers", "numbers"} ELSE unlike
    BY DEF Balance
  <1>2. LayersFit(ELEM_BASED, 0) /\ ops' \in 0..MaxOps
    <2>1. LayersFit(ELEM_BASED, 0)
      BY DEF LayersFit, Partings, default_layers, ELEM_BASED, GHOSTED, VERT_BASED
    <2>2. ops' \in 0..MaxOps
      BY <1>1, OpsInRange
    <2> QED BY <2>1, <2>2
  <1>3. ASSUME NEW q \in Ranks, NEW r \in Ranks, HasComm(q), HasComm(r)
        PROVE  q \in moved <=> r \in moved
    BY <1>3, MadeTogether DEF Alike
  <1>4. moved \subseteq Made /\ Made \subseteq Ranks
    BY DEF Made
  <1> HIDE DEF moved
  <1>5. ASSUME NEW r \in moved
        PROVE  /\ Holds(mesh'[r], owner'[r]) /\ OnRank(mesh'[r], r)
               /\ mesh'[r].comm = mesh[r].comm /\ mesh'[r].tags = mesh[r].tags
               /\ mesh'[r].sets = mesh[r].sets /\ mesh'[r].hints = TRUE
               /\ mesh'[r].parting = ELEM_BASED /\ mesh'[r].layers = 0 /\ mesh'[r].dist = <<>>
    <2> DEFINE n == Moved(r, ELEM_BASED, 0, TRUE)
    <2>1. r \in Made /\ r \in Ranks
      BY <1>4
    <2>2. mesh'[r] = n /\ owner'[r] = <<mesh[r].comm[1], r>>
      BY <1>1, <2>1 DEF Moved
    <2>3. /\ Holds(n, <<mesh[r].comm[1], r>>) /\ OnRank(n, r) /\ n.comm = mesh[r].comm
          /\ n.tags = mesh[r].tags /\ n.sets = mesh[r].sets /\ n.hints = TRUE
          /\ n.parting = ELEM_BASED /\ n.layers = 0 /\ n.dist = <<>>
      <3> DEFINE yes == TRUE
      <3>1. yes \in BOOLEAN
        OBVIOUS
      <3> HIDE DEF yes
      <3>2. LET x == Moved(r, ELEM_BASED, 0, yes)
            IN  /\ Holds(x, <<mesh[r].comm[1], r>>) /\ OnRank(x, r) /\ x.comm = mesh[r].comm
                /\ x.tags = mesh[r].tags /\ x.sets = mesh[r].sets /\ x.hints = yes
                /\ x.parting = ELEM_BASED /\ x.layers = 0 /\ x.dist = <<>>
        BY <1>2, <2>1, <3>1, MigratedHolds
      <3> QED BY <3>2 DEF yes
    <2> HIDE DEF n
    <2> QED BY <2>2, <2>3
  <1>6. ASSUME NEW r \in Ranks, r \notin moved
        PROVE  mesh'[r] = mesh[r] /\ owner'[r] = owner[r] /\ Holds(mesh'[r], owner'[r]) /\ OnRank(mesh'[r], r)
    BY <1>1, <1>6 DEF CommInv
  <1>7. /\ "sets" \in unlike' <=> "sets" \in unlike
        /\ unlike' \subseteq {"layers", "sets", "numbers"}
        /\ moved = {} => unlike' = unlike
    BY <1>1 DEF CommInv
  <1>8. ASSUME NEW r \in Ranks PROVE NumbersKept(mesh'[r], unlike')
    <2>1. NumbersKept(mesh[r], unlike)
      BY DEF CommInv
    <2>2. CASE r \in moved
      BY <1>5, <2>2 DEF NumbersKept
    <2>3. CASE r \notin moved /\ HasComm(r)
      <3>1. moved = {}
        BY <1>3, <1>4, <2>3 DEF Made
      <3> QED BY <1>6, <1>7, <2>1, <2>3, <3>1
    <2>4. CASE r \notin moved /\ ~HasComm(r)
      <3>1. mesh[r].dist = <<>>
        BY <2>4 DEF CommInv, OnRank, HasComm, NewMesh
      <3> QED BY <1>6, <2>4, <3>1 DEF NumbersKept
    <2> QED BY <2>2, <2>3, <2>4
  <1>9. \A r \in Ranks : Holds(mesh'[r], owner'[r]) /\ OnRank(mesh'[r], r) /\ NumbersKept(mesh'[r], unlike')
    BY <1>5, <1>6, <1>8
  <1>10. mesh' \in [Ranks -> MeshType] /\ owner' \in [Ranks -> Seq(Ranks)]
    <2>1. \A r \in Ranks : mesh'[r] \in MeshType /\ owner'[r] \in Seq(Ranks)
      BY <1>9 DEF Holds
    <2> QED BY <1>1, <2>1
  <1>11. ASSUME NEW q \in Ranks, NEW r \in Ranks, mesh'[q].comm # <<>>, mesh'[r].comm # <<>>
         PROVE  /\ Alike(mesh'[q], mesh'[r], unlike')
                /\ DistsAlike(mesh'[q], mesh'[r], owner'[q], owner'[r])
                /\ CallsAlike(mesh'[q], mesh'[r], calls'[q], calls'[r], unlike')
    <2>1. HasComm(q) /\ HasComm(r)
      BY <1>5, <1>6, <1>11 DEF HasComm
    <2>2. /\ q \in moved <=> r \in moved
          /\ Alike(mesh[q], mesh[r], unlike) /\ DistsAlike(mesh[q], mesh[r], owner[q], owner[r])
      BY <1>3, <2>1, MadeTogether
    <2>3. CASE q \in moved
      <3>1. q \in Made /\ r \in Made
        BY <1>4, <2>2, <2>3
      <3>2. calls'[q] = set_parting(mesh[q], ELEM_BASED, 0) /\ calls'[r] = set_parting(mesh[r], ELEM_BASED, 0)
        BY <1>1, <2>2, <2>3
      <3>3. set_parting(mesh[q], ELEM_BASED, 0) = set_parting(mesh[r], ELEM_BASED, 0)
        <4>1. /\ mesh[q].parting = mesh[r].parting
              /\ mesh[q].parting = ELEM_BASED => mesh[q].layers = mesh[r].layers
          <5>1. mesh[q].parting # Unset /\ mesh[r].parting # Unset
            BY <3>1 DEF Made
          <5>2. /\ mesh[q].parting # GHOSTED => mesh[q].layers = default_layers(mesh[q].parting)
                /\ mesh[r].parting # GHOSTED => mesh[r].layers = default_layers(mesh[r].parting)
            BY <5>1, RankFacts DEF Holds
          <5>3. ELEM_BASED # GHOSTED
            BY DEF ELEM_BASED, GHOSTED
          <5> QED BY <2>2, <5>2, <5>3 DEF Alike
        <4>2. ASSUME NEW m
              PROVE  set_parting(m, ELEM_BASED, 0) =
                       IF m.parting = ELEM_BASED /\ m.layers = 0 THEN <<>> ELSE <<"partition_by_elems">>
          <5>1. CASE m.parting = ELEM_BASED /\ m.layers = 0
            BY <5>1 DEF set_parting
          <5>2. CASE ~(m.parting = ELEM_BASED /\ m.layers = 0)
            BY <5>2 DEF set_parting
          <5> QED BY <5>1, <5>2
        <4>3. mesh[q].parting = ELEM_BASED /\ mesh[q].layers = 0 <=>
                mesh[r].parting = ELEM_BASED /\ mesh[r].layers = 0
          BY <4>1
        <4> QED BY <4>2, <4>3
      <3>4. DistsAlike(mesh'[q], mesh'[r], owner'[q], owner'[r])
        BY <1>5, <2>2, <2>3 DEF DistsAlike
      <3>5. Alike(mesh'[q], mesh'[r], unlike')
        BY <1>5, <1>7, <2>2, <2>3 DEF Alike
      <3> QED BY <3>2, <3>3, <3>4, <3>5 DEF CallsAlike
    <2>4. CASE q \notin moved
      <3>1. moved = {}
        BY <1>3, <1>4, <2>1, <2>4 DEF Made
      <3>2. mesh'[q] = mesh[q] /\ mesh'[r] = mesh[r] /\ owner'[q] = owner[q] /\ owner'[r] = owner[r]
        BY <1>6, <2>2, <2>4
      <3>3. calls'[q] = calls'[r]
        BY <1>1, <2>2, <2>4
      <3> QED BY <1>7, <2>2, <3>1, <3>2, <3>3 DEF CallsAlike
    <2> QED BY <2>3, <2>4
  <1> QED BY <1>1, <1>2, <1>7, <1>9, <1>10, <1>11 DEF CommInv, HasComm

-----------------------------------------------------------------------------
(* Theorems about a mesh that changes its communicator *)

LEMMA CommInvHolds == ASSUME CallersFit PROVE CommSpec => []CommInv
  <1>1. CommInv /\ [CommNext]_commVars => CommInv'
    <2> SUFFICES ASSUME CommInv, [CommNext]_commVars PROVE CommInv'
      OBVIOUS
    <2>1. CASE SetComm
      BY <2>1, SetCommInv
    <2>2. CASE Build
      BY <2>2, BuildInv
    <2>3. CASE AskDist
      BY <2>3, AskDistInv
    <2>4. CASE SetParting
      BY <2>4, SetPartingInv
    <2>5. CASE Balance
      BY <2>5, BalanceInv
    <2>6. CASE UNCHANGED commVars
      BY <2>6 DEF CommInv, HasComm, commVars
    <2> QED BY <2>1, <2>2, <2>3, <2>4, <2>5, <2>6 DEF CommNext
  <1>2. CommInit => CommInv
    BY InitInv
  <1> QED BY <1>1, <1>2, PTL DEF CommSpec

\* Owners are numbers in the communicator the mesh has, whatever communicators it had
\* before (set_comm, set_parting, balance).
THEOREM CommTyped == ASSUME CallersFit PROVE CommSpec => []CommTypeOK
  <1>1. CommInv => CommTypeOK
    <2> SUFFICES ASSUME CommInv PROVE CommTypeOK
      OBVIOUS
    <2>1. ops \in 0..MaxOps /\ failed \in BOOLEAN /\ unlike \subseteq {"layers", "sets", "numbers"}
      BY DEF CommInv
    <2>2. ASSUME NEW r \in Ranks
          PROVE  /\ mesh[r].comm = <<>> \/ r \in ToSet(mesh[r].comm)
                 /\ \A i \in DOMAIN mesh[r].owners : mesh[r].owners[i] \in 0..Len(mesh[r].comm) - 1
      <3>1. Holds(mesh[r], owner[r]) /\ OnRank(mesh[r], r)
        BY DEF CommInv
      <3>2. mesh[r].owners \in Seq(Nat) /\ DOMAIN mesh[r].owners = 1..Len(mesh[r].owners)
        BY <3>1, HoldsFields, LenProperties
      <3> QED BY <3>1, <3>2 DEF OnRank, Holds, Denotes
    <2> QED BY <2>1, <2>2 DEF CommTypeOK
  <1> QED BY <1>1, CommInvHolds, PTL

\* The owners of a rank's entities are the same ranks of the world before and after
\* set_comm, however the new communicator orders them, although a cached Dist may be
\* left on a communicator that the mesh had earlier (Dist::change_comm).
THEOREM OwnersFollowComm == ASSUME CallersFit PROVE CommSpec => []OwnersFollow
  <1>1. CommInv => OwnersFollow
    <2> SUFFICES ASSUME CommInv, NEW r \in Ranks
                 PROVE  [i \in DOMAIN mesh[r].owners |-> mesh[r].comm[mesh[r].owners[i] + 1]] = owner[r]
      BY DEF OwnersFollow
    <2>1. Holds(mesh[r], owner[r])
      BY DEF CommInv
    <2>2. /\ mesh[r].owners \in Seq(Nat) /\ owner[r] \in Seq(Ranks)
          /\ Len(mesh[r].owners) = Len(owner[r])
          /\ \A i \in 1..Len(owner[r]) : mesh[r].comm[mesh[r].owners[i] + 1] = owner[r][i]
      BY <2>1, HoldsFields DEF Holds, Denotes
    <2>3. DOMAIN mesh[r].owners = 1..Len(owner[r])
      BY <2>2, LenProperties
    <2>4. owner[r] = [i \in 1..Len(owner[r]) |-> owner[r][i]]
      BY <2>2, LenProperties
    <2> QED BY <2>2, <2>3, <2>4
  <1> QED BY <1>1, CommInvHolds, PTL

\* A cached Dist names the owners in the communicator it was made on, and exchanges
\* over it find their partners, although set_comm leaves it behind (set_comm,
\* Dist::change_comm).
THEOREM DistsFollowComm == ASSUME CallersFit PROVE CommSpec => []DistsFollow
  <1>1. CommInv => DistsFollow
    <2> SUFFICES ASSUME CommInv PROVE DistsFollow
      OBVIOUS
    <2>1. ASSUME NEW r \in Ranks, mesh[r].dist # <<>>
          PROVE  LET d == mesh[r].dist
                 IN  [i \in DOMAIN d[2] |-> d[1][d[2][i] + 1]] = owner[r]
      <3> DEFINE d == mesh[r].dist
      <3>1. Holds(mesh[r], owner[r])
        BY DEF CommInv
      <3>2. /\ d[2] \in Seq(Nat) /\ owner[r] \in Seq(Ranks)
            /\ Len(d[2]) = Len(owner[r])
            /\ \A i \in 1..Len(owner[r]) : d[1][d[2][i] + 1] = owner[r][i]
        BY <2>1, <3>1, HoldsFields DEF Holds, Denotes
      <3>3. DOMAIN d[2] = 1..Len(owner[r])
        BY <3>2, LenProperties
      <3>4. owner[r] = [i \in 1..Len(owner[r]) |-> owner[r][i]]
        BY <3>2, LenProperties
      <3> HIDE DEF d
      <3>5. [i \in DOMAIN d[2] |-> d[1][d[2][i] + 1]] = owner[r]
        BY <3>2, <3>3, <3>4
      <3> QED BY <3>5 DEF d
    <2>2. ASSUME NEW q \in Ranks, NEW r \in Ranks, Together(q, r)
          PROVE  DistsAlike(mesh[q], mesh[r], owner[q], owner[r])
      BY <2>2 DEF CommInv, Together
    <2> QED BY <2>1, <2>2 DEF DistsFollow, DistsAlike
  <1> QED BY <1>1, CommInvHolds, PTL

\* As long as set_comm gives no rank another number, the numbers in a cached Dist are
\* also those of the communicator the mesh has (set_comm, update_ownership).
THEOREM NumbersFollowComm == ASSUME CallersFit PROVE CommSpec => []NumbersFollow
  <1>1. CommInv => NumbersFollow
    BY DEF CommInv, NumbersFollow, NumbersKept
  <1> QED BY <1>1, CommInvHolds, PTL

\* All ranks of a communicator have the same parting, tags and class sets with pairs,
\* those that were sent the mesh by bcast_mesh included; layers and empty class sets
\* too, unless a mesh was sent whose layers are not the default or whose sets are empty.
THEOREM RanksAgreeAlways == ASSUME CallersFit PROVE CommSpec => []RanksAgree
  <1>1. CommInv => RanksAgree
    BY DEF CommInv, RanksAgree, Alike, Together
  <1> QED BY <1>1, CommInvHolds, PTL

\* All ranks of a communicator have hints for the next bisection or none has
\* (set_comm forgets them when the communicator grows).
THEOREM HintsAgreeAlways == ASSUME CallersFit PROVE CommSpec => []HintsAgree
  <1>1. CommInv => HintsAgree
    BY DEF CommInv, HintsAgree, Alike, Together
  <1> QED BY <1>1, CommInvHolds, PTL

\* A collective of set_parting is called by all ranks of the communicator or by none,
\* whatever layers callers ask for, unless a ghosted mesh of other than the default
\* layers was sent to new ranks, and those are the ranks that differ.
THEOREM CallsMatchAlways == ASSUME CallersFit PROVE CommSpec => []CallsMatch
  <1>1. CommInv => CallsMatch
    BY DEF CommInv, CallsMatch, CallsAlike, Together
  <1> QED BY <1>1, CommInvHolds, PTL

\* However callers put communicators and operations in a row, the owners of a mesh stay
\* the same over set_comm, also for a Dist left behind, and its ranks go on to make the
\* same calls but for layers that were not sent; the run checks this of three ranks.
THEOREM CallsStayTogether == ASSUME CallersFit PROVE CommSpec => []CallsGoTogether
  <1>1. OwnersFollow /\ DistsFollow /\ NumbersFollow /\ RanksAgree /\ HintsAgree /\ CallsMatch
          => CallsGoTogether
    BY DEF CallsGoTogether
  <1> QED BY <1>1, OwnersFollowComm, DistsFollowComm, NumbersFollowComm, RanksAgreeAlways,
             HintsAgreeAlways, CallsMatchAlways, PTL

-----------------------------------------------------------------------------
(* Matches *)

OwnOf == [c \in Copies |-> Owners[c[1]][c[2]]]
MatchesOf == [r \in Ranks |-> Matches[r]]

\* Matches with the leaves that they began with, whatever their roots are.
SameLeaves(ms) ==
  \A r \in Ranks : /\ Len(ms[r]) = Len(Matches[r])
                   /\ \A i \in 1..Len(Matches[r]) : ms[r][i].leaf = Matches[r][i].leaf

LEMMA MatchFacts ==
  ASSUME MatchesFit, NEW r \in Ranks
  PROVE  /\ Matches[r] \in Seq([leaf : Nat, root : Copies]) /\ Len(Matches[r]) \in Nat
         /\ \A i \in 1..Len(Matches[r]) :
              /\ Matches[r][i] \in [leaf : Nat, root : Copies]
              /\ <<r, Matches[r][i].leaf>> \in Copies
  <1>1. Matches[r] \in Seq([leaf : Nat, root : Copies])
    BY DEF MatchesFit
  <1>2. /\ Len(Matches[r]) \in Nat
        /\ \A i \in 1..Len(Matches[r]) : Matches[r][i] \in [leaf : Nat, root : Copies]
    BY <1>1, LenProperties, ElementOfSeq
  <1>3. ASSUME NEW i \in 1..Len(Matches[r]) PROVE <<r, Matches[r][i].leaf>> \in Copies
    <2>1. Matches[r][i].leaf \in Ents(r)
      BY DEF MatchesFit
    <2> QED BY <2>1 DEF Copies
  <1> QED BY <1>1, <1>2, <1>3

LEMMA OwnFacts ==
  ASSUME MatchesFit
  PROVE  OwnOf \in [Copies -> Copies] /\ \A c \in Copies : OwnOf[OwnOf[c]] = OwnOf[c]
  <1>1. ASSUME NEW c \in Copies
        PROVE  OwnOf[c] \in Copies /\ OwnOf[OwnOf[c]] = OwnOf[c]
    BY DEF MatchesFit, OwnOf
  <1> QED BY <1>1 DEF OwnOf

\* The match of a copy is the only one with it as its leaf.
LEMMA MatchOfFacts ==
  ASSUME MatchesFit, NEW ms, SameLeaves(ms), NEW c \in Copies
  PROVE  /\ match_of(ms, c) # 0 => /\ match_of(ms, c) \in 1..Len(Matches[c[1]])
                                   /\ Matches[c[1]][match_of(ms, c)].leaf = c[2]
         /\ \A i \in 1..Len(Matches[c[1]]) : Matches[c[1]][i].leaf = c[2] => match_of(ms, c) = i
  <1>1. c[1] \in Ranks
    BY DEF Copies
  <1>2. /\ Len(ms[c[1]]) = Len(Matches[c[1]])
        /\ \A i \in 1..Len(Matches[c[1]]) : ms[c[1]][i].leaf = Matches[c[1]][i].leaf
    BY <1>1 DEF SameLeaves
  <1>3. \A i, j \in 1..Len(Matches[c[1]]) : Matches[c[1]][i].leaf = Matches[c[1]][j].leaf => i = j
    <2>1. \A r \in Ranks : \A i, j \in 1..Len(Matches[r]) : Matches[r][i].leaf = Matches[r][j].leaf => i = j
      BY SMTT(30) DEF MatchesFit
    <2> QED BY <1>1, <2>1
  <1>4. CASE \E i \in 1..Len(ms[c[1]]) : ms[c[1]][i].leaf = c[2]
    <2> DEFINE k == CHOOSE i \in 1..Len(ms[c[1]]) : ms[c[1]][i].leaf = c[2]
    <2>1. k \in 1..Len(ms[c[1]]) /\ ms[c[1]][k].leaf = c[2]
      BY <1>4
    <2>2. match_of(ms, c) = k
      BY <1>4 DEF match_of
    <2> HIDE DEF k
    <2> QED BY <1>2, <1>3, <2>1, <2>2
  <1>5. CASE ~\E i \in 1..Len(ms[c[1]]) : ms[c[1]][i].leaf = c[2]
    BY <1>2, <1>5 DEF match_of
  <1> QED BY <1>4, <1>5

LEMMA SameMatch ==
  ASSUME MatchesFit, NEW ms, SameLeaves(ms), NEW ns, SameLeaves(ns), NEW c \in Copies
  PROVE  match_of(ms, c) = match_of(ns, c)
  <1>1. CASE match_of(ms, c) # 0
    BY <1>1, MatchOfFacts
  <1>2. CASE match_of(ns, c) # 0
    BY <1>2, MatchOfFacts
  <1> QED BY <1>1, <1>2

\* swap_root_owner, the first time: a leaf is owned by its root, and its root is its
\* owner.
LEMMA FirstSwap ==
  ASSUME MatchesFit
  PROVE  LET own1 == swapped_owners(OwnOf, MatchesOf)
             ms1 == swapped_matches(OwnOf, MatchesOf)
         IN  /\ own1 \in [Copies -> Copies]
             /\ \A c \in Copies : match_of(MatchesOf, c) = 0 => own1[c] = OwnOf[c]
             /\ \A r \in Ranks : \A i \in 1..Len(Matches[r]) :
                  own1[<<r, Matches[r][i].leaf>>] = Matches[r][i].root
             /\ SameLeaves(MatchesOf) /\ SameLeaves(ms1)
             /\ \A r \in Ranks : \A i \in 1..Len(Matches[r]) :
                  ms1[r][i] = [Matches[r][i] EXCEPT !.root = OwnOf[<<r, Matches[r][i].leaf>>]]
  <1> DEFINE own1 == swapped_owners(OwnOf, MatchesOf)
             ms1 == swapped_matches(OwnOf, MatchesOf)
  <1>1. SameLeaves(MatchesOf)
    BY DEF SameLeaves, MatchesOf
  <1>2. own1 = [c \in Copies |-> IF match_of(MatchesOf, c) = 0 THEN OwnOf[c]
                                 ELSE MatchesOf[c[1]][match_of(MatchesOf, c)].root]
    BY DEF swapped_owners
  <1>3. ASSUME NEW c \in Copies PROVE own1[c] \in Copies
    <2>1. CASE match_of(MatchesOf, c) = 0
      BY <1>2, <2>1, OwnFacts
    <2>2. CASE match_of(MatchesOf, c) # 0
      <3>1. c[1] \in Ranks
        BY DEF Copies
      <3>2. match_of(MatchesOf, c) \in 1..Len(Matches[c[1]])
        BY <1>1, <2>2, MatchOfFacts
      <3>3. Matches[c[1]][match_of(MatchesOf, c)].root \in Copies
        BY <3>1, <3>2, MatchFacts
      <3> QED BY <1>2, <2>2, <3>1, <3>3 DEF MatchesOf
    <2> QED BY <2>1, <2>2
  <1>4. own1 \in [Copies -> Copies]
    <2> HIDE DEF own1
    <2> QED BY <1>2, <1>3
  <1>5. ASSUME NEW r \in Ranks, NEW i \in 1..Len(Matches[r])
        PROVE  own1[<<r, Matches[r][i].leaf>>] = Matches[r][i].root
    <2> DEFINE c == <<r, Matches[r][i].leaf>>
    <2>1. c \in Copies /\ c[1] = r /\ c[2] = Matches[r][i].leaf
      BY MatchFacts
    <2>2. match_of(MatchesOf, c) = i /\ i # 0
      BY <1>1, <2>1, MatchOfFacts
    <2> HIDE DEF c
    <2>3. own1[c] = MatchesOf[r][i].root
      BY <1>2, <2>1, <2>2
    <2> QED BY <2>3 DEF c, MatchesOf
  <1>6. ASSUME NEW r \in Ranks
        PROVE  /\ Len(ms1[r]) = Len(Matches[r])
               /\ \A i \in 1..Len(Matches[r]) :
                    /\ ms1[r][i] = [Matches[r][i] EXCEPT !.root = OwnOf[<<r, Matches[r][i].leaf>>]]
                    /\ ms1[r][i].leaf = Matches[r][i].leaf
    <2>1. ms1[r] = [i \in 1..Len(Matches[r]) |->
                      [Matches[r][i] EXCEPT !.root = OwnOf[<<r, Matches[r][i].leaf>>]]]
      BY DEF swapped_matches, MatchesOf
    <2>2. Len(Matches[r]) \in Nat
      BY MatchFacts
    <2>3. Len(ms1[r]) = Len(Matches[r])
      BY <2>1, <2>2
    <2>4. ASSUME NEW i \in 1..Len(Matches[r])
          PROVE  /\ ms1[r][i] = [Matches[r][i] EXCEPT !.root = OwnOf[<<r, Matches[r][i].leaf>>]]
                 /\ ms1[r][i].leaf = Matches[r][i].leaf
      <3>1. Matches[r][i] \in [leaf : Nat, root : Copies]
        BY MatchFacts
      <3>2. ms1[r][i] = [Matches[r][i] EXCEPT !.root = OwnOf[<<r, Matches[r][i].leaf>>]]
        BY <2>1
      <3> QED BY <3>1, <3>2
    <2> QED BY <2>3, <2>4
  <1>7. SameLeaves(ms1)
    BY <1>6 DEF SameLeaves
  <1> QED BY <1>1, <1>2, <1>4, <1>5, <1>6, <1>7

\* The second time: owners and matches are what they were.
LEMMA SecondSwap ==
  ASSUME MatchesFit
  PROVE  LET own1 == swapped_owners(OwnOf, MatchesOf)
             ms1 == swapped_matches(OwnOf, MatchesOf)
         IN  swap_back(own1, ms1) = OwnOf /\ swapped_matches(own1, ms1) = MatchesOf
  <1> DEFINE own1 == swapped_owners(OwnOf, MatchesOf)
             ms1 == swapped_matches(OwnOf, MatchesOf)
  <1>1. /\ SameLeaves(MatchesOf) /\ SameLeaves(ms1)
        /\ \A c \in Copies : match_of(MatchesOf, c) = 0 => own1[c] = OwnOf[c]
        /\ \A r \in Ranks : \A i \in 1..Len(Matches[r]) :
             /\ own1[<<r, Matches[r][i].leaf>>] = Matches[r][i].root
             /\ ms1[r][i] = [Matches[r][i] EXCEPT !.root = OwnOf[<<r, Matches[r][i].leaf>>]]
    BY FirstSwap
  <1> HIDE DEF own1, ms1
  <1>2. ASSUME NEW c \in Copies
        PROVE  (IF match_of(ms1, c) = 0 THEN own1[c] ELSE ms1[c[1]][match_of(ms1, c)].root) = OwnOf[c]
    <2>1. match_of(ms1, c) = match_of(MatchesOf, c)
      BY <1>1, SameMatch
    <2>2. CASE match_of(ms1, c) # 0
      <3> DEFINE k == match_of(ms1, c)
      <3>1. c[1] \in Ranks /\ c = <<c[1], c[2]>>
        BY DEF Copies
      <3>2. k \in 1..Len(Matches[c[1]]) /\ Matches[c[1]][k].leaf = c[2]
        BY <1>1, <2>2, MatchOfFacts
      <3> HIDE DEF k
      <3>3. Matches[c[1]][k] \in [leaf : Nat, root : Copies]
        BY <3>1, <3>2, MatchFacts
      <3>4. ms1[c[1]][k] = [Matches[c[1]][k] EXCEPT !.root = OwnOf[c]]
        BY <1>1, <3>1, <3>2
      <3>5. ms1[c[1]][k].root = OwnOf[c]
        BY <3>3, <3>4
      <3> QED BY <2>2, <3>5 DEF k
    <2> QED BY <1>1, <2>1, <2>2
  <1>3. swap_back(own1, ms1) = OwnOf
    BY <1>2 DEF swap_back, swapped_owners, OwnOf
  <1>4. ASSUME NEW r \in Ranks
        PROVE  [i \in 1..Len(ms1[r]) |-> [ms1[r][i] EXCEPT !.root = own1[<<r, ms1[r][i].leaf>>]]] = Matches[r]
    <2>1. Len(ms1[r]) = Len(Matches[r]) /\ \A i \in 1..Len(Matches[r]) : ms1[r][i].leaf = Matches[r][i].leaf
      BY <1>1 DEF SameLeaves
    <2>2. ASSUME NEW i \in 1..Len(Matches[r])
          PROVE  [ms1[r][i] EXCEPT !.root = own1[<<r, ms1[r][i].leaf>>]] = Matches[r][i]
      <3> DEFINE m == Matches[r][i]
      <3>1. m \in [leaf : Nat, root : Copies]
        BY MatchFacts
      <3>2. ms1[r][i] = [m EXCEPT !.root = OwnOf[<<r, m.leaf>>]] /\ own1[<<r, m.leaf>>] = m.root
        BY <1>1
      <3> HIDE DEF m
      <3>3. [ms1[r][i] EXCEPT !.root = m.root] = m
        BY <3>1, <3>2
      <3> QED BY <2>1, <3>2, <3>3 DEF m
    <2>3. Matches[r] = [i \in 1..Len(Matches[r]) |-> Matches[r][i]]
      BY MatchFacts, LenProperties
    <2> QED BY <2>1, <2>2, <2>3
  <1>5. swapped_matches(own1, ms1) = MatchesOf
    BY <1>4 DEF swapped_matches, MatchesOf
  <1> QED BY <1>3, <1>5 DEF own1, ms1

\* The invariant: owners and matches are those the mesh was given, and a Dist that is
\* kept is made of them.
MatchedInv ==
  /\ ops \in 0..MaxOps /\ tag \in [Copies -> TagValues]
  /\ owners = OwnOf /\ matches = MatchesOf
  /\ dists # <<>> => dists[1] = OwnOf
  /\ LeavesMatch /\ CopiesAgree

LEMMA MatchedInitInv ==
  ASSUME MatchesFit, MatchedInit
  PROVE  MatchedInv
  <1>1. ops \in 0..MaxOps
    <2>1. MaxOps \in Nat
      BY DEF MatchesFit
    <2> QED BY <2>1 DEF MatchedInit
  <1>2. last = "none" /\ owners = OwnOf /\ matches = MatchesOf /\ dists = <<>> /\ tag \in [Copies -> TagValues]
    BY DEF MatchedInit, OwnOf, MatchesOf
  <1> QED BY <1>1, <1>2 DEF MatchedInv, LeavesMatch, CopiesAgree

LEMMA ExchFacts ==
  ASSUME NEW own \in [Copies -> Copies], NEW a \in [Copies -> TagValues], NEW ds, ds[1] = own
  PROVE  Dist_exch(ds, a) \in [Copies -> TagValues] /\ \A c \in Copies : Dist_exch(ds, a)[c] = a[own[c]]
  BY DEF Dist_exch

LEMMA MatchedStep ==
  ASSUME MatchesFit, NRanks > 1, MatchedInv, MatchedNext
  PROVE  MatchedInv'
  <1>1. ops' \in 0..MaxOps
    <2>1. ops \in 0..MaxOps /\ MaxOps \in Nat
      BY DEF MatchedInv, MatchesFit
    <2>2. ops < MaxOps /\ ops' = ops + 1
      BY DEF MatchedNext, SetTag, SyncTag, SyncTagMatched, Op
    <2> QED BY <2>1, <2>2
  <1>2. /\ OwnOf \in [Copies -> Copies] /\ \A c \in Copies : OwnOf[OwnOf[c]] = OwnOf[c]
        /\ tag \in [Copies -> TagValues] /\ owners = OwnOf /\ matches = MatchesOf
        /\ dists # <<>> => dists[1] = OwnOf
    BY OwnFacts DEF MatchedInv
  <1>3. CASE SetTag
    <2>1. /\ tag' \in [Copies -> TagValues] /\ last' = "set_tag"
          /\ owners' = owners /\ matches' = matches /\ dists' = dists
      BY <1>3 DEF SetTag, Op
    <2> QED BY <1>1, <1>2, <2>1 DEF MatchedInv, LeavesMatch, CopiesAgree
  <1>4. CASE SyncTag
    <2>1. /\ dists' = dist_of(dists, owners) /\ tag' = Dist_exch(dists', tag)
          /\ owners' = OwnOf /\ matches' = MatchesOf /\ last' = "sync_tag"
      BY <1>2, <1>4 DEF SyncTag, Op, could_be_shared
    <2>2. dists'[1] = OwnOf
      BY <1>2, <2>1 DEF dist_of
    <2>3. tag' \in [Copies -> TagValues] /\ \A c \in Copies : tag'[c] = tag[OwnOf[c]]
      BY <1>2, <2>1, <2>2, ExchFacts
    <2>4. \A c \in Copies : tag'[c] = tag'[Owners[c[1]][c[2]]]
      <3>1. \A c \in Copies : tag'[c] = tag'[OwnOf[c]]
        BY <1>2, <2>3
      <3> QED BY <3>1 DEF OwnOf
    <2> QED BY <1>1, <2>1, <2>2, <2>3, <2>4 DEF MatchedInv, LeavesMatch, CopiesAgree
  <1>5. CASE SyncTagMatched
    <2> DEFINE own1 == swapped_owners(OwnOf, MatchesOf)
               ms1 == swapped_matches(OwnOf, MatchesOf)
    <2>1. /\ tag' = Dist_exch(<<own1>>, tag) /\ owners' = swap_back(own1, ms1)
          /\ matches' = swapped_matches(own1, ms1) /\ dists' = <<>> /\ last' = "sync_tag_matched"
      BY <1>2, <1>5 DEF SyncTagMatched, Op, could_be_shared
    <2>2. owners' = OwnOf /\ matches' = MatchesOf
      BY <2>1, SecondSwap
    <2>3. /\ own1 \in [Copies -> Copies]
          /\ \A r \in Ranks : \A i \in 1..Len(Matches[r]) :
               own1[<<r, Matches[r][i].leaf>>] = Matches[r][i].root
      BY FirstSwap
    <2> HIDE DEF own1, ms1
    <2>4. tag' \in [Copies -> TagValues] /\ \A c \in Copies : tag'[c] = tag[own1[c]]
      BY <1>2, <2>1, <2>3, ExchFacts
    <2>5. ASSUME NEW r \in Ranks, NEW i \in 1..Len(Matches[r])
          PROVE  tag'[<<r, Matches[r][i].leaf>>] = tag'[Matches[r][i].root]
      <3> DEFINE root == Matches[r][i].root
      <3>1. <<r, Matches[r][i].leaf>> \in Copies /\ root \in Copies
        BY MatchFacts
      <3>2. root[1] \in Ranks /\ root = <<root[1], root[2]>>
        BY <3>1 DEF Copies
      <3>3. PICK j \in 1..Len(Matches[root[1]]) :
              Matches[root[1]][j] = [leaf |-> root[2], root |-> root]
        BY DEF MatchesFit
      <3>4. own1[<<r, Matches[r][i].leaf>>] = root
        BY <2>3
      <3> HIDE DEF root
      <3>5. own1[root] = root
        BY <2>3, <3>2, <3>3
      <3> QED BY <2>4, <3>1, <3>4, <3>5 DEF root
    <2> QED BY <1>1, <2>1, <2>2, <2>4, <2>5 DEF MatchedInv, LeavesMatch, CopiesAgree
  <1> QED BY <1>3, <1>4, <1>5 DEF MatchedNext

LEMMA MatchedInvHolds == ASSUME MatchesFit, NRanks > 1 PROVE MatchedSpec => []MatchedInv
  <1>1. MatchedInit => MatchedInv
    BY MatchedInitInv
  <1>2. MatchedInv /\ [MatchedNext]_matchedVars => MatchedInv'
    <2> SUFFICES ASSUME MatchedInv, [MatchedNext]_matchedVars PROVE MatchedInv'
      OBVIOUS
    <2>1. CASE MatchedNext
      BY <2>1, MatchedStep
    <2>2. CASE UNCHANGED matchedVars
      BY <2>2 DEF MatchedInv, LeavesMatch, CopiesAgree, matchedVars
    <2> QED BY <2>1, <2>2
  <1> QED BY <1>1, <1>2, PTL DEF MatchedSpec

-----------------------------------------------------------------------------
(* Theorems about periodic meshes *)

\* A Dist that is kept between exchanges is one of the owners the mesh has, although
\* sync_tag_matched exchanges them for a while (set_owners drops it).
THEOREM MatchedDistCurrent == ASSUME MatchesFit, NRanks > 1 PROVE MatchedSpec => []MatchedTypeOK
  <1>1. MatchedInv => MatchedTypeOK
    BY DEF MatchedInv, MatchedTypeOK
  <1> QED BY <1>1, MatchedInvHolds, PTL

\* However often tags are synchronised along the matches, owners and matches end up as
\* they were: swapping roots and owners twice gives every leaf its owner and every
\* match its root (swap_root_owner, on two ranks or more).
THEOREM SwapsCancel == ASSUME MatchesFit, NRanks > 1 PROVE MatchedSpec => []OwnersRestored
  <1>1. MatchedInv => OwnersRestored
    BY DEF MatchedInv, OwnersRestored, OwnOf, MatchesOf
  <1> QED BY <1>1, MatchedInvHolds, PTL

\* After sync_tag_matched every leaf has the value of its root, wherever the owner of
\* the root is.
THEOREM LeavesGetRoots == ASSUME MatchesFit, NRanks > 1 PROVE MatchedSpec => []LeavesMatch
  <1>1. MatchedInv => LeavesMatch
    BY DEF MatchedInv
  <1> QED BY <1>1, MatchedInvHolds, PTL

\* After sync_tag all copies of an entity have the value of its owner, also when leaves
\* had been given the values of their roots before.
THEOREM SyncedCopiesAgree == ASSUME MatchesFit, NRanks > 1 PROVE MatchedSpec => []CopiesAgree
  <1>1. MatchedInv => CopiesAgree
    BY DEF MatchedInv
  <1> QED BY <1>1, MatchedInvHolds, PTL
=============================================================================
