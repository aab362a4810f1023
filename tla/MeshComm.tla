------------------------------ MODULE MeshComm ------------------------------
(***************************************************************************)
(* A mesh that changes its communicator: Mesh::set_comm, with bcast_mesh   *)
(* for ranks that have no mesh yet, and the calls of set_parting that come *)
(* after it.  Each rank has its own copy of what steers the collectives:   *)
(* if two copies differ, some ranks make a call that others do not.        *)
(*                                                                         *)
(* A communicator is the sequence of its ranks of the world; the rank r of *)
(* the world has the number IndexIn(c, r) in it.  One dimension stands for *)
(* all, as set_comm treats them alike.                                     *)
(***************************************************************************)
EXTENDS Integers, Sequences, SequencesExt, FiniteSets

CONSTANTS
  NRanks,      \* ranks of the world
  Comms,       \* communicators that callers pass to set_comm
  Parts,       \* what callers build on the ranks of the first one: [parting, layers,
               \* tags, sets]; sets are the pairs by name, names are numbers in their order
  Layouts,     \* arguments of set_parting: <<parting, layers>>
  MaxOps       \* bound: operations after the mesh is made

Ranks == 0..NRanks - 1
Unset == -1
ELEM_BASED == 0
GHOSTED == 1
VERT_BASED == 2

VARIABLES
  mesh,    \* by rank: the Mesh
  owner,   \* by rank: the ranks of the world that own its entities
  calls,   \* by rank: the collectives that its last set_parting called
  ops,     \* operations so far
  failed,  \* a check failed, or what bcast_mesh read past the end of brought it down
  unlike   \* history: in what ranks may differ, see RanksAgree and NumbersFollow

commVars == <<mesh, owner, calls, ops, failed, unlike>>

IndexIn(c, r) == (CHOOSE i \in 1..Len(c) : c[i] = r) - 1

\* comm is <<>> for none, dist is <<>> for none cached or <<comm, ranks>>.
NewMesh == [comm |-> <<>>, parting |-> Unset, layers |-> Unset, tags |-> <<>>, sets |-> <<>>,
            hints |-> FALSE, owners |-> <<>>, dist |-> <<>>]

CommInit ==
  /\ mesh = [r \in Ranks |-> NewMesh]
  /\ owner = [r \in Ranks |-> <<>>]
  /\ calls = [r \in Ranks |-> <<>>]
  /\ ops = 0 /\ failed = FALSE /\ unlike = {}

HasComm(r) == mesh[r].comm # <<>>
Made == {r \in Ranks : HasComm(r) /\ mesh[r].parting # Unset}

\* Some ranks are in a collective that others do not call: nobody comes back from
\* it, or the others go on to wait for them in the next one.
Stuck == \E q, r \in Made : calls[q] # calls[r]

Going == ops < MaxOps /\ ops' = ops + 1 /\ ~failed /\ ~Stuck

-----------------------------------------------------------------------------
\* set_parting(parting) without layers
default_layers(parting) == IF parting = ELEM_BASED THEN 0 ELSE 1

\* A class set comes into being with its first pair.
sent_sets(sets) == [n \in {k \in DOMAIN sets : sets[k] # <<>>} |-> sets[n]]

\* All sources go through as many sets and pairs as the root has, in the order of
\* the names: here a source has no such set or pair.
reads_past(source, root) ==
  \/ ~ (DOMAIN root.sets \subseteq DOMAIN source.sets)
  \/ \E e \in DOMAIN source.sets \ DOMAIN root.sets : \E n \in DOMAIN root.sets : e < n

\* bcast_mesh on a rank that is not a source: rank 0 of the new communicator tells
\* it what follows.
bcast_mesh(m, root) ==
  [m EXCEPT !.parting = root.parting, !.layers = default_layers(root.parting), !.tags = root.tags,
            !.sets = sent_sets(root.sets)]

\* ask_dist
ask_dist(m) == IF m.dist = <<>> THEN <<m.comm, m.owners>> ELSE m.dist

\* Dist::change_comm: neighbours tell each other their numbers in the new one.
Dist_change_comm(d, new) ==
  <<new, [i \in 1..Len(d[2]) |-> IndexIn(new, d[1][d[2][i] + 1])]>>

Growing(had, new) == had # {} /\ had # ToSet(new)

\* Faulty variant: hints are kept.
forget_hints_never(m, grows) == m

\* What set_comm does to the hints of a rank that has the mesh already.
forget_hints(m, grows) == IF grows THEN [m EXCEPT !.hints = FALSE] ELSE m

set_comm(r, had, new) ==
  LET grows == Growing(had, new)
      root == mesh[new[1]]
      m == IF r \in had THEN forget_hints(mesh[r], grows)
           ELSE IF grows THEN bcast_mesh([mesh[r] EXCEPT !.comm = <<r>>], root) ELSE mesh[r]
  IN  IF had # {} /\ NRanks > 1 /\ m.parting # Unset   \* no dimension, no loop
      THEN [m EXCEPT !.comm = new, !.dist = ask_dist(m), !.owners = Dist_change_comm(ask_dist(m), new)[2]]
      ELSE [m EXCEPT !.comm = new]

\* A rank has another number than in the communicator that it had.
Renumbers(had, new) ==
  \E r \in had : \E q \in ToSet(mesh[r].comm) : IndexIn(new, q) # IndexIn(mesh[r].comm, q)

\* What set_comm may make differ: bcast_mesh sends neither layers nor empty sets, and
\* a cached Dist keeps the old numbers.
set_apart(had, new) ==
  LET root == mesh[new[1]]
  IN  (IF Growing(had, new) /\ \E r \in had : mesh[r].layers # default_layers(mesh[r].parting)
       THEN {"layers"} ELSE {})
      \cup (IF Growing(had, new) /\ sent_sets(root.sets) # root.sets THEN {"sets"} ELSE {})
      \cup (IF Renumbers(had, new) THEN {"numbers"} ELSE {})

\* The ranks of the communicator the mesh has take part, or Dist::change_comm
\* would wait for them.
SetComm ==
  \E new \in Comms :
    LET had == {r \in ToSet(new) : HasComm(r)}
        root == mesh[new[1]]
        refused == Growing(had, new) /\ (new[1] \notin had \/ root.parting = Unset)
        past == Growing(had, new) /\ \E r \in had : reads_past(mesh[r], root)
    IN  /\ Going
        /\ \A r \in Ranks : HasComm(r) => ToSet(mesh[r].comm) \subseteq ToSet(new)
        /\ \/ /\ refused \/ past
              /\ failed' = TRUE
              /\ UNCHANGED <<mesh, unlike>>
           \/ /\ ~refused
              /\ failed' = FALSE
              /\ mesh' = [r \in Ranks |-> IF r \in ToSet(new) THEN set_comm(r, had, new) ELSE mesh[r]]
              /\ unlike' = unlike \cup set_apart(had, new)
        /\ calls' = [r \in Ranks |-> <<>>]
        /\ UNCHANGED owner

-----------------------------------------------------------------------------
\* The ranks that have a communicator build or read a mesh in it, and a rank may
\* own entities of any other.
Build ==
  \E p \in Parts :
    LET on == {r \in Ranks : HasComm(r)}
    IN  /\ Going /\ on # {} /\ \A r \in on : mesh[r].parting = Unset
        /\ \E who \in [on -> on] :
             /\ owner' = [r \in Ranks |-> IF r \in on THEN <<who[r], r>> ELSE <<>>]
             /\ mesh' = [r \in Ranks |-> IF r \notin on THEN mesh[r] ELSE
                  [mesh[r] EXCEPT !.parting = p.parting, !.layers = p.layers, !.tags = p.tags,
                     !.sets = p.sets,
                     !.owners = <<IndexIn(mesh[r].comm, who[r]), IndexIn(mesh[r].comm, r)>>]]
        /\ UNCHANGED <<calls, failed, unlike>>

\* Anything that asks for the Dist of the entities leaves it in the mesh.
AskDist ==
  /\ Going /\ Made # {}
  /\ mesh' = [r \in Ranks |-> IF r \in Made THEN [mesh[r] EXCEPT !.dist = ask_dist(mesh[r])] ELSE mesh[r]]
  /\ UNCHANGED <<owner, calls, failed, unlike>>

\* ghost_mesh goes through as many rounds as there are new layers
ghost_mesh(n) == <<"ghost_mesh", n>>

\* The collectives set_parting calls on a rank.
set_parting(m, parting, layers) ==
  IF m.parting = parting /\ m.layers = layers THEN <<>>
  ELSE IF parting = ELEM_BASED THEN <<"partition_by_elems">>
  ELSE IF parting = VERT_BASED THEN <<"partition_by_verts">>
  ELSE IF m.parting = ELEM_BASED THEN <<ghost_mesh(layers)>>
  ELSE IF m.parting = GHOSTED /\ layers > m.layers THEN <<ghost_mesh(layers - m.layers)>>
  ELSE <<"partition_by_elems", ghost_mesh(layers)>>

\* What rank r has after a migration: new owners, and no Dist yet.
migrated(r) == [mesh[r] EXCEPT !.dist = <<>>, !.owners = <<0, IndexIn(mesh[r].comm, r)>>]

\* No rank moves alone, and if all make the same calls they end up with the same.
SetParting ==
  \E l \in Layouts :
    LET called == [r \in Ranks |-> IF r \in Made THEN set_parting(mesh[r], l[1], l[2]) ELSE <<>>]
        moved == {r \in Made : called[r] # <<>> /\ Len(mesh[r].comm) > 1}
    IN  /\ Going /\ Made # {}
        /\ calls' = called
        /\ IF \E q, r \in Made : called[q] # called[r]
           THEN UNCHANGED <<mesh, owner, unlike>>
           ELSE /\ mesh' = [r \in Ranks |-> IF r \notin Made THEN mesh[r]
                            ELSE [(IF r \in moved THEN migrated(r) ELSE mesh[r])
                                    EXCEPT !.parting = l[1], !.layers = l[2]]]
                /\ owner' = [r \in Ranks |-> IF r \in moved THEN <<mesh[r].comm[1], r>> ELSE owner[r]]
                /\ unlike' = unlike \ ({"layers"} \cup IF moved # {} THEN {"numbers"} ELSE {})
        /\ UNCHANGED failed

\* balance goes to ELEM_BASED, migrates and leaves hints, on all ranks of a
\* communicator of several.
Balance ==
  LET moved == {r \in Made : Len(mesh[r].comm) > 1}
  IN  /\ Going /\ Made # {}
      /\ calls' = [r \in Ranks |-> IF r \in moved THEN set_parting(mesh[r], ELEM_BASED, 0) ELSE <<>>]
      /\ mesh' = [r \in Ranks |-> IF r \notin moved THEN mesh[r]
                  ELSE [migrated(r) EXCEPT !.parting = ELEM_BASED, !.layers = 0, !.hints = TRUE]]
      /\ owner' = [r \in Ranks |-> IF r \in moved THEN <<mesh[r].comm[1], r>> ELSE owner[r]]
      /\ unlike' = IF moved # {} THEN unlike \ {"layers", "numbers"} ELSE unlike
      /\ UNCHANGED failed

CommNext == SetComm \/ Build \/ AskDist \/ SetParting \/ Balance

CommSpec == CommInit /\ [][CommNext]_commVars

\* What the properties below rest on.  A communicator names each of its ranks once;
\* set_parting checks that only ghosting has any other number of layers than the
\* default, and ghost_mesh that it has some.
Partings == {ELEM_BASED, GHOSTED, VERT_BASED}
LayersFit(parting, layers) ==
  /\ parting \in Partings /\ layers \in Nat
  /\ parting # GHOSTED => layers = default_layers(parting)
  /\ parting = GHOSTED => layers > 0

CallersFit ==
  /\ NRanks \in Nat /\ MaxOps \in Nat
  /\ \A c \in Comms : /\ c \in Seq(Ranks) /\ c # <<>>
                      /\ \A i, j \in DOMAIN c : c[i] = c[j] => i = j
  /\ \A p \in Parts : LayersFit(p.parting, p.layers) /\ DOMAIN p.sets \subseteq Nat
  /\ \A l \in Layouts : LayersFit(l[1], l[2])

-----------------------------------------------------------------------------
\* Owners are numbers in the communicator the mesh has.
CommTypeOK ==
  /\ ops \in 0..MaxOps /\ failed \in BOOLEAN /\ unlike \subseteq {"layers", "sets", "numbers"}
  /\ \A r \in Ranks :
       /\ mesh[r].comm = <<>> \/ r \in ToSet(mesh[r].comm)
       /\ \A i \in DOMAIN mesh[r].owners : mesh[r].owners[i] \in 0..Len(mesh[r].comm) - 1

\* The entities of a rank have the same owners after set_comm as before, under
\* their numbers in the new communicator, however it orders the ranks.
OwnersFollow ==
  \A r \in Ranks :
    [i \in DOMAIN mesh[r].owners |-> mesh[r].comm[mesh[r].owners[i] + 1]] = owner[r]

\* Two ranks of the communicator the mesh has.
Together(q, r) == HasComm(q) /\ HasComm(r) /\ mesh[q].comm = mesh[r].comm

\* All ranks of a communicator have the same parting and the same lists of tags and
\* of class sets with pairs, so that they go through the same loops of collectives.
\* Layers and empty class sets are the same until a mesh that has other layers than
\* the default, or an empty set, is sent to new ranks (bcast_mesh), layers again
\* after the next set_parting that comes back.
RanksAgree ==
  \A q, r \in Ranks : Together(q, r) =>
    /\ mesh[q].parting = mesh[r].parting
    /\ mesh[q].tags = mesh[r].tags
    /\ sent_sets(mesh[q].sets) = sent_sets(mesh[r].sets)
    /\ mesh[q].sets = mesh[r].sets \/ "sets" \in unlike
    /\ mesh[q].layers = mesh[r].layers \/ "layers" \in unlike

\* All or none of them have hints, "which would break RIB" (set_comm).
HintsAgree ==
  \A q, r \in Ranks : Together(q, r) => mesh[q].hints = mesh[r].hints

\* A collective is called by all ranks of the communicator or by none, unless the
\* mesh is ghosted and new ranks were not told its layers (bcast_mesh): then those
\* that think they have the layers asked for return, and the others wait for them.
CallsMatch ==
  \A q, r \in Ranks : Together(q, r) /\ calls[q] # calls[r] =>
    /\ "layers" \in unlike
    /\ mesh[q].parting = GHOSTED
    /\ mesh[q].layers # mesh[r].layers

\* A cached Dist names the owners in the communicator it was made on, which set_comm
\* leaves behind; all ranks have one or none, and those that have entities have it
\* on the same communicator, so an exchange over it finds its partners.
DistsFollow ==
  /\ \A r \in Ranks : LET d == mesh[r].dist IN
       d # <<>> => [i \in DOMAIN d[2] |-> d[1][d[2][i] + 1]] = owner[r]
  /\ \A q, r \in Ranks : Together(q, r) =>
       /\ mesh[q].dist = <<>> <=> mesh[r].dist = <<>>
       /\ mesh[q].dist # <<>> /\ owner[q] # <<>> /\ owner[r] # <<>> =>
            mesh[q].dist[1] = mesh[r].dist[1]

\* Its numbers of ranks can be mixed with those of the communicator the mesh has, as
\* update_ownership does, until set_comm gives a rank another number.
NumbersFollow ==
  \A r \in Ranks : mesh[r].dist # <<>> =>
    mesh[r].dist[2] = mesh[r].owners \/ "numbers" \in unlike

\* However a mesh comes from one communicator to another, its owners stay the same,
\* also for a Dist that is left behind, and its ranks go on to make the same calls
\* but for the layers that new ranks are not told.
CallsGoTogether ==
  OwnersFollow /\ DistsFollow /\ NumbersFollow /\ RanksAgree /\ HintsAgree /\ CallsMatch

-----------------------------------------------------------------------------
(***************************************************************************)
(* Periodic meshes: entities on one side of a mesh match entities of the   *)
(* other.  A match says of a leaf entity on which rank and at which index  *)
(* its root is; sync_tag_matched gives leaves the values of their roots by *)
(* putting the roots in the place of the owners for one exchange.          *)
(*                                                                         *)
(* One dimension below that of the elements and one tag.  Operations are   *)
(* collective and exchange data only, so each is one step of all ranks.    *)
(***************************************************************************)
CONSTANTS
  NEnts,     \* NEnts[r]: entities of rank r
  Owners,    \* Owners[r][i]: <<rank, index>> of the owner of entity i of rank r
  Matches,   \* Matches[r]: a sequence of [leaf, root], root is <<rank, index>>
  TagValues  \* values of the tag

Ents(r) == 0..NEnts[r] - 1
Copies == {c \in Ranks \X UNION {Ents(r) : r \in Ranks} : c[2] \in Ents(c[1])}

VARIABLES
  owners,   \* owners_: <<rank, index>> by copy
  matches,  \* matches_: by rank
  dists,     \* dists_: <<>> for none, or <<the owners it was made of>>
  tag,      \* the tag, by copy
  last      \* the last operation; ops counts them here too

matchedVars == <<owners, matches, dists, tag, last, ops>>

MatchedInit ==
  /\ owners = [c \in Copies |-> Owners[c[1]][c[2]]]
  /\ matches = [r \in Ranks |-> Matches[r]]
  /\ dists = <<>>
  /\ tag \in [Copies -> TagValues]
  /\ last = "none" /\ ops = 0

-----------------------------------------------------------------------------
could_be_shared == NRanks > 1   \* these are not the elements

dist_of(ds, own) == IF ds = <<>> THEN <<own>> ELSE ds

\* ask_dist(ent_dim).invert().exch(a, width): a copy gets the value of its owner
Dist_exch(ds, a) == [c \in Copies |-> a[ds[1][c]]]

\* The match of a copy, 0 if it has none.
match_of(ms, c) ==
  IF \E i \in 1..Len(ms[c[1]]) : ms[c[1]][i].leaf = c[2]
  THEN CHOOSE i \in 1..Len(ms[c[1]]) : ms[c[1]][i].leaf = c[2] ELSE 0

\* swap_root_owner: leaves' owners and roots change places; set_owners drops the
\* Dist
swapped_owners(own, ms) ==
  [c \in Copies |-> IF match_of(ms, c) = 0 THEN own[c] ELSE ms[c[1]][match_of(ms, c)].root]

swapped_matches(own, ms) ==
  [r \in Ranks |-> [i \in 1..Len(ms[r]) |-> [ms[r][i] EXCEPT !.root = own[<<r, ms[r][i].leaf>>]]]]

Op(name) == ops < MaxOps /\ ops' = ops + 1 /\ last' = name

SetTag ==
  /\ Op("set_tag")
  /\ tag' \in [Copies -> TagValues]
  /\ UNCHANGED <<owners, matches, dists>>

SyncTag ==
  /\ Op("sync_tag")
  /\ IF could_be_shared
     THEN dists' = dist_of(dists, owners) /\ tag' = Dist_exch(dists', tag)
     ELSE UNCHANGED <<dists, tag>>
  /\ UNCHANGED <<owners, matches>>

\* Faulty variant: no swap back.
swap_back_never(own, ms) == own

\* The swap back, after the exchange.
swap_back(own, ms) == swapped_owners(own, ms)

\* sync_tag_matched: sync_array_matched returns at once when nothing is shared, and
\* swaps and exchanges otherwise; then the caller swaps in any case.
SyncTagMatched ==
  LET own1 == IF could_be_shared THEN swapped_owners(owners, matches) ELSE owners
      ms1 == IF could_be_shared THEN swapped_matches(owners, matches) ELSE matches
  IN  /\ Op("sync_tag_matched")
      /\ tag' = IF could_be_shared THEN Dist_exch(<<own1>>, tag) ELSE tag
      /\ owners' = swap_back(own1, ms1)
      /\ matches' = swapped_matches(own1, ms1)
      /\ dists' = <<>>

MatchedNext == SetTag \/ SyncTag \/ SyncTagMatched

MatchedSpec == MatchedInit /\ [][MatchedNext]_matchedVars

\* What the properties below rest on: an owner owns itself, an entity has at most one
\* match, and a root is matched with itself.
MatchesFit ==
  /\ NRanks \in Nat /\ MaxOps \in Nat
  /\ \A c \in Copies :
       LET own(x) == Owners[x[1]][x[2]]
       IN  own(c) \in Copies /\ own(own(c)) = own(c)
  /\ Matches \in [Ranks -> Seq([leaf : Nat, root : Copies])]
  /\ \A r \in Ranks : \A i, j \in 1..Len(Matches[r]) :
       /\ Matches[r][i].leaf \in Ents(r)
       /\ Matches[r][i].leaf = Matches[r][j].leaf => i = j
  /\ \A r \in Ranks : \A i \in 1..Len(Matches[r]) :
       LET root == Matches[r][i].root
       IN  \E j \in 1..Len(Matches[root[1]]) : Matches[root[1]][j] = [leaf |-> root[2], root |-> root]

-----------------------------------------------------------------------------
\* A Dist that is kept is one of the owners the mesh has.
MatchedTypeOK ==
  /\ ops \in 0..MaxOps
  /\ tag \in [Copies -> TagValues]
  /\ dists # <<>> => dists[1] = owners

\* sync_tag_matched leaves owners and matches as they were (swap_root_owner twice).
OwnersRestored ==
  /\ owners = [c \in Copies |-> Owners[c[1]][c[2]]]
  /\ matches = [r \in Ranks |-> Matches[r]]

\* periodic_test.cpp:83: after sync_tag_matched the leaves have the values of their
\* roots.
LeavesMatch ==
  last = "sync_tag_matched" =>
    \A r \in Ranks : \A i \in 1..Len(Matches[r]) :
      tag[<<r, Matches[r][i].leaf>>] = tag[Matches[r][i].root]

\* After sync_tag all copies of an entity have one value, also after leaves were
\* given the values of their roots.
CopiesAgree ==
  last = "sync_tag" => \A c \in Copies : tag[c] = tag[Owners[c[1]][c[2]]]
=============================================================================
