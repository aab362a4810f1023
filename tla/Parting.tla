------------------------------ MODULE Parting ------------------------------
(***************************************************************************)
(* How a distributed mesh is laid out over its ranks (Mesh::set_parting,   *)
(* balance and migrate; Omega_h_ghost.cpp, Omega_h_migrate.cpp,            *)
(* Omega_h_owners.cpp).  Every element and vertex has copies on some ranks *)
(* and one of the copies owns it.  The three partings are three layouts:   *)
(*                                                                         *)
(*   ELEM_BASED  an element is on one rank only;                           *)
(*   GHOSTED     a rank also has copies of the elements in nghost_layers   *)
(*               layers around the elements it owns;                       *)
(*   VERT_BASED  a rank has the elements around the vertices it owns.      *)
(*                                                                         *)
(* The operations are collective and exchange data only through Dist, in   *)
(* an order all ranks share, so each is one step.  A tag is followed on    *)
(* one entity, chosen initially: the copies of different entities do not   *)
(* interact.  Vertices stand for all dimensions below the elements', which *)
(* migrate_mesh treats alike, except that VERT_BASED keeps the owners of   *)
(* vertices only.                                                          *)
(***************************************************************************)
EXTENDS Integers, FiniteSets

CONSTANTS Rank,       \* ranks of the communicator, numbers
          Elem, Vert, \* the entities of the mesh: their global numbers
          VertsOf,    \* VertsOf[e]: the vertices of element e
          Value,      \* values of a tag, numbers
          Lowest,     \* the least of them, where a maximum starts from
          NoValue,    \* what a rank without a copy has
          Targets,    \* the distributions of the elements balance may choose
          MaxLayers   \* bound: ghost layers asked for

ELEM == "elem"
VERT == "vert"
Dims == {ELEM, VERT}
Ents(d) == IF d = ELEM THEN Elem ELSE Vert

ELEM_BASED == "elem_based"
GHOSTED == "ghosted"
VERT_BASED == "vert_based"
Partings == {ELEM_BASED, GHOSTED, VERT_BASED}

ASSUME RankAssumption == Rank \subseteq Nat /\ IsFiniteSet(Rank)
ASSUME EntAssumption == IsFiniteSet(Elem) /\ IsFiniteSet(Vert)
ASSUME VertsOfAssumption ==
    /\ VertsOf \in [Elem -> (SUBSET Vert) \ {{}}]
    /\ \A v \in Vert : \E e \in Elem : v \in VertsOf[e]
ASSUME ValueAssumption ==
    Value \subseteq Int /\ Lowest \in Value /\ \A x \in Value : Lowest <= x
ASSUME NoValueAssumption == NoValue \notin Value
ASSUME TargetsAssumption == Targets \subseteq [Elem -> Rank]
ASSUME MaxLayersAssumption == MaxLayers \in Nat

VARIABLES
    mesh,   \* parting, nghost_layers, and on[d][r], owner[d][x], val[r]
    tagged  \* the dimension and the entity whose tag is in mesh.val

vars == <<mesh, tagged>>

-----------------------------------------------------------------------------
CloseDown(E) == UNION {VertsOf[e] : e \in E}
CloseUp(V) == {e \in Elem : VertsOf[e] \cap V # {}}

\* The elements in n layers around the elements E.
Layers(E, n) ==
    LET layers[k \in 0..n] ==
            IF k = 0 THEN E ELSE CloseUp(CloseDown(layers[k - 1]))
    IN layers[n]

Serial == Cardinality(Rank) = 1

\* Faulty variant: nothing is shared on an element-based mesh.
could_be_shared_ghosted(m, d) == ~(Serial \/ m.parting = ELEM_BASED)

could_be_shared(m, d) == ~(Serial \/ (m.parting = ELEM_BASED /\ d = ELEM))

\* Faulty variant: the first candidate is compared with no owner.
no_ownership(on, x) == -1

\* update_ownership: of the ranks that have a copy, the one with the fewest
\* copies owns the entity, and of several such the first.
update_ownership(on, x) ==
    LET clients == {r \in Rank : x \in on[r]} IN
    CHOOSE r \in clients :
        \A s \in clients :
            \/ Cardinality(on[r]) < Cardinality(on[s])
            \/ Cardinality(on[r]) = Cardinality(on[s]) /\ r <= s

\* Faulty variant: copies a rank already has are kept.
push_missing_tags(m, on) ==
    [r \in Rank |->
        IF tagged.ent \notin on[tagged.dim][r] THEN NoValue
        ELSE IF m.val[r] # NoValue THEN m.val[r]
        ELSE m.val[m.owner[tagged.dim][tagged.ent]]]

\* push_tags: all data comes from the old owners.
push_tags(m, on) ==
    [r \in Rank |->
        IF tagged.ent \in on[tagged.dim][r]
        THEN m.val[m.owner[tagged.dim][tagged.ent]] ELSE NoValue]

\* Faulty variant: ghosting finds new owners.
KeepsVertOwners(mode, d) == mode = VERT_BASED /\ d = VERT

\* Faulty variant: a vertex-based mesh finds new owners of vertices too.
KeepsGhostOwners(mode, d) == mode = GHOSTED

\* push_ents finds new owners, unless the mode is one that keeps them.
KeepsOwners(mode, d) == mode = GHOSTED \/ (mode = VERT_BASED /\ d = VERT)

\* migrate_mesh: rank r gets the elements E[r] and what bounds them.
migrate_mesh(m, E, mode) ==
    LET on == [d \in Dims |-> IF d = ELEM THEN E ELSE [r \in Rank |-> CloseDown(E[r])]]
    IN [m EXCEPT
        !.on = on,
        !.owner = [d \in Dims |->
            IF KeepsOwners(mode, d) THEN m.owner[d]
            ELSE [x \in Ents(d) |-> update_ownership(on[d], x)]],
        !.val = push_tags(m, on)]

partition_by_elems(m) ==
    migrate_mesh(m, [r \in Rank |-> {e \in Elem : m.owner[ELEM][e] = r}], ELEM_BASED)

partition_by_verts(m) ==
    migrate_mesh(m,
        [r \in Rank |-> CloseUp({v \in Vert : m.owner[VERT][v] = r})], VERT_BASED)

\* Faulty variant: adds all the layers to those already there.
ghost_mesh_again(m, nlayers) ==
    migrate_mesh(m, [r \in Rank |-> Layers(m.on[ELEM][r], nlayers)], GHOSTED)

ghost_mesh(m, nlayers) ==
    migrate_mesh(m,
        [r \in Rank |-> Layers(m.on[ELEM][r], nlayers - m.nghost_layers)], GHOSTED)

\* set_parting: to ghost a mesh that is not ghosted yet, or has more layers than
\* asked for, it is first taken back to one copy of each element.
Settled(m, parting, nlayers) ==
    [m EXCEPT !.parting = parting, !.nghost_layers = nlayers]

\* Faulty variant: the extra copies stay.
ToElemBasedInPlace(m) == Settled(m, ELEM_BASED, 0)

ToElemBased(m) ==
    IF m.parting = ELEM_BASED THEN m
    ELSE Settled(IF Serial THEN m ELSE partition_by_elems(m), ELEM_BASED, 0)

ToGhosted(m, nlayers) ==
    LET base == IF m.parting # GHOSTED \/ nlayers < m.nghost_layers
                THEN ToElemBased(m) ELSE m
    IN Settled(IF Serial THEN base ELSE ghost_mesh(base, nlayers), GHOSTED, nlayers)

ToVertBased(m) ==
    Settled(IF Serial THEN m ELSE partition_by_verts(m), VERT_BASED, 1)

-----------------------------------------------------------------------------
\* A tag is on one entity of one dimension.
Tags == UNION {[dim : {d}, ent : Ents(d)] : d \in Dims}

Holders(m, d, x) == {r \in Rank : x \in m.on[d][r]}

\* A mesh as the builders make it: element-based, with any distribution of the
\* elements and any copy of a vertex owning it, and tags equal on all copies.
Init ==
    \E dest \in [Elem -> Rank], vowner \in [Vert -> Rank], x \in Value :
        LET on == [d \in Dims |-> [r \in Rank |->
                    LET E == {e \in Elem : dest[e] = r} IN
                    IF d = ELEM THEN E ELSE CloseDown(E)]]
        IN
        /\ \A v \in Vert : v \in on[VERT][vowner[v]]
        /\ tagged \in Tags
        /\ mesh = [parting |-> ELEM_BASED,
                   nghost_layers |-> 0,
                   on |-> on,
                   owner |-> [d \in Dims |-> IF d = ELEM THEN dest ELSE vowner],
                   val |-> [r \in Rank |->
                        IF tagged.ent \in on[tagged.dim][r] THEN x ELSE NoValue]]

SetElemBased ==
    /\ mesh' = ToElemBased(mesh)
    /\ UNCHANGED tagged

\* With the layers it has already, set_parting returns at once.
SetGhosted(nlayers) ==
    /\ mesh.parting # GHOSTED \/ mesh.nghost_layers # nlayers
    /\ mesh' = ToGhosted(mesh, nlayers)
    /\ UNCHANGED tagged

SetVertBased ==
    /\ mesh.parting # VERT_BASED
    /\ mesh' = ToVertBased(mesh)
    /\ UNCHANGED tagged

\* balance and migrate: element e goes to rank dest[e].
Balance(dest) ==
    /\ ~Serial
    /\ mesh' = migrate_mesh(ToElemBased(mesh),
                   [r \in Rank |-> {e \in Elem : dest[e] = r}], ELEM_BASED)
    /\ UNCHANGED tagged

\* A rank sets the tag of its own copy.
SetTag(r, x) ==
    /\ tagged.ent \in mesh.on[tagged.dim][r]
    /\ mesh' = [mesh EXCEPT !.val[r] = x]
    /\ UNCHANGED tagged

\* sync_array: all copies take the owner's value, if there can be several.
sync_array(m) ==
    [r \in Rank |->
        IF could_be_shared(m, tagged.dim) /\ m.val[r] # NoValue
        THEN m.val[m.owner[tagged.dim][tagged.ent]] ELSE m.val[r]]

SyncTag ==
    /\ mesh' = [mesh EXCEPT !.val = sync_array(mesh)]
    /\ UNCHANGED tagged

\* reduce_tag with OMEGA_H_MAX: the owner gets the greatest value of any copy,
\* the other copies the maximum of nothing.
ReduceTag ==
    /\ mesh' = IF could_be_shared(mesh, tagged.dim)
               THEN [mesh EXCEPT !.val = [r \in Rank |->
                        IF mesh.val[r] = NoValue THEN NoValue
                        ELSE IF r = mesh.owner[tagged.dim][tagged.ent]
                        THEN CHOOSE x \in Value :
                                /\ \E s \in Rank : mesh.val[s] = x
                                /\ \A s \in Rank : mesh.val[s] \in Value => mesh.val[s] <= x
                        ELSE Lowest]]
               ELSE mesh
    /\ UNCHANGED tagged

Next ==
    \/ SetElemBased
    \/ \E n \in 1..MaxLayers : SetGhosted(n)
    \/ SetVertBased
    \/ \E dest \in Targets : Balance(dest)
    \/ \E r \in Rank, x \in Value : SetTag(r, x)
    \/ SyncTag
    \/ ReduceTag

Spec == Init /\ [][Next]_vars

-----------------------------------------------------------------------------
(* Properties *)

MeshType ==
    [parting : Partings,
     nghost_layers : 0..(MaxLayers + 1),
     on : [Dims -> [Rank -> SUBSET (Elem \cup Vert)]],
     owner : [Dims -> [Elem -> Rank] \cup [Vert -> Rank]],
     val : [Rank -> Value \cup {NoValue}]]

TypeOK ==
    /\ tagged \in Tags
    /\ mesh \in MeshType
    /\ \A d \in Dims : mesh.on[d] \in [Rank -> SUBSET Ents(d)]
    /\ \A d \in Dims : mesh.owner[d] \in [Ents(d) -> Rank]

\* Whatever was done before, an entity's owner has a copy of it: no Dist that
\* is built from the owners points to an entity the rank does not have.
OwnersHaveCopies ==
    \A d \in Dims : \A x \in Ents(d) : x \in mesh.on[d][mesh.owner[d][x]]

\* Where could_be_shared says no, and sync_array and reduce_array leave the data
\* alone, there really is one copy of each entity.
UnsharedHaveOneCopy ==
    \A d \in Dims :
        ~could_be_shared(mesh, d) =>
            \A x \in Ents(d) : Holders(mesh, d, x) = {mesh.owner[d][x]}

\* Whoever looks for an entity by its owner finds it there, and where there is no
\* need to look there is no other copy.
OwnersAreFound == OwnersHaveCopies /\ UnsharedHaveOneCopy

\* A ghosted rank has exactly the elements in nghost_layers layers around those
\* it owns, also when layers were added to a mesh that had some or taken away.
GhostLayersExact ==
    (mesh.parting = GHOSTED /\ ~Serial) =>
        \A r \in Rank :
            mesh.on[ELEM][r] =
                Layers({e \in Elem : mesh.owner[ELEM][e] = r}, mesh.nghost_layers)

\* The promise owners_have_all_upward makes: on a ghosted mesh, and for vertices
\* on a vertex-based one, the owner has every element around the entity.
OwnersHaveAllUpward ==
    (Serial \/ mesh.parting \in {GHOSTED, VERT_BASED}) =>
        \A v \in Vert : CloseUp({v}) \subseteq mesh.on[ELEM][mesh.owner[VERT][v]]

OwnerVal == mesh.val[mesh.owner[tagged.dim][tagged.ent]]

\* No redistribution loses or invents data: whoever owns the entity afterwards
\* has the value its owner had before, even if other copies had diverged.
RedistributionKeepsData ==
    [][(mesh.on # mesh'.on \/ mesh.owner # mesh'.owner) => OwnerVal' = OwnerVal]_vars

\* A sync_tag at any time makes all copies equal to the owner's, also where
\* could_be_shared lets it leave the data alone.
SyncMakesCopiesAgree ==
    \A r \in Rank : sync_array(mesh)[r] \in {NoValue, OwnerVal}

\* Ghosting and going back leaves every element with the owner it had: only
\* balancing and the vertex-based parting move elements.
GhostingKeepsOwners ==
    [][mesh'.owner[ELEM] # mesh.owner[ELEM] =>
        SetVertBased \/ \E dest \in Targets : Balance(dest)]_vars

-----------------------------------------------------------------------------
(* An instance: a strip of one-dimensional elements, with contiguous parts,  *)
(* a part of its own for every other element, or everything on one rank.     *)
StripVertsOf == [e \in Elem |-> {e, e + 1}]

StripTargets == {
    [e \in Elem |-> IF e <= 2 THEN 0 ELSE e - 2],
    [e \in Elem |-> e % 2],
    [e \in Elem |-> 2]}
=============================================================================
