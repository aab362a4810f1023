------------------------------- MODULE Migrate ------------------------------
(***************************************************************************)
(* Moving a mesh between processes (Omega_h_migrate.cpp,                   *)
(* update_ownership of Omega_h_owners.cpp, Mesh::migrate): each process    *)
(* names, for every element it will have, the owner of that element in     *)
(* the old mesh; vertices, connectivity, tags and owners follow from that  *)
(* through Dists.  The mesh has elements and vertices; the code repeats    *)
(* push_down for the dimensions between them.                              *)
(*                                                                         *)
(* A part of the mesh is [ents, globals, owners], each by dimension:       *)
(* ents are the vertices of each element by local index, globals the       *)
(* global numbers (the tag that migrate_mesh requires), owners pairs of a  *)
(* rank and an index on it.  Every step of the collective migration is     *)
(* one action; job holds what the steps before it computed.                *)
(***************************************************************************)
EXTENDS Dist

CONSTANTS Conn,     \* Conn[e]: the vertices of element e, by global number
          Comm,     \* the communicator
          Ups,      \* orders in which threads come
          Moves,    \* migrations in a row: bound
          Orders    \* orders in which a process lists the elements it wants

VARIABLES mesh, parting, moves, job

vars == <<mesh, parting, moves, job>>

VERT == 1    \* dimensions are places of a sequence
ELEM == 2

World == Procs(Comm)
Width == Len(Conn[1])
Sorted(S, up) == arrival(S, up)

mesh_globals(d) == [p \in World |-> mesh[p].globals[d]]
mesh_owners(d) == [p \in World |-> mesh[p].owners[d]]
nents(d) == [p \in World |-> Len(mesh[p].globals[d])]

\* Items of a root.
RootItems(d, p, root) == (d[p].roots2items[F][root] + 1)..d[p].roots2items[F][root + 1]
RanksOfItems(d) == [p \in World |-> items2ranks(d, p)]
Indices(d) == [p \in World |-> counted(nitems(d, p))]

-----------------------------------------------------------------------------
(* The initial distribution of the mesh: an element on one process each.   *)

InitialPart(p, place) ==
    LET E(q) == {e \in DOMAIN Conn : place[e] = q}
        V(q) == UNION {ToSet(Conn[e]) : e \in E(q)}
        local(q, v) == CHOOSE i \in 1..Cardinality(V(q)) : Sorted(V(q), TRUE)[i] = v
        holder(v) == Comm[Min({RankOf(Comm, q) : q \in {q \in World : v \in V(q)}})] IN
    [ents |-> [i \in 1..Cardinality(E(p)) |->
                 [k \in 1..Width |-> local(p, Conn[Sorted(E(p), TRUE)[i]][k])]],
     globals |-> <<Sorted(V(p), TRUE), Sorted(E(p), TRUE)>>,
     owners |-> <<[i \in 1..Cardinality(V(p)) |->
                     LET v == Sorted(V(p), TRUE)[i] IN
                     <<RankOf(Comm, holder(v)), local(holder(v), v)>>],
                  [i \in 1..Cardinality(E(p)) |-> <<RankOf(Comm, p), i>>]>>]

Idle == [at |-> "idle"]

Init == /\ \E place \in [DOMAIN Conn -> World] :
              mesh = [p \in World |-> InitialPart(p, place)]
        /\ parting = "elem"
        /\ moves = 0
        /\ job = Idle

\* The owner of element e, as rank and index.
OwnerOf(e) == LET p == CHOOSE q \in World : e \in ToSet(mesh[q].globals[ELEM])
                  i == CHOOSE k \in DOMAIN mesh[p].globals[ELEM] :
                          mesh[p].globals[ELEM][k] = e IN mesh[p].owners[ELEM][i]

OwnedElems(p) == {mesh[p].globals[ELEM][i] : i \in {i \in DOMAIN mesh[p].globals[ELEM] :
                                                      mesh[p].owners[ELEM][i][1] = RankOf(Comm, p)}}

\* A migration begins with a Dist to the owners of the elements each process
\* lists in wanted.
Begin(at, mode, wanted) ==
    /\ job = Idle
    /\ \E up \in Ups :
       \E dist \in {new_dist(Comm, [p \in World |-> [i \in DOMAIN wanted[p] |-> OwnerOf(wanted[p][i])]],
                             nents(ELEM), up)} :
          job' = [at |-> at, d |-> ELEM, mode |-> mode, up |-> up, elems |-> dist]
    /\ UNCHANGED <<mesh, parting>>

\* Mesh::migrate, and the end of Mesh::balance: any new place of each element.
Migrate ==
    /\ parting = "elem" /\ moves < Moves
    /\ \E place \in [DOMAIN Conn -> World], order \in Orders :
          Begin("unsorted", "elem",
                [p \in World |-> Sorted({e \in DOMAIN Conn : place[e] = p}, order)])
    /\ moves' = moves + 1

\* The elements at each of a set of vertices, vertex by vertex.
UsesAt(V, order) ==
    FlattenSeq([k \in 1..Cardinality(V) |->
        Sorted({e \in DOMAIN Conn : Sorted(V, order)[k] \in ToSet(Conn[e])}, order)])

VertsOf(p) == ToSet(mesh[p].globals[VERT])
OwnedVerts(p) == {mesh[p].globals[VERT][i] : i \in {i \in DOMAIN mesh[p].globals[VERT] :
                                                      mesh[p].owners[VERT][i][1] = RankOf(Comm, p)}}

\* ghost_mesh, one layer: the elements at all vertices of the process.
Ghost ==
    /\ parting = "elem" /\ moves < Moves
    /\ \E order \in Orders :
          Begin("uses", "ghosted", [p \in World |-> UsesAt(VertsOf(p), order)])
    /\ moves' = moves + 1

\* partition_by_verts: the elements at the vertices that the process owns.
ByVerts ==
    /\ parting = "elem" /\ moves < Moves
    /\ \E order \in Orders :
          Begin("uses", "vert", [p \in World |-> UsesAt(OwnedVerts(p), order)])
    /\ moves' = moves + 1

\* partition_by_elems: each process keeps what it owns, in the order it has it.
ByElems ==
    /\ parting # "elem"
    /\ Begin("sorted", "elem",
             [p \in World |-> SelectSeq(mesh[p].globals[ELEM], LAMBDA e : e \in OwnedElems(p))])
    /\ UNCHANGED moves

\* Mesh::migrate: the owners tell the globals of what they send.
SortByGlobals ==
    /\ job.at = "unsorted"
    /\ job' = [job EXCEPT !.at = "sorted",
                          !.elems = invert(set_dest_globals(invert(@), mesh_globals(ELEM)))]
    /\ UNCHANGED <<mesh, parting, moves>>

-----------------------------------------------------------------------------
(* push_down: from elements to the vertices they use.                      *)

flat(arrays) == [p \in World |-> FlattenSeq(arrays[p])]
grouped(array) == [k \in 1..(Len(array) \div Width) |->
                     SubSeq(array, (k - 1) * Width + 1, k * Width)]

form_down_use_owners ==
    [p \in World |-> [e \in DOMAIN mesh[p].ents |->
        [k \in 1..Width |-> mesh[p].owners[VERT][mesh[p].ents[e][k]]]]]

\* Every use of a vertex by a new element knows the old owner of the vertex.
push_down ==
    /\ job.at = "sorted"
    /\ \E dist \in {new_dist(Comm, flat(exch(invert(job.elems), form_down_use_owners)),
                             nents(VERT), job.up)} :
          job' = [at |-> "uses", d |-> VERT, mode |-> job.mode, elems |-> job.elems,
                  uses |-> dist]
    /\ UNCHANGED <<mesh, parting, moves>>

\* A use is kept if no earlier use of the same old owner is on its rank.
kept_uses(ranks, items) == {i \in items : \A j \in items : j < i => ranks[j] # ranks[i]}

\* get_old_owners2uniq_uses: the owner has one copy for each rank.
get_old_owners2uniq_uses ==
    /\ job.at = "uses"
    /\ LET owners2uses == invert(IF job.d = ELEM THEN job.elems ELSE job.uses) IN
       \E ranks \in {RanksOfItems(owners2uses)} :
       \E kept \in {[p \in World |-> [root \in 1..nroots(owners2uses, p) |->
                       kept_uses(ranks[p], RootItems(owners2uses, p, root))]]} :
          job' = [job EXCEPT !.at = "uniq"] @@
                 [copies |-> set_roots2items(
                     set_dest_ranks(Comm, [p \in World |->
                        LET keep == arrival(UNION Range(kept[p]), TRUE) IN
                        [k \in DOMAIN keep |-> ranks[p][keep[k]]]]),
                     [p \in World |-> offset_scan([root \in DOMAIN kept[p] |->
                                                     Cardinality(kept[p][root])])])]
    /\ UNCHANGED <<mesh, parting, moves>>

\* get_new_copies2old_owners: the copies are ordered by global number.
get_new_copies2old_owners ==
    /\ job.at = "uniq"
    /\ \E copies \in {invert(set_dest_globals(job.copies, mesh_globals(job.d)))} :
          IF job.d = ELEM
          THEN job' = [at |-> "sorted", d |-> ELEM, mode |-> job.mode, up |-> job.up,
                       elems |-> copies]
          ELSE job' = [at |-> "copies", mode |-> job.mode, elems |-> job.elems,
                       uses |-> job.uses, lows |-> copies]
    /\ UNCHANGED <<mesh, parting, moves>>

\* form_new_conn, first the exchanges: which copy is where, and on which rank
\* each copy and each use is.
form_new_conn_exch ==
    /\ job.at = "copies"
    /\ job' = [at |-> "conn", mode |-> job.mode, elems |-> job.elems, uses |-> job.uses,
               lows |-> job.lows,
               idxs |-> exch(job.lows, Indices(job.lows)),
               entRanks |-> RanksOfItems(invert(job.lows)),
               useRanks |-> RanksOfItems(invert(job.uses))]
    /\ UNCHANGED <<mesh, parting, moves>>

\* then each use is told, by the old owner, the index of the copy on its rank.
new_idx(p, ents, rank) ==
    LET on_rank == {e \in ents : job.entRanks[p][e] = rank} IN
    IF on_rank = {} THEN NoIndex ELSE job.idxs[p][Min(on_rank)]

form_new_conn ==
    /\ job.at = "conn"
    /\ LET owners2uses == invert(job.uses)
           owners2ents == invert(job.lows)
           rootOf(p, use) == CHOOSE root \in 1..nroots(owners2uses, p) :
                                use \in RootItems(owners2uses, p, root)
           serv_uses2new_uses == set_roots2items(owners2uses, [p \in World |-> None]) IN
       job' = [at |-> "own", d |-> ELEM, mode |-> job.mode, elems |-> job.elems,
               lows |-> job.lows,
               ents |-> exch(serv_uses2new_uses,
                   [p \in World |-> [use \in 1..nitems(owners2uses, p) |->
                       new_idx(p, RootItems(owners2ents, p, rootOf(p, use)),
                               job.useRanks[p][use])]])]
    /\ UNCHANGED <<mesh, parting, moves>>

-----------------------------------------------------------------------------
(* push_ents: tags and owners follow.                                      *)

copies2old_owners == IF job.d = ELEM THEN job.elems ELSE job.lows

\* Owners are kept when ghosting, and those of vertices in a vertex-based
\* partition.
keeps_owners(mode, d) == mode = "ghosted" \/ (mode = "vert" /\ d = VERT)

\* push_tags, and the exchanges of update_ownership.
push_ents ==
    /\ job.at = "own"
    /\ LET old_owners2new == invert(copies2old_owners)
           sizes == allgather(Side(copies2old_owners, F),
                              [p \in World |-> nitems(copies2old_owners, p)]) IN
       \E wishes \in {IF keeps_owners(job.mode, job.d)
                      THEN exch(old_owners2new, RanksOf(mesh_owners(job.d))) ELSE None} :
          job' = [job EXCEPT !.at = "choose"] @@
                 [tags |-> exch(old_owners2new, mesh_globals(job.d)),
                  idxs |-> exch(copies2old_owners, Indices(copies2old_owners)),
                  ranks |-> RanksOfItems(old_owners2new),
                  ncopies |-> [p \in World |-> compound_maps(items2msgs(old_owners2new, p), sizes[p])],
                  wishes |-> wishes,
                  serv_wishes |-> IF wishes = None THEN None ELSE exch(copies2old_owners, wishes)]
    /\ UNCHANGED <<mesh, parting, moves>>

\* Without wishes: the copy on the rank with the fewest copies, the smallest of
\* such ranks.
best_copy(ncopies, ranks, items) ==
    CHOOSE i \in items : \A j \in items :
        \/ ncopies[i] < ncopies[j]
        \/ ncopies[i] = ncopies[j] /\ ranks[i] <= ranks[j]

\* With wishes: the first copy on the rank that it wishes for.
wished_copy(ranks, wishes, items) ==
    LET on == {i \in items : ranks[i] = wishes[i]} IN IF on = {} THEN NoIndex ELSE Min(on)

Chosen(p, items) ==
    IF items = {} THEN NoIndex
    ELSE IF job.wishes = None THEN best_copy(job.ncopies[p], job.ranks[p], items)
    ELSE wished_copy(job.ranks[p], job.serv_wishes[p], items)

\* update_ownership: the old owner chooses, and tells all copies.
update_ownership ==
    /\ job.at = "choose"
    /\ LET old_owners2new == invert(copies2old_owners) IN
       \E chosen \in {[p \in World |-> [root \in 1..nroots(old_owners2new, p) |->
                          Chosen(p, RootItems(old_owners2new, p, root))]]} :
       LET told(array) == exch(old_owners2new, [p \in World |->
                              [root \in DOMAIN chosen[p] |->
                                 IF chosen[p][root] = NoIndex THEN NoIndex
                                 ELSE array[p][chosen[p][root]]]]) IN
       \E own_ranks \in {IF job.wishes = None THEN told(job.ranks) ELSE job.wishes},
          own_idxs \in {told(job.idxs)} :
       \E owners \in {[p \in World |-> [i \in DOMAIN own_ranks[p] |->
                          <<own_ranks[p][i], own_idxs[p][i]>>]]} :
          IF job.d = ELEM
          THEN /\ job' = [at |-> "own", d |-> VERT, mode |-> job.mode, lows |-> job.lows,
                          ents |-> job.ents, elemTags |-> job.tags, elemOwners |-> owners]
               /\ UNCHANGED <<mesh, parting>>
          ELSE \* *mesh = new_mesh
               /\ mesh' = [p \in World |-> [ents |-> grouped(job.ents[p]),
                              globals |-> <<job.tags[p], job.elemTags[p]>>,
                              owners |-> <<owners[p], job.elemOwners[p]>>]]
               /\ parting' = job.mode
               /\ job' = Idle
    /\ UNCHANGED moves

Next == \/ Migrate \/ Ghost \/ ByVerts \/ ByElems \/ SortByGlobals \/ push_down
        \/ get_old_owners2uniq_uses \/ get_new_copies2old_owners
        \/ form_new_conn_exch \/ form_new_conn \/ push_ents \/ update_ownership

Spec == Init /\ [][Next]_vars

-----------------------------------------------------------------------------
TypeOK == \A p \in World : \A e \in DOMAIN mesh[p].ents :
             /\ Len(mesh[p].ents[e]) = Width
             /\ \A k \in 1..Width : mesh[p].ents[e][k] \in DOMAIN mesh[p].globals[VERT]

(* Every element is somewhere, and has everywhere the vertices it had. *)
MeshKept ==
    /\ \A e \in DOMAIN Conn : \E p \in World : e \in ToSet(mesh[p].globals[ELEM])
    /\ \A p \in World : \A i \in DOMAIN mesh[p].ents :
          [k \in 1..Width |-> mesh[p].globals[VERT][mesh[p].ents[i][k]]]
            = Conn[mesh[p].globals[ELEM][i]]

(* A process has each vertex of its elements once, and no other. *)
VerticesClosed ==
    \A p \in World :
        /\ VertsOf(p) = UNION {ToSet(Conn[e]) : e \in ToSet(mesh[p].globals[ELEM])}
        /\ Cardinality(VertsOf(p)) = Len(mesh[p].globals[VERT])

Ascending(s) == \A i, j \in DOMAIN s : i < j => s[i] < s[j]

(* What get_new_copies2old_owners made is in the order of its global numbers,
   in whatever order the uses came, and each once: vertices always, elements
   in a mesh that is ghosted or partitioned by vertices. *)
CopiesInOrder ==
    \A p \in World : /\ Ascending(mesh[p].globals[VERT])
                     /\ parting # "elem" => Ascending(mesh[p].globals[ELEM])

(* All copies of an entity name one owner, which is a copy of it. *)
OwnersAgree ==
    \A d \in {VERT, ELEM} : \A p, q \in World :
        \A i \in DOMAIN mesh[p].globals[d] : \A j \in DOMAIN mesh[q].globals[d] :
            mesh[p].globals[d][i] = mesh[q].globals[d][j] =>
                LET own == mesh[p].owners[d][i]
                    r == Comm[own[1]] IN
                /\ own = mesh[q].owners[d][j]
                /\ own[2] \in DOMAIN mesh[r].globals[d]
                /\ mesh[r].globals[d][own[2]] = mesh[p].globals[d][i]

(* Ghosting and partitioning by vertices leave a way back: an entity the code
   tells ghosts by keeps its owner (elements and vertices when ghosting,
   vertices when partitioning by vertices). *)
KeepsOwners ==
    parting = "elem" /\ parting' # "elem" =>
        \A p \in World : /\ OwnedVerts(p)' = OwnedVerts(p)
                         /\ parting' = "ghosted" => OwnedElems(p)' = OwnedElems(p)
OwnersKept == [][KeepsOwners]_vars

(* Every element has exactly one owner again when the mesh is partitioned by
   elements, and nothing is a ghost. *)
NoGhostsByElems ==
    parting = "elem" =>
        /\ \A p \in World : OwnedElems(p) = ToSet(mesh[p].globals[ELEM])
        /\ \A p, q \in World : p # q => OwnedElems(p) \intersect OwnedElems(q) = {}

(* Mesh::migrate: elements are in the order of their global numbers. *)
ElemsSorted == \A p \in World : Ascending(mesh[p].globals[ELEM])
=============================================================================
