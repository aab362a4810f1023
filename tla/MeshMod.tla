------------------------------- MODULE MeshMod -------------------------------
(***************************************************************************)
(* The three modifications that adapt a mesh of triangles or tetrahedra,   *)
(* on one rank: splitting edges (Omega_h_refine*.cpp), collapsing edges    *)
(* (Omega_h_coarsen*.cpp, Omega_h_check_collapse.cpp,                      *)
(* Omega_h_collapse_rail.cpp) and swapping edges (Omega_h_swap*.cpp), with *)
(* the rebuilding of the mesh around them (Omega_h_modify.cpp) and the     *)
(* inheritance of the classification (Omega_h_transfer.cpp).               *)
(*                                                                         *)
(* An entity is the set of its vertices, a vertex is its position.  The    *)
(* model is a set of cells, each named by a set that the names of the      *)
(* cells around it contain; an entity's classification is a cell.  Which   *)
(* edges are too long, too short or worth swapping depends on a metric and *)
(* is left open, but an element is good only if its volume is positive.    *)
(* Numbers of entities are left out.                                       *)
(***************************************************************************)
EXTENDS RefElem, SequencesExt, FiniteSetsExt

CONSTANTS dim,         \* 2 or 3
          Meshes,      \* the meshes to begin with, each the set of its elements
          Lattice,     \* bound: the positions a vertex may take
          Cells,       \* the cells of the model, each with its dimension
          Model(_),    \* the cell that an entity of these meshes lies on
          MaxVerts,    \* bound: how many vertices there may be
          MaxKeys      \* bound: how many cavities are modified at a time

VARIABLES mesh,    \* the entities: vertices, classification, and whether an
                   \* element's vertices are stored in an order that inverts it
          nents    \* how many entities of each dimension there are

vars == <<mesh, nents>>

-----------------------------------------------------------------------------
(* Omega_h_swap3d_tables.hpp: every triangulation of a polygon with three   *)
(* to seven corners.  A triangulation is the list of the numbers of its     *)
(* triangles; its inner edges are listed the same way.  Numbers start at 0  *)
(* as in the code, sequences at 1.                                          *)
MAX_EDGE_SWAP == 7

swap_triangles(n) ==
    CASE n = 3 ->
      <<<<0, 1, 2>>>>
      [] n = 4 ->
      <<<<0, 1, 2>>, <<0, 2, 3>>, <<0, 1, 3>>, <<1, 2, 3>>>>
      [] n = 5 ->
      <<<<0, 1, 2>>, <<0, 2, 3>>, <<0, 3, 4>>, <<0, 1, 4>>, <<1, 3, 4>>, <<1, 2, 3>>,
      <<2, 3, 4>>, <<0, 2, 4>>, <<0, 1, 3>>, <<1, 2, 4>>>>
      [] n = 6 ->
      <<<<0, 1, 2>>, <<0, 2, 3>>, <<0, 3, 4>>, <<0, 4, 5>>, <<0, 2, 5>>, <<2, 4, 5>>,
      <<2, 3, 4>>, <<0, 3, 5>>, <<3, 4, 5>>, <<0, 2, 4>>, <<2, 3, 5>>, <<1, 2, 3>>,
      <<0, 1, 3>>, <<0, 1, 5>>, <<1, 4, 5>>, <<1, 3, 4>>, <<0, 1, 4>>, <<1, 3, 5>>,
      <<1, 2, 4>>, <<1, 2, 5>>>>
      [] n = 7 ->
      <<<<0, 1, 2>>, <<0, 2, 3>>, <<0, 3, 4>>, <<0, 4, 5>>, <<0, 5, 6>>, <<0, 3, 6>>,
      <<3, 5, 6>>, <<3, 4, 5>>, <<0, 4, 6>>, <<4, 5, 6>>, <<0, 3, 5>>, <<3, 4, 6>>,
      <<0, 2, 4>>, <<2, 3, 4>>, <<0, 2, 6>>, <<2, 5, 6>>, <<2, 4, 5>>, <<0, 2, 5>>,
      <<2, 4, 6>>, <<2, 3, 5>>, <<2, 3, 6>>, <<0, 1, 3>>, <<1, 2, 3>>, <<0, 1, 4>>,
      <<1, 3, 4>>, <<0, 1, 6>>, <<1, 5, 6>>, <<1, 4, 5>>, <<0, 1, 5>>, <<1, 4, 6>>,
      <<1, 3, 5>>, <<1, 3, 6>>, <<1, 2, 4>>, <<1, 2, 5>>, <<1, 2, 6>>>>

swap_meshes(n) ==
    CASE n = 3 ->
      <<<<0>>>>
      [] n = 4 ->
      <<<<0, 1>>, <<2, 3>>>>
      [] n = 5 ->
      <<<<0, 1, 2>>, <<3, 4, 5>>, <<0, 6, 7>>, <<2, 5, 8>>, <<3, 6, 9>>>>
      [] n = 6 ->
      <<<<0, 1, 2, 3>>, <<0, 4, 5, 6>>, <<0, 1, 7, 8>>, <<0, 3, 6, 9>>,
      <<0, 4, 8, 10>>, <<2, 3, 11, 12>>, <<11, 13, 14, 15>>, <<7, 8, 11, 12>>,
      <<3, 11, 15, 16>>, <<8, 11, 13, 17>>, <<6, 13, 14, 18>>, <<3, 6, 16, 18>>,
      <<5, 6, 13, 19>>, <<8, 10, 13, 19>>>>
      [] n = 7 ->
      <<<<0, 1, 2, 3, 4>>, <<0, 1, 5, 6, 7>>, <<0, 1, 2, 8, 9>>, <<0, 1, 4, 7, 10>>,
      <<0, 1, 5, 9, 11>>, <<0, 3, 4, 12, 13>>, <<0, 13, 14, 15, 16>>,
      <<0, 8, 9, 12, 13>>, <<0, 4, 13, 16, 17>>, <<0, 9, 13, 14, 18>>,
      <<0, 7, 14, 15, 19>>, <<0, 4, 7, 17, 19>>, <<0, 6, 7, 14, 20>>,
      <<0, 9, 11, 14, 20>>, <<2, 3, 4, 21, 22>>, <<5, 6, 7, 21, 22>>,
      <<2, 8, 9, 21, 22>>, <<4, 7, 10, 21, 22>>, <<5, 9, 11, 21, 22>>,
      <<3, 4, 22, 23, 24>>, <<22, 24, 25, 26, 27>>, <<8, 9, 22, 23, 24>>,
      <<4, 22, 24, 27, 28>>, <<9, 22, 24, 25, 29>>, <<7, 22, 25, 26, 30>>,
      <<4, 7, 22, 28, 30>>, <<6, 7, 22, 25, 31>>, <<9, 11, 22, 25, 31>>,
      <<3, 4, 13, 23, 32>>, <<13, 25, 26, 27, 32>>, <<8, 9, 13, 23, 32>>,
      <<4, 13, 27, 28, 32>>, <<9, 13, 25, 29, 32>>, <<13, 16, 25, 26, 33>>,
      <<4, 13, 16, 28, 33>>, <<13, 15, 16, 25, 34>>, <<9, 13, 18, 25, 34>>,
      <<7, 19, 25, 26, 33>>, <<4, 7, 19, 28, 33>>, <<7, 15, 19, 25, 34>>,
      <<6, 7, 20, 25, 34>>, <<9, 11, 20, 25, 34>>>>

unique_edges(n) ==
    CASE n = 4 ->
      <<<<2, 0>>, <<1, 3>>>>
      [] n = 5 ->
      <<<<2, 0>>, <<3, 0>>, <<1, 4>>, <<1, 3>>, <<4, 2>>, <<0, 3>>, <<3, 1>>>>
      [] n = 6 ->
      <<<<2, 0>>, <<3, 0>>, <<4, 0>>, <<2, 5>>, <<2, 4>>, <<3, 5>>, <<0, 4>>,
      <<4, 2>>, <<5, 3>>, <<0, 3>>, <<3, 1>>, <<1, 5>>, <<1, 4>>, <<4, 1>>, <<5, 2>>>>
      [] n = 7 ->
      <<<<2, 0>>, <<3, 0>>, <<4, 0>>, <<5, 0>>, <<3, 6>>, <<3, 5>>, <<4, 6>>,
      <<0, 5>>, <<5, 3>>, <<6, 4>>, <<0, 4>>, <<2, 4>>, <<4, 2>>, <<2, 6>>,
      <<2, 5>>, <<5, 2>>, <<6, 3>>, <<0, 3>>, <<1, 3>>, <<3, 1>>, <<1, 4>>,
      <<4, 1>>, <<1, 6>>, <<1, 5>>, <<5, 1>>, <<6, 2>>>>

edges2unique(n) ==
    CASE n = 4 ->
      <<<<0>>, <<1>>>>
      [] n = 5 ->
      <<<<0, 1>>, <<2, 3>>, <<0, 4>>, <<5, 6>>, <<2, 4>>>>
      [] n = 6 ->
      <<<<0, 1, 2>>, <<0, 3, 4>>, <<0, 1, 5>>, <<0, 6, 7>>, <<0, 3, 8>>,
      <<9, 2, 10>>, <<10, 11, 12>>, <<9, 5, 10>>, <<6, 10, 13>>, <<8, 10, 11>>,
      <<7, 11, 12>>, <<6, 7, 12>>, <<4, 14, 11>>, <<8, 14, 11>>>>
      [] n = 7 ->
      <<<<0, 1, 2, 3>>, <<0, 1, 4, 5>>, <<0, 1, 2, 6>>, <<0, 1, 7, 8>>,
      <<0, 1, 4, 9>>, <<0, 10, 3, 11>>, <<0, 12, 13, 14>>, <<0, 10, 6, 11>>,
      <<0, 7, 12, 15>>, <<0, 9, 12, 13>>, <<0, 8, 13, 14>>, <<0, 7, 8, 14>>,
      <<0, 5, 16, 13>>, <<0, 9, 16, 13>>, <<17, 2, 3, 18>>, <<17, 4, 5, 18>>,
      <<17, 2, 6, 18>>, <<7, 8, 17, 18>>, <<17, 4, 9, 18>>, <<10, 3, 19, 20>>,
      <<19, 21, 22, 23>>, <<10, 6, 19, 20>>, <<7, 19, 21, 24>>, <<9, 19, 21, 22>>,
      <<8, 19, 22, 23>>, <<7, 8, 19, 23>>, <<5, 16, 19, 22>>, <<9, 16, 19, 22>>,
      <<10, 3, 12, 20>>, <<12, 22, 23, 20>>, <<10, 6, 12, 20>>, <<7, 12, 20, 24>>,
      <<9, 12, 22, 20>>, <<12, 15, 22, 23>>, <<7, 12, 15, 23>>, <<12, 14, 25, 22>>,
      <<9, 12, 25, 22>>, <<8, 15, 22, 23>>, <<7, 8, 15, 23>>, <<8, 14, 25, 22>>,
      <<5, 16, 25, 22>>, <<9, 16, 25, 22>>>>

-----------------------------------------------------------------------------
EntDim(e) == Cardinality(e.verts) - 1
OfDim(M, d) == {e \in M : EntDim(e) = d}
Elems == OfDim(mesh, dim)
Around(S) == {e \in mesh : S \subseteq e.verts}
EntOf(S) == CHOOSE e \in mesh : e.verts = S

Regions == {c \in DOMAIN Cells : Cells[c] = dim}
class_dim(e) == Cells[e.class]

Minus(p, q) == [i \in 1..dim |-> p[i] - q[i]]
Det2(a, b) == a[1] * b[2] - a[2] * b[1]
Det3(a, b, c) == a[1] * Det2(Tail(b), Tail(c)) - b[1] * Det2(Tail(a), Tail(c))
                    + c[1] * Det2(Tail(a), Tail(b))
\* The volume of an element with these vertices, in simplices of the lattice.
Volume(t) == IF dim = 2 THEN Det2(Minus(t[2], t[1]), Minus(t[3], t[1]))
             ELSE Det3(Minus(t[2], t[1]), Minus(t[3], t[1]), Minus(t[4], t[1]))

\* The order in which an entity's vertices are stored, up to an even permutation.
Order(e) ==
    CHOOSE t \in [1..(EntDim(e) + 1) -> e.verts] :
        ToSet(t) = e.verts /\ (EntDim(e) = dim => (Volume(t) > 0) = ~e.inverted)

\* An entity with these vertices; its name tells apart entities that are made twice.
Product(of, t, c) ==
    [of |-> of, ent |-> [verts |-> ToSet(t), class |-> c,
                         inverted |-> Len(t) = dim + 1 /\ Volume(t) <= 0]]

Good(t) == Volume(t) > 0

\* Entities around a key are replaced by its products, the others stay.
modify_ents_adapt(same, prods) ==
    /\ mesh' = same \cup {p.ent : p \in prods}
    /\ nents' = [d \in 0..dim |-> Cardinality(OfDim(same, d)) +
                                  Cardinality({p \in prods : EntDim(p.ent) = d})]

\* The entities that are not modified.
collect_same(keys) == {e \in mesh : \A k \in keys : ~(k \subseteq e.verts)}

\* What find_indset may return: candidates no two of which share a cavity element.
IndSets(cands) ==
    {{k} : k \in cands} \cup
    (IF MaxKeys = 1 THEN {}
     ELSE {K \in {{k, l} : k, l \in cands} : \A e \in Elems : \E k \in K : ~(k \subseteq e.verts)})

-----------------------------------------------------------------------------
(***************************************************************************)
(* Refinement: every entity around a key edge is split in two by a cut     *)
(* from the middle of the edge.                                            *)
(***************************************************************************)
Twice(k) == LET t == SetToSeq(k) IN [i \in 1..dim |-> t[1][i] + t[2][i]]
CanHalve(k) == \A i \in 1..dim : Twice(k)[i] % 2 = 0
midvert(k) == [i \in 1..dim |-> Twice(k)[i] \div 2]

\* What a pair or a cut takes over, from the entity that is split.
transfer_inherit_refine(e) == e.class

flip_new_elem(t) == IF Len(t) = 4 THEN <<t[1], t[3], t[2], t[4]>> ELSE t

\* The side of t opposite to its vertex v, joined to the middle m.
HalfOf(t, v, m) ==
    LET d == Len(t) - 1
        ddv == CHOOSE i \in DOMAIN t : t[i] = v
        dds == simplex_opposite_template(d, 0)[ddv]
        side == simplex_down_template(d, d - 1)[dds + 1]
    IN  flip_new_elem([i \in DOMAIN side |-> t[side[i] + 1]] \o <<m>>)

refine_domains_to_pairs(e, k, m) ==
    {Product(<<e, v>>,
             IF EntDim(e) = 1 THEN SetToSeq((e.verts \ {v}) \cup {m}) ELSE HalfOf(Order(e), v, m),
             transfer_inherit_refine(e)) : v \in k}

\* The part of t that does not touch the key edge, joined to the middle.
refine_domains_to_cuts(e, k, m) ==
    LET t == Order(e)
        d == EntDim(e)
        edges == simplex_down_template(d, 1)
        dde == CHOOSE i \in DOMAIN edges : {t[edges[i][1] + 1], t[edges[i][2] + 1]} = k
        ddt == simplex_opposite_template(d, 1)[dde]
        tip == simplex_down_template(d, d - 2)[ddt + 1]
    IN  IF d = 1 THEN Product(<<e>>, <<m>>, transfer_inherit_refine(e))
        ELSE Product(<<e>>, [i \in DOMAIN tip |-> t[tip[i] + 1]] \o <<m>>, transfer_inherit_refine(e))

refine_products(k) ==
    LET m == midvert(k) IN
    UNION {refine_domains_to_pairs(e, k, m) \cup {refine_domains_to_cuts(e, k, m)} : e \in Around(k)}

refine_qualities(k) ==
    \A e \in Elems \cap Around(k) : \A v \in k : Good(HalfOf(Order(e), v, midvert(k)))

\* Edges that may be too long, and may be split together.
RefineCandidates ==
    {k \in {e.verts : e \in OfDim(mesh, 1)} : CanHalve(k) /\ midvert(k) \in Lattice}
refine_ghosted == IndSets({k \in RefineCandidates : refine_qualities(k)})

refine_element_based(keys) ==
    modify_ents_adapt(collect_same(keys), UNION {refine_products(k) : k \in keys})

refine_by_size ==
    \E keys \in refine_ghosted :
        /\ nents[0] + Cardinality(keys) <= MaxVerts
        /\ refine_element_based(keys)

-----------------------------------------------------------------------------
(***************************************************************************)
(* Coarsening: a key vertex v is moved onto a neighbor u along their edge, *)
(* the rail.  Entities on the rail die, and so do the ones opposite u      *)
(* there, since they come to lie on entities that stay.                    *)
(***************************************************************************)
\* Whether or not both ends are classified on the same dimension, the one that
\* goes has to be classified as the edge is.
check_collapse_class(v, u) == class_dim(EntOf({v})) = class_dim(EntOf({v, u}))

\* Faulty variant: the check is missing.
check_collapse_exposure_none(v, u) == TRUE

check_collapse_exposure(v, u) ==
    \A c \in Around({v, u}) : EntDim(c) >= 2 =>
        class_dim(EntOf(c.verts \ {u})) = class_dim(c)

Moved(t, v, u) == [i \in DOMAIN t |-> IF t[i] = v THEN u ELSE t[i]]

coarsen_qualities(v, u) ==
    \A c \in Elems : v \in c.verts /\ u \notin c.verts => Good(Moved(Order(c), v, u))

mark_dead_ents(v, u) ==
    {c \in mesh : {v, u} \subseteq c.verts} \cup
    {s \in mesh : \E c \in Around({v, u}) : EntDim(c) >= 2 /\ s.verts = c.verts \ {u}}

find_coarsen_domains(v, u) ==
    {e \in Around({v}) : EntDim(e) > 0} \ mark_dead_ents(v, u)

transfer_inherit_coarsen(e) == e.class

coarsen_topology(v, u) ==
    {Product(<<e>>, Moved(Order(e), v, u), transfer_inherit_coarsen(e)) : e \in find_coarsen_domains(v, u)}

\* The moves that pass the checks.
coarsen_element_based1 ==
    {r \in UNION {{<<v, u>> : v, u \in e.verts} : e \in OfDim(mesh, 1)} :
        r[1] # r[2] /\ check_collapse_class(r[1], r[2])}
coarsen_ghosted ==
    {r \in coarsen_element_based1 : /\ check_collapse_exposure(r[1], r[2])
                                   /\ coarsen_qualities(r[1], r[2])}

\* One neighbor for each vertex of an independent set.
choose_rails(cands) ==
    {{r} : r \in cands} \cup
    (IF MaxKeys = 1 THEN {}
     ELSE {K \in {{r, s} : r, s \in cands} :
             \A r, s \in K : r # s => /\ r[1] # s[1]
                                     /\ \A e \in mesh : ~({r[1], s[1]} \subseteq e.verts)})

coarsen_element_based2(rails) ==
    modify_ents_adapt(collect_same({{r[1]} : r \in rails}),
                      UNION {coarsen_topology(r[1], r[2]) : r \in rails})

coarsen_by_size == \E rails \in choose_rails(coarsen_ghosted) : coarsen_element_based2(rails)

-----------------------------------------------------------------------------
(***************************************************************************)
(* Swapping: the elements around an edge inside a region are replaced by   *)
(* elements that do not use it.  Everything new inherits from the edge.    *)
(***************************************************************************)
swap_part1 == {e.verts : e \in {f \in OfDim(mesh, 1) : class_dim(f) = dim}}

transfer_inherit_swap(k) == EntOf(k).class

\* The vertex across the edge <<a, b>> of the triangle on its left, and the one on its right.
OppositeVerts(ev) ==
    LET Runs(t, a, b) == \E i \in 1..3 : t[i] = a /\ t[(i % 3) + 1] = b
        Across(a, b) == CHOOSE v \in UNION {e.verts : e \in Elems} :
            \E e \in Elems : e.verts = {a, b, v} /\ Runs(Order(e), a, b)
    IN  <<Across(ev[1], ev[2]), Across(ev[2], ev[1])>>

NewTri(ev, ov, i) == <<ev[3 - i], ov[i], ov[3 - i]>>

swap2d_qualities(k) ==
    LET ev == SetToSeq(k) IN
    LET ov == OppositeVerts(ev) IN \A i \in 1..2 : Good(NewTri(ev, ov, i))

swap2d_topology(k) ==
    LET ev == SetToSeq(k)
        c == transfer_inherit_swap(k)
    IN  LET ov == OppositeVerts(ev) IN
        {Product(<<k>>, ov, c)} \cup {Product(<<k, i>>, NewTri(ev, ov, i), c) : i \in 1..2}

swap2d_ghosted == IndSets({k \in swap_part1 : swap2d_qualities(k)})

swap2d_element_based(keys) ==
    modify_ents_adapt(collect_same(keys), UNION {swap2d_topology(k) : k \in keys})

swap_edges_2d == dim = 2 /\ \E keys \in swap2d_ghosted : swap2d_element_based(keys)

\* The edge of the tetrahedron t opposite to <<a, b>>, curling around it.
Curl(t, a, b) ==
    LET edges == simplex_down_template(3, 1)
        At(i) == <<t[edges[i][1] + 1], t[edges[i][2] + 1]>>
        rre == CHOOSE i \in DOMAIN edges : ToSet(At(i)) = {a, b}
        opp == At(simplex_opposite_template(3, 1)[rre] + 1)
    IN  IF At(rre) = <<a, b>> THEN opp ELSE Reverse(opp)

\* The vertices around an edge, in order.
find_loop(ev) ==
    LET tets == Elems \cap Around(ToSet(ev))
        curls == {Curl(Order(e), ev[1], ev[2]) : e \in tets}
        loop[i \in 1..Cardinality(tets)] ==
            IF i = 1 THEN (CHOOSE c \in curls : TRUE)[1]
            ELSE (CHOOSE c \in curls : c[1] = loop[i - 1])[2]
    IN  [i \in 1..Cardinality(tets) |-> loop[i]]

At(loop, t) == [i \in DOMAIN t |-> loop[t[i] + 1]]
PlaneTris(loop, config) ==
    LET n == Len(loop) IN
    {At(loop, swap_triangles(n)[t + 1]) : t \in ToSet(swap_meshes(n)[config])}
PlaneEdges(loop, config) ==
    LET n == Len(loop) IN
    IF n = 3 THEN {}
    ELSE {At(loop, unique_edges(n)[e + 1]) : e \in ToSet(edges2unique(n)[config])}

\* The configurations whose elements are all good; choose takes one of them.
choose(ev, loop) ==
    {config \in DOMAIN swap_meshes(Len(loop)) : \A t \in PlaneTris(loop, config) :
        Good(t \o <<ev[2]>>) /\ Good(<<t[1], t[3], t[2], ev[1]>>)}

NewTet(t, ev, eev) == IF eev = 1 THEN <<t[1], t[3], t[2], ev[1]>> ELSE t \o <<ev[2]>>

swap3d_topology(k, ev, loop, config) ==
    LET c == transfer_inherit_swap(k) IN
    {Product(<<e>>, e, c) : e \in PlaneEdges(loop, config)} \cup
    {Product(<<e, v>>, e \o <<v>>, c) : e \in PlaneEdges(loop, config), v \in k} \cup
    {Product(<<t>>, t, c) : t \in PlaneTris(loop, config)} \cup
    {Product(<<t, eev>>, NewTet(t, ev, eev), c) : t \in PlaneTris(loop, config), eev \in 1..2}

swap3d_element_based(k, ev, loop, config) ==
    modify_ents_adapt(collect_same({k}), swap3d_topology(k, ev, loop, config))

swap_edges_3d ==
    /\ dim = 3
    /\ \E k \in swap_part1 : \E ev \in {SetToSeq(k)} :
          /\ Cardinality(Elems \cap Around(k)) <= MAX_EDGE_SWAP
          /\ \E loop \in {find_loop(ev)} : \E config \in choose(ev, loop) :
                swap3d_element_based(k, ev, loop, config)

-----------------------------------------------------------------------------
Build(E) == {[verts |-> S, class |-> Model(S), inverted |-> FALSE] :
                S \in UNION {SUBSET e \ {{}} : e \in E}}

Init == \E E \in Meshes :
    /\ mesh = Build(E)
    /\ nents = [d \in 0..dim |-> Cardinality(OfDim(Build(E), d))]

Next == refine_by_size \/ coarsen_by_size \/ swap_edges_2d \/ swap_edges_3d

Spec == Init /\ [][Next]_vars

-----------------------------------------------------------------------------
TypeOK ==
    /\ \A e \in mesh : /\ e.verts \subseteq Lattice /\ EntDim(e) \in 0..dim
                       /\ e.class \in DOMAIN Cells /\ e.inverted \in BOOLEAN
    /\ nents \in [0..dim -> Nat]

\* Every modification derives the products of every dimension on its own, and
\* they fit together: a mesh holds the faces of its elements, each once, and
\* nothing else.
Closed ==
    /\ {e.verts : e \in mesh} = UNION {SUBSET e.verts \ {{}} : e \in Elems}
    /\ \A d \in 0..dim : nents[d] = Cardinality({e.verts : e \in OfDim(mesh, d)})

\* An entity is classified on the model entity it lies on, although products
\* only inherit from the entity they replace and checks compare dimensions only.
ClassIsTrue == \A e \in mesh : e.class = Model(e.verts)

\* No element is stored in an order that inverts it.
Upright == \A e \in Elems : ~e.inverted

\* A side lies between two elements, or bounds one where it is on the outer
\* boundary of the model.
Conforming ==
    \A s \in OfDim(mesh, dim - 1) :
        Cardinality(Elems \cap Around(s.verts)) =
            IF class_dim(s) = dim THEN 2 ELSE Cardinality({r \in Regions : s.class \subseteq r})

RegionVolume(r, M) == MapThenSumSet(LAMBDA e : LET v == Volume(Order(e)) IN IF v < 0 THEN -v ELSE v,
                                    {e \in M : EntDim(e) = dim /\ e.class = r})

\* Each region of the model stays filled: what a cavity loses is made up for
\* by the products, region by region.
RegionsStayFilled ==
    \E E \in Meshes : \A r \in Regions : RegionVolume(r, mesh) = RegionVolume(r, Build(E))

\* The triangulations of a polygon with corners 0..n-1, as the sets of the
\* diagonals that they use, n - 3 that do not cross, and of their triangles.
Diagonals(n) == {d \in SUBSET (0..(n - 1)) : /\ Cardinality(d) = 2
                                             /\ \A i, j \in d : (i + 1) % n # j}
Cross(d, e) == \E i, k \in d, j, l \in e : i < j /\ j < k /\ k < l
Triangulations(n) ==
    LET sets[k \in 0..(n - 3)] ==
            IF k = 0 THEN {{}}
            ELSE {D \cup {d} : D \in sets[k - 1], d \in Diagonals(n)}
        apart == {D \in sets[n - 3] : /\ Cardinality(D) = n - 3
                                      /\ \A d, e \in D : ~Cross(d, e)}
        Side(i, j) == (i + 1) % n = j \/ (j + 1) % n = i
        tris(D) == {{i, j, k} : i, j, k \in 0..(n - 1)} \cap
                   {T \in SUBSET (0..(n - 1)) : Cardinality(T) = 3 /\
                        \A i, j \in T : i = j \/ Side(i, j) \/ {i, j} \in D}
    IN  {<<D, tris(D)>> : D \in apart}
Numbers(n) == [i \in 1..n |-> i - 1]
Offered(n) == {<<{ToSet(e) : e \in PlaneEdges(Numbers(n), c)},
                 {ToSet(t) : t \in PlaneTris(Numbers(n), c)}>> : c \in DOMAIN swap_meshes(n)}
TablesComplete ==
    [n \in 3..MAX_EDGE_SWAP |-> /\ Offered(n) = Triangulations(n)
                                /\ Cardinality(Offered(n)) = Len(swap_meshes(n))]

\* Wherever an edge can be swapped, the tables offer every triangulation of the
\* loop around it, none twice, and the edges they list are those of its triangles.
SwapOffersEverything ==
    \A k \in swap_part1 :
        LET n == Cardinality(Elems \cap Around(k)) IN n <= MAX_EDGE_SWAP => TablesComplete[n]
=============================================================================
