--------------------------------- MODULE Amr ---------------------------------
(***************************************************************************)
(* Refinement of a mesh of quadrilaterals or hexahedra into a tree         *)
(* (Omega_h_amr.cpp, Omega_h_amr_topology.cpp, Omega_h_amr_transfer.cpp)   *)
(* and the removal of entities from it (Omega_h_unmap_mesh.cpp), on one    *)
(* rank.                                                                   *)
(*                                                                         *)
(* An entity is the set of its vertices' positions: one for a vertex, two  *)
(* for an edge, four, eight; verts gives them the order of the reference   *)
(* element.  Positions are integers, 2^MaxLevel to the side of an          *)
(* unrefined element.  Numbers of entities, and so the order of the        *)
(* arrays, are left out.                                                   *)
(***************************************************************************)
EXTENDS RefElem, SequencesExt, FiniteSetsExt

CONSTANTS dim,          \* 2 or 3
          Boxes,        \* how many elements there are along each direction
          MaxLevel,     \* bound: how often an element is refined
          MaxMarks,     \* bound: how many elements are marked at a time, 1 or 2
          MaxElems      \* bound: how many elements there may be

VARIABLES
    verts,     \* the entities, each with its vertices in order
    leaf,      \* the tag "leaf" of edges, faces and regions
    parent,    \* parents_: what an entity came from, NoEnt if nothing
    level,     \* the tag "level"
    phase      \* "tree", "flat" once only leaves are left, "failed" or "clash" after an OMEGA_H_CHECK

mesh == <<verts, leaf, parent, level>>
vars == <<verts, leaf, parent, level, phase>>

-----------------------------------------------------------------------------
NoEnt == {}
ents == DOMAIN verts
EntDim(e) == CHOOSE d \in 0..3 : 2^d = Cardinality(e)
OfDim(E, d) == {e \in E : Cardinality(e) = 2^d}
Elems(E) == OfDim(E, dim)

\* A box in the order of the reference element.
Unit == IF dim = 2 THEN <<<<0, 0>>, <<1, 0>>, <<1, 1>>, <<0, 1>>>>
        ELSE <<<<0, 0, 0>>, <<1, 0, 0>>, <<1, 1, 0>>, <<0, 1, 0>>,
               <<0, 0, 1>>, <<1, 0, 1>>, <<1, 1, 1>>, <<0, 1, 1>>>>
Box(at, size) == [i \in DOMAIN Unit |-> [j \in DOMAIN at |-> at[j] + size * Unit[i][j]]]
Side(l) == 2^(MaxLevel - l)

\* The boundary entities of dimension d of an entity with these vertices.
Bounds(list, d) ==
    IF 2^d = Len(list) THEN <<list>>
    ELSE LET down == hypercube_down_template(EntDim(ToSet(list)), d) IN
         [k \in DOMAIN down |-> [j \in DOMAIN down[k] |-> list[down[k][j] + 1]]]

Downs(e, d) == {ToSet(b) : b \in ToSet(Bounds(verts[e], d))}
mark_down(marks, d) == UNION {Downs(e, d) : e \in marks}

\* The mean of an entity's vertices (average_field).
Middle(e) == [j \in 1..dim |-> FoldSeq(LAMBDA p, s : s + p[j], 0, verts[e]) \div Cardinality(e)]

Children(P, e, d) == {c \in DOMAIN P : P[c] = e /\ Cardinality(c) = 2^d}

-----------------------------------------------------------------------------
\* The box of build_box, its edges and faces the ones of its elements.
Coarse == {Box([j \in 1..dim |-> Side(0) * n[j]], Side(0)) :
            n \in {n \in [1..dim -> 0..(Max(ToSet(Boxes)) - 1)] : \A j \in 1..dim : n[j] < Boxes[j]}}
CoarseLists == UNION {ToSet(Bounds(e, d)) : <<e, d>> \in Coarse \X (0..dim)}
CoarseEnts == {ToSet(list) : list \in CoarseLists}

Init ==
    /\ verts = [e \in CoarseEnts |-> CHOOSE list \in CoarseLists : ToSet(list) = e]
    /\ leaf = {e \in CoarseEnts : Cardinality(e) > 1}
    /\ parent = [e \in CoarseEnts |-> NoEnt]
    /\ level = [e \in CoarseEnts |-> 0]
    /\ phase = "tree"

\* mark_by_class_dim: not on the boundary of the domain.
is_interior(e) ==
    ~\E j \in 1..dim : \E x \in {0, Boxes[j] * Side(0)} : \A p \in e : p[j] = x

-----------------------------------------------------------------------------
\* mark_refined: the leaves among the marked elements and what bounds them; every
\* vertex is a leaf.
mark_refined(marks) ==
    {e \in UNION {mark_down(marks, d) : d \in 0..dim} : Cardinality(e) = 1 \/ e \in leaf}

TheVert(v) == CHOOSE p \in v : TRUE

\* The vertices that a refined entity that is not refined now has in its middle.
OldMidverts(low) == Children(parent, low, 0)

\* get_refined_topology: the middle of a boundary entity is the vertex made for
\* it now, or the one it was given when it was refined.
midvert(mods, low) ==
    IF low \notin mods THEN TheVert(CHOOSE v \in OldMidverts(low) : TRUE)
    ELSE IF Cardinality(low) = 1 THEN TheVert(low)
    ELSE Middle(low)

\* Entities of mods whose middle is not to be found: OMEGA_H_CHECK(end - begin == 1).
Lost(mods) ==
    {low \in UNION {Downs(m, d) : <<m, d>> \in {md \in mods \X (1..dim) : md[2] < EntDim(md[1])}} :
        low \notin mods /\ Cardinality(OldMidverts(low)) # 1}

\* The children of dimension d of a refined entity.
Products(mods, m, d) ==
    IF d = 0 THEN <<<<Middle(m)>>>>
    ELSE LET split == hypercube_split_template(EntDim(m), d) IN
         [k \in DOMAIN split |-> [v \in DOMAIN split[k] |->
            midvert(mods, ToSet(Bounds(verts[m], split[k][v][1])[split[k][v][2] + 1]))]]

\* All products, each with what it is made from and its number there.
Made(mods) ==
    UNION {LET list == Products(mods, m, d) IN {<<ToSet(list[k]), list[k], m, k>> : k \in DOMAIN list} :
            <<m, d>> \in {md \in mods \X (0..dim) : Cardinality(md[1]) > 1 /\ md[2] <= EntDim(md[1])}}

SourceOf(made, e) == (CHOOSE n \in made : n[1] = e)[3]

transfer_levels(made, all) ==
    [e \in all |-> IF e \in ents THEN level[e] ELSE level[SourceOf(made, e)] + 1]

transfer_leaves(mods, made) ==
    (leaf \ mods) \cup {n[1] : n \in {n \in made : Len(n[2]) > 1}}

transfer_parents(made, all) ==
    [e \in all |-> IF e \in ents THEN parent[e] ELSE SourceOf(made, e)]

\* refine: new vertices, then the children of each dimension.  A product that is
\* already there would be found twice: OMEGA_H_CHECK(!found) in find_matches.
Refine(marks) ==
    /\ phase = "tree"
    /\ \E mods \in {mark_refined(marks)} :
        IF Lost(mods) # {}
        THEN phase' = "failed" /\ UNCHANGED mesh
        ELSE \E made \in {Made(mods)} :
            LET prods == {n[1] : n \in made}
                all == ents \cup prods
                clash == prods \cap ents # {} \/ Cardinality(prods) < Cardinality(made) IN
            /\ verts' = [e \in all |-> IF e \in ents THEN verts[e]
                                       ELSE (CHOOSE n \in made : n[1] = e)[2]]
            /\ level' = transfer_levels(made, all)
            /\ leaf' = transfer_leaves(mods, made)
            /\ parent' = transfer_parents(made, all)
            /\ phase' = IF clash THEN "clash" ELSE phase

-----------------------------------------------------------------------------
bridge_dim == dim - 1

\* Elements on the other side of the parts of a refined side of e.
FinerNeighbours(e) ==
    LET bridges == {b \in Downs(e, bridge_dim) : is_interior(b) /\ b \notin leaf}
        parts == UNION {Children(parent, b, bridge_dim) : b \in bridges} IN
    {f \in Elems(ents) : Downs(f, bridge_dim) \cap parts # {}}

\* enforce_2to1_refine: what elems_are_marked is extended to.  The kernel also
\* reads one_level_mark of neighbours that another thread, or a later iteration,
\* has yet to write: memory that is not initialized, so either value.
enforce_2to1_refine(marks) ==
    LET must == {e \in Elems(leaf) : e \in marks \/ FinerNeighbours(e) \cap marks # {}}
        may == {e \in Elems(leaf) : FinerNeighbours(e) # {}} IN
    {must \cup extra : extra \in SUBSET (may \ must)}

-----------------------------------------------------------------------------
\* unmap_mesh: the entities that persist keep their tags; parents are looked up
\* again, those of vertices are not carried over; what lost its children is a
\* leaf again.
unmap_mesh(persists) ==
    LET np == [e \in persists |->
                IF Cardinality(e) > 1 /\ parent[e] \in persists THEN parent[e] ELSE NoEnt] IN
    /\ verts' = [e \in persists |-> verts[e]]
    /\ parent' = np
    /\ level' = [e \in persists |-> level[e]]
    /\ leaf' = {e \in persists : Cardinality(e) > 1 /\ (e \in leaf \/ Children(np, e, EntDim(e)) = {})}

\* mark_persisting_elems: the children of marked elements go if they are leaves.
mark_persisting_elems(marks) ==
    {e \in Elems(ents) : ~(parent[e] \in marks /\ e \in leaf)}

\* mark_persisting_ents: whatever is not a leaf, or is used by what persists.
mark_persisting_ents(elems, d) ==
    {e \in OfDim(ents, d) : (d > 0 /\ e \notin leaf) \/ e \in mark_down(elems, d)}

\* derefine
Derefine(marks) ==
    LET elems == mark_persisting_elems(marks) IN
    /\ phase = "tree"
    /\ unmap_mesh(elems \cup UNION {mark_persisting_ents(elems, d) : d \in 0..(dim - 1)})
    /\ UNCHANGED phase

\* remove_non_leaf_uses
RemoveNonLeafUses ==
    /\ phase = "tree"
    /\ unmap_mesh(UNION {mark_down(Elems(leaf), d) : d \in 0..dim})
    /\ phase' = "flat"

-----------------------------------------------------------------------------
OneOrTwo(S) == {{a, b} : a, b \in S}

\* What a caller marks for refinement: a few elements, leaves or not.
Marks ==
    {m \in OneOrTwo({e \in Elems(ents) : level[e] < MaxLevel}) :
        /\ Cardinality(m) <= MaxMarks
        /\ Cardinality(Elems(ents)) + 2^dim * Cardinality(m) <= MaxElems}

\* What a caller marks for removal: elements all of whose children are leaves.
\* The code removes the leaves among the children of a marked element only.
Whole == {e \in Elems(ents) \ leaf : Children(parent, e, dim) \subseteq leaf}
DerefineMarks == {m \in OneOrTwo(Whole) : Cardinality(m) <= MaxMarks}

RefineMarked == \E marks \in Marks : Refine(marks)
DerefineMarked == \E marks \in DerefineMarks : Derefine(marks)
RefineEnforced ==
    \E marks \in Marks : \E enforced \in enforce_2to1_refine(marks \cap leaf) : Refine(enforced)

Next == RefineMarked \/ DerefineMarked \/ RemoveNonLeafUses

Spec == Init /\ [][Next]_vars

\* The callers that go through enforce_2to1_refine, as amr_test2 does.
SpecEnforced == Init /\ [][RefineEnforced]_vars

-----------------------------------------------------------------------------
TypeOK ==
    /\ \A e \in ents : e = ToSet(verts[e]) /\ Len(verts[e]) \in {2^d : d \in 0..dim}
    /\ DOMAIN parent = ents /\ \A e \in ents : parent[e] \in ents \cup {NoEnt}
    /\ DOMAIN level = ents /\ \A e \in ents : level[e] \in 0..MaxLevel
    /\ leaf \subseteq ents
    /\ phase \in {"tree", "flat", "failed", "clash"}

Overlap(e, f) ==
    LET p == verts[e][1]
        q == verts[f][1] IN
    \A j \in 1..dim : p[j] < q[j] + Side(level[f]) /\ q[j] < p[j] + Side(level[e])

\* Whatever was refined and removed, the leaves are boxes of the size of their
\* level in the order of the reference element, they do not overlap, and they
\* fill the domain.
LeavesTile ==
    /\ \A e \in Elems(leaf) : verts[e] = Box(verts[e][1], Side(level[e]))
    /\ \A e, f \in Elems(leaf) : e # f => ~Overlap(e, f)
    /\ MapThenSumSet(LAMBDA e : Side(level[e])^dim, Elems(leaf)) = Cardinality(Coarse) * Side(0)^dim

\* Every boundary entity of an entity is in the mesh (find_matches finds it), and
\* none is there that no element uses.
Conforms ==
    /\ \A e \in ents : \A d \in 0..(EntDim(e) - 1) : Downs(e, d) \subseteq ents
    /\ \A d \in 0..(dim - 1) : OfDim(ents, d) = mark_down(Elems(ents), d)

\* In the tree an edge, face or region is a leaf or has all of its children, of
\* its own dimension and of the lower ones, and children agree with their
\* parent's level.
ChildrenComplete ==
    phase # "flat" => \A e \in {e \in ents : Cardinality(e) > 1} :
        \A d \in 1..EntDim(e) :
            LET children == Children(parent, e, d) IN
            /\ Cardinality(children) =
                IF e \in leaf THEN 0 ELSE Len(hypercube_split_template(EntDim(e), d))
            /\ \A c \in children : level[c] = level[e] + 1

\* refine makes no entity twice and none that is there already, although an edge
\* or face is marked by several elements and may have been refined before.
NoDuplicates == phase # "clash"

\* The check of get_refined_topology never fails: an edge or face that was
\* refined before has one vertex in its middle.
NeverFails == phase # "failed"

\* Two leaves that share a side, or a part of one, are at most one level apart.
Balanced ==
    \A e \in Elems(leaf) : FinerNeighbours(e) \subseteq leaf
=============================================================================
