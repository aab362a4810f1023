---------------------------- MODULE CoarsenTrial ----------------------------
(***************************************************************************)
(* Coarsening of a curved mesh (Omega_h_coarsen.cpp with the option        *)
(* should_filter_invalids, Omega_h_coarsen_invalidities.cpp): the collapses *)
(* are made once on a copy, the directions that gave invalid elements are  *)
(* dropped, and the rest is chosen from again and collapsed for good.      *)
(*                                                                         *)
(* An element is the set of its vertices; a direction <<v, u>> collapses v *)
(* onto u.  What MeshMod says of candidates (classes, exposure, quality)   *)
(* is here any choice of some of them.                                     *)
(***************************************************************************)
EXTENDS RefElem, FiniteSets

CONSTANTS
    Elems,       \* the elements of the mesh
    Dirs,        \* the directions marked by the caller
    Dims,        \* the dimensions the mesh may have
    Ranks,       \* the orders the directions may have by the quality they give
    Filters      \* the values of should_filter_invalids

VARIABLES
    dim, filter,   \* Mesh::dim, should_filter_invalids
    rank,          \* the place of each direction by quality, 1 the best
    elems,         \* the elements of the mesh
    codes,         \* the tag collapse_code, as the directions it allows, or NoTag
    cands,         \* the candidates as they were when the trial was made
    keys,          \* the tags key and collapse_rail: key vertex to onto vertex, or NoKeys
    tried,         \* the collapses of the trial
    bad,           \* elements of the trial's new mesh found invalid
    ret,           \* what coarsen returns
    phase

vars == <<dim, filter, rank, elems, codes, cands, keys, tried, bad, ret, phase>>

\* The tags when they are not on the mesh; no vertex has a negative number.
NoTag == {<<-1, -1>>}
NoKeys == [v \in {-1} |-> -1]
Nothing == [v \in {} |-> v]

Joined(v, u) == \E t \in elems : {v, u} \subseteq t

\* What the elements become when every key is collapsed onto its vertex; the
\* elements that hold both vanish.
Moved(t, k) == {IF v \in DOMAIN k THEN k[v] ELSE v : v \in t}
Dies(t, k) == \E v \in t : v \in DOMAIN k /\ k[v] \in t
Products(k) == {Moved(t, k) : t \in {t \in elems : ~Dies(t, k) /\ \E v \in t : v \in DOMAIN k}}
Collapsed(k) == {Moved(t, k) : t \in {t \in elems : ~Dies(t, k)}}

Init ==
    /\ dim \in Dims /\ filter \in Filters
    /\ rank \in Ranks
    /\ elems = Elems
    /\ codes = Dirs
    /\ cands = {} /\ keys = NoKeys /\ tried = Nothing /\ bad = {}
    /\ ret = FALSE
    /\ phase = "element1"

\* get_edge_codes: the tag is taken off the mesh.
HasCodes == codes # NoTag

\* choose_rails: the best direction of every candidate vertex.
choose_rails(from) ==
    [v \in {d[1] : d \in from} |->
        (CHOOSE d \in from : d[1] = v /\ \A c \in from : c[1] = v => rank[d] <= rank[c])[2]]

\* find_indset: a vertex is taken unless a better one it is joined to is.
find_indset(rails) ==
    LET better(w, v) == Joined(v, w) /\ rank[<<w, rails[w]>>] < rank[<<v, rails[v]>>] IN
    CHOOSE S \in SUBSET DOMAIN rails : \A v \in DOMAIN rails : v \in S <=> ~\E w \in S : better(w, v)

Chosen(from) == LET rails == choose_rails(from) IN [v \in find_indset(rails) |-> rails[v]]

\* check_collapse_class leaves some of the directions.
coarsen_element_based1 ==
    /\ phase = "element1" /\ HasCodes
    /\ \E left \in SUBSET codes :
        /\ codes' = IF left = {} THEN NoTag ELSE left
        /\ ret' = (left # {})
        /\ phase' = IF left = {} THEN "end" ELSE "ghosted"
    /\ UNCHANGED <<dim, filter, rank, elems, cands, keys, tried, bad>>

\* Exposure, overshoot, flip and quality leave some; the mesh is curved, so the
\* codes are put back.
coarsen_ghosted ==
    /\ phase = "ghosted" /\ HasCodes
    /\ \E left \in SUBSET codes :
        IF left = {} THEN ret' = FALSE /\ codes' = NoTag /\ keys' = keys /\ phase' = "end"
        ELSE /\ keys' = Chosen(left)
             /\ codes' = left
             /\ ret' = TRUE
             /\ phase' = IF filter THEN "trial" ELSE "modify"
    /\ UNCHANGED <<dim, filter, rank, elems, cands, tried, bad>>

\* coarsen_element_based2_crv with should_modify_mesh = -1: the new mesh is
\* made and its new elements judged.
Trial ==
    /\ phase = "trial" /\ keys # NoKeys
    /\ tried' = keys
    /\ \E found \in SUBSET Products(keys) : bad' = found
    /\ phase' = IF dim = 3 THEN "filter" ELSE "between"
    /\ UNCHANGED <<dim, filter, rank, elems, codes, cands, keys, ret>>

\* The worst code around the onto vertex in the new mesh; 127 for what was not
\* collapsed.  A vertex that is a key has no place in the new mesh.
coarsen_invalidities_new_mesh(d) ==
    LET verts_are_onto == {tried[v] : v \in DOMAIN tried} IN
    IF d[1] \notin DOMAIN tried \/ d[2] \in DOMAIN tried \/ d[2] \notin verts_are_onto THEN 127
    ELSE IF \E t \in bad : d[2] \in t THEN 2 ELSE -1

filter_coarsen_invalids(from) == {d \in from : coarsen_invalidities_new_mesh(d) = -1}

FilterTrial ==
    /\ phase = "filter" /\ HasCodes
    /\ cands' = codes
    /\ codes' = filter_coarsen_invalids(codes)
    /\ phase' = "between"
    /\ UNCHANGED <<dim, filter, rank, elems, keys, tried, bad, ret>>

\* Faulty variant: the codes are taken and not put back.
Between_take ==
    /\ phase = "between" /\ HasCodes
    /\ codes' = NoTag
    /\ phase' = "ghosted2"
    /\ UNCHANGED <<dim, filter, rank, elems, cands, keys, tried, bad, ret>>

\* coarsen takes the codes and puts them back.
Between ==
    /\ phase = "between" /\ HasCodes
    /\ codes' = codes
    /\ phase' = "ghosted2"
    /\ UNCHANGED <<dim, filter, rank, elems, cands, keys, tried, bad, ret>>

coarsen_ghosted2_crv ==
    /\ phase = "ghosted2" /\ HasCodes
    /\ IF codes = {} THEN ret' = FALSE /\ keys' = keys /\ phase' = "end"
       ELSE keys' = Chosen(codes) /\ ret' = TRUE /\ phase' = "modify"
    /\ codes' = NoTag
    /\ UNCHANGED <<dim, filter, rank, elems, cands, tried, bad>>

\* coarsen_element_based2_crv with should_modify_mesh = 1; the new mesh has
\* none of the tags.
Modify ==
    /\ phase = "modify" /\ keys # NoKeys
    /\ elems' = Collapsed(keys)
    /\ codes' = NoTag
    /\ phase' = "modified"
    /\ UNCHANGED <<dim, filter, rank, cands, keys, tried, bad, ret>>

Next ==
    \/ coarsen_element_based1 \/ coarsen_ghosted \/ Trial \/ FilterTrial \/ Between
    \/ coarsen_ghosted2_crv \/ Modify

Spec == Init /\ [][Next]_vars /\ WF_vars(Next)

-----------------------------------------------------------------------------
\* What collapsing v would make, with the keys k.
Makes(v, k) == {Moved(t, k) : t \in {t \in elems : v \in t /\ ~Dies(t, k)}}

\* With the filter on, a collapse made for good is one that was tried, and the
\* trial made all its elements and found none invalid; or its vertex was tried
\* onto another one, and its own elements were not judged: it has the verdict on
\* the collapses that were tried onto the vertex it is made onto, which is that
\* nothing around this vertex was invalid (coarsen_invalidities_new_mesh,
\* filter_coarsen_invalids).
MadeWereJudged ==
    phase = "modify" /\ filter /\ dim = 3 => \A v \in DOMAIN keys :
        /\ v \in DOMAIN tried
        /\ IF keys[v] = tried[v] THEN Makes(v, keys) \subseteq Products(tried) \ bad
           ELSE /\ ~(Makes(v, keys) \subseteq Products(tried))
                /\ \E w \in DOMAIN tried :
                    tried[w] = keys[v] /\ Makes(w, tried) \intersect bad = {}

\* Every stage finds the codes the stage before it left, so coarsen returns,
\* and returns with no code left on the mesh (get_edge_codes, put_edge_codes).
CodesAreHandedOn == <>(phase \in {"end", "modified"} /\ codes = NoTag)

-----------------------------------------------------------------------------
(***************************************************************************)
(* coarsen_invalidities_2d and coarsen_invalidities_3d                     *)
(* (Omega_h_coarsen_invalidities.cpp): for a collapse that is only         *)
(* considered, the control points every new element would have.  An edge   *)
(* of a new element that the mesh has already keeps its points; it is      *)
(* looked for across the elements of the candidate edge and then across    *)
(* those of the edges met there.  The other edges are straight.            *)
(***************************************************************************)
CONSTANTS
    Meshes,      \* the meshes, as sequences of elements
    Turns        \* bound: the ways the stored edges may be turned

VARIABLES
    cells,       \* cv2v
    ev2v,        \* edges with their first and second vertex
    cand,        \* the candidate edge and which of its vertices collapses
    pts          \* the points of the new elements looked at so far

searchVars == <<cells, ev2v, cand, pts>>

Dim == Len(cells[1]) - 1
Sides == simplex_down_template(Dim, 1)
Ends(e) == {ev2v[e][1], ev2v[e][2]}
EdgeOf(a, b) == {e \in DOMAIN ev2v : Ends(e) = {a, b}}

v_col == ev2v[cand[1]][cand[2]]
v_onto == ev2v[cand[1]][3 - cand[2]]

SearchInit ==
    /\ cells \in Meshes
    /\ \E turn \in Turns : ev2v = EdgesOf(cells, turn)
    /\ cand \in (DOMAIN ev2v) \X {1, 2}
    /\ v_col = 0
    /\ pts = <<>>

SideEdge(c, k) == CHOOSE e \in EdgeOf(cells[c][Sides[k][1] + 1], cells[c][Sides[k][2] + 1]) : TRUE
WhichSide(c, e) == CHOOSE k \in DOMAIN Sides : SideEdge(c, k) = e
CellsOf(e) == SelectSeq([c \in DOMAIN cells |-> c], LAMBDA c : Ends(e) \subseteq ToSet(cells[c]))

\* The edges met across the elements of an edge, element by element.
edges_across_tris(e) ==
    FlattenSeq([i \in DOMAIN CellsOf(e) |->
        LET c == CellsOf(e)[i]
            k == WhichSide(c, e) IN <<SideEdge(c, (k % 3) + 1), SideEdge(c, ((k + 1) % 3) + 1)>>])
edges_across_tets(e) ==
    [i \in DOMAIN CellsOf(e) |->
        LET c == CellsOf(e)[i] IN SideEdge(c, simplex_opposite_template(3, 1)[WhichSide(c, e)] + 1)]
e2e(e) == IF Dim = 2 THEN edges_across_tris(e) ELSE edges_across_tets(e)

will_die(c) == v_onto \in ToSet(cells[c])
\* The vertices of the new element.
NewCell(c) == [k \in 1..(Dim + 1) |-> IF cells[c][k] = v_col THEN v_onto ELSE cells[c][k]]

\* Whether an edge is a side of the new element.
Fits(new, e) == Ends(e) \subseteq ToSet(new)

\* The edges in the order the search meets them.
Met(new) ==
    FlattenSeq([i \in DOMAIN e2e(cand[1]) |->
        LET adj_e == e2e(cand[1])[i] IN IF Fits(new, adj_e) THEN <<adj_e>> ELSE e2e(adj_e)])

\* The first of them that are sides of the new element, each once: at most two
\* in the plane and five in space.
same_edges(new) ==
    LET met == Met(new)
        found == SelectSeq([i \in DOMAIN met |-> i],
                           LAMBDA i : Fits(new, met[i]) /\ \A j \in 1..(i - 1) : met[j] # met[i])
        limit == IF Dim = 2 THEN 2 ELSE 5 IN
    [i \in 1..(IF Len(found) < limit THEN Len(found) ELSE limit) |-> met[found[i]]]

\* Faulty variant: the points are never turned.
SidePoints_unturned(new, k) ==
    LET ends == <<new[Sides[k][1] + 1], new[Sides[k][2] + 1]>>
        same == {e \in ToSet(same_edges(new)) : Ends(e) = {ends[1], ends[2]}} IN
    IF same = {} THEN <<>>
    ELSE LET e == CHOOSE e \in same : TRUE IN <<<<e, 1>>, <<e, 2>>>>

\* The two points of side k: those of the edge found, in its direction or
\* against it, or on the straight line.
SidePoints(new, k) ==
    LET ends == <<new[Sides[k][1] + 1], new[Sides[k][2] + 1]>>
        same == {e \in ToSet(same_edges(new)) : Ends(e) = {ends[1], ends[2]}} IN
    IF same = {} THEN <<>>
    ELSE LET e == CHOOSE e \in same : TRUE IN
         IF ev2v[e] = ends THEN <<<<e, 1>>, <<e, 2>>>> ELSE <<<<e, 2>>, <<e, 1>>>>

tri_pts(c) == [new |-> NewCell(c), sides |-> [k \in 1..3 |-> SidePoints(NewCell(c), k)]]
tet_pts(c) == [new |-> NewCell(c), sides |-> [k \in 1..6 |-> SidePoints(NewCell(c), k)]]

\* One element around the collapsing vertex after the other.
Judge ==
    LET around == SelectSeq([c \in DOMAIN cells |-> c], LAMBDA c : v_col \in ToSet(cells[c]) /\ ~will_die(c)) IN
    /\ Len(pts) < Len(around)
    /\ pts' = Append(pts, IF Dim = 2 THEN tri_pts(around[Len(pts) + 1]) ELSE tet_pts(around[Len(pts) + 1]))
    /\ UNCHANGED <<cells, ev2v, cand>>

SearchNext == Judge

SearchSpec == SearchInit /\ [][SearchNext]_vars

-----------------------------------------------------------------------------
\* The points a side of a new element is given begin at the side's first vertex,
\* whichever way the edge is stored, and come from an edge that stays
\* (is_newTri_edge_flip, is_newTet_edge_flip).
PointsRunAlong ==
    \A i \in DOMAIN pts : \A k \in DOMAIN Sides :
        LET p == pts[i].sides[k]
            start == pts[i].new[Sides[k][1] + 1]
            end == pts[i].new[Sides[k][2] + 1] IN
        p # <<>> => /\ p[1][1] = p[2][1] /\ v_col \notin Ends(p[1][1])
                    /\ ev2v[p[1][1]][p[1][2]] = start
                    /\ ev2v[p[2][1]][p[2][2]] = end

\* A side of a new element is made straight only when the mesh has no such edge
\* (same_edges, newTri_edge, newTet_edge).
OnlyNewAreStraight ==
    \A i \in DOMAIN pts : \A k \in DOMAIN Sides :
        pts[i].sides[k] = <<>> => EdgeOf(pts[i].new[Sides[k][1] + 1], pts[i].new[Sides[k][2] + 1]) = {}

\* The same of the elements of the plane, on which the two steps of the search
\* reach all that is kept when at most four triangles meet at the vertex.
NearbyEdgesAreKept == Dim = 2 => OnlyNewAreStraight

-----------------------------------------------------------------------------
(***************************************************************************)
(* After a collapse in a curved mesh the tetrahedra found invalid are      *)
(* taken out into a mesh of their own, to be looked at:                    *)
(* check_validity_edges_from_complex_cav (Omega_h_curve_coarsen.cpp),      *)
(* make_cavity_class (Omega_h_cavity_class.cpp) and build_given_tets       *)
(* (Omega_h_build.cpp).                                                    *)
(*                                                                         *)
(* Faces and edges are sets of vertices.                                   *)
(***************************************************************************)
CONSTANTS
    Tets,          \* the tetrahedra of the mesh, as tuples of vertices
    Keys,          \* sets of key vertices that may have been collapsed
    Invalids,      \* the sets of tetrahedra that may be found invalid
    MaxThreads,    \* bound: keys2verts worked on at a time
    Fresh,         \* what unset memory may hold
    Classed        \* whether the mesh's cavities were classed before, as nothing in src/ does

VARIABLES
    keys2verts,  \* the keys
    invalid,     \* tetrahedra with a positive code
    hasClass,    \* the tags cav_classdim are there
    build,       \* entities marked for the mesh of the cavity
    cavTets,     \* cav_tets: what the array holds
    classdim,    \* cav_classdim of faces, edges and vertices
    undone,      \* per key: the tetrahedra whose faces are not done, or Waiting
    cav_mesh,    \* the mesh built
    stage        \* "check", "fetch", "class", "build", "end", "failed"

checkVars == <<keys2verts, invalid, hasClass, build, cavTets, classdim, undone, cav_mesh, stage>>

TetIds == DOMAIN Tets
Corners(t) == {Tets[t][k] : k \in 1..4}
Verts == UNION {Corners(t) : t \in TetIds}
FacesOf(t) == {Corners(t) \ {v} : v \in Corners(t)}
PairsOf(f) == {s \in SUBSET f : Cardinality(s) = 2}
Faces == UNION {FacesOf(t) : t \in TetIds}
Edges == UNION {PairsOf(Corners(t)) : t \in TetIds}
Around(v) == {t \in TetIds : v \in Corners(t)}
Beside(f) == {t \in TetIds : f \subseteq Corners(t)}

Waiting == {0}
Unset == -1
None == [verts |-> {}]

CheckInit ==
    /\ keys2verts \in Keys
    /\ invalid \in Invalids
    /\ hasClass \in Classed
    /\ build = [tets |-> {}, faces |-> {}, edges |-> {}, verts |-> {}]
    /\ cavTets \in [TetIds -> Fresh]
    /\ classdim = [s \in Faces \union Edges \union {{v} : v \in Verts} |-> Unset]
    /\ undone = [k \in keys2verts |-> Waiting]
    /\ cav_mesh = None
    /\ stage = "check"

\* The kernel check_tet marks each invalid tetrahedron with all its parts; the
\* writes of several tetrahedra to one part all leave a positive mark.
check_validity_edges_from_complex_cav ==
    /\ stage = "check"
    /\ build' = [tets |-> invalid,
                 faces |-> UNION {FacesOf(t) : t \in invalid},
                 edges |-> UNION {PairsOf(Corners(t)) : t \in invalid},
                 verts |-> UNION {Corners(t) : t \in invalid}]
    /\ stage' = IF invalid = {} THEN "end" ELSE "fetch"
    /\ UNCHANGED <<keys2verts, invalid, hasClass, cavTets, classdim, undone, cav_mesh>>

\* build_given_tets asks for cav_classdim before make_cavity_class sets it.
fetch_classdim ==
    /\ stage = "fetch"
    /\ stage' = IF hasClass THEN "class" ELSE "failed"
    /\ UNCHANGED <<keys2verts, invalid, hasClass, build, cavTets, classdim, undone, cav_mesh>>

\* A thread marks all tetrahedra of its key ...
MarkCavity(k) ==
    /\ stage = "class" /\ undone[k] = Waiting
    /\ Cardinality({j \in keys2verts : undone[j] \notin {Waiting, {}}}) < MaxThreads
    /\ cavTets' = [t \in TetIds |-> IF t \in Around(k) THEN 1 ELSE cavTets[t]]
    /\ undone' = [undone EXCEPT ![k] = Around(k)]
    /\ UNCHANGED <<keys2verts, invalid, hasClass, build, classdim, cav_mesh, stage>>

\* ... and classes the faces that have one marked tetrahedron, with their
\* edges and vertices.
ClassFaces(k, t) ==
    /\ stage = "class" /\ t \in undone[k] /\ undone[k] # Waiting
    /\ LET bdry == {f \in FacesOf(t) : Cardinality({s \in Beside(f) : cavTets[s] = 1}) = 1} IN
       classdim' = [s \in DOMAIN classdim |->
            IF s \in bdry THEN 2
            ELSE IF Cardinality(s) < 3 /\ (\E f \in bdry : s \subseteq f) THEN 1
            ELSE classdim[s]]
    /\ undone' = [undone EXCEPT ![k] = @ \ {t}]
    /\ UNCHANGED <<keys2verts, invalid, hasClass, build, cavTets, cav_mesh, stage>>

FinishClass ==
    /\ stage = "class" /\ \A k \in keys2verts : undone[k] = {}
    /\ hasClass' = TRUE
    /\ stage' = "build"
    /\ UNCHANGED <<keys2verts, invalid, build, cavTets, classdim, undone, cav_mesh>>

\* A number stored in an I8.
I8(n) == ((n + 128) % 256) - 128

\* The entities marked are numbered in the order of the full mesh; ids is that
\* order.  Those without a number in the I8 range count as not marked.
full2cav(ids, marked) ==
    [i \in DOMAIN ids |->
        IF ids[i] \in marked THEN I8(Cardinality({j \in 1..(i - 1) : ids[j] \in marked})) ELSE -1]

\* How many of the marked entities get a number; for faces and edges, whose
\* place in the full mesh does not matter otherwise.
numbered(marked) == Cardinality({n \in 0..(Cardinality(marked) - 1) : I8(n) >= 0})

VertIds == [k \in 1..Cardinality(Verts) |-> k - 1]

build_given_tets ==
    /\ stage = "build"
    /\ \E vertNo \in {full2cav(VertIds, build.verts)}, tetNo \in {full2cav([i \in TetIds |-> i], build.tets)} :
       cav_mesh' = [verts |-> {v \in build.verts : vertNo[v + 1] >= 0},
               newVert |-> [v \in build.verts |-> vertNo[v + 1]],
               edges |-> numbered(build.edges),
               faces |-> numbered(build.faces),
               tets |-> [t \in {t \in TetIds : tetNo[t] >= 0} |-> [k \in 1..4 |-> vertNo[Tets[t][k] + 1]]]]
    /\ stage' = "end"
    /\ UNCHANGED <<keys2verts, invalid, hasClass, build, cavTets, classdim, undone>>

CheckNext ==
    \/ check_validity_edges_from_complex_cav
    \/ fetch_classdim
    \/ \E k \in keys2verts : MarkCavity(k) \/ \E t \in TetIds : ClassFaces(k, t)
    \/ FinishClass
    \/ build_given_tets

CheckSpec == CheckInit /\ [][CheckNext]_checkVars

-----------------------------------------------------------------------------
InCavity(t) == \E k \in keys2verts : k \in Corners(t)

\* A tetrahedron the array says to be in a cavity, as it is or as its memory was.
Taken(t) == cavTets[t] = 1

\* However the threads interleave, a face of a cavity is classed as boundary with
\* its edges and vertices when the tetrahedron on its other side, if any, does not
\* pass for one of a cavity, and a face of two that do is not, except between two
\* cavities; nothing else is classed (make_cavity_class).
BoundaryOfCavities ==
    stage \in {"build", "end"} /\ invalid # {} => \A f \in Faces :
        LET inside == {t \in Beside(f) : InCavity(t)}
            shared == ~\E k \in keys2verts : inside \subseteq Around(k) IN
        IF inside = {} THEN classdim[f] = Unset
        ELSE /\ Cardinality({t \in Beside(f) : Taken(t)}) = 1 =>
                /\ classdim[f] = 2
                /\ \A s \in PairsOf(f) \union {{v} : v \in f} : classdim[s] = 1
             /\ Cardinality({t \in Beside(f) : Taken(t)}) = 2 /\ ~shared => classdim[f] = Unset

\* Only of a mesh whose cavities were classed before is there a report on invalid
\* tetrahedra.  Its mesh has every marked entity of a dimension once, as long as
\* there are at most 128, and then its tetrahedra are those of the full mesh with
\* the vertices renumbered from 0: numbers are kept in a byte (build_given_tets).
CavityIsWhole ==
    /\ stage = "class" => hasClass
    /\ stage = "end" /\ invalid # {} =>
        /\ cav_mesh.verts = build.verts <=> Cardinality(build.verts) <= 128
        /\ cav_mesh.edges = Cardinality(build.edges) <=> Cardinality(build.edges) <= 128
        /\ cav_mesh.faces = Cardinality(build.faces) <=> Cardinality(build.faces) <= 128
        /\ DOMAIN cav_mesh.tets = invalid <=> Cardinality(invalid) <= 128
        /\ Cardinality(build.verts) <= 128 => \A t \in DOMAIN cav_mesh.tets, k \in 1..4 :
            /\ cav_mesh.tets[t][k] \in 0..(Cardinality(build.verts) - 1)
            /\ \A s \in DOMAIN cav_mesh.tets, j \in 1..4 :
                (cav_mesh.tets[t][k] = cav_mesh.tets[s][j]) <=> (Tets[t][k] = Tets[s][j])
=============================================================================
