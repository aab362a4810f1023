---------------------------- MODULE CurvedRefine ----------------------------
(***************************************************************************)
(* Splitting edges of a curved mesh (Omega_h_curve_refine_2d.cpp,          *)
(* Omega_h_curve_refine_3d.cpp, refine_element_based_crv of                *)
(* Omega_h_refine.cpp): where, on the old mesh, the control points of the  *)
(* new vertices, edges and faces are interpolated.                         *)
(*                                                                         *)
(* A place on the old mesh is the weight of each of its vertices, in parts *)
(* of One for points on edges and of Six for points on faces.  Entities of *)
(* the old mesh are numbered from 1; a new vertex is <<"same", v>> for an  *)
(* old one or <<"mid", k>> for the middle of the k-th key edge.            *)
(***************************************************************************)
EXTENDS RefElem, FiniteSets

CONSTANTS
    Meshes,      \* the meshes, as sequences of elements
    Order,       \* max_order, 2 or 3
    Threads      \* how many threads run a loop

VARIABLES
    cells,           \* the elements of the old mesh
    ev2v, fv2v,      \* its edges and faces
    keys2edges,      \* the key edges, ascending
    stage,           \* the loop that runs
    next,            \* what each thread of the loop has left to do
    reading,         \* the key number each thread has read, or 0
    count_key,       \* keys counted by create_curved_verts_and_edges_2d
    keys2old_faces,  \* for each key, its faces in the order of the products
    vert_ctrlPts,    \* new vertex -> place
    edge_ctrlPts,    \* new edge -> places it is interpolated from
    face_ctrlPts,    \* new face -> place it is interpolated from
    candidate,       \* the marked edges of the old and of the new mesh
    failed           \* whether an OMEGA_H_CHECK failed

vars == <<cells, ev2v, fv2v, keys2edges, stage, next, reading, count_key, keys2old_faces,
          vert_ctrlPts, edge_ctrlPts, face_ctrlPts, candidate, failed>>

Dim == Len(cells[1]) - 1
mesh == <<cells, ev2v, fv2v, keys2edges>>
Verts == UNION {ToSet(cells[c]) : c \in DOMAIN cells}
Ends(e) == ToSet(ev2v[e])
\* fe2e, re2e: the edges of a simplex in the order of the reference element.
SideEdges(t) ==
    LET sides == simplex_down_template(Len(t) - 1, 1) IN
    [k \in DOMAIN sides |-> CHOOSE e \in DOMAIN ev2v :
        Ends(e) = {t[sides[k][1] + 1], t[sides[k][2] + 1]}]
\* ask_up(1, 2) and ask_up(1, 3)
FacesOf(e) == SelectSeq([f \in DOMAIN fv2v |-> f], LAMBDA f : Ends(e) \subseteq ToSet(fv2v[f]))
CellsOf(e) == SelectSeq([c \in DOMAIN cells |-> c], LAMBDA c : Ends(e) \subseteq ToSet(cells[c]))
noKey(f, e) == CHOOSE v \in ToSet(fv2v[f]) : v \notin Ends(e)

nkeys == Len(keys2edges)
Keys == ToSet(keys2edges)
\* Edges and faces that stay; the key's products, as refine_products lists them.
SameFaces == {f \in DOMAIN fv2v : \A e \in Keys : ~(Ends(e) \subseteq ToSet(fv2v[f]))}
same(v) == <<"same", v>>
mid(k) == <<"mid", k>>
prod_edges(k) ==
    LET e == keys2edges[k] IN
    << <<same(ev2v[e][1]), mid(k)>>, <<mid(k), same(ev2v[e][2])>> >> \o
    [i \in DOMAIN FacesOf(e) |-> <<same(noKey(FacesOf(e)[i], e)), mid(k)>>]
prod_faces(k) ==
    LET e == keys2edges[k]
        pair(f) == [j \in 1..2 |-> {same(noKey(f, e)), same(ev2v[e][3 - j]), mid(k)}]
        cut(c) == {mid(k)} \union {same(v) : v \in ToSet(cells[c]) \ Ends(e)} IN
    FlattenSeq([i \in DOMAIN FacesOf(e) |-> pair(FacesOf(e)[i])]) \o
    (IF Dim = 3 THEN [i \in DOMAIN CellsOf(e) |-> cut(CellsOf(e)[i])] ELSE <<>>)

-----------------------------------------------------------------------------
\* Places.
One == 1000000000
xi_cube == <<274804300, 725195700>>
xi_quad == <<500000000>>
Xi == IF Order = 3 THEN xi_cube ELSE xi_quad
Place(f) == [v \in Verts |-> IF v \in DOMAIN f THEN f[v] ELSE 0]
OnEdge(e, xi) == Place((ev2v[e][1] :> One - xi) @@ (ev2v[e][2] :> xi))
OnFace(f, x, y, unit) ==
    Place((fv2v[f][1] :> unit - x - y) @@ (fv2v[f][2] :> x) @@ (fv2v[f][3] :> y))
OnCell(c, x) ==
    Place((cells[c][1] :> 6 - x[1] - x[2] - x[3]) @@ [v \in ToSet(cells[c]) \ {cells[c][1]} |->
        x[(CHOOSE k \in 2..4 : cells[c][k] = v) - 1]])

\* Where the edge from the j-th vertex of a face to the middle of the side
\* across from it is interpolated.
quadr_noKeyEdge_xi_values(j) ==
    << <<<<250000000, 250000000>>, <<500000000, 250000000>>, <<250000000, 500000000>>>>[j] >>
\* Faulty variant: the two points of the last case the other way around.
cubic_noKeyEdge_xi_values_turned(j) ==
    <<  << <<137402150, 137402150>>, <<362597849, 362597849>> >>,
        << <<725195700, 137402150>>, <<274804300, 362597849>> >>,
        << <<362597849, 274804300>>, <<137402150, 725195700>> >> >>[j]
cubic_noKeyEdge_xi_values(j) ==
    <<  << <<137402150, 137402150>>, <<362597849, 362597849>> >>,
        << <<725195700, 137402150>>, <<274804300, 362597849>> >>,
        << <<137402150, 725195700>>, <<362597849, 274804300>> >> >>[j]
noKeyEdge_xi_values(j) ==
    IF Order = 3 THEN cubic_noKeyEdge_xi_values(j) ELSE quadr_noKeyEdge_xi_values(j)

\* Where the two halves of a face are interpolated, split at the edge from its
\* j-th vertex; the first place is for the half with the vertex after that one.
cubic_faceSplittingEdge_xi_values(j, f, new_f0) ==
    LET xi == << << <<3, 1>>, <<1, 3>> >>, << <<2, 3>>, <<2, 1>> >>, << <<1, 2>>, <<3, 2>> >> >>[j] IN
    IF same(fv2v[f][(j % 3) + 1]) \in new_f0 THEN xi ELSE Reverse(xi)

\* Where the face across a tetrahedron is interpolated, by the number of the key.
cubic_region_xi_values(k) ==
    <<<<1, 2, 2>>, <<1, 1, 2>>, <<2, 1, 2>>, <<2, 2, 1>>, <<1, 2, 1>>, <<2, 1, 1>>>>[k]

-----------------------------------------------------------------------------
\* The face of the key edge with the vertex: the last one found, or the first
\* whose number is not 0.
find_old_face(e, v) ==
    LET fits == SelectSeq(FacesOf(e), LAMBDA f : v \in ToSet(fv2v[f]))
        high == SelectSeq(fits, LAMBDA f : f - 1 > 0) IN
    IF high # <<>> THEN high[1] ELSE fits[Len(fits)]

\* The faces of a key, in a row as long as the longest of any key; 0 for none.
max_degree_key2oldface ==
    IF nkeys = 0 THEN 0
    ELSE CHOOSE n \in {Len(FacesOf(e)) : e \in Keys} : \A e \in Keys : Len(FacesOf(e)) <= n
key_old_faces(e) ==
    [i \in 1..max_degree_key2oldface |->
        IF i <= Len(FacesOf(e)) THEN find_old_face(e, noKey(FacesOf(e)[i], e)) ELSE 0]

\* The points of the products of key k, taking e for its edge.
half_nodes(e, start) == [i \in DOMAIN Xi |-> OnEdge(e, start + Xi[i] \div 2)]
key_edge_points(k, e) ==
    LET cut_nodes(f) ==
            LET j == CHOOSE j \in 1..3 : fv2v[f][j] = noKey(f, e)
                xi == noKeyEdge_xi_values(j) IN
            [i \in DOMAIN xi |-> OnFace(f, xi[i][1], xi[i][2], One)] IN
    [i \in DOMAIN prod_edges(k) |->
        CASE i = 1 -> half_nodes(e, 0)
          [] i = 2 -> half_nodes(e, One \div 2)
          [] OTHER -> cut_nodes(key_old_faces(e)[i - 2])]

WriteKeyEdges(k, e) ==
    LET points == key_edge_points(k, e)
        prods == prod_edges(k) IN
    /\ edge_ctrlPts' = [i \in {<<"prod", prods[i]>> : i \in DOMAIN prods} |->
            points[CHOOSE j \in DOMAIN prods : prods[j] = i[2]]] @@ edge_ctrlPts
    /\ vert_ctrlPts' = (mid(k) :> OnEdge(e, One \div 2)) @@ vert_ctrlPts
    /\ keys2old_faces' = [keys2old_faces EXCEPT ![k] = key_old_faces(e)]

-----------------------------------------------------------------------------
\* A loop over 1..n, in one contiguous range for each thread.
Ranges(n) == [t \in 1..Threads |-> {i \in 1..n : ((i - 1) * Threads) \div n = t - 1}]
Least(S) == CHOOSE i \in S : \A j \in S : i <= j
Run(t, i) == next[t] # {} /\ i = Least(next[t]) /\ next' = [next EXCEPT ![t] = @ \ {i}]
Ended == \A t \in 1..Threads : next[t] = {}
Enter(s, n) == stage' = s /\ next' = Ranges(n)

Independent(S) == \A d, e \in S : d # e => \A c \in DOMAIN cells :
    ~(Ends(d) \subseteq ToSet(cells[c]) /\ Ends(e) \subseteq ToSet(cells[c]))

Init ==
    /\ cells \in Meshes
    /\ ev2v = EdgesOf(cells, 3)
    /\ fv2v = IF Dim = 2 THEN cells ELSE TrianglesOf(cells, 2)
    /\ \E S \in SUBSET (DOMAIN ev2v) : S # {} /\ Independent(S) /\ keys2edges = Ascending(S)
    /\ stage = "edges"
    /\ next = Ranges(IF Dim = 2 THEN Len(ev2v) ELSE nkeys)
    /\ reading = [t \in 1..Threads |-> 0]
    /\ count_key = 0
    /\ keys2old_faces = [k \in 1..nkeys |-> [i \in 1..max_degree_key2oldface |-> 0]]
    /\ vert_ctrlPts = <<>>
    /\ edge_ctrlPts = <<>>
    /\ face_ctrlPts = <<>>
    /\ candidate \in {<<S, {}>> : S \in {Keys, DOMAIN ev2v}}
    /\ failed = FALSE

\* create_curved_verts_and_edges_2d: an edge that stays.
SameEdge2d(t, e) ==
    /\ stage = "edges" /\ Dim = 2 /\ reading[t] = 0 /\ ~failed
    /\ e \notin Keys
    /\ Run(t, e)
    /\ edge_ctrlPts' = (<<"same", e>> :> "copied") @@ edge_ctrlPts
    /\ UNCHANGED <<mesh, stage, reading, count_key, keys2old_faces, vert_ctrlPts,
                   face_ctrlPts, candidate, failed>>
\* A key edge takes the number counted so far.
ReadKey2d(t, e) ==
    /\ stage = "edges" /\ Dim = 2 /\ reading[t] = 0 /\ ~failed
    /\ next[t] # {} /\ e = Least(next[t]) /\ e \in Keys
    /\ reading' = [reading EXCEPT ![t] = count_key + 1]
    /\ UNCHANGED <<mesh, stage, next, count_key, keys2old_faces, vert_ctrlPts,
                   edge_ctrlPts, face_ctrlPts, candidate, failed>>
\* It is checked, the points are written and the count goes up.
KeyEdge2d(t, e) ==
    /\ stage = "edges" /\ Dim = 2 /\ reading[t] # 0 /\ ~failed
    /\ \/ /\ keys2edges[reading[t]] # e
          /\ e = Least(next[t])
          /\ failed' = TRUE
          /\ UNCHANGED <<next, reading, count_key, keys2old_faces, vert_ctrlPts, edge_ctrlPts>>
       \/ /\ keys2edges[reading[t]] = e
          /\ Run(t, e)
          /\ WriteKeyEdges(reading[t], e)
          /\ reading' = [reading EXCEPT ![t] = 0]
          /\ count_key' = count_key + 1
          /\ UNCHANGED failed
    /\ UNCHANGED <<mesh, stage, face_ctrlPts, candidate>>

\* create_curved_verts_and_edges_3d: a loop over keys, then one over edges.
KeyEdge3d(t, k) ==
    /\ stage = "edges" /\ Dim = 3 /\ Order = 3
    /\ Run(t, k)
    /\ WriteKeyEdges(k, keys2edges[k])
    /\ UNCHANGED <<mesh, stage, reading, count_key, face_ctrlPts, candidate, failed>>
CopySameEdges ==
    edge_ctrlPts' = [i \in {<<"same", e>> : e \in DOMAIN ev2v \ Keys} |-> "copied"] @@ edge_ctrlPts
SameEdges3d ==
    /\ stage = "edges" /\ Dim = 3 /\ Ended /\ Order = 3
    /\ CopySameEdges
    /\ Enter("verts", 0)
    /\ UNCHANGED <<mesh, reading, count_key, keys2old_faces, vert_ctrlPts, face_ctrlPts,
                   candidate, failed>>
\* create_curved_verts_and_edges_3d_p2, which also hands the marks on to the edges
\* that stay.
KeyEdge3d_p2(t, k) ==
    /\ stage = "edges" /\ Dim = 3 /\ Order = 2
    /\ Run(t, k)
    /\ WriteKeyEdges(k, keys2edges[k])
    /\ UNCHANGED <<mesh, stage, reading, count_key, face_ctrlPts, candidate, failed>>
SameEdges3d_p2 ==
    /\ stage = "edges" /\ Dim = 3 /\ Ended /\ Order = 2
    /\ CopySameEdges
    /\ candidate' = [candidate EXCEPT ![2] = {<<"same", e>> : e \in candidate[1] \ Keys}]
    /\ Enter("verts", 0)
    /\ UNCHANGED <<mesh, reading, count_key, keys2old_faces, vert_ctrlPts, face_ctrlPts, failed>>

\* copy_sameCtrlPts, after the edges' points are set.
SameVerts ==
    /\ \/ stage = "edges" /\ Dim = 2 /\ Ended
       \/ stage = "verts"
    /\ vert_ctrlPts' = vert_ctrlPts @@ [n \in {same(v) : v \in Verts} |-> Place(n[2] :> One)]
    /\ IF Order = 3 THEN Enter("faces", nkeys) ELSE stage' = "done" /\ UNCHANGED next
    /\ UNCHANGED <<mesh, reading, count_key, keys2old_faces, edge_ctrlPts, face_ctrlPts,
                   candidate, failed>>

\* How many faces of the row a key has.
keys2nold_faces(k) == Len(SelectSeq(keys2old_faces[k], LAMBDA f : f # 0))
split_face_points(k) ==
    FlattenSeq([i \in 1..keys2nold_faces(k) |->
        LET f == keys2old_faces[k][i]
            j == CHOOSE j \in 1..3 : fv2v[f][j] = noKey(f, keys2edges[k])
            xi == cubic_faceSplittingEdge_xi_values(j, f, prod_faces(k)[2 * i - 1]) IN
        [h \in 1..2 |-> OnFace(f, xi[h][1], xi[h][2], 6)]])
\* The old tetrahedron of a face across it: the first that has two of its vertices.
old_rgn(k, face) ==
    LET has(c) == Cardinality({v \in ToSet(cells[c]) : same(v) \in face}) = 2 IN
    SelectSeq(CellsOf(keys2edges[k]), has)[1]
cut_face_points(k) ==
    LET first == 2 * keys2nold_faces(k) IN
    [i \in 1..(Len(prod_faces(k)) - first) |->
        LET c == old_rgn(k, prod_faces(k)[first + i])
            n == CHOOSE n \in 1..6 : SideEdges(cells[c])[n] = keys2edges[k] IN
        OnCell(c, cubic_region_xi_values(n))]

\* create_curved_faces_2d and create_curved_faces_3d
KeyFaces(t, k) ==
    /\ stage = "faces"
    /\ Run(t, k)
    /\ \E points \in {split_face_points(k) \o cut_face_points(k)} :
        face_ctrlPts' = [f \in {<<"prod", prod_faces(k)[i]>> : i \in DOMAIN points} |->
            points[CHOOSE i \in DOMAIN points : prod_faces(k)[i] = f[2]]] @@ face_ctrlPts
    /\ UNCHANGED <<mesh, stage, reading, count_key, keys2old_faces, vert_ctrlPts,
                   edge_ctrlPts, candidate, failed>>
SameFacesCopied ==
    /\ stage = "faces" /\ Ended
    /\ face_ctrlPts' = [i \in {<<"same", f>> : f \in SameFaces} |-> "copied"] @@ face_ctrlPts
    /\ stage' = "done"
    /\ UNCHANGED <<mesh, next, reading, count_key, keys2old_faces, vert_ctrlPts,
                   edge_ctrlPts, candidate, failed>>

Next ==
    \/ \E t \in 1..Threads, e \in DOMAIN ev2v :
          SameEdge2d(t, e) \/ ReadKey2d(t, e) \/ KeyEdge2d(t, e)
    \/ \E t \in 1..Threads, k \in 1..nkeys : KeyEdge3d(t, k) \/ KeyEdge3d_p2(t, k) \/ KeyFaces(t, k)
    \/ SameEdges3d \/ SameEdges3d_p2 \/ SameVerts \/ SameFacesCopied

Spec == Init /\ [][Next]_vars

-----------------------------------------------------------------------------
\* The point a fraction xi of the way between two new vertices.
At(n, m, xi) ==
    LET place(x) == IF x[1] = "same" THEN Place(x[2] :> 2)
                    ELSE Place([v \in Ends(keys2edges[x[2]]) |-> 1]) IN
    [v \in Verts |-> place(n)[v] * ((One - xi) \div 2) + place(m)[v] * (xi \div 2)]
Near(p, q) == \A v \in Verts : p[v] - q[v] \in -2..2

\* When the edges are done, every edge of the new mesh has its points, an edge
\* that was made has them where, on the old mesh, they lie between its ends: in
\* that direction, from whichever face and with whichever number the code found
\* the face, and the middle vertex lies on the edge that was split.
EdgesInPlace ==
    (stage \in {"faces", "done"}) =>
        /\ DOMAIN edge_ctrlPts = {<<"same", e>> : e \in DOMAIN ev2v \ Keys} \union
                                 {<<"prod", n>> : n \in UNION {ToSet(prod_edges(k)) : k \in 1..nkeys}}
        /\ \A d \in DOMAIN edge_ctrlPts : d[1] = "prod" =>
              \A i \in DOMAIN Xi : Near(edge_ctrlPts[d][i], At(d[2][1], d[2][2], Xi[i]))
        /\ \A k \in 1..nkeys : Near(vert_ctrlPts[mid(k)], At(mid(k), mid(k), One \div 2))

\* When the faces are done, every face of the new mesh has its point, and a face
\* that was made has it in the middle of its three vertices, whether it halves an
\* old face or lies across an old tetrahedron, and whatever the number of faces of
\* the other keys.
FacesInPlace ==
    (stage = "done" /\ Order = 3) =>
        /\ DOMAIN face_ctrlPts = {<<"same", f>> : f \in SameFaces} \union
                                 {<<"prod", n>> : n \in UNION {ToSet(prod_faces(k)) : k \in 1..nkeys}}
        /\ \A d \in DOMAIN face_ctrlPts : d[1] = "prod" =>
              \A v \in Verts : face_ctrlPts[d][v] =
                  (IF same(v) \in d[2] THEN 2 ELSE 0) +
                  Cardinality({k \in 1..nkeys : mid(k) \in d[2] /\ v \in Ends(keys2edges[k])})

\* "OMEGA_H_CHECK(old_edge == keys2edges[key_id])": the number a key edge takes is
\* its own.
KeyIsOwn == ~failed
=============================================================================
