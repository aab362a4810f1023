------------------------------- MODULE MCCurved ------------------------------
(***************************************************************************)
(* Small instances of what is done with curved meshes: drawing them,       *)
(* judging their elements, raising their order, refining and coarsening    *)
(* them.  A behaviour is about one of these parts, named by mode; the      *)
(* parts' variables stay side by side and the others do not move.          *)
(***************************************************************************)
EXTENDS Bezier

VARIABLES
    mode,           \* the part and its instances
    tet, drawn,     \* a tetrahedron, and the drawing made of it
    shp, elem, place, moved,   \* an element judged: dimension and order, its arrays,
                    \* where each control point is, and how many were moved
    tri, interp, max_order, edgePts, facePts, old, raised, thread, mixed,    \* CurveElevate
    chkKeys, invalid, hasClass, build, cavTets, classdim, chkTodo, chkCav,
    chkPhase,       \* CoarsenTrial's cavities
    dim, filter, rank, elems, codes, cands, keys, tried, bad, ret, phase,  \* CoarsenTrial
    srchCells, srchEv2v, cand, pts,                             \* its search
    cells, refEv2v, refFv2v, keys2edges, stage, next, reading, count_key,
    keys2old_faces, vert_ctrlPts, refEdgePts, refFacePts, candidate, refFailed, \* CurvedRefine
    fan, corner, onto_first, curve, nedge_shared_gface, fanTodo, fanPts,
    gedge_ctrlPts, fanFailed,                                   \* CurvedCavity's fans
    cav, old_ev2v, new_ev2v, todo, edge_ctrlPts, edge_dualCone, face_ctrlPts,
    cavStage        \* CurvedCavity

drawVars == <<tet, drawn>>
judgeVars == <<shp, elem, place, moved>>
elevVars == <<tri, interp, max_order, edgePts, facePts, old, raised, thread, mixed>>
checkVars == <<chkKeys, invalid, hasClass, build, cavTets, classdim, chkTodo, chkCav,
               chkPhase>>
trialVars == <<dim, filter, rank, elems, codes, cands, keys, tried, bad, ret, phase>>
searchVars == <<srchCells, srchEv2v, cand, pts>>
refVars == <<cells, refEv2v, refFv2v, keys2edges, stage, next, reading, count_key,
             keys2old_faces, vert_ctrlPts, refEdgePts, refFacePts, candidate, refFailed>>
fanVars == <<fan, corner, onto_first, curve, nedge_shared_gface, fanTodo, fanPts,
             gedge_ctrlPts, fanFailed>>
cavVars == <<cav, old_ev2v, new_ev2v, todo, edge_ctrlPts, edge_dualCone, face_ctrlPts,
             cavStage>>
vars == <<mode, drawVars, judgeVars, elevVars, checkVars, trialVars, searchVars,
          refVars, fanVars, cavVars>>

-----------------------------------------------------------------------------
(* Drawing: one tetrahedron whose sides are stored in either direction and  *)
(* whose faces start at any of their vertices, either way round.            *)
Faces == <<0, 1, 2, 3>>
Edges == <<0, 1, 2, 3, 4, 5>>
Samples == {2, 3}    \* bound: points of a drawn side
\* bound: two pairs of sides are stored alike.
Flips == {f \in [0..5 -> BOOLEAN] : f[4] = f[0] /\ f[5] = f[1]}

\* The six ways to write down the vertices of a face.
Orders == {<<1, 2, 3>>, <<2, 3, 1>>, <<3, 1, 2>>, <<1, 3, 2>>, <<3, 2, 1>>, <<2, 1, 3>>}

Tetrahedron(flips, order) ==
    LET ev2v == [e \in 0..5 |-> LET ends == simplex_down_template(3, 1)[e + 1] IN
                    IF flips[e] THEN Reverse(ends) ELSE ends]
        fv2v == [f \in 0..3 |-> [k \in 1..3 |-> simplex_down_template(3, 2)[f + 1][order[k]]]]
        sideOf(u, v) == CHOOSE e \in 0..5 : {ev2v[e][1], ev2v[e][2]} = {u, v} IN
    [ev2v |-> ev2v,
     fv2v |-> fv2v,
     fe2e |-> [f \in 0..3 |-> [k \in 1..3 |-> sideOf(fv2v[f][k], fv2v[f][(k % 3) + 1])]],
     rv2v |-> [r \in {0} |-> <<0, 1, 2, 3>>],
     re2e |-> [r \in {0} |-> <<0, 1, 2, 3, 4, 5>>],
     rf2f |-> [r \in {0} |-> <<0, 1, 2, 3>>]]

None == [P |-> 0]

DrawInit ==
    /\ \E flips \in Flips, order \in Orders : tet = Tetrahedron(flips, order)
    /\ drawn = None

\* The whole surface is drawn, with its edges.
Draw(P, n) ==
    /\ drawn = None
    /\ drawn' = [P |-> P, n |-> n,
            faces |-> CASE P = 2 -> build_quadratic_curveVtk_3d(tet, Faces, n)
                        [] P = 3 -> build_cubic_curveVtk_3d(tet, Faces, n)
                        [] P = 4 -> build_quartic_curveVtk(tet, Faces, n),
            edges |-> CASE P = 2 -> build_quadratic_wireframe_3d(tet, Edges, n)
                        [] P = 3 -> build_cubic_wireframe_3d(tet, Edges, n)
                        [] P = 4 -> build_quartic_wireframe(tet, Edges, n)]
    /\ UNCHANGED tet

\* Two faces of a cavity are drawn.
DrawCavity(n) ==
    /\ drawn = None
    /\ drawn' = [P |-> 3, n |-> n,
            faces |-> build_cubic_cavities_3d(tet, Faces, {1, 3}, n),
            edges |-> build_cubic_wireframe_3d(tet, Edges, n)]
    /\ UNCHANGED tet

DrawNext == \E n \in Samples : (\E P \in 2..4 : Draw(P, n)) \/ DrawCavity(n)

-----------------------------------------------------------------------------
(* Judging: a straight triangle of order 3 or 4, or a straight cubic        *)
(* tetrahedron, whose sides are stored either way and of which one or two   *)
(* control points are moved.  Of a tetrahedron all sides but the last are   *)
(* stored alike.                                                            *)
Shapes == {<<2, 3>>, <<2, 4>>, <<3, 3>>}
PlaneShifts == {<<-3, 1>>, <<1, 2>>}
SpaceShifts == {<<-2, -3, 0>>}

Dimension == shp[1]
Order == shp[2]

TriangleOf(flips) ==
    [ev2v |-> [e \in 0..2 |-> IF flips[e] THEN <<(e + 1) % 3, e>> ELSE <<e, (e + 1) % 3>>],
     fv2v |-> [f \in {0} |-> <<0, 1, 2>>],
     fe2e |-> [f \in {0} |-> <<0, 1, 2>>]]

TetrahedronOf(flips) ==
    [ev2v |-> [e \in 0..5 |-> LET ends == simplex_down_template(3, 1)[e + 1] IN
                IF flips[e] THEN Reverse(ends) ELSE ends],
     rv2v |-> [r \in {0} |-> <<0, 1, 2, 3>>],
     re2e |-> [r \in {0} |-> <<0, 1, 2, 3, 4, 5>>],
     rf2f |-> [r \in {0} |-> <<0, 1, 2, 3>>]]

\* The control points of the element by their powers, and their names.
Net(d, order, m) == IF d = 2 THEN face_net(m, 0, order) ELSE rgn_net(m, 0, order)

\* A straight element has each point where its powers say.
Straight(net) ==
    [p \in {net[x] : x \in DOMAIN net} |-> CHOOSE x \in DOMAIN net : net[x] = p]

JudgeInit ==
    /\ shp \in Shapes
    /\ \E flips \in [0..(IF Dimension = 2 THEN 2 ELSE 5) -> BOOLEAN] :
        /\ Dimension = 3 => \A e \in 0..4 : flips[e] = flips[0]
        /\ elem = IF Dimension = 2 THEN TriangleOf(flips) ELSE TetrahedronOf(flips)
    /\ \E net \in {Net(shp[1], shp[2], elem)} : place = Straight(net)
    /\ moved = 0

\* A second point is moved only in cubic triangles with no side turned.
Plain == \A e \in DOMAIN elem.ev2v :
    LET ends == IF Dimension = 2 THEN <<e, (e + 1) % 3>> ELSE simplex_down_template(3, 1)[e + 1] IN elem.ev2v[e] = ends

Move ==
    /\ moved = 0 \/ (moved = 1 /\ Plain /\ shp = <<2, 3>>)
    /\ \E p \in DOMAIN place, by \in (IF Dimension = 2 THEN PlaneShifts ELSE SpaceShifts) :
        place' = [place EXCEPT ![p] = [k \in 1..Dimension |-> @[k] + by[k]]]
    /\ moved' = moved + 1
    /\ UNCHANGED <<shp, elem>>

-----------------------------------------------------------------------------
(* Raising the order up to 6, one edge at a time, and up to 4 with two      *)
(* threads.                                                                 *)
Elevate == INSTANCE CurveElevate WITH
    MaxThreads <- 1, MaxOrder <- 6, mesh <- tri, order <- max_order, c <- raised, pc <- thread
Elevate2 == INSTANCE CurveElevate WITH
    MaxThreads <- 2, MaxOrder <- 4, mesh <- tri, order <- max_order, c <- raised, pc <- thread

-----------------------------------------------------------------------------
(* Checking cavities: a row of tetrahedra, each sharing a face with the     *)
(* next, with one or two keys.                                              *)
Row(n) == [t \in 1..n |-> [k \in 1..4 |-> t + k - 2]]

-----------------------------------------------------------------------------
(* Trying collapses: five tetrahedra around the edge from 0 to 9, and two   *)
(* that join a vertex 6 to them, so that 0 and 6 can be collapsed at the    *)
(* same time and onto the same vertex.                                      *)
AroundAxis == {{0, 1, 2, 9}, {0, 2, 3, 9}, {0, 3, 4, 9}, {0, 4, 5, 9}, {0, 5, 1, 9},
               {2, 3, 6, 9}, {3, 4, 6, 9}}
Directions == {<<0, 1>>, <<0, 2>>, <<6, 2>>, <<6, 4>>}

\* Searching for the kept edges: n triangles all around 0, the i-th listed from
\* vertex (i + r) % 3, triangles with 0 on the boundary, a fan with triangles
\* outside it, and tetrahedra around the edge from 0 to 9, whose link is a ring.
Full(n, r) == [i \in 1..n |-> Rolled(<<0, i, (i % n) + 1>>, (i + r) % 3)]
Half(n, r) == [i \in 1..n |-> Rolled(<<0, i, i + 1>>, (i + r) % 3)]
Ringed(r) == Full(4, r) \o [i \in 1..4 |-> Rolled(<<i, i + 4, (i % 4) + 1>>, r)]
SearchMeshes ==
    {Full(4, r) : r \in 0..2} \union {Half(2, r) : r \in 0..2} \union {Ringed(r) : r \in 0..2}
      \union {[i \in 1..n |-> <<0, i, (i % n) + 1, 9>>] : n \in 3..5}

\* A longer row, with more entities than a byte can count.
Long == INSTANCE CoarsenTrial WITH
    Elems <- {}, Dirs <- {}, Dims <- {}, Filters <- {}, Ranks <- {}, Meshes <- {}, Turns <- {},
    cells <- srchCells, ev2v <- srchEv2v,
    Tets <- Row(129), Keys <- {{0}}, Invalids <- {1..n : n \in {41, 42, 43, 125, 126, 128, 129}},
    MaxThreads <- 1, Fresh <- {0}, Classed <- {TRUE},
    keys2verts <- chkKeys, undone <- chkTodo, cav_mesh <- chkCav, stage <- chkPhase

Trial == INSTANCE CoarsenTrial WITH
    Elems <- AroundAxis, Dirs <- Directions, Dims <- {2, 3}, Filters <- BOOLEAN,
    Ranks <- {r \in [Directions -> 1..4] : \A d, e \in Directions : r[d] = r[e] => d = e},
    Meshes <- SearchMeshes, Turns <- {2, 3, 5, 7}, cells <- srchCells, ev2v <- srchEv2v,
    Tets <- Row(5), Keys <- {{0}, {0, 6}, {0, 5}, {1, 7}, {3}, {2, 6}},
    Invalids <- {{}, {2}, {1, 3, 4}, {2, 3}, 1..5}, MaxThreads <- 2, Fresh <- {0, 1},
    Classed <- BOOLEAN, keys2verts <- chkKeys, undone <- chkTodo, cav_mesh <- chkCav, stage <- chkPhase

-----------------------------------------------------------------------------
(* Refining: strips of triangles and chains of tetrahedra, listed from      *)
(* different vertices, with every independent set of key edges.             *)
Strip(n, r) == [i \in 1..n |-> Rolled(<<i, i + 1, i + 2>>, (i + r) % 3)]
Chain(n, r) == [i \in 1..n |-> Rolled(<<i, i + 1, i + 2, i + 3>>, (i + r) % 4)]
Strips == {Strip(4, r) : r \in 0..2}
TetChains == {Chain(3, r) : r \in 0..3}

Refine2 == INSTANCE CurvedRefine WITH
    Meshes <- TetChains, Order <- 2, Threads <- 2, ev2v <- refEv2v, fv2v <- refFv2v,
    edge_ctrlPts <- refEdgePts, face_ctrlPts <- refFacePts, failed <- refFailed
Refine3 == INSTANCE CurvedRefine WITH
    Meshes <- Strips \union TetChains, Order <- 3, Threads <- 2, ev2v <- refEv2v, fv2v <- refFv2v,
    edge_ctrlPts <- refEdgePts, face_ctrlPts <- refFacePts, failed <- refFailed

-----------------------------------------------------------------------------
(* Fans of up to three products, and their other ends.                      *)
Degree == 12    \* as in CurvedCavity
Deg(S) == {x * Degree : x \in S}
Ats(w, by, n) ==
    LET places == {a \in 1..(w - 1) : a % by = 0} IN
    {<<>>} \union
    UNION {{s \in [1..m -> places] : \A i, j \in 1..m : i < j => s[i] < s[j]} : m \in 1..n}
SidesOn(spans, by, n) ==
    UNION {{[gid |-> 1, span |-> s * Degree, at |-> [i \in DOMAIN a |-> a[i] * Degree]] :
            a \in Ats(s, by, n)} : s \in spans}
\* The other side of a geometric edge, and one on the same geometric face.
Second == [gid |-> 2, span |-> 90 * Degree, at |-> <<30 * Degree, 60 * Degree>>]
OnGface(s) == [gdim |-> 2, sides |-> <<s>>]
OnGedge(s) == [gdim |-> 1, sides |-> <<s, Second>>]
OnSeamOf(s) == [gdim |-> 1, sides |-> <<s, [Second EXCEPT !.gid = 1]>>]
FanOf(bent) ==
    {[gdim |-> b.gdim, sides |-> b.sides, listed |-> l, axis |-> x, aligned |-> TRUE] :
        b \in bent, l \in [reversed : BOOLEAN, key_first : BOOLEAN], x \in {1, -1}}
FanSides == SidesOn({60, 160, 240}, 40, 3)
AllCorners ==
    [left : Deg({10, 45, 90, 170}), right : Deg({10, 45, 135}), reversed : BOOLEAN]
AllCurves ==
    {[c0 |-> <<1 - a, 1>>, p |-> <<1, 1>>, c3 |-> e] : a \in 1..2, e \in {<<1, 3>>, <<2, 1>>}}

Fans == INSTANCE CurvedCavity WITH
    Cavities <- {}, Turns <- {}, stage <- cavStage,
    FanCavities <- FanOf({OnGface(s) : s \in FanSides} \union {OnGedge(s) : s \in FanSides}
                         \union {OnSeamOf(s) : s \in SidesOn({160}, 40, 1)}),
    Corners <- {[left |-> 45 * Degree, right |-> 45 * Degree, reversed |-> FALSE]},
    Curves <- {[c0 |-> <<0, 1>>, p |-> <<1, 1>>, c3 |-> <<1, 3>>]},
    prods_left <- fanTodo, fan_ctrlPts <- fanPts, failed <- fanFailed
FanEnds == INSTANCE CurvedCavity WITH
    Cavities <- {}, Turns <- {}, stage <- cavStage, FanCavities <- FanOf({OnGedge(s) : s \in SidesOn({120}, 60, 1)}),
    Corners <- AllCorners, Curves <- AllCurves,
    prods_left <- fanTodo, fan_ctrlPts <- fanPts, failed <- fanFailed

-----------------------------------------------------------------------------
(* Cavities of one key.  A collapse joins the elements around vertex 0,     *)
(* whose opposite faces are the link, to one of its neighbours.  A swap     *)
(* replaces the elements around the edge 0-9 by ones that do not use it.    *)
Cone(v, faces) == [k \in DOMAIN faces |-> Ascending({v} \union faces[k])]
\* A bipyramid over a triangle, over a square, and the first with vertex 6 added.
Bipyramid3 == <<{1, 2, 3}, {1, 3, 4}, {1, 2, 4}, {5, 2, 3}, {5, 3, 4}, {5, 2, 4}>>
Bipyramid4 == <<{1, 2, 3}, {1, 3, 4}, {1, 4, 6}, {1, 2, 6}, {5, 2, 3}, {5, 3, 4}, {5, 4, 6}, {5, 2, 6}>>
Stacked == <<{1, 2, 3}, {1, 3, 4}, {1, 2, 4}, {6, 2, 3}, {6, 5, 3}, {6, 5, 2}, {5, 3, 4}, {5, 2, 4}>>
Links == {Bipyramid3, Bipyramid4, Stacked}
Collapse(link, onto, bdry, id) ==
    [op |-> "coarsen", cells |-> Cone(0, link),
     new_cells |-> Cone(onto, SelectSeq(link, LAMBDA f : onto \notin f)),
     key |-> {0}, onto |-> onto, bdry |-> bdry, region_id |-> id]
\* Vertex 0 on the boundary: its link is a disk, and the boundary faces join the rim of
\* the disk to it before the collapse and to the target after.
Disk3 == <<{1, 2, 3}, {1, 3, 4}, {1, 4, 2}>>
Rim3 == {{2, 3}, {3, 4}, {4, 2}}
Disk5 == <<{1, 2, 3}, {1, 3, 4}, {1, 4, 5}, {1, 5, 6}, {1, 6, 2}>>
Rim5 == {{2, 3}, {3, 4}, {4, 5}, {5, 6}, {6, 2}}
OnRim(disk, rim, id) ==
    Collapse(disk, 2, {r \union {0} : r \in rim} \union {r \union {2} : r \in {q \in rim : 2 \notin q}}, id)
Collapses ==
    {Collapse(l, v, b, id) : l \in Links, v \in {1, 2, 5}, b \in {{}, {{2, 3, 5}}}, id \in {1, 2}}
      \union {OnRim(Disk3, Rim3, id) : id \in {1, 2}} \union {OnRim(Disk5, Rim5, id) : id \in {1, 2}}

Ring(n) == [k \in 1..n |-> {k, (k % n) + 1}]
Swap3d(n, tris, bdry, id) ==
    [op |-> "swap", cells |-> [k \in 1..n |-> Ascending({0, 9} \union Ring(n)[k])],
     new_cells |-> Cone(0, tris) \o Cone(9, tris),
     key |-> {0, 9}, onto |-> 0, bdry |-> bdry, region_id |-> id]
Swaps ==
    {[op |-> "swap", cells |-> <<<<0, 1, 9>>, <<0, 2, 9>>>>, new_cells |-> <<<<0, 1, 2>>, <<1, 2, 9>>>>,
      key |-> {0, 9}, onto |-> 0, bdry |-> {}, region_id |-> 1]}
      \union {Swap3d(x[1], x[2], b, id) :
                x \in {<<3, <<{1, 2, 3}>>>>, <<4, <<{1, 2, 3}, {1, 3, 4}>>>>, <<4, <<{1, 2, 4}, {2, 3, 4}>>>>,
                       <<5, <<{1, 2, 3}, {1, 3, 4}, {1, 4, 5}>>>>},
                b \in {{}, {{0, 1, 2}}, {{0, 2, 3}, {9, 2, 3}}}, id \in {1, 2}}

Cavity == INSTANCE CurvedCavity WITH
    Cavities <- Collapses \union Swaps, Turns <- {2, 3, 100}, stage <- cavStage,
    FanCavities <- {}, Corners <- {}, Curves <- {}, prods_left <- fanTodo, fan_ctrlPts <- fanPts,
    failed <- fanFailed

-----------------------------------------------------------------------------
Modes == {"draw", "judge", "elevate", "elevate2", "check", "long", "trial", "search", "refine2", "refine3",
          "fans", "ends", "cavity"}

\* A part that a behaviour is not about.
DrawOff == /\ tet = 0 /\ drawn = 0
JudgeOff == /\ shp = 0 /\ elem = 0 /\ place = 0 /\ moved = 0
ElevateOff == /\ tri = 0 /\ interp = 0 /\ max_order = 0 /\ edgePts = 0 /\ facePts = 0
              /\ old = 0 /\ raised = 0 /\ thread = 0 /\ mixed = 0
CheckOff == /\ chkKeys = 0 /\ invalid = 0 /\ hasClass = 0 /\ build = 0 /\ cavTets = 0
            /\ classdim = 0 /\ chkTodo = 0 /\ chkCav = 0 /\ chkPhase = 0
TrialOff == /\ dim = 0 /\ filter = 0 /\ rank = 0 /\ elems = 0 /\ codes = 0 /\ cands = 0
            /\ keys = 0 /\ tried = 0 /\ bad = 0 /\ ret = 0 /\ phase = 0
SearchOff == /\ srchCells = 0 /\ srchEv2v = 0 /\ cand = 0 /\ pts = 0
RefineOff == /\ cells = 0 /\ refEv2v = 0 /\ refFv2v = 0 /\ keys2edges = 0 /\ stage = 0
             /\ next = 0 /\ reading = 0 /\ count_key = 0 /\ keys2old_faces = 0
             /\ vert_ctrlPts = 0 /\ refEdgePts = 0 /\ refFacePts = 0 /\ candidate = 0
             /\ refFailed = 0
FanOff == /\ fan = 0 /\ corner = 0 /\ onto_first = 0 /\ curve = 0
          /\ nedge_shared_gface = 0 /\ fanTodo = 0 /\ fanPts = 0 /\ gedge_ctrlPts = 0
          /\ fanFailed = 0
CavityOff == /\ cav = 0 /\ old_ev2v = 0 /\ new_ev2v = 0 /\ todo = 0 /\ edge_ctrlPts = 0
             /\ edge_dualCone = 0 /\ face_ctrlPts = 0 /\ cavStage = 0

Init ==
    /\ mode \in Modes
    /\ IF mode = "draw" THEN DrawInit ELSE DrawOff
    /\ IF mode = "judge" THEN JudgeInit ELSE JudgeOff
    /\ CASE mode = "elevate" -> Elevate!Init
         [] mode = "elevate2" -> Elevate2!Init
         [] OTHER -> ElevateOff
    /\ CASE mode = "check" -> Trial!CheckInit
         [] mode = "long" -> Long!CheckInit
         [] OTHER -> CheckOff
    /\ IF mode = "trial" THEN Trial!Init ELSE TrialOff
    /\ IF mode = "search" THEN Trial!SearchInit ELSE SearchOff
    /\ CASE mode = "refine2" -> Refine2!Init
         [] mode = "refine3" -> Refine3!Init
         [] OTHER -> RefineOff
    /\ CASE mode = "fans" -> Fans!FanInit
         [] mode = "ends" -> FanEnds!FanInit
         [] OTHER -> FanOff
    /\ IF mode = "cavity" THEN Cavity!Init ELSE CavityOff

DrawStep ==
    /\ mode = "draw" /\ DrawNext
    /\ UNCHANGED <<mode, judgeVars, elevVars, checkVars, trialVars, searchVars,
                   refVars, fanVars, cavVars>>
JudgeStep ==
    /\ mode = "judge" /\ Move
    /\ UNCHANGED <<mode, drawVars, elevVars, checkVars, trialVars, searchVars, refVars,
                   fanVars, cavVars>>
ElevateStep ==
    /\ \/ mode = "elevate" /\ Elevate!Next
       \/ mode = "elevate2" /\ Elevate2!Next
    /\ UNCHANGED <<mode, drawVars, judgeVars, checkVars, trialVars, searchVars,
                   refVars, fanVars, cavVars>>
CheckStep ==
    /\ \/ mode = "check" /\ Trial!CheckNext
       \/ mode = "long" /\ Long!CheckNext
    /\ UNCHANGED <<mode, drawVars, judgeVars, elevVars, trialVars, searchVars, refVars,
                   fanVars, cavVars>>
TrialStep ==
    /\ mode = "trial" /\ Trial!Next
    /\ UNCHANGED <<mode, drawVars, judgeVars, elevVars, checkVars, searchVars, refVars,
                   fanVars, cavVars>>
SearchStep ==
    /\ mode = "search" /\ Trial!SearchNext
    /\ UNCHANGED <<mode, drawVars, judgeVars, elevVars, checkVars, trialVars, refVars,
                   fanVars, cavVars>>
RefineStep ==
    /\ \/ mode = "refine2" /\ Refine2!Next
       \/ mode = "refine3" /\ Refine3!Next
    /\ UNCHANGED <<mode, drawVars, judgeVars, elevVars, checkVars, trialVars,
                   searchVars, fanVars, cavVars>>
FanStep ==
    /\ \/ mode = "fans" /\ Fans!FanNext
       \/ mode = "ends" /\ FanEnds!FanNext
    /\ UNCHANGED <<mode, drawVars, judgeVars, elevVars, checkVars, trialVars,
                   searchVars, refVars, cavVars>>
CavityStep ==
    /\ mode = "cavity" /\ Cavity!Next
    /\ UNCHANGED <<mode, drawVars, judgeVars, elevVars, checkVars, trialVars,
                   searchVars, refVars, fanVars>>

Next == \/ DrawStep \/ JudgeStep \/ ElevateStep \/ CheckStep \/ TrialStep
        \/ SearchStep \/ RefineStep \/ FanStep \/ CavityStep

\* One thread runs the driver of a coarsening to its end.
Spec == Init /\ [][Next]_vars /\ WF_vars(TrialStep)

-----------------------------------------------------------------------------
\* The arrays of an elevated mesh have as many points as its order asks for.
TypeOK == mode \in {"elevate", "elevate2"} => Elevate!TypeOK

Lattice(n, d) == {a \in [1..(d + 1) -> 0..n] : SumFunction(a) = n}

\* The parameter of an entity with vertices w, within one with vertices v.
Within(v, w, a) == [k \in DOMAIN v |-> IF \E i \in DOMAIN w : w[i] = v[k]
                                       THEN a[CHOOSE i \in DOMAIN w : w[i] = v[k]] ELSE 0]

\* The maps of the tetrahedron, of its faces and of its edges agree where these
\* meet, whichever way edges and faces are stored, so an element has the same
\* boundary as its neighbour (rgn_parametricToParent_*, face_parametricToParent_*,
\* curve_paramToParent_3d).
BoundariesAgree ==
    mode = "draw" /\ drawn = None =>
    /\ \A f \in 0..3, a \in Lattice(3, 2) :
        rgn_parametricToParent_3d(tet, 0, Within(tet.rv2v[0], tet.fv2v[f], a))
            = face_parametricToParent_3d(tet, f, a)
    /\ \A f \in 0..3, a \in Lattice(2, 2) :
        rgn_parametricToParent_3dp2(tet, 0, Within(tet.rv2v[0], tet.fv2v[f], a))
            = face_parametricToParent_3d_p2(tet, f, a)
    /\ \A f \in 0..3, k \in 1..3, a \in Lattice(3, 1) :
        LET e == tet.fe2e[f][k] IN
        face_parametricToParent_3d(tet, f, Within(tet.fv2v[f], tet.ev2v[e], a))
            = curve_paramToParent_3d(tet, e, a)

\* Where faces meet, their drawings have the points of the drawn edge between
\* them, so the drawn surface has no gaps (build_*_curveVtk_*, build_*_wireframe_*).
NoGaps ==
    mode = "draw" /\ drawn # None =>
        \A g \in 1..(Len(drawn.faces.coords) \div Len(grid(drawn.n))), k \in 1..3 :
            LET n == drawn.n
                f == IF Len(drawn.faces.coords) = 4 * Len(grid(n)) THEN g - 1 ELSE <<1, 3>>[g]
                e == tet.fe2e[f][k]
                onSide(x) == <<n - 1 - x[1] - x[2], x[1], x[2]>>[((k + 1) % 3) + 1] = 0
                border == {drawn.faces.coords[(g - 1) * Len(grid(n)) + c] :
                            c \in {c \in 1..Len(grid(n)) : onSide(grid(n)[c])}} IN
            border = {drawn.edges.coords[e * n + i] : i \in 1..n}

\* The triangles of a drawn face fill it: two share each inner side, one has
\* each side on the border, all are as large and turn the same way
\* (face_vertices in build_*_curveVtk_*).
GridIsFilled ==
    mode = "draw" /\ drawn # None =>
        LET n == drawn.n
            perTri == Len(grid(n))
            ts == {t \in ToSet(drawn.faces.fv2v) : t[1] < perTri}
            at(c) == grid(n)[c + 1]
            area2(t) == (at(t[2])[1] - at(t[1])[1]) * (at(t[3])[2] - at(t[1])[2])
                        - (at(t[2])[2] - at(t[1])[2]) * (at(t[3])[1] - at(t[1])[1])
            sides == UNION {{{t[1], t[2]}, {t[2], t[3]}, {t[3], t[1]}} : t \in ts}
            of(s) == Cardinality({t \in ts : s \subseteq {t[1], t[2], t[3]}})
            onBorder(s) == \E k \in 1..3 : \A c \in s : <<n - 1 - at(c)[1] - at(c)[2], at(c)[1], at(c)[2]>>[k] = 0 IN
        /\ Len(drawn.faces.fv2v) = (n - 1) * (n - 1) * (Len(drawn.faces.coords) \div perTri)
        /\ Cardinality(ts) = (n - 1) * (n - 1)
        /\ \A t \in ts : area2(t) = 1
        /\ \A s \in sides : of(s) = IF onBorder(s) THEN 1 ELSE 2

\* The control point solved from a face's middle puts the face's middle there
\* (face_interpToCtrlPt_3d): 6 of 27 times the point, with the other weights,
\* leaves p11 alone.
MiddleIsMet ==
    mode = "draw" /\ drawn = None => \A f \in 0..3 :
        LET inner == face_interpToCtrlPt_3d(tet, f)
            others == {t \in face_parametricToParent_3d(tet, f, third) : t[1] # <<"f", f, 1>>} IN
        \A p \in {t[1] : t \in inner} :
            MapThenSumSet(LAMBDA t : t[2], {t \in inner : t[1] = p})
              + MapThenSumSet(LAMBDA t : t[2], {t \in others : t[1] = p})
            = IF p = <<"p", f, 1>> THEN 27 ELSE 0
\* The powers of all vertices, from those of the vertices after the first.
All(x) == <<Order - SumFunction(x)>> \o x

Multinomial(x) ==
    const_factorial(Order) \div
        (const_factorial(x[1]) * const_factorial(x[2]) * const_factorial(x[3])
            * (IF Len(x) = 4 THEN const_factorial(x[4]) ELSE 1))

Power(a, x) == pow(a[1], x[1]) * pow(a[2], x[2]) * pow(a[3], x[3]) * (IF Len(x) = 4 THEN pow(a[4], x[4]) ELSE 1)

\* The derivative of the element's map by barycentric coordinate k, at a.
Derivative(net, k, a) ==
    [c \in 1..Dimension |-> MapThenSumSet(
        LAMBDA x : LET y == All(x) IN
            IF y[k] = 0 THEN 0
            ELSE place[net[x]][c] * Multinomial(y) * y[k] * Power(a, [y EXCEPT ![k] = @ - 1]),
        DOMAIN net)]

\* The determinant of the derivatives along the sides from the first vertex.
Jacobian(net, a) ==
    LET along(k) == minus(Derivative(net, k, a), Derivative(net, 1, a)) IN
    IF Dimension = 2 THEN cross2(along(2), along(3)) ELSE triple(along(2), along(3), along(4))

\* The polynomial with the coefficients that were computed, at a.
FromNodes2(dets, a) ==
    MapThenSumSet(LAMBDA x : dets[computeTriNodeIndex(2 * (Order - 1), x[1], x[2])]
                               * Power(a, <<x[1], x[2], 2 * (Order - 1) - x[1] - x[2]>>),
                  tri_powers(2 * (Order - 1)))
FromNodes3(dets, a) ==
    MapThenSumSet(LAMBDA x : dets[computeTetNodeIndex(3 * (Order - 1), x[1], x[2], x[3])]
                               * Power(a, <<x[1], x[2], x[3], 3 * (Order - 1) - x[1] - x[2] - x[3]>>),
                  tet_powers(3 * (Order - 1)))

\* collect_tet_pts puts the two points of the side between the third and the
\* fourth vertex each where computeTetNodeIndex looks for the other, so what is
\* judged of a tetrahedron is one in which these two are exchanged.
Exchanged(x) == IF Len(x) = 3 /\ x[1] = 0 /\ {x[2], x[3]} = {1, 2} THEN <<0, x[3], x[2]>> ELSE x
JudgedNet(net) == [x \in DOMAIN net |-> net[Exchanged(x)]]

\* The coefficients the code computes.
Dets == IF Dimension = 2 THEN tri_dets(elem, place, 0, Order) ELSE tet_dets(elem, place, 0)

\* The computed coefficients are those of the Jacobian determinant, whichever way
\* the sides of the element are stored: of a triangle's own map, and of the map of
\* a tetrahedron with two points of one side exchanged (getTriJacDetNodes,
\* getTetJacDetNodes, collect_tet_pts, Nijk, Nijkl).
CoefficientsOfTheJacobian ==
    mode = "judge" =>
    \E net \in {JudgedNet(Net(Dimension, Order, elem))}, dets \in {Dets} :
        \A a \in Lattice(IF Dimension = 2 THEN 4 ELSE 2, Dimension) :
            IF Dimension = 2 THEN Jacobian(net, a) = Order * Order * FromNodes2(dets, a)
            ELSE Jacobian(net, a) = Order * Order * Order * FromNodes3(dets, a)

\* A triangle taken as valid is nowhere turned inside out; one refused for a
\* vertex is turned there, and the quality's corners are those of the map
\* (checkValidity_2d, checkMinJacDet, askWorstQuality_2d).
TriangleVerdictIsSound ==
    mode = "judge" /\ Dimension = 2 =>
    \E net \in {Net(Dimension, Order, elem)}, code \in {checkValidity_2d(elem, place, 0, Order)} :
        LET unit(k) == [i \in 1..3 |-> IF i = k THEN 1 ELSE 0]
            quality == askWorstQuality_2d(elem, place, 0, Order) IN
        /\ code = -1 => \A a \in Lattice(4, 2) : Jacobian(net, a) >= 0
        /\ code \in 2..4 => Jacobian(net, unit(code - 1)) < 0
        /\ code \notin 2..4 => \A k \in 1..3 : Jacobian(net, unit(k)) >= 0
        /\ Order * Order * quality[1] = Min({Jacobian(net, unit(k)) : k \in 1..3})
        /\ quality[1] < 0 <=> code \in 2..4

\* A tetrahedron is refused for its first vertex at which it is turned inside out,
\* and has a quality if it is turned at none: at the first two vertices that is so
\* of the element itself, at the other two of the one with two points exchanged
\* (checkValidity_3d, checkMinJacDet_3d, calc_crvQuality_3d, collect_tet_pts).
TetVerdictIsSound ==
    mode = "judge" /\ Dimension = 3 =>
    \E net \in {Net(Dimension, Order, elem)}, dets \in {Dets} :
        LET unit(k) == [i \in 1..4 |-> IF i = k THEN 1 ELSE 0]
            corner_of(k) == Jacobian(IF k <= 2 THEN net ELSE JudgedNet(net), unit(k))
            code == checkMinJacDet_3d(dets, 3, TRUE)
            quality == calcMinMaxJacDet(dets, 4) IN
        /\ code = -1 <=> \A k \in 1..4 : corner_of(k) >= 0
        /\ code # -1 => corner_of(code - 1) < 0 /\ \A k \in 1..(code - 2) : corner_of(k) >= 0
        /\ Order * Order * Order * quality[1] = Min({corner_of(k) : k \in 1..4})

\* Every point of an element has a place of its own, below the number of them
\* (computeTriNodeIndex up to order 18, computeTetNodeIndex).
NodesArePlaced ==
    mode = "judge" /\ moved = 0 =>
    /\ \A n \in 2..18 : {computeTriNodeIndex(n, x[1], x[2]) : x \in tri_powers(n)} = 0..(n_total_ctrlPts(2, n) - 1)
    /\ \A n \in 2..6 : {computeTetNodeIndex(n, x[1], x[2], x[3]) : x \in tet_powers(n)} = 0..(n_total_ctrlPts(3, n) - 1)

\* However often the order was raised, an edge has the curve it had at first,
\* unless it was given a point that the thread of another edge had put into the
\* shared arrays c1, c2, ... meanwhile (elevate_curve_order_2to3, 3to4, 4to5, 5to6).
EdgesKeepTheirCurves ==
    mode \in {"elevate", "elevate2"} => Elevate!EdgesKeepTheirCurves

\* The face of the cubic mesh is the quadratic face, unless its points are to come
\* from interpolation points; that of the quartic mesh would be with two of its
\* points exchanged (elevate_curve_order_2to3, elevate_curve_order_3to4).
FacesAfterElevation ==
    mode \in {"elevate", "elevate2"} =>
        Elevate!CubicFaceKeepsItsShape /\ Elevate!QuarticFaceIsExchanged

\* However the threads interleave, a face of a cavity is classed as boundary with
\* its edges and vertices when the tetrahedron on its other side, if any, does not
\* pass for one of a cavity, and a face of two that do is not, except between two
\* cavities; nothing else is classed (make_cavity_class).
BoundaryOfCavities ==
    /\ mode = "check" => Trial!BoundaryOfCavities
    /\ mode = "long" => Long!BoundaryOfCavities

\* Only of a mesh whose cavities were classed before is there a report on invalid
\* tetrahedra, and its mesh has every marked entity once, as long as there are at
\* most 128 of a dimension (build_given_tets).
CavityIsWhole ==
    /\ mode = "check" => Trial!CavityIsWhole
    /\ mode = "long" => Long!CavityIsWhole

\* With the filter on, a collapse made for good was tried and made no invalid
\* element, or inherits the verdict on other collapses onto the same vertex
\* (coarsen_invalidities_new_mesh, filter_coarsen_invalids).
MadeWereJudged == mode = "trial" => Trial!MadeWereJudged

\* Every stage finds the codes the stage before it left, so coarsen returns,
\* and returns with no code left on the mesh (get_edge_codes, put_edge_codes).
CodesAreHandedOn ==
    <>(mode = "trial" => phase \in {"end", "modified"} /\ codes = Trial!NoTag)

\* The points a side of a new element is given begin at the side's first vertex,
\* whichever way the edge is stored, and come from an edge that stays
\* (is_newTri_edge_flip, is_newTet_edge_flip).
PointsRunAlong == mode = "search" => Trial!PointsRunAlong

\* On the plane, a side of a new element is made straight only when the mesh has
\* no such edge: two steps of the search reach all that is kept when at most
\* four triangles meet at the vertex (same_edges, newTri_edge).
NearbyEdgesAreKept == mode = "search" => Trial!NearbyEdgesAreKept

\* When the edges are done, every edge of the new mesh has its points, and an
\* edge that was made has them where, on the old mesh, they lie between its ends,
\* from whichever face and with whichever number the code found the face
\* (create_curved_verts_and_edges_2d, create_curved_verts_and_edges_3d).
EdgesInPlace ==
    /\ mode = "refine2" => Refine2!EdgesInPlace
    /\ mode = "refine3" => Refine3!EdgesInPlace

\* When the faces are done, every face of the new mesh has its point, and a face
\* that was made has it in the middle of its three vertices, whether it halves an
\* old face or lies across an old tetrahedron (create_curved_faces_3d).
FacesInPlace == mode = "refine3" => Refine3!FacesInPlace

\* The edges of a fan leave v_onto inside the fan and in the order of their other
\* ends, in a convex and in a reflex fan, whichever upper edge is found first
\* (curve_coarsen.hpp 475-820).
FansUncrossed == mode = "fans" => Fans!FansUncrossed

\* At its other end too, a new edge leaves inside the corner of the face it lies
\* on, unless the corner is very lopsided (curve_coarsen.hpp 822-1076).
LowerInCorner == mode = "ends" => FanEnds!LowerInCorner

\* The curve that replaces two edges of a geometric edge still passes through
\* the removed vertex (curve_coarsen.hpp 281-308).
ThroughRemovedVertex == mode = "ends" => FanEnds!ThroughRemovedVertex

\* A geometric face has at most two upper edges, unless it lies on both sides of
\* the geometric edge of the vertex; then no edge on it is curved (OMEGA_H_CHECK at
\* curve_coarsen.hpp 376).
UpperEdgesAreTwo ==
    /\ mode = "fans" => Fans!UpperEdgesAreTwo
    /\ mode = "ends" => FanEnds!UpperEdgesAreTwo

\* The control point stored next to the first vertex of a new edge is the one
\* computed at that vertex, from tangents that leave it, however old and new
\* edges are directed (curve_coarsen.hpp 1078-1088 and 1333-1342,
\* curve_swap.hpp 401-410).
SlotsFollowEnds ==
    /\ mode = "fans" => Fans!BdrySlotsFollowEnds
    /\ mode = "cavity" => Cavity!SlotsFollowEnds

\* The curved axis of a cavity with one new edge takes both of its control points
\* from the old edges that lead to the vertices around it
\* (curve_coarsen.hpp 1175-1331).
ConesCoverFaces == mode = "cavity" => Cavity!ConesCoverFaces

\* A face that was there before keeps its control point, but for those at the
\* boundary that a swap blends (curve_coarsen.hpp 1372, curve_swap.hpp 1607, 1669).
KeptFacesCopied == mode = "cavity" => Cavity!KeptFacesCopied
-----------------------------------------------------------------------------
(* What is checked, as conjunctions of the parts above. *)

\* A curved element has one shape, whoever asks for it: drawn from each side,
\* written in the Bezier form of its own order or of a higher one, judged by its
\* Jacobian determinant, or split into the elements of a refined mesh.  Where the
\* code gives it another one, the parts say which: the tetrahedron judged and the
\* quartic face drawn have two points exchanged, and an edge raised beside another
\* thread may have points of that thread's edge.
CurvesHaveOneShape ==
    /\ TypeOK
    /\ BoundariesAgree /\ NoGaps /\ GridIsFilled /\ MiddleIsMet
    /\ NodesArePlaced /\ CoefficientsOfTheJacobian
    /\ TriangleVerdictIsSound /\ TetVerdictIsSound
    /\ EdgesKeepTheirCurves /\ FacesAfterElevation
    /\ EdgesInPlace /\ FacesInPlace

\* When a cavity is replaced, the elements that come were tried and found valid,
\* what stays keeps its control points, and a new edge or face gets points that lie
\* on its side, in its direction and uncrossed; where the code does otherwise, the
\* parts say in which cavities: a verdict inherited, a face blended though kept, a
\* geometric face on both sides of its edge, memory that was not filled.
CavitiesAreCurved ==
    /\ BoundaryOfCavities /\ CavityIsWhole /\ MadeWereJudged
    /\ PointsRunAlong /\ NearbyEdgesAreKept
    /\ FansUncrossed /\ LowerInCorner /\ ThroughRemovedVertex /\ UpperEdgesAreTwo
    /\ SlotsFollowEnds /\ ConesCoverFaces /\ KeptFacesCopied
=============================================================================
