---------------------------- MODULE CurvedCavity ----------------------------
(***************************************************************************)
(* Control points of the edges and faces that a collapse or a swap inside  *)
(* a curved mesh creates: curve_dualCone_cav and coarsen_curved_faces of   *)
(* Omega_h_curve_coarsen.hpp, and their versions in Omega_h_curve_swap.hpp.*)
(*                                                                         *)
(* Elements, edges and faces are given by their vertices.  A control point *)
(* is where it is computed and from what: the unit tangents averaged there *)
(* (each an edge and the end it is taken at), or straight towards the      *)
(* other end.                                                              *)
(***************************************************************************)
EXTENDS RefElem, FiniteSets, SequencesExt

CONSTANTS
    Cavities,  \* records [op, cells, new_cells, key, onto, bdry, region_id]
    Turns      \* which edges are stored against the order of their vertices

VARIABLES
    cav,            \* the old and the new elements, the key and its target
    old_ev2v,       \* old edges, each from its first vertex
    new_ev2v,       \* new edges
    todo,           \* new edges that no loop has handled
    edge_ctrlPts,   \* new edge -> its two control points
    edge_dualCone,  \* the new edges that are the axis of a dual cone
    face_ctrlPts,   \* new face -> "copied", "centroid" or "blended"
    stage           \* "edges", "cones" or "blends"

vars == <<cav, old_ev2v, new_ev2v, todo, edge_ctrlPts, edge_dualCone, face_ctrlPts, stage>>
input == <<cav, old_ev2v, new_ev2v>>

Faces(cells) == UNION {{f \in SUBSET ToSet(c) : Cardinality(f) = 3} : c \in ToSet(cells)}
OldEdges == {ToSet(e) : e \in ToSet(old_ev2v)}
Ends(e) == ToSet(new_ev2v[e])
\* prods2new, old2new: a new edge or face is a product unless it was there before.
ProdEdges == {e \in DOMAIN new_ev2v : Ends(e) \notin OldEdges}
OldFaces == Faces(cav.cells)
NewFaces == Faces(cav.new_cells)
nprods == Cardinality(ProdEdges)
\* The elements around the key: a vertex in a collapse, an edge in a swap.
KeyCells == {c \in ToSet(cav.cells) : cav.key \subseteq ToSet(c)}
Dim == Len(cav.cells[1]) - 1
\* class_dim = 2 of a vertex, edge or face of a three-dimensional mesh, and class_id of
\* a face: there is one geometric face, 1, and one region, whose number may be 1 too.
OnBoundary(s) == Dim = 3 /\ \E f \in cav.bdry : s \subseteq f
newface_gid(f) == IF OnBoundary(f) THEN 1 ELSE cav.region_id

-----------------------------------------------------------------------------
\* A control point a third of the way along the averaged tangents, or straight.
toward(v, ts) == [at |-> v, along |-> ts, straight |-> FALSE]
straight(v) == [at |-> v, along |-> {}, straight |-> TRUE]

\* upper_edges, lower_edges: the old edges at v in the elements around the key, except
\* those of the key, each once and with the end (first or second) that v is.
CavityEdgesAt(v) ==
    {<<e, j>> \in (DOMAIN old_ev2v) \X {1, 2} :
        old_ev2v[e][j] = v /\ \E c \in KeyCells : ToSet(old_ev2v[e]) \subseteq ToSet(c)}
EdgesAtCollapse(v) ==
    {t \in CavityEdgesAt(v) : ToSet(old_ev2v[t[1]]) \intersect cav.key = {}}
EdgesAtSwap(v) ==
    {t \in CavityEdgesAt(v) : ToSet(old_ev2v[t[1]]) # cav.key}

\* A collapse: the far end is straight too unless there is one new edge.
LowerEnd(e) == CHOOSE v \in Ends(e) : v # cav.onto
c_lower(e) ==
    IF nprods > 1 THEN straight(LowerEnd(e)) ELSE toward(LowerEnd(e), EdgesAtCollapse(LowerEnd(e)))
c_upper(e) ==
    IF nprods = 1 THEN toward(cav.onto, EdgesAtCollapse(cav.onto)) ELSE straight(cav.onto)
\* v_onto_is_first
slots(e) ==
    IF cav.onto = new_ev2v[e][1] THEN <<c_upper(e), c_lower(e)>> ELSE <<c_lower(e), c_upper(e)>>
\* A swap: v_onto is the first vertex of the new edge.
c_lower_swap(e) == toward(new_ev2v[e][2], EdgesAtSwap(new_ev2v[e][2]))
c_upper_swap(e) ==
    IF nprods = 1 THEN toward(new_ev2v[e][1], EdgesAtSwap(new_ev2v[e][1])) ELSE straight(new_ev2v[e][1])
\* interior: in a collapse, the key, its target and the new edge are
Interior(e) ==
    cav.op = "swap" \/ ~(OnBoundary(cav.key) \/ OnBoundary({cav.onto}) \/ OnBoundary(Ends(e)))
\* edge_crv2bdry_dim = 2: the products on a geometric face; a swap, which makes none,
\* takes all edges with class_dim = 2.
CurvedOnBoundary(e) == OnBoundary(Ends(e)) /\ e \in ProdEdges
\* face_blends: newface_gdim[tri == 2] is the dimension of face 0 or 1, never zero.
blends(e) ==
    {f \in NewFaces :
        /\ Ends(e) \subseteq f
        /\ e \in edge_dualCone \/ (CurvedOnBoundary(e) /\ newface_gid(f) = 1)}
blends_swap(e) ==
    {f \in NewFaces :
        /\ Ends(e) \subseteq f
        /\ e \in edge_dualCone \/ (OnBoundary(Ends(e)) /\ newface_gid(f) = 1)}

-----------------------------------------------------------------------------
Init ==
    /\ cav \in Cavities
    /\ \E t \in Turns : old_ev2v = EdgesOf(cav.cells, t)
    /\ \E t \in Turns : new_ev2v = EdgesOf(cav.new_cells, t)
    /\ todo = {}
    /\ edge_ctrlPts = <<>>
    /\ edge_dualCone = {}
    /\ face_ctrlPts = <<>>
    /\ stage = "edges"

\* prod_edge_points: products start straight
StraightEdges ==
    /\ stage = "edges"
    /\ stage' = "cones"
    /\ edge_ctrlPts' = [e \in ProdEdges |-> [j \in 1..2 |-> straight(new_ev2v[e][j])]]
    /\ todo' = {e \in ProdEdges : (Dim = 3 \/ cav.op = "swap") /\ Interior(e)}
    /\ UNCHANGED <<input, edge_dualCone, face_ctrlPts>>

\* curve_dualCone_cav, of a collapse and of a swap
CurveCone(e, points) ==
    /\ stage = "cones"
    /\ e \in todo
    /\ todo' = todo \ {e}
    /\ edge_ctrlPts' = [edge_ctrlPts EXCEPT ![e] = points]
    /\ edge_dualCone' = edge_dualCone \union {x \in {e} : nprods = 1}
    /\ UNCHANGED <<input, face_ctrlPts, stage>>
CurveCollapsed(e) == cav.op = "coarsen" /\ CurveCone(e, slots(e))
CurveSwapped2d(e) ==
    cav.op = "swap" /\ Dim = 2 /\ nprods = 1 /\ CurveCone(e, <<c_upper_swap(e), c_lower_swap(e)>>)
CurveSwapped3d(e) ==
    cav.op = "swap" /\ Dim = 3 /\ CurveCone(e, <<c_upper_swap(e), c_lower_swap(e)>>)

\* copy_samefacePts, face_centroids
CopyFaces ==
    /\ stage = "cones" /\ todo = {}
    /\ face_ctrlPts' = [f \in NewFaces |-> IF f \in OldFaces THEN "copied" ELSE "centroid"]
    /\ stage' = "blends"
    /\ todo' = IF Dim = 3 THEN DOMAIN new_ev2v ELSE {}
    /\ UNCHANGED <<input, edge_ctrlPts, edge_dualCone>>

\* face_blends
BlendFaces(e) ==
    /\ stage = "blends"
    /\ e \in todo /\ \A d \in todo : e <= d
    /\ todo' = todo \ {e}
    /\ LET written == IF cav.op = "swap" THEN blends_swap(e) ELSE blends(e) IN
       face_ctrlPts' = [f \in NewFaces |-> IF f \in written THEN "blended" ELSE face_ctrlPts[f]]
    /\ UNCHANGED <<input, edge_ctrlPts, edge_dualCone, stage>>

Next ==
    \/ StraightEdges
    \/ \E e \in ProdEdges : CurveCollapsed(e)
    \/ \E e \in ProdEdges : CurveSwapped2d(e)
    \/ \E e \in ProdEdges : CurveSwapped3d(e)
    \/ CopyFaces
    \/ \E e \in DOMAIN new_ev2v : BlendFaces(e)

Spec == Init /\ [][Next]_vars

-----------------------------------------------------------------------------
(***************************************************************************)
(* Both control points of a new edge are computed at the end they are      *)
(* stored next to, from tangents that leave that end, however old and new  *)
(* edges are directed (curve_coarsen.hpp 1333-1342, curve_swap.hpp         *)
(* 401-410).                                                               *)
(***************************************************************************)
SlotsFollowEnds ==
    \A e \in DOMAIN edge_ctrlPts : \A j \in 1..2 :
        LET c == edge_ctrlPts[e][j] IN
        c.at = new_ev2v[e][j] /\ \A t \in c.along : old_ev2v[t[1]][t[2]] = c.at

BaseAt(e, j) ==
    UNION {ToSet(old_ev2v[t[1]]) : t \in edge_ctrlPts[e][j].along} \ {new_ev2v[e][j]}
AroundAxis(e) == UNION {f \in NewFaces : Ends(e) \subseteq f} \ Ends(e)

(***************************************************************************)
(* The curved axis of a cavity with one new edge takes both of its control *)
(* points from the old edges that lead to the vertices around it: every    *)
(* new face on the axis has an averaged edge at either end                 *)
(* (curve_coarsen.hpp 1175-1331).                                          *)
(***************************************************************************)
ConesCoverFaces ==
    \A e \in edge_dualCone : \A j \in 1..2 : AroundAxis(e) \subseteq BaseAt(e, j)

(***************************************************************************)
(* What the code calls a dual cone is one: the two cones averaged at its   *)
(* ends stand on the same base ("dual cone", curve_coarsen.hpp 1265).      *)
(***************************************************************************)
ConesShareBase ==
    \A e \in edge_dualCone : BaseAt(e, 1) = BaseAt(e, 2)

(***************************************************************************)
(* A face that was there before keeps its control point: it is copied      *)
(* ("copy ctrl pts for faces", curve_coarsen.hpp 1372, curve_swap.hpp      *)
(* 1607) and no later loop writes it.  A swap, which makes no edge on the  *)
(* boundary, blends the faces at old edges there: a kept face that has an  *)
(* edge on the boundary and the number of its geometric face, be it only a *)
(* face inside a region of that number (curve_swap.hpp 1669-1673).         *)
(***************************************************************************)
KeptFacesCopied ==
    stage = "blends" /\ todo = {} => \A f \in NewFaces \intersect OldFaces :
        face_ctrlPts[f] = "copied" <=>
            ~(cav.op = "swap" /\ \E g \in cav.bdry :
                Cardinality(f \intersect g) >= 2 /\ (f = g \/ cav.region_id = 1))

-----------------------------------------------------------------------------
(***************************************************************************)
(* Collapsing a vertex on the boundary of a curved mesh: curve_bdry_edges  *)
(* of coarsen_curved_verts_and_edges (Omega_h_curve_coarsen.hpp).  The new *)
(* edges of a geometric face fan out from v_onto between two old edges of  *)
(* that face, the upper edges; each new edge gets a control point near     *)
(* v_onto, whose direction is one of the candidates that divide the fan,   *)
(* and one near its other end v_lower.                                     *)
(*                                                                         *)
(* A geometric face is flat here and a direction is an angle in units of a *)
(* twelfth of a degree, so that the fractions the code takes are integers. *)
(* A side is the part of the cavity on one geometric face: its first upper *)
(* edge is at angle 0, its last one at span, its products in between.      *)
(***************************************************************************)
CONSTANTS
    FanCavities,  \* records [gdim, sides, listed, axis, aligned], see FanInit
    Corners,   \* corners at v_lower, see FanInit
    Curves     \* triples of points c0, p, c3 of a geometric edge

VARIABLES
    fan,          \* the cavity: the sides around v_key and how they are stored
    corner,       \* the corner at v_lower of every product
    onto_first,   \* whether v_onto is the first vertex of a new edge
    curve,        \* the two old edges of the geometric edge, joined at v_key
    nedge_shared_gface,  \* products on the same geometric face
    prods_left,         \* the products left, as <<side, index>>
    fan_ctrlPts, \* product -> the directions of its two control points
    gedge_ctrlPts,\* the control points of the product on the geometric edge
    failed        \* whether an OMEGA_H_CHECK failed

fanVars == <<fan, corner, onto_first, curve, nedge_shared_gface, prods_left, fan_ctrlPts,
          gedge_ctrlPts, failed>>
fanInput == <<fan, corner, onto_first, curve>>

-----------------------------------------------------------------------------
\* Directions in the plane.
Degree == 12
Turn == 360 * Degree
Half == 180 * Degree
NaN == -1
\* The anticlockwise angle from a to b, and the angle acos of the dot product gives.
To(a, b) == (b - a) % Turn
Between(a, b) == IF To(a, b) > Half THEN Turn - To(a, b) ELSE To(a, b)
ShortWay(a, b) == IF To(a, b) <= Half THEN 1 ELSE -1
Shift(a, by) == (a + by) % Turn
Opposite(a) == Shift(a, Half)
\* A point a third of the way along t is farther from the other end than the new
\* edge is long when the cosine of the angle between them is below 1/6.
points_away(t, d) == t # NaN /\ Between(t, d) >= 965
\* The normalised average of two unit vectors; opposite ones add up to zero.
Average(a, b) ==
    IF Between(a, b) = Half THEN NaN ELSE Shift(a, ShortWay(a, b) * (Between(a, b) \div 2))
flip_if_away(t, d) == IF points_away(t, d) THEN Opposite(t) ELSE t

-----------------------------------------------------------------------------
\* The cavity.
Sides == DOMAIN fan.sides
Prods == UNION {{<<s, k>> : k \in DOMAIN fan.sides[s].at} : s \in Sides}
gid(p) == fan.sides[p[1]].gid
dir(p) == fan.sides[p[1]].at[p[2]]
SameFace(p) == {q \in Prods : gid(q) = gid(p)}

\* The two old triangles at the edge from v_key to v_onto, as stored.  Each has an
\* outer edge at v_onto, on the triangle's geometric face.
outer_edges ==
    LET both == IF fan.gdim = 1
                THEN << <<1, "first">>, <<2, "first">> >>
                ELSE << <<1, "first">>, <<1, "last">> >> IN
    IF fan.listed.reversed THEN Reverse(both) ELSE both
key_edge == <<0, "key">>
\* The edges of v_onto in those triangles, in the order they are met.
met_edges ==
    FlattenSeq([t \in 1..2 |-> IF fan.listed.key_first THEN <<key_edge, outer_edges[t]>>
                                                   ELSE <<outer_edges[t], key_edge>>])
accepted(e, g) == IF e = key_edge THEN fan.gdim = 1 ELSE fan.sides[e[1]].gid = g
met_edges_all(g) == SelectSeq(met_edges, LAMBDA e : accepted(e, g))
\* upper_edges: without duplicates, at most two.
upper_edges(g) ==
    FoldLeft(LAMBDA found, e : IF e \in ToSet(found) THEN found ELSE Append(found, e),
             <<>>, met_edges_all(g))
tangent(s, e) ==
    IF e = <<s, "first">> THEN 0 ELSE fan.sides[s].span

\* The sort of the code: x is swapped forward unless it already precedes y.
sort_by(ids, precedes(_, _)) ==
    LET n == Len(ids)
        swap(f, i, j) == [f EXCEPT ![i] = f[j], ![j] = f[i]]
        pairs == FlattenSeq([i \in 1..n |-> [j \in 1..(n - i + 1) |-> <<i, i + j - 1>>]]) IN
    FoldLeft(LAMBDA f, ij : IF precedes(f[ij[1]], f[ij[2]]) THEN f ELSE swap(f, ij[1], ij[2]),
             ids, pairs)

\* theta_c for candidate k of n, and its direction.  When the upper edges are opposite
\* the code rotates about a coordinate axis, one way and then the other.
theta_c(k, n, t0, t1) == (k * Between(t0, t1)) \div (n + 1)
hand_calc(t0, theta, d) ==
    LET X == Shift(t0, fan.axis * theta) IN
    IF ~fan.aligned THEN NaN
    ELSE IF points_away(X, d) THEN Shift(t0, -(fan.axis * theta)) ELSE X
cand_tangent(k, n, t0, t1, d) ==
    IF Between(t0, t1) = Half
    THEN hand_calc(t0, theta_c(k, n, t0, t1), d)
    ELSE Shift(t0, ShortWay(t0, t1) * theta_c(k, n, t0, t1))
concave_upper(t0, t1, d) == points_away(Average(t0, t1), d)
cand_c(k, n, t0, t1, d) ==
    LET t == cand_tangent(k, n, t0, t1, d) IN
    IF t # NaN /\ concave_upper(t0, t1, d) THEN Opposite(t) ELSE t
sorted_cands(n, t0, t1, d) ==
    LET ids == [k \in 1..n |-> k]
        angle(k) == Between(t0, cand_c(k, n, t0, t1, d)) IN
    IF concave_upper(t0, t1, d) THEN sort_by(ids, LAMBDA j, k : angle(j) < angle(k)) ELSE ids
sorted_prods(p, t1) ==
    sort_by(SetToSortSeq(SameFace(p), LAMBDA q, r : q[2] < r[2]),
            LAMBDA q, r : Between(t1, dir(q)) > Between(t1, dir(r)))
\* opt_cand_id
rank_of(p, t1) == CHOOSE k \in 1..nedge_shared_gface[p] : sorted_prods(p, t1)[k] = p
c_upper_bdry(p, up) ==
    LET n == nedge_shared_gface[p]
        t0 == tangent(p[1], up[1])
        t1 == tangent(p[1], up[2]) IN
    IF n = 1 THEN flip_if_away(Average(t0, t1), dir(p))
    ELSE cand_c(sorted_cands(n, t0, t1, dir(p))[rank_of(p, t1)], n, t0, t1, dir(p))

\* At v_lower, the direction to v_onto is 0 and the two old edges of the face are at
\* left and -right; the degenerate corner is again rotated by hand.
lower_tangents ==
    LET both == <<Shift(0, corner.left), Shift(0, -corner.right)>> IN
    IF corner.reversed THEN Reverse(both) ELSE both
t_lower ==
    LET l == lower_tangents IN
    IF Between(l[1], l[2]) = Half THEN hand_calc(l[1], 90 * Degree, 0) ELSE Average(l[1], l[2])
c_lower_bdry == flip_if_away(t_lower, 0)

\* The slot of a control point follows the end it is near.
slots_bdry(p, up) ==
    LET near_onto == [end |-> "onto", dir |-> c_upper_bdry(p, up)]
        near_lower == [end |-> "lower", dir |-> c_lower_bdry] IN
    IF onto_first THEN <<near_onto, near_lower>> ELSE <<near_lower, near_onto>>

\* A product on a geometric edge: the quadratic curve that passes through v_key at xi_1
\* = d1 / (d1 + d2), raised to a cubic.  Points are scaled by 6 * d1 * d2.
Distance(p, q) ==
    LET abs(x) == IF x < 0 THEN -x ELSE x IN abs(p[1] - q[1]) + abs(p[2] - q[2])
d1 == Distance(curve.p, curve.c0)
d2 == Distance(curve.p, curve.c3)
old_c1(j) ==
    (((d1 + d2) * (d1 + d2)) * curve.p[j] - (d2 * d2) * curve.c0[j] - (d1 * d1) * curve.c3[j])
gedge_points ==
    [k \in 1..2 |-> [j \in 1..2 |->
        2 * old_c1(j) + ((2 * d1) * d2) * (IF k = 1 THEN curve.c0[j] ELSE curve.c3[j])]]

-----------------------------------------------------------------------------
FanInit ==
    /\ fan \in FanCavities
    /\ corner \in Corners
    /\ onto_first \in BOOLEAN
    /\ curve \in Curves
    /\ nedge_shared_gface = <<>>
    /\ prods_left = {}
    /\ fan_ctrlPts = <<>>
    /\ gedge_ctrlPts = <<>>
    /\ failed = FALSE

\* calc_gface_prods
CalcGfaceProds ==
    /\ nedge_shared_gface = <<>>
    /\ nedge_shared_gface' = [p \in Prods |-> Cardinality(SameFace(p))]
    /\ prods_left' = Prods
    /\ UNCHANGED <<fanInput, fan_ctrlPts, gedge_ctrlPts, failed>>

\* curve_bdry_edges on a product on a geometric face
CurveOnFace(p) ==
    LET up == upper_edges(gid(p)) IN
    /\ ~failed
    /\ p \in prods_left
    /\ prods_left' = prods_left \ {p}
    /\ IF Len(up) > 2
       THEN failed' = TRUE /\ UNCHANGED fan_ctrlPts
       ELSE failed' = failed /\ fan_ctrlPts' = (p :> slots_bdry(p, up)) @@ fan_ctrlPts
    /\ UNCHANGED <<fanInput, nedge_shared_gface, gedge_ctrlPts>>

\* curve_bdry_edges on the product on the geometric edge
CurveOnEdge ==
    /\ ~failed
    /\ fan.gdim = 1
    /\ nedge_shared_gface # <<>>
    /\ gedge_ctrlPts = <<>>
    /\ gedge_ctrlPts' = gedge_points
    /\ UNCHANGED <<fanInput, nedge_shared_gface, prods_left, fan_ctrlPts, failed>>

FanNext == CalcGfaceProds \/ (\E p \in Prods : CurveOnFace(p)) \/ CurveOnEdge

FanSpec == FanInit /\ [][FanNext]_vars

-----------------------------------------------------------------------------
\* Properties.

Curved == DOMAIN fan_ctrlPts
slot(p, end) == SelectSeq(fan_ctrlPts[p], LAMBDA c : c.end = end)[1].dir
span(p) == fan.sides[p[1]].span

\* Within the side, and in the order of the products' far ends.
Uncrossed(p, q) ==
    /\ slot(p, "onto") \in 1..(span(p) - 1)
    /\ (p[1] = q[1] /\ p[2] < q[2]) => slot(p, "onto") < slot(q, "onto")
\* No product lies more than a half turn from an upper edge of its side.
AllFaced(p) == \A q \in SameFace(p) : dir(q) <= Half /\ span(q) - dir(q) <= Half
\* The side does not look straight to the test of concavity (80 degrees on either side).
ClearlyBent(p) == span(p) <= 160 * Degree \/ span(p) > Half

(***************************************************************************)
(* The edges of a fan leave v_onto inside the fan and in the order of      *)
(* their other ends, in a convex and in a reflex fan, whichever upper edge *)
(* is found first (curve_coarsen.hpp 475-820).                             *)
(***************************************************************************)
FansUncrossed ==
    \A p, q \in Curved : (AllFaced(p) /\ ClearlyBent(p)) => Uncrossed(p, q)

(***************************************************************************)
(* The same of every convex fan with upper edges less than 180 degrees     *)
(* apart, those just under 180 degrees included.                           *)
(***************************************************************************)
ConvexFansUncrossed ==
    \A p, q \in Curved : span(p) < Half => Uncrossed(p, q)

(***************************************************************************)
(* At its other end too, a new edge leaves inside the corner of the face   *)
(* it lies on, unless the corner is so lopsided that the middle of it is   *)
(* more than 80 degrees off the edge (curve_coarsen.hpp 822-1076).         *)
(***************************************************************************)
LowerInCorner ==
    \A p \in Curved :
        (corner.left - corner.right \in (-160 * Degree)..(160 * Degree)) =>
            \/ slot(p, "lower") \in 0..(corner.left - 1)
            \/ slot(p, "lower") \in (Turn - corner.right + 1)..Turn

(***************************************************************************)
(* The control point stored next to the first vertex of a new edge is the  *)
(* one computed at that vertex (curve_coarsen.hpp 1078-1088).              *)
(***************************************************************************)
BdrySlotsFollowEnds ==
    \A p \in Curved : (fan_ctrlPts[p][1].end = "onto") = onto_first

(***************************************************************************)
(* The curve that replaces two edges of a geometric edge still passes      *)
(* through the removed vertex (curve_coarsen.hpp 281-308): its point at    *)
(* parameter d1/s, scaled by 6 d1 d2 s^3, is that vertex.                  *)
(***************************************************************************)
ThroughRemovedVertex ==
    gedge_ctrlPts # <<>> =>
        \A j \in 1..2 :
            LET a == Distance(curve.p, curve.c0)
                b == Distance(curve.p, curve.c3)
                s == a + b
                m == (6 * a) * b IN
            (((b * b) * b) * m) * curve.c0[j]
              + ((3 * b) * (b * a)) * gedge_ctrlPts[1][j]
              + ((3 * b) * (a * a)) * gedge_ctrlPts[2][j]
              + (((a * a) * a) * m) * curve.c3[j] = (((s * s) * s) * m) * curve.p[j]

(***************************************************************************)
(* A geometric face has at most two upper edges (OMEGA_H_CHECK at          *)
(* curve_coarsen.hpp 376), unless it lies on both sides of the geometric   *)
(* edge the vertex is on: then it has three, and no edge on it is curved.  *)
(***************************************************************************)
OnSeam == fan.gdim = 1 /\ fan.sides[1].gid = fan.sides[2].gid
UpperEdgesAreTwo == IF OnSeam THEN Curved = {} ELSE ~failed

(***************************************************************************)
(* A control point is a point also when the two upper edges are opposite,  *)
(* the case the code computes by hand (curve_coarsen.hpp 585).             *)
(***************************************************************************)
DirectionsDefined ==
    fan.aligned => \A p \in Curved : slot(p, "onto") # NaN /\ slot(p, "lower") # NaN
=============================================================================
