------------------------------- MODULE Bezier -------------------------------
(***************************************************************************)
(* Bezier curves, triangles and tetrahedra of a curved mesh                *)
(* (Omega_h_beziers.hpp, Omega_h_beziers.cpp, Omega_h_bezier_interp.hpp),  *)
(* and the straight meshes they are drawn with (Omega_h_build.cpp).        *)
(*                                                                         *)
(* A control point is a name: <<"v", v, 1>> for a vertex, <<"e", e, k>>    *)
(* and <<"f", f, k>> for the k-th one stored for an edge or a face.  A     *)
(* parameter is a tuple of whole numbers: the barycentric coordinates      *)
(* times their sum N.  A shape of order P, at a parameter, is a set of     *)
(* pairs of a control point and its weight, times N^P; a shape is known    *)
(* when it is known for all parameters of sum P.                           *)
(***************************************************************************)
EXTENDS RefElem, FiniteSets, FiniteSetsExt, SequencesExt

\* std::pow with a whole exponent, which is 1 for 0 to the 0.
pow(x, n) == IF n = 0 THEN 1 ELSE x ^ n

\* Rows 4 to 33, from the entry for 2 on.
bnTable == <<
    <<6>>,
    <<10>>,
    <<15, 20>>,
    <<21, 35>>,
    <<28, 56, 70>>,
    <<36, 84, 126>>,
    <<45, 120, 210, 252>>,
    <<55, 165, 330, 462>>,
    <<66, 220, 495, 792, 924>>,
    <<78, 286, 715, 1287, 1716>>,
    <<91, 364, 1001, 2002, 3003, 3432>>,
    <<105, 455, 1365, 3003, 5005, 6435>>,
    <<120, 560, 1820, 4368, 8008, 11440, 12870>>,
    <<136, 680, 2380, 6188, 12376, 19448, 24310>>,
    <<153, 816, 3060, 8568, 18564, 31824, 43758, 48620>>,
    <<171, 969, 3876, 11628, 27132, 50388, 75582, 92378>>,
    <<190, 1140, 4845, 15504, 38760, 77520, 125970, 167960, 184756>>,
    <<210, 1330, 5985, 20349, 54264, 116280, 203490, 293930, 352716>>,
    <<231, 1540, 7315, 26334, 74613, 170544, 319770, 497420, 646646, 705432>>,
    <<253, 1771, 8855, 33649, 100947, 245157, 490314, 817190, 1144066, 1352078>>,
    <<276, 2024, 10626, 42504, 134596, 346104, 735471, 1307504, 1961256, 2496144, 2704156>>,
    <<300, 2300, 12650, 53130, 177100, 480700, 1081575, 2042975, 3268760, 4457400, 5200300>>,
    <<325, 2600, 14950, 65780, 230230, 657800, 1562275, 3124550, 5311735, 7726160, 9657700,
      10400600>>,
    <<351, 2925, 17550, 80730, 296010, 888030, 2220075, 4686825, 8436285, 13037895, 17383860,
      20058300>>,
    <<378, 3276, 20475, 98280, 376740, 1184040, 3108105, 6906900, 13123110, 21474180, 30421755,
      37442160, 40116600>>,
    <<406, 3654, 23751, 118755, 475020, 1560780, 4292145, 10015005, 20030010, 34597290, 51895935,
      67863915, 77558760>>,
    <<435, 4060, 27405, 142506, 593775, 2035800, 5852925, 14307150, 30045015, 54627300, 86493225,
      119759850, 145422675, 155117520>>,
    <<465, 4495, 31465, 169911, 736281, 2629575, 7888725, 20160075, 44352165, 84672315,
      141120525, 206253075, 265182525, 300540195>>,
    <<496, 4960, 35960, 201376, 906192, 3365856, 10518300, 28048800, 64512240, 129024480,
      225792840, 347373600, 471435600, 565722720, 601080390>>,
    <<528, 5456, 40920, 237336, 1107568, 4272048, 13884156, 38567100, 92561040, 193536720,
      354817320, 573166440, 818809200, 1037158320, 1166803110>>>>

binomial(n, j) ==
    LET i == IF n - j < j THEN n - j ELSE j IN
    CASE i = 0 -> 1 [] i = 1 -> n [] OTHER -> bnTable[n - 3][i - 1]

trinomial(n, i, j) == binomial(n, i) * binomial(n - i, j)

quadnomial(n, i, j, k) == binomial(n, i) * binomial(n - i, j) * binomial(n - i - j, k)

const_factorial(n) == <<1, 1, 2, 6, 24, 120, 720, 5040, 40320, 362880, 3628800>>[n + 1]

\* Bernstein polynomials.  The exponents x belong to the vertices after the
\* first, whose exponent is what is left of P; a is a parameter.
Bi(P, x, a) ==
    (const_factorial(P) * pow(a[2], x[1]) * pow(a[1], P - x[1]))
        \div (const_factorial(x[1]) * const_factorial(P - x[1]))

Bij(P, x, a) ==
    LET k == P - x[1] - x[2] IN
    (const_factorial(P) * pow(a[2], x[1]) * pow(a[3], x[2]) * pow(a[1], k))
        \div (const_factorial(x[1]) * const_factorial(x[2]) * const_factorial(k))

Bijk(P, x, a) ==
    LET l == P - x[1] - x[2] - x[3] IN
    (const_factorial(P) * pow(a[2], x[1]) * pow(a[3], x[2]) * pow(a[4], x[3]) * pow(a[1], l))
        \div (const_factorial(x[1]) * const_factorial(x[2]) * const_factorial(x[3]) * const_factorial(l))

\* The named polynomials, as coefficient and exponents of the vertices after
\* the first: B1_cube is curve_basis[3][2], B21_quart is face_basis[4][<<2, 1>>].
curve_basis == [P \in 2..4 |->
    CASE P = 2 -> <<1, 2, 1>> [] P = 3 -> <<1, 3, 3, 1>> [] P = 4 -> <<1, 4, 6, 4, 1>>]

face_basis == [P \in 2..4 |->
    LET rows == CASE P = 2 -> <<<<1, 2, 1>>, <<2, 2>>, <<1>>>>
                  [] P = 3 -> <<<<1, 3, 3, 1>>, <<3, 6, 3>>, <<3, 3>>, <<1>>>>
                  [] P = 4 -> <<<<1, 4, 6, 4, 1>>, <<4, 12, 12, 4>>, <<6, 12, 6>>, <<4, 4>>, <<1>>>> IN
    [x \in {y \in (0..P) \X (0..P) : y[1] + y[2] <= P} |-> rows[x[2] + 1][x[1] + 1]]]

n_internal_ctrlPts(edim, P) ==
    CASE edim = 0 -> 1
      [] edim = 1 -> P - 1
      [] edim = 2 -> ((P - 1) * (P - 2)) \div 2
      [] edim = 3 -> ((P - 1) * (P - 2) * (P - 3)) \div 6

n_total_ctrlPts(edim, P) ==
    CASE edim = 0 -> 1
      [] edim = 1 -> P + 1
      [] edim = 2 -> ((P + 1) * (P + 2)) \div 2
      [] edim = 3 -> ((P + 1) * (P + 2) * (P + 3)) \div 6

-----------------------------------------------------------------------------
(***************************************************************************)
(* Control points of an entity, taken from the mesh.  A mesh is a record   *)
(* of the arrays ev2v, fv2v, fe2e, rv2v, re2e, rf2f, as functions from     *)
(* entities to tuples.                                                     *)
(***************************************************************************)
vert_pt(v) == <<"v", v, 1>>
stored(e, P) == [k \in 1..(P - 1) |-> <<"e", e, k>>]

edge_is_flip(ev, v0, v1) == ev = <<v1, v0>>

\* What the function asserts of an edge it takes as not flipped.
edge_fits(ev, v0, v1) == ev \in {<<v0, v1>>, <<v1, v0>>}

\* The sides of a triangle run from each of its vertices to the next.
calc_edge_flips(m, f) ==
    [k \in 1..3 |-> edge_is_flip(m.ev2v[m.fe2e[f][k]], m.fv2v[f][k], m.fv2v[f][(k % 3) + 1])]

\* The sides of a tetrahedron, each from which vertex to which.
tet_side(m, r, k) ==
    LET ends == simplex_down_template(3, 1)[k] IN
    <<m.rv2v[r][ends[1] + 1], m.rv2v[r][ends[2] + 1]>>

turned(pts, flip) == IF flip THEN Reverse(pts) ELSE pts

curve_net(m, e, P) ==
    [x \in {<<i>> : i \in 0..P} |->
        IF x[1] = 0 THEN vert_pt(m.ev2v[e][1])
        ELSE IF x[1] = P THEN vert_pt(m.ev2v[e][2])
        ELSE stored(e, P)[x[1]]]

\* Exponents by which the code names the points: c21 stands before u^2 v.
face_exponents(P) == {x \in (0..P) \X (0..P) : x[1] + x[2] <= P}

face_net(m, f, P) ==
    LET v == m.fv2v[f]
        e == m.fe2e[f]
        flip == calc_edge_flips(m, f)
        side == [k \in 1..3 |-> turned(stored(e[k], P), flip[k])]
        inside == SetToSortSeq({x \in face_exponents(P) : x[1] > 0 /\ x[2] > 0 /\ x[1] + x[2] < P},
                    LAMBDA x, y : x[2] < y[2] \/ (x[2] = y[2] /\ x[1] < y[1])) IN
    [x \in face_exponents(P) |->
        CASE x = <<0, 0>> -> vert_pt(v[1])
          [] x = <<P, 0>> -> vert_pt(v[2])
          [] x = <<0, P>> -> vert_pt(v[3])
          [] x[2] = 0 /\ x[1] \in 1..(P - 1) -> side[1][x[1]]
          [] x[1] + x[2] = P /\ x[2] \in 1..(P - 1) -> side[2][x[2]]
          [] x[1] = 0 /\ x[2] \in 1..(P - 1) -> side[3][P - x[2]]
          [] OTHER -> <<"f", f, CHOOSE k \in DOMAIN inside : inside[k] = x>>]

tet_exponents(P) == {x \in (0..P) \X (0..P) \X (0..P) : x[1] + x[2] + x[3] <= P}

\* The exponents along each side, and those of the points of the four faces.
side_exponents(P, k) ==
    <<<<k, 0, 0>>, <<P - k, k, 0>>, <<0, P - k, 0>>, <<0, 0, k>>, <<P - k, 0, k>>, <<0, P - k, k>>>>
tet_faces == <<<<1, 1, 0>>, <<1, 0, 1>>, <<1, 1, 1>>, <<0, 1, 1>>>>

rgn_net(m, r, P) ==
    LET v == m.rv2v[r]
        side == [k \in 1..6 |->
            LET ends == tet_side(m, r, k) IN
            turned(stored(m.re2e[r][k], P), edge_is_flip(m.ev2v[m.re2e[r][k]], ends[1], ends[2]))] IN
    [x \in tet_exponents(P) |->
        CASE x = <<0, 0, 0>> -> vert_pt(v[1])
          [] x = <<P, 0, 0>> -> vert_pt(v[2])
          [] x = <<0, P, 0>> -> vert_pt(v[3])
          [] x = <<0, 0, P>> -> vert_pt(v[4])
          [] \E s \in 1..6, k \in 1..(P - 1) : x = side_exponents(P, k)[s] ->
                LET sk == CHOOSE y \in (1..6) \X (1..(P - 1)) : x = side_exponents(P, y[2])[y[1]] IN
                side[sk[1]][sk[2]]
          [] OTHER -> <<"f", m.rf2f[r][CHOOSE k \in 1..4 : tet_faces[k] = x], 1>>]

\* The points of a net with the weights a basis gives them, those without
\* weight left out.
shape(net, B(_, _, _), P, a) == {t \in {<<net[x], B(P, x, a)>> : x \in DOMAIN net} : t[2] # 0}

curve_paramToParent_3d(m, e, a) == shape(curve_net(m, e, 3), Bi, 3, a)

face_parametricToParent_2d(m, f, a) == shape(face_net(m, f, 3), Bij, 3, a)
face_parametricToParent_2d_h(m, f, a) == shape(face_net(m, f, 3), Bij, 3, a)
face_parametricToParent_3d(m, f, a) == shape(face_net(m, f, 3), Bij, 3, a)

\* A quadratic side has one point and no direction.
face_parametricToParent_3d_p2(m, f, a) == shape(face_net(m, f, 2), Bij, 2, a)

rgn_parametricToParent_3d(m, r, a) == shape(rgn_net(m, r, 3), Bijk, 3, a)
rgn_parametricToParent_3d_h(m, r, a) == shape(rgn_net(m, r, 3), Bijk, 3, a)
rgn_parametricToParent_3dp2(m, r, a) == shape(rgn_net(m, r, 2), Bijk, 2, a)
rgn_parametricToParent_3dp2_h(m, r, a) == shape(rgn_net(m, r, 2), Bijk, 2, a)

\* The control point of a face from its middle p11, the other points given:
\* numerators over Bij(3, <<1, 1>>, third), p11 having the weight 27.
third == <<1, 1, 1>>
face_interpToCtrlPt_3d(m, f) ==
    {<<<<"p", f, 1>>, 27>>} \union
    {<<face_net(m, f, 3)[x], -Bij(3, x, third)>> : x \in face_exponents(3) \ {<<1, 1>>}}
face_interpToCtrlPt_2d(m, f) == face_interpToCtrlPt_3d(m, f)

\* A face whose inner point is not known, with the weights given for the other
\* nine in the order vertices, first side, second, third.
blend_order == <<<<0, 0>>, <<3, 0>>, <<0, 3>>, <<1, 0>>, <<2, 0>>, <<2, 1>>, <<1, 2>>, <<0, 2>>, <<0, 1>>>>
face_blend_interp_3d(m, f, weights) ==
    {<<face_net(m, f, 3)[blend_order[k]], weights[k]>> : k \in 1..9}

-----------------------------------------------------------------------------
(***************************************************************************)
(* Drawing: a curve is drawn by n points, a face by a triangular grid of   *)
(* n points a side.                                                        *)
(***************************************************************************)
named_curve(P, x, a) == curve_basis[P][x[1] + 1] * pow(a[2], x[1]) * pow(a[1], P - x[1])

named_face(P, x, a) ==
    face_basis[P][x] * pow(a[2], x[1]) * pow(a[3], x[2]) * pow(a[1], P - x[1] - x[2])

\* Every edge has its own points; each inner point ends one piece and begins
\* the next.
wireframe(m, edges, P, n) ==
    [coords |-> FlattenSeq([i \in DOMAIN edges |-> [k \in 1..n |->
        shape(curve_net(m, edges[i], P), named_curve, P, <<n - k, k - 1>>)]]),
     ev2v |-> FlattenSeq([i \in DOMAIN edges |-> [k \in 1..(n - 1) |-> <<n * (i - 1) + k - 1, n * (i - 1) + k>>]])]

build_quadratic_wireframe_2d(m, edges, n) == wireframe(m, edges, 2, n)
build_quadratic_wireframe_3d(m, edges, n) == wireframe(m, edges, 2, n)
build_cubic_wireframe_2d(m, edges, n) == wireframe(m, edges, 3, n)
build_cubic_wireframe_3d(m, edges, n) == wireframe(m, edges, 3, n)
build_quartic_wireframe(m, edges, n) == wireframe(m, edges, 4, n)

\* The grid, row by row; row i is one shorter than the row before.
grid(n) == FlattenSeq([i \in 1..n |-> [j \in 1..(n - i + 1) |-> <<i - 1, j - 1>>]])

\* The triangles added with the point of number c.
grid_triangles(n, c) ==
    LET i == grid(n)[c + 1][1]
        j == grid(n)[c + 1][2] IN
    IF i < n - 1 /\ j < n - i - 1
    THEN <<<<c, c + n - i, c + 1>>>> \o (IF i > 0 THEN <<<<c, c + 1, c + 1 - (n - (i - 1))>>>> ELSE <<>>)
    ELSE <<>>

curveVtk(m, faces, P, n) ==
    LET perTri == Len(grid(n))
        shifted(t, by) == <<t[1] + by, t[2] + by, t[3] + by>> IN
    [coords |-> FlattenSeq([g \in DOMAIN faces |-> [c \in 1..perTri |->
        LET x == grid(n)[c] IN
        shape(face_net(m, faces[g], P), named_face, P, <<n - 1 - x[1] - x[2], x[1], x[2]>>)]]),
     fv2v |-> FlattenSeq([g \in DOMAIN faces |-> FlattenSeq([c \in 1..perTri |->
        LET ts == grid_triangles(n, c - 1) IN [t \in DOMAIN ts |-> shifted(ts[t], (g - 1) * perTri)]])])]

build_quadratic_curveVtk_3d(m, faces, n) == curveVtk(m, faces, 2, n)
build_cubic_curveVtk_2d(m, faces, n) == curveVtk(m, faces, 3, n)
build_cubic_curveVtk_3d(m, faces, n) == curveVtk(m, faces, 3, n)
build_quartic_curveVtk(m, faces, n) == curveVtk(m, faces, 4, n)

\* Only the faces marked for it (the tag face_crvVis).
build_cubic_cavities_3d(m, faces, crvVis, n) ==
    curveVtk(m, SelectSeq(faces, LAMBDA f : f \in crvVis), 3, n)

-----------------------------------------------------------------------------
(* Whether a curved triangle or tetrahedron is turned inside out anywhere   *)
(* (Omega_h_curve_validity_2d.cpp, Omega_h_curve_validity_3d.hpp, the end   *)
(* of Omega_h_beziers.hpp): the Bezier coefficients of its Jacobian         *)
(* determinant are computed and looked at.  Coordinates are whole numbers,  *)
(* and a coefficient is kept without the positive factor d^n / CD the code  *)
(* gives it, which changes no sign.                                         *)

minus(p, q) == [k \in DOMAIN p |-> p[k] - q[k]]
cross2(p, q) == p[1] * q[2] - p[2] * q[1]
triple(p, q, r) ==
    (p[2] * q[3] - p[3] * q[2]) * r[1] + (p[3] * q[1] - p[1] * q[3]) * r[2] + (p[1] * q[2] - p[2] * q[1]) * r[3]

\* Where the point with the powers i, j of the first and second vertex is
\* stored, among the points of an element of order P.
computeTriNodeIndex(P, i, j) ==
    LET k == P - i - j IN
    CASE i = P -> 0
      [] j = P -> 1
      [] k = P -> 2
      [] k = 0 -> 2 + j
      [] i = 0 -> 2 + (P - 1) + k
      [] j = 0 -> 2 + (P - 1) * 2 + i
      [] OTHER -> (k * (P - 1)) - ((k * (k - 1)) \div 2) + j + 2 * P

computeTetNodeIndex(P, i, j, k) ==
    LET l == P - i - j - k
        half(n) == (n * (n - 1)) \div 2 IN
    CASE i = P -> 0
      [] j = P -> 1
      [] k = P -> 2
      [] l = P -> 3
      [] k = 0 /\ l = 0 -> 3 + j
      [] i = 0 /\ l = 0 -> 3 + (P - 1) + k
      [] j = 0 /\ l = 0 -> 3 + 2 * (P - 1) + i
      [] j = 0 /\ k = 0 -> 3 + 3 * (P - 1) + l
      [] i = 0 /\ k = 0 -> 3 + 4 * (P - 1) + l
      [] i = 0 /\ j = 0 -> 3 + 5 * (P - 1) + l
      [] l = 0 -> k * (P - 1) - half(k) + j + 5 * P - 2
      [] k = 0 -> l * (P - 1) - half(l) + j + 5 * P - 2 + ((P - 2) * (P - 1)) \div 2
      [] i = 0 -> l * (P - 1) - half(l) + k + 5 * P - 2 + (P - 2) * (P - 1)
      [] j = 0 -> l * (P - 1) - half(l) + k + 5 * P - 2 + ((P - 2) * (P - 1) * 3) \div 2
      [] OTHER -> i - P - ((i - P + 1) * (i - P + 2) * (i - P + 3)) \div 6
                    + l * (P - 1 - i) - half(l) + k + 2 * P * P + 2

getTriPartialJacobianDet(nodes, P, i1, j1, i2, j2) ==
    cross2(minus(nodes[computeTriNodeIndex(P, i1, j1 + 1)], nodes[computeTriNodeIndex(P, i1 + 1, j1)]),
           minus(nodes[computeTriNodeIndex(P, i2, j2)], nodes[computeTriNodeIndex(P, i2 + 1, j2)]))

\* The limits of the loop over i1, for each j1.
Nijk_range(d, I, J) ==
    {x \in (0..I) \X (0..J) :
        LET lo == I + J - x[2] - (d - 1) IN x[1] >= lo /\ x[1] <= d - 1 - x[2]}

Nijk(nodes, d, I, J) ==
    MapThenSumSet(
        LAMBDA x : trinomial(d - 1, x[1], x[2]) * trinomial(d - 1, I - x[1], J - x[2])
                     * getTriPartialJacobianDet(nodes, d, x[1], x[2], I - x[1], J - x[2]),
        Nijk_range(d, I, J))

tri_powers(P) == {x \in (0..P) \X (0..P) : x[1] + x[2] <= P}
tet_powers(P) == {x \in (0..P) \X (0..P) \X (0..P) : x[1] + x[2] + x[3] <= P}

getTriJacDetNodes(P, nodes) ==
    LET D == 2 * (P - 1) IN
    [n \in 0..(n_total_ctrlPts(2, D) - 1) |->
        LET x == CHOOSE x \in tri_powers(D) : computeTriNodeIndex(D, x[1], x[2]) = n IN
        Nijk(nodes, P, x[1], x[2])]

\* The first group of coefficients with a negative one: 2, 3, 4 for a vertex,
\* 8, 9, 10 for an edge, 14 for the inside; -1 when there is none.
checkMinJacDet(nodes, order) ==
    LET perEdge == 2 * (order - 1) - 1
        bad(a, b) == \E n \in a..b : nodes[n] < 0
        atVertex(k) == nodes[k] < 0
        onEdge(k) == bad(3 + k * perEdge, 3 + (k + 1) * perEdge - 1) IN
    IF \E k \in 0..2 : atVertex(k) THEN 2 + (CHOOSE k \in 0..2 : atVertex(k) /\ \A j \in 0..(k - 1) : ~atVertex(j))
    ELSE IF \E k \in 0..2 : onEdge(k) THEN 8 + (CHOOSE k \in 0..2 : onEdge(k) /\ \A j \in 0..(k - 1) : ~onEdge(j))
    ELSE IF bad(6 * (order - 1), 6 * (order - 1) + ((2 * order - 3) * (2 * order - 4)) \div 2 - 1) THEN 14
    ELSE -1

\* The names of a triangle's points, in the order of their nodes.
tri_pts(m, f, P) ==
    LET flip == calc_edge_flips(m, f)
        names == [k \in 1..3 |-> vert_pt(m.fv2v[f][k])]
                 \o FlattenSeq([k \in 1..3 |-> turned(stored(m.fe2e[f][k], P), flip[k])])
                 \o [k \in 1..n_internal_ctrlPts(2, P) |-> <<"f", f, k>>] IN
    [n \in 0..(Len(names) - 1) |-> names[n + 1]]

tri_dets(m, at, f, P) ==
    LET names == tri_pts(m, f, P) IN
    getTriJacDetNodes(P, [n \in DOMAIN names |-> at[names[n]]])

checkValidity_2d(m, at, f, P) == IF P >= 3 THEN checkMinJacDet(tri_dets(m, at, f, P), P) ELSE -1

\* The smallest and the largest of the coefficients, of those at the corners.
calcMinMaxJacDet(dets, corners) ==
    LET values == {dets[n] : n \in 0..(corners - 1)} IN <<Min(values), Max(values)>>

\* The quality as the ratio of two coefficients; none when the code leaves
\* the value the array was filled with.
askQuality_2d(m, at, f, P) == <<>>
askWorstQuality_2d(m, at, f, P) == calcMinMaxJacDet(tri_dets(m, at, f, P), 3)

-----------------------------------------------------------------------------
getTetPartialJacobianDet(nodes, P, a, b, c) ==
    LET node(x, i, j, k) == nodes[computeTetNodeIndex(P, x[1] + i, x[2] + j, x[3] + k)] IN
    triple(minus(node(a, 0, 1, 0), node(a, 1, 0, 0)),
           minus(node(b, 0, 0, 1), node(b, 1, 0, 0)),
           minus(node(c, 0, 0, 0), node(c, 1, 0, 0)))

\* The loops' limits leave the triples of powers of order d - 1 with the sum
\* <<I, J, K>>.
Nijkl_range(d, I, J, K) ==
    {t \in tet_powers(d - 1) \X tet_powers(d - 1) :
        LET r == <<I - t[1][1] - t[2][1], J - t[1][2] - t[2][2], K - t[1][3] - t[2][3]>> IN
        r[1] >= 0 /\ r[2] >= 0 /\ r[3] >= 0 /\ r[1] + r[2] + r[3] <= d - 1}

Nijkl(nodes, d, I, J, K) ==
    MapThenSumSet(
        LAMBDA t : LET r == <<I - t[1][1] - t[2][1], J - t[1][2] - t[2][2], K - t[1][3] - t[2][3]>>
                       q(x) == quadnomial(d - 1, x[1], x[2], x[3]) IN
                   q(t[1]) * q(t[2]) * q(r) * getTetPartialJacobianDet(nodes, d, t[1], t[2], r),
        Nijkl_range(d, I, J, K))

getTetJacDetNodes(P, nodes) ==
    LET D == 3 * (P - 1) IN
    [n \in {computeTetNodeIndex(D, x[1], x[2], x[3]) : x \in tet_powers(D)} |->
        LET x == CHOOSE x \in tet_powers(D) : computeTetNodeIndex(D, x[1], x[2], x[3]) = n IN
        Nijkl(nodes, P, x[1], x[2], x[3])]

checkMinJacDet_3d(nodes, order, verts_only) ==
    LET perEdge == 3 * (order - 1) - 1
        perFace == ((3 * order - 4) * (3 * order - 5)) \div 2
        inside == ((3 * order - 4) * (3 * order - 5) * (3 * order - 6)) \div 6
        bad(a, n) == \E i \in a..(a + n - 1) : nodes[i] < 0
        atVertex(k) == nodes[k] < 0
        onEdge(k) == bad(4 + k * perEdge, perEdge)
        onFace(k) == bad(18 * order - 20 + k * perFace, perFace) IN
    IF \E k \in 0..3 : atVertex(k) THEN 2 + (CHOOSE k \in 0..3 : atVertex(k) /\ \A j \in 0..(k - 1) : ~atVertex(j))
    ELSE IF verts_only THEN -1
    ELSE IF \E k \in 0..5 : onEdge(k) THEN 8 + (CHOOSE k \in 0..5 : onEdge(k) /\ \A j \in 0..(k - 1) : ~onEdge(j))
    ELSE IF \E k \in 0..3 : onFace(k) THEN 14 + (CHOOSE k \in 0..3 : onFace(k) /\ \A j \in 0..(k - 1) : ~onFace(j))
    ELSE IF bad(18 * order * order - 36 * order + 20, inside) THEN 20
    ELSE -1

\* The names of a cubic tetrahedron's points, in the order they are collected
\* in; a name says the powers of the second, third and fourth vertex.
collected == <<
    <<0, 0, 0>>, <<3, 0, 0>>, <<0, 3, 0>>, <<0, 0, 3>>,
    <<1, 0, 0>>, <<2, 0, 0>>, <<2, 1, 0>>, <<1, 2, 0>>, <<0, 2, 0>>, <<0, 1, 0>>,
    <<0, 0, 1>>, <<0, 0, 2>>, <<2, 0, 1>>, <<1, 0, 2>>, <<0, 1, 2>>, <<0, 2, 1>>,
    <<1, 1, 0>>, <<1, 0, 1>>, <<1, 1, 1>>, <<0, 1, 1>>>>

collect_tet_pts(m, r) ==
    LET net == rgn_net(m, r, 3) IN [n \in 0..19 |-> net[collected[n + 1]]]

tet_dets(m, at, r) ==
    LET names == collect_tet_pts(m, r) IN
    getTetJacDetNodes(3, [n \in 0..19 |-> at[names[n]]])

checkValidity_3d(m, at, r) == checkMinJacDet_3d(tet_dets(m, at, r), 3, TRUE)

\* The tag "invalidity" of every tetrahedron.
check_validity_all_tet(m, at, tets) == [r \in tets |-> checkMinJacDet_3d(tet_dets(m, at, r), 3, TRUE)]

\* What is reported of an edge: its first tetrahedron that is invalid anywhere,
\* looked for on edges curved to the boundary, or of a dual cone.
correct_curved_edges(m, at, er2r, crv2bdry_dim, e) ==
    IF crv2bdry_dim[e] >= 1
    THEN SelectSeq([k \in DOMAIN er2r[e] |-> checkMinJacDet_3d(tet_dets(m, at, er2r[e][k]), 3, FALSE)],
                   LAMBDA code : code > 0)
    ELSE <<>>
check_validity_new_curved_edges(m, at, er2r, dualCone, e) ==
    correct_curved_edges(m, at, er2r, [x \in DOMAIN dualCone |-> IF dualCone[x] = 1 THEN 1 ELSE 0], e)

\* 0 unless all corners are positive, else the ratio.
calc_crvQuality_3d(m, at, r) ==
    LET q == calcMinMaxJacDet(tet_dets(m, at, r), 4) IN IF q[1] > 0 THEN q ELSE <<0, 1>>
=============================================================================
