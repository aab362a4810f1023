-------------------------------- MODULE R3d --------------------------------
(***************************************************************************)
(* Intersections of simplices (r3d.hpp), as they carry conserved fields    *)
(* from old elements to new ones.  A polytope is a graph: every vertex has *)
(* a position and, in three dimensions, its three neighbours in the order  *)
(* that turns from one face into the next; clipping by a plane cuts edges  *)
(* and walks around the faces to link the new vertices.                    *)
(*                                                                         *)
(* Reals are rationals: a position is <<x, y, z, w>> for x/w, y/w, z/w, a  *)
(* plane is integral and need not have unit length.  Indices are from 1,   *)
(* as sequences are; Unset is a link that nothing was written to.          *)
(***************************************************************************)
EXTENDS Integers, Sequences, FiniteSets, SequencesExt

CONSTANTS Starts,    \* simplices to be clipped: sequences of integral points
          Planes,    \* Planes[dim]: planes to clip by
          MaxClips,  \* bound
          Solids     \* boundary descriptions: [points, faces], no faces in the plane

VARIABLES start, poly, clips
r3dVars == <<start, poly, clips>>

Unset == 0
DimOf(v) == Len(v.pnbrs)
Indices(s) == [i \in DOMAIN s |-> i]
Origin(n) == [i \in 1..n |-> 0]

-----------------------------------------------------------------------------
(* Rationals *)
gcd[p \in Nat \X Nat] == IF p[2] = 0 THEN p[1] ELSE gcd[<<p[2], p[1] % p[2]>>]
size(a) == IF a < 0 THEN -a ELSE a
ratio(a, b) == LET s == IF b < 0 THEN -1 ELSE 1
                   g == gcd[<<size(a), size(b)>>] IN <<(s * a) \div g, (s * b) \div g>>
plus(p, q) == LET g == gcd[<<p[2], q[2]>>] IN
              ratio(p[1] * (q[2] \div g) + q[1] * (p[2] \div g), p[2] * (q[2] \div g))
Total(rationals) == FoldLeft(plus, <<0, 1>>, rationals)

\* The position with the least weight.
reduced(p) == LET g == FoldLeft(LAMBDA h, c : gcd[<<h, size(c)>>], 0, p) IN [i \in DOMAIN p |-> p[i] \div g]
at(point) == Append(point, 1)
weight(p) == p[Len(p)]
dot(a, b) == FoldLeftDomain(LAMBDA t, i : t + a[i] * b[i], 0, a)
minus(a, b) == [i \in DOMAIN a |-> a[i] - b[i]]
cross(a, b) == <<a[2] * b[3] - a[3] * b[2], a[3] * b[1] - a[1] * b[3], a[1] * b[2] - a[2] * b[1]>>

-----------------------------------------------------------------------------
(* Polytopes *)

\* init: the neighbours of the vertices of a simplex.
polygon_links(n) == [v \in 1..n |-> <<(v % n) + 1, ((n + v - 2) % n) + 1>>]
simplex_links(dim) ==
    CASE dim = 3 -> <<<<2, 4, 3>>, <<3, 4, 1>>, <<1, 4, 2>>, <<2, 3, 1>>>>
      [] dim = 2 -> polygon_links(3)
      [] dim = 1 -> <<<<2>>, <<1>>>>
init(verts) == [v \in DOMAIN verts |-> [pos |-> at(verts[v]), pnbrs |-> simplex_links(Len(verts) - 1)[v]]]

\* Where v has u among its neighbours, one past the end if nowhere.
place(p, v, u) ==
    LET found == {i \in DOMAIN p[v].pnbrs : p[v].pnbrs[i] = u} IN
    IF found = {} THEN DimOf(p[v]) + 1 ELSE CHOOSE i \in found : \A j \in found : i <= j

\* The edge of a face after the edge <<vcur, vnext>>.
turn(p, edge) == <<edge[2], p[edge[2]].pnbrs[(place(p, edge[2], edge[1]) % 3) + 1]>>

\* The signed distance to a plane, times the weight.
sdist(plane, p) == plane.d * weight(p) + dot(plane.n, p)

\* wav: where the edge between two vertices meets the plane.
wav(va, wa, vb, wb) == reduced([i \in DOMAIN va |-> wa * va[i] + wb * vb[i]])

\* The first new vertex that is reached from vstart around the face behind it
\* (ClipHelper::finalize_links, the inner loop).
found_around(p, onv, vstart) ==
    FoldLeft(LAMBDA edge, k : IF k > 1 /\ edge[1] > onv THEN edge ELSE turn(p, edge),
             <<vstart, p[vstart].pnbrs[1]>>, Indices(p))[1]
found_along(p, onv, vstart) ==
    FoldLeft(LAMBDA vcur, k : IF k > 1 /\ vcur > onv THEN vcur ELSE p[vcur].pnbrs[1],
             p[vstart].pnbrs[1], Indices(p))

link_face(p, onv, vstart) ==
    LET vcur == found_around(p, onv, vstart) IN
    [p EXCEPT ![vstart].pnbrs[3] = vcur, ![vcur].pnbrs[2] = vstart]
link_edge(p, onv, vstart) ==
    IF p[vstart].pnbrs[2] # Unset THEN p
    ELSE LET vcur == found_along(p, onv, vstart) IN
         [p EXCEPT ![vstart].pnbrs[2] = vcur, ![vcur].pnbrs[1] = vstart]
finalize_links(p, onv) ==
    LET new == [i \in 1..(Len(p) - onv) |-> onv + i] IN
    CASE DimOf(p[1]) = 3 -> FoldLeft(LAMBDA q, v : link_face(q, onv, v), p, new)
      [] DimOf(p[1]) = 2 -> FoldLeft(LAMBDA q, v : link_edge(q, onv, v), p, new)
      [] OTHER -> p

\* ClipHelper::init_new_vert_link: the new vertex on the np-th edge of vcur.
new_links(dim, vcur, np) ==
    CASE dim = 3 -> <<vcur, Unset, Unset>>
      [] dim = 2 -> [i \in 1..2 |-> IF i = np THEN Unset ELSE vcur]
      [] dim = 1 -> <<vcur>>

\* Clipped vertices go; a link to one would be read from the mark it was given.
compressed(p, clipped) ==
    LET kept == SelectSeq(Indices(p), LAMBDA v : v \notin clipped)
        number == [v \in DOMAIN p |-> Cardinality({u \in 1..v : u \notin clipped})] IN
    [i \in DOMAIN kept |-> [p[kept[i]] EXCEPT !.pnbrs =
        [np \in DOMAIN @ |-> IF @[np] \in clipped THEN 2 ELSE number[@[np]]]]]

\* The body of clip's loop over the planes.
clip(p, plane) ==
    LET onv == Len(p)
        dim == DimOf(p[1])
        sdists == [v \in 1..onv |-> sdist(plane, p[v].pos)]
        clipped == {v \in 1..onv : sdists[v] < 0}
        \* The bisected edges, from the vertices that stay.
        cut == SelectSeq([e \in 1..(onv * dim) |-> <<((e - 1) \div dim) + 1, ((e - 1) % dim) + 1>>],
                         LAMBDA e : e[1] \notin clipped /\ p[e[1]].pnbrs[e[2]] \in clipped)
        old == FoldLeftDomain(LAMBDA q, i : [q EXCEPT ![cut[i][1]].pnbrs[cut[i][2]] = onv + i], p, cut)
        new == [i \in DOMAIN cut |->
                  LET vcur == cut[i][1]
                      vnext == p[vcur].pnbrs[cut[i][2]] IN
                  [pos |-> wav(p[vcur].pos, -sdists[vnext], p[vnext].pos, sdists[vcur]),
                   pnbrs |-> new_links(dim, vcur, cut[i][2])]] IN
    IF p = <<>> \/ \A v \in 1..onv : sdists[v] >= 0 THEN p
    ELSE IF \A v \in 1..onv : sdists[v] <= 0 THEN <<>>
    ELSE compressed(finalize_links(old \o new, onv), clipped)

-----------------------------------------------------------------------------
(* Faces of simplices, intersections *)
face_through(a, b, c) == LET n == cross(minus(b, a), minus(c, a)) IN [n |-> n, d |-> -dot(n, a)]
faces_from_verts(s) ==
    CASE Len(s) = 4 -> <<face_through(s[4], s[3], s[2]), face_through(s[1], s[3], s[4]),
                         face_through(s[1], s[4], s[2]), face_through(s[1], s[2], s[3])>>
      [] Len(s) = 3 -> [f \in 1..3 |->
            LET p0 == s[f]
                p1 == s[(f % 3) + 1]
                n == <<p0[2] - p1[2], p1[1] - p0[1]>> IN [n |-> n, d |-> -dot(n, p0)]]
      [] Len(s) = 2 -> [f \in 1..2 |-> LET n == minus(s[3 - f], s[f]) IN [n |-> n, d |-> -dot(n, s[f])]]
clip_all(p, planes) == FoldLeft(LAMBDA q, plane : IF q = <<>> THEN q ELSE clip(q, plane), p, planes)
intersect_simplices(s0, s1) == clip_all(init(s0), faces_from_verts(s1))

-----------------------------------------------------------------------------
(* reduce: moments, by a fan of simplices over every face *)
HalfEdges(p) == {<<v, np>> : v \in DOMAIN p, np \in 1..DimOf(p[1])}
head(p, h) == p[h[1]].pnbrs[h[2]]
half_after(p, h) == <<head(p, h), (place(p, head(p, h), h[1]) % 3) + 1>>
face_of(p, h) == ToSet(FoldLeft(LAMBDA walk, k : Append(walk, half_after(p, Last(walk))), <<h>>, Indices(p)))
Faces(p) == {face_of(p, h) : h \in HalfEdges(p)}
first_of(face) ==
    CHOOSE h \in face : \A g \in face : h[1] < g[1] \/ (h[1] = g[1] /\ h[2] <= g[2])

\* The simplices over the origin, as sequences of vertices from the last.
face_fan(p, face) ==
    LET vstart == first_of(face)[1] IN
    {<<h[1], head(p, h), vstart>> : h \in {g \in face : g[1] # vstart /\ head(p, g) # vstart}}
fans(p) == CASE p = <<>> -> {}
             [] DimOf(p[1]) = 3 -> UNION {face_fan(p, f) : f \in Faces(p)}
             [] DimOf(p[1]) = 2 -> {<<p[v].pnbrs[1], v>> : v \in DOMAIN p}

\* sixv and twoa, times the weights.
determinant(points) ==
    IF Len(points) = 2 THEN points[2][1] * points[1][2] - points[2][2] * points[1][1]
    ELSE dot(SubSeq(points[3], 1, 3), cross(points[2], points[1]))
factorial(n) == IF n = 3 THEN 6 ELSE n
positions(p, fan) == [i \in DOMAIN fan |-> p[fan[i]].pos]
weights(points) == FoldLeft(LAMBDA w, x : w * weight(x), 1, points)
SumOver(value(_), S) == FoldSet(LAMBDA e, t : plus(t, value(e)), <<0, 1>>, S)

measure(p) ==
    IF p # <<>> /\ DimOf(p[1]) = 1
    THEN LET d == plus(ratio(p[2].pos[1], p[2].pos[2]), ratio(-p[1].pos[1], p[1].pos[2])) IN
         <<size(d[1]), d[2]>>
    ELSE SumOver(LAMBDA fan : LET points == positions(p, fan) IN
                    ratio(determinant(points), factorial(Len(fan)) * weights(points)), fans(p))

\* The layers of coefficients of Koehl's method; exponents say which moment.
Exponents(dim, polyorder) ==
    {e \in [1..dim -> 0..polyorder] : FoldLeft(+, 0, e) <= polyorder}
pyramid(v, below) ==
    LET T[e \in DOMAIN below] ==
            IF \A i \in DOMAIN e : e[i] = 0 THEN 1
            ELSE FoldLeftDomain(LAMBDA t, i : IF e[i] = 0 THEN t
                                              ELSE t + v[i] * T[[e EXCEPT ![i] = @ - 1]], below[e], e) IN
    T
coefficients(points, exps) ==
    FoldLeft(LAMBDA below, v : pyramid(v, below), [e \in exps |-> 0], points)
reduce(p, polyorder) ==
    LET dim == DimOf(p[1])
        exps == Exponents(dim, polyorder)
        leading == pyramid([i \in 1..dim |-> 1], [e \in exps |-> 0]) IN
    [e \in exps |->
        LET n == FoldLeft(+, 0, e)
            over == FoldLeft(LAMBDA t, i : t * (n + i), 1, [i \in 1..dim |-> i]) IN
        SumOver(LAMBDA fan : LET points == positions(p, fan) IN
                    ratio(determinant(points) * coefficients(points, exps)[e], leading[e] * over),
                fans(p))]

-----------------------------------------------------------------------------
(* init_poly: from the faces, each the sequence of its vertices *)
corners(faces) ==
    FlattenSeq([f \in DOMAIN faces |-> [v \in DOMAIN faces[f] |->
        LET n == Len(faces[f]) IN
        [i \in 1..3 |-> faces[f][((v + i - 2) % n) + 1]]]])
eperv(faces, v) == Cardinality({k \in DOMAIN corners(faces) : corners(faces)[k][2] = v})

\* No vertex has more than three faces: the neighbours are put in turn.
link_corner(p, c) ==
    LET known == {np \in 1..3 : p[c[2]].pnbrs[np] \in {c[1], c[3]}}
        np == CHOOSE i \in known : \A j \in known : i <= j IN
    IF known = {} THEN [p EXCEPT ![c[2]].pnbrs = <<c[3], c[1], @[3]>>]
    ELSE IF p[c[2]].pnbrs[np] = c[1] THEN [p EXCEPT ![c[2]].pnbrs[((np + 1) % 3) + 1] = c[3]]
    ELSE [p EXCEPT ![c[2]].pnbrs[(np % 3) + 1] = c[1]]

\* A vertex with more faces becomes a ring of duplicates, one for each face; two
\* of them are not needed and are taken out.
duplicate_ring(points, faces) ==
    LET cs == corners(faces)
        vstart(v) == 1 + Cardinality({k \in DOMAIN cs : cs[k][2] < v})
        number == [k \in DOMAIN cs |->
                     vstart(cs[k][2]) + Cardinality({j \in 1..(k - 1) : cs[j][2] = cs[k][2]})]
        corner(d) == CHOOSE k \in DOMAIN cs : number[k] = d
        vert(d) == cs[corner(d)][2]
        vnext(d) == cs[corner(d)][3]
        vprev(d) == cs[corner(d)][1]
        beside(d) == CHOOSE e \in DOMAIN cs : vert(e) = vert(d) /\ vprev(d) = vnext(e)
        mate(d) == CHOOSE e \in DOMAIN cs : vert(e) = vnext(d) /\ vnext(e) = vert(d)
        before(d) == CHOOSE e \in DOMAIN cs : vert(e) = vert(d) /\ vprev(e) = vnext(d) IN
    [p |-> [d \in DOMAIN cs |-> [pos |-> at(points[vert(d)]), pnbrs |-> <<before(d), mate(d), beside(d)>>]],
     vstart |-> [v \in DOMAIN points |-> vstart(v)]]
take_out(p, v0) ==
    LET v1 == p[v0].pnbrs[1]
        v00 == p[v0].pnbrs[3]
        v11 == p[v1].pnbrs[1]
        q == [p EXCEPT ![v00].pnbrs[1] = p[v0].pnbrs[2], ![v11].pnbrs[3] = p[v1].pnbrs[2]]
        r == [q EXCEPT ![q[v0].pnbrs[2]].pnbrs[place(q, q[v0].pnbrs[2], v0)] = v00] IN
    [r EXCEPT ![r[v1].pnbrs[2]].pnbrs[place(r, r[v1].pnbrs[2], v1)] = v11]

maxeperv(points, faces) == Max({eperv(faces, v) : v \in DOMAIN points})
init_poly(points, faces) ==
    IF maxeperv(points, faces) = 3
    THEN FoldLeft(link_corner, [v \in DOMAIN points |-> [pos |-> at(points[v]), pnbrs |-> <<Unset, Unset, Unset>>]],
                  corners(faces))
    ELSE LET ring == duplicate_ring(points, faces)
             linked == FoldLeft(take_out, ring.p, ring.vstart)
             gone == {d \in DOMAIN ring.p : \E v \in DOMAIN points :
                        d \in {ring.vstart[v], ring.p[ring.vstart[v]].pnbrs[1]}} IN
         compressed(linked, gone)

init_polygon(points) == [v \in DOMAIN points |-> [pos |-> at(points[v]), pnbrs |-> polygon_links(Len(points))[v]]]

\* The planes of the faces: a sum of normals through the mean of the vertices.
poly_faces_from_verts(points, faces) ==
    [f \in DOMAIN faces |->
        LET n == Len(faces[f])
            p(i) == points[faces[f][((i - 1) % n) + 1]]
            total(g(_)) == [c \in 1..3 |-> FoldLeftDomain(LAMBDA t, i : t + g(i)[c], 0, faces[f])]
            normal == total(LAMBDA i : cross(minus(p(i + 1), p(i)), minus(p(i + 2), p(i)))) IN
        [n |-> [c \in 1..3 |-> n * normal[c]], d |-> -dot(normal, total(p))]]

-----------------------------------------------------------------------------
Init == /\ \/ start \in Starts /\ poly = init(start)
           \/ \E s \in Solids : /\ start = s.points
                              /\ poly = IF s.faces = <<>> THEN init_polygon(s.points)
                                        ELSE init_poly(s.points, s.faces)
        /\ clips = <<>>

Clip(plane) ==
    /\ poly # <<>> /\ Len(clips) < MaxClips
    /\ poly' = clip(poly, plane)
    /\ clips' = Append(clips, plane)
    /\ UNCHANGED start

Next == \E plane \in Planes[Len(start[1])] : Clip(plane)
Spec == Init /\ [][Next]_r3dVars

-----------------------------------------------------------------------------
\* The other side of a plane.
opposite(plane) == [n |-> minus(Origin(Len(plane.n)), plane.n), d |-> -plane.d]

\* A polytope stays one: every link is there from both ends, and walking around
\* the faces finds as many as a body without holes has (finalize_links reads
\* links while it writes them; compression renumbers all of them).
WellLinked ==
    poly # <<>> =>
        /\ \A h \in HalfEdges(poly) :
              head(poly, h) \in DOMAIN poly /\ place(poly, head(poly, h), h[1]) <= DimOf(poly[1])
        /\ DimOf(poly[1]) = 3 => 2 * Cardinality(Faces(poly)) = Len(poly) + 4
        /\ DimOf(poly[1]) = 2 => \A v \in DOMAIN poly : poly[poly[v].pnbrs[1]].pnbrs[2] = v

\* What is left of a polytope is on the right side of all planes so far.
InsideAll == \A v \in DOMAIN poly : \A i \in DOMAIN clips : sdist(clips[i], poly[v].pos) >= 0

\* A plane divides a polytope: what clip keeps on one side and on the other adds
\* up to the whole (intersections of an old element with the new ones are to
\* add up to the element, or the transfer would not conserve).
NothingLost ==
    \A plane \in Planes[Len(start[1])] :
        plus(measure(clip(poly, plane)), measure(clip(poly, opposite(plane)))) = measure(poly)

\* It does not matter which of two simplices is clipped by the other's faces.
IntersectsAlike ==
    clips = <<>> /\ start \in Starts =>
        \A other \in {s \in Starts : Len(s) = Len(start)} :
            measure(intersect_simplices(start, other)) = measure(intersect_simplices(other, start))

\* Higher moments of what is cut apart add up too, and those of a simplex are
\* the known ones (reduce).
Integral(p) == \A v \in DOMAIN p : weight(p[v].pos) = 1
MomentsAdd ==
    poly # <<>> /\ Len(start[1]) > 1 /\ Integral(poly) =>
        \A plane \in Planes[Len(start[1])] :
            LET a == clip(poly, plane)
                b == clip(poly, opposite(plane)) IN
            a # <<>> /\ b # <<>> /\ Integral(a) /\ Integral(b) =>
                \A e \in Exponents(Len(start[1]), 2) :
                    plus(reduce(a, 2)[e], reduce(b, 2)[e]) = reduce(poly, 2)[e]
SimplexMoments ==
    clips = <<>> /\ start \in Starts /\ Len(start[1]) > 1 =>
        LET n == Len(start)
            sum(i) == FoldLeft(LAMBDA t, v : t + v[i], 0, start)
            products(i, j) == FoldLeft(LAMBDA t, v : t + v[i] * v[j], 0, start)
            times(q, a, b) == ratio(q[1] * a, q[2] * b) IN
        \A e \in Exponents(n - 1, 2) :
            LET up == {i \in DOMAIN e : e[i] > 0}
                i == CHOOSE k \in up : TRUE
                j == IF e[i] = 2 THEN i ELSE CHOOSE k \in up : k # i IN
            reduce(poly, 2)[e] =
                CASE FoldLeft(+, 0, e) = 0 -> measure(poly)
                  [] FoldLeft(+, 0, e) = 1 -> times(measure(poly), sum(i), n)
                  [] OTHER -> times(measure(poly), products(i, j) + sum(i) * sum(j), n * (n + 1))

\* A body made from its faces, with any number of them at a vertex, has the
\* volume within the faces (init_poly); the planes of the faces pass through all
\* of their vertices and have the body behind them (poly_faces_from_verts: those
\* of faces_from_verts have it before them).
SolidsAreFilled ==
    clips = <<>> => \A s \in Solids : start = s.points /\ s.faces # <<>> =>
        /\ measure(poly) = SumOver(LAMBDA t :
               ratio(-determinant([i \in 1..3 |-> at(s.points[t[i]])]), 6),
               UNION {{<<s.faces[f][1], s.faces[f][i], s.faces[f][i + 1]>> : i \in 2..(Len(s.faces[f]) - 1)}
                        : f \in DOMAIN s.faces})
        /\ \A f \in DOMAIN s.faces, v \in DOMAIN s.points :
              LET d == sdist(poly_faces_from_verts(s.points, s.faces)[f], at(s.points[v])) IN
              IF v \in ToSet(s.faces[f]) THEN d = 0 ELSE d < 0
=============================================================================
