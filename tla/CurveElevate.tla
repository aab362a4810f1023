---------------------------- MODULE CurveElevate ----------------------------
(***************************************************************************)
(* Raising the order of a curved mesh from 2 to 6, one order at a time     *)
(* (elevate_curve_order_*, Omega_h_beziers.cpp).  The edges are done in    *)
(* parallel; from order 3 on all threads put the new points first into     *)
(* the same arrays c1, c2, ...                                             *)
(*                                                                         *)
(* The mesh is a triangle.  A coordinate of a control point is a tuple:    *)
(* the weights of the points the quadratic mesh had (three vertices, then  *)
(* one point for each edge), times Scale(order).  All coordinates are      *)
(* treated alike, so one is kept.                                          *)
(***************************************************************************)
EXTENDS Bezier

CONSTANTS
    MaxThreads,    \* bound: edges worked on at a time
    MaxOrder       \* bound: the highest order asked for

VARIABLES
    mesh,       \* ev2v, fv2v, fe2e of the triangle
    interp,     \* has_tag(2, "interp_pts")
    order,      \* max_order_
    edgePts,    \* bezier_pts of each edge
    facePts,    \* bezier_pts of the face, or Unset
    old,        \* old_ctrl_pts, while a kernel runs
    c,          \* the arrays c1, c2, ..., and which edge's thread wrote each
    pc,         \* each edge's thread: how many of its steps are done
    mixed       \* edges that were given a point another thread had written

vars == <<mesh, interp, order, edgePts, facePts, old, c, pc, mixed>>

EdgeIds == 0..2
Unset == <<>>
Idle == [e \in EdgeIds |-> 0]

\* What all weights of a mesh of this order are multiples of.
Scale(P) == CASE P = 2 -> 1 [] P = 3 -> 3 [] P = 4 -> 12 [] P = 5 -> 60 [] P = 6 -> 360

Unit(k) == [i \in 1..6 |-> IF i = k THEN 1 ELSE 0]
Plus(x, y) == [i \in 1..6 |-> x[i] + y[i]]
Times(n, x) == [i \in 1..6 |-> n * x[i]]

Vert(P, v) == Times(Scale(P), Unit(v + 1))

Triangle(flips) ==
    [ev2v |-> [e \in EdgeIds |-> IF flips[e] THEN <<(e + 1) % 3, e>> ELSE <<e, (e + 1) % 3>>],
     fv2v |-> [f \in {0} |-> <<0, 1, 2>>],
     fe2e |-> [f \in {0} |-> <<0, 1, 2>>]]

Init ==
    /\ \E flips \in [EdgeIds -> BOOLEAN] : mesh = Triangle(flips)
    /\ interp \in BOOLEAN
    /\ order = 2
    /\ edgePts = [e \in EdgeIds |-> <<Unit(4 + e)>>]
    /\ facePts = Unset
    /\ old = Unset
    /\ c = Unset
    /\ pc = Idle
    /\ mixed = {}

\* The kernel that makes a mesh of order P + 1 is running.
Raising == old # Unset

\* Numerators over P + 1 for the new point k from the old points k - 1 and k.
parts(P, k) ==
    CASE P = 2 -> <<<<1, 2>>, <<2, 1>>>>[k]
      [] P = 3 -> <<<<1, 3>>, <<2, 2>>, <<3, 1>>>>[k]
      [] P = 4 -> <<<<1, 4>>, <<2, 3>>, <<3, 2>>, <<4, 1>>>>[k]
      [] P = 5 -> <<<<1, 5>>, <<2, 4>>, <<3, 3>>, <<4, 2>>, <<5, 1>>>>[k]

\* All control points of edge e, its vertices included, before the kernel.
oldCurve(e, P) == <<Vert(P, mesh.ev2v[e][1])>> \o old[e] \o <<Vert(P, mesh.ev2v[e][2])>>

newPoint(e, P, k) ==
    Plus(Times(parts(P, k)[1], oldCurve(e, P)[k]), Times(parts(P, k)[2], oldCurve(e, P)[k + 1]))

\* Steps of a thread: with order 2 its points are its own; then they pass
\* through the shared arrays.
StepsOf(P) == IF P = 2 THEN 1 ELSE 2 * P

\* change_max_order drops the control points' arrays.
Start ==
    /\ ~Raising /\ order < MaxOrder
    /\ old' = edgePts
    /\ c' = [k \in 1..order |-> [by |-> -1, pt |-> Times(0, Unit(1))]]
    /\ edgePts' = [e \in EdgeIds |-> [k \in 1..order |-> Times(0, Unit(1))]]
    /\ pc' = Idle
    /\ UNCHANGED <<mesh, interp, order, facePts, mixed>>

MayRun(e) ==
    /\ Raising
    /\ pc[e] < StepsOf(order)
    /\ pc[e] = 0 => Cardinality({x \in EdgeIds : pc[x] \in 1..(StepsOf(order) - 1)}) < MaxThreads

OwnPoints(e) ==
    /\ MayRun(e) /\ order = 2
    /\ edgePts' = [edgePts EXCEPT ![e] = [k \in 1..order |-> newPoint(e, order, k)]]
    /\ pc' = [pc EXCEPT ![e] = 1]
    /\ UNCHANGED <<mesh, interp, order, facePts, old, c, mixed>>

\* c1[d] = ..., c2[d] = ..., ...
Compute(e) ==
    /\ MayRun(e) /\ order > 2 /\ pc[e] < order
    /\ c' = [c EXCEPT ![pc[e] + 1] = [by |-> e, pt |-> newPoint(e, order, pc[e] + 1)]]
    /\ pc' = [pc EXCEPT ![e] = @ + 1]
    /\ UNCHANGED <<mesh, interp, order, edgePts, facePts, old, mixed>>

\* new_pts[...] = c1[d]; ...
Store(e) ==
    /\ MayRun(e) /\ order > 2 /\ pc[e] >= order
    /\ LET k == pc[e] - order + 1 IN
       /\ edgePts' = [edgePts EXCEPT ![e][k] = c[k].pt]
       /\ mixed' = IF c[k].by = e THEN mixed ELSE mixed \union {e}
    /\ pc' = [pc EXCEPT ![e] = @ + 1]
    /\ UNCHANGED <<mesh, interp, order, facePts, old, c>>

\* The face's net before the kernel, by the names of the code.
oldAt(P, x) ==
    LET p == face_net(mesh, 0, P)[x] IN
    CASE p[1] = "v" -> Vert(P, p[2])
      [] p[1] = "e" -> old[p[2]][p[3]]
      [] p[1] = "f" -> facePts[p[3]]

quadratic_face == <<Plus(Plus(old[0][1], old[1][1]), old[2][1])>>

\* c11, c21, c12, in this order; but what is called c21 lies on the side of the
\* third vertex and what is called c12 on that of the second.
cubic_face ==
    <<Plus(Plus(oldAt(3, <<1, 0>>), oldAt(3, <<0, 1>>)), Times(2, oldAt(3, <<1, 1>>))),
      Plus(Plus(oldAt(3, <<1, 2>>), oldAt(3, <<0, 2>>)), Times(2, oldAt(3, <<1, 1>>))),
      Plus(Plus(oldAt(3, <<2, 0>>), oldAt(3, <<2, 1>>)), Times(2, oldAt(3, <<1, 1>>)))>>

\* All edges are done: the face's points are made, where there is code for it.
Finish ==
    /\ Raising
    /\ \A e \in EdgeIds : pc[e] = StepsOf(order)
    /\ order' = order + 1
    /\ facePts' = CASE order = 2 -> IF interp THEN <<Times(0, Unit(1))>> ELSE quadratic_face
                    [] order = 3 -> cubic_face
                    [] OTHER -> Unset
    /\ old' = Unset /\ c' = Unset /\ pc' = Idle
    /\ UNCHANGED <<mesh, interp, edgePts, mixed>>

Next == Start \/ (\E e \in EdgeIds : OwnPoints(e) \/ Compute(e) \/ Store(e)) \/ Finish

Spec == Init /\ [][Next]_vars

-----------------------------------------------------------------------------
TypeOK ==
    /\ order \in 2..6
    /\ \A e \in EdgeIds : Len(edgePts[e]) = n_internal_ctrlPts(1, IF Raising THEN order + 1 ELSE order)
    /\ facePts # Unset => Len(facePts) = n_internal_ctrlPts(2, order)
    /\ pc \in [EdgeIds -> 0..12]
    /\ mixed \subseteq EdgeIds

ValueOf(p, P) ==
    CASE p[1] = "v" -> Vert(P, p[2])
      [] p[1] = "e" -> edgePts[p[2]][p[3]]
      [] p[1] = "f" -> facePts[p[3]]

\* The sum of weighted points.
At(points, P) == [i \in 1..6 |-> MapThenSumSet(LAMBDA t : t[2] * ValueOf(t[1], P)[i], points)]

\* The same for the mesh as it was, whose points are the units.
FirstAt(points) == [i \in 1..6 |-> MapThenSumSet(
    LAMBDA t : t[2] * (IF t[1][1] = "v" THEN Unit(t[1][2] + 1) ELSE Unit(4 + t[1][2]))[i], points)]

Lattice(P, d) == {a \in [1..(d + 1) -> 0..P] : SumFunction(a) = P}

\* However often the order was raised, an edge has the curve it had at first,
\* unless it was given a point that the thread of another edge had put into the
\* shared arrays c1, c2, ... meanwhile (elevate_curve_order_2to3, 3to4, 4to5, 5to6).
EdgesKeepTheirCurves ==
    ~Raising => \A e \in EdgeIds :
        (\A a \in Lattice(order, 1) :
            At(shape(curve_net(mesh, e, order), Bi, order, a), order)
                = Times(Scale(order) * pow(order, order - 2), FirstAt(shape(curve_net(mesh, e, 2), Bi, 2, a))))
        <=> e \notin mixed

\* The face of this net, of order P, is the quadratic face.
IsFirstFace(net, P) ==
    \A a \in Lattice(P, 2) :
        At(shape(net, Bij, P, a), P)
            = Times(Scale(P) * pow(P, P - 2), FirstAt(shape(face_net(mesh, 0, 2), Bij, 2, a)))

\* The face of the cubic mesh is the quadratic face, unless its points are to
\* come from interpolation points (elevate_curve_order_2to3).
CubicFaceKeepsItsShape ==
    ~Raising /\ order = 3 /\ ~interp => IsFirstFace(face_net(mesh, 0, 3), 3)

\* The quartic face that is drawn is not the cubic one, but would be with the
\* second and third of its points exchanged: they are stored in one order and
\* read in the other (elevate_curve_order_3to4, build_quartic_curveVtk).
QuarticFaceIsExchanged ==
    ~Raising /\ order = 4 /\ ~interp /\ mixed = {} =>
        LET net == face_net(mesh, 0, 4) IN
        /\ IsFirstFace([net EXCEPT ![2, 1] = net[1, 2], ![1, 2] = net[2, 1]], 4)
        /\ ~IsFirstFace(net, 4)
=============================================================================
