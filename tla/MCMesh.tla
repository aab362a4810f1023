------------------------------- MODULE MCMesh -------------------------------
(***************************************************************************)
(* Small meshes for everything a rank does with its mesh: deriving         *)
(* adjacencies, refining hypercubes, modifying simplex meshes, driving an  *)
(* adaptation, keeping fields on model entities, intersecting elements for *)
(* a conservative transfer; and the tags and caches of one mesh, MeshTags, *)
(* whose names come without a prefix.  A behaviour is about one of these   *)
(* parts, named by mode, on one family of meshes; the parts' variables     *)
(* stay side by side and the others do not move.                           *)
(***************************************************************************)
EXTENDS RefElem, MeshTags, FiniteSets

VARIABLES
    mode,                                      \* the part and its meshes
    adjMesh, adjs, asks,                       \* Adjacency
    amrVerts, amrLeaf, amrParent, amrLevel, amrPhase,   \* Amr
    modMesh, nents,                            \* MeshMod
    pc, goal, opts, allowed, desired, longest, chain, elems, cavity, way, at, left,
    snapping, try, did, minqual,                         \* Adapt
    class_id, revClass, rcTags, rcs, scopes, stored, rcFailed,       \* RcFields
    simplex, polytope, clips                   \* R3d

adjVars == <<adjMesh, adjs, asks>>
amrVars == <<amrVerts, amrLeaf, amrParent, amrLevel, amrPhase>>
modVars == <<modMesh, nents>>
adaptVars == <<pc, goal, opts, allowed, desired, longest, chain, elems, cavity, way, at,
               left, snapping, try, did, minqual>>
rcVars == <<class_id, revClass, rcTags, rcs, scopes, stored, rcFailed>>
clipVars == <<simplex, polytope, clips>>
meshVars == <<mode, vars, adjVars, amrVars, modVars, adaptVars, rcVars, clipVars>>

-----------------------------------------------------------------------------
(* Adjacency: two elements that share a side, the second with its vertices  *)
(* in several orders so that the side is seen from every corner, or one     *)
(* hexahedron; and elements whose sides are of two kinds.                   *)
Families ==
    {[type |-> triangle, ev2v |-> <<<<0, 1, 2>>, s>>] :
        s \in {<<1, 3, 2>>, <<3, 2, 1>>, <<1, 2, 3>>}}
    \cup {[type |-> tetrahedron, ev2v |-> <<<<0, 1, 2, 3>>, s>>] :
        s \in {<<4, 2, 3, 1>>}}
    \cup {[type |-> quadrilateral, ev2v |-> <<<<0, 1, 2, 3>>, s>>] :
        s \in {<<5, 2, 1, 4>>}}
    \cup {[type |-> hexahedron, ev2v |-> <<<<0, 1, 2, 3, 4, 5, 6, 7>>>>]}

MixedFamilies ==
    {[type |-> wedge, ev2v |-> <<<<0, 1, 2, 3, 4, 5>>, <<0, 2, 6, 3, 5, 7>>>>],
     [type |-> pyramid, ev2v |-> <<<<0, 1, 2, 3, 4>>, <<0, 3, 2, 1, 5>>>>]}

Adj == INSTANCE Adjacency WITH
    Meshes <- Families \cup MixedFamilies, MaxAsks <- 2, MaxTurned <- 1, mesh <- adjMesh

-----------------------------------------------------------------------------
(* Amr: two quadrilaterals or two hexahedra side by side.                   *)
Amr2d == INSTANCE Amr WITH
    dim <- 2, Boxes <- <<2, 1>>, MaxLevel <- 2, MaxMarks <- 2, MaxElems <- 18,
    verts <- amrVerts, leaf <- amrLeaf, parent <- amrParent, level <- amrLevel,
    phase <- amrPhase
Amr3d == INSTANCE Amr WITH
    dim <- 3, Boxes <- <<2, 1, 1>>, MaxLevel <- 1, MaxMarks <- 2, MaxElems <- 18,
    verts <- amrVerts, leaf <- amrLeaf, parent <- amrParent, level <- amrLevel,
    phase <- amrPhase

-----------------------------------------------------------------------------
(* MeshMod: a rectangle of two faces, a disk, two tetrahedral regions, and  *)
(* polygons between two apexes whose axis can be swapped away.              *)

\* The smallest of these cells with all these positions, the empty set if there is none.
Smallest(cells, Carrier(_), S) ==
    LET around == {c \in cells : \A p \in S : Carrier(p) \subseteq c} IN
    IF around = {} THEN {} ELSE CHOOSE c \in around : \A d \in around : c \subseteq d

\* Intervals of the line, by their ends.
Span(i) == IF i % 2 = 0 THEN {i} ELSE {i - 1, i + 1}

\* The rectangle from <<0, 0>> to <<4, 2>>, divided at x = 2.
RectLattice == (0..4) \X (0..2)
RectCarrier(p) == Span(p[1]) \X Span(p[2])
RectCells == [c \in {RectCarrier(p) : p \in RectLattice} |->
                CASE Cardinality(c) = 1 -> 0 [] Cardinality(c) = 2 -> 1 [] OTHER -> 2]
RectModel(S) == Smallest(DOMAIN RectCells, RectCarrier, S)
RectMeshes == {{{<<0, 0>>, <<2, 0>>, <<2, 2>>}, {<<0, 0>>, <<2, 2>>, <<0, 2>>},
                {<<2, 0>>, <<4, 0>>, <<2, 2>>}, {<<4, 0>>, <<4, 2>>, <<2, 2>>}}}

\* A disk: one face whose boundary is one model edge, without a model vertex.
DiskCorners == <<<<2, 0>>, <<0, 2>>, <<-2, 0>>, <<0, -2>>>>
DiskSides == {{DiskCorners[i], DiskCorners[(i % 4) + 1]} : i \in 1..4}
DiskLattice == (-2..2) \X (-2..2)
Rim == {"rim"}
DiskCells == (Rim :> 1) @@ ({"rim", "inside"} :> 2)
DiskModel(S) == IF Cardinality(S) = 1 \/ S \in DiskSides THEN Rim ELSE {"rim", "inside"}
DiskMeshes == {{{DiskCorners[1], DiskCorners[i], DiskCorners[i + 1]} : i \in 2..3}}

\* Two tetrahedra that share the face x = 0.
Tet == {<<0, 0, 0>>, <<4, 0, 0>>, <<0, 4, 0>>, <<0, 0, 4>>}
Mirrored == {<<0, 0, 0>>, <<-4, 0, 0>>, <<0, 4, 0>>, <<0, 0, 4>>}
TetLattice == {p \in (-4..4) \X (0..4) \X (0..4) :
                 (IF p[1] < 0 THEN -p[1] ELSE p[1]) + p[2] + p[3] <= 4}
TetCarrier(p) ==
    LET x == IF p[1] < 0 THEN -p[1] ELSE p[1] IN
    {c \in Tet \cup Mirrored :
        CASE c = <<0, 0, 0>> -> x + p[2] + p[3] < 4
          [] OTHER -> \E i \in 1..3 : c[i] * p[i] > 0}
TetCells == [c \in (SUBSET Tet \cup SUBSET Mirrored) \ {{}} |-> Cardinality(c) - 1]
TetModel(S) == Smallest(DOMAIN TetCells, TetCarrier, S)
TetMeshes == {{Tet, Mirrored}}

\* Polygons with three to seven corners around the axis, one above the other.
Polygon(n) ==
    CASE n = 3 -> <<<<2, 0>>, <<-1, 2>>, <<-1, -2>>>>
      [] n = 4 -> <<<<2, 0>>, <<0, 2>>, <<-2, 0>>, <<0, -2>>>>
      [] n = 5 -> <<<<2, 0>>, <<1, 2>>, <<-1, 2>>, <<-2, 0>>, <<0, -2>>>>
      [] n = 6 -> <<<<2, 0>>, <<1, 2>>, <<-1, 2>>, <<-2, 0>>, <<-1, -2>>, <<1, -2>>>>
      [] n = 7 -> <<<<3, 0>>, <<2, 2>>, <<0, 3>>, <<-2, 2>>, <<-3, 0>>, <<-1, -2>>, <<1, -2>>>>
Corner(n, i) == Polygon(n)[((i - 1) % n) + 1] \o <<20 * n>>
Apexes(n) == {<<0, 0, 20 * n - 5>>, <<0, 0, 20 * n + 5>>}
AxisMesh(n) == {Apexes(n) \cup {Corner(n, i), Corner(n, i + 1)} : i \in 1..n}
AxisFaces(n) == {{a, Corner(n, i), Corner(n, i + 1)} : a \in Apexes(n), i \in 1..n}
AxisSizes == 3..7
AxisLattice == UNION {UNION AxisMesh(n) : n \in AxisSizes}
AxisMeshes == {AxisMesh(n) : n \in AxisSizes}
AxisCells ==
    [c \in UNION {SUBSET f : f \in UNION {AxisFaces(n) : n \in AxisSizes}} \ {{}} |-> Cardinality(c) - 1]
    @@ [c \in {UNION AxisMesh(n) : n \in AxisSizes} |-> 3]
AxisModel(S) == Smallest(DOMAIN AxisCells, LAMBDA p : {p}, S)

ModRect == INSTANCE MeshMod WITH dim <- 2, Meshes <- RectMeshes, Lattice <- RectLattice,
    Cells <- RectCells, Model <- RectModel, MaxVerts <- 8, MaxKeys <- 2, mesh <- modMesh
ModDisk == INSTANCE MeshMod WITH dim <- 2, Meshes <- DiskMeshes, Lattice <- DiskLattice,
    Cells <- DiskCells, Model <- DiskModel, MaxVerts <- 5, MaxKeys <- 2, mesh <- modMesh
ModTets == INSTANCE MeshMod WITH dim <- 3, Meshes <- TetMeshes, Lattice <- TetLattice,
    Cells <- TetCells, Model <- TetModel, MaxVerts <- 7, MaxKeys <- 2, mesh <- modMesh
ModAxis == INSTANCE MeshMod WITH dim <- 3, Meshes <- AxisMeshes, Lattice <- AxisLattice,
    Cells <- AxisCells, Model <- AxisModel, MaxVerts <- 9, MaxKeys <- 1, mesh <- modMesh

-----------------------------------------------------------------------------
(* Adapt: rows of edges of various lengths, with elements for which every   *)
(* length will do, for which halves or joined edges are too flat, for which *)
(* long or short edges are, and with collapses that flip or are invalid.    *)
Rows == {<<8, 1>>, <<1, 1, 5>>, <<3, 1, 1, 7>>, <<1, 9, 1>>}
AnyLength == [qual |-> [n \in 1..9 |-> 5], flips |-> {}, invalid |-> {}]
Shapes ==
    {[qual |-> q, flips |-> f, invalid |-> f] :
        q \in {AnyLength.qual,
              [n \in 1..9 |-> IF n < 4 THEN 1 ELSE 4],
              [n \in 1..9 |-> IF n = 4 THEN 1 ELSE IF n > 4 THEN 3 ELSE 5],
              [n \in 1..9 |-> IF n = 1 THEN 1 ELSE IF n > 6 THEN 0 ELSE 4]},
        f \in {{}, {0, 2, 4}}}
\* Cavities that are good all the way; good once swapped or collapsed; bad from some
\* point on, whatever is done, or from the start; equally bad both ways; better one
\* way first, the other way later; inverted.  None becomes bad at Target itself: only
\* numbers that cannot be halved any more keep the program from coming closer to such
\* a target for ever.
Steady == << <<6, 0>>, <<3, 0>> >>
Mending == << <<1, 0>>, <<6, 5>>, <<5, 0>> >>
Cavities == {Steady, Mending,
             << <<5, 25>>, <<4, 13>> >>,
             << <<5, 89>>, <<4, 97>> >>,
             << <<5, 179>>, <<4, 191>> >>,
             << <<2, 0>>, <<2, 0>> >>,
             << <<1, 89>>, <<1, 97>> >>,
             << <<3, 5>>, <<2, 0>>, <<4, 5>> >>,
             << <<-1, 0>>, <<-1, 0>> >>}
AdaptMeshes == [chain : Rows, elems : Shapes, cavity : {Steady, Mending}]
                 \cup [chain : {<<3>>, <<1, 1, 5>>}, elems : {AnyLength}, cavity : Cavities]
\* Any of the four steps, on a straight mesh with or without the check for flips, or a
\* curved one without it, and with one of its options off; without a model, with one,
\* or with one and failures allowed.
AdaptOptions ==
    {o \in [refine : BOOLEAN, coarsen : BOOLEAN, swap : BOOLEAN, slivers : BOOLEAN,
            curved : BOOLEAN, crv_qual : BOOLEAN, filter : BOOLEAN, noflip : BOOLEAN,
            model : BOOLEAN, stall_ok : BOOLEAN, allowed : {2}, desired : {4}] :
        /\ o.crv_qual \/ (o.curved /\ o.filter)
        /\ o.filter \/ o.curved
        /\ o.noflip => ~o.curved
        /\ o.stall_ok => o.model}

Adp == INSTANCE Adapt WITH
    Meshes <- AdaptMeshes, Options <- AdaptOptions,
    Goals <- {"adapt", "warp", "approach"},
    MinLen <- 2, MaxLen <- 4, MaxAllowed <- 9, Best <- 6, MaxIters <- 3

-----------------------------------------------------------------------------
(* RcFields.  Fields are made for everything classified.                    *)
Rc == INSTANCE RcFields WITH
    MaxEnts <- 3, NModel <- 2, Names <- {"f", "g"}, IdLists <- {<<>>},
    LateClassify <- FALSE, MaxScopes <- 2, tags <- rcTags, failed <- rcFailed

-----------------------------------------------------------------------------
(* R3d: edges, triangles and tetrahedra that overlap or touch, planes that  *)
(* pass beside them, through corners and through their middle; solids whose *)
(* corners have three, four or both numbers of faces, and a polygon.        *)
Overlapping ==
    {<<<<0>>, <<2>>>>, <<<<1>>, <<5>>>>,
     <<<<0, 0>>, <<4, 0>>, <<0, 4>>>>, <<<<4, 4>>, <<0, 4>>, <<2, 0>>>>,
     <<<<1, 1>>, <<3, 2>>, <<2, 4>>>>,
     <<<<0, 0, 0>>, <<4, 0, 0>>, <<0, 4, 0>>, <<0, 0, 4>>>>,
     <<<<0, 0, 4>>, <<4, 4, 0>>, <<2, 0, 0>>, <<0, 4, 2>>>>,
     <<<<1, 1, 0>>, <<3, 1, 0>>, <<1, 3, 0>>, <<1, 1, 2>>>>}
Cuts == <<{[n |-> <<1>>, d |-> -1], [n |-> <<-2>>, d |-> 3]},
          {[n |-> <<1, 0>>, d |-> -2], [n |-> <<1, 1>>, d |-> -4],
           [n |-> <<-1, 1>>, d |-> 0], [n |-> <<1, -2>>, d |-> 2]},
          {[n |-> <<1, 0, 0>>, d |-> -2], [n |-> <<1, 1, 1>>, d |-> -4],
           [n |-> <<-1, 1, 0>>, d |-> 0], [n |-> <<1, -2, 1>>, d |-> 0],
           [n |-> <<0, 0, -1>>, d |-> 1]}>>
Cube == [points |-> <<<<0, 0, 0>>, <<2, 0, 0>>, <<2, 2, 0>>, <<0, 2, 0>>,
                      <<0, 0, 2>>, <<2, 0, 2>>, <<2, 2, 2>>, <<0, 2, 2>>>>,
         faces |-> <<<<1, 4, 3, 2>>, <<5, 6, 7, 8>>, <<1, 2, 6, 5>>,
                     <<2, 3, 7, 6>>, <<3, 4, 8, 7>>, <<4, 1, 5, 8>>>>]
Steeple == [points |-> <<<<0, 0, 0>>, <<2, 0, 0>>, <<2, 2, 0>>, <<0, 2, 0>>, <<0, 0, 2>>>>,
            faces |-> <<<<1, 4, 3, 2>>, <<1, 2, 5>>, <<2, 3, 5>>, <<3, 4, 5>>, <<4, 1, 5>>>>]
Octahedron ==
    [points |-> <<<<2, 0, 0>>, <<0, 2, 0>>, <<-2, 0, 0>>, <<0, -2, 0>>, <<0, 0, 2>>, <<0, 0, -2>>>>,
     faces |-> <<<<1, 2, 5>>, <<2, 3, 5>>, <<3, 4, 5>>, <<4, 1, 5>>,
                 <<2, 1, 6>>, <<3, 2, 6>>, <<4, 3, 6>>, <<1, 4, 6>>>>]
Quad == [points |-> <<<<0, 0>>, <<3, 0>>, <<4, 3>>, <<0, 2>>>>, faces |-> <<>>]

R3 == INSTANCE R3d WITH
    Starts <- Overlapping, Planes <- Cuts, MaxClips <- 2,
    Solids <- {Cube, Steeple, Octahedron, Quad}, start <- simplex, poly <- polytope

-----------------------------------------------------------------------------
\* A part that a behaviour is not about.
AdjOff == /\ adjMesh = 0 /\ adjs = 0 /\ asks = 0
AmrOff == /\ amrVerts = 0 /\ amrLeaf = 0 /\ amrParent = 0 /\ amrLevel = 0 /\ amrPhase = 0
ModOff == /\ modMesh = 0 /\ nents = 0
AdaptOff == /\ pc = 0 /\ goal = 0 /\ opts = 0 /\ allowed = 0 /\ desired = 0
            /\ longest = 0 /\ chain = 0 /\ elems = 0 /\ cavity = 0 /\ way = 0 /\ at = 0
            /\ left = 0 /\ snapping = 0 /\ try = 0 /\ did = 0 /\ minqual = 0
RcOff == /\ class_id = 0 /\ revClass = 0 /\ rcTags = 0 /\ rcs = 0 /\ scopes = 0
         /\ stored = 0 /\ rcFailed = 0
ClipOff == /\ simplex = 0 /\ polytope = 0 /\ clips = 0

AmrModes == {"amr2d", "amr3d", "enforced"}
ModModes == {"rect", "disk", "tets", "axis"}
Modes == AmrModes \cup ModModes \cup {"adjacency", "adapt", "rc", "clip", "tags"}

MeshInit ==
    /\ mode \in Modes
    /\ Init
    /\ IF mode = "adjacency" THEN Adj!Init ELSE AdjOff
    /\ CASE mode \in {"amr2d", "enforced"} -> Amr2d!Init
         [] mode = "amr3d" -> Amr3d!Init
         [] OTHER -> AmrOff
    /\ CASE mode = "rect" -> ModRect!Init
         [] mode = "disk" -> ModDisk!Init
         [] mode = "tets" -> ModTets!Init
         [] mode = "axis" -> ModAxis!Init
         [] OTHER -> ModOff
    /\ IF mode = "adapt" THEN Adp!Init ELSE AdaptOff
    /\ IF mode = "rc" THEN Rc!Init ELSE RcOff
    /\ IF mode = "clip" THEN R3!Init ELSE ClipOff

AdjStep ==
    /\ mode = "adjacency" /\ Adj!Next
    /\ UNCHANGED <<mode, vars, amrVars, modVars, adaptVars, rcVars, clipVars>>
AmrStep ==
    /\ \/ mode = "amr2d" /\ Amr2d!Next
       \/ mode = "enforced" /\ Amr2d!RefineEnforced
       \/ mode = "amr3d" /\ Amr3d!Next
    /\ UNCHANGED <<mode, vars, adjVars, modVars, adaptVars, rcVars, clipVars>>
ModStep ==
    /\ \/ mode = "rect" /\ ModRect!Next
       \/ mode = "disk" /\ ModDisk!Next
       \/ mode = "tets" /\ ModTets!Next
       \/ mode = "axis" /\ ModAxis!Next
    /\ UNCHANGED <<mode, vars, adjVars, amrVars, adaptVars, rcVars, clipVars>>
AdaptStep ==
    /\ mode = "adapt" /\ Adp!Next
    /\ UNCHANGED <<mode, vars, adjVars, amrVars, modVars, rcVars, clipVars>>
RcStep ==
    /\ mode = "rc" /\ Rc!Next
    /\ UNCHANGED <<mode, vars, adjVars, amrVars, modVars, adaptVars, clipVars>>
ClipStep ==
    /\ mode = "clip" /\ R3!Next
    /\ UNCHANGED <<mode, vars, adjVars, amrVars, modVars, adaptVars, rcVars>>

TagsStep ==
    /\ mode = "tags" /\ Next
    /\ UNCHANGED <<mode, adjVars, amrVars, modVars, adaptVars, rcVars, clipVars>>

MeshNext == AdjStep \/ AmrStep \/ ModStep \/ AdaptStep \/ RcStep \/ ClipStep \/ TagsStep

\* One thread runs an adaptation to its end.
MeshSpec == MeshInit /\ [][MeshNext]_meshVars /\ WF_meshVars(AdaptStep)

-----------------------------------------------------------------------------
\* Every part's state has its type.
MeshTypeOK ==
    /\ mode = "adjacency" => Adj!TypeOK
    /\ mode \in {"amr2d", "enforced"} => Amr2d!TypeOK
    /\ mode = "rect" => ModRect!TypeOK
    /\ mode = "adapt" => Adp!TypeOK
    /\ mode = "tags" => TypeOK

\* Whatever was derived through whichever entities in between, the l-th entity
\* of a lower type that an entity is said to have is the one bounded by the
\* vertices the reference element names (derive_adj: transit, reflect_down).
DownIsTrue == mode = "adjacency" => Adj!DownIsTrue

\* The code kept with it turns the entity's own list of vertices into the list
\* the reference element names: fields with a direction (edge fluxes, control
\* points of a curved face) are read the right way round (find_matches, align_adj).
DirectionsAreTrue == mode = "adjacency" /\ adjMesh \in Families => Adj!DirectionsAreTrue

\* invert_adj and its codes: an upward adjacency lists every higher entity once,
\* in order, and the code's number and alignment lead back to the low itself.
UpInvertsDown == mode = "adjacency" => Adj!UpInvertsDown

\* The neighbours of an entity (verts_across_edges, edges_across_tris,
\* elements_across_sides): each exactly once for every entity that joins the two.
AcrossIsSymmetric == mode = "adjacency" => Adj!AcrossIsSymmetric

\* Whatever amr::refine and amr::derefine did, the leaves are boxes of the size
\* of their level in the order of the reference element, they do not overlap,
\* and they fill the domain.
LeavesTile ==
    /\ mode \in {"amr2d", "enforced"} => Amr2d!LeavesTile
    /\ mode = "amr3d" => Amr3d!LeavesTile

\* Every boundary entity of a hypercube is in the mesh, and none is there that
\* no element uses (refine's split templates, mark_persisting_ents).
Conforms ==
    /\ mode \in {"amr2d", "enforced"} => Amr2d!Conforms
    /\ mode = "amr3d" => Amr3d!Conforms

\* In the tree an edge, face or region is a leaf or has all of its children, of
\* its own dimension and of the lower ones, one level further down
\* (transfer_parents, transfer_levels).
ChildrenComplete ==
    /\ mode \in {"amr2d", "enforced"} => Amr2d!ChildrenComplete
    /\ mode = "amr3d" => Amr3d!ChildrenComplete

\* amr::refine makes no entity twice and none that is there already, although an
\* edge or face is marked by several elements and may have been refined before.
NoDuplicates ==
    /\ mode \in {"amr2d", "enforced"} => Amr2d!NoDuplicates
    /\ mode = "amr3d" => Amr3d!NoDuplicates

\* For callers that go through enforce_2to1_refine the check of
\* get_refined_topology never fails.
NeverFails == mode = "enforced" => Amr2d!NeverFails

\* refine, coarsen and swap derive the products of every dimension on their own,
\* and they fit together: a mesh holds the faces of its elements, each once, and
\* nothing else.
Closed ==
    /\ mode = "rect" => ModRect!Closed
    /\ mode = "disk" => ModDisk!Closed
    /\ mode = "tets" => ModTets!Closed
    /\ mode = "axis" => ModAxis!Closed

\* An entity is classified on the model entity it lies on, although products
\* only inherit from the entity they replace and check_collapse_class compares
\* dimensions only.
ClassIsTrue ==
    /\ mode = "rect" => ModRect!ClassIsTrue
    /\ mode = "tets" => ModTets!ClassIsTrue

\* A side lies between two elements, or bounds one where it is on the outer
\* boundary of the model (check_collapse_exposure).
Conforming ==
    /\ mode = "disk" => ModDisk!Conforming
    /\ mode = "tets" => ModTets!Conforming

\* No tetrahedron that refine, coarsen or swap makes is stored in an order that
\* inverts it.
Upright ==
    /\ mode = "tets" => ModTets!Upright
    /\ mode = "axis" => ModAxis!Upright

\* Wherever an edge can be swapped, the tables of Omega_h_swap3d_tables.hpp offer
\* every triangulation of the loop around it, none twice.
SwapOffersEverything == mode = "axis" => ModAxis!SwapOffersEverything

\* Each region of the model stays filled: what a cavity loses is made up for
\* by the products, region by region.
RegionsStayFilled ==
    /\ mode = "rect" => ModRect!RegionsStayFilled
    /\ mode = "tets" => ModTets!RegionsStayFilled
    /\ mode = "axis" => ModAxis!RegionsStayFilled

\* warp_to_limit goes where the whole was to go: what is done and what is left
\* add up to the same position, while halving too.
TargetKept == mode = "adapt" => Adp!TargetKept

\* When lengths have been addressed, every edge that is still too long and every
\* short edge that is still there would have made an element that the filters of
\* refine and coarsen, or the trial of a curved mesh, refuse (satisfy_lengths).
LengthsAddressed == mode = "adapt" => Adp!LengthsAddressed

\* A warp or a metric is reached in the end, or the program says it failed.
NothingLeft == mode = "adapt" => Adp!NothingLeft

\* What refine and coarsen make is as good as is allowed or as what was there, and
\* swaps and collapses of slivers never make the worst element worse; only splits
\* and swaps of a curved mesh may (adapt, coarsen_slivers).
QualityKept == [][mode = "adapt" => Adp!KeepsQuality]_adaptVars

\* Every part of a move leaves a mesh that has min_quality_allowed, unless the rest
\* of the way to the surface of a model is given up (warp_to_limit).
MoveLeavesOkay == [][mode = "adapt" => Adp!LeavesOkay]_adaptVars

\* Calls of adapt, warp_to_limit, approach_metric and grade_fix_adapt end, except
\* those that change a curved mesh, or find nothing to change in it, for ever ...
Ends == <>(mode = "adapt" => Adp!Ended \/ Adp!GoesRound)

\* ... and these are really the ones that never end.
StaysRound == [][mode = "adapt" => Adp!StaysRound]_adaptVars

\* Through any nesting of scopes, migrations and synchronisations a field on model
\* entities keeps the values it was given, each with its entity
\* (change_all_rcFieldsToMesh, change_all_rcFieldsTorc, push_tags).
FieldKept == mode = "rc" => Rc!FieldKept

\* A field is in one of its forms, and every form is undone: when no scope is
\* open nothing is left in the form of a tag (changed_here_).
ScopesUndone == mode = "rc" => Rc!ScopesUndone

\* Clipping leaves polytopes whose links agree from both ends, inside all planes;
\* what is on both sides of a plane adds up to the whole, in every moment, and it
\* does not matter which of two simplices is clipped by the other, so that what
\* an old element hands to the new ones adds up to what it held (clip,
\* finalize_links, reduce, intersect_simplices).
IntersectionsAddUp ==
    mode = "clip" =>
        /\ R3!WellLinked /\ R3!InsideAll
        /\ R3!NothingLost /\ R3!IntersectsAlike
        /\ R3!MomentsAdd /\ R3!SimplexMoments
        /\ R3!SolidsAreFilled
-----------------------------------------------------------------------------
(* What is checked, as conjunctions of the parts above. *)

\* Whatever is derived, refined, coarsened or swapped, and in whatever order, the
\* mesh stays a mesh: its entities are found through each other in the order and
\* direction they are stored in, they fill the domain without overlap, each is
\* there once, and each lies where it is classified.
MeshStaysAMesh ==
    /\ MeshTypeOK
    /\ DownIsTrue /\ DirectionsAreTrue /\ UpInvertsDown /\ AcrossIsSymmetric
    /\ NeverFails /\ LeavesTile /\ Conforms /\ ChildrenComplete /\ NoDuplicates
    /\ Closed /\ ClassIsTrue /\ Conforming /\ RegionsStayFilled
    /\ Upright /\ SwapOffersEverything

\* Whatever is done to the mesh, what the program keeps about it stays true: the
\* position or metric that is still to be reached, the fields on model entities
\* in whichever form they are at the moment, and the sizes of the intersections by
\* which a conserved field is handed to new elements.
KeptDataStayTrue ==
    /\ TargetKept /\ LengthsAddressed /\ NothingLeft
    /\ FieldKept /\ ScopesUndone /\ IntersectionsAddUp

\* Adaptation and moving end, but for the calls on curved meshes that can be told
\* beforehand, and no step towards the end makes the worst element worse than it was or,
\* while moving, than is allowed, but for those that do not ask.
AdaptsAndEnds == QualityKept /\ MoveLeavesOkay /\ Ends /\ StaysRound
=============================================================================
