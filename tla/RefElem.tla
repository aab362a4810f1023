------------------------------- MODULE RefElem -------------------------------
(***************************************************************************)
(* The reference elements: which vertices bound which boundary entity of   *)
(* a simplex (Omega_h_simplex.hpp), a hypercube (Omega_h_hypercube.hpp), a *)
(* wedge or a pyramid (Omega_h_element.hpp), how a cube is split, and the  *)
(* seven-bit codes that relate two representations of one entity           *)
(* (Omega_h_align.hpp); at the end, small simplex meshes whose edges and   *)
(* faces are stored once and from any vertex, as in the arrays of Mesh.    *)
(*                                                                         *)
(* Local numbers start at 0 as in the code; a table is a sequence, so the  *)
(* entry of local number i is at i + 1.                                    *)
(***************************************************************************)
EXTENDS Integers, SequencesExt

\* Topo_type
vertex == 0
edge == 1
triangle == 2
quadrilateral == 3
tetrahedron == 4
hexahedron == 5
wedge == 6
pyramid == 7

TopoDim(t) == <<0, 1, 2, 2, 3, 3, 3, 3>>[t + 1]

-----------------------------------------------------------------------------
\* The vertices of the boundary simplices of a simplex, by their number.
simplex_down_template(elem_dim, bdry_dim) ==
    CASE bdry_dim = 0 -> [i \in 1..(elem_dim + 1) |-> <<i - 1>>]
      [] elem_dim = 2 -> <<<<0, 1>>, <<1, 2>>, <<2, 0>>>>
      [] bdry_dim = 1 -> <<<<0, 1>>, <<1, 2>>, <<2, 0>>, <<0, 3>>, <<1, 3>>, <<2, 3>>>>
      [] OTHER -> <<<<0, 2, 1>>, <<0, 1, 3>>, <<1, 2, 3>>, <<2, 0, 3>>>>

\* The entities one dimension up around a boundary simplex: the number of each,
\* the number the simplex has in it, and whether it points the other way there.
simplex_up_template(elem_dim, bdry_dim) ==
    CASE elem_dim = 2 ->
            <<<< <<0, 0, 0>>, <<2, 1, 0>> >>,
              << <<1, 0, 0>>, <<0, 1, 0>> >>,
              << <<2, 0, 0>>, <<1, 1, 0>> >>>>
      [] bdry_dim = 0 ->
            <<<< <<0, 0, 0>>, <<2, 1, 0>>, <<3, 0, 0>> >>,
              << <<1, 0, 0>>, <<0, 1, 0>>, <<4, 0, 0>> >>,
              << <<2, 0, 0>>, <<1, 1, 0>>, <<5, 0, 0>> >>,
              << <<5, 1, 0>>, <<4, 1, 0>>, <<3, 1, 0>> >>>>
      [] OTHER ->
            <<<< <<0, 2, 1>>, <<1, 0, 0>> >>, << <<0, 1, 1>>, <<2, 0, 0>> >>,
              << <<0, 0, 1>>, <<3, 0, 0>> >>, << <<1, 2, 1>>, <<3, 1, 0>> >>,
              << <<2, 2, 1>>, <<1, 1, 0>> >>, << <<3, 2, 1>>, <<2, 1, 0>> >>>>

\* The boundary simplex that shares no vertex with the given one.
simplex_opposite_template(elem_dim, bdry_dim) ==
    CASE elem_dim = 1 -> <<1, 0>>
      [] elem_dim = 2 /\ bdry_dim = 0 -> <<1, 2, 0>>
      [] elem_dim = 2 /\ bdry_dim = 1 -> <<2, 0, 1>>
      [] bdry_dim = 0 -> <<2, 3, 1, 0>>
      [] bdry_dim = 1 -> <<5, 3, 4, 1, 2, 0>>
      [] OTHER -> <<3, 2, 0, 1>>

hypercube_down_template(elem_dim, bdry_dim) ==
    CASE bdry_dim = 0 -> [i \in 1..(2^elem_dim) |-> <<i - 1>>]
      [] elem_dim = 2 -> <<<<0, 1>>, <<1, 2>>, <<2, 3>>, <<3, 0>>>>
      [] bdry_dim = 1 ->
            <<<<0, 1>>, <<1, 2>>, <<2, 3>>, <<3, 0>>, <<0, 4>>, <<1, 5>>,
              <<2, 6>>, <<3, 7>>, <<4, 5>>, <<5, 6>>, <<6, 7>>, <<7, 4>>>>
      [] OTHER ->
            <<<<1, 0, 3, 2>>, <<0, 1, 5, 4>>, <<1, 2, 6, 5>>,
              <<2, 3, 7, 6>>, <<3, 0, 4, 7>>, <<4, 5, 6, 7>>>>

quad_up_template ==
    <<<< <<3, 1, 0>>, <<0, 0, 0>> >>, << <<0, 1, 0>>, <<1, 0, 0>> >>,
      << <<1, 1, 0>>, <<2, 0, 0>> >>, << <<2, 1, 0>>, <<3, 0, 0>> >>>>

hex_vertex_up_template ==
    <<<< <<0, 0, 0>>, <<3, 1, 0>>, <<4, 0, 0>> >>,
      << <<1, 0, 0>>, <<0, 1, 0>>, <<5, 0, 0>> >>,
      << <<2, 0, 0>>, <<1, 1, 0>>, <<6, 0, 0>> >>,
      << <<3, 0, 0>>, <<2, 1, 0>>, <<7, 0, 0>> >>,
      << <<8, 0, 0>>, <<11, 1, 0>>, <<4, 1, 0>> >>,
      << <<9, 0, 0>>, <<8, 1, 0>>, <<5, 1, 0>> >>,
      << <<10, 0, 0>>, <<9, 1, 0>>, <<6, 1, 0>> >>,
      << <<11, 0, 0>>, <<10, 1, 0>>, <<7, 1, 0>> >>>>

hex_edge_up_template ==
    <<<< <<0, 0, 1>>, <<1, 0, 0>> >>, << <<0, 3, 1>>, <<2, 0, 0>> >>,
      << <<0, 2, 1>>, <<3, 0, 0>> >>, << <<0, 1, 1>>, <<4, 0, 0>> >>,
      << <<1, 3, 1>>, <<4, 1, 0>> >>, << <<2, 3, 1>>, <<1, 1, 0>> >>,
      << <<3, 3, 1>>, <<2, 1, 0>> >>, << <<4, 3, 1>>, <<3, 1, 0>> >>,
      << <<5, 0, 0>>, <<1, 2, 1>> >>, << <<5, 1, 0>>, <<2, 2, 1>> >>,
      << <<5, 2, 0>>, <<3, 2, 1>> >>, << <<5, 3, 0>>, <<4, 2, 1>> >>>>

hypercube_up_template(elem_dim, bdry_dim) ==
    IF elem_dim = 2 THEN quad_up_template
    ELSE IF bdry_dim = 0 THEN hex_vertex_up_template ELSE hex_edge_up_template

-----------------------------------------------------------------------------
\* hypercube_split_template: the vertices of the children of a cube, each the
\* middle of the boundary entity <<dimension, number>>; the children inside the
\* cube only, those on its boundary are the children of the boundary entities.
edge_split_template(child_dim) ==
    IF child_dim = 0 THEN <<<< <<1, 0>> >>>>
    ELSE <<<< <<0, 0>>, <<1, 0>> >>, << <<1, 0>>, <<0, 1>> >>>>

quad_split_template(child_dim) ==
    CASE child_dim = 0 -> <<<< <<2, 0>> >>>>
      [] child_dim = 1 -> [i \in 1..4 |-> << <<1, i - 1>>, <<2, 0>> >>]
      [] OTHER ->
            <<<< <<0, 0>>, <<1, 0>>, <<2, 0>>, <<1, 3>> >>,
              << <<1, 0>>, <<0, 1>>, <<1, 1>>, <<2, 0>> >>,
              << <<2, 0>>, <<1, 1>>, <<0, 2>>, <<1, 2>> >>,
              << <<1, 3>>, <<2, 0>>, <<1, 2>>, <<0, 3>> >>>>

hex_quad_split_template ==
    <<<< <<1, 0>>, <<2, 0>>, <<3, 0>>, <<2, 1>> >>,
      << <<2, 0>>, <<1, 1>>, <<2, 2>>, <<3, 0>> >>,
      << <<2, 0>>, <<1, 2>>, <<2, 3>>, <<3, 0>> >>,
      << <<1, 3>>, <<2, 0>>, <<3, 0>>, <<2, 4>> >>,
      << <<1, 4>>, <<2, 1>>, <<3, 0>>, <<2, 4>> >>,
      << <<2, 1>>, <<1, 5>>, <<2, 2>>, <<3, 0>> >>,
      << <<3, 0>>, <<2, 2>>, <<1, 6>>, <<2, 3>> >>,
      << <<2, 4>>, <<3, 0>>, <<2, 3>>, <<1, 7>> >>,
      << <<2, 1>>, <<3, 0>>, <<2, 5>>, <<1, 8>> >>,
      << <<3, 0>>, <<2, 2>>, <<1, 9>>, <<2, 5>> >>,
      << <<3, 0>>, <<2, 3>>, <<1, 10>>, <<2, 5>> >>,
      << <<2, 4>>, <<3, 0>>, <<2, 5>>, <<1, 11>> >>>>

hex_hex_split_template ==
    <<<< <<0, 0>>, <<1, 0>>, <<2, 0>>, <<1, 3>>, <<1, 4>>, <<2, 1>>, <<3, 0>>, <<2, 4>> >>,
      << <<1, 0>>, <<0, 1>>, <<1, 1>>, <<2, 0>>, <<2, 1>>, <<1, 5>>, <<2, 2>>, <<3, 0>> >>,
      << <<2, 0>>, <<1, 1>>, <<0, 2>>, <<1, 2>>, <<3, 0>>, <<2, 2>>, <<1, 6>>, <<2, 3>> >>,
      << <<1, 3>>, <<2, 0>>, <<1, 2>>, <<0, 3>>, <<2, 4>>, <<3, 0>>, <<2, 3>>, <<1, 7>> >>,
      << <<1, 4>>, <<2, 1>>, <<3, 0>>, <<2, 4>>, <<0, 4>>, <<1, 8>>, <<2, 5>>, <<1, 11>> >>,
      << <<2, 1>>, <<1, 5>>, <<2, 2>>, <<3, 0>>, <<1, 8>>, <<0, 5>>, <<1, 9>>, <<2, 5>> >>,
      << <<3, 0>>, <<2, 2>>, <<1, 6>>, <<2, 3>>, <<2, 5>>, <<1, 9>>, <<0, 6>>, <<1, 10>> >>,
      << <<2, 4>>, <<3, 0>>, <<2, 3>>, <<1, 7>>, <<1, 11>>, <<2, 5>>, <<1, 10>>, <<0, 7>> >>>>

hex_split_template(child_dim) ==
    CASE child_dim = 0 -> <<<< <<3, 0>> >>>>
      [] child_dim = 1 -> [i \in 1..6 |-> << <<2, i - 1>>, <<3, 0>> >>]
      [] child_dim = 2 -> hex_quad_split_template
      [] OTHER -> hex_hex_split_template

hypercube_split_template(parent_dim, child_dim) ==
    CASE parent_dim = 1 -> edge_split_template(child_dim)
      [] parent_dim = 2 -> quad_split_template(child_dim)
      [] OTHER -> hex_split_template(child_dim)

-----------------------------------------------------------------------------
wedge_down_template(bdry) ==
    CASE bdry = vertex -> [i \in 1..6 |-> <<i - 1>>]
      [] bdry = edge -> <<<<0, 1>>, <<1, 2>>, <<2, 0>>, <<0, 3>>, <<1, 4>>,
                          <<2, 5>>, <<4, 3>>, <<5, 4>>, <<3, 5>>>>
      [] bdry = triangle -> <<<<1, 0, 2>>, <<3, 4, 5>>>>
      [] OTHER -> <<<<0, 1, 4, 3>>, <<1, 2, 5, 4>>, <<2, 0, 3, 5>>>>

pyramid_down_template(bdry) ==
    CASE bdry = vertex -> [i \in 1..5 |-> <<i - 1>>]
      [] bdry = edge -> <<<<0, 1>>, <<1, 2>>, <<2, 3>>, <<3, 0>>,
                          <<0, 4>>, <<1, 4>>, <<2, 4>>, <<3, 4>>>>
      [] bdry = triangle -> <<<<0, 1, 4>>, <<1, 2, 4>>, <<2, 3, 4>>, <<3, 0, 4>>>>
      [] OTHER -> <<<<1, 0, 3, 2>>>>

\* The vertices of the boundary entities of type bdry of an element.
element_down_template(elem, bdry) ==
    CASE elem = pyramid -> pyramid_down_template(bdry)
      [] elem = wedge -> wedge_down_template(bdry)
      [] elem \in {hexahedron, quadrilateral} ->
            hypercube_down_template(TopoDim(elem), TopoDim(bdry))
      [] OTHER -> simplex_down_template(TopoDim(elem), TopoDim(bdry))

\* A wedge's edges are found through its quadrilaterals, one way only.
wedge_up_template(bdry) ==
    IF bdry = vertex
    THEN << << <<0, 0, 0>> >>, << <<1, 0, 0>> >>, << <<2, 0, 0>> >>,
            << <<6, 1, 0>> >>, << <<7, 1, 0>> >>, << <<8, 1, 0>> >> >>
    ELSE << << <<0, 0, 0>> >>, << <<1, 0, 0>> >>, << <<2, 0, 0>> >>,
            << <<0, 3, 0>> >>, << <<1, 3, 0>> >>, << <<2, 3, 0>> >>,
            << <<0, 2, 0>> >>, << <<1, 2, 0>> >>, << <<2, 2, 0>> >> >>

\* A pyramid's edges are found through its triangles.
pyramid_up_template(bdry) ==
    IF bdry = vertex
    THEN << << <<0, 0, 0>> >>, << <<1, 0, 0>> >>, << <<2, 0, 0>> >>,
            << <<3, 0, 0>> >>, << <<4, 0, 0>> >> >>
    ELSE << << <<0, 0, 0>> >>, << <<1, 0, 0>> >>, << <<2, 0, 0>> >>, << <<3, 0, 0>> >>,
            << <<0, 2, 0>> >>, << <<1, 2, 0>> >>, << <<2, 2, 0>> >>, << <<3, 2, 0>> >> >>

element_up_template(elem, bdry) ==
    CASE elem = pyramid -> pyramid_up_template(bdry)
      [] elem = wedge -> wedge_up_template(bdry)
      [] elem \in {hexahedron, quadrilateral} ->
            hypercube_up_template(TopoDim(elem), TopoDim(bdry))
      [] OTHER -> simplex_up_template(TopoDim(elem), TopoDim(bdry))

\* element_degree, -1 for a type that does not bound the element.
element_degree(from, to) ==
    << << 1, -1, -1, -1, -1, -1, -1, -1 >>,
       << 2,  1, -1, -1, -1, -1, -1, -1 >>,
       << 3,  3,  1, -1, -1, -1, -1, -1 >>,
       << 4,  4, -1,  1, -1, -1, -1, -1 >>,
       << 4,  6,  4, -1,  1, -1, -1, -1 >>,
       << 8, 12, -1,  6, -1,  1, -1, -1 >>,
       << 6,  9,  2,  3, -1, -1,  1, -1 >>,
       << 5,  8,  4,  1, -1, -1, -1,  1 >> >>[from + 1][to + 1]

-----------------------------------------------------------------------------
\* Alignment codes: four bits of which_down, two of rotation, one of is_flipped.
code_is_flipped(code) == code % 2 = 1
code_rotation(code) == (code \div 2) % 4
code_which_down(code) == code \div 8
make_code(is_flipped, rotation, which_down) ==
    which_down * 8 + rotation * 2 + (IF is_flipped THEN 1 ELSE 0)

rotate_index(n, index, rotation) == (index + rotation) % n
invert_rotation(n, rotation) == (n - rotation) % n
rotation_to_first(n, new_first) == invert_rotation(n, new_first)
flip_vert_index(n, i) == IF i = 0 THEN 0 ELSE n - i
flip_edge_index(n, i) == n - 1 - i

\* Where the vertex, or the edge, with the given index goes.
align_index(n, index_dim, index, code) ==
    LET rotated == rotate_index(n, index, code_rotation(code)) IN
    IF ~code_is_flipped(code) THEN rotated
    ELSE IF index_dim = 0 THEN flip_vert_index(n, rotated) ELSE flip_edge_index(n, rotated)

\* Flipped codes are their own inverses.
invert_alignment(n, code) ==
    IF code_is_flipped(code) THEN code
    ELSE make_code(FALSE, invert_rotation(n, code_rotation(code)), 0)

\* code1 and then code2, found by what becomes of vertex 0.
compound_alignments(n, code1, code2) ==
    LET old_first == align_index(n, 0, align_index(n, 0, 0, code1), code2)
        is_flipped == code_is_flipped(code1) # code_is_flipped(code2) IN
    invert_alignment(n, make_code(is_flipped, rotation_to_first(n, old_first), 0))

\* align_adj: the list with its entries moved where the code puts them; the
\* rotation first, then the swap of the neighbours of the first entry.
align_adj(code, list) ==
    LET n == Len(list)
        rotated == [i \in 1..n |->
            list[rotate_index(n, i - 1, invert_rotation(n, code_rotation(code))) + 1]] IN
    IF ~code_is_flipped(code) \/ n = 2 THEN rotated
    ELSE [rotated EXCEPT ![2] = rotated[n], ![n] = rotated[2]]

\* The codes of an entity with n vertices.
Alignments(n) ==
    {make_code(f, r, 0) : f \in (IF n = 2 THEN {FALSE} ELSE BOOLEAN), r \in 0..(n - 1)}

-----------------------------------------------------------------------------
\* The sides of dimension d of the elements, as sets of vertices, each once, in
\* the order the elements bring them.
SidesOf(cells, d) ==
    LET down == simplex_down_template(Len(cells[1]) - 1, d)
        all == FlattenSeq([c \in DOMAIN cells |->
                  [k \in DOMAIN down |-> {cells[c][down[k][j] + 1] : j \in DOMAIN down[k]}]])
        firsts == SelectSeq([i \in DOMAIN all |-> i], LAMBDA i : \A j \in 1..(i - 1) : all[j] # all[i]) IN
    [e \in DOMAIN firsts |-> all[firsts[e]]]

Ascending(S) == SetToSortSeq(S, LAMBDA a, b : a < b)

Rolled(t, r) == [k \in DOMAIN t |-> t[((k + r - 1) % Len(t)) + 1]]

\* Every turn-th edge is stored against the order of its vertices.
EdgesOf(cells, turn) ==
    LET sides == SidesOf(cells, 1) IN
    [e \in DOMAIN sides |-> IF e % turn = 0 THEN Reverse(Ascending(sides[e])) ELSE Ascending(sides[e])]

\* Faces are stored from different vertices and in both directions.
TrianglesOf(cells, turn) ==
    LET sides == SidesOf(cells, 2) IN
    [f \in DOMAIN sides |->
        LET t == Ascending(sides[f]) IN Rolled(IF f % turn = 0 THEN Reverse(t) ELSE t, (f + turn) % 3)]
=============================================================================
