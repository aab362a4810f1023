------------------------------ MODULE Adjacency ------------------------------
(***************************************************************************)
(* Adjacencies of a mesh (Omega_h_adj.cpp) and the cache that holds them   *)
(* (Mesh::ask_adj, derive_adj).  A mesh is built from the vertices of its  *)
(* elements: edges and faces are the distinct ones among their uses        *)
(* (find_unique), the adjacency of one dimension down is found by matching *)
(* vertices (reflect_down) and stored; everything else is derived when     *)
(* first asked for: two levels down through the level between (transit),   *)
(* upward by inverting (invert_adj), sideways through neighbours.          *)
(*                                                                         *)
(* An adjacency from type a to type b is a sequence over the entities of   *)
(* type a of sequences of pairs <<entity of type b, alignment code>>; the  *)
(* offsets and flat arrays of Adj are its layout.  Entities are numbered   *)
(* from 0, entity i is at place i + 1.                                     *)
(***************************************************************************)
EXTENDS RefElem, SequencesExt, FiniteSetsExt

CONSTANTS Meshes,    \* the meshes: sets of [type, ev2v]
          MaxAsks,   \* bound: calls of ask_adj that derive something
          MaxTurned  \* bound: among how many faces one is represented otherwise

VARIABLES
    mesh,    \* the mesh given by its elements' vertices
    adjs,    \* adjs_: the adjacencies stored so far, by <<from, to>>
    asks     \* how many were asked for

vars == <<mesh, adjs, asks>>

-----------------------------------------------------------------------------
\* form_uses: the boundary entities of each element, as lists of vertices.
form_uses(hv2v, high, low) ==
    LET down == element_down_template(high, low) IN
    FlattenSeq([h \in DOMAIN hv2v |->
        [u \in DOMAIN down |-> [j \in DOMAIN down[u] |-> hv2v[h][down[u][j] + 1]]]])

\* get_codes_to_canonical: smallest vertex first, the smaller neighbour next.
get_code_to_canonical(list) ==
    LET n == Len(list)
        min_j == CHOOSE j \in 0..(n - 1) : \A k \in 0..(n - 1) : list[j + 1] <= list[k + 1]
        rotation == rotation_to_first(n, min_j)
        tmp == align_adj(make_code(FALSE, rotation, 0), list) IN
    make_code(n # 2 /\ tmp[n] < tmp[2], rotation, 0)

canonical(list) == align_adj(get_code_to_canonical(list), list)

\* CompareKeySets: lexicographic.
KeyLess(a, b) ==
    \E i \in DOMAIN a : a[i] < b[i] /\ \A j \in 1..(i - 1) : a[j] = b[j]

\* find_unique_deg: one use of each entity in the order of the canonical lists;
\* the sort is stable and a jump marks the last of a group of equals.
find_unique(uses) ==
    LET canon == [i \in DOMAIN uses |-> canonical(uses[i])]
        last == SelectSeq([i \in DOMAIN uses |-> i],
                          LAMBDA i : \A j \in (i + 1)..Len(uses) : canon[j] # canon[i])
        e2u == SortSeq(last, LAMBDA i, j : KeyLess(canon[i], canon[j])) IN
    [e \in DOMAIN e2u |-> uses[e2u[e]]]

\* IsMatch: the use a is entity b seen from b's vertex number w; NoCode if not.
NoCode == -1
IsMatch(a, b, w) ==
    LET n == Len(a)
        B(k) == b[((w + k) % n) + 1] IN
    IF n = 2 THEN (IF a[2] = B(1) THEN make_code(FALSE, w, 0) ELSE NoCode)
    ELSE IF n = 4 /\ a[3] # B(2) THEN NoCode
    ELSE IF a[2] = B(1) /\ a[n] = B(n - 1) THEN make_code(FALSE, rotation_to_first(n, w), 0)
    ELSE IF a[2] = B(n - 1) /\ a[n] = B(1) THEN make_code(TRUE, rotation_to_first(n, w), 0)
    ELSE NoCode

\* The uses of each low, gathered in the order of the highs, which is the order
\* sort_by_high_index restores whatever order the atomic counters gave.
gather(down, nlows, Code(_, _)) ==
    LET uses == FlattenSeq([h \in DOMAIN down |-> [j \in DOMAIN down[h] |->
                    <<down[h][j][1], <<h - 1, Code(down[h][j][2], j - 1)>>>>]]) IN
    [l \in 1..nlows |->
        LET mine == SelectSeq(uses, LAMBDA use : use[1] = l - 1) IN
        [i \in DOMAIN mine |-> mine[i][2]]]

\* invert_adj: the highs around each low, with the low's number in the high and
\* its alignment there.
invert_adj(down, nlows) ==
    gather(down, nlows,
           LAMBDA code, j : make_code(code_is_flipped(code), code_rotation(code), j))

\* find_matches: the entities that have the use's first vertex are tried.
find_matches(a, lv2v, v2l) ==
    CHOOSE m \in {<<x[1], IsMatch(a, lv2v[x[1] + 1], code_which_down(x[2]))>> :
                    x \in ToSet(v2l[a[1] + 1])} : m[2] # NoCode

reflect_down(hv2v, lv2v, v2l, high, low) ==
    LET uses == form_uses(hv2v, high, low)
        n == element_degree(high, low) IN
    [h \in DOMAIN hv2v |-> [u \in 1..n |-> find_matches(uses[(h - 1) * n + u], lv2v, v2l)]]

\* transit: a low is found through the first mid around it; the mid's alignment
\* tells which of its lows that is.  Edges are given a direction.
transit(h2m, m2l, high, mid, low) ==
    LET n == element_degree(mid, low) IN
    [h \in DOMAIN h2m |-> [hl \in 1..element_degree(high, low) |->
        LET ut == element_up_template(high, low)[hl][1]
            m == h2m[h][ut[1] + 1][1]
            hm2m_code == invert_alignment(n, h2m[h][ut[1] + 1][2])
            entry == m2l[m + 1][align_index(n, low, ut[2], hm2m_code) + 1]
            region_face_flipped == code_is_flipped(hm2m_code)
            face_edge_flipped == code_rotation(entry[2]) = 1
            canon_flipped == ut[3] = 1
            region_edge_flipped == (region_face_flipped # face_edge_flipped) # canon_flipped IN
        <<entry[1],
          IF low = edge /\ region_edge_flipped THEN make_code(FALSE, 1, 0) ELSE 0>>]]

verts_across_edges(e2v, v2e) ==
    [v \in DOMAIN v2e |-> [i \in DOMAIN v2e[v] |->
        e2v[v2e[v][i][1] + 1][2 - code_which_down(v2e[v][i][2])][1]]]

edges_across_tris(f2e, e2f) ==
    [e \in DOMAIN e2f |-> FlattenSeq([i \in DOMAIN e2f[e] |->
        LET f == e2f[e][i][1]
            ffe == code_which_down(e2f[e][i][2]) IN
        <<f2e[f + 1][((ffe + 1) % 3) + 1][1], f2e[f + 1][((ffe + 2) % 3) + 1][1]>>])]

edges_across_tets(r2e, e2r) ==
    [e \in DOMAIN e2r |-> [i \in DOMAIN e2r[e] |->
        LET opposite == simplex_opposite_template(3, 1)[code_which_down(e2r[e][i][2]) + 1] IN
        r2e[e2r[e][i][1] + 1][opposite + 1][1]]]

\* The element on the other side of each side that is not exposed.
elements_across_sides(e2s, s2e) ==
    LET is_exposed(s) == Len(s2e[s + 1]) < 2 IN
    [e \in DOMAIN e2s |->
        LET inner == SelectSeq(e2s[e], LAMBDA x : ~is_exposed(x[1])) IN
        [i \in DOMAIN inner |->
            LET there == s2e[inner[i][1] + 1] IN
            IF there[1][1] = e - 1 THEN there[2][1] ELSE there[1][1]]]

-----------------------------------------------------------------------------
\* The types of the sides of an element, and its edges.
Sides(t) == {s \in {edge, triangle, quadrilateral} :
                TopoDim(s) = TopoDim(t) - 1 /\ element_degree(t, s) > 0}
Types(t) == {s \in vertex..t : element_degree(t, s) > 0}
nverts(m) == 1 + Max(UNION {ToSet(m.ev2v[e]) : e \in DOMAIN m.ev2v})

\* Entity turn.at of type t represented otherwise, all of them if it is 0.
Turned(lists, t, turn) ==
    [i \in DOMAIN lists |-> IF turn.type = t /\ turn.at \in {i, 0} THEN align_adj(turn.code, lists[i]) ELSE lists[i]]

plain(lv) == [i \in DOMAIN lv |-> [j \in DOMAIN lv[i] |-> <<lv[i][j], 0>>]]
verts(adj) == [i \in DOMAIN adj |-> [j \in DOMAIN adj[i] |-> adj[i][j][1]]]

\* Every type's adjacency one dimension down, as build_ents_from_elems2verts finds
\* it; this is what a mesh holds when nothing else was asked for, as after it is
\* read from a file or migrated.  A mesh from elsewhere may represent its edges
\* and faces otherwise: the edges eturn, one face fturn.
built_adjs(m, eturn, fturn) ==
    LET ev == Turned(find_unique(form_uses(m.ev2v, m.type, edge)), edge, eturn)
        v2e == invert_adj(plain(ev), nverts(m))
        fv(t) == Turned(find_unique(form_uses(m.ev2v, m.type, t)), t, fturn)
        f2e(t) == reflect_down(fv(t), ev, v2e, t, edge)
        fverts(t) == verts(transit(f2e(t), plain(ev), t, edge, vertex))
        down(hi, lo) ==
            CASE hi = edge -> plain(ev)
              [] hi # m.type -> f2e(hi)
              [] lo = edge -> reflect_down(m.ev2v, ev, v2e, hi, lo)
              [] OTHER -> reflect_down(m.ev2v, fverts(lo),
                            invert_adj(plain(fverts(lo)), nverts(m)), hi, lo) IN
    [p \in {<<hi, lo>> \in Types(m.type) \X Types(m.type) : TopoDim(lo) = TopoDim(hi) - 1} |->
        down(p[1], p[2])]

EdgeTurns == [type : {edge}, at : {0}, code : Alignments(2)]
FaceTurns(m) ==
    IF TopoDim(m.type) = 2 THEN {[type |-> vertex, at |-> 0, code |-> 0]}
    ELSE UNION {[type : {t}, at : DOMAIN find_unique(form_uses(m.ev2v, m.type, t)) \cap 1..MaxTurned,
                 code : Alignments(element_degree(t, vertex))] : t \in Sides(m.type)}

Init ==
    /\ mesh \in Meshes
    /\ \E eturn \in EdgeTurns, fturn \in FaceTurns(mesh) :
            adjs = built_adjs(mesh, eturn, fturn)
    /\ asks = 0

-----------------------------------------------------------------------------
mid_type(from, to) ==
    IF to = vertex THEN edge
    ELSE IF from \in {tetrahedron, pyramid} THEN triangle
    ELSE quadrilateral

nents(known, t) ==
    IF t = vertex THEN nverts(mesh)
    ELSE Len(known[CHOOSE p \in DOMAIN known : p[1] = t /\ TopoDim(p[2]) = TopoDim(t) - 1])

Store(known, from, to, adj) ==
    [p \in DOMAIN known \cup {<<from, to>>} |->
        IF p = <<from, to>> THEN adj ELSE known[p]]

\* derive_adj(from, to) after the adjacencies it asks for are in the cache.
DownFrom(known, from, to) ==
    LET mid == mid_type(from, to) IN
    Store(known, from, to,
          transit(known[<<from, mid>>], known[<<mid, to>>], from, mid, to))

\* The cache after ask_adj(from, to) of a lower type: transit may ask in turn,
\* from regions to vertices through the edges.
AskDown(known, from, to) ==
    LET mid == mid_type(from, to) IN
    IF <<from, to>> \in DOMAIN known THEN known
    ELSE IF <<from, mid>> \in DOMAIN known THEN DownFrom(known, from, to)
    ELSE DownFrom(DownFrom(known, from, mid), from, to)

AskUp(known, from, to) ==
    IF <<from, to>> \in DOMAIN known THEN known
    ELSE LET k == AskDown(known, to, from) IN
         Store(k, from, to, invert_adj(k[<<to, from>>], nents(k, from)))

\* ask_down and ask_up: what is not in the cache is derived and kept.
AskLower(from, to) ==
    /\ asks < MaxAsks
    /\ to < from /\ element_degree(from, to) > 0
    /\ <<from, to>> \notin DOMAIN adjs
    /\ adjs' = AskDown(adjs, from, to)
    /\ asks' = asks + 1
    /\ UNCHANGED mesh

AskHigher(from, to) ==
    /\ asks < MaxAsks
    /\ from < to /\ element_degree(to, from) > 0
    /\ <<from, to>> \notin DOMAIN adjs
    /\ adjs' = AskUp(adjs, from, to)
    /\ asks' = asks + 1
    /\ UNCHANGED mesh

\* Neighbours of the same type, through one asked-for type between.
Across(k, t) ==
    CASE t = vertex -> verts_across_edges(k[<<edge, vertex>>], k[<<vertex, edge>>])
      [] t = edge /\ mesh.type = triangle ->
            edges_across_tris(k[<<triangle, edge>>], k[<<edge, triangle>>])
      [] t = edge ->
            LET tris == edges_across_tris(k[<<triangle, edge>>], k[<<edge, triangle>>])
                tets == edges_across_tets(k[<<tetrahedron, edge>>], k[<<edge, tetrahedron>>]) IN
            [e \in DOMAIN tris |-> tris[e] \o tets[e]]
      [] OTHER ->
            LET s == CHOOSE s \in Sides(t) : TRUE IN
            elements_across_sides(k[<<t, s>>], k[<<s, t>>])

\* derive_adj(t, t), by dimension only; it counts the sides as a simplex has them.
AskAcross(t) ==
    LET k == CASE t = vertex -> AskUp(adjs, vertex, edge)
               [] t = edge /\ mesh.type = triangle -> AskUp(adjs, edge, triangle)
               [] t = edge -> AskUp(AskUp(adjs, edge, triangle), edge, tetrahedron)
               [] OTHER -> AskUp(adjs, CHOOSE s \in Sides(t) : TRUE, t) IN
    /\ asks < MaxAsks
    /\ mesh.type \in {triangle, tetrahedron}
    /\ <<t, t>> \notin DOMAIN adjs
    /\ adjs' = Store(k, t, t, Across(k, t))
    /\ asks' = asks + 1
    /\ UNCHANGED mesh

Next ==
    \/ \E from, to \in Types(mesh.type) : AskLower(from, to)
    \/ \E from, to \in Types(mesh.type) : AskHigher(from, to)
    \/ \E t \in {vertex, edge, mesh.type} : AskAcross(t)

Spec == Init /\ [][Next]_vars

-----------------------------------------------------------------------------
\* The vertices of every entity, from the stored adjacencies alone.
EntVerts(t) ==
    CASE t = mesh.type -> mesh.ev2v
      [] t = edge -> verts(adjs[<<edge, vertex>>])
      [] t = vertex -> [v \in 1..nverts(mesh) |-> <<v - 1>>]
      [] OTHER -> verts(transit(adjs[<<t, edge>>], adjs[<<edge, vertex>>], t, edge, vertex))

\* The vertices of the l-th entity of type to around the h-th of type from.
Expected(from, to, h, l) ==
    LET ref == element_down_template(from, to)[l] IN
    [j \in DOMAIN ref |-> EntVerts(from)[h][ref[j] + 1]]

DownPairs == {p \in DOMAIN adjs : p[2] < p[1]}
UpPairs == {p \in DOMAIN adjs : p[1] < p[2]}

\* The sizes Mesh::add_adj checks: one list for every entity, and in a downward
\* adjacency as many entries as the reference element has.
TypeOK ==
    /\ mesh \in Meshes
    /\ asks \in 0..MaxAsks
    /\ \A p \in DOMAIN adjs :
        /\ p \in Types(mesh.type) \X Types(mesh.type)
        /\ Len(adjs[p]) = nents(adjs, p[1])
        /\ p[2] < p[1] => \A h \in DOMAIN adjs[p] : Len(adjs[p][h]) = element_degree(p[1], p[2])

\* Whatever was derived through whichever entities in between, the l-th entity
\* of a lower type that an entity is said to have is the one bounded by the
\* vertices the reference element names: transit and reflect_down agree,
\* however faces and edges happen to be represented.
DownIsTrue ==
    \A p \in DownPairs : \A h \in DOMAIN adjs[p] : \A l \in DOMAIN adjs[p][h] :
        ToSet(EntVerts(p[2])[adjs[p][h][l][1] + 1]) = ToSet(Expected(p[1], p[2], h, l))

\* The code kept with it turns the entity's own list of vertices into the list
\* the reference element names: fields with a direction (edge fluxes, control
\* points of a curved face) are read the right way round.
DirectionsAreTrue ==
    \A p \in DownPairs : p[2] # vertex =>
        \A h \in DOMAIN adjs[p] : \A l \in DOMAIN adjs[p][h] :
            align_adj(adjs[p][h][l][2], EntVerts(p[2])[adjs[p][h][l][1] + 1])
                = Expected(p[1], p[2], h, l)

\* invert_adj and its codes: an upward adjacency lists every higher entity once,
\* in order, and the code's number and alignment lead back to the low itself.
UpInvertsDown ==
    \A p \in UpPairs :
        LET up == adjs[p]
            down == adjs[<<p[2], p[1]>>] IN
        /\ \A l \in DOMAIN up : \A i \in DOMAIN up[l] :
            LET back == down[up[l][i][1] + 1][code_which_down(up[l][i][2]) + 1] IN
            /\ back[1] = l - 1
            /\ make_code(code_is_flipped(up[l][i][2]), code_rotation(up[l][i][2]), 0) = back[2]
            /\ i > 1 => up[l][i - 1][1] < up[l][i][1]
        /\ FoldSeq(LAMBDA s, n : Len(s) + n, 0, up) = FoldSeq(LAMBDA s, n : Len(s) + n, 0, down)

\* The neighbours of an entity: vertices across edges, edges that share a face
\* or lie opposite in a tetrahedron, elements across sides, each exactly once
\* for every entity that joins the two.
AcrossIsSymmetric ==
    \A p \in DOMAIN adjs : p[1] = p[2] =>
        LET g == adjs[p] IN
        \A a, b \in DOMAIN g :
            LET count(x, y) == Cardinality({i \in DOMAIN g[x] : g[x][i] = y - 1}) IN
            count(a, b) = count(b, a) /\ count(a, a) = 0
=============================================================================
