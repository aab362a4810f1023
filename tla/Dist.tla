-------------------------------- MODULE Dist --------------------------------
(***************************************************************************)
(* A Dist carries data along a map from items, on some processes, to roots *)
(* on others, and back (Omega_h_dist.cpp), through the neighbourhood       *)
(* collectives of a graph communicator (Omega_h_comm.cpp).                 *)
(*                                                                         *)
(* A communicator is the sequence of its processes; a rank is a place in   *)
(* it.  A value every process has its own of (an array, a Dist) is a       *)
(* function of the process.  Of a Dist a process has, forward (F) and      *)
(* reverse (R): roots2items, the fan of roots to items; items2content, the *)
(* place of an item in the message buffer; msgs2content, the fan of        *)
(* messages to places in the buffer; and the graph communicator, its       *)
(* sources and destinations as ranks.  None is an array that does not      *)
(* exist.  up says of each process in which order its threads come to an   *)
(* atomic counter.  A collective is one step of all its processes: how a   *)
(* graph communicator comes about message by message is module GraphComm.  *)
(*                                                                         *)
(* The data are arrays of local indices, with the maps, fans and graphs    *)
(* made of them (Omega_h_map.cpp, Omega_h_graph.cpp, Omega_h_sort.cpp,     *)
(* Omega_h_int_scan.cpp, Omega_h_array_ops.cpp).  An array is a sequence,  *)
(* its places and the indices in it are numbered from 1.  A fan a2b of n   *)
(* things is an array of n + 1 offsets, the first 0: thing a has the       *)
(* places a2b[a] + 1 .. a2b[a + 1].  A graph is a fan and the array it     *)
(* points into.  An array has one component per place: the code's widths   *)
(* repeat what is done.                                                    *)
(***************************************************************************)
EXTENDS Integers, SequencesExt, FiniteSetsExt

NoIndex == 0   \* -1 in the code: no place

\* Write<T>(n, value), Read<T>(n, value) and LOs(n, 0, 1).
filled(n, value) == [i \in 1..n |-> value]
counted(n) == [i \in 1..n |-> i]

\* The reductions: what they start from on an empty array is given.
get_min(a, init) == Min({init} \union ToSet(a))
get_max(a, init) == Max({init} \union ToSet(a))
get_sum(a) == FoldSeq(LAMBDA x, y : x + y, 0, a)

\* The operations on each place, with a second array or with one value.
each(Op(_, _), a, b) == [i \in DOMAIN a |-> Op(a[i], b[i])]
each_with(Op(_, _), a, value) == [i \in DOMAIN a |-> Op(a[i], value)]
invert_marks(marks) == [i \in DOMAIN marks |-> 1 - marks[i]]

\* offset_scan: the sums of the places before each place, and of all.
offset_scan(a) == [k \in 1..(Len(a) + 1) |-> get_sum(SubSeq(a, 1, k - 1))]

\* fill_right: the running maximum.
fill_right(a) == [i \in DOMAIN a |-> Max({a[j] : j \in 1..i})]

get_degrees(fan) == [i \in 1..(Len(fan) - 1) |-> fan[i + 1] - fan[i]]

-----------------------------------------------------------------------------
(* Along maps and fans. *)

\* map_into, map_value_into, map_onto: later places overwrite earlier ones
\* only if the map is not injective, and no caller gives such a map.
map_onto(a_data, a2b, nb, init_val) ==
    [b \in 1..nb |-> IF \E a \in DOMAIN a2b : a2b[a] = b
                     THEN a_data[CHOOSE a \in DOMAIN a2b : a2b[a] = b] ELSE init_val]

permute(a_data, a2b) == [b \in DOMAIN a2b |-> a_data[CHOOSE a \in DOMAIN a2b : a2b[a] = b]]

unmap(a2b, b_data) == [a \in DOMAIN a2b |-> b_data[a2b[a]]]
unmap_range(begin, end, b_data) == SubSeq(b_data, begin + 1, end)

\* expand: one copy of a thing's value for each of its places.
expand(a_data, a2b) ==
    FlattenSeq([a \in DOMAIN a_data |-> filled(a2b[a + 1] - a2b[a], a_data[a])])

compound_maps(a2b, b2c) == [a \in DOMAIN a2b |-> b2c[a2b[a]]]
multiply_fans(a2b, a2c) ==
    offset_scan(each(LAMBDA x, y : x * y, get_degrees(a2b), get_degrees(a2c)))

\* collect_marked: place i goes where the scan of the marks before it says.
collect_marked(marks) ==
    LET offsets == offset_scan(marks)
        nmarked == Last(offsets) IN
    [k \in 1..nmarked |->
        CHOOSE i \in DOMAIN marks : marks[i] = 1 /\ offsets[i] + 1 = k]

mark_image(a2b, nb) == [b \in 1..nb |-> IF b \in ToSet(a2b) THEN 1 ELSE 0]
mark_fan_preimage(a2b) == [a \in 1..(Len(a2b) - 1) |-> IF a2b[a] # a2b[a + 1] THEN 1 ELSE 0]

\* inject_map, invert_injective_map, invert_permutation.
invert_injective_map(a2b, nb) == map_onto(counted(Len(a2b)), a2b, nb, NoIndex)

\* invert_fan: the first place of each thing that has one, then to the right.
invert_fan(a2b) ==
    LET nb == Last(a2b) IN
    fill_right([b \in 1..nb |->
        IF \E a \in 1..(Len(a2b) - 1) : a2b[a] = b - 1 /\ a2b[a] # a2b[a + 1]
        THEN CHOOSE a \in 1..(Len(a2b) - 1) : a2b[a] = b - 1 /\ a2b[a] # a2b[a + 1]
        ELSE NoIndex])

\* invert_funnel: ab2a is sorted; the end of a is where it changes, or where
\* the array ends; what has no place ends where its predecessor does.
invert_funnel(ab2a, na) ==
    LET nab == Len(ab2a)
        ends == [a \in 1..na |->
            {ab \in 1..nab : ab2a[ab] = a /\ (ab = nab \/ ab2a[ab] # ab2a[ab + 1])}] IN
    fill_right(<<0>> \o [a \in 1..na |-> IF ends[a] = {} THEN -1 ELSE Max(ends[a])])

\* sort_by_keys: the stable order of the places by their keys.
sort_by_keys(keys) ==
    SortSeq(counted(Len(keys)),
            LAMBDA i, j : keys[i] < keys[j] \/ (keys[i] = keys[j] /\ i < j))

invert_map_by_sorting(a2b, nb) ==
    LET ba2a == sort_by_keys(a2b) IN
    [a2ab |-> invert_funnel(unmap(ba2a, a2b), nb), ab2b |-> ba2a]

\* The members of a set of numbers in the order in which they happen to come,
\* ascending or descending.
arrival(S, up) ==
    [k \in 1..Cardinality(S) |->
        CHOOSE x \in S :
            Cardinality({y \in S : y < x}) = IF up THEN k - 1 ELSE Cardinality(S) - k]

\* invert_map_by_atomics: the places of one b come in the order in which the
\* threads increment its counter.
invert_map_by_atomics(a2b, nb, up) ==
    LET of(b) == {a \in DOMAIN a2b : a2b[a] = b} IN
    [a2ab |-> offset_scan([b \in 1..nb |-> Cardinality(of(b))]),
     ab2b |-> FlattenSeq([b \in 1..nb |-> arrival(of(b), up)])]

-----------------------------------------------------------------------------
(* sort_small_range: one sweep for each distinct value, smallest first. *)
next_smallest_value(a, value, init) == Min({init} \union {x \in ToSet(a) : x > value})

number_same_values(a, value) ==
    offset_scan([i \in DOMAIN a |-> IF a[i] = value THEN 1 ELSE 0])

combine_perms(a, value, tmp_perm, perm, ndone) ==
    [i \in DOMAIN a |-> IF a[i] = value THEN tmp_perm[i] + ndone + 1 ELSE perm[i]]

\* One turn of the loop of sort_small_range, on [value, ndone, perm, fan, uniq].
small_range_turn(a, s, init) ==
    LET tmp_perm == number_same_values(a, s.value)
        ndone == s.ndone + Last(tmp_perm) IN
    [value |-> next_smallest_value(a, s.value, init),
     ndone |-> ndone,
     perm |-> combine_perms(a, s.value, tmp_perm, s.perm, s.ndone),
     fan |-> Append(s.fan, ndone),
     uniq |-> Append(s.uniq, s.value)]

\* The loop ends when every place is numbered: after one turn per value.
sort_small_range(a, init) ==
    LET nturns == Cardinality(ToSet(a))
        turn[k \in 0..nturns] ==
            IF k = 0
            THEN [value |-> get_min(a, init), ndone |-> 0, perm |-> filled(Len(a), NoIndex),
                  fan |-> <<0>>, uniq |-> <<>>]
            ELSE small_range_turn(a, turn[k - 1], init) IN
    turn[nturns]

-----------------------------------------------------------------------------
(* Reductions along fans.  The result has the type of the data, so the sum *)
(* of bytes is a byte.                                                     *)
I8Max == 127
as_i8(x) == ((x + I8Max + 1) % (2 * (I8Max + 1))) - (I8Max + 1)

pieces(a2b, b_data) ==
    [a \in 1..(Len(a2b) - 1) |-> SubSeq(b_data, a2b[a] + 1, a2b[a + 1])]
fan_sum(a2b, b_data) == [a \in 1..(Len(a2b) - 1) |-> get_sum(pieces(a2b, b_data)[a])]
fan_min(a2b, b_data, init) ==
    [a \in 1..(Len(a2b) - 1) |-> get_min(pieces(a2b, b_data)[a], init)]
fan_max(a2b, b_data, init) ==
    [a \in 1..(Len(a2b) - 1) |-> get_max(pieces(a2b, b_data)[a], init)]
fan_sum_i8(a2b, b_data) ==
    [a \in 1..(Len(a2b) - 1) |-> as_i8(get_sum(pieces(a2b, b_data)[a]))]

-----------------------------------------------------------------------------
(* Graphs. *)
Graph(a2ab, ab2b) == [a2ab |-> a2ab, ab2b |-> ab2b]

add_edges(g1, g2) ==
    LET e1 == pieces(g1.a2ab, g1.ab2b)
        e2 == pieces(g2.a2ab, g2.ab2b) IN
    Graph(offset_scan(each(LAMBDA x, y : x + y, get_degrees(g1.a2ab), get_degrees(g2.a2ab))),
          FlattenSeq([v \in DOMAIN e1 |-> e1[v] \o e2[v]]))

unmap_graph(a2b, b2c) ==
    LET cs == pieces(b2c.a2ab, b2c.ab2b) IN
    Graph(offset_scan(unmap(a2b, get_degrees(b2c.a2ab))),
          FlattenSeq([a \in DOMAIN a2b |-> cs[a2b[a]]]))

filter_graph_edges(g, keep_edge) ==
    Graph(offset_scan(fan_sum_i8(g.a2ab, keep_edge)),
          unmap(collect_marked(keep_edge), g.ab2b))

filter_graph_nodes(g, keep_node) ==
    LET kept(v) == SelectSeq(pieces(g.a2ab, g.ab2b)[v], LAMBDA w : keep_node[w] = 1)
        new2old == collect_marked(keep_node)
        old2new == invert_injective_map(new2old, Len(keep_node))
        degrees == [v \in DOMAIN keep_node |-> Len(kept(v))] IN
    Graph(offset_scan(unmap(new2old, degrees)),
          FlattenSeq([n \in DOMAIN new2old |-> unmap(kept(new2old[n]), old2new)]))

identity_graph(n) == Graph([i \in 1..(n + 1) |-> i - 1], counted(n))
add_self_edges(g) == add_edges(identity_graph(Len(g.a2ab) - 1), g)

-----------------------------------------------------------------------------
(* Processes. *)
None == <<>>
F == 1
R == 2

Procs(comm) == ToSet(comm)
RankOf(comm, p) == CHOOSE r \in DOMAIN comm : comm[r] = p

-----------------------------------------------------------------------------
(* Graph communicators and their collectives.                              *)

\* Comm::graph: the sources are found, and sorted (sources_from_destinations).
graph(comm, dsts) ==
    LET srcsOf(p) == {r \in DOMAIN comm : RankOf(comm, p) \in ToSet(dsts[comm[r]])} IN
    [p \in Procs(comm) |->
        [comm |-> comm, srcs |-> arrival(srcsOf(p), TRUE), dsts |-> dsts[p]]]

graph_adjacent(comm, srcs, dsts) == [comm |-> comm, srcs |-> srcs, dsts |-> dsts]
graph_inverse(g) == graph_adjacent(g.comm, g.dsts, g.srcs)

\* The message of process q to process p is the one at p's place among q's
\* destinations.
MsgTo(g, q, p) == CHOOSE m \in DOMAIN g[q].dsts : g[q].comm[g[q].dsts[m]] = p
Source(g, p, i) == g[p].comm[g[p].srcs[i]]

\* Neighbor_allgather, Neighbor_alltoall: one value from each source.
allgather(g, x) == [p \in DOMAIN g |-> [i \in DOMAIN g[p].srcs |-> x[Source(g, p, i)]]]
alltoall(g, x) ==
    [p \in DOMAIN g |-> [i \in DOMAIN g[p].srcs |->
        x[Source(g, p, i)][MsgTo(g, Source(g, p, i), p)]]]

\* Neighbor_ialltoallv: a block from each source, one after the other.
alltoallv(g, sendbuf, sdispls) ==
    [p \in DOMAIN g |-> FlattenSeq([i \in DOMAIN g[p].srcs |->
        LET q == Source(g, p, i)
            m == MsgTo(g, q, p) IN
        SubSeq(sendbuf[q], sdispls[q][m] + 1, sdispls[q][m + 1])])]

-----------------------------------------------------------------------------
(* Dist. *)
NoFan == <<None, None>>

\* set_dest_ranks: one message per destination; the forward side and the
\* reverse side's messages.
set_dest_ranks(comm, items2ranks) ==
    LET sorted == [p \in Procs(comm) |-> sort_small_range(items2ranks[p], Len(comm) + 1)]
        g == graph(comm, [p \in Procs(comm) |-> sorted[p].uniq])
        rdegrees == alltoall(g, [p \in Procs(comm) |-> get_degrees(sorted[p].fan)]) IN
    [p \in Procs(comm) |->
        [parent |-> comm,
         roots2items |-> NoFan,
         items2content |-> <<sorted[p].perm, None>>,
         msgs2content |-> <<sorted[p].fan, offset_scan(rdegrees[p])>>,
         comm |-> <<g[p], graph_inverse(g[p])>>]]

Side(d, dir) == [p \in DOMAIN d |-> d[p].comm[dir]]

invert(d) ==
    [p \in DOMAIN d |-> [d[p] EXCEPT !.roots2items = <<@[R], @[F]>>,
                                     !.items2content = <<@[R], @[F]>>,
                                     !.msgs2content = <<@[R], @[F]>>,
                                     !.comm = <<@[R], @[F]>>]]

\* What is sent: roots to items, items to their places.
packed(d, data) ==
    [p \in DOMAIN d |->
        LET items == IF d[p].roots2items[F] = None THEN data[p]
                     ELSE expand(data[p], d[p].roots2items[F]) IN
        IF d[p].items2content[F] = None THEN items
        ELSE permute(items, d[p].items2content[F])]

unpacked(d, p, buf) ==
    IF d[p].items2content[R] = None THEN buf ELSE unmap(d[p].items2content[R], buf)

exch(d, data) ==
    LET buf == alltoallv(Side(d, F), packed(d, data),
                         [p \in DOMAIN d |-> d[p].msgs2content[F]]) IN
    [p \in DOMAIN d |-> unpacked(d, p, buf[p])]

exch_reduce(d, data, init) ==
    LET items == exch(d, data) IN
    [p \in DOMAIN d |-> fan_max(d[p].roots2items[R], items[p], init)]

\* Faulty variant: the received places are taken for sorted.
set_dest_idxs_sorted(d, fitems2rroots, nrroots, up) ==
    LET rcontent2rroots == exch(d, fitems2rroots) IN
    [p \in DOMAIN d |->
        LET inv == invert_map_by_atomics(rcontent2rroots[p], nrroots[p], up[p]) IN
        [d[p] EXCEPT !.roots2items[R] = inv.a2ab,
                     !.items2content[R] = counted(Len(rcontent2rroots[p]))]]

\* set_dest_idxs: the received places are sorted by root.
set_dest_idxs(d, fitems2rroots, nrroots, up) ==
    LET rcontent2rroots == exch(d, fitems2rroots) IN
    [p \in DOMAIN d |->
        LET inv == invert_map_by_atomics(rcontent2rroots[p], nrroots[p], up[p]) IN
        [d[p] EXCEPT !.roots2items[R] = inv.a2ab, !.items2content[R] = inv.ab2b]]

\* Dist(comm, Remotes, nroots); remotes[p] is a sequence of <<rank, idx>>.
RanksOf(remotes) == [p \in DOMAIN remotes |-> [i \in DOMAIN remotes[p] |-> remotes[p][i][1]]]
IdxsOf(remotes) == [p \in DOMAIN remotes |-> [i \in DOMAIN remotes[p] |-> remotes[p][i][2]]]
new_dist(comm, remotes, nrroots, up) ==
    set_dest_idxs(set_dest_ranks(comm, RanksOf(remotes)), IdxsOf(remotes), nrroots, up)

\* set_dest_globals: the received items are ordered by the globals sent along.
set_dest_globals(d, fitems2ritem_globals) ==
    LET rcontent2ritem_globals == exch(d, fitems2ritem_globals) IN
    [p \in DOMAIN d |->
        [d[p] EXCEPT !.items2content[R] = sort_by_keys(rcontent2ritem_globals[p]),
                     !.roots2items[R] = None]]

set_roots2items(d, froots2fitems) ==
    [p \in DOMAIN d |-> [d[p] EXCEPT !.roots2items[F] = froots2fitems[p]]]

nitems(d, p) == Last(d[p].msgs2content[F])
nroots(d, p) == Len(d[p].roots2items[F]) - 1
nsrcs(d, p) == IF d[p].roots2items[F] # None THEN nroots(d, p) ELSE nitems(d, p)
ndests(d, p) == nsrcs(invert(d), p)

content2msgs(d, p) == invert_fan(d[p].msgs2content[F])
items2msgs(d, p) == unmap(d[p].items2content[F], content2msgs(d, p))
items2ranks(d, p) == compound_maps(items2msgs(d, p), d[p].comm[F].dsts)
items2dest_idxs(d) == exch(invert(d), [p \in DOMAIN d |-> counted(ndests(d, p))])
items2dests(d) ==
    LET idxs == items2dest_idxs(d) IN
    [p \in DOMAIN d |-> [i \in 1..nitems(d, p) |-> <<items2ranks(d, p)[i], idxs[p][i]>>]]

\* change_comm: the neighbours tell each other their new ranks.
change_comm(d, new_comm) ==
    LET new_rank == [p \in DOMAIN d |-> RankOf(new_comm, p)]
        new_sources == allgather(Side(d, F), new_rank)
        new_destinations == allgather(Side(d, R), new_rank) IN
    [p \in DOMAIN d |->
        LET g == graph_adjacent(new_comm, new_sources[p], new_destinations[p]) IN
        [d[p] EXCEPT !.comm = <<g, graph_inverse(g)>>, !.parent = new_comm]]

\* create_dist_for_variable_sized: the remotes of the data of each item, counted
\* from the offset its owner has for it.
variable_sized(d, copies2data) ==
    LET owner_offsets == exch(invert(d), [p \in DOMAIN d |->
                                            SubSeq(copies2data[p], 1, nitems(d, p))]) IN
    [p \in DOMAIN d |-> FlattenSeq([i \in 1..nitems(d, p) |->
        [k \in 1..(copies2data[p][i + 1] - copies2data[p][i]) |->
            <<items2ranks(d, p)[i], owner_offsets[p][i] + k>>]])]
=============================================================================
