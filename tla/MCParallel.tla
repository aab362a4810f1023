------------------------------ MODULE MCParallel -----------------------------
(***************************************************************************)
(* Small instances of what distributes a mesh over processes: the arrays   *)
(* and Dists it is made with, migration, changes of communicator, matched  *)
(* entities, and files written and read by several ranks.  A behaviour is  *)
(* about one of these parts, named by mode; the parts' variables stay side *)
(* by side and the others do not move.                                     *)
(***************************************************************************)
EXTENDS Dist, MeshComm

VARIABLES
    mode,       \* the part and its instances
    arr,        \* an array that the array operations are tried on
    comm,       \* the communicator a Dist is on
    remotes,    \* remotes[p][i]: the process and index of the root of item i
    flipped,    \* whether the Dist was inverted an odd number of times
    dist,       \* the Dist
    partsOf, parting, moves, task,                  \* Migrate
    job, written, dir, pc, rd, nparts, before       \* MeshFile

arrayVars == <<arr>>
distVars == <<comm, remotes, flipped, dist>>
migrateVars == <<partsOf, parting, moves, task>>
meshVars == <<mesh, owner, calls, failed, unlike>>              \* MeshComm, but ops
periodicVars == <<owners, matches, dists, tag, last>>   \* and its periodic meshes
fileVars == <<job, written, dir, pc, rd, nparts, before>>
vars == <<mode, arrayVars, distVars, migrateVars, commVars, matchedVars,
          fileVars>>

-----------------------------------------------------------------------------
(* Arrays: every array of small numbers up to a length, grown a place at a *)
(* time, taken in turn as a map, as the degrees of a fan, as keys, as marks *)
(* and, where its shape allows it, as a graph.                             *)
MaxValue == 2   \* bound: values in the array
MaxLen == 6     \* bound: its length

ArrayInit == arr = <<>>
Grow == /\ Len(arr) < MaxLen
        /\ \E x \in 0..MaxValue : arr' = Append(arr, x)

-----------------------------------------------------------------------------
(* Dist: every Dist over three processes with a few items and roots, built   *)
(* by threads that come in two orders, inverted and carried to another       *)
(* communicator.                                                             *)
ThreeRoots == [p \in 1..3 |-> IF p = 1 THEN 2 ELSE 1]  \* roots and at most as many items
ThreeComms == {<<1, 2, 3>>, <<3, 1, 2>>}
TwoUps == {[p \in 1..3 |-> TRUE], [p \in 1..3 |-> p = 2]}

Processes == DOMAIN ThreeRoots
Target == {<<p, j>> : p \in Processes, j \in 1..2} \ {<<p, j>> \in Processes \X (1..2) : j > ThreeRoots[p]}
Denoted(c, rem) == [p \in DOMAIN rem |->
    [i \in DOMAIN rem[p] |-> <<RankOf(c, rem[p][i][1]), rem[p][i][2]>>]]

DistInit ==
    /\ comm \in ThreeComms
    /\ remotes \in {m \in [Processes -> UNION {[1..n -> Target] : n \in 0..2}] :
                       \A p \in Processes : Len(m[p]) <= ThreeRoots[p]}
    /\ flipped = FALSE
    /\ \E up \in TwoUps : dist = new_dist(comm, Denoted(comm, remotes), ThreeRoots, up)

Invert == dist' = invert(dist) /\ flipped' = ~flipped /\ UNCHANGED <<comm, remotes>>

ChangeComm(c) ==
    /\ c # comm
    /\ dist' = change_comm(dist, c)
    /\ comm' = c
    /\ UNCHANGED <<remotes, flipped>>

DistNext == Invert \/ \E c \in ThreeComms : ChangeComm(c)

-----------------------------------------------------------------------------
(* Migrate: every distribution of two edges over three processes, migrated   *)
(* and ghosted into every other one.                                         *)
Moving == INSTANCE Migrate WITH
    Conn <- <<<<1, 2>>, <<2, 3>>>>, Comm <- <<2, 3, 1>>, Ups <- {[p \in 1..3 |-> TRUE]},
    Moves <- 1, Orders <- {TRUE, FALSE}, mesh <- partsOf, job <- task

-----------------------------------------------------------------------------
(* MeshComm: three ranks and some orders of some of them.                    *)
SomeComms == {<<0>>, <<0, 1>>, <<1, 0>>, <<1, 2>>, <<0, 1, 2>>, <<2, 0, 1>>, <<1, 2, 0>>}
Body == [n \in {2} |-> <<<<1, 1>>>>]
Empty == [n \in {1} |-> <<>>]  \* a class set without pairs, before the body
Built(how, layers, sets) ==
    [parting |-> how, layers |-> layers, tags |-> <<"coordinates", "global">>, sets |-> sets]

SomeParts == {Built(0, 0, Body), Built(1, 2, Body @@ Empty), Built(2, 1, <<>>)}
SomeLayouts == {<<0, 0>>, <<1, 1>>, <<1, 2>>, <<2, 1>>}

-----------------------------------------------------------------------------
(* Periodic: a ring of vertices 0, 1, 2 in a row, the last one matches the    *)
(* first.                                                                    *)
\* Two ranks: 0 has vertices 0 and 1, 1 has 1 and 2.
TwoEnts == [r \in 0..1 |-> 2]
TwoOwners == [r \in 0..1 |-> [i \in 0..1 |-> IF r = 1 /\ i = 0 THEN <<0, 1>> ELSE <<r, i>>]]
TwoMatches == [r \in 0..1 |->
  IF r = 0 THEN <<[leaf |-> 0, root |-> <<0, 0>>]>> ELSE <<[leaf |-> 1, root |-> <<0, 0>>]>>]

\* Three ranks: rank 2 has another copy of the root and owns it.
ThreeEnts == [r \in 0..2 |-> IF r = 2 THEN 1 ELSE 2]
ThreeOwners == [r \in 0..2 |-> [i \in 0..ThreeEnts[r] - 1 |->
  IF i = 0 /\ r # 1 THEN <<2, 0>> ELSE IF r = 1 /\ i = 0 THEN <<0, 1>> ELSE <<r, i>>]]
ThreeMatches == [r \in 0..2 |->
  IF r = 1 THEN <<[leaf |-> 1, root |-> <<0, 0>>]>> ELSE <<[leaf |-> 0, root |-> <<0, 0>>]>>]

MatchedTwo == INSTANCE MeshComm WITH
    NRanks <- 2, MaxOps <- 4, NEnts <- TwoEnts, Owners <- TwoOwners, Matches <- TwoMatches
MatchedThree == INSTANCE MeshComm WITH
    MaxOps <- 4, NEnts <- ThreeEnts, Owners <- ThreeOwners, Matches <- ThreeMatches

\* The instances are among those that the theorems about MeshComm speak of.
ASSUME InstancesFit == CallersFit /\ MatchedTwo!MatchesFit /\ MatchedThree!MatchesFit

-----------------------------------------------------------------------------
(* MeshFile: small parts of meshes, and directories of older versions.       *)
Format == INSTANCE MeshFile WITH
    NRanks <- 3, Jobs <- {}, Meshes <- {}, OldDirs <- {}, parts <- written

Tag(name, ncomps, type, ids, array) ==
  [name |-> name, ncomps |-> ncomps, type |-> type, class_ids |-> ids, array |-> array]

\* A part of n vertices in a row and the edges between them; no vertices: a rank
\* without elements.
Line(size, rank, n) ==
  LET e == IF n = 0 THEN 0 ELSE n - 1
      Array(k, v) == [i \in 1..k |-> v]
      Number(k) == [i \in 1..k |-> i - 1]
  IN  [family |-> 0, dim |-> 1, size |-> size, rank |-> rank, parting |-> 0, layers |-> 0,
       hints |-> <<>>, nents |-> <<n, e>>,
       down |-> <<[ab2b |-> [i \in 1..2 * e |-> i \div 2], codes |-> <<>>]>>,
       tags |-> <<<<Tag("coordinates", 2, 5, <<>>, [i \in 1..2 * n |-> 10 * rank + i])>>,
                  <<Tag("class_id", 1, 2, <<>>, Number(e))>>>>,
       rcs |-> <<<<>>, <<>>>>,
       owners |-> <<[ranks |-> Array(n, 0), idxs |-> Number(n)],
                    [ranks |-> Array(e, rank), idxs |-> Number(e)]>>,
       sets |-> <<>>, parents |-> <<<<>>, <<>>>>, max_order |-> -1]

\* A triangle, ghosted, with hints, sets and parents.
Triangle ==
  [family |-> 0, dim |-> 2, size |-> 1, rank |-> 0, parting |-> 1, layers |-> 2,
   hints |-> <<<<7, 8, 9>>>>, nents |-> <<3, 3, 1>>,
   down |-> <<[ab2b |-> <<0, 1, 1, 2, 2, 0>>, codes |-> <<>>],
              [ab2b |-> <<0, 1, 2>>, codes |-> <<0, 0, 0>>]>>,
   tags |-> <<<<>>, <<Tag("n_bezier_pts", 1, 0, <<>>, <<1, 1, 1>>)>>,
              <<Tag("metric", 1, 5, <<>>, <<4>>), Tag("global", 1, 3, <<>>, <<0>>)>>>>,
   rcs |-> <<<<>>, <<>>, <<>>>>,
   owners |-> <<>>,
   sets |-> <<[name |-> "body", pairs |-> <<<<2, 1>>, <<1, 5>>>>], [name |-> "none", pairs |-> <<>>]>>,
   parents |-> <<<<>>, <<<<0, 0, -1>>, <<1, 2, 0>>>>, <<>>>>, max_order |-> 2]

\* A quadrilateral: hypercubes have other degrees.
Square ==
  [Triangle EXCEPT !.family = 1, !.parting = 2, !.layers = 1, !.hints = <<>>, !.nents = <<4, 4, 1>>,
     !.down = <<[ab2b |-> <<0, 1, 1, 3, 3, 2, 2, 0>>, codes |-> <<>>],
                [ab2b |-> <<0, 1, 2, 3>>, codes |-> <<0, 0, 0, 0>>]>>,
     !.tags = <<<<>>, <<>>, <<>>>>, !.sets = <<>>,
     !.parents = <<<<>>, <<>>, <<>>>>, !.max_order = -1]

\* A field by reverse classification on the edges of model edge 2.
WithRc(m) == [m EXCEPT !.rcs[2] = <<Tag("flux_rc", 1, 5, <<2>>, [i \in 1..m.nents[2] |-> 127])>>]

\* A curved mesh has n_bezier_pts on its edges, also where a rank has none.
Curved(m) ==
  [m EXCEPT !.tags[2] = Append(@, Tag("n_bezier_pts", 1, 0, <<>>, [i \in 1..m.nents[2] |-> 2])),
            !.max_order = 3]

FileMeshes ==
  {<<Curved(Line(2, 0, 3)), Curved(Line(2, 1, 0))>>, <<Triangle>>, <<Square>>, <<WithRc(Line(1, 0, 3))>>, <<Line(2, 0, 3), Line(2, 1, 2)>>,
   <<Line(3, 0, 2), Line(3, 1, 3), Line(3, 2, 0)>>, <<>>}

\* What older versions wrote, as far as the tests of the version in read, read_meta
\* and read_tag tell: the items of a line by version v.
OldMeta(v, m) ==
  (IF v >= 7 THEN <<Format!I8(m.family)>> ELSE <<>>)
  \o <<Format!I8(m.dim), Format!I32(m.size), Format!I32(m.rank), Format!I8(m.parting)>>
  \o (IF v >= 3 THEN <<Format!I32(m.layers)>> ELSE <<>>) \o <<Format!I8(0)>>
  \o (IF v < 6 THEN <<Format!I8(0)>> ELSE <<>>)

OldTag(v, t) ==
  <<Format!Str(t.name), Format!I8(t.ncomps), Format!I8(t.type)>>
  \o (CASE v = 1 -> <<Format!I8(0)>> [] v \in 2..4 -> <<Format!I8(0), Format!I8(0)>> [] OTHER -> <<>>)
  \o <<Format!Arr(t.array)>>

OldStream(v, m) ==
  <<Format!Magic>> \o (IF v < 4 THEN <<Format!I32(v)>> ELSE <<>>) \o <<Format!I8(0)>> \o OldMeta(v, m)
  \o <<Format!I32(m.nents[1]), Format!Arr(m.down[1].ab2b)>>
  \o FlattenSeq([d \in 1..2 |-> <<Format!I32(1)>> \o OldTag(v, m.tags[d][1])])
  \o (IF v >= 8 THEN Format!write_sets(m) ELSE <<>>)
  \o (IF v >= 9 THEN <<Format!I8(0)>> ELSE <<>>)

OldDir(v) ==
  LET version == IF v < 4 THEN -1 ELSE v
  IN  [made |-> TRUE, nparts |-> 1, version |-> version,
       streams |-> [n \in {Format!stream_name(0, version)} |->
                      [closed |-> TRUE, items |-> OldStream(v, Line(1, 0, 2))]]]

\* Two parts of another mesh, by this version.
TwoParts ==
  LET names == {Format!stream_name(r, Format!latest_version) : r \in 0..1}
  IN  [made |-> TRUE, nparts |-> 2, version |-> Format!latest_version,
       streams |-> [n \in names |->
                      [closed |-> TRUE, items |-> Format!write_stream(Line(2, n[1], 4))]]]

OldDirectories == {Format!NoDir, TwoParts} \cup {OldDir(v) : v \in 1..9}
FewOldDirs == {Format!NoDir, TwoParts}

Job(w, r, s) == [nwrite |-> w, nread |-> r, strict |-> s]
TwoRankJobs == {Job(1, 1, TRUE), Job(1, 2, FALSE), Job(2, 2, TRUE), Job(2, 2, FALSE), Job(2, 1, FALSE),
           Job(1, 2, TRUE), Job(0, 1, TRUE), Job(0, 2, FALSE)}
ThreeRankJobs == {Job(3, 3, TRUE), Job(2, 3, FALSE)}

File == INSTANCE MeshFile WITH
    NRanks <- 2, Jobs <- TwoRankJobs, Meshes <- FileMeshes, OldDirs <- OldDirectories,
    parts <- written
File3 == INSTANCE MeshFile WITH
    NRanks <- 3, Jobs <- ThreeRankJobs, Meshes <- FileMeshes, OldDirs <- FewOldDirs,
    parts <- written

-----------------------------------------------------------------------------
Modes == {"arrays", "dist", "migrate", "comm", "two", "three",
          "file", "file3"}

\* A part that a behaviour is not about; without communicators MeshComm has no mesh.
ArrayOff == /\ arr = 0
DistOff == /\ comm = 0 /\ remotes = 0 /\ flipped = 0 /\ dist = 0
MigrateOff == /\ partsOf = 0 /\ parting = 0 /\ moves = 0 /\ task = 0
MatchedOff == /\ owners = 0 /\ matches = 0 /\ dists = 0 /\ tag = 0 /\ last = 0
FileOff == /\ job = 0 /\ written = 0 /\ dir = 0 /\ pc = 0 /\ rd = 0 /\ nparts = 0
           /\ before = 0

Init ==
    /\ mode \in Modes
    /\ IF mode = "arrays" THEN ArrayInit ELSE ArrayOff
    /\ IF mode = "dist" THEN DistInit ELSE DistOff
    /\ IF mode = "migrate" THEN Moving!Init ELSE MigrateOff
    /\ CommInit
    /\ CASE mode = "two" -> MatchedTwo!MatchedInit
         [] mode = "three" -> MatchedThree!MatchedInit
         [] OTHER -> MatchedOff
    /\ CASE mode = "file" -> File!Init
         [] mode = "file3" -> File3!Init
         [] OTHER -> FileOff

ArrayStep ==
    /\ mode = "arrays" /\ Grow
    /\ UNCHANGED <<mode, distVars, migrateVars, commVars, matchedVars,
                   fileVars>>
DistStep ==
    /\ mode = "dist" /\ DistNext
    /\ UNCHANGED <<mode, arrayVars, migrateVars, commVars, matchedVars,
                   fileVars>>
MigrateStep ==
    /\ mode = "migrate" /\ Moving!Next
    /\ UNCHANGED <<mode, arrayVars, distVars, commVars, matchedVars,
                   fileVars>>
CommStep ==
    /\ mode = "comm" /\ CommNext
    /\ UNCHANGED <<mode, arrayVars, distVars, migrateVars, periodicVars,
                   fileVars>>
MatchedStep ==
    /\ \/ mode = "two" /\ MatchedTwo!MatchedNext
       \/ mode = "three" /\ MatchedThree!MatchedNext
    /\ UNCHANGED <<mode, arrayVars, distVars, migrateVars, meshVars,
                   fileVars>>
FileStep ==
    /\ \/ mode = "file" /\ File!Next
       \/ mode = "file3" /\ File3!Next
    /\ UNCHANGED <<mode, arrayVars, distVars, migrateVars, commVars,
                   matchedVars>>

Next == \/ ArrayStep \/ DistStep \/ MigrateStep
        \/ CommStep \/ MatchedStep \/ FileStep

\* Every rank goes on with its program: where a step can be taken, one is.
Spec == Init /\ [][Next]_vars /\ WF_vars(mode = "file" /\ FileStep)

-----------------------------------------------------------------------------
\* Every part's state has its type.
TypeOK ==
    /\ mode = "migrate" => Moving!TypeOK
    /\ mode = "comm" => CommTypeOK
    /\ mode = "two" => MatchedTwo!MatchedTypeOK
    /\ mode = "file" => File!TypeOK

Marks == [i \in DOMAIN arr |-> arr[i] % 2]
AsMap == [i \in DOMAIN arr |-> arr[i] + 1]
Places(a2b, b) == (a2b[b] + 1)..a2b[b + 1]

\* Both inversions of arr map give every target the places that map to it, also
\* targets that nothing maps to; sorting and threads that come in order agree
\* (invert_map_by_sorting, invert_map_by_atomics, invert_funnel).
MapsInvert ==
    mode = "arrays" =>
    LET nb == MaxValue + 2
        g == invert_map_by_sorting(AsMap, nb)
        h == invert_map_by_atomics(AsMap, nb, FALSE) IN
    /\ \A b \in 1..nb :
        /\ {g.ab2b[k] : k \in Places(g.a2ab, b)} = {i \in DOMAIN arr : AsMap[i] = b}
        /\ {h.ab2b[k] : k \in Places(h.a2ab, b)} = {i \in DOMAIN arr : AsMap[i] = b}
    /\ g = invert_map_by_atomics(AsMap, nb, TRUE)

\* A fan whose things may have no places is inverted so that every place finds
\* the thing it is of (invert_fan, fill_right), and expanding along the fan puts
\* there what the inverse would fetch (expand, unmap).
FansInvert ==
    mode = "arrays" =>
    LET fan == offset_scan(arr)
        inverse == invert_fan(fan) IN
    /\ \A k \in 1..Last(fan) : k \in Places(fan, inverse[k])
    /\ Len(inverse) = get_sum(arr)
    /\ expand(counted(Len(arr)), fan) = inverse

\* The sweeps of sort_small_range end with all places numbered in the stable
\* order of sort_by_keys, one message for each distinct value.
SmallRangeSorts ==
    mode = "arrays" =>
    LET r == sort_small_range(arr, MaxValue + 1) IN
    /\ r.ndone = Len(arr)
    /\ r.perm = invert_injective_map(sort_by_keys(arr), Len(arr))
    /\ permute(arr, r.perm) = expand(r.uniq, r.fan)
    /\ ToSet(r.uniq) = ToSet(arr)

\* Marked places are collected once each, in order, and mapping data onto them
\* and back loses nothing (collect_marked, map_onto, unmap).
MarksCollect ==
    mode = "arrays" =>
    LET marked == collect_marked(Marks) IN
    /\ mark_image(marked, Len(arr)) = Marks
    /\ \A i, j \in DOMAIN marked : i < j => marked[i] < marked[j]
    /\ unmap(marked, map_onto(counted(Len(marked)), marked, Len(arr), NoIndex))
         = counted(Len(marked))

\* The array as arr graph on three nodes: three degrees, then the neighbours.
NNodes == 3
IsGraph == Len(arr) >= NNodes /\ Len(arr) = NNodes + get_sum(SubSeq(arr, 1, NNodes))
AsGraph == Graph(offset_scan(SubSeq(arr, 1, NNodes)),
                 [k \in 1..(Len(arr) - NNodes) |-> arr[k + NNodes] + 1])
Neighbours(g, v) == pieces(g.a2ab, g.ab2b)[v]

\* Keeping some nodes keeps, between the kept ones, the edges there were, in
\* their order and under the new numbers (filter_graph_nodes); nodes without
\* edges stay nodes.  A graph's own edges survive the addition of others
\* (add_edges, add_self_edges, unmap_graph).
GraphsFilter ==
    mode = "arrays" /\ IsGraph =>
        LET full == add_self_edges(AsGraph) IN
        /\ \A v \in 1..NNodes : Neighbours(full, v) = <<v>> \o Neighbours(AsGraph, v)
        /\ \A keep \in [1..NNodes -> {0, 1}] :
            LET g == filter_graph_nodes(AsGraph, keep)
                old == collect_marked(keep)
                back == unmap_graph(old, AsGraph) IN
            /\ Len(g.a2ab) = Len(old) + 1
            /\ \A n \in DOMAIN old :
                /\ unmap(Neighbours(g, n), old)
                     = SelectSeq(Neighbours(AsGraph, old[n]), LAMBDA w : keep[w] = 1)
                /\ Neighbours(back, n) = Neighbours(AsGraph, old[n])

Fwd == IF flipped THEN invert(dist) ELSE dist
RootName == [p \in Processes |-> [j \in 1..ThreeRoots[p] |-> <<p, j>>]]
ItemName == [p \in Processes |-> [i \in DOMAIN remotes[p] |-> <<p, i>>]]

\* Data sent from the roots reach each item from the root it maps to, and the
\* Dist can tell that root's rank and index, in whatever order threads came,
\* and also after it was inverted or carried to another communicator
\* (Dist::exch, invert, items2dests, change_comm).
ItemsGetTheirRoots ==
    mode = "dist" =>
    /\ exch(invert(Fwd), RootName) = remotes
    /\ items2dests(Fwd) = Denoted(comm, remotes)

\* Data sent from the items come, sorted by root, to the roots they map to, and
\* a reduction takes in just those (Dist::exch, roots2items, exch_reduce).
RootsGetTheirItems ==
    mode = "dist" =>
    LET got == exch(Fwd, ItemName)
        reduced == exch_reduce(Fwd, [p \in Processes |-> [i \in DOMAIN remotes[p] |-> 10 * p + i]], 0)
        itemsOf(t) == {x \in Processes \X (1..2) : x[2] <= Len(remotes[x[1]]) /\ remotes[x[1]][x[2]] = t} IN
    \A p \in Processes : \A j \in 1..ThreeRoots[p] :
        LET mine == ToSet(SubSeq(got[p], Fwd[p].roots2items[R][j] + 1, Fwd[p].roots2items[R][j + 1])) IN
        /\ mine = itemsOf(<<p, j>>)
        /\ reduced[p][j] = Max({0} \union {10 * x[1] + x[2] : x \in mine})

\* What Neighbor_ialltoallv asserts: no message is empty, and each is received
\* into a block of its size (single_sendcount > 0, single_recvcount > 0).
BuffersFit ==
    mode = "dist" =>
    \A p \in Processes : \A m \in DOMAIN dist[p].comm[F].dsts :
        LET q == dist[p].comm[F].comm[dist[p].comm[F].dsts[m]]
            i == MsgTo(Side(dist, R), q, p)
            sent == get_degrees(dist[p].msgs2content[F])[m] IN
        sent > 0 /\ sent = get_degrees(dist[q].msgs2content[R])[i]

\* A map of copies to owners: owners own themselves.
OwnersOwn ==
    \A p \in Processes :
        /\ Len(remotes[p]) = ThreeRoots[p]
        /\ \A i \in DOMAIN remotes[p] : LET t == remotes[p][i] IN
            t[2] \in DOMAIN remotes[t[1]] /\ remotes[t[1]][t[2]] = t

\* If all copies of an actor have as many data as its owner, the Dist for the
\* data takes each copy's k-th datum to the owner's k-th
\* (create_dist_for_variable_sized).
DataFollowOwners ==
    mode = "dist" /\ OwnersOwn /\ ~flipped =>
        LET size(t) == (2 * t[1] + t[2]) % 3
            fan == [p \in Processes |-> offset_scan([i \in DOMAIN remotes[p] |-> size(remotes[p][i])])]
            datum == [p \in Processes |-> FlattenSeq([i \in DOMAIN remotes[p] |->
                        [k \in 1..size(remotes[p][i]) |-> <<remotes[p][i], k>>]])]
            rem == variable_sized(dist, fan) IN
        \A p \in Processes : \A x \in DOMAIN datum[p] :
            datum[comm[rem[p][x][1]]][rem[p][x][2]] = datum[p][x]

\* However elements move, each is still somewhere and has the vertices it had
\* (migrate_mesh, push_down, form_new_conn).
MeshKept == mode = "migrate" => Moving!MeshKept

\* A process has each vertex of its elements once, and no other.
VerticesClosed == mode = "migrate" => Moving!VerticesClosed

\* What get_new_copies2old_owners made is in the order of its global numbers,
\* whatever order the uses came in.
CopiesInOrder == mode = "migrate" => Moving!CopiesInOrder

\* All copies of an entity name one owner, which is a copy of it (update_ownership).
OwnersAgree == mode = "migrate" => Moving!OwnersAgree

\* In a mesh partitioned by elements every element has one owner and no ghost.
NoGhostsByElems == mode = "migrate" => Moving!NoGhostsByElems

\* Ghosting and partitioning by vertices keep the owners that lead back.
OwnersKept == [][mode = "migrate" => Moving!KeepsOwners]_migrateVars

\* sync_tag_matched leaves owners and matches as they were (swap_root_owner twice) and
\* gives leaves the values of their roots, and after sync_tag all copies of an entity
\* have one value.
MatchesSynced ==
    /\ mode = "two" => /\ MatchedTwo!OwnersRestored /\ MatchedTwo!LeavesMatch
                       /\ MatchedTwo!CopiesAgree
    /\ mode = "three" => /\ MatchedThree!OwnersRestored /\ MatchedThree!LeavesMatch
                         /\ MatchedThree!CopiesAgree

\* A rank that has read the directory has the part of the rank of that number that
\* wrote it last, also over the streams of more ranks that were there before, and a
\* rank past the last part has read nothing (write, read_in_comm); fields by reverse
\* classification are tags of all entities then.
ReadBack ==
    /\ mode = "file" => File!ReadBack
    /\ mode = "file3" => File3!ReadBack

\* Every value is read with the type it was written with, and the reader comes to
\* the end of the stream exactly, whatever version wrote it.
NothingMisread == mode = "file" => File!NothingMisread

\* A check fails only on a rank that reads a part of a curved mesh without edges,
\* and there always (the local maximum in read_tag).
NoCheckFails == mode = "file" => File!NoCheckFails

\* Ranks are refused together and only for their number, or because there is
\* nothing to read.
RefusedForCount == mode = "file" => File!RefusedForCount

\* What a rank starts to read is a whole stream: the barrier of write comes before
\* the streams are closed, but a rank only opens the one it wrote itself.
ClosedWhenRead ==
    /\ mode = "file" => File!ClosedWhenRead
    /\ mode = "file3" => File3!ClosedWhenRead

\* Every program ends: each rank gets past the barriers and broadcasts of write and
\* read, also when only some ranks write, or the program is aborted.
Finishes == <>(mode = "file" => File!Ended)

\* What rc_field_test.cpp:119 asserts: a field by reverse classification that is
\* written and read (write_rc_tag, read_tag) is one again, with its values.
RcFieldsComeBack == mode = "file" => File!RcFieldsRead
-----------------------------------------------------------------------------
(* What is checked, as conjunctions of the parts above; CallsGoTogether is one *)
(* of MeshComm.                                                               *)

\* Every map, fan and Dist carries each item to the place it is meant for, and an
\* inverted one carries it back, also where there is nothing to carry.
ItemsArrive ==
    /\ TypeOK
    /\ MapsInvert /\ FansInvert /\ SmallRangeSorts /\ MarksCollect /\ GraphsFilter
    /\ BuffersFit /\ RootsGetTheirItems /\ ItemsGetTheirRoots

\* However elements are spread, no entity and no value is lost, each process has
\* what bounds its elements, and copies, owners and matched entities agree.
MeshesMoveWhole ==
    /\ DataFollowOwners /\ MeshKept /\ VerticesClosed /\ CopiesInOrder
    /\ NoGhostsByElems /\ OwnersAgree
    /\ MatchesSynced

\* A directory that was written, by whatever version and number of ranks, is read
\* back whole or refused for the number of ranks, and never while it is written.
\* Two things are not as they were: fields by reverse classification are tags, and
\* a part of a curved mesh that has no edges ends the program.
FilesAreReadBack ==
    /\ NothingMisread /\ NoCheckFails /\ ReadBack /\ RefusedForCount
    /\ ClosedWhenRead

\* What was started ends: every rank comes back from write and read; and migration
\* hands elements on with the owners they had.
CallsEnd == OwnersKept /\ Finishes
===============================================================================
