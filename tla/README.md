# TLA+ models of Omega_h

Omega_h is a C++ library for adapting unstructured meshes in parallel: a mesh is
distributed over MPI ranks, cut, coarsened, swapped, transferred and rebalanced,
with the loops over entities running on threads or on a GPU. This project models
the parts whose correctness depends on order, sharing, long sequences of calls or
case tables, checks them with TLC on small instances and proves the central ones
with TLAPS for every instance. Paths below are relative to the repository; the
C++ sources are in `src/`.

## The system

| Component | State it keeps | Operations | Made correct by |
|---|---|---|---|
| Comm (`Omega_h_comm`) | an MPI communicator, neighbour lists of a graph communicator | `graph`, `graph_adjacent`, reductions, `alltoallv`, scans | every rank learns exactly who will send to it; calls do not mix |
| Future (`Omega_h_future`) | requests, buffers, callbacks | `ialltoallv`, `completed`, `get` | buffers outlive their requests; every result arrives, whole and once |
| Dist, Remotes (`Omega_h_dist`, `Omega_h_remotes`) | roots to items map, message layout, two communicators | `exch`, `exch_reduce`, `iexch`, `invert`, `change_comm` | `exch` delivers root data to all items; inverse of the inverse |
| Mesh (`Omega_h_mesh`) | entities, adjacencies, tags, owners, parting, caches | `set_parting`, `balance`, `sync_tag`, `reduce_tag`, `add_tag`, `ask_*`, `set_comm` | owners and copies consistent; caches never stale |
| Ghosting, migration, ownership (`Omega_h_ghost`, `_migrate`, `_owners`) | none of their own, rewrite the Mesh | `ghost_mesh`, `partition_by_verts`, `partition_by_elems`, `migrate_mesh`, `update_ownership` | the layout the parting promises; owners' data survives |
| Matched entities (`Mesh::sync_tag_matched`) | leaves and roots of periodic sides | `set_matches`, `sync_tag_matched` | leaves get their roots' values; owners are restored |
| Independent set (`Omega_h_indset`) | states of the entities during one search | `find_indset` | independence, termination, same result on any partition |
| Adaptation (`Omega_h_adapt`, `_approach`, `_fix`, `_refine`, `_coarsen`, `_swap`, `_modify`) | options, the old and the new mesh | `adapt`, `warp_to_limit`, `approach_metric`, `refine_by_size`, `coarsen_by_size`, `swap_edges`, `modify_ents` | the loops end; the mesh stays a mesh and classified; quality is kept |
| AMR (`Omega_h_amr`) | parents, leaves, levels | `amr::refine`, `derefine`, 2:1 balance | leaves tile the domain, the tree is complete |
| Reverse-classification fields (`Omega_h_rcFields`) | fields on model entities, cached reverse classification | `add_rcField`, `change_all_rcFieldsToMesh`, `...Torc` | values stay with their entities through every scope |
| Solution transfer (`r3d`, `Omega_h_transfer`, `_conserve`) | the polytope being clipped | `clip`, `intersect_simplices`, `reduce`, `init_poly` | intersections add up to the element |
| Curved meshes (`Omega_h_beziers`, `_curve_*`) | control points as tags | elevation, validity, refine, coarsen, swap, drawing | a control point is where its entity is, turned the right way |
| Arrays (`Omega_h_shared_alloc`, `_array`, `_for`) | reference counts, a global `entering_parallel` flag | copies, moves, kernels | counts exact, no race on them, nothing dangles |
| Pool (`Omega_h_pool`, `_malloc`) | used and free blocks by size class | `allocate`, `deallocate`, `enable_pooling`, `disable_pooling` | no block lent twice, none lost; fails only when full |
| Allocation tracking (`Omega_h_shared_alloc.cpp`) | a linked list of Allocs, high-water records | start, stop, link, unlink | the report adds up |
| Integer algorithms (`Omega_h_map`, `_sort`, `_graph`, `_int_scan`) | none | inversions, fans, scans, filters | agree with their definitions |
| Parser generator and reader (`Omega_h_build_parser`, `_finite_automaton`, `_reader`, ...) | automata, lanes, tables, the reader's stacks | LR(0), lane tracing, determinise, read | the language is preserved; longest match |
| Expressions (`Omega_h_expr`) | variables, recorded operations | read and evaluate, record and evaluate | both readers agree, pointwise on arrays |
| Input files, command line (`Omega_h_input`, `_yaml`, `_cmdline`) | the input tree with used flags; `argv` | callbacks, includes, `get`, `check_unused`; `parse` | what is read is what was written; nothing is lost or taken twice |
| Red-black tree (`Omega_h_rbtree`) | nodes | insert, erase, bounds, iteration | balance, order, a map's behaviour |
| Mesh files (`Omega_h_file`) | `.osh` directories | `write`, `read_in_comm` | each rank reads back its own part or one written before |
| Geometry, foreign formats, CAD, tools | | | floating point, input and output, adapters |

Components call each other in one direction: adaptation uses the independent set
and partings, partings use migration, migration uses Dist, Dist uses Comm;
everything is stored in arrays, which come from the pool. Ranks share nothing but
MPI messages and run the same collective calls in the same order. Within a rank
only kernels are concurrent, and within a kernel only what several entities write
is shared.

What is hard to test: the polling loop and barriers of `Comm::graph`; decisions
taken from last round's states in the independent set while other ranks are ahead;
the many paths through `set_parting` and what they assume of the layout before;
ownership carried or recomputed by a migration; a skipped synchronisation
(`could_be_shared`); a non-atomic count near threads; a pool that runs full or is
switched on late; caches, tags and `Dist`s used after what they describe has
changed; products of a cavity derived dimension by dimension that must fit
together; orientation of stored edges and faces in curved meshes; an old directory
read over a new one. `PROJECT.json` lists each at its line.

## Modules

Each module models one component. The graph communicator, the independent set, partings
and futures have a run of their own. The others are independent of one another and are
checked in groups: a module `MCMemory`, `MCMesh`, `MCCurved`, `MCText` or `MCParallel`
has its group's modules side by side, a variable `mode` chosen initially says which part
a behaviour is about, and the other parts' variables do not move. The properties of the
parts are named where the parts are instantiated, and a run checks conjunctions of them
at the end of its module, each with a comment on what holds it together
(`MeshStaysAMesh`, `KeptDataStayTrue`, `AdaptsAndEnds`; `CurvesHaveOneShape`,
`CavitiesAreCurved`, `CodesAreHandedOn`; `LanguagesAreRead`, `InputsAreRead`,
`ReadersEnd`; `ItemsArrive`, `MeshesMoveWhole`, `CallsGoTogether`, `FilesAreReadBack`,
`CallsEnd`). What is proved about is extended and not instantiated (`Pool` and
`SharedAlloc` by `MCMemory`, `MeshTags` by `MCMesh`, `MeshComm` by `MCParallel`), so
that the definitions a run checks are those the theorems state. A mode is an instance,
so the modes of one run never interact; components that do interact in the code are
composed by their modules (`Migrate` EXTENDS `Dist`, the curved modules EXTEND `Bezier`,
`GraphComm` and `IndSet` INSTANCE their abstract specifications).

| Module | Models | Checked by |
|---|---|---|
| `GraphCommSpec` | what `Comm::graph` promises (abstract) | `graph_comm` |
| `GraphComm` | `Comm::graph`, `sources_from_destinations`; implements `GraphCommSpec` | `graph_comm` |
| `GraphCommProofs` | theorems about `GraphComm` | TLAPS |
| `IndSetSpec` | what an independent-set search may decide (abstract) | `ind_set` |
| `IndSet` | `find_indset`, `indset::find`, `local_iteration` on all ranks; implements `IndSetSpec` | `ind_set` |
| `IndSetProofs` | theorems about `IndSet` | TLAPS |
| `Parting` | `set_parting`, `ghost_mesh`, `partition_by_*`, `migrate_mesh`, `update_ownership`, `balance`, `sync_tag`, `reduce_tag` | `parting` |
| `PartingProofs` | theorems about `Parting` | TLAPS |
| `Pool` | `Pool`, `maybe_pooled_device_*` | `memory` |
| `PoolProofs` | theorems about `Pool` | TLAPS |
| `SharedAlloc` | `SharedAlloc`, `for_each`, `parallel_for` | `memory` |
| `SharedAllocProofs` | theorems about `SharedAlloc` | TLAPS |
| `AllocTracking` | the Alloc list | `alloc_tracking` |
| `RefElem` | reference elements: down, up, opposite and split templates, alignment codes | the users below |
| `Adjacency` | `ask_adj`, `derive_adj`, `transit`, `invert_adj`, `reflect_down`, neighbours | `mesh` |
| `Amr` | `amr::refine`, `derefine`, `enforce_2to1_refine`, `remove_non_leaf_uses` | `mesh` |
| `MeshMod` | splits, collapses and swaps with the rebuilding of the mesh | `mesh` |
| `Adapt` | `adapt`, `warp_to_limit`, `approach_metric`, `fix_for_given_metric` | `mesh` |
| `MeshTags` | tags, cached measures, children and parents, control point tags | `mesh` |
| `MeshTagsProofs` | theorems about `MeshTags` | TLAPS |
| `RcFields` | reverse classification, rc fields and their scopes | `mesh` |
| `R3d` | clipping, intersections, moments and polytopes of `r3d.hpp` | `mesh` |
| `Bezier` | Bernstein functions, parametric maps, drawings; coefficients of the Jacobian determinant and their verdict | `curved` |
| `CurveElevate` | `elevate_curve_order_*`, thread by thread | `curved` |
| `CoarsenTrial` | the trial collapse and `coarsen_invalidities`; `make_cavity_class`, `build_given_tets`, thread by thread | `curved` |
| `CurvedRefine` | `curve_refine_2d`, `_3d`, `refine_element_based_crv` | `curved` |
| `CurvedCavity` | inner edges and faces of a curved collapse or swap, boundary edges of a collapse | `curved` |
| `Lalr` | grammars, LR(0), FIRST sets, lane tracing, the tables at work | `text` |
| `Reader` | automata, lexers, tokens, indentation | `text` |
| `Expr` | both evaluators of expressions | `text` |
| `InputYaml` | callbacks of the YAML input reader, block scalars | `text` |
| `Inputs` | the input tree, includes, used flags; `CmdLine::parse` for Library and program | `text` |
| `RBTree` | the red-black tree, sets and maps | `text` |
| `Dist` | `Dist` and the array, map, fan, graph and sort operations under it | `parallel` |
| `Migrate` | `migrate_mesh`, `push_down`, `form_new_conn`, `update_ownership` | `parallel` |
| `Future` | `ialltoallv`, `iexch`, `isync_array`, `completed`, `get` | `future`, `future_get` |
| `FutureProofs` | theorems about `Future` | TLAPS |
| `MeshComm` | `set_comm`, `bcast_mesh` and later partings; matches and `sync_tag_matched` | `parallel` |
| `MeshCommProofs` | theorems about `MeshComm` | TLAPS |
| `MeshFile` | the `.osh` directory and the layout of its streams | `parallel`, `rc_read` |
| `MCGraphComm.cfg`, `MCIndSet`, `MCParting.cfg`, `MCMemory`, `MCAllocTracking.cfg`, `MCFuture.cfg`, `MCFutureGet.cfg`, `MCMesh`, `MCCurved`, `MCText`, `MCParallel`, `MCRcRead.cfg` | | the instances |

Definitions under a comment that begins with "Faulty variant" are used by no
specification: each is a plausible mistake in the code it stands beside, kept to
show that a property would notice it.

### GraphComm

A rank that calls `graph(dsts)` must find out who names it. It goes through a
barrier, sends an empty synchronous message to each destination, and then polls:
receive what a probe finds, enter a non-blocking barrier once its own sends were
matched, stop once that barrier completed; a second barrier ends the call. `pc[r]`
is the place in that code, one action is one MPI call with the branch taken on its
result. MPI is external: `pending` holds the sends not yet matched, barriers are
left only when all have entered, a probe finds the oldest message of a sender, and
a probe or a test may report nothing although something has happened.

The run `graph_comm` (two ranks, two calls, any destinations including oneself)
checks that the loop ends with exactly the right sources, that no message is taken
by another call, that the whole is one collective operation (refinement of
`GraphCommSpec`), and that every call returns. Two calls are what it takes for a
message to reach the wrong one. A third rank, which may be slow while two others
finish, matters to the safety properties and would make the check of liveness too
large; `GraphCommProofs` proves the safety properties and the refinement for any
number of ranks.

Fairness (`FairSpec`): every rank keeps executing and makes its calls (weak
fairness on the steps that are always possible once reached). Strong fairness on a
successful probe or test is MPI's progress rule: a matching message, a matched send
or a complete barrier is seen by some later probe or test; the code repeats them
without bound, so it relies on this.

### IndSet

`state[r]` is a rank's array, `votes[r]` the values it gave to the successive
`get_max` reductions, `posts[r]` the arrays it sent in the successive
`sync_array`s; the sequences are how a fast rank can be ahead of a slow one. The
mesh is a parameter: `Up` gives the elements around an entity, `ElemsOn` the
elements on a rank under each parting. That owners see the whole star of their
entities on a ghosted mesh, and for vertices on a vertex-based one, is an
assumption on these parameters; `Parting` establishes it (`OwnersHaveAllUpward`).

The run `ind_set` takes a strip of six elements on three ranks with five entities,
all candidate sets, two qualities (so that ties happen), all partings and
dimensions. The global numbers are not monotone along the strip, so a decision can
travel across ranks and a copy's rank sees only a part of a star. It checks
independence at every moment, agreement of the copies, equality of the result with
the serial greedy set, refinement of `IndSetSpec` and termination. Deadlock is not
checked because the search ends. Fairness is weak fairness of each rank.

### Parting

The layout is a record: which elements and vertices each rank has (`on`), who owns
each (`owner`), and the values of one followed tag on each copy (`val`). All
operations are collective and their ranks only exchange data through Dist in the
same order, so each is one step, on the layout as a function of the old one.
Vertices stand for every dimension below the elements'. Ghosting adds layers to the
elements present, migration pulls everything from the old owners, and ownership is
kept or found again (fewest entities first, then lowest rank) exactly as in
`push_ents` and `update_ownership`.

The run `parting` starts a strip of four elements from every distribution over
three ranks and every choice of vertex owners, and then allows any sequence of
partings, one or two ghost layers, three rebalances and tag writes. Four elements
are the least for which two layers do not reach everything. Checked: an owner has a
copy of what it owns; where the code skips synchronisation there is one copy;
exactly the right ghost layers on every path; owners have all upward adjacent
elements when the mesh says so; redistribution never loses the owner's value;
`sync_tag` makes copies agree; ghosting does not move elements.

### Pool

`used` and `free` are the pool's arrays of lists, `heap` what malloc has handed out,
`lent` what the users hold. Mode `pool` of the run `memory` lets users ask for 0 to 4
bytes on a heap of 8 bytes and 5 blocks, with pooling switched on and off: all three
classes are lent, returned, reused, purged and exhausted. malloc is external; it fails
when the bytes exceed `Capacity` and does not fragment. A program that failed has
`Stopped`.

### SharedAlloc

Handles of the host, the handle captured by a lambda, the one in the running functor and
the threads' copies are objects with a kind, a pointer and a tagged size. The count is
not atomic: a counting copy made by a thread may lose its update, so a handle that
entered a kernel untagged shows up as a wrong count. The mode `handles` of the run
`memory` has three variables, two threads, three Allocs. Two obligations of callers are
guards: no self-assignment (`operator=` clears before it copies), and a captured
variable is still alive at the launch (`move` under `entering_parallel` gives up its
share of the count without deleting at zero). Both are listed as hazards.

### AllocTracking

The doubly linked list of Allocs and the high-water records. `Alloc::init` sets the
list's `last` only when the list was empty, so the third allocation is linked after
the first and the second drops out. The run `alloc_tracking` shows it: the records
under "The high water memory usage was N bytes, allocated as follows" then add up
to less than N. A pointer that would be followed into a deleted Alloc sets
`corrupted`, after which nothing more is modelled.

### The mesh of one rank: `MCMesh`

*RefElem, Adjacency.* The tables of the reference elements are sequences; an
adjacency is, for every entity, the sequence of the entities around it with the
seven-bit alignment code. A mesh is given by the vertices of its elements, edges
and faces are found as the distinct ones among their uses, and everything else is
derived when asked, in any order, through whichever entities in between. `MaxAsks`
bounds how many derivations are made (two, so that one uses what the other
stored), `MaxTurned` how many faces are represented from another vertex.

*Amr.* An entity is the set of its vertices' positions. `Refine` marks any one or
two leaves, makes the children of every dimension and transfers levels, leaves and
parents; `Derefine` removes. Two levels in two dimensions and one in three are
what it takes for an edge to be refined from both sides at different times. Mode
`enforced` refines through `enforce_2to1_refine` only.

*MeshMod.* An entity is the set of its vertices, a vertex its position on a small
lattice; the model the mesh is classified on is a set of cells. A step chooses any
independent set of up to `MaxKeys` keys and splits, collapses or swaps them, with
the checks of class, exposure and volume, the products of every dimension derived
separately, and classes inherited. The meshes: a rectangle of two faces (`rect`), a
disk whose boundary has no model vertex (`disk`), two regions (`tets`), polygons of
three to seven corners around an edge to be swapped (`axis`, which exercises every
table of `Omega_h_swap3d_tables.hpp`).

*Adapt.* The drivers as one program with a place for each loop. The mesh is a row of
edges, each with an element whose quality depends on the edge's length, and one
cavity that can be connected in two ways or lose its vertex and gets worse as
vertices or metric are moved. Every candidate goes through the filters that the
code puts it through, on the quality of what it would make: a split is dropped when
one of its halves is below the quality allowed (`Splittable`), a collapse when it
makes an edge too long, flips an element, makes one below the quality allowed or,
for a sliver, does not improve what was there (`Good`, `coarsen_slivers`); what is
left goes through the independent set and, on a curved mesh, the trial collapse. So
each call may find candidates and lose them at any filter, and return false with
lengths left as they are. The shapes of the run have elements for which every length
will do, for which halves or joined edges are too flat, and for which long or short
edges are, with collapses that flip or come out invalid; cavities are good, good once
swapped or collapsed, bad from some place on or from the start, or inverted.
Options are a named subset (`AdaptOptions`): any of the four steps, on a straight mesh
with or without the check for flips or on a curved one, there with at most one of
`min_crv_qual_allowed` and `should_filter_invalids` off; no geometric model, one, or one
with failures allowed. Goals are one `adapt`, a warp, and `approach_metric` behind
`fix_for_given_metric`, which sets its own qualities and lengths (`longest` is the
maximum in use) and lets snapping give up: `exit_on_stall` leaves the vertices where
they are, and the mesh below the quality allowed.

*RcFields.* The fields, the cached reverse classification and nested scopes over
up to three entities and two model entities.

*R3d.* A conservative transfer weighs every old element by what it has in common with
a new one. The state is the simplex or body a behaviour began with (`simplex`), the
polytope it has become (`polytope`) and the planes it was clipped by so far (`clips`).
A polytope is the graph that `ClipHelper` works on: every vertex has a position and
its neighbours in order. Reals are rationals with a common denominator, and a plane
keeps its integral normal, so that signs and moments are exact; the fixed sizes of the
vertex buffers are left out. Mode `clip` begins with edges, triangles, tetrahedra, a
cube, a pyramid, an octahedron or a quadrilateral and clips up to twice, through
vertices, edges and the inside. The links of what is left must close into
faces and its vertices lie on the right side of every plane; what a plane divides must
add up to the whole, in volume and in higher moments; two simplices must have the same
in common whichever is clipped by the faces of the other; and a body made from its
faces must have the volume within them (`IntersectionsAddUp`).

### MeshTags

A dimension's tags are a sequence, searched by name from its front as `tag_iter`
does; contents of arrays are versions, so that a cached measure tells of what it was
measured. Any sequence of `add_tag` (internal or not), `add_tag` without an array,
`set_tag`, `remove_tag`, `ask_lengths`, `ask_qualities`, `ask_sizes`, `set_parents`,
`ask_children`, `change_max_order`, `set_tag_for_ctrlPts` and the unmapping of the mesh
is allowed. A change with `internal = true` says that the caller sees to the measures
itself; the measures that stand then are recorded in `untold`, a history variable,
and promise nothing until they are removed and asked again. `set_parents` stores the
parents and leaves cached children as they are; the history variable `late` says that
the parents were set after the children had been asked, and `ChildrenMirrorParents` that
children and parents then differ until `unmap_mesh` builds both, and never otherwise.
Mode `tags` of the run `mesh` has a mesh of dimension two, four versions and orders up
to three.

### Curved meshes: `MCCurved`

A control point is a name, a place given by weights of the vertices of the old mesh, a
direction in twelfths of a degree or a set of tangents: what a module needs to tell the
right point from a wrong one without floating point. `Bezier` holds the pure functions
(Bernstein polynomials as integers, the maps of edges, faces and regions for every way
these are stored, the grids they are drawn with), checked in mode `draw` on one
tetrahedron with every orientation of its sides and faces. Mode `judge` computes the
coefficients of the Jacobian determinant of triangles and tetrahedra with moved control
points, and they are compared with the determinant computed from its definition. The
points of a tetrahedron come through `collect_tet_pts`, which gives the two points of
its side 3-4 to the node index in the other order: the coefficients are those of the
element with these points exchanged, and the verdict is about the element itself at the
first two vertices and about the exchanged one at the other two. `CurveElevate` raises
the order from 2 to 6 one edge at a time (`elevate`) and to 4 with two threads
(`elevate2`), which share the arrays `c1`, `c2`, ...: `mixed` are the edges that were
given a point of another thread's edge, and just these lose their curve. `CoarsenTrial`
runs the loops that mark a cavity on two threads (`check`), from memory that may hold
anything and with or without the class that only one of its callers has made, and on a
row of 129 tetrahedra (`long`), where numbers kept in a byte wrap around. In `trial` and
`search` it makes the collapses on a copy, drops what gave invalid elements, chooses
again and collapses for good; a vertex collapsed onto another one than was tried has the
verdict on others' elements. `CurvedRefine` (`refine2`, `refine3`) finds where on the
old mesh each new control point is interpolated, for strips of triangles and chains of
tetrahedra listed from every vertex. `CurvedCavity` has the fan of new edges on a
geometric face (`fans`, `ends`), also one that lies on both sides of its geometric edge,
and what a collapse or a swap inside does (`cavity`), with swaps at the boundary that
blend faces which were kept. Where the code gives a wrong result the property says for
which inputs, and is violated if these were others.

### Text: `MCText`

`Lalr` builds the LR(0) machine, traces lanes as the code does, with its markers and
originators, and the resulting parser reads every sequence of up to five tokens
(`parsing`); 256 small right-linear and crossing grammars are what the tracing is
tried on (`lanes`). `Reader` composes automata as the regular expression reader does,
each carrying the set of words it is meant to accept (`automaton`), unites them into a
lexer (`lexer`), cuts streams of up to seven characters into tokens, two streams in
a row (`reader`), and turns indentation into INDENT and DEDENT (`indents`, `symbols`).
`Expr` evaluates each program with both readers (`expr`). `InputYaml` generates
derivations of the YAML grammar and calls the callbacks in the order of the parser
(`yaml`), and reads block scalars line by line (`block`). `Inputs` reads files that
include each other, themselves, or nothing that exists, and then makes up to five
calls (`input`), and parses every command line of up to four tokens, first for the
Library, then for the program (`line`). `RBTree` runs every sequence of insertions and
deletions on eight keys (`tree`) and on two maps with copies, moves and hints
(`maps`).

### Several ranks: `MCParallel`

`Dist` has the operations on index arrays, checked against their definitions on every
array of up to six small numbers (`arrays`), and on top of them the Dist of three
processes with every assignment of items to roots, inverted and carried to other
communicators (`dist`). `Migrate` extends it: each step of `migrate_mesh` is an action,
on a strip of two elements over three processes, with every assignment of elements
(`migrate`). `MeshComm` changes a mesh's communicator back and forth while partings go
on (`comm`); each rank keeps its own copy of what steers the collectives, and a call
that only some ranks would make is recorded. Callers may ask for any layers and have
empty class sets, which `bcast_mesh` does not send. The history variable `unlike` says
what new ranks were not told (`layers`, `sets`) and whether `set_comm` gave ranks other
numbers than a cached Dist has (`numbers`); `RanksAgree`, `CallsMatch` and
`NumbersFollow` say that nothing else differs, and `CallsMatch` that calls differ only
on a ghosted mesh whose ranks have different numbers of layers: some return from
`set_parting` and the others wait. `DistsFollow` says what a cached Dist is good for
after that: it names the same owners in the communicator it was made on. `MatchedSpec`
has periodic entities on two and three ranks (`two`, `three`); that the instances
satisfy what the theorems assume, `CallersFit` and `MatchesFit`, is an assumption TLC
evaluates. `MCParallel` EXTENDS `MeshComm`, so that `CallsGoTogether` is the definition
the theorem states; in the other modes there is no communicator and no mesh. `MeshFile`
writes and reads directories step by step on two and three ranks, over old directories
and with the streams of earlier versions (`file`, `file3`). An rc field is written
expanded to all entities and read as one more tag: `ReadBack` says what a reader gets,
and the run `rc_read` that it is not the field that was written. A check fails on
exactly the ranks that read a part of a curved mesh without edges (`NoCheckFails`).

### Future

A future holds the receives and sends that MPI has not ended; a message is matched with
the receive posted first, a send ends whenever MPI has taken the message. `Iexch` starts
an exchange, on a Dist the caller has (`iexch`) or through `isync_array`, which calls
`iexch` on a temporary: the callback holds its `this`, so when `get` calls it the Dist
is gone (`dist_alive` is false), and what it makes of the buffer may be right or not.
`Completed` and `Get` are the two questions a caller may ask; `Polled` are the ranks
whose caller waits for `completed` to say so before it calls `get`. The run `future` has
two ranks with two exchanges each, under way at once, and one of the ranks polls; all
interleavings of MPI and the two programs are explored. `ResultsComplete` says what
`get` hands to the callback (all of the messages, unless `completed` had said too early
that it was over) and what comes back. That the latter is what the neighbours sent, "the
result" in the words of `Omega_h_future.hpp:69`, is `ResultsAreTheMessages`, which the
run `future_get` shows violated by one `isync_array`. Fairness (part of `Spec`): MPI
delivers messages and ends sends, and every rank starts its exchanges and asks.

## Runs

| Run | Instance | Distinct states | Shows |
|---|---|---|---|
| `graph_comm` | 2 ranks, 2 calls, any destinations, itself included | 25,510 | no source is missed, no message is taken by another call, refinement of `GraphCommSpec`, every call returns (under MPI's progress rule) |
| `ind_set` | 6 elements, 5 entities, 3 ranks, 2 qualities | 175,488 | independence, agreement of copies, the greedy result, refinement, termination |
| `parting` | 4 elements, 3 ranks, 2 layers, 3 rebalances | 49,944 | layouts, ownership, no data lost, skipped syncs |
| `memory` | pool: 5 blocks, 8 bytes, requests of 0 to 4; handles: 3 variables, 2 threads, 3 Allocs | 18,761 | lists and heap agree, blocks fit, failure only when full; exact counts, nothing dangles |
| `future` | 2 ranks, 2 exchanges, one rank polls | 201,057 | what `get` waits for and returns, buffers are held, exchanges do not mix, every result arrives |
| `mesh` | 12 modes, see above | 605,628 | the mesh stays a mesh in every representation, and what is kept beside it stays true; adaptation ends, or goes round for a reason |
| `curved` | 13 modes | 288,411 | control points end up with their entities, and where they do not |
| `text` | 14 modes | 354,053 | what is read is what was written |
| `parallel` | 8 modes | 58,613 | nothing is lost or mixed up between ranks, and which calls go apart |
| `alloc_tracking` | 3 Allocs | up to the violation | *violation*: the report does not add up |
| `future_get` | 2 ranks, 1 exchange | up to the violation | *violation*: `get` returns what the callback read through a Dist that is gone |
| `rc_read` | instance of `parallel` | up to the violation | *violation*: an rc field is not read back |

Deadlock is checked except where a program ends: a search that is done, a failed
allocation, a file that was read.

Fairness. `FairSpec` of `GraphComm` and `IndSet`, and `Fairness` of `Future`, are
described above. In the composed runs weak fairness is given only to steps of a part
whose termination is a property, where one thread (or, for files, every rank) simply
goes on: `AdaptStep` in `mesh`, `TrialStep` in `curved`, parsing, block scalars and the
walk over includes in `text`, the mode `file` in `parallel`. Calls by a program (further
`get`s, further `ask`s) have none.

Why these bounds. Each was chosen as the least for which the case a property is
about occurs; the mutants of `PROJECT.json` are the evidence, one plausible mistake
in a modelled definition for every property, which the property's own run notices
under its own bounds. `MaxElems`, `MaxVerts`, `MaxAsks`, `MaxOps`, `MaxCalls`,
`MaxVersion`, `MaxCall`, `MaxDegree`, `MaxScopes` and the like only cut
behaviours short; they are guards and correspond to nothing in the code. `MaxIters` of
`Adapt` stands for the number of halvings a warp makes or has room for above its least
step; no cavity of the run becomes bad exactly at the target of a move, which the code
would approach until numbers cannot be halved any more.

## Where the code departs from what it says

Three disagreements have a run of their own, `alloc_tracking`, `future_get` and
`rc_read`. The others below were met while modelling, and the behaviour is in the
modules. Most have a passing property that says exactly when the code departs, so
that it would notice another case, or the end of this one; they are marked with
*exactly* and the name. For the rest the passing runs leave out the inputs that lead
there (named in brackets where it is a constant), and a predicate that would state
what was meant is kept in the module under the name given. Run it as an invariant or
property of the module to see a counterexample.

Mesh and adaptation:

- `adapt` of a curved mesh need not end: `refine` returns true for a mesh it did not change
  when `min_crv_qual_allowed` is not positive (`Omega_h_refine.cpp:276`), and
  `swap2d_ghosted_crv` and `swap3d_ghosted_crv` keep every candidate
  (`Omega_h_swap2d.cpp:25`; *exactly* `Ends`, `StaysRound` with `GoesRound`). It returns true
  although nothing changed (`Omega_h_adapt.cpp:368`).
- A warp to the surface that may stall, always so under `fix_for_given_metric`, leaves the
  mesh at coordinates `okay()` had refused (`Omega_h_approach.cpp:61`,
  `Omega_h_fix.cpp:110`; *exactly* `MoveLeavesOkay`).
- `fix_for_given_metric` passes a negative quality of an inverted mesh to `validate`,
  which stops the program (`Omega_h_fix.cpp:101`; in `pre_adapt`).
- `set_parents` keeps the children that were asked before (`Omega_h_mesh.cpp:272`;
  *exactly* `ChildrenMirrorParents`).
- `element_up_template` has the wrong flip for wedge edges 3 to 5 and pyramid edges 4
  to 7 (`Omega_h_element.hpp:298`; `DirectionsAreTrue` on `MixedFamilies`).
- `unmap_parents` forgets the parents of vertices, after which refining beside a
  refined neighbour fails a check (`Omega_h_unmap_mesh.cpp:73`; `NeverFails` with
  `derefine`); `enforce_2to1_refine` makes one pass and reads marks not yet written
  (`Omega_h_amr.cpp:50`; `Balanced`).
- `set_tag` fails a check on a rank without entities (`Omega_h_mesh.cpp:410`;
  `SetTakesExisting`).
- Reverse classification: class ids of a field are forgotten by a round trip through
  tags (`Omega_h_rcFields.cpp:302`; `FieldKept` with `IdLists`); the cached inverse
  survives a new classification (`:149`; `RevClassFresh`); the last model entity's
  range is read past the end (`:166`; `RevClassInRange`); a rank without entities
  cannot convert back (`:114`; `EmptyRankConverts`).

Curved meshes:

- The kernels that elevate edges from order 3 on share `c1`, `c2`, ... among threads
  (`Omega_h_beziers.cpp:346`; *exactly* `EdgesKeepTheirCurves`), and from 3 to 4 two points of
  a face are exchanged (`:453`; *exactly* `QuarticFaceIsExchanged`).
- `collect_tet_pts` and the node index disagree on two points of a cubic tetrahedron
  (`Omega_h_beziers.hpp:2145`; *exactly* `CoefficientsOfTheJacobian`, `TetVerdictIsSound`).
- A third upper edge, where a geometric face lies on both sides of a geometric edge, is
  not averaged (`Omega_h_curve_coarsen.hpp:376`; *exactly* `UpperEdgesAreTwo`). A fan of more
  than 161 degrees is taken for concave, opposite upper edges have no average (`:466`,
  `453`; `ConvexFansUncrossed`, `DirectionsDefined`), and the dual cone is decided by the
  number of new edges (`:1266`; `ConesShareBase`).
- `face_blends` overwrites kept faces (`Omega_h_curve_swap.hpp:1669`; *exactly*
  `KeptFacesCopied`).
- `curve_refine_2d` takes a key's number from a counter all threads share
  (`Omega_h_curve_refine_2d.cpp:79`; `KeyIsOwn`).
- The verdict of a trial is taken from elements of other keys
  (`Omega_h_coarsen_invalidities.cpp:684`; *exactly* `MadeWereJudged`) and edges that exist
  are made straight (`:64`, `:288`; `OnlyNewAreStraight`).
- `build_given_tets` reads `cav_classdim` before anything makes it
  (`Omega_h_build.cpp:1572`) and keeps numbers of entities in bytes (`:1592`; both *exactly*
  `CavityIsWhole`), and `make_cavity_class` reads an array that is not filled
  (`Omega_h_cavity_class.cpp:25`; *exactly* `BoundaryOfCavities`).

Text:

- `make_immediate_predecessor_graph` takes kernel items for originators, so an LALR(1)
  grammar is refused (`Omega_h_build_parser.cpp:479`; `RefusedRightly`), and the order of
  markers asserted at `:711` need not hold (`MarkersInStep`).
- At the end of a stream the reader does not go back to its last accepting place
  (`Omega_h_reader.cpp:297`; `EndCutsUp`); `indent_mismatch` fails its own check when no
  level is open (`:125`; `MismatchNamesALine`).
- `m(i, j)` reads `m(i, i)` (`Omega_h_expr.cpp:379`; `EntriesRead`); an assignment may
  hide a function (`:755`; `NamesDistinct`); `ternary_each` fails on no points
  (`Omega_h_array_ops.cpp:326`; `EvalIsPointwise` with no points).
- A header comment, and `\r\n`, make a block scalar lose its shape
  (`Omega_h_input.cpp:809`, `:790`; `BlockRead` with comments or `crlf`); a document that
  begins with a marker is refused by a check (`:397`; `MarkersAccepted`).
- `--osh-time-chop=2` is documented and not understood (`Omega_h_cmdline.cpp:156`;
  `ChopAsDocumented`).

Several ranks:

- `Future::completed` answers the opposite of `MPI_Testall` (`Omega_h_future.cpp:52`;
  *exactly* `ResultsComplete` and `BuffersHeldWhileInUse`, with `polled`), so waiting for it
  need not end (`:55`; `EveryResultArrives` without `\ Polled`), and `isync_array` lets the
  Dist its callback reads go out of scope (`Omega_h_mesh.cpp:1173`; *exactly*
  `ResultsComplete`, and the run `future_get`).
- `set_comm` leaves cached Dists on the old communicator (`Omega_h_mesh.cpp:74`;
  *exactly* `DistsFollow`), whose numbers `update_ownership` mixes with those of the new
  one (`Omega_h_owners.cpp:11`; *exactly* `NumbersFollow`); `bcast_mesh` sends neither the
  number of ghost layers nor empty class sets (`Omega_h_bcast.cpp:22`; *exactly*
  `RanksAgree`, `CallsMatch`).
- `sync_tag_matched` on one rank leaves leaves as they were and owners exchanged
  (`Omega_h_mesh.cpp:1163`; `LeavesMatch` with one rank).
- `set_dest_globals` on the inverse Dist leaves elements unsorted after `migrate` and
  `balance` (`Omega_h_mesh.cpp:1082`; `ElemsSorted`).
- `filter_graph_edges` sums bytes (`Omega_h_graph.cpp:95`): a node that keeps more than
  127 edges breaks the fan.
- `read_tag` leaves rc fields as tags (`Omega_h_file.cpp:380`; *exactly* `ReadBack`, and the
  run `rc_read`) and takes the order of a curved mesh from a local maximum, so a part
  without edges fails a check (`:340`; *exactly* `NoCheckFails`).

## Proofs

TLAPS checks the following for all values of the constants that satisfy the named
assumptions; `PROJECT.json` lists each theorem with the property it states. All
properties of the runs `graph_comm`, `ind_set`, `parting`, `memory` and `future` are
proved except the three that are about liveness, and so is what `mesh` checks of
`MeshTags` (`MeasuresFresh`, `ChildrenMirrorParents`) and `parallel` of `MeshComm`
(`CallsGoTogether`, `MatchesSynced`). Every proof module has the same outline: facts
about the operators, an inductive invariant `IInv` (or a stronger one built on it), one
lemma per action that the action preserves it, one lemma that puts the actions together,
and the theorems.

*GraphCommProofs.* `TypeCorrect`, `DiscoveryComplete`, `CallsKeptApart`,
`Refinement`. `LoopEndsWithAllSources` is not inductive. The strengthening `IInv`
says: a rank past the first barrier of its call has no rank behind that call, and
one that has begun a call has no rank still looping in the call before
(`BarrierInv`); who has left the loop has seen every rank enter the non-blocking
barrier (`IbarrierInv`); a pending message keeps its sender in the loop of the
message's call (`PendingInv`); and a rank has received from a sender exactly if that
sender's message to it was issued and is matched (`CountInv`). When the loop ends
nothing is left to issue and nothing is pending, hence everything was received.

*IndSetProofs.* `TypeCorrect`, `Independence`, `CopiesEndAlike`, `GreedyResult`,
`Refinement`. The argument is about rounds: the reduction keeps ranks within one round
of each other (`LagInv`), a rank's array holds what the owners sent in the round it
is in (`StateInv`), and what it sent last is one local iteration on the owners'
values of the round before (`RoundInv`). The owner sees the full star
(`StarComplete`, from the parting's promise), so two neighbours selected in the same
round would each have to compare less than the other (`LessAsymmetric`), and one
selected later would have seen the other. What the end of the search means needs
more, `ResultInv`: a selected entity's neighbours are rejected or are undecided and
compare less, and a rejected candidate has a selected neighbour that compares
greater (`GreedyInv`; the owners' decisions may grow by any step of `IndSetSpec`
without disturbing it, `DecisionsGreedy`); a rank's last vote tells whether any of its
copies is undecided (`VoteInv`); and a rank that is done has no undecided copy, and
its copies hold what their owners had when it stopped, which no owner changes any more
(`DoneInv`, `DoneStays`). When all are done, every owner's entity is decided, so
`GreedyInv` leaves one set, the one a serial greedy search selects: the
result does not depend on the partition. No induction over the order of the
entities is needed, because the property says what a set is and not how it is found.

*PartingProofs.* `TypeCorrect` and every property of the run: `LookupByOwner` (from
`OwnersAreThere` and `SkippedSyncIsSafe`), `GhostLayers`, `UpwardComplete`,
`DataSurvives`, `SyncAgrees`, `ElementsStay`, for any mesh in which every element has a
vertex and every vertex an element, any ranks and any number of layers. `IInv` describes
each parting's layout in terms of the owners: an element-based rank has the elements it
owns, a ghosted one the layers around them, a vertex-based one the elements around its
vertices; vertices are those of the elements present; exactly the copies carry values
(`Layout`, `Closed`, `TagsHeld`). One conjunct is easily missed: on a ghosted mesh the
owner of a vertex *owns* an element around it, a trace of the element-based mesh it came
from. Without it a vertex at the rim of the ghost layers could be owned by a rank that
lacks some of its elements, and `OwnersHaveAllUpward` would not follow. `MigrateInv` is
the lemma all operations share: a migration that gives every element to some rank, and
to its owner when owners are kept, yields a consistent mesh with the old owners' data.
`LayersAdd` (layers around layers add up) is why adding the missing layers equals
ghosting anew, `OwnerIsClient` why `update_ownership` always finds an owner.

*PoolProofs.* `TypeCorrect`, `ListsAndHeapAgree`, `BlocksFit`, `FailuresHaveACause`, for
any blocks, any request sizes, any number of classes and any capacity. `IInv` says: no
list holds a block twice (`ListsInv`); what is in a used list is lent, to a request of
that class, and has the class's size (`UsedInv`); what is in a free list is nobody's and
has the class's size (`FreeInv`); what is lent is in the used list `deallocate` looks in
or came from malloc directly (`LentInv`); nothing malloc handed out is forgotten
(`HeapInv`); without pooling all lists are empty (`OffInv`). From `FreeInv` and
`HeapInv` a purge leaves just the blocks in use on the heap (`PurgeFacts`), so the heap
that has no room for the retry is the one `FailsOnlyWhenFull` speaks of, and it need not
be known how sizes add up. `ListsMatchHeap` follows: two classes cannot share a block,
because its size or its request would have two classes. `shift`, the loop that finds the
class, is proved to be the least `n` with `2^n` at least the size; the powers of two,
`Bytes`, are a recursive function, and that it exists is shown by the least
counterexample (`LeastNumber`, from the well-foundedness of `<` on Nat), as the
library's induction theorems take an operator and cannot be instantiated by the provers.

*SharedAllocProofs.* `TypeCorrect`, `CountsAreExact`, `NothingEverDangles`,
`KernelHandlesAreTagged`, for any finite sets of variables and threads and any Allocs.
A count is the cardinality of the set of objects that hold a counting handle, so each
operation comes down to how one or two objects' handles change that set
(`ReplaceOne`, `OneCounted`, `TwoCounted`). What makes it inductive: host objects never
hold the uncounted handle of a kernel, a thread's copy is the kernel's handle
(`PlacesInv`), and the kernel's Alloc is held by a counting handle on the host, where
nothing moves before the kernel ends (`KernelInv`). The last is what keeps the
memory alive although the kernel's handles do not count.

*FutureProofs.* `TypeCorrect`, `MessagesKeptApart`, `BuffersAreHeld`,
`ResultsAreComplete`, for any ranks, any number of exchanges, whatever Dist they are
started on and whoever polls. `FifoInv` is what makes it inductive: for every pair of
ranks there is a number `n` such that the receiver has the messages of its exchanges up
to `n` and waits for those after it, and what is under way is the sequence of numbers
after `n` that the sender has started (`ArrivedUpTo`). So the receive posted first is
that of exchange `n + 1` and so is the oldest message (`FirstReceive`), although all
exchanges use one tag and nothing in a message says which it belongs to. `ConsumedInv`
says that who was not told by `completed` that the exchange is over has waited for what
it got, and what a callback may have made of it.

*MeshTagsProofs.* `TypeCorrect`, `MeasuresAreFresh`, `ChildrenAreMirrored`,
`CtrlPtsFollowOrder`, for meshes of dimension up to three and any number of entities,
versions and orders. `IInv` is the conjunction of the four: that a measure is fresh
needs that a name occurs once in its dimension (part of `TypeOK`), or removing a tag
would uncover an older one. The lemmas say what `remove_tag` and `put_tag` do to every
other tag (`RemoveFacts`, `PutFacts`); `add_tag` of coordinates or of a metric takes
away exactly the measures that need it (`ReactFacts`), so each of the twelve operations
either leaves a measure and what it was measured from alone, or removes it, or measures
it anew. `ChildrenMirrorParents` is inductive because `late` is set just when parents
are stored beside children, with a version no array has had. `CtrlPtsOfOrder` and the
handles' tags (`KernelHandlesAreTagged`) are proved without a run of their own.

*MeshCommProofs.* Of `CommSpec`: `CommTyped`, `OwnersFollowComm`, `DistsFollowComm`,
`NumbersFollowComm`, `RanksAgreeAlways`, `HintsAgreeAlways`, `CallsMatchAlways`, and the
last six together, `CallsStayTogether`, for any number of ranks, any communicators, any
layers, any class sets and any sequence of operations. Each rank has its own copy of
what steers the collectives, and `CommInv` says how the copies are tied: the ranks that
have a communicator have the same one, and agree on parting, tags, class sets with
pairs and hints, and on layers and empty sets but for what `unlike` records (`Alike`);
the calls they made last are the same, or differ by the layers (`CallsAlike`); the
numbers of owners denote, in the communicator the mesh has, the ranks of the world that
own the entities (`Denotes`); those of a cached Dist denote the same ranks in the Dist's
own communicator, which may be an older one (`Holds`), the same for all of them
(`DistsAlike`), and are equal to the numbers the mesh has unless `unlike` says that these
were changed (`NumbersKept`). That is just enough for `change_comm`, which goes from one
communicator to the other (`NumbersChange`). `CallersFit` assumes of callers only what
`set_parting` and `ghost_mesh` check, and that a communicator names a rank once.
Of `MatchedSpec`: `MatchedDistCurrent`, `SwapsCancel`, `LeavesGetRoots`,
`SyncedCopiesAgree`, for any entities, owners and matches on two ranks or more; with one
rank they fail, as above. `MatchesFit` is what makes swapping twice the identity: an
owner owns itself, an entity has one match, and a root is matched with itself. The
first swap sends every leaf, and every root, to the root for its value, the second
restores what the first changed (`FirstSwap`, `SecondSwap`), so `MatchedInv` can say that
every operation begins with the owners and matches the mesh was made with.

### What stays with TLC

- Liveness under fairness: `AllCallsReturn`, `EventuallyStopped`, `Ends`,
  `CodesAreHandedOn`, `ComesToAnEnd`, `BlocksFinish`, `ReadEnds`, `EveryResultArrives`,
  `Finishes`.
- All properties of the runs `curved` and `text`, those of `mesh` except of `MeshTags`, and
  those of `parallel` except of `MeshComm`. Most of their
  modules compute with folds over tables, sequences or graphs: what such an operator
  gives for every input is an induction over data, or a case table with numbers.
- Type invariants of the modules without theorems; those of the others are proved and
  are no run's properties.

## Not modelled, and why

- Floating-point geometry: metrics, qualities beyond the sign of a volume, shape
  functions, eigenvalues, recovery, the inertia of a bisection, the fits of a pointwise
  or linear transfer and the integral errors that `Omega_h_conserve.cpp` carries and
  diffuses. Of the solution transfer only the intersections are modelled (`R3d`).
- Foreign mesh formats (vtk, gmsh, exodus, meshb, stk, dolfin), compression and byte
  order of the native one: conversions through libraries outside of the repository.
- CAD bindings (egads, simmetrix), Python bindings, command-line tools and tests.
- Building and classifying of boxes and given meshes: loops over tables with no state.
- MPI, malloc, Kokkos and the file system are external: MPI is modelled as far as the
  calls in `src/` use it, malloc by its capacity.
- Within modelled components: mixed-mesh variants that repeat the others, the numbering
  of new entities, migration of matched entities, and what `PROJECT.json` notes for
  each component.

## Plan

1. Proofs about the protocol of `MeshFile` that use neither folds nor sorting.
2. `OwnersAgree` and `MeshKept` of `Migrate`, as far as they do not rest on sorting.
3. `modify_ents`: the numbering of new entities over ranks.
