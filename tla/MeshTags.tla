------------------------------ MODULE MeshTags ------------------------------
(***************************************************************************)
(* The tags of one Mesh and what it caches beside them: lengths, qualities *)
(* and sizes (tags that the mesh makes when asked), the children (inverse  *)
(* of the parents), and the control point tags of a curved mesh.           *)
(*                                                                         *)
(* The contents of an array are a sequence of versions: <<>> is an array   *)
(* that does not exist, <<v>> one that a caller made, and the array of a   *)
(* measure is the contents it was measured from.                           *)
(***************************************************************************)
EXTENDS Integers, SequencesExt

CONSTANTS
  Dim,          \* dim_ of the mesh
  Nents,        \* nents_, the same for every dimension
  MaxVersion,   \* bound: how many arrays callers make
  MaxOrder      \* bound: polynomial orders of a curved mesh

ASSUME MeshAssumption ==
  Dim \in 1..3 /\ Nents \in Nat /\ MaxVersion \in Nat /\ MaxOrder \in Nat

VERT == 0
EDGE == 1
Dims == 0..Dim

VARIABLES
  tags,       \* tags_: dimension -> sequence of tags, in order
  version,    \* the last version a caller made
  max_order,  \* max_order_
  parents,    \* parents_: 0 is null, 1 is nobody has a parent, others are set ones
  children,   \* children_: 0 is null, others are the parents it was inverted from
  late,       \* history: these parents were set after the children had been asked
  failed,     \* the last call ended in fail()
  untold      \* measures whose coordinates or metric were set with internal = true

vars == <<tags, version, max_order, parents, children, late, failed, untold>>

Tag(name, ncomps, array) == [name |-> name, ncomps |-> ncomps, array |-> array]

-----------------------------------------------------------------------------
(* tag_iter, has_tag, remove_tag, add_tag on the tags ts                    *)

has_tag(ts, d, name) == \E i \in DOMAIN ts[d] : ts[d][i].name = name

tag_iter(ts, d, name) ==
  CHOOSE i \in DOMAIN ts[d] : /\ ts[d][i].name = name
                            /\ \A j \in 1..(i - 1) : ts[d][j].name # name

get_tag(ts, d, name) == ts[d][tag_iter(ts, d, name)]

get_array(ts, d, name) == get_tag(ts, d, name).array

remove_tag(ts, d, name) ==
  IF has_tag(ts, d, name)
  THEN [ts EXCEPT ![d] = RemoveAt(@, tag_iter(ts, d, name))]
  ELSE ts

\* Faulty variant: the metric is forgotten.
react_to_set_tag_moved(ts, d, name) ==
  IF d = VERT /\ name = "coordinates"
  THEN remove_tag(remove_tag(remove_tag(ts, EDGE, "length"), Dim, "quality"), Dim, "size")
  ELSE ts

react_to_set_tag(ts, d, name) ==
  LET moved  == d = VERT /\ name = "coordinates"
      scaled == d = VERT /\ name = "metric"
      t1 == IF moved \/ scaled
            THEN remove_tag(remove_tag(ts, EDGE, "length"), Dim, "quality")
            ELSE ts
  IN  IF moved THEN remove_tag(t1, Dim, "size") ELSE t1

\* A tag of the name is replaced where it stands, a new one goes to the end.
put_tag(ts, d, tag) ==
  [ts EXCEPT ![d] = IF has_tag(ts, d, tag.name)
                    THEN [@ EXCEPT ![tag_iter(ts, d, tag.name)] = tag]
                    ELSE Append(@, tag)]

add_tag(ts, d, tag, internal) ==
  IF internal THEN put_tag(ts, d, tag)
  ELSE react_to_set_tag(put_tag(ts, d, tag), d, tag.name)

\* The contents a measure has when it is taken now.
measured(ts, name) ==
  LET coords == get_array(ts, VERT, "coordinates")
  IN  IF name = "size" THEN coords ELSE coords \o get_array(ts, VERT, "metric")

\* n_internal_ctrlPts
n_internal_ctrlPts(d, order) ==
  CASE d = 1 -> order - 1
    [] d = 2 -> ((order - 1) * (order - 2)) \div 2
    [] d = 3 -> ((order - 1) * (order - 2) * (order - 3)) \div 6

\* The point counts are tags too.
add_ctrlPts(ts, d, order) ==
  IF d <= Dim /\ n_internal_ctrlPts(d, order) > 0
  THEN add_tag(add_tag(ts, d, Tag("bezier_pts", n_internal_ctrlPts(d, order) * Dim, <<>>), TRUE),
               d, Tag("n_bezier_pts", 1, <<n_internal_ctrlPts(d, order)>>), FALSE)
  ELSE ts

remove_ctrlPts(ts, d, order) ==
  IF d <= Dim /\ n_internal_ctrlPts(d, order) > 0 /\ has_tag(ts, d, "bezier_pts")
  THEN remove_tag(remove_tag(ts, d, "bezier_pts"), d, "n_bezier_pts")
  ELSE ts

add_tags_for_ctrlPts(ts, order) ==
  add_ctrlPts(add_ctrlPts(add_ctrlPts(ts, 1, order), 2, order), 3, order)

remove_tags_for_ctrlPts(ts, order) ==
  remove_ctrlPts(remove_ctrlPts(remove_ctrlPts(ts, 1, order), 2, order), 3, order)

-----------------------------------------------------------------------------
Init ==
  /\ tags = [d \in Dims |-> <<>>]
  /\ version = 1 /\ max_order = 1
  /\ parents = 0 /\ children = 0 /\ late = FALSE
  /\ failed = FALSE /\ untold = {}

Fresh == /\ version < MaxVersion /\ version' = version + 1
Rest == UNCHANGED <<max_order, parents, children, late>>

Inputs == {"coordinates", "metric"}
Measures == {<<EDGE, "length">>, <<Dim, "quality">>, <<Dim, "size">>}
Needs(m) == IF m[2] = "size" THEN {"coordinates"} ELSE Inputs

\* Measures that are there and were not told of a change.
Untold(ms) == untold' = {m \in ms : has_tag(tags', m[1], m[2])}

\* add_tag with an array, by a caller or as part of a migration, an adaptation
\* or the reading of a file.
AddTag(name, internal) ==
  /\ ~failed /\ Fresh /\ Rest
  /\ tags' = add_tag(tags, VERT, Tag(name, 1, <<version'>>), internal)
  /\ Untold(untold \cup {m \in Measures : internal /\ name \in Needs(m)})
  /\ UNCHANGED failed

\* add_tag without an array: internal whoever calls it.
AddTagOnly(name) ==
  /\ ~failed /\ Rest
  /\ tags' = add_tag(tags, VERT, Tag(name, 1, <<>>), TRUE)
  /\ UNCHANGED <<version, failed, untold>>

\* set_tag: the number of components comes from the size of the array, by way
\* of divide_no_remainder, which does not take a zero.
SetTag(name, ncomps) ==
  /\ ~failed /\ Rest
  /\ \/ /\ has_tag(tags, VERT, name) /\ Nents # 0
        /\ Fresh
        /\ tags' = add_tag(tags, VERT, Tag(name, ncomps, <<version'>>), FALSE)
        /\ UNCHANGED failed
     \/ /\ ~has_tag(tags, VERT, name) \/ Nents = 0
        /\ failed' = TRUE /\ UNCHANGED <<tags, version>>
  /\ Untold(untold)

RemoveTag(name) ==
  /\ ~failed /\ Rest
  /\ has_tag(tags, VERT, name)
  /\ tags' = remove_tag(tags, VERT, name)
  /\ UNCHANGED <<version, failed, untold>>

\* ask_lengths, ask_qualities and ask_sizes: measured when there is no tag.
ask(d, name) ==
  /\ ~failed /\ Rest
  /\ ~has_tag(tags, d, name)
  /\ \A n \in Needs(<<d, name>>) :
       has_tag(tags, VERT, n) /\ get_array(tags, VERT, n) # <<>>
  /\ tags' = add_tag(tags, d, Tag(name, 1, measured(tags, name)), FALSE)
  /\ UNCHANGED <<version, failed, untold>>

AskLengths   == ask(EDGE, "length")
AskQualities == ask(Dim, "quality")
AskSizes     == ask(Dim, "size")

\* set_parents stores the parents and nothing else: children that were asked
\* before stay as they were.
set_parents ==
  /\ ~failed
  /\ Fresh /\ parents' = version'
  /\ late' = (children # 0)
  /\ UNCHANGED <<tags, max_order, children, failed, untold>>

\* ask_parents (nobody has a parent unless they were set) and its inverse, made
\* when there is none.
ask_children ==
  /\ ~failed
  /\ parents' = IF parents = 0 THEN 1 ELSE parents
  /\ children' = IF children = 0 THEN parents' ELSE children
  /\ UNCHANGED <<tags, version, max_order, late, failed, untold>>

\* Faulty variant: the leaf tag is made before the parents are renumbered.
built_leaves_first == [parents |-> version', children |-> 1]

\* unmap_mesh: a new mesh takes the tags in their order, and if there are any
\* parents first those (renumbered, so it is another array) and then the leaf
\* tag, for which it asks the children.
built_parents == [parents |-> version', children |-> version']

unmap_mesh ==
  /\ ~failed
  /\ \A d \in Dims : \A t \in ToSet(tags[d]) : t.array # <<>>
  /\ \/ /\ parents = 0
        /\ children' = 0 /\ UNCHANGED <<tags, version, parents>>
     \/ /\ parents # 0
        /\ Fresh
        /\ parents' = built_parents.parents /\ children' = built_parents.children
        /\ tags' = add_tag(tags, Dim, Tag("leaf", 1, <<version'>>), FALSE)
  /\ late' = FALSE
  /\ UNCHANGED <<max_order, failed, untold>>

\* add_tag refuses more components than an I8 can count; change_max_order with an
\* order below that, and the control points that the caller sets afterwards.
INT8_MAX == 127

change_max_order(order) ==
  /\ ~failed
  /\ \A d \in 1..Dim : n_internal_ctrlPts(d, order) * Dim <= INT8_MAX
  /\ tags' = add_tags_for_ctrlPts(remove_tags_for_ctrlPts(tags, max_order), order)
  /\ max_order' = order
  /\ UNCHANGED <<version, parents, children, late, failed, untold>>

set_tag_for_ctrlPts(d) ==
  /\ ~failed /\ Nents # 0 /\ Rest
  /\ has_tag(tags, d, "bezier_pts")
  /\ Fresh
  /\ tags' = add_tag(tags, d, Tag("bezier_pts",
               n_internal_ctrlPts(d, max_order) * Dim, <<version'>>), FALSE)
  /\ UNCHANGED <<failed, untold>>

Next ==
  \/ \E name \in Inputs :
       \/ \E internal \in BOOLEAN : AddTag(name, internal)
       \/ AddTagOnly(name)
       \/ SetTag(name, 1)
       \/ RemoveTag(name)
  \/ AskLengths \/ AskQualities \/ AskSizes
  \/ set_parents \/ ask_children \/ unmap_mesh
  \/ \E order \in 1..MaxOrder : change_max_order(order)
  \/ \E d \in 1..Dim : set_tag_for_ctrlPts(d)

Spec == Init /\ [][Next]_vars

-----------------------------------------------------------------------------
Names == {"coordinates", "metric", "length", "quality", "size", "leaf", "bezier_pts", "n_bezier_pts"}
TagRecord == [name : Names, ncomps : Int, array : Seq(Int)]

UniqueNames(s) == \A i, j \in DOMAIN s : s[i].name = s[j].name => i = j

\* Every tag has its type, no dimension has two of one name, and what was not told of
\* a change is a measure that is there.
TypeOK ==
  /\ DOMAIN tags = Dims
  /\ \A d \in Dims : tags[d] \in Seq(TagRecord) /\ UniqueNames(tags[d])
  /\ version \in Nat /\ max_order \in Nat \ {0} /\ parents \in Nat /\ children \in Nat
  /\ late \in BOOLEAN /\ failed \in BOOLEAN
  /\ untold \subseteq {m \in Measures : has_tag(tags, m[1], m[2])}

\* Lengths, qualities and sizes that the mesh holds are those of the coordinates
\* and the metric that it holds, whatever was added, set, removed and asked in
\* between, but for those that stood when one of these two was set with
\* internal = true (react_to_set_tag; neither remove_tag nor add_tag without an
\* array reacts, so a change made of two calls has to be noticed at its end).
MeasuresFresh ==
  \A m \in Measures \ untold :
    /\ has_tag(tags, m[1], m[2])
    /\ \A n \in Needs(m) : has_tag(tags, VERT, n) /\ get_array(tags, VERT, n) # <<>>
    => get_array(tags, m[1], m[2]) = measured(tags, m[2])

\* The children that a mesh holds are the inverse of the parents that it holds
\* just when these were not set after the children had been asked: set_parents
\* keeps the children (a caller that asked too early is given the old ones from
\* then on), and unmap_mesh, which builds both, has them agree again.
ChildrenMirrorParents == children # 0 => (children = parents <=> ~late)

\* A mesh has control point tags just for the dimensions in which its order has
\* inner points, with that many components (change_max_order).
CtrlPtsOfOrder ==
  \A d \in 1..Dim :
    LET n == n_internal_ctrlPts(d, max_order) IN
    /\ has_tag(tags, d, "bezier_pts") <=> n > 0
    /\ has_tag(tags, d, "n_bezier_pts") <=> n > 0
    /\ n > 0 => /\ get_tag(tags, d, "bezier_pts").ncomps = n * Dim
                /\ get_array(tags, d, "n_bezier_pts") = <<n>>

\* set_tag takes an array of the right size for any tag that exists: the only
\* refusal it states is that the tag does not exist.  On a rank without vertices
\* it ends in the check of divide_no_remainder.
SetTakesExisting ==
  failed => \E name \in Inputs : ~has_tag(tags, VERT, name)
=============================================================================
