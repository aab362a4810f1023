------------------------------ MODULE RcFields ------------------------------
(***************************************************************************)
(* Reverse classification and the fields kept on it.  A reverse-classified *)
(* ("rc") field has values for the entities that are classified on model   *)
(* entities of their own dimension only, in the order of the cached        *)
(* inverse of the class_id tag.  Migration, adaptation and output turn rc  *)
(* fields into tags over all entities and back (ScopedChangeRCFieldsToMesh)*)
(*                                                                         *)
(* One mesh on one rank and one dimension of entities.                     *)
(***************************************************************************)
EXTENDS Integers, Sequences, SequencesExt, FiniteSets, FiniteSetsExt

CONSTANTS
  MaxEnts,      \* bound: entities of the dimension on this rank
  NModel,       \* model entities of the dimension, on all ranks
  Names,        \* names of rc fields
  IdLists,      \* lists of class ids that fields are made for; <<>>: all of them
  LateClassify, \* whether callers classify again after asking for the inverse
  MaxScopes     \* bound: nesting of ScopedChangeRCFieldsToMesh

Interior == 127      \* OMEGA_H_INTERIOR_VAL
Garbage == -7        \* an array element outside of the array, or unset
Value(e) == 10 + e   \* what callers store for an entity

VARIABLES
  class_id,  \* class_id where class_dim is this dimension, else -1
  revClass,  \* revClass_: <<>> is null, <<lists>> has one list per model entity
  tags,      \* tags_: rc fields in the form of tags, name -> values of entities
  rcs,       \* rc_field_tags_: name -> class ids and values
  scopes,    \* the changed_here_ of the scopes that are open
  stored,    \* what was stored: name -> values of just the entities it is for
  failed     \* the program ended in an allocation of negative size

Ents == DOMAIN class_id

vars == <<class_id, revClass, tags, rcs, scopes, stored, failed>>

-----------------------------------------------------------------------------
(* Partial functions from names *)
NoFields == [n \in {} |-> {}]
Put(f, n, v) == [x \in DOMAIN f \cup {n} |-> IF x = n THEN v ELSE f[x]]

\* derive_revClass: the lists come in any order, as positions are taken
\* atomically and should_sort is not given.  n_gents is get_max + 1.
n_gents(cls) == Max({cls[e] : e \in DOMAIN cls}) + 1
derive_revClass(cls) ==
  LET On(g) == {e \in Ents : cls[e] = g}
      perms == UNION {SetToSeqs(On(g)) : g \in 0..n_gents(cls) - 1}
  IN  {ls \in [0..n_gents(cls) - 1 -> perms] :
         \A g \in DOMAIN ls : ToSet(ls[g]) = On(g)}

\* The lists that ask_revClass(edim) may return: the cached ones if there are any.
ask_revClass(rev, cls) == IF rev # <<>> THEN {rev[1]} ELSE derive_revClass(cls)

AllLists(ls) == FlattenSeq([i \in 1..Cardinality(DOMAIN ls) |-> ls[i - 1]])

\* ask_revClass(edim, class_ids): ids of model entities that this rank does not
\* have are passed over, but the comparison lets one too many through.
lists_of(ls, ids) ==
  LET max_gent_id == Cardinality(DOMAIN ls)
      Of(g) == CASE g < max_gent_id -> ls[g]
                 [] g = max_gent_id -> <<Garbage>>
                 [] OTHER -> <<>>
  IN  FlattenSeq([i \in 1..Len(ids) |-> Of(ids[i])])

rc_ids(ls, ids) == IF ids = <<>> THEN AllLists(ls) ELSE lists_of(ls, ids)

\* get_rc_array_from_mesh_array, get_rc_mesh_array_from_rc_array.
to_rc(ls, ids, field) ==
  LET es == rc_ids(ls, ids)
  IN  [i \in 1..Len(es) |-> IF es[i] \in Ents THEN field[es[i]] ELSE Garbage]

to_mesh(ls, ids, array) ==
  LET es == rc_ids(ls, ids)
  IN  [e \in Ents |-> IF e \in ToSet(es)
                      THEN array[CHOOSE i \in 1..Len(es) : es[i] = e] ELSE Interior]

\* change_all_rcFieldsToMesh: add_tag makes a tag without class ids.
change_all_rcFieldsToMesh(ls, ts, rc) ==
  [n \in DOMAIN ts \cup DOMAIN rc |->
     IF n \in DOMAIN rc THEN to_mesh(ls, rc[n].ids, rc[n].array) ELSE ts[n]]

\* change_all_rcFieldsTorc: the class ids are those of the tag, so there are none.
change_all_rcFieldsTorc(ls, ts, rc) ==
  [n \in DOMAIN ts \cup DOMAIN rc |->
     IF n \in DOMAIN ts THEN [ids |-> <<>>, array |-> to_rc(ls, <<>>, ts[n])] ELSE rc[n]]

-----------------------------------------------------------------------------
Init ==
  /\ class_id \in UNION {[0..n - 1 -> -1..NModel - 1] : n \in 0..MaxEnts}
  /\ revClass = <<>> /\ tags = NoFields /\ rcs = NoFields
  /\ scopes = <<>> /\ stored = NoFields /\ failed = FALSE

Asks(ls) ==
  /\ ls \in ask_revClass(revClass, class_id)
  /\ revClass' = <<ls>>

\* On a rank without entities get_max of no class ids is the least integer, and
\* whoever needs the inverse asks for an array of negative size.
CannotAsk ==
  /\ ~failed /\ Ents = {} /\ failed' = TRUE
  /\ UNCHANGED <<class_id, revClass, tags, rcs, scopes, stored>>

\* add_rcField for class ids, then set_rcField_array with a value for each entity
\* that ask_revClass returns for them.
Store(n, ids) ==
  /\ ~failed /\ scopes = <<>> /\ n \notin DOMAIN stored /\ Ents # {}
  /\ \E ls \in ask_revClass(revClass, class_id) :
       LET es == rc_ids(ls, ids) IN
       /\ Asks(ls)
       /\ rcs' = Put(rcs, n, [ids |-> ids, array |-> [i \in 1..Len(es) |->
                    IF es[i] \in Ents THEN Value(es[i]) ELSE Garbage]])
       /\ stored' = Put(stored, n, [e \in {x \in Ents : class_id[x] # -1 /\
                      (ids = <<>> \/ class_id[x] \in ToSet(ids))} |-> Value(e)])
  /\ UNCHANGED <<class_id, tags, scopes, failed>>

remove_rcField(n) ==
  /\ ~failed /\ scopes = <<>> /\ n \in DOMAIN rcs
  /\ rcs' = [x \in DOMAIN rcs \ {n} |-> rcs[x]]
  /\ stored' = [x \in DOMAIN stored \ {n} |-> stored[x]]
  /\ UNCHANGED <<class_id, revClass, tags, scopes, failed>>

\* ScopedChangeRCFieldsToMesh: the constructor and the destructor.
OpenScope ==
  /\ ~failed /\ Len(scopes) < MaxScopes
  /\ scopes' = Append(scopes, DOMAIN rcs # {})
  /\ IF DOMAIN rcs = {}
     THEN UNCHANGED <<tags, revClass>>
     ELSE \E ls \in ask_revClass(revClass, class_id) :
            Asks(ls) /\ tags' = change_all_rcFieldsToMesh(ls, tags, rcs)
  /\ rcs' = NoFields
  /\ UNCHANGED <<class_id, stored, failed>>

CloseScope ==
  /\ ~failed /\ scopes # <<>>
  /\ scopes' = Front(scopes)
  /\ IF Last(scopes) /\ DOMAIN tags # {}
     THEN \E ls \in ask_revClass(revClass, class_id) :
            /\ Asks(ls)
            /\ rcs' = change_all_rcFieldsTorc(ls, tags, rcs)
            /\ tags' = NoFields
     ELSE UNCHANGED <<revClass, rcs, tags>>
  /\ UNCHANGED <<class_id, stored, failed>>

\* sync_rcField, reduce_rcField on one rank: through a mesh array and back.
sync_rcField(n) ==
  /\ ~failed /\ n \in DOMAIN rcs
  /\ \E ls \in ask_revClass(revClass, class_id) :
       /\ Asks(ls)
       /\ rcs' = [rcs EXCEPT ![n].array =
                    to_rc(ls, rcs[n].ids, to_mesh(ls, rcs[n].ids, rcs[n].array))]
  /\ UNCHANGED <<class_id, tags, scopes, stored, failed>>

\* push_tags, unmap_tags: the entities of the new mesh are those of the old one
\* in another order p.  A scope turns the rc fields into tags, which come last,
\* so class_id is there when the new mesh turns them back; fields that an outer
\* scope has already turned stay tags.
\* Faulty variant: the other way round.
Reorder_back(f, p) == [e \in Ents |-> f[CHOOSE x \in Ents : p[x] = e]]
Reorder(f, p) == [e \in Ents |-> f[p[e]]]
push_tags(p) ==
  /\ ~failed
  /\ class_id' = Reorder(class_id, p)
  /\ stored' = [n \in DOMAIN stored |->
                  [e \in {x \in Ents : p[x] \in DOMAIN stored[n]} |-> stored[n][p[e]]]]
  /\ tags' = [n \in DOMAIN tags |-> Reorder(tags[n], p)]
  /\ IF DOMAIN rcs = {}
     THEN revClass' = <<>> /\ UNCHANGED rcs
     ELSE \E old \in ask_revClass(revClass, class_id), new \in derive_revClass(class_id') :
            LET moved == change_all_rcFieldsToMesh(old, NoFields, rcs) IN
            /\ revClass' = <<new>>
            /\ rcs' = [n \in DOMAIN rcs |->
                         [ids |-> <<>>, array |-> to_rc(new, <<>>, Reorder(moved[n], p))]]
  /\ UNCHANGED <<scopes, failed>>

\* class_id is set again, by a caller that has no fields on the old one; react_to_set_tag does not know of the inverse.
Classify(e, g) ==
  /\ ~failed /\ (revClass = <<>> \/ LateClassify)
  /\ DOMAIN stored = {}
  /\ class_id' = [class_id EXCEPT ![e] = g]
  /\ UNCHANGED <<revClass, tags, rcs, scopes, stored, failed>>

Next ==
  \/ CannotAsk
  \/ \E n \in Names : \/ \E ids \in IdLists : Store(n, ids)
                      \/ remove_rcField(n)
                      \/ sync_rcField(n)
  \/ OpenScope \/ CloseScope
  \/ \E p \in {q \in [Ents -> Ents] : \A i, j \in Ents : q[i] = q[j] => i = j} : push_tags(p)
  \/ \E e \in Ents, g \in -1..NModel - 1 : Classify(e, g)

Spec == Init /\ [][Next]_vars

-----------------------------------------------------------------------------
\* The entities and values of a field that is in rc form: what get_rcField_array
\* and ask_revClass with the ids the field was made for give a caller.
Shown(n) ==
  LET es == rc_ids(revClass[1], rcs[n].ids)
  IN  {<<es[i], rcs[n].array[i]>> : i \in {j \in 1..Len(es) : es[j] # Garbage}}

\* Through any nesting of scopes, migrations and synchronisations a field keeps
\* the values it was given, each with its entity, and has no others: in rc form
\* as the pairs a caller sees, in the form of a tag at the entity
\* (change_all_rcFieldsToMesh, change_all_rcFieldsTorc, push_tags).
FieldKept ==
  \A n \in DOMAIN stored :
    /\ n \in DOMAIN rcs \cup DOMAIN tags
    /\ n \in DOMAIN rcs => Shown(n) = {<<e, stored[n][e]>> : e \in DOMAIN stored[n]}
    /\ n \in DOMAIN tags => \A e \in DOMAIN stored[n] : tags[n][e] = stored[n][e]

\* A field is in one of its forms, and every form is undone: when no scope is
\* open nothing is left in the form of a tag (changed_here_).
ScopesUndone ==
  /\ DOMAIN rcs \cap DOMAIN tags = {}
  /\ scopes = <<>> => DOMAIN tags = {}

\* ask_revClass returns the entities that are classified on the model entities
\* now.  The cached inverse is never dropped, so it is wrong once class_id was
\* set again.
RevClassFresh ==
  revClass # <<>> =>
    \A g \in 0..NModel - 1 :
      ToSet(lists_of(revClass[1], <<g>>)) \ {Garbage} = {e \in Ents : class_id[e] = g}

\* ask_revClass for given model entities returns entities of the mesh: one that
\* comes right after the last of this rank reads past the end of the offsets.
RevClassInRange ==
  revClass # <<>> =>
    \A g \in 0..NModel - 1 : Garbage \notin ToSet(lists_of(revClass[1], <<g>>))

\* A rank without entities takes part: the conversion to tags has a case for it
\* (get_rc_mesh_array_from_rc_array), the way back has none.
EmptyRankConverts == ~failed
=============================================================================
