--------------------------- MODULE PartingProofs ---------------------------
(***************************************************************************)
(* Proofs about Parting, for any mesh, any number of ranks and layers.     *)
(***************************************************************************)
EXTENDS Parting, FiniteSetTheorems, WellFoundedInduction, TLAPS

-----------------------------------------------------------------------------
(* Least elements *)

\* A set of natural numbers that is not empty has a least member.
LEMMA LeastNatural ==
    ASSUME NEW T \in SUBSET Nat, T # {}
    PROVE  \E x \in T : \A y \in T : x <= y
<1> DEFINE R == OpToRel(<, Nat)
<1>1. \A x, y \in Nat : x < y => <<x, y>> \in R
  BY DEF OpToRel
<1>2. IsWellFoundedOn(R, Nat)
  BY NatLessThanWellFounded
<1> HIDE DEF R
<1>3. PICK x \in T : \A y \in T : ~ (<<y, x>> \in R)
  BY <1>2, WFMin
<1>4. \A y \in T : ~ (y < x)
  BY <1>1, <1>3
<1> QED
  BY <1>4

\* update_ownership chooses one of the ranks that have a copy, if there is one.
LEMMA OwnerIsClient ==
    ASSUME NEW d \in Dims, NEW on \in [Rank -> SUBSET Ents(d)], NEW x,
           \E r \in Rank : x \in on[r]
    PROVE  update_ownership(on, x) \in Rank /\ x \in on[update_ownership(on, x)]
<1> DEFINE clients == {r \in Rank : x \in on[r]}
           N(r) == Cardinality(on[r])
<1>1. \A r \in Rank : N(r) \in Nat
  <2> SUFFICES ASSUME NEW r \in Rank PROVE N(r) \in Nat
    OBVIOUS
  <2>1. IsFiniteSet(Ents(d))
    BY EntAssumption DEF Ents
  <2>2. on[r] \in SUBSET Ents(d)
    OBVIOUS
  <2> QED
    BY <2>1, <2>2, FS_Subset, FS_CardinalityType
<1>2. clients \subseteq Rank /\ clients # {} /\ Rank \subseteq Nat
  BY RankAssumption
<1>3. PICK n \in {N(r) : r \in clients} : \A k \in {N(r) : r \in clients} : n <= k
  <2>1. {N(r) : r \in clients} \in SUBSET Nat /\ {N(r) : r \in clients} # {}
    BY <1>1, <1>2
  <2> QED
    BY <2>1, LeastNatural
<1>4. PICK r \in {s \in clients : N(s) = n} : \A t \in {s \in clients : N(s) = n} : r <= t
  <2>1. {s \in clients : N(s) = n} \in SUBSET Nat /\ {s \in clients : N(s) = n} # {}
    BY <1>2, <1>3
  <2> QED
    BY <2>1, LeastNatural
<1>5. \A s \in clients : N(r) < N(s) \/ (N(r) = N(s) /\ r <= s)
  <2> HIDE DEF N
  <2> QED
    BY <1>1, <1>2, <1>3, <1>4
<1>6. r \in clients
  BY <1>4
<1>7. update_ownership(on, x) \in clients
  BY <1>5, <1>6 DEF update_ownership
<1> QED
  BY <1>7

-----------------------------------------------------------------------------
(* Closures and layers *)

\* One layer around the elements E.
Grow(E) == CloseUp(CloseDown(E))

LEMMA ClosureFacts ==
    /\ \A E \in SUBSET Elem : CloseDown(E) \in SUBSET Vert
    /\ \A V : CloseUp(V) \in SUBSET Elem
    /\ \A E \in SUBSET Elem : Grow(E) \in SUBSET Elem /\ E \subseteq Grow(E)
    /\ \A E, F \in SUBSET Elem : E \subseteq F => CloseDown(E) \subseteq CloseDown(F)
    /\ \A V, W : V \subseteq W => CloseUp(V) \subseteq CloseUp(W)
<1>1. \A E \in SUBSET Elem : CloseDown(E) \in SUBSET Vert
  BY VertsOfAssumption DEF CloseDown
<1>2. \A V : CloseUp(V) \in SUBSET Elem
  BY DEF CloseUp
<1>3. ASSUME NEW E \in SUBSET Elem PROVE E \subseteq Grow(E)
  <2> SUFFICES ASSUME NEW e \in E PROVE e \in Grow(E)
    OBVIOUS
  <2>1. PICK v : v \in VertsOf[e]
    BY VertsOfAssumption
  <2>2. v \in CloseDown(E)
    BY <2>1 DEF CloseDown
  <2> QED
    BY <2>1, <2>2 DEF CloseUp, Grow
<1>4. \A E, F \in SUBSET Elem : E \subseteq F => CloseDown(E) \subseteq CloseDown(F)
  BY DEF CloseDown
<1>5. \A V, W : V \subseteq W => CloseUp(V) \subseteq CloseUp(W)
  BY DEF CloseUp
<1> QED
  BY <1>1, <1>2, <1>3, <1>4, <1>5 DEF Grow

\* f holds the layers around E up to the n-th.
AreLayers(f, E, n) ==
    f = [k \in 0..n |-> IF k = 0 THEN E ELSE CloseUp(CloseDown(f[k - 1]))]

LEMMA LayersExist ==
    ASSUME NEW E, NEW n \in Nat
    PROVE  \E f : AreLayers(f, E, n)
<1> DEFINE T == {k \in Nat : ~ \E f : AreLayers(f, E, k)}
<1> SUFFICES ASSUME T # {} PROVE FALSE
  OBVIOUS
<1>1. PICK x \in T : \A y \in T : x <= y
  BY LeastNatural
<1>2. x # 0
  <2> DEFINE g == [k \in 0..0 |-> E]
  <2>1. g = [k \in 0..0 |-> IF k = 0 THEN E ELSE CloseUp(CloseDown(g[k - 1]))]
    BY \A k \in 0..0 : k = 0
  <2>2. AreLayers(g, E, 0)
    BY <2>1 DEF AreLayers
  <2> QED
    BY <2>2
<1>3. x - 1 \in Nat /\ x - 1 \notin T
  BY <1>1, <1>2
<1>4. PICK f : AreLayers(f, E, x - 1)
  BY <1>3
<1> DEFINE g == [k \in 0..x |-> IF k = 0 THEN E ELSE CloseUp(CloseDown(f[k - 1]))]
<1>5. \A k \in 0..(x - 1) : g[k] = f[k]
  BY <1>3, <1>4 DEF AreLayers
<1>6. AreLayers(g, E, x)
  <2>1. ASSUME NEW k \in 0..x
        PROVE  g[k] = IF k = 0 THEN E ELSE CloseUp(CloseDown(g[k - 1]))
    <3>1. CASE k = 0
      BY <3>1
    <3>2. CASE k # 0
      <4>1. k - 1 \in 0..(x - 1)
        BY <3>2, <1>3
      <4>2. g[k - 1] = f[k - 1]
        BY <4>1, <1>5
      <4> QED
        BY <3>2, <4>2
    <3> QED
      BY <3>1, <3>2
  <2>2. g = [k \in 0..x |-> g[k]]
    OBVIOUS
  <2> HIDE DEF g
  <2> QED
    BY <2>1, <2>2 DEF AreLayers
<1> QED
  BY <1>6

\* The layers up to the n-th do not depend on how many more there are.
LEMMA LayersUnique ==
    ASSUME NEW E, NEW n \in Nat, NEW m \in Nat, NEW f, NEW g,
           AreLayers(f, E, n), AreLayers(g, E, m), NEW k \in Nat, k <= n, k <= m
    PROVE  f[k] = g[k]
<1> DEFINE T == {j \in Nat : j <= n /\ j <= m /\ f[j] # g[j]}
<1> SUFFICES ASSUME T # {} PROVE FALSE
  OBVIOUS
<1>1. PICK x \in T : \A y \in T : x <= y
  BY LeastNatural
<1>2. f[0] = E /\ g[0] = E
  BY DEF AreLayers
<1>3. x # 0
  BY <1>2
<1>4. x - 1 \in Nat /\ x - 1 \notin T
  BY <1>1, <1>3
<1>5. f[x - 1] = g[x - 1]
  BY <1>4
<1>6. f[x] = CloseUp(CloseDown(f[x - 1])) /\ g[x] = CloseUp(CloseDown(g[x - 1]))
  BY <1>3 DEF AreLayers
<1> QED
  BY <1>5, <1>6

LEMMA LayersDef ==
    ASSUME NEW E, NEW n \in Nat
    PROVE  \E f : AreLayers(f, E, n) /\ Layers(E, n) = f[n]
<1>1. \E f : AreLayers(f, E, n)
  BY LayersExist
<1>2. AreLayers(CHOOSE f : AreLayers(f, E, n), E, n)
  BY <1>1
<1>3. Layers(E, n) = (CHOOSE f : AreLayers(f, E, n))[n]
  BY DEF Layers, AreLayers
<1> QED
  BY <1>2, <1>3

\* No layer adds nothing; one more layer is the closure of the layers before.
LEMMA LayersStep ==
    ASSUME NEW E, NEW n \in Nat
    PROVE  /\ Layers(E, 0) = E
           /\ Layers(E, n + 1) = Grow(Layers(E, n))
<1>1. PICK f : AreLayers(f, E, 0) /\ Layers(E, 0) = f[0]
  BY LayersDef
<1>2. PICK g : AreLayers(g, E, n) /\ Layers(E, n) = g[n]
  BY LayersDef
<1>3. PICK h : AreLayers(h, E, n + 1) /\ Layers(E, n + 1) = h[n + 1]
  <2>1. n + 1 \in Nat
    OBVIOUS
  <2> QED
    BY <2>1, LayersDef
<1>4. h[n] = g[n]
  <2>1. n + 1 \in Nat /\ n <= n + 1 /\ n <= n
    OBVIOUS
  <2> QED
    BY <1>2, <1>3, <2>1, LayersUnique
<1>5. h[n + 1] = CloseUp(CloseDown(h[n]))
  BY <1>3 DEF AreLayers
<1> QED
  BY <1>1, <1>2, <1>3, <1>4, <1>5 DEF AreLayers, Grow

\* Layers around layers add up: adding the missing layers to a ghosted mesh is
\* as good as ghosting it anew.
LEMMA LayersAdd ==
    ASSUME NEW E, NEW a \in Nat, NEW b \in Nat
    PROVE  Layers(Layers(E, a), b) = Layers(E, a + b)
<1> DEFINE T == {k \in Nat : Layers(Layers(E, a), k) # Layers(E, a + k)}
<1> SUFFICES ASSUME T # {} PROVE FALSE
  OBVIOUS
<1>1. PICK x \in T : \A y \in T : x <= y
  BY LeastNatural
<1>2. x # 0
  BY LayersStep
<1>3. x - 1 \in Nat /\ x - 1 \notin T
  BY <1>1, <1>2
<1>4. Layers(Layers(E, a), x - 1) = Layers(E, a + (x - 1))
  BY <1>3
<1>5. Layers(Layers(E, a), x) = Grow(Layers(Layers(E, a), x - 1))
  BY <1>3, LayersStep
<1>6. Layers(E, a + x) = Grow(Layers(E, a + (x - 1)))
  <2>1. a + (x - 1) \in Nat /\ (a + (x - 1)) + 1 = a + x
    BY <1>3
  <2> QED
    BY <2>1, LayersStep
<1> QED
  BY <1>4, <1>5, <1>6

\* Layers contain what they surround, and all layers contain the first.
LEMMA LayersContain ==
    ASSUME NEW E \in SUBSET Elem, NEW n \in Nat
    PROVE  /\ Layers(E, n) \in SUBSET Elem
           /\ E \subseteq Layers(E, n)
           /\ n >= 1 => Grow(E) \subseteq Layers(E, n)
<1> DEFINE P(k) == /\ Layers(E, k) \in SUBSET Elem
                   /\ E \subseteq Layers(E, k)
                   /\ k >= 1 => Grow(E) \subseteq Layers(E, k)
           T == {k \in Nat : ~P(k)}
<1> SUFFICES ASSUME T # {} PROVE FALSE
  OBVIOUS
<1>1. PICK x \in T : \A y \in T : x <= y
  BY LeastNatural
<1>2. x # 0
  BY LayersStep
<1>3. x - 1 \in Nat /\ x - 1 \notin T
  BY <1>1, <1>2
<1>4. P(x - 1)
  BY <1>3
<1>5. Layers(E, x) = Grow(Layers(E, x - 1))
  BY <1>3, LayersStep
<1>6. Layers(E, x) \in SUBSET Elem /\ E \subseteq Layers(E, x)
  BY <1>4, <1>5, ClosureFacts
<1>7. Grow(E) \subseteq Layers(E, x)
  <2>1. CASE x - 1 = 0
    BY <2>1, <1>5, LayersStep
  <2>2. CASE x - 1 >= 1
    BY <2>2, <1>4, <1>5, ClosureFacts
  <2> QED
    BY <1>3, <2>1, <2>2
<1> QED
  BY <1>6, <1>7

-----------------------------------------------------------------------------
(* The invariant *)

OwnedElems(m, r) == {e \in Elem : m.owner[ELEM][e] = r}
OwnedVerts(m, r) == {v \in Vert : m.owner[VERT][v] = r}

TagOK == tagged \in Tags /\ tagged.dim \in Dims /\ tagged.ent \in Ents(tagged.dim)

MeshOK(m) ==
    /\ m \in MeshType
    /\ \A d \in Dims : m.on[d] \in [Rank -> SUBSET Ents(d)]
    /\ \A d \in Dims : m.owner[d] \in [Ents(d) -> Rank]

\* A rank has the vertices of its elements and no others.
Closed(m) == \A r \in Rank : m.on[VERT][r] = CloseDown(m.on[ELEM][r])

OwnersHold(m) == \A d \in Dims : \A x \in Ents(d) : x \in m.on[d][m.owner[d][x]]

\* Exactly the copies have values.
TagsHeld(m) ==
    \A r \in Rank :
        IF tagged.ent \in m.on[tagged.dim][r] THEN m.val[r] \in Value ELSE m.val[r] = NoValue

\* The elements a rank has under each parting.  On a ghosted mesh the owner of a
\* vertex owns an element around it, as it did when the mesh was element-based.
Layout(m) ==
    /\ Serial \/ m.parting = ELEM_BASED =>
            \A r \in Rank : m.on[ELEM][r] = OwnedElems(m, r)
    /\ m.parting = ELEM_BASED => m.nghost_layers = 0
    /\ m.parting = GHOSTED =>
        /\ m.nghost_layers \in 1..MaxLayers
        /\ ~Serial => \A r \in Rank :
                m.on[ELEM][r] = Layers(OwnedElems(m, r), m.nghost_layers)
        /\ \A v \in Vert : v \in CloseDown(OwnedElems(m, m.owner[VERT][v]))
    /\ m.parting = VERT_BASED =>
        /\ m.nghost_layers = 1
        /\ ~Serial => \A r \in Rank : m.on[ELEM][r] = CloseUp(OwnedVerts(m, r))

MeshInv(m) == MeshOK(m) /\ Closed(m) /\ OwnersHold(m) /\ TagsHeld(m) /\ Layout(m)

IInv == TagOK /\ MeshInv(mesh)

\* The owner's value of the tag.
Data(m) == m.val[m.owner[tagged.dim][tagged.ent]]

-----------------------------------------------------------------------------
(* Migration *)

LEMMA DimFacts ==
    /\ ELEM \in Dims /\ VERT \in Dims /\ ELEM # VERT
    /\ \A d \in Dims : d = ELEM \/ d = VERT
    /\ Ents(ELEM) = Elem /\ Ents(VERT) = Vert
    /\ ELEM_BASED # GHOSTED /\ ELEM_BASED # VERT_BASED /\ GHOSTED # VERT_BASED
    /\ Partings = {ELEM_BASED, GHOSTED, VERT_BASED}
  BY DEF ELEM, VERT, Dims, Ents, ELEM_BASED, GHOSTED, VERT_BASED, Partings

\* The copies a migration to E makes.
NewOn(E) == [d \in Dims |-> IF d = ELEM THEN E ELSE [r \in Rank |-> CloseDown(E[r])]]

\* The owners it finds.
NewOwner(m, E, mode) ==
    [d \in Dims |->
        IF KeepsOwners(mode, d) THEN m.owner[d]
        ELSE [x \in Ents(d) |-> update_ownership(NewOn(E)[d], x)]]

LEMMA MigrateFields ==
    ASSUME NEW m \in MeshType, NEW E, NEW mode
    PROVE  LET M == migrate_mesh(m, E, mode) IN
           /\ M.parting = m.parting
           /\ M.nghost_layers = m.nghost_layers
           /\ M.on = NewOn(E)
           /\ M.owner = NewOwner(m, E, mode)
           /\ M.val = push_tags(m, NewOn(E))
           /\ (/\ M.on \in [Dims -> [Rank -> SUBSET (Elem \cup Vert)]]
               /\ M.owner \in [Dims -> [Elem -> Rank] \cup [Vert -> Rank]]
               /\ M.val \in [Rank -> Value \cup {NoValue}]) => M \in MeshType
<1> DEFINE O == NewOn(E)
           W == NewOwner(m, E, mode)
           V == push_tags(m, NewOn(E))
           M == [m EXCEPT !.on = O, !.owner = W, !.val = V]
<1>1. migrate_mesh(m, E, mode) = M
  BY DEF migrate_mesh, NewOn, NewOwner
<1> HIDE DEF O, W, V
<1>2. /\ M.parting = m.parting
      /\ M.nghost_layers = m.nghost_layers
      /\ M.on = O
      /\ M.owner = W
      /\ M.val = V
  BY DEF MeshType
<1>3. (/\ O \in [Dims -> [Rank -> SUBSET (Elem \cup Vert)]]
       /\ W \in [Dims -> [Elem -> Rank] \cup [Vert -> Rank]]
       /\ V \in [Rank -> Value \cup {NoValue}]) => M \in MeshType
  BY DEF MeshType
<1> HIDE DEF M
<1> QED
  BY <1>1, <1>2, <1>3 DEF O, W, V

LEMMA NewOnFacts ==
    ASSUME NEW E \in [Rank -> SUBSET Elem]
    PROVE  /\ NewOn(E) \in [Dims -> [Rank -> SUBSET (Elem \cup Vert)]]
           /\ \A d \in Dims : NewOn(E)[d] \in [Rank -> SUBSET Ents(d)]
           /\ NewOn(E)[ELEM] = E
           /\ \A r \in Rank : NewOn(E)[VERT][r] = CloseDown(E[r])
<1>1. NewOn(E)[ELEM] = E /\ NewOn(E)[VERT] = [r \in Rank |-> CloseDown(E[r])]
  BY DimFacts DEF NewOn
<1>2. [r \in Rank |-> CloseDown(E[r])] \in [Rank -> SUBSET Vert]
  BY ClosureFacts
<1>3. \A d \in Dims : NewOn(E)[d] \in [Rank -> SUBSET Ents(d)]
  BY <1>1, <1>2, DimFacts
<1>4. \A d \in Dims : NewOn(E)[d] \in [Rank -> SUBSET (Elem \cup Vert)]
  <2>1. E \in [Rank -> SUBSET (Elem \cup Vert)]
    OBVIOUS
  <2>2. [r \in Rank |-> CloseDown(E[r])] \in [Rank -> SUBSET (Elem \cup Vert)]
    BY ClosureFacts
  <2> QED
    BY <1>1, <2>1, <2>2, DimFacts
<1>5. NewOn(E) \in [Dims -> [Rank -> SUBSET (Elem \cup Vert)]]
  BY <1>4 DEF NewOn
<1> QED
  BY <1>1, <1>3, <1>5

\* A migration that gives every element to some rank, and to its owner if it
\* keeps owners, makes a consistent mesh, and owners have the old owners' data.
LEMMA MigrateInv ==
    ASSUME TagOK, NEW m, MeshOK(m), OwnersHold(m), TagsHeld(m),
           NEW E \in [Rank -> SUBSET Elem], NEW mode,
           \A e \in Elem : \E r \in Rank : e \in E[r],
           KeepsOwners(mode, ELEM) => \A e \in Elem : e \in E[m.owner[ELEM][e]],
           KeepsOwners(mode, VERT) => \A v \in Vert : v \in CloseDown(E[m.owner[VERT][v]])
    PROVE  LET M == migrate_mesh(m, E, mode) IN
           /\ MeshOK(M) /\ Closed(M) /\ OwnersHold(M) /\ TagsHeld(M)
           /\ Data(M) = Data(m)
           /\ M.parting = m.parting /\ M.nghost_layers = m.nghost_layers
           /\ M.on[ELEM] = E
           /\ \A d \in Dims : KeepsOwners(mode, d) => M.owner[d] = m.owner[d]
<1> DEFINE M == migrate_mesh(m, E, mode)
           on == NewOn(E)
<1>1. m \in MeshType
  BY DEF MeshOK
<1>2. /\ M.parting = m.parting
      /\ M.nghost_layers = m.nghost_layers
      /\ M.on = on
      /\ M.owner = NewOwner(m, E, mode)
      /\ M.val = push_tags(m, on)
      /\ (/\ M.on \in [Dims -> [Rank -> SUBSET (Elem \cup Vert)]]
          /\ M.owner \in [Dims -> [Elem -> Rank] \cup [Vert -> Rank]]
          /\ M.val \in [Rank -> Value \cup {NoValue}]) => M \in MeshType
  BY <1>1, MigrateFields
<1>3. /\ on \in [Dims -> [Rank -> SUBSET (Elem \cup Vert)]]
      /\ \A d \in Dims : on[d] \in [Rank -> SUBSET Ents(d)]
      /\ on[ELEM] = E
      /\ \A r \in Rank : on[VERT][r] = CloseDown(E[r])
  BY NewOnFacts
<1> HIDE DEF M
<1>21. \A d \in Dims : M.owner[d] =
            IF KeepsOwners(mode, d) THEN m.owner[d]
            ELSE [x \in Ents(d) |-> update_ownership(on[d], x)]
  BY <1>2 DEF NewOwner
<1> HIDE DEF on
<1>4. \A d \in Dims : \A x \in Ents(d) : \E r \in Rank : x \in on[d][r]
  <2>1. \A v \in Vert : \E r \in Rank : v \in CloseDown(E[r])
    <3> SUFFICES ASSUME NEW v \in Vert PROVE \E r \in Rank : v \in CloseDown(E[r])
      OBVIOUS
    <3>1. PICK e \in Elem : v \in VertsOf[e]
      BY VertsOfAssumption
    <3>2. PICK r \in Rank : e \in E[r]
      OBVIOUS
    <3> QED
      BY <3>1, <3>2 DEF CloseDown
  <2> QED
    BY <1>3, <2>1, DimFacts
<1>5. \A d \in Dims : KeepsOwners(mode, d) =>
        M.owner[d] = m.owner[d] /\ \A x \in Ents(d) : x \in on[d][m.owner[d][x]]
  <2> SUFFICES ASSUME NEW d \in Dims, KeepsOwners(mode, d), NEW x \in Ents(d)
               PROVE  x \in on[d][m.owner[d][x]]
    BY <1>21
  <2>1. m.owner[d][x] \in Rank
    BY DEF MeshOK
  <2>2. CASE d = ELEM
    BY <2>2, <1>3, DimFacts
  <2>3. CASE d = VERT
    BY <2>1, <2>3, <1>3, DimFacts
  <2> QED
    BY <2>2, <2>3, DimFacts
<1>6. \A d \in Dims : ~KeepsOwners(mode, d) =>
        /\ M.owner[d] = [x \in Ents(d) |-> update_ownership(on[d], x)]
        /\ \A x \in Ents(d) : M.owner[d][x] \in Rank /\ x \in on[d][M.owner[d][x]]
  <2> SUFFICES ASSUME NEW d \in Dims, ~KeepsOwners(mode, d)
               PROVE  /\ M.owner[d] = [x \in Ents(d) |-> update_ownership(on[d], x)]
                      /\ \A x \in Ents(d) :
                            M.owner[d][x] \in Rank /\ x \in on[d][M.owner[d][x]]
    OBVIOUS
  <2>1. M.owner[d] = [x \in Ents(d) |-> update_ownership(on[d], x)]
    BY <1>21
  <2>2. ASSUME NEW x \in Ents(d)
        PROVE  update_ownership(on[d], x) \in Rank /\ x \in on[d][update_ownership(on[d], x)]
    <3>1. on[d] \in [Rank -> SUBSET Ents(d)] /\ \E r \in Rank : x \in on[d][r]
      BY <1>3, <1>4
    <3> QED
      BY <3>1, OwnerIsClient
  <2> QED
    BY <2>1, <2>2
<1>7. \A d \in Dims : M.owner[d] \in [Ents(d) -> Rank]
  <2> SUFFICES ASSUME NEW d \in Dims PROVE M.owner[d] \in [Ents(d) -> Rank]
    OBVIOUS
  <2>1. CASE KeepsOwners(mode, d)
    BY <2>1, <1>5 DEF MeshOK
  <2>2. CASE ~KeepsOwners(mode, d)
    BY <2>2, <1>6
  <2> QED
    BY <2>1, <2>2
<1>8. OwnersHold(M)
  BY <1>2, <1>5, <1>6 DEF OwnersHold
<1>9. Closed(M)
  BY <1>2, <1>3 DEF Closed
<1>10. Data(m) \in Value
  BY DEF TagOK, OwnersHold, TagsHeld, MeshOK, Data
<1>11. \A r \in Rank :
        M.val[r] = IF tagged.ent \in on[tagged.dim][r] THEN Data(m) ELSE NoValue
  BY <1>2 DEF push_tags, Data
<1>12. TagsHeld(M)
  BY <1>2, <1>10, <1>11 DEF TagsHeld
<1>13. Data(M) = Data(m)
  <2>1. M.owner[tagged.dim][tagged.ent] \in Rank
    BY <1>7 DEF TagOK
  <2>2. tagged.ent \in on[tagged.dim][M.owner[tagged.dim][tagged.ent]]
    BY <1>2, <1>8 DEF TagOK, OwnersHold
  <2>3. M.val[M.owner[tagged.dim][tagged.ent]] = Data(m)
    BY <1>11, <2>1, <2>2
  <2> QED
    BY <2>3 DEF Data
<1>14. MeshOK(M)
  <2>1. M.val \in [Rank -> Value \cup {NoValue}]
    BY <1>2, <1>10, <1>11 DEF push_tags
  <2>2. M.owner \in [Dims -> [Elem -> Rank] \cup [Vert -> Rank]]
    BY <1>2, <1>7, DimFacts DEF NewOwner
  <2>3. M \in MeshType
    BY <1>2, <1>3, <2>1, <2>2
  <2> QED
    BY <1>2, <1>3, <1>7, <2>3 DEF MeshOK
<1> QED
  BY <1>2, <1>3, <1>5, <1>8, <1>9, <1>12, <1>13, <1>14 DEF M

-----------------------------------------------------------------------------
(* The partings *)

\* One rank alone owns everything.
LEMMA SerialFacts ==
    ASSUME Serial, NEW r \in Rank, NEW s \in Rank
    PROVE  r = s
<1>1. PICK x : Rank = {x}
  BY RankAssumption, FS_Singleton DEF Serial
<1> QED
  BY <1>1

LEMMA SettledFields ==
    ASSUME NEW m, MeshOK(m), NEW parting \in Partings, NEW n \in 0..(MaxLayers + 1)
    PROVE  LET M == Settled(m, parting, n) IN
           /\ MeshOK(M)
           /\ M.parting = parting /\ M.nghost_layers = n
           /\ M.on = m.on /\ M.owner = m.owner /\ M.val = m.val
<1> DEFINE M == Settled(m, parting, n)
<1>1. m \in MeshType
  BY DEF MeshOK
<1>2. /\ M.parting = parting /\ M.nghost_layers = n
      /\ M.on = m.on /\ M.owner = m.owner /\ M.val = m.val
  BY <1>1 DEF Settled, MeshType
<1>3. M \in MeshType
  BY <1>1 DEF Settled, MeshType
<1> HIDE DEF M
<1>4. MeshOK(M)
  BY <1>2, <1>3 DEF MeshOK
<1> QED
  BY <1>2, <1>4 DEF M

\* Settling a mesh changes nothing but the parting.
LEMMA SettledInv ==
    ASSUME NEW m, MeshOK(m), Closed(m), OwnersHold(m), TagsHeld(m),
           NEW parting \in Partings, NEW n \in 0..(MaxLayers + 1)
    PROVE  LET M == Settled(m, parting, n) IN
           /\ MeshOK(M) /\ Closed(M) /\ OwnersHold(M) /\ TagsHeld(M)
           /\ Data(M) = Data(m)
           /\ M.parting = parting /\ M.nghost_layers = n
           /\ M.on = m.on /\ M.owner = m.owner
<1> DEFINE M == Settled(m, parting, n)
<1>1. /\ MeshOK(M)
      /\ M.parting = parting /\ M.nghost_layers = n
      /\ M.on = m.on /\ M.owner = m.owner /\ M.val = m.val
  BY SettledFields
<1> HIDE DEF M
<1>2. Closed(M) /\ OwnersHold(M) /\ TagsHeld(M) /\ Data(M) = Data(m)
  BY <1>1 DEF Closed, OwnersHold, TagsHeld, Data
<1> QED
  BY <1>1, <1>2 DEF M

\* On an element-based mesh, and on a single rank, the owner of a vertex owns an
\* element around it.
LEMMA HomeOfVertex ==
    ASSUME NEW m, MeshInv(m), m.parting \in {ELEM_BASED, GHOSTED} \/ Serial, NEW v \in Vert
    PROVE  m.owner[VERT][v] \in Rank /\ v \in CloseDown(OwnedElems(m, m.owner[VERT][v]))
<1>1. m.owner[VERT][v] \in Rank
  BY DimFacts DEF MeshInv, MeshOK
<1>2. CASE m.parting = GHOSTED
  BY <1>1, <1>2 DEF MeshInv, Layout
<1>3. CASE m.parting = ELEM_BASED \/ Serial
  <2>1. v \in m.on[VERT][m.owner[VERT][v]]
    BY DimFacts DEF MeshInv, OwnersHold
  <2>2. v \in CloseDown(m.on[ELEM][m.owner[VERT][v]])
    BY <1>1, <2>1 DEF MeshInv, Closed
  <2>3. m.on[ELEM][m.owner[VERT][v]] = OwnedElems(m, m.owner[VERT][v])
    BY <1>1, <1>3 DEF MeshInv, Layout
  <2> QED
    BY <1>1, <2>2, <2>3
<1> QED
  BY <1>1, <1>2, <1>3

\* Going element-based, from any parting, keeps the owners of the elements.
LEMMA ToElemBasedInv ==
    ASSUME TagOK, NEW m, MeshInv(m)
    PROVE  LET M == ToElemBased(m) IN
           /\ MeshInv(M)
           /\ M.parting = ELEM_BASED
           /\ M.owner[ELEM] = m.owner[ELEM]
           /\ Data(M) = Data(m)
<1> DEFINE M == ToElemBased(m)
<1>1. CASE m.parting = ELEM_BASED
  <2>1. M = m
    BY <1>1 DEF ToElemBased
  <2> QED
    BY <1>1, <2>1
<1>2. CASE m.parting # ELEM_BASED /\ Serial
  <2>1. M = Settled(m, ELEM_BASED, 0)
    BY <1>2 DEF ToElemBased
  <2>2. ELEM_BASED \in Partings /\ 0 \in 0..(MaxLayers + 1)
    BY DimFacts, MaxLayersAssumption
  <2>3. /\ MeshOK(M) /\ Closed(M) /\ OwnersHold(M) /\ TagsHeld(M)
        /\ Data(M) = Data(m)
        /\ M.parting = ELEM_BASED /\ M.nghost_layers = 0
        /\ M.on = m.on /\ M.owner = m.owner
    BY <2>1, <2>2, SettledInv DEF MeshInv
  <2> HIDE DEF M
  <2>4. Layout(M)
    BY <1>2, <2>3, DimFacts DEF MeshInv, Layout, OwnedElems
  <2> QED
    BY <2>3, <2>4 DEF MeshInv, M
<1>3. CASE m.parting # ELEM_BASED /\ ~Serial
  <2> DEFINE E == [r \in Rank |-> {e \in Elem : m.owner[ELEM][e] = r}]
             P == migrate_mesh(m, E, ELEM_BASED)
  <2>1. M = Settled(P, ELEM_BASED, 0)
    BY <1>3 DEF ToElemBased, partition_by_elems
  <2>2. m.owner[ELEM] \in [Elem -> Rank]
    BY DimFacts DEF MeshInv, MeshOK
  <2>3. E \in [Rank -> SUBSET Elem] /\ \A e \in Elem : \E r \in Rank : e \in E[r]
    BY <2>2
  <2>4. ~KeepsOwners(ELEM_BASED, ELEM) /\ ~KeepsOwners(ELEM_BASED, VERT)
    BY DimFacts DEF KeepsOwners
  <2>5. \A r \in Rank : E[r] = OwnedElems(m, r)
    BY DEF OwnedElems
  <2> HIDE DEF E, P
  <2>6. /\ MeshOK(P) /\ Closed(P) /\ OwnersHold(P) /\ TagsHeld(P)
        /\ Data(P) = Data(m)
        /\ P.on[ELEM] = E
    BY <2>3, <2>4, MigrateInv DEF MeshInv, P
  <2>7. P.owner[ELEM] = m.owner[ELEM]
    <3>1. P.owner[ELEM] \in [Elem -> Rank]
      BY <2>6, DimFacts DEF MeshOK
    <3>2. ASSUME NEW e \in Elem PROVE P.owner[ELEM][e] = m.owner[ELEM][e]
      <4>1. e \in P.on[ELEM][P.owner[ELEM][e]] /\ P.owner[ELEM][e] \in Rank
        BY <2>6, <3>1, DimFacts DEF OwnersHold
      <4> QED
        BY <4>1, <2>5, <2>6 DEF OwnedElems
    <3> QED
      BY <2>2, <3>1, <3>2
  <2>8. ELEM_BASED \in Partings /\ 0 \in 0..(MaxLayers + 1)
    BY DimFacts, MaxLayersAssumption
  <2>9. /\ MeshOK(M) /\ Closed(M) /\ OwnersHold(M) /\ TagsHeld(M)
        /\ Data(M) = Data(P)
        /\ M.parting = ELEM_BASED /\ M.nghost_layers = 0
        /\ M.on = P.on /\ M.owner = P.owner
    BY <2>1, <2>6, <2>8, SettledInv
  <2> HIDE DEF M
  <2>10. Layout(M)
    BY <1>3, <2>5, <2>6, <2>7, <2>9, DimFacts DEF Layout, OwnedElems
  <2> QED
    BY <2>6, <2>7, <2>9, <2>10 DEF MeshInv, M
<1> QED
  BY <1>1, <1>2, <1>3

\* Ghosting gives the layers asked for, whatever layers there were.
LEMMA ToGhostedInv ==
    ASSUME TagOK, NEW m, MeshInv(m), NEW n \in 1..MaxLayers,
           m.parting # GHOSTED \/ m.nghost_layers # n
    PROVE  LET M == ToGhosted(m, n) IN
           /\ MeshInv(M)
           /\ M.owner[ELEM] = m.owner[ELEM]
           /\ Data(M) = Data(m)
<1> DEFINE M == ToGhosted(m, n)
           base == IF m.parting # GHOSTED \/ n < m.nghost_layers
                   THEN ToElemBased(m) ELSE m
           nnew == n - base.nghost_layers
<1>1. M = Settled(IF Serial THEN base ELSE ghost_mesh(base, n), GHOSTED, n)
  BY DEF ToGhosted
<1>2. /\ MeshInv(base)
      /\ base.parting \in {ELEM_BASED, GHOSTED}
      /\ base.nghost_layers \in Nat
      /\ nnew \in Nat
      /\ base.owner[ELEM] = m.owner[ELEM]
      /\ Data(base) = Data(m)
  <2>1. CASE m.parting # GHOSTED \/ n < m.nghost_layers
    <3>1. base = ToElemBased(m)
      BY <2>1
    <3>2. MeshInv(base) /\ base.parting = ELEM_BASED
          /\ base.owner[ELEM] = m.owner[ELEM] /\ Data(base) = Data(m)
      BY <3>1, ToElemBasedInv
    <3> HIDE DEF base
    <3>3. base.nghost_layers = 0
      BY <3>2 DEF MeshInv, Layout
    <3> QED
      BY <3>2, <3>3, MaxLayersAssumption
  <2>2. CASE m.parting = GHOSTED /\ ~(n < m.nghost_layers)
    <3>1. base = m
      BY <2>2
    <3>2. m.nghost_layers \in 1..MaxLayers
      BY <2>2 DEF MeshInv, Layout
    <3> QED
      BY <2>2, <3>1, <3>2, MaxLayersAssumption
  <2> QED
    BY <2>1, <2>2
<1>3. GHOSTED \in Partings /\ n \in 0..(MaxLayers + 1) /\ n \in Nat /\ n >= 1
  BY DimFacts, MaxLayersAssumption
<1>4. \A v \in Vert :
        base.owner[VERT][v] \in Rank
        /\ v \in CloseDown(OwnedElems(base, base.owner[VERT][v]))
  BY <1>2, HomeOfVertex
<1> HIDE DEF base
<1>5. CASE Serial
  <2>1. M = Settled(base, GHOSTED, n)
    BY <1>1, <1>5
  <2>2. /\ MeshOK(M) /\ Closed(M) /\ OwnersHold(M) /\ TagsHeld(M)
        /\ Data(M) = Data(base)
        /\ M.parting = GHOSTED /\ M.nghost_layers = n
        /\ M.on = base.on /\ M.owner = base.owner
    BY <1>2, <1>3, <2>1, SettledInv DEF MeshInv
  <2> HIDE DEF M
  <2>3. Layout(M)
    BY <1>2, <1>4, <1>5, <2>2, DimFacts DEF MeshInv, Layout, OwnedElems
  <2> QED
    BY <1>2, <2>2, <2>3 DEF MeshInv, M
<1>6. CASE ~Serial
  <2> DEFINE E == [r \in Rank |-> Layers(base.on[ELEM][r], nnew)]
             P == migrate_mesh(base, E, GHOSTED)
  <2>1. M = Settled(P, GHOSTED, n)
    BY <1>1, <1>6 DEF ghost_mesh
  <2>2. ASSUME NEW r \in Rank
        PROVE  /\ OwnedElems(base, r) \in SUBSET Elem
               /\ base.on[ELEM][r] = Layers(OwnedElems(base, r), base.nghost_layers)
    <3>1. OwnedElems(base, r) \in SUBSET Elem
      BY DEF OwnedElems
    <3>2. CASE base.parting = GHOSTED
      BY <1>2, <1>6, <3>1, <3>2 DEF MeshInv, Layout
    <3>3. CASE base.parting = ELEM_BASED
      <4>1. base.on[ELEM][r] = OwnedElems(base, r) /\ base.nghost_layers = 0
        BY <1>2, <3>3 DEF MeshInv, Layout
      <4> QED
        BY <3>1, <4>1, LayersStep
    <3> QED
      BY <1>2, <3>2, <3>3
  <2>3. ASSUME NEW r \in Rank PROVE E[r] = Layers(OwnedElems(base, r), n)
    <3>1. E[r] = Layers(Layers(OwnedElems(base, r), base.nghost_layers), nnew)
      BY <2>2
    <3>2. base.nghost_layers + nnew = n
      BY <1>2, <1>3
    <3> QED
      BY <1>2, <3>1, <3>2, LayersAdd
  <2>4. \A r \in Rank : E[r] \in SUBSET Elem /\ OwnedElems(base, r) \subseteq E[r]
    BY <1>3, <2>2, <2>3, LayersContain
  <2>5. E \in [Rank -> SUBSET Elem]
    BY <2>4
  <2> HIDE DEF E, P
  <2>6. base.owner[ELEM] \in [Elem -> Rank]
    BY <1>2, DimFacts DEF MeshInv, MeshOK
  <2>7. \A e \in Elem : base.owner[ELEM][e] \in Rank /\ e \in E[base.owner[ELEM][e]]
    BY <2>4, <2>6 DEF OwnedElems
  <2>8. \A v \in Vert : v \in CloseDown(E[base.owner[VERT][v]])
    BY <1>4, <2>4, <2>2, ClosureFacts
  <2>9. KeepsOwners(GHOSTED, ELEM) /\ KeepsOwners(GHOSTED, VERT)
    BY DEF KeepsOwners
  <2>10. /\ MeshOK(P) /\ Closed(P) /\ OwnersHold(P) /\ TagsHeld(P)
         /\ Data(P) = Data(base)
         /\ P.on[ELEM] = E
         /\ P.owner[ELEM] = base.owner[ELEM]
         /\ P.owner[VERT] = base.owner[VERT]
    <3>1. \A e \in Elem : \E r \in Rank : e \in E[r]
      BY <2>7
    <3> QED
      BY <1>2, <2>5, <2>7, <2>8, <2>9, <3>1, MigrateInv, DimFacts DEF MeshInv, P
  <2>11. /\ MeshOK(M) /\ Closed(M) /\ OwnersHold(M) /\ TagsHeld(M)
         /\ Data(M) = Data(P)
         /\ M.parting = GHOSTED /\ M.nghost_layers = n
         /\ M.on = P.on /\ M.owner = P.owner
    BY <1>3, <2>1, <2>10, SettledInv
  <2> HIDE DEF M
  <2>12. Layout(M)
    BY <1>4, <1>6, <2>3, <2>10, <2>11, DimFacts DEF Layout, OwnedElems
  <2> QED
    BY <1>2, <2>10, <2>11, <2>12 DEF MeshInv, M
<1> QED
  BY <1>5, <1>6

LEMMA ToVertBasedInv ==
    ASSUME TagOK, NEW m, MeshInv(m)
    PROVE  MeshInv(ToVertBased(m)) /\ Data(ToVertBased(m)) = Data(m)
<1> DEFINE M == ToVertBased(m)
<1>1. VERT_BASED \in Partings /\ 1 \in 0..(MaxLayers + 1)
  BY DimFacts, MaxLayersAssumption
<1>2. CASE Serial
  <2>1. M = Settled(m, VERT_BASED, 1)
    BY <1>2 DEF ToVertBased
  <2>2. /\ MeshOK(M) /\ Closed(M) /\ OwnersHold(M) /\ TagsHeld(M)
        /\ Data(M) = Data(m)
        /\ M.parting = VERT_BASED /\ M.nghost_layers = 1
        /\ M.on = m.on /\ M.owner = m.owner
    BY <1>1, <2>1, SettledInv DEF MeshInv
  <2> HIDE DEF M
  <2>3. Layout(M)
    BY <1>2, <2>2, DimFacts DEF MeshInv, Layout, OwnedElems
  <2> QED
    BY <2>2, <2>3 DEF MeshInv, M
<1>3. CASE ~Serial
  <2> DEFINE E == [r \in Rank |-> CloseUp({v \in Vert : m.owner[VERT][v] = r})]
             P == migrate_mesh(m, E, VERT_BASED)
  <2>1. M = Settled(P, VERT_BASED, 1)
    BY <1>3 DEF ToVertBased, partition_by_verts
  <2>2. m.owner[VERT] \in [Vert -> Rank]
    BY DimFacts DEF MeshInv, MeshOK
  <2>3. \A r \in Rank : E[r] = CloseUp(OwnedVerts(m, r))
    BY DEF OwnedVerts
  <2>4. E \in [Rank -> SUBSET Elem]
    BY ClosureFacts
  <2> HIDE DEF E, P
  <2>5. \A v \in Vert, e \in Elem :
            v \in VertsOf[e] => m.owner[VERT][v] \in Rank /\ e \in E[m.owner[VERT][v]]
    BY <2>2, <2>3 DEF CloseUp, OwnedVerts
  <2>6. \A e \in Elem : \E r \in Rank : e \in E[r]
    BY <2>5, VertsOfAssumption
  <2>7. \A v \in Vert : v \in CloseDown(E[m.owner[VERT][v]])
    <3> SUFFICES ASSUME NEW v \in Vert PROVE v \in CloseDown(E[m.owner[VERT][v]])
      OBVIOUS
    <3>1. PICK e \in Elem : v \in VertsOf[e]
      BY VertsOfAssumption
    <3> QED
      BY <3>1, <2>5 DEF CloseDown
  <2>8. ~KeepsOwners(VERT_BASED, ELEM) /\ KeepsOwners(VERT_BASED, VERT)
    BY DimFacts DEF KeepsOwners
  <2>9. /\ MeshOK(P) /\ Closed(P) /\ OwnersHold(P) /\ TagsHeld(P)
        /\ Data(P) = Data(m)
        /\ P.on[ELEM] = E
        /\ P.owner[VERT] = m.owner[VERT]
    BY <2>4, <2>6, <2>7, <2>8, MigrateInv, DimFacts DEF MeshInv, P
  <2>10. /\ MeshOK(M) /\ Closed(M) /\ OwnersHold(M) /\ TagsHeld(M)
         /\ Data(M) = Data(P)
         /\ M.parting = VERT_BASED /\ M.nghost_layers = 1
         /\ M.on = P.on /\ M.owner = P.owner
    BY <1>1, <2>1, <2>9, SettledInv
  <2> HIDE DEF M
  <2>11. Layout(M)
    BY <1>3, <2>3, <2>9, <2>10, DimFacts DEF Layout, OwnedVerts
  <2> QED
    BY <2>9, <2>10, <2>11 DEF MeshInv, M
<1> QED
  BY <1>2, <1>3

\* Balancing: the elements go where dest says, one copy of each.
LEMMA BalanceInv ==
    ASSUME TagOK, NEW m, MeshInv(m), NEW dest \in [Elem -> Rank], ~Serial
    PROVE  LET E == [r \in Rank |-> {e \in Elem : dest[e] = r}]
               M == migrate_mesh(ToElemBased(m), E, ELEM_BASED) IN
           MeshInv(M) /\ Data(M) = Data(m)
<1> DEFINE E == [r \in Rank |-> {e \in Elem : dest[e] = r}]
           B == ToElemBased(m)
           M == migrate_mesh(B, E, ELEM_BASED)
<1>1. MeshInv(B) /\ B.parting = ELEM_BASED /\ Data(B) = Data(m)
  BY ToElemBasedInv
<1>2. E \in [Rank -> SUBSET Elem] /\ \A e \in Elem : \E r \in Rank : e \in E[r]
  OBVIOUS
<1>3. \A e \in Elem, r \in Rank : e \in E[r] => r = dest[e]
  OBVIOUS
<1>4. ~KeepsOwners(ELEM_BASED, ELEM) /\ ~KeepsOwners(ELEM_BASED, VERT)
  BY DimFacts DEF KeepsOwners
<1> HIDE DEF E, B, M
<1>5. /\ MeshOK(M) /\ Closed(M) /\ OwnersHold(M) /\ TagsHeld(M)
      /\ Data(M) = Data(B)
      /\ M.parting = ELEM_BASED /\ M.nghost_layers = B.nghost_layers
      /\ M.on[ELEM] = E
  BY <1>1, <1>2, <1>4, MigrateInv DEF MeshInv, M
<1>6. M.nghost_layers = 0
  BY <1>1, <1>5 DEF MeshInv, Layout
<1>7. ASSUME NEW r \in Rank PROVE M.on[ELEM][r] = OwnedElems(M, r)
  <2>1. \A e \in Elem : M.owner[ELEM][e] \in Rank /\ e \in E[M.owner[ELEM][e]]
    BY <1>5, DimFacts DEF MeshOK, OwnersHold
  <2>2. \A e \in Elem : M.owner[ELEM][e] = dest[e]
    BY <1>3, <2>1
  <2>3. \A e \in Elem : e \in E[r] <=> dest[e] = r
    BY DEF E
  <2> QED
    BY <1>2, <1>5, <2>2, <2>3 DEF OwnedElems
<1>8. Layout(M)
  BY <1>5, <1>6, <1>7, DimFacts DEF Layout
<1> QED
  BY <1>1, <1>5, <1>8 DEF MeshInv, M, B, E

-----------------------------------------------------------------------------
(* Tags *)

\* Of finitely many ranks one has the greatest value.
LEMMA GreatestValue ==
    ASSUME NEW H \in SUBSET Rank, H # {}, NEW f, \A r \in H : f[r] \in Int
    PROVE  \E r \in H : \A s \in H : f[s] <= f[r]
<1> DEFINE Above(r) == {s \in H : f[s] > f[r]}
           C(r) == Cardinality(Above(r))
<1>1. IsFiniteSet(H)
  BY RankAssumption, FS_Subset
<1>2. \A r \in H : Above(r) \in SUBSET H /\ IsFiniteSet(Above(r)) /\ C(r) \in Nat
  <2> SUFFICES ASSUME NEW r \in H
               PROVE  Above(r) \in SUBSET H /\ IsFiniteSet(Above(r)) /\ C(r) \in Nat
    OBVIOUS
  <2>1. Above(r) \in SUBSET H
    OBVIOUS
  <2> HIDE DEF Above
  <2>2. IsFiniteSet(Above(r))
    BY <1>1, <2>1, FS_Subset
  <2> QED
    BY <2>1, <2>2, FS_CardinalityType
<1>3. PICK n \in {C(r) : r \in H} : \A k \in {C(r) : r \in H} : n <= k
  <2>1. {C(r) : r \in H} \in SUBSET Nat /\ {C(r) : r \in H} # {}
    BY <1>2
  <2> QED
    BY <2>1, LeastNatural
<1>4. PICK r \in H : n = C(r)
  BY <1>3
<1>5. \A s \in H : ~(f[s] > f[r])
  <2> SUFFICES ASSUME NEW s \in H, f[s] > f[r] PROVE FALSE
    OBVIOUS
  <2>1. Above(s) \in SUBSET Above(r) /\ s \in Above(r) /\ s \notin Above(s)
    OBVIOUS
  <2> HIDE DEF Above
  <2>2. C(s) <= C(r) /\ C(s) # C(r)
    BY <1>2, <2>1, FS_Subset
  <2>3. C(r) <= C(s)
    BY <1>3, <1>4
  <2> QED
    BY <1>2, <2>2, <2>3
<1> QED
  BY <1>5

\* A mesh with other values on its copies, and nothing else changed.
LEMMA RetagInv ==
    ASSUME TagOK, NEW m, MeshInv(m), NEW M, M \in MeshType,
           M.parting = m.parting, M.nghost_layers = m.nghost_layers,
           M.on = m.on, M.owner = m.owner, TagsHeld(M)
    PROVE  MeshInv(M)
  BY DEF MeshInv, MeshOK, Closed, OwnersHold, Layout, OwnedElems, OwnedVerts

LEMMA DataFacts ==
    ASSUME TagOK, NEW m, MeshInv(m)
    PROVE  /\ m \in MeshType
           /\ Data(m) \in Value
           /\ m.owner[tagged.dim][tagged.ent] \in Rank
           /\ \A r \in Rank : m.val[r] \in Value \/ m.val[r] = NoValue
           /\ \A r \in Rank : m.val[r] = NoValue <=> tagged.ent \notin m.on[tagged.dim][r]
<1>1. m \in MeshType /\ m.owner[tagged.dim][tagged.ent] \in Rank
  BY DEF TagOK, MeshInv, MeshOK
<1>2. \A r \in Rank : m.val[r] = NoValue <=> tagged.ent \notin m.on[tagged.dim][r]
  BY NoValueAssumption DEF MeshInv, TagsHeld
<1>3. \A r \in Rank : m.val[r] \in Value \/ m.val[r] = NoValue
  BY DEF MeshInv, TagsHeld
<1>4. Data(m) \in Value
  BY <1>1 DEF TagOK, MeshInv, OwnersHold, TagsHeld, Data
<1> QED
  BY <1>1, <1>2, <1>3, <1>4

LEMMA RevalueInv ==
    ASSUME TagOK, NEW m, MeshInv(m), NEW V \in [Rank -> Value \cup {NoValue}],
           \A r \in Rank : V[r] = NoValue <=> m.val[r] = NoValue
    PROVE  LET M == [m EXCEPT !.val = V] IN
           MeshInv(M) /\ M.on = m.on /\ M.owner = m.owner /\ M.val = V
<1> DEFINE M == [m EXCEPT !.val = V]
<1>1. m \in MeshType
  BY DEF MeshInv, MeshOK
<1>2. /\ M.parting = m.parting /\ M.nghost_layers = m.nghost_layers
      /\ M.on = m.on /\ M.owner = m.owner /\ M.val = V
  BY <1>1 DEF MeshType
<1>3. M \in MeshType
  BY <1>1 DEF MeshType
<1> HIDE DEF M
<1>4. TagsHeld(M)
  BY <1>2, DataFacts DEF TagsHeld
<1>5. MeshInv(M)
  BY <1>2, <1>3, <1>4, RetagInv
<1> QED
  BY <1>2, <1>5 DEF M

-----------------------------------------------------------------------------
(* Steps *)

\* What every step does, beside keeping the invariant.
Kept(m, M) == (M.on # m.on \/ M.owner # m.owner) => Data(M) = Data(m)

LEMMA SetTagInv ==
    ASSUME IInv, NEW r \in Rank, NEW x \in Value, SetTag(r, x)
    PROVE  MeshInv(mesh') /\ mesh'.on = mesh.on /\ mesh'.owner = mesh.owner
<1> DEFINE V == [mesh.val EXCEPT ![r] = x]
<1>1. mesh' = [mesh EXCEPT !.val = V]
  BY DEF SetTag, IInv, MeshInv, MeshOK, MeshType
<1>2. mesh.val \in [Rank -> Value \cup {NoValue}]
  BY DEF IInv, MeshInv, MeshOK, MeshType
<1>3. tagged.ent \in mesh.on[tagged.dim][r] /\ mesh.val[r] # NoValue
  BY DataFacts DEF SetTag, IInv
<1>4. V \in [Rank -> Value \cup {NoValue}]
      /\ \A s \in Rank : V[s] = NoValue <=> mesh.val[s] = NoValue
  BY <1>2, <1>3, NoValueAssumption
<1> HIDE DEF V
<1> QED
  BY <1>1, <1>4, RevalueInv DEF IInv

LEMMA SyncTagInv ==
    ASSUME IInv, SyncTag
    PROVE  MeshInv(mesh') /\ mesh'.on = mesh.on /\ mesh'.owner = mesh.owner
<1>1. mesh' = [mesh EXCEPT !.val = sync_array(mesh)]
  BY DEF SyncTag
<1>2. Data(mesh) \in Value
  BY DataFacts DEF IInv
<1>3. mesh.val \in [Rank -> Value \cup {NoValue}]
  BY DEF IInv, MeshInv, MeshOK, MeshType
<1>4. /\ sync_array(mesh) \in [Rank -> Value \cup {NoValue}]
      /\ \A s \in Rank : sync_array(mesh)[s] = NoValue <=> mesh.val[s] = NoValue
  BY <1>2, <1>3, NoValueAssumption DEF Data, sync_array
<1> QED
  BY <1>1, <1>4, RevalueInv DEF IInv

LEMMA ReduceTagInv ==
    ASSUME IInv, ReduceTag
    PROVE  MeshInv(mesh') /\ mesh'.on = mesh.on /\ mesh'.owner = mesh.owner
<1> DEFINE top == CHOOSE x \in Value :
                    /\ \E s \in Rank : mesh.val[s] = x
                    /\ \A s \in Rank : mesh.val[s] \in Value => mesh.val[s] <= x
           V == [r \in Rank |-> IF mesh.val[r] = NoValue THEN NoValue
                    ELSE IF r = mesh.owner[tagged.dim][tagged.ent] THEN top ELSE Lowest]
<1>1. mesh' = mesh \/ mesh' = [mesh EXCEPT !.val = V]
  BY DEF ReduceTag
<1>2. top \in Value
  <2> DEFINE H == {s \in Rank : mesh.val[s] \in Value}
  <2>1. H # {}
    BY DataFacts DEF IInv, Data
  <2>2. H \in SUBSET Rank /\ \A s \in H : mesh.val[s] \in Int
    BY ValueAssumption
  <2>3. PICK r \in H : \A s \in H : mesh.val[s] <= mesh.val[r]
    <3> HIDE DEF H
    <3> QED
      BY <2>1, <2>2, GreatestValue
  <2>4. mesh.val[r] \in Value /\ \A s \in Rank : mesh.val[s] \in Value => mesh.val[s] <= mesh.val[r]
    BY <2>3
  <2> QED
    BY <2>3, <2>4
<1> HIDE DEF top
<1>3. V \in [Rank -> Value \cup {NoValue}]
      /\ \A s \in Rank : V[s] = NoValue <=> mesh.val[s] = NoValue
  BY <1>2, NoValueAssumption, ValueAssumption
<1> HIDE DEF V
<1>4. CASE mesh' = mesh
  BY <1>4 DEF IInv
<1>5. CASE mesh' = [mesh EXCEPT !.val = V]
  BY <1>3, <1>5, RevalueInv DEF IInv
<1> QED
  BY <1>1, <1>4, <1>5

LEMMA InitInv == Init => IInv
<1> SUFFICES ASSUME Init PROVE IInv
  OBVIOUS
<1>1. TagOK
  BY DEF Init, TagOK, Tags
<1>2. PICK dest \in [Elem -> Rank], vowner \in [Vert -> Rank], x \in Value :
        LET on == [d \in Dims |-> [r \in Rank |->
                    LET E == {e \in Elem : dest[e] = r} IN
                    IF d = ELEM THEN E ELSE CloseDown(E)]]
        IN
        /\ \A v \in Vert : v \in on[VERT][vowner[v]]
        /\ mesh = [parting |-> ELEM_BASED,
                   nghost_layers |-> 0,
                   on |-> on,
                   owner |-> [d \in Dims |-> IF d = ELEM THEN dest ELSE vowner],
                   val |-> [r \in Rank |->
                        IF tagged.ent \in on[tagged.dim][r] THEN x ELSE NoValue]]
  BY DEF Init
<1> DEFINE E == [r \in Rank |-> {e \in Elem : dest[e] = r}]
           on == [d \in Dims |-> [r \in Rank |->
                    LET F == {e \in Elem : dest[e] = r} IN
                    IF d = ELEM THEN F ELSE CloseDown(F)]]
           owner == [d \in Dims |-> IF d = ELEM THEN dest ELSE vowner]
           val == [r \in Rank |-> IF tagged.ent \in on[tagged.dim][r] THEN x ELSE NoValue]
<1>3. E \in [Rank -> SUBSET Elem] /\ on = NewOn(E)
  BY DimFacts DEF NewOn
<1>4. /\ \A v \in Vert : v \in on[VERT][vowner[v]]
      /\ mesh = [parting |-> ELEM_BASED, nghost_layers |-> 0, on |-> on,
                 owner |-> owner, val |-> val]
  BY <1>2
<1>5. /\ on \in [Dims -> [Rank -> SUBSET (Elem \cup Vert)]]
      /\ \A d \in Dims : on[d] \in [Rank -> SUBSET Ents(d)]
      /\ on[ELEM] = E
      /\ \A r \in Rank : on[VERT][r] = CloseDown(E[r])
  <2> HIDE DEF E, on
  <2> QED
    BY <1>3, NewOnFacts
<1>6. owner[ELEM] = dest /\ owner[VERT] = vowner
  BY DimFacts
<1>7. owner \in [Dims -> [Elem -> Rank] \cup [Vert -> Rank]]
  OBVIOUS
<1>8. \A r \in Rank : E[r] = {e \in Elem : dest[e] = r}
  OBVIOUS
<1>9. val \in [Rank -> Value \cup {NoValue}]
  OBVIOUS
<1>10. \A r \in Rank : val[r] = IF tagged.ent \in on[tagged.dim][r] THEN x ELSE NoValue
  OBVIOUS
<1> HIDE DEF E, on, owner, val
<1>11. mesh \in MeshType
  BY <1>4, <1>5, <1>7, <1>9, DimFacts, MaxLayersAssumption DEF MeshType
<1>12. mesh.parting = ELEM_BASED /\ mesh.nghost_layers = 0 /\ mesh.on = on
       /\ mesh.owner = owner /\ mesh.val = val
  BY <1>4
<1>13. MeshOK(mesh)
  BY <1>5, <1>6, <1>11, <1>12, DimFacts DEF MeshOK
<1>14. Closed(mesh)
  BY <1>5, <1>12 DEF Closed
<1>15. OwnersHold(mesh)
  BY <1>4, <1>5, <1>6, <1>8, <1>12, DimFacts DEF OwnersHold
<1>16. TagsHeld(mesh)
  BY <1>10, <1>12 DEF TagsHeld
<1>17. Layout(mesh)
  BY <1>5, <1>6, <1>8, <1>12, DimFacts DEF Layout, OwnedElems
<1> QED
  BY <1>1, <1>13, <1>14, <1>15, <1>16, <1>17 DEF IInv, MeshInv

\* The tag's entity never changes, so the invariant of the new mesh is the
\* invariant of the new state.
LEMMA NextState ==
    ASSUME TagOK, MeshInv(mesh'), tagged' = tagged
    PROVE  IInv'
  BY DEF IInv, TagOK, MeshInv, MeshOK, Closed, OwnersHold, TagsHeld, Layout

\* Every step keeps the invariant; where it changes copies or owners it keeps
\* the owner's data, and only two operations change the owners of elements.
LEMMA StepFacts ==
    ASSUME IInv, [Next]_vars
    PROVE  /\ IInv'
           /\ tagged' = tagged
           /\ Kept(mesh, mesh')
           /\ \/ mesh'.owner[ELEM] = mesh.owner[ELEM]
              \/ SetVertBased
              \/ \E dest \in Targets : Balance(dest)
<1> DEFINE Goal == /\ MeshInv(mesh')
                   /\ tagged' = tagged
                   /\ Kept(mesh, mesh')
                   /\ \/ mesh'.owner[ELEM] = mesh.owner[ELEM]
                      \/ SetVertBased
                      \/ \E dest \in Targets : Balance(dest)
<1> SUFFICES Goal
  BY NextState DEF IInv
<1>1. CASE SetElemBased
  BY <1>1, ToElemBasedInv DEF SetElemBased, IInv, Kept
<1>2. ASSUME NEW n \in 1..MaxLayers, SetGhosted(n) PROVE Goal
  BY <1>2, ToGhostedInv DEF SetGhosted, IInv, Kept
<1>3. CASE SetVertBased
  BY <1>3, ToVertBasedInv DEF SetVertBased, IInv, Kept
<1>4. ASSUME NEW dest \in Targets, Balance(dest) PROVE Goal
  <2>1. dest \in [Elem -> Rank] /\ ~Serial
    BY <1>4, TargetsAssumption DEF Balance
  <2>2. MeshInv(mesh') /\ Data(mesh') = Data(mesh)
    BY <1>4, <2>1, BalanceInv DEF Balance, IInv
  <2>3. tagged' = tagged
    BY <1>4 DEF Balance
  <2> QED
    BY <1>4, <2>2, <2>3 DEF Kept
<1>5. ASSUME NEW r \in Rank, NEW x \in Value, SetTag(r, x) PROVE Goal
  <2>1. tagged' = tagged
    BY <1>5 DEF SetTag
  <2> QED
    BY <1>5, <2>1, SetTagInv DEF Kept
<1>6. CASE SyncTag
  <2>1. tagged' = tagged
    BY <1>6 DEF SyncTag
  <2> QED
    BY <1>6, <2>1, SyncTagInv DEF Kept
<1>7. CASE ReduceTag
  <2>1. tagged' = tagged
    BY <1>7 DEF ReduceTag
  <2> QED
    BY <1>7, <2>1, ReduceTagInv DEF Kept
<1>8. CASE UNCHANGED vars
  BY <1>8 DEF vars, IInv, Kept
<1> HIDE DEF Goal
<1> QED
  BY <1>1, <1>2, <1>3, <1>4, <1>5, <1>6, <1>7, <1>8 DEF Next

\* The invariant holds in every reachable state.
LEMMA Invariance == Spec => []IInv
<1>1. IInv /\ [Next]_vars => IInv'
  BY StepFacts
<1> QED
  BY InitInv, <1>1, PTL DEF Spec

-----------------------------------------------------------------------------
(* Theorems *)

\* Type correctness: in every reachable layout the copies and owners are of the
\* mesh's entities and ranks.
THEOREM TypeCorrect == Spec => []TypeOK
<1>1. IInv => TypeOK
  BY DimFacts DEF IInv, TagOK, MeshInv, MeshOK, TypeOK
<1> QED
  BY Invariance, <1>1, PTL

\* Whatever partings, rebalances and ghostings came before, the owner of every
\* entity has a copy of it.
THEOREM OwnersAreThere == Spec => []OwnersHaveCopies
<1>1. IInv => OwnersHaveCopies
  BY DEF IInv, MeshInv, OwnersHold, OwnersHaveCopies
<1> QED
  BY Invariance, <1>1, PTL

\* Where could_be_shared lets a synchronisation be skipped there is one copy.
THEOREM SkippedSyncIsSafe == Spec => []UnsharedHaveOneCopy
<1>1. IInv => UnsharedHaveOneCopy
  <2> SUFFICES ASSUME IInv, NEW d \in Dims, ~could_be_shared(mesh, d), NEW x \in Ents(d)
               PROVE  Holders(mesh, d, x) = {mesh.owner[d][x]}
    BY DEF UnsharedHaveOneCopy
  <2>1. mesh.owner[d][x] \in Rank /\ x \in mesh.on[d][mesh.owner[d][x]]
    BY DEF IInv, MeshInv, MeshOK, OwnersHold
  <2>2. CASE Serial
    BY <2>1, <2>2, SerialFacts DEF Holders
  <2>3. CASE ~Serial
    <3>1. mesh.parting = ELEM_BASED /\ d = ELEM /\ x \in Elem
      BY <2>3, DimFacts DEF could_be_shared
    <3>2. \A r \in Rank : mesh.on[ELEM][r] = OwnedElems(mesh, r)
      BY <3>1 DEF IInv, MeshInv, Layout
    <3> QED
      BY <2>1, <3>1, <3>2 DEF Holders, OwnedElems
  <2> QED
    BY <2>2, <2>3
<1> QED
  BY Invariance, <1>1, PTL

\* An owner has what it owns, and an entity that is said not to be shared has no
\* other copy: looking an entity up by its owner, or not looking at all, is right.
THEOREM LookupByOwner == Spec => []OwnersAreFound
<1>1. OwnersHaveCopies /\ UnsharedHaveOneCopy => OwnersAreFound
  BY DEF OwnersAreFound
<1> QED
  BY OwnersAreThere, SkippedSyncIsSafe, <1>1, PTL

\* A ghosted rank has exactly the layers asked for, on every path through
\* set_parting.
THEOREM GhostLayers == Spec => []GhostLayersExact
<1>1. IInv => GhostLayersExact
  BY DEF IInv, MeshInv, Layout, GhostLayersExact, OwnedElems
<1> QED
  BY Invariance, <1>1, PTL

\* The promise the independent set and the cavity operations rest on: owners
\* have all elements around their vertices when owners_have_all_upward says so.
THEOREM UpwardComplete == Spec => []OwnersHaveAllUpward
<1>1. IInv => OwnersHaveAllUpward
  <2> SUFFICES ASSUME IInv, Serial \/ mesh.parting \in {GHOSTED, VERT_BASED},
                      NEW v \in Vert, NEW e \in CloseUp({v})
               PROVE  e \in mesh.on[ELEM][mesh.owner[VERT][v]]
    BY DEF OwnersHaveAllUpward
  <2> DEFINE r == mesh.owner[VERT][v]
  <2>1. r \in Rank /\ e \in Elem /\ v \in VertsOf[e]
    BY DimFacts DEF IInv, MeshInv, MeshOK, CloseUp
  <2>2. CASE Serial
    <3>1. mesh.owner[ELEM][e] \in Rank /\ e \in mesh.on[ELEM][mesh.owner[ELEM][e]]
      BY <2>1, DimFacts DEF IInv, MeshInv, MeshOK, OwnersHold
    <3> QED
      BY <2>1, <2>2, <3>1, SerialFacts
  <2>3. CASE ~Serial /\ mesh.parting = GHOSTED
    <3>1. /\ v \in CloseDown(OwnedElems(mesh, r))
          /\ mesh.nghost_layers \in 1..MaxLayers
          /\ mesh.on[ELEM][r] = Layers(OwnedElems(mesh, r), mesh.nghost_layers)
      BY <2>1, <2>3 DEF IInv, MeshInv, Layout
    <3>2. OwnedElems(mesh, r) \in SUBSET Elem
      BY DEF OwnedElems
    <3>3. e \in Grow(OwnedElems(mesh, r))
      BY <2>1, <3>1 DEF Grow, CloseUp
    <3>4. mesh.nghost_layers \in Nat /\ mesh.nghost_layers >= 1
      BY <3>1, MaxLayersAssumption
    <3> QED
      BY <3>1, <3>2, <3>3, <3>4, LayersContain
  <2>4. CASE ~Serial /\ mesh.parting = VERT_BASED
    <3>1. mesh.on[ELEM][r] = CloseUp(OwnedVerts(mesh, r))
      BY <2>1, <2>4 DEF IInv, MeshInv, Layout
    <3> QED
      BY <2>1, <3>1 DEF CloseUp, OwnedVerts
  <2> QED
    BY <2>2, <2>3, <2>4
<1> QED
  BY Invariance, <1>1, PTL

\* Redistribution hands the old owner's value to the new owner.
THEOREM DataSurvives == Spec => RedistributionKeepsData
<1>1. IInv /\ [Next]_vars =>
        [(mesh.on # mesh'.on \/ mesh.owner # mesh'.owner) => OwnerVal' = OwnerVal]_vars
  <2> SUFFICES ASSUME IInv, [Next]_vars, mesh.on # mesh'.on \/ mesh.owner # mesh'.owner
               PROVE  OwnerVal' = OwnerVal
    OBVIOUS
  <2>1. tagged' = tagged /\ Kept(mesh, mesh')
    BY StepFacts
  <2> QED
    BY <2>1 DEF Kept, Data, OwnerVal
<1> QED
  BY Invariance, <1>1, PTL DEF Spec, RedistributionKeepsData

\* Whenever sync_tag is called, every copy ends with the owner's value.
THEOREM SyncAgrees == Spec => []SyncMakesCopiesAgree
<1>1. ASSUME IInv, NEW r \in Rank
      PROVE  sync_array(mesh)[r] \in {NoValue, OwnerVal}
  <2>1. CASE could_be_shared(mesh, tagged.dim) \/ mesh.val[r] = NoValue
    BY <2>1 DEF sync_array, OwnerVal
  <2>2. CASE ~could_be_shared(mesh, tagged.dim) /\ mesh.val[r] # NoValue
    <3>1. sync_array(mesh)[r] = mesh.val[r]
      BY <2>2 DEF sync_array
    <3>2. tagged.ent \in mesh.on[tagged.dim][r]
      BY <1>1, <2>2, DataFacts DEF IInv
    <3>3. r = mesh.owner[tagged.dim][tagged.ent]
      <4>1. CASE Serial
        BY <1>1, <4>1, SerialFacts, DataFacts DEF IInv
      <4>2. CASE ~Serial
        <5>1. mesh.parting = ELEM_BASED /\ tagged.dim = ELEM
          BY <2>2, <4>2 DEF could_be_shared
        <5>2. mesh.on[ELEM][r] = OwnedElems(mesh, r)
          BY <1>1, <5>1 DEF IInv, MeshInv, Layout
        <5> QED
          BY <3>2, <5>1, <5>2 DEF OwnedElems
      <4> QED
        BY <4>1, <4>2
    <3> QED
      BY <3>1, <3>3 DEF OwnerVal
  <2> QED
    BY <2>1, <2>2
<1>2. IInv => SyncMakesCopiesAgree
  BY <1>1 DEF SyncMakesCopiesAgree
<1> QED
  BY Invariance, <1>2, PTL

\* Elements change their owners only by balancing or going vertex-based.
THEOREM ElementsStay == Spec => GhostingKeepsOwners
<1>1. IInv /\ [Next]_vars =>
        [mesh'.owner[ELEM] # mesh.owner[ELEM] =>
            SetVertBased \/ \E dest \in Targets : Balance(dest)]_vars
  BY StepFacts
<1> QED
  BY Invariance, <1>1, PTL DEF Spec, GhostingKeepsOwners
=============================================================================
