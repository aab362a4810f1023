------------------------- MODULE SharedAllocProofs -------------------------
(***************************************************************************)
(* Proofs about SharedAlloc, for any finite sets of host variables and of  *)
(* threads, any allocations and any sizes.                                 *)
(***************************************************************************)
EXTENDS SharedAlloc, FiniteSetTheorems, TLAPS

Holds(h, a) == Counted(h) /\ h.ptr = a

\* Handles on the host are never parallel ones; a thread exists only in a
\* kernel and has the kernel's handle.
PlacesInv ==
    /\ \A o \in HostObject : obj[o].kind # "parallel"
    /\ \A t \in Thread : obj[t] = Absent \/ (obj[KERNEL] # Absent /\ obj[t] = obj[KERNEL])

\* What a kernel uses without counting it is held by a handle on the host,
\* where nothing moves before the kernel ends.
KernelInv ==
    obj[KERNEL].ptr # NoAlloc =>
        /\ obj[KERNEL] = InParallel(obj[KERNEL].ptr, size[obj[KERNEL].ptr])
        /\ \E o \in HostObject : Holds(obj[o], obj[KERNEL].ptr)

IInv ==
    /\ AllocTypeOK
    /\ CountsExact
    /\ PlacesInv
    /\ KernelInv

-----------------------------------------------------------------------------
(* Facts about handles and their holders *)

HoldersIn(f, a) == {o \in Object : Holds(f[o], a)}
Share(h, a) == IF Holds(h, a) THEN 1 ELSE 0   \* in the count of a

\* The kinds of handles differ, and only what is allocated has a pointer.
LEMMA HandleFacts ==
    /\ Absent \in SharedAllocs /\ Null \in SharedAllocs /\ Absent # Null
    /\ ~Counted(Absent) /\ ~Counted(Null)
    /\ Absent.kind # "parallel" /\ Null.kind # "parallel"
    /\ Absent.ptr = NoAlloc /\ Null.ptr = NoAlloc
  BY DEF SharedAllocs, Absent, Null, Counted

LEMMA AllocatedFacts ==
    ASSUME NEW a \in Alloc
    PROVE  /\ Allocated(a) \in SharedAllocs /\ Counted(Allocated(a))
           /\ Allocated(a).ptr = a /\ Allocated(a).kind # "parallel" /\ Allocated(a) # Absent
  BY DEF SharedAllocs, Allocated, Counted, Absent

LEMMA ParallelFacts ==
    ASSUME NEW a \in Alloc, NEW n \in Size
    PROVE  /\ InParallel(a, n) \in SharedAllocs /\ ~Counted(InParallel(a, n))
           /\ InParallel(a, n).ptr = a /\ InParallel(a, n) # Absent
           /\ InParallel(a, n).kind = "parallel"
  BY DEF SharedAllocs, InParallel, Counted, Absent

LEMMA HandleKinds ==
    ASSUME NEW h \in SharedAllocs
    PROVE  /\ h.ptr # NoAlloc => h.ptr \in Alloc
           /\ Counted(h) => h = Allocated(h.ptr) /\ h.ptr \in Alloc /\ h.kind # "parallel"
           /\ h.ptr # NoAlloc => Counted(h) \/ h.kind = "parallel"
           /\ h.kind = "parallel" => ~Counted(h)
  <1>1. CASE h \in {Absent, Null}
    BY <1>1 DEF Absent, Null, Counted
  <1>2. CASE \E a \in Alloc : h = Allocated(a)
    BY <1>2 DEF Allocated, Counted
  <1>3. CASE \E a \in Alloc, n \in Size : h = InParallel(a, n)
    BY <1>3 DEF InParallel, Counted
  <1> QED BY <1>1, <1>2, <1>3 DEF SharedAllocs

LEMMA ObjectFacts ==
    /\ IsFiniteSet(Object)
    /\ HostObject \subseteq Object /\ Variable \subseteq HostObject
    /\ FUNCTOR \in HostObject /\ KERNEL \in Object /\ KERNEL \notin HostObject
    /\ Thread \subseteq Object /\ Thread \cap HostObject = {} /\ KERNEL \notin Thread
  <1>1. IsFiniteSet({FUNCTOR}) /\ IsFiniteSet({KERNEL})
    BY FS_Singleton
  <1>2. IsFiniteSet(Variable \cup Thread \cup {FUNCTOR} \cup {KERNEL})
    BY <1>1, FS_Union, ObjectAssumption
  <1>3. Object = Variable \cup Thread \cup {FUNCTOR} \cup {KERNEL}
    BY DEF Object
  <1> QED BY <1>2, <1>3, ObjectAssumption DEF Object, HostObject

LEMMA HoldersAre ==
    ASSUME NEW a
    PROVE  Holders(a) = HoldersIn(obj, a)
  BY DEF Holders, HoldersIn, Holds

LEMMA HoldersFinite ==
    ASSUME NEW f, NEW a
    PROVE  IsFiniteSet(HoldersIn(f, a)) /\ Cardinality(HoldersIn(f, a)) \in Nat
  <1>1. HoldersIn(f, a) \subseteq Object
    BY DEF HoldersIn
  <1> QED BY <1>1, ObjectFacts, FS_Subset, FS_CardinalityType

LEMMA ShareIsNat == \A h, a : Share(h, a) \in Nat
  BY DEF Share

\* Replacing one handle moves the number of holders by what it held and holds.
LEMMA ReplaceOne ==
    ASSUME NEW f, NEW g, NEW o \in Object, NEW a,
           \A p \in Object \ {o} : g[p] = f[p]
    PROVE  Cardinality(HoldersIn(g, a))
             = Cardinality(HoldersIn(f, a)) - Share(f[o], a) + Share(g[o], a)
  <1> DEFINE H == HoldersIn(f, a)
             G == HoldersIn(g, a)
  <1>1. IsFiniteSet(H) /\ IsFiniteSet(G) /\ Cardinality(H) \in Nat /\ Cardinality(G) \in Nat
    BY HoldersFinite
  <1>2. o \in H <=> Holds(f[o], a)
    BY DEF HoldersIn
  <1>3. o \in G <=> Holds(g[o], a)
    BY DEF HoldersIn
  <1>4. H \ {o} = G \ {o}
    BY DEF HoldersIn
  <1> HIDE DEF H, G
  <1>5. Cardinality(H \ {o}) = IF o \in H THEN Cardinality(H) - 1 ELSE Cardinality(H)
    BY <1>1, FS_RemoveElement
  <1>6. Cardinality(G \ {o}) = IF o \in G THEN Cardinality(G) - 1 ELSE Cardinality(G)
    BY <1>1, FS_RemoveElement
  <1>7. /\ Share(f[o], a) = IF o \in H THEN 1 ELSE 0
        /\ Share(g[o], a) = IF o \in G THEN 1 ELSE 0
    BY <1>2, <1>3 DEF Share
  <1>8. Cardinality(G) = Cardinality(H) - Share(f[o], a) + Share(g[o], a)
    BY <1>1, <1>4, <1>5, <1>6, <1>7
  <1> QED BY <1>8 DEF G, H

\* A holder counts for at least one, and two of them for at least two.
LEMMA HoldersCount ==
    ASSUME NEW f \in [Object -> SharedAllocs], NEW a,
           NEW o \in Object, Holds(f[o], a)
    PROVE  /\ Cardinality(HoldersIn(f, a)) >= 1
           /\ \A p \in Object : p # o /\ Holds(f[p], a) => Cardinality(HoldersIn(f, a)) >= 2
  <1> DEFINE H == HoldersIn(f, a)
  <1>1. IsFiniteSet(H) /\ Cardinality(H) \in Nat /\ o \in H
    BY HoldersFinite DEF HoldersIn
  <1>2. IsFiniteSet(H \ {o}) /\ Cardinality(H \ {o}) \in Nat
        /\ Cardinality(H \ {o}) = Cardinality(H) - 1
    BY <1>1, FS_RemoveElement, FS_CardinalityType
  <1>3. ASSUME NEW p \in Object, p # o, Holds(f[p], a)
        PROVE  Cardinality(H) >= 2
    <2>1. p \in H \ {o}
      BY <1>3 DEF HoldersIn
    <2>2. Cardinality(H \ {o}) # 0
      BY <2>1, <1>2, FS_EmptySet
    <2> QED BY <2>2, <1>1, <1>2
  <1> QED BY <1>1, <1>2, <1>3

\* The counts are right after a step that replaces a handle, if the step moves
\* them as it moves the holders.
LEMMA OneCounted ==
    ASSUME AllocTypeOK, CountsExact, NEW o \in Object, NEW a \in Alloc,
           \A p \in Object \ {o} : obj'[p] = obj[p],
           use_count'[a] = use_count[a] - Share(obj[o], a) + Share(obj'[o], a)
    PROVE  use_count'[a] = Cardinality(Holders(a)') /\ use_count'[a] \in Nat
  <1>1. Holders(a)' = HoldersIn(obj', a)
    BY DEF Holders, HoldersIn, Holds
  <1>2. use_count[a] = Cardinality(HoldersIn(obj, a))
    BY HoldersAre DEF CountsExact
  <1> DEFINE g == obj'
  <1> HIDE DEF g
  <1>3. Cardinality(HoldersIn(g, a))
          = Cardinality(HoldersIn(obj, a)) - Share(obj[o], a) + Share(g[o], a)
    <2>1. \A p \in Object \ {o} : g[p] = obj[p]
      BY DEF g
    <2> QED BY <2>1, ReplaceOne
  <1> QED BY <1>1, <1>2, <1>3, HoldersFinite DEF g

\* The same for a step that replaces two of them.
LEMMA TwoCounted ==
    ASSUME AllocTypeOK, CountsExact, NEW o \in Object, NEW q \in Object, o # q, NEW a \in Alloc,
           \A p \in Object \ {o, q} : obj'[p] = obj[p],
           use_count'[a] = use_count[a] - Share(obj[o], a) + Share(obj'[o], a)
                                        - Share(obj[q], a) + Share(obj'[q], a)
    PROVE  use_count'[a] = Cardinality(Holders(a)') /\ use_count'[a] \in Nat
  <1>1. Holders(a)' = HoldersIn(obj', a)
    BY DEF Holders, HoldersIn, Holds
  <1>2. use_count[a] = Cardinality(HoldersIn(obj, a))
    BY HoldersAre DEF CountsExact
  <1> DEFINE f == [p \in Object |-> IF p = o THEN obj'[o] ELSE obj[p]]
  <1>3. /\ \A p \in Object \ {o} : f[p] = obj[p]
        /\ \A p \in Object \ {q} : obj'[p] = f[p]
        /\ f[o] = obj'[o] /\ f[q] = obj[q]
    OBVIOUS
  <1> HIDE DEF f
  <1>4. Cardinality(HoldersIn(f, a))
          = Cardinality(HoldersIn(obj, a)) - Share(obj[o], a) + Share(f[o], a)
    BY <1>3, ReplaceOne
  <1>5. Cardinality(HoldersIn(obj', a))
          = Cardinality(HoldersIn(f, a)) - Share(f[q], a) + Share(obj'[q], a)
    BY <1>3, ReplaceOne
  <1>6. /\ Cardinality(HoldersIn(obj, a)) \in Nat /\ Cardinality(HoldersIn(f, a)) \in Nat
        /\ Cardinality(HoldersIn(obj', a)) \in Nat
    BY HoldersFinite
  <1>7. /\ Share(obj[o], a) \in Nat /\ Share(obj'[o], a) \in Nat
        /\ Share(obj[q], a) \in Nat /\ Share(obj'[q], a) \in Nat
    BY ShareIsNat
  <1>8. Share(f[o], a) = Share(obj'[o], a) /\ Share(f[q], a) = Share(obj[q], a)
    BY <1>3
  <1> QED BY <1>1, <1>2, <1>4, <1>5, <1>6, <1>7, <1>8

-----------------------------------------------------------------------------
(* Facts about what the operations do to the counts *)

LEMMA UseCounts ==
    ASSUME AllocTypeOK, CountsExact, NEW o \in Object, NEW a \in Alloc, Holds(obj[o], a)
    PROVE  /\ use_count[a] \in Nat /\ use_count[a] >= 1 /\ live[a]
           /\ \A p \in Object : p # o /\ Holds(obj[p], a) => use_count[a] >= 2
  <1>1. use_count[a] = Cardinality(HoldersIn(obj, a))
    BY HoldersAre DEF CountsExact
  <1>2. obj \in [Object -> SharedAllocs]
    BY DEF AllocTypeOK
  <1>3. /\ Cardinality(HoldersIn(obj, a)) >= 1
        /\ \A p \in Object : p # o /\ Holds(obj[p], a) => Cardinality(HoldersIn(obj, a)) >= 2
    BY <1>2, HoldersCount
  <1> QED BY <1>1, <1>3 DEF AllocTypeOK, CountsExact

LEMMA ClearFacts ==
    ASSUME AllocTypeOK, CountsExact, NEW o \in Object
    PROVE  /\ ClearCount(obj[o]) \in [Alloc -> Nat] /\ ClearLive(obj[o]) \in [Alloc -> BOOLEAN]
           /\ \A a \in Alloc :
                /\ ClearCount(obj[o])[a] = use_count[a] - Share(obj[o], a)
                /\ ClearLive(obj[o])[a] <=> live[a] /\ ~(Holds(obj[o], a) /\ use_count[a] = 1)
  <1>1. obj[o] \in SharedAllocs
    BY DEF AllocTypeOK
  <1>2. CASE Counted(obj[o])
    <2> DEFINE b == obj[o].ptr
    <2>1. b \in Alloc /\ Holds(obj[o], b)
      BY <1>1, <1>2, HandleKinds DEF Holds
    <2>2. use_count[b] \in Nat /\ use_count[b] >= 1
      BY <2>1, UseCounts
    <2>3. /\ ClearCount(obj[o]) = [use_count EXCEPT ![b] = @ - 1]
          /\ ClearLive(obj[o]) = IF use_count[b] = 1 THEN [live EXCEPT ![b] = FALSE] ELSE live
      BY <1>2 DEF ClearCount, ClearLive
    <2>4. \A a \in Alloc : Holds(obj[o], a) <=> a = b
      BY <1>2 DEF Holds
    <2>5. \A a \in Alloc : Share(obj[o], a) = IF a = b THEN 1 ELSE 0
      BY <2>4 DEF Share
    <2> HIDE DEF b
    <2>6. ClearCount(obj[o]) \in [Alloc -> Nat] /\ ClearLive(obj[o]) \in [Alloc -> BOOLEAN]
      BY <2>1, <2>2, <2>3 DEF AllocTypeOK
    <2>7. ASSUME NEW a \in Alloc
          PROVE  /\ ClearCount(obj[o])[a] = use_count[a] - Share(obj[o], a)
                 /\ ClearLive(obj[o])[a] <=> live[a] /\ ~(Holds(obj[o], a) /\ use_count[a] = 1)
      <3>1. use_count[a] \in Nat
        BY DEF AllocTypeOK
      <3> QED BY <3>1, <2>1, <2>3, <2>4, <2>5 DEF AllocTypeOK
    <2> QED BY <2>6, <2>7
  <1>3. CASE ~Counted(obj[o])
    BY <1>3 DEF ClearCount, ClearLive, AllocTypeOK, Share, Holds
  <1> QED BY <1>2, <1>3

LEMMA CopyCountFacts ==
    ASSUME AllocTypeOK, NEW o \in Object
    PROVE  /\ CopyCount(obj[o], FALSE) \in [Alloc -> Nat]
           /\ \A a \in Alloc : CopyCount(obj[o], FALSE)[a] = use_count[a] + Share(obj[o], a)
  <1>1. obj[o] \in SharedAllocs
    BY DEF AllocTypeOK
  <1>2. CASE Counted(obj[o])
    <2>1. obj[o].ptr \in Alloc
      BY <1>1, <1>2, HandleKinds
    <2> QED BY <1>2, <2>1 DEF CopyCount, AllocTypeOK, Share, Holds
  <1>3. CASE ~Counted(obj[o])
    BY <1>3 DEF CopyCount, AllocTypeOK, Share, Holds
  <1> QED BY <1>2, <1>3

LEMMA MoveCountFacts ==
    ASSUME AllocTypeOK, CountsExact, NEW o \in Object
    PROVE  MoveCount(obj[o], TRUE) = ClearCount(obj[o]) /\ MoveCount(obj[o], FALSE) = use_count
  BY DEF MoveCount, ClearCount

\* A handle tagged where no kernel is entered stays what it is.
LEMMA TaggedFacts ==
    ASSUME AllocTypeOK, NEW h \in SharedAllocs
    PROVE  /\ Tagged(h, FALSE) = h
           /\ Tagged(h, TRUE) \in SharedAllocs /\ ~Counted(Tagged(h, TRUE))
           /\ Tagged(h, TRUE).ptr = h.ptr
           /\ Counted(h) => Tagged(h, TRUE) = InParallel(h.ptr, size[h.ptr])
           /\ ~Counted(h) => Tagged(h, TRUE) = h
  <1>1. CASE Counted(h)
    <2>1. h.ptr \in Alloc /\ size[h.ptr] \in Size
      BY <1>1, HandleKinds DEF AllocTypeOK
    <2> QED BY <1>1, <2>1, ParallelFacts DEF Tagged
  <1>2. CASE ~Counted(h)
    BY <1>2 DEF Tagged
  <1> QED BY <1>1, <1>2

-----------------------------------------------------------------------------
(* Every step keeps the invariant *)

LEMMA InitInv == AllocInit => IInv
  <1> SUFFICES ASSUME AllocInit PROVE IInv
    OBVIOUS
  <1>1. AllocTypeOK
    BY HandleFacts DEF AllocInit, AllocTypeOK
  <1>2. CountsExact
    <2> SUFFICES ASSUME NEW a \in Alloc
                 PROVE  use_count[a] = Cardinality(Holders(a)) /\ (live[a] <=> use_count[a] > 0)
      BY DEF CountsExact
    <2>1. Holders(a) = {}
      BY HandleFacts DEF Holders, AllocInit
    <2> QED BY <2>1, FS_EmptySet DEF AllocInit
  <1>3. PlacesInv /\ KernelInv
    BY ObjectFacts, HandleFacts DEF PlacesInv, KernelInv, AllocInit
  <1> QED BY <1>1, <1>2, <1>3 DEF IInv

\* While no kernel runs there are no threads, and no step of the host starts one.
LEMMA HostStep ==
    ASSUME IInv, HostRuns,
           \A o \in Object \ HostObject : obj'[o] = obj[o],
           \A o \in HostObject : obj'[o].kind # "parallel"
    PROVE  PlacesInv' /\ KernelInv'
  <1>1. obj[KERNEL] = Absent /\ obj'[KERNEL] = Absent
    BY ObjectFacts DEF HostRuns
  <1>2. \A t \in Thread : obj'[t] = Absent
    BY <1>1, ObjectFacts DEF IInv, PlacesInv
  <1>3. obj'[KERNEL].ptr = NoAlloc
    BY <1>1, HandleFacts
  <1> QED BY <1>1, <1>2, <1>3 DEF PlacesInv, KernelInv

LEMMA DefaultConstructInv ==
    ASSUME IInv, NEW v \in Variable, DefaultConstruct(v)
    PROVE  IInv'
  <1>1. v \in HostObject /\ v \in Object
    BY ObjectFacts
  <1>2. obj' = [obj EXCEPT ![v] = Null] /\ UNCHANGED <<live, use_count, size>>
    BY DEF DefaultConstruct
  <1>3. AllocTypeOK'
    BY <1>2, HandleFacts DEF IInv, AllocTypeOK
  <1>4. CountsExact'
    <2> SUFFICES ASSUME NEW a \in Alloc
                 PROVE  use_count'[a] = Cardinality(Holders(a)') /\ (live'[a] <=> use_count'[a] > 0)
      BY DEF CountsExact, Holders
    <2>1. Holders(a)' = Holders(a)
      BY <1>1, <1>2, HandleFacts DEF DefaultConstruct, Holders, IInv, AllocTypeOK
    <2> QED BY <1>2, <2>1 DEF IInv, CountsExact
  <1>5. PlacesInv' /\ KernelInv'
    BY <1>1, <1>2, HostStep, HandleFacts, ObjectFacts DEF DefaultConstruct, IInv, AllocTypeOK, PlacesInv
  <1> QED BY <1>3, <1>4, <1>5 DEF IInv

LEMMA ConstructInv ==
    ASSUME IInv, NEW v \in Variable, NEW a \in Alloc, NEW n \in Size, Construct(v, a, n)
    PROVE  IInv'
  <1>1. v \in HostObject /\ v \in Object
    BY ObjectFacts
  <1>2. /\ obj' = [obj EXCEPT ![v] = Allocated(a)] /\ obj[v] = Absent /\ ~live[a]
        /\ live' = [live EXCEPT ![a] = TRUE] /\ use_count' = [use_count EXCEPT ![a] = 1]
        /\ size' = [size EXCEPT ![a] = n]
    BY DEF Construct
  <1>3. AllocTypeOK'
    BY <1>2, AllocatedFacts DEF IInv, AllocTypeOK
  <1>4. CountsExact'
    <2> SUFFICES ASSUME NEW b \in Alloc
                 PROVE  use_count'[b] = Cardinality(Holders(b)') /\ (live'[b] <=> use_count'[b] > 0)
      BY DEF CountsExact, Holders
    <2>1. Share(obj[v], b) = 0
      BY <1>2, HandleFacts DEF Share, Holds
    <2>2. Share(obj'[v], b) = IF b = a THEN 1 ELSE 0
      BY <1>1, <1>2, AllocatedFacts DEF Share, Holds, IInv, AllocTypeOK
    <2>3. use_count[a] = 0
      BY <1>2 DEF IInv, CountsExact, AllocTypeOK
    <2>4. use_count'[b] = use_count[b] - Share(obj[v], b) + Share(obj'[v], b)
      BY <1>2, <2>1, <2>2, <2>3 DEF IInv, AllocTypeOK
    <2>5. \A p \in Object \ {v} : obj'[p] = obj[p]
      BY <1>2 DEF IInv, AllocTypeOK
    <2>6. use_count'[b] = Cardinality(Holders(b)')
      BY <1>1, <2>4, <2>5, OneCounted DEF IInv
    <2>7. live'[b] <=> use_count'[b] > 0
      BY <1>2 DEF IInv, AllocTypeOK, CountsExact
    <2> QED BY <2>6, <2>7
  <1>5. PlacesInv' /\ KernelInv'
    BY <1>1, <1>2, HostStep, AllocatedFacts, ObjectFacts DEF Construct, IInv, AllocTypeOK, PlacesInv
  <1> QED BY <1>3, <1>4, <1>5 DEF IInv

LEMMA CopyConstructInv ==
    ASSUME IInv, NEW v \in HostObject, NEW w \in Variable, CopyConstruct(v, w)
    PROVE  IInv'
  <1>1. v \in Object /\ w \in HostObject /\ w \in Object
    BY ObjectFacts
  <1>2. obj[w] \in SharedAllocs
    BY <1>1 DEF IInv, AllocTypeOK
  <1>3. /\ obj[v] = Absent /\ obj' = [obj EXCEPT ![v] = obj[w]]
        /\ use_count' = CopyCount(obj[w], FALSE) /\ UNCHANGED <<live, size>>
    BY <1>2, TaggedFacts DEF CopyConstruct, IInv
  <1>4. /\ use_count' \in [Alloc -> Nat]
        /\ \A a \in Alloc : use_count'[a] = use_count[a] + Share(obj[w], a)
    BY <1>1, <1>3, CopyCountFacts DEF IInv
  <1>5. AllocTypeOK'
    BY <1>2, <1>3, <1>4 DEF IInv, AllocTypeOK
  <1>6. CountsExact'
    <2> SUFFICES ASSUME NEW a \in Alloc
                 PROVE  use_count'[a] = Cardinality(Holders(a)') /\ (live'[a] <=> use_count'[a] > 0)
      BY DEF CountsExact, Holders
    <2>1. Share(obj[v], a) = 0 /\ obj'[v] = obj[w] /\ use_count[a] \in Nat
      BY <1>1, <1>3, HandleFacts DEF Share, Holds, IInv, AllocTypeOK
    <2>2. use_count'[a] = use_count[a] - Share(obj[v], a) + Share(obj'[v], a)
      BY <1>4, <2>1, ShareIsNat
    <2>3. \A p \in Object \ {v} : obj'[p] = obj[p]
      BY <1>3 DEF IInv, AllocTypeOK
    <2>4. use_count'[a] = Cardinality(Holders(a)')
      BY <1>1, <2>2, <2>3, OneCounted DEF IInv
    <2>5. CASE Holds(obj[w], a)
      <3>1. use_count[a] >= 1 /\ live[a] /\ Share(obj[w], a) = 1
        BY <1>1, <2>5, UseCounts DEF IInv, Share
      <3>2. use_count'[a] > 0
        BY <1>4, <2>1, <3>1
      <3>3. live'[a]
        BY <1>3, <3>1
      <3> QED BY <2>4, <3>2, <3>3
    <2>6. CASE ~Holds(obj[w], a)
      <3>1. use_count'[a] = use_count[a]
        BY <1>4, <2>1, <2>6 DEF Share
      <3> QED BY <1>3, <2>4, <3>1 DEF IInv, CountsExact
    <2> QED BY <2>5, <2>6
  <1>7. PlacesInv' /\ KernelInv'
    <2>1. \A o \in HostObject : obj'[o].kind # "parallel"
      BY <1>1, <1>3, ObjectFacts DEF IInv, AllocTypeOK, PlacesInv
    <2> QED BY <1>1, <1>3, <2>1, HostStep DEF CopyConstruct, IInv, AllocTypeOK
  <1> QED BY <1>5, <1>6, <1>7 DEF IInv

LEMMA MoveConstructInv ==
    ASSUME IInv, NEW v \in Variable, NEW w \in Variable, MoveConstruct(v, w)
    PROVE  IInv'
  <1>1. v \in Object /\ v \in HostObject /\ w \in HostObject /\ w \in Object
    BY ObjectFacts
  <1>2. obj[w] \in SharedAllocs
    BY <1>1 DEF IInv, AllocTypeOK
  <1>3. /\ obj[v] = Absent /\ v # w /\ obj' = [obj EXCEPT ![v] = obj[w], ![w] = Null]
        /\ UNCHANGED <<use_count, live, size>>
    BY <1>1, <1>2, TaggedFacts, MoveCountFacts DEF MoveConstruct, IInv
  <1>4. AllocTypeOK'
    BY <1>2, <1>3, HandleFacts DEF IInv, AllocTypeOK
  <1>5. obj'[v] = obj[w] /\ obj'[w] = Null
    BY <1>1, <1>3 DEF IInv, AllocTypeOK
  <1>6. CountsExact'
    <2> SUFFICES ASSUME NEW a \in Alloc
                 PROVE  use_count'[a] = Cardinality(Holders(a)') /\ (live'[a] <=> use_count'[a] > 0)
      BY DEF CountsExact, Holders
    <2>1. Share(obj[v], a) = 0 /\ Share(obj'[w], a) = 0 /\ use_count[a] \in Nat
      BY <1>3, <1>5, HandleFacts DEF Share, Holds, IInv, AllocTypeOK
    <2>2. use_count'[a] = use_count[a] - Share(obj[v], a) + Share(obj'[v], a)
                                       - Share(obj[w], a) + Share(obj'[w], a)
      BY <1>3, <1>5, <2>1, ShareIsNat
    <2>3. \A p \in Object \ {v, w} : obj'[p] = obj[p]
      BY <1>3 DEF IInv, AllocTypeOK
    <2>4. use_count'[a] = Cardinality(Holders(a)')
      <3>1. v \in Object /\ w \in Object /\ v # w /\ AllocTypeOK /\ CountsExact
        BY <1>1, <1>3 DEF IInv
      <3> QED BY <3>1, <2>2, <2>3, TwoCounted
    <2> QED BY <1>3, <2>4 DEF IInv, CountsExact
  <1>7. PlacesInv' /\ KernelInv'
    <2>1. \A o \in HostObject : obj'[o].kind # "parallel"
      BY <1>1, <1>3, HandleFacts, ObjectFacts DEF IInv, AllocTypeOK, PlacesInv
    <2> QED BY <1>1, <1>3, <2>1, HostStep DEF MoveConstruct, IInv, AllocTypeOK
  <1> QED BY <1>4, <1>6, <1>7 DEF IInv

\* What operator= does to the counts and to what is live, whatever v and w hold.
LEMMA AssignFacts ==
    ASSUME AllocTypeOK, CountsExact, NEW v \in Object, NEW w \in Object, v # w
    PROVE  /\ AssignCount(obj[v], obj[w]) \in [Alloc -> Nat]
           /\ \A a \in Alloc :
                /\ AssignCount(obj[v], obj[w])[a]
                     = use_count[a] - Share(obj[v], a) + Share(obj[w], a)
                /\ ClearLive(obj[v])[a] <=> AssignCount(obj[v], obj[w])[a] > 0
  <1> DEFINE c == AssignCount(obj[v], obj[w])
  <1>1. ASSUME NEW a \in Alloc
        PROVE  /\ c[a] = use_count[a] - Share(obj[v], a) + Share(obj[w], a)
               /\ c[a] \in Nat
               /\ ClearLive(obj[v])[a] <=> c[a] > 0
    <2>1. c[a] = use_count[a] - Share(obj[v], a) + Share(obj[w], a)
      BY DEF AssignCount, Share, Holds
    <2>2. use_count[a] \in Nat /\ (live[a] <=> use_count[a] > 0)
      BY DEF AllocTypeOK, CountsExact
    <2>3. ClearLive(obj[v])[a] <=> live[a] /\ ~(Holds(obj[v], a) /\ use_count[a] = 1)
      BY ClearFacts
    <2> HIDE DEF c
    <2>4. CASE ~Holds(obj[v], a) /\ ~Holds(obj[w], a)
      <3>1. c[a] = use_count[a]
        BY <2>1, <2>2, <2>4 DEF Share
      <3> QED BY <2>1, <2>2, <2>3, <2>4, <3>1
    <2>5. CASE ~Holds(obj[v], a) /\ Holds(obj[w], a)
      <3>1. c[a] = use_count[a] + 1 /\ live[a]
        BY <2>1, <2>2, <2>5, UseCounts DEF Share
      <3>2. c[a] \in Nat /\ c[a] > 0
        BY <2>2, <3>1
      <3> QED BY <2>1, <2>3, <2>5, <3>1, <3>2
    <2>6. CASE Holds(obj[v], a) /\ ~Holds(obj[w], a)
      <3>1. c[a] = use_count[a] - 1 /\ use_count[a] >= 1 /\ live[a]
        BY <2>1, <2>2, <2>6, UseCounts DEF Share
      <3>2. c[a] \in Nat /\ (c[a] > 0 <=> use_count[a] # 1)
        BY <2>2, <3>1
      <3> QED BY <2>1, <2>3, <2>6, <3>1, <3>2
    <2>7. CASE Holds(obj[v], a) /\ Holds(obj[w], a)
      <3>1. use_count[a] >= 2 /\ live[a]
        BY <2>7, UseCounts
      <3>2. c[a] = use_count[a]
        BY <2>1, <2>2, <2>7 DEF Share
      <3>3. c[a] \in Nat /\ c[a] > 0 /\ use_count[a] # 1
        BY <2>2, <3>1, <3>2
      <3> QED BY <2>1, <2>3, <3>1, <3>3
    <2> QED BY <2>4, <2>5, <2>6, <2>7
  <1>2. c = [a \in Alloc |-> c[a]]
    BY DEF AssignCount
  <1> HIDE DEF c
  <1>3. c \in [Alloc -> Nat]
    BY <1>1, <1>2
  <1> QED BY <1>1, <1>3 DEF c

LEMMA CopyAssignInv ==
    ASSUME IInv, NEW v \in Variable, NEW w \in Variable, CopyAssign(v, w)
    PROVE  IInv'
  <1>1. v \in Object /\ v \in HostObject /\ w \in HostObject /\ w \in Object
    BY ObjectFacts
  <1>2. obj[w] \in SharedAllocs /\ AllocTypeOK /\ CountsExact
    BY <1>1 DEF IInv, AllocTypeOK
  <1>3. /\ v # w /\ obj' = [obj EXCEPT ![v] = obj[w]] /\ live' = ClearLive(obj[v])
        /\ use_count' = AssignCount(obj[v], obj[w]) /\ size' = size
    BY <1>2, TaggedFacts DEF CopyAssign
  <1>4. obj'[v] = obj[w] /\ \A p \in Object \ {v} : obj'[p] = obj[p]
    BY <1>1, <1>3 DEF IInv, AllocTypeOK
  <1>5. AllocTypeOK'
    BY <1>1, <1>2, <1>3, AssignFacts, ClearFacts DEF AllocTypeOK
  <1>6. CountsExact'
    <2> SUFFICES ASSUME NEW a \in Alloc
                 PROVE  use_count'[a] = Cardinality(Holders(a)') /\ (live'[a] <=> use_count'[a] > 0)
      BY DEF CountsExact, Holders
    <2>1. use_count'[a] = use_count[a] - Share(obj[v], a) + Share(obj'[v], a)
      BY <1>1, <1>2, <1>3, <1>4, AssignFacts
    <2>2. use_count'[a] = Cardinality(Holders(a)')
      BY <1>1, <1>2, <1>4, <2>1, OneCounted
    <2>3. live'[a] <=> use_count'[a] > 0
      BY <1>1, <1>2, <1>3, AssignFacts
    <2> QED BY <2>2, <2>3
  <1>7. PlacesInv' /\ KernelInv'
    <2>1. \A o \in HostObject : obj'[o].kind # "parallel"
      BY <1>1, <1>4, ObjectFacts DEF IInv, PlacesInv
    <2> QED BY <1>1, <1>4, <2>1, HostStep DEF CopyAssign
  <1> QED BY <1>5, <1>6, <1>7 DEF IInv

\* clear() keeps the counts right when the handle it clears is replaced by one
\* that holds nothing.
LEMMA ClearKeepsCounts ==
    ASSUME AllocTypeOK, CountsExact, NEW o \in Object,
           live' = ClearLive(obj[o]), use_count' = ClearCount(obj[o]),
           NEW a \in Alloc, use_count'[a] = Cardinality(Holders(a)')
    PROVE  live'[a] <=> use_count'[a] > 0
  <1>1. /\ use_count'[a] = use_count[a] - Share(obj[o], a)
        /\ live'[a] <=> live[a] /\ ~(Holds(obj[o], a) /\ use_count[a] = 1)
    BY ClearFacts
  <1>2. use_count[a] \in Nat /\ (live[a] <=> use_count[a] > 0)
    BY DEF AllocTypeOK, CountsExact
  <1>3. CASE Holds(obj[o], a)
    <2>1. use_count'[a] = use_count[a] - 1 /\ use_count[a] >= 1 /\ live[a]
      BY <1>1, <1>3, UseCounts DEF Share
    <2>2. use_count'[a] > 0 <=> use_count[a] # 1
      BY <1>2, <2>1
    <2> QED BY <1>1, <1>3, <2>1, <2>2
  <1>4. CASE ~Holds(obj[o], a)
    <2>1. use_count'[a] = use_count[a]
      BY <1>1, <1>2, <1>4 DEF Share
    <2> QED BY <1>1, <1>2, <1>4, <2>1
  <1> QED BY <1>3, <1>4

LEMMA MoveAssignInv ==
    ASSUME IInv, NEW v \in Variable, NEW w \in Variable, MoveAssign(v, w)
    PROVE  IInv'
  <1>1. v \in Object /\ v \in HostObject /\ w \in HostObject /\ w \in Object
    BY ObjectFacts
  <1>2. obj[w] \in SharedAllocs /\ AllocTypeOK /\ CountsExact
    BY <1>1 DEF IInv, AllocTypeOK
  <1>3. /\ v # w /\ obj' = [obj EXCEPT ![v] = obj[w], ![w] = Null] /\ live' = ClearLive(obj[v])
        /\ use_count' = ClearCount(obj[v]) /\ size' = size
    BY <1>2, TaggedFacts DEF MoveAssign
  <1>4. /\ obj'[v] = obj[w] /\ obj'[w] = Null
        /\ \A p \in Object \ {v, w} : obj'[p] = obj[p]
    BY <1>1, <1>3 DEF IInv, AllocTypeOK
  <1>5. AllocTypeOK'
    BY <1>1, <1>2, <1>3, ClearFacts, HandleFacts DEF AllocTypeOK
  <1>6. CountsExact'
    <2> SUFFICES ASSUME NEW a \in Alloc
                 PROVE  use_count'[a] = Cardinality(Holders(a)') /\ (live'[a] <=> use_count'[a] > 0)
      BY DEF CountsExact, Holders
    <2>1. use_count'[a] = use_count[a] - Share(obj[v], a)
      BY <1>1, <1>2, <1>3, ClearFacts
    <2>2. Share(obj'[w], a) = 0 /\ Share(obj'[v], a) = Share(obj[w], a) /\ use_count[a] \in Nat
      BY <1>2, <1>4, HandleFacts DEF Share, Holds, AllocTypeOK
    <2>3. use_count'[a] = use_count[a] - Share(obj[v], a) + Share(obj'[v], a)
                                       - Share(obj[w], a) + Share(obj'[w], a)
      BY <2>1, <2>2, ShareIsNat
    <2>4. use_count'[a] = Cardinality(Holders(a)')
      BY <1>1, <1>2, <1>3, <1>4, <2>3, TwoCounted
    <2>5. live'[a] <=> use_count'[a] > 0
      BY <1>1, <1>2, <1>3, <2>4, ClearKeepsCounts
    <2> QED BY <2>4, <2>5
  <1>7. PlacesInv' /\ KernelInv'
    <2>1. \A o \in HostObject : obj'[o].kind # "parallel"
      BY <1>1, <1>4, HandleFacts, ObjectFacts DEF IInv, PlacesInv
    <2> QED BY <1>1, <1>4, <2>1, HostStep DEF MoveAssign
  <1> QED BY <1>5, <1>6, <1>7 DEF IInv

LEMMA DestroyInv ==
    ASSUME IInv, NEW o \in HostObject, Destroy(o)
    PROVE  IInv'
  <1>1. o \in Object
    BY ObjectFacts
  <1>2. AllocTypeOK /\ CountsExact
    BY DEF IInv
  <1>3. /\ obj' = [obj EXCEPT ![o] = Absent] /\ live' = ClearLive(obj[o])
        /\ use_count' = ClearCount(obj[o]) /\ size' = size
    BY DEF Destroy
  <1>4. obj'[o] = Absent /\ \A p \in Object \ {o} : obj'[p] = obj[p]
    BY <1>1, <1>3 DEF IInv, AllocTypeOK
  <1>5. AllocTypeOK'
    BY <1>1, <1>2, <1>3, ClearFacts, HandleFacts DEF AllocTypeOK
  <1>6. CountsExact'
    <2> SUFFICES ASSUME NEW a \in Alloc
                 PROVE  use_count'[a] = Cardinality(Holders(a)') /\ (live'[a] <=> use_count'[a] > 0)
      BY DEF CountsExact, Holders
    <2>1. use_count'[a] = use_count[a] - Share(obj[o], a)
      BY <1>1, <1>2, <1>3, ClearFacts
    <2>2. Share(obj'[o], a) = 0 /\ use_count[a] \in Nat
      BY <1>2, <1>4, HandleFacts DEF Share, Holds, AllocTypeOK
    <2>3. use_count'[a] = use_count[a] - Share(obj[o], a) + Share(obj'[o], a)
      BY <2>1, <2>2, ShareIsNat
    <2>4. use_count'[a] = Cardinality(Holders(a)')
      BY <1>1, <1>2, <1>4, <2>3, OneCounted
    <2>5. live'[a] <=> use_count'[a] > 0
      BY <1>1, <1>2, <1>3, <2>4, ClearKeepsCounts
    <2> QED BY <2>4, <2>5
  <1>7. PlacesInv' /\ KernelInv'
    <2>1. \A p \in HostObject : obj'[p].kind # "parallel"
      BY <1>1, <1>4, HandleFacts, ObjectFacts DEF IInv, PlacesInv
    <2> QED BY <1>1, <1>4, <2>1, HostStep DEF Destroy
  <1> QED BY <1>5, <1>6, <1>7 DEF IInv

-----------------------------------------------------------------------------
(* Into a kernel, inside and out of it *)

\* A host handle that points anywhere is counted; a kernel's or thread's never is.
LEMMA CountedOrNot ==
    ASSUME IInv
    PROVE  /\ \A o \in HostObject : obj[o].ptr # NoAlloc => Holds(obj[o], obj[o].ptr)
           /\ \A o \in Thread \cup {KERNEL} : ~Counted(obj[o])
  <1>1. \A o \in Object : obj[o] \in SharedAllocs
    BY DEF IInv, AllocTypeOK
  <1>2. \A o \in HostObject : obj[o].ptr # NoAlloc => Holds(obj[o], obj[o].ptr)
    BY <1>1, ObjectFacts, HandleKinds DEF IInv, PlacesInv, Holds
  <1>3. ~Counted(obj[KERNEL])
    <2>1. SUFFICES ASSUME Counted(obj[KERNEL]) PROVE FALSE
      OBVIOUS
    <2>2. obj[KERNEL].ptr # NoAlloc
      BY <1>1, <2>1, ObjectFacts, HandleKinds, AllocAssumption
    <2>3. obj[KERNEL].kind = "parallel"
      BY <2>2 DEF IInv, KernelInv, InParallel
    <2> QED BY <1>1, <2>1, <2>3, ObjectFacts, HandleKinds
  <1>4. \A t \in Thread : ~Counted(obj[t])
    BY <1>3, HandleFacts DEF IInv, PlacesInv
  <1> QED BY <1>2, <1>3, <1>4

\* The handle that enters the kernel is tagged, and what it points to is held
\* by a handle that stays.
LEMMA EntersTagged ==
    ASSUME IInv, HostRuns,
           \A o \in Object \ {FUNCTOR, KERNEL} : obj'[o] = obj[o],
           obj'[FUNCTOR].kind # "parallel",
           obj'[KERNEL] = Tagged(obj[FUNCTOR], TRUE), size' = size,
           Counted(obj[FUNCTOR]) =>
                \E o \in HostObject : Holds(obj'[o], obj[FUNCTOR].ptr)
    PROVE  PlacesInv' /\ KernelInv'
  <1>1. obj[FUNCTOR] \in SharedAllocs /\ AllocTypeOK
    BY ObjectFacts DEF IInv, AllocTypeOK
  <1>2. PlacesInv'
    <2>1. \A t \in Thread : obj'[t] = Absent
      BY ObjectFacts DEF IInv, PlacesInv, HostRuns
    <2>2. \A o \in HostObject : obj'[o].kind # "parallel"
      BY ObjectFacts DEF IInv, PlacesInv
    <2> QED BY <2>1, <2>2 DEF PlacesInv
  <1>3. KernelInv'
    <2> SUFFICES ASSUME obj'[KERNEL].ptr # NoAlloc
                 PROVE  /\ obj'[KERNEL] = InParallel(obj'[KERNEL].ptr, size'[obj'[KERNEL].ptr])
                        /\ \E o \in HostObject : Holds(obj'[o], obj'[KERNEL].ptr)
      BY DEF KernelInv, Holds, Counted
    <2>1. obj'[KERNEL].ptr = obj[FUNCTOR].ptr
      BY <1>1, TaggedFacts
    <2>2. Counted(obj[FUNCTOR])
      BY <2>1, CountedOrNot, ObjectFacts DEF Holds
    <2>3. obj'[KERNEL] = InParallel(obj[FUNCTOR].ptr, size[obj[FUNCTOR].ptr])
      BY <1>1, <2>2, TaggedFacts
    <2> QED BY <2>1, <2>2, <2>3
  <1> QED BY <1>2, <1>3

LEMMA LaunchInv ==
    ASSUME IInv, Launch
    PROVE  IInv'
  <1>1. FUNCTOR \in Object /\ KERNEL \in Object /\ FUNCTOR # KERNEL /\ FUNCTOR \in HostObject
    BY ObjectFacts
  <1>2. obj[FUNCTOR] \in SharedAllocs /\ AllocTypeOK /\ CountsExact
    BY <1>1 DEF IInv, AllocTypeOK
  <1> DEFINE h == Tagged(obj[FUNCTOR], TRUE)
  <1>3. /\ obj[KERNEL] = Absent /\ obj' = [obj EXCEPT ![KERNEL] = h, ![FUNCTOR] = Null]
        /\ use_count' = ClearCount(obj[FUNCTOR]) /\ live' = live /\ size' = size
    BY <1>1, <1>2, MoveCountFacts DEF Launch, HostRuns
  <1>4. h \in SharedAllocs /\ ~Counted(h)
    BY <1>2, TaggedFacts
  <1> HIDE DEF h
  <1>5. /\ obj'[KERNEL] = h /\ obj'[FUNCTOR] = Null
        /\ \A p \in Object \ {FUNCTOR, KERNEL} : obj'[p] = obj[p]
    BY <1>1, <1>3 DEF IInv, AllocTypeOK
  <1>6. AllocTypeOK'
    BY <1>1, <1>2, <1>3, <1>4, ClearFacts, HandleFacts DEF AllocTypeOK
  <1>7. Counted(obj[FUNCTOR]) =>
            \E v \in Variable : Holds(obj[v], obj[FUNCTOR].ptr) /\ obj'[v] = obj[v]
    BY <1>5, ObjectFacts, ObjectAssumption DEF Launch, CapturedOutlives, Holds
  <1>8. CountsExact'
    <2> SUFFICES ASSUME NEW a \in Alloc
                 PROVE  use_count'[a] = Cardinality(Holders(a)') /\ (live'[a] <=> use_count'[a] > 0)
      BY DEF CountsExact, Holders
    <2>1. use_count'[a] = use_count[a] - Share(obj[FUNCTOR], a)
      BY <1>1, <1>2, <1>3, ClearFacts
    <2>2. /\ Share(obj[KERNEL], a) = 0 /\ Share(obj'[KERNEL], a) = 0
          /\ Share(obj'[FUNCTOR], a) = 0 /\ use_count[a] \in Nat
      BY <1>2, <1>3, <1>4, <1>5, HandleFacts DEF Share, Holds, AllocTypeOK
    <2>3. use_count'[a] = use_count[a] - Share(obj[FUNCTOR], a) + Share(obj'[FUNCTOR], a)
                                       - Share(obj[KERNEL], a) + Share(obj'[KERNEL], a)
      BY <2>1, <2>2, ShareIsNat
    <2>4. use_count'[a] = Cardinality(Holders(a)')
      BY <1>1, <1>2, <1>5, <2>3, TwoCounted
    <2>5. CASE Holds(obj[FUNCTOR], a)
      <3>1. PICK v \in Variable : Holds(obj[v], a)
        BY <1>7, <2>5 DEF Holds
      <3>2. v \in Object /\ v # FUNCTOR
        BY ObjectFacts, ObjectAssumption
      <3>3. use_count[a] >= 2 /\ live[a]
        BY <1>1, <1>2, <2>5, <3>1, <3>2, UseCounts
      <3>4. use_count'[a] = use_count[a] - 1
        BY <2>1, <2>5 DEF Share
      <3>5. use_count'[a] > 0
        BY <2>2, <3>3, <3>4
      <3> QED BY <1>3, <2>4, <3>3, <3>5
    <2>6. CASE ~Holds(obj[FUNCTOR], a)
      <3>1. use_count'[a] = use_count[a]
        BY <2>1, <2>2, <2>6 DEF Share
      <3> QED BY <1>2, <1>3, <2>4, <3>1 DEF CountsExact
    <2> QED BY <2>5, <2>6
  <1>9. PlacesInv' /\ KernelInv'
    <2>1. Counted(obj[FUNCTOR]) => \E o \in HostObject : Holds(obj'[o], obj[FUNCTOR].ptr)
      BY <1>7, ObjectFacts
    <2>2. obj'[FUNCTOR].kind # "parallel"
      BY <1>5, HandleFacts
    <2> QED BY <1>3, <1>5, <2>1, <2>2, EntersTagged DEF Launch, h
  <1> QED BY <1>6, <1>8, <1>9 DEF IInv

LEMMA LaunchCopyInv ==
    ASSUME IInv, LaunchCopy
    PROVE  IInv'
  <1>1. FUNCTOR \in Object /\ KERNEL \in Object /\ FUNCTOR # KERNEL /\ FUNCTOR \in HostObject
    BY ObjectFacts
  <1>2. obj[FUNCTOR] \in SharedAllocs /\ AllocTypeOK /\ CountsExact
    BY <1>1 DEF IInv, AllocTypeOK
  <1> DEFINE h == Tagged(obj[FUNCTOR], TRUE)
  <1>3. /\ obj[KERNEL] = Absent /\ obj' = [obj EXCEPT ![KERNEL] = h]
        /\ UNCHANGED <<live, use_count, size>>
    BY DEF LaunchCopy, HostRuns
  <1>4. h \in SharedAllocs /\ ~Counted(h)
    BY <1>2, TaggedFacts
  <1> HIDE DEF h
  <1>5. obj'[KERNEL] = h /\ \A p \in Object \ {KERNEL} : obj'[p] = obj[p]
    BY <1>1, <1>3 DEF IInv, AllocTypeOK
  <1>6. AllocTypeOK'
    BY <1>1, <1>2, <1>3, <1>4 DEF AllocTypeOK
  <1>7. CountsExact'
    <2> SUFFICES ASSUME NEW a \in Alloc
                 PROVE  use_count'[a] = Cardinality(Holders(a)') /\ (live'[a] <=> use_count'[a] > 0)
      BY DEF CountsExact, Holders
    <2>1. ~Counted(obj[KERNEL]) /\ ~Counted(obj'[KERNEL])
      BY <1>3, <1>4, <1>5, HandleFacts
    <2>2. Holders(a)' = Holders(a)
      BY <1>1, <1>5, <2>1 DEF Holders
    <2> QED BY <1>2, <1>3, <2>2 DEF CountsExact
  <1>8. PlacesInv' /\ KernelInv'
    <2>1. Counted(obj[FUNCTOR]) => \E o \in HostObject : Holds(obj'[o], obj[FUNCTOR].ptr)
      BY <1>1, <1>5 DEF Holds
    <2>2. obj'[FUNCTOR].kind # "parallel"
      BY <1>1, <1>5 DEF IInv, PlacesInv
    <2> QED BY <1>3, <1>5, <2>1, <2>2, EntersTagged DEF LaunchCopy, h
  <1> QED BY <1>6, <1>7, <1>8 DEF IInv

\* Replacing a kernel's or thread's handle by another that is not counted.
LEMMA KernelStep ==
    ASSUME IInv, NEW o \in Thread \cup {KERNEL}, NEW h \in SharedAllocs, ~Counted(h),
           obj' = [obj EXCEPT ![o] = h], UNCHANGED <<live, use_count, size>>
    PROVE  AllocTypeOK' /\ CountsExact'
  <1>1. o \in Object /\ ~Counted(obj[o]) /\ ~Counted(obj'[o])
    BY ObjectFacts, CountedOrNot DEF IInv, AllocTypeOK
  <1>2. AllocTypeOK'
    BY <1>1 DEF IInv, AllocTypeOK
  <1>3. CountsExact'
    <2> SUFFICES ASSUME NEW a \in Alloc
                 PROVE  use_count'[a] = Cardinality(Holders(a)') /\ (live'[a] <=> use_count'[a] > 0)
      BY DEF CountsExact, Holders
    <2>1. Holders(a)' = Holders(a)
      BY <1>1 DEF Holders, IInv, AllocTypeOK
    <2> QED BY <2>1 DEF IInv, CountsExact
  <1> QED BY <1>2, <1>3

\* Inside a kernel nothing counts, and so no increment can be lost to a race.
LEMMA CopyInKernelInv ==
    ASSUME IInv, NEW t \in Thread, CopyInKernel(t)
    PROVE  IInv'
  <1>1. obj[KERNEL] \in SharedAllocs /\ AllocTypeOK /\ ~Counted(obj[KERNEL])
    BY ObjectFacts, CountedOrNot DEF IInv, AllocTypeOK
  <1>2. obj' = [obj EXCEPT ![t] = obj[KERNEL]] /\ UNCHANGED <<live, use_count, size>>
    BY <1>1, TaggedFacts DEF CopyInKernel, CopyCount
  <1>3. AllocTypeOK' /\ CountsExact'
    BY <1>1, <1>2, KernelStep
  <1>4. obj'[t] = obj[KERNEL] /\ \A o \in Object \ {t} : obj'[o] = obj[o]
    BY <1>2, ObjectFacts DEF IInv, AllocTypeOK
  <1>5. PlacesInv'
    BY <1>4, ObjectFacts DEF IInv, PlacesInv, CopyInKernel
  <1>6. KernelInv'
    BY <1>2, <1>4, ObjectFacts DEF IInv, KernelInv
  <1> QED BY <1>3, <1>5, <1>6 DEF IInv

LEMMA DestroyInKernelInv ==
    ASSUME IInv, NEW t \in Thread, DestroyInKernel(t)
    PROVE  IInv'
  <1>1. ~Counted(obj[t])
    BY CountedOrNot
  <1>2. obj' = [obj EXCEPT ![t] = Absent] /\ UNCHANGED <<live, use_count, size>>
    BY <1>1 DEF DestroyInKernel, ClearLive, ClearCount
  <1>3. AllocTypeOK' /\ CountsExact'
    BY <1>2, KernelStep, HandleFacts
  <1>4. obj'[t] = Absent /\ \A o \in Object \ {t} : obj'[o] = obj[o]
    BY <1>2, ObjectFacts DEF IInv, AllocTypeOK
  <1>5. PlacesInv'
    BY <1>4, ObjectFacts DEF IInv, PlacesInv
  <1>6. KernelInv'
    BY <1>2, <1>4, ObjectFacts DEF IInv, KernelInv
  <1> QED BY <1>3, <1>5, <1>6 DEF IInv

LEMMA EndKernelInv ==
    ASSUME IInv, EndKernel
    PROVE  IInv'
  <1>1. ~Counted(obj[KERNEL])
    BY CountedOrNot
  <1>2. obj' = [obj EXCEPT ![KERNEL] = Absent] /\ UNCHANGED <<live, use_count, size>>
    BY <1>1 DEF EndKernel, ClearLive, ClearCount
  <1>3. AllocTypeOK' /\ CountsExact'
    BY <1>2, KernelStep, HandleFacts
  <1>4. obj'[KERNEL] = Absent /\ \A o \in Object \ {KERNEL} : obj'[o] = obj[o]
    BY <1>2, ObjectFacts DEF IInv, AllocTypeOK
  <1>5. PlacesInv'
    BY <1>4, ObjectFacts DEF IInv, PlacesInv, EndKernel
  <1>6. KernelInv'
    BY <1>4, HandleFacts DEF KernelInv
  <1> QED BY <1>3, <1>5, <1>6 DEF IInv

-----------------------------------------------------------------------------
(* Theorems *)

LEMMA NextInv == IInv /\ [AllocNext]_allocVars => IInv'
  <1> SUFFICES ASSUME IInv, [AllocNext]_allocVars
               PROVE  IInv'
    OBVIOUS
  <1>1. ASSUME NEW v \in Variable, DefaultConstruct(v) PROVE IInv'
    BY <1>1, DefaultConstructInv
  <1>2. ASSUME NEW v \in Variable, NEW a \in Alloc, NEW n \in Size, Construct(v, a, n)
        PROVE  IInv'
    BY <1>2, ConstructInv
  <1>3. ASSUME NEW v \in Variable, NEW w \in Variable, MoveConstruct(v, w) PROVE IInv'
    BY <1>3, MoveConstructInv
  <1>4. ASSUME NEW v \in Variable, NEW w \in Variable, CopyAssign(v, w) PROVE IInv'
    BY <1>4, CopyAssignInv
  <1>5. ASSUME NEW v \in Variable, NEW w \in Variable, MoveAssign(v, w) PROVE IInv'
    BY <1>5, MoveAssignInv
  <1>6. ASSUME NEW o \in HostObject, NEW w \in Variable, CopyConstruct(o, w) PROVE IInv'
    BY <1>6, CopyConstructInv
  <1>7. ASSUME NEW o \in HostObject, Destroy(o) PROVE IInv'
    BY <1>7, DestroyInv
  <1>8. CASE Launch
    BY <1>8, LaunchInv
  <1>9. CASE LaunchCopy
    BY <1>9, LaunchCopyInv
  <1>10. ASSUME NEW t \in Thread, CopyInKernel(t) PROVE IInv'
    BY <1>10, CopyInKernelInv
  <1>11. ASSUME NEW t \in Thread, DestroyInKernel(t) PROVE IInv'
    BY <1>11, DestroyInKernelInv
  <1>12. CASE EndKernel
    BY <1>12, EndKernelInv
  <1>13. CASE UNCHANGED allocVars
    BY <1>13 DEF allocVars, IInv, AllocTypeOK, CountsExact, Holders, PlacesInv, KernelInv
  <1> QED BY <1>1, <1>2, <1>3, <1>4, <1>5, <1>6, <1>7, <1>8, <1>9, <1>10, <1>11, <1>12, <1>13
          DEF AllocNext

THEOREM InductiveInvariant == AllocSpec => []IInv
  BY InitInv, NextInv, PTL DEF AllocSpec

\* A handle is always in one of the states its tag bits can express, and no
\* count falls below zero.
THEOREM TypeCorrect == AllocSpec => []AllocTypeOK
  BY InductiveInvariant, PTL DEF IInv

\* Construction, assignment, moves and kernels keep every count at the number of
\* handles that hold the Alloc, and clear() deletes it with the last of them.
THEOREM CountsAreExact == AllocSpec => []CountsExact
  BY InductiveInvariant, PTL DEF IInv

\* No handle points to memory that has been freed: a counted one keeps it alive,
\* and what a kernel's uncounted one points to is held on the host.
THEOREM NothingEverDangles == AllocSpec => []NothingDangles
  <1>1. IInv => NothingDangles
    <2> SUFFICES ASSUME IInv, NEW o \in Object, obj[o].ptr # NoAlloc
                 PROVE  live[obj[o].ptr]
      BY DEF NothingDangles
    <2>1. AllocTypeOK /\ CountsExact /\ obj[o] \in SharedAllocs
      BY DEF IInv, AllocTypeOK
    <2>2. obj[o].ptr \in Alloc
      BY <2>1, HandleKinds
    <2>3. \E q \in Object : Holds(obj[q], obj[o].ptr)
      <3>1. CASE o \in HostObject
        BY <3>1, CountedOrNot
      <3>2. CASE o = KERNEL
        BY <3>2, ObjectFacts DEF IInv, KernelInv
      <3>3. CASE o \in Thread
        <4>1. obj[o] = obj[KERNEL]
          BY <3>3, HandleFacts DEF IInv, PlacesInv
        <4> QED BY <4>1, ObjectFacts DEF IInv, KernelInv
      <3> QED BY <3>1, <3>2, <3>3 DEF Object, HostObject
    <2> QED BY <2>1, <2>2, <2>3, UseCounts
  <1> QED BY <1>1, InductiveInvariant, PTL

\* The handle of a kernel and those of its threads carry the size in place of the
\* counted pointer, and size() there is the size of the allocation.
THEOREM KernelHandlesAreTagged == AllocSpec => []KernelHandlesTagged
  <1>1. IInv => KernelHandlesTagged
    BY HandleFacts DEF IInv, PlacesInv, KernelInv, KernelHandlesTagged
  <1> QED BY <1>1, InductiveInvariant, PTL
=============================================================================
