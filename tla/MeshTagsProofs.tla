-------------------------- MODULE MeshTagsProofs --------------------------
(***************************************************************************)
(* Proofs about MeshTags, for meshes of any dimension up to three, any     *)
(* number of entities, of arrays and of orders.                            *)
(***************************************************************************)
EXTENDS MeshTags, SequenceTheorems, TLAPS

\* Tags of one mesh: one sequence for each dimension, no name twice in it.
TagsOK(ts) ==
  /\ DOMAIN ts = Dims
  /\ \A d \in Dims : ts[d] \in Seq(TagRecord) /\ UniqueNames(ts[d])

-----------------------------------------------------------------------------
(* Finding a tag *)

LEMMA DimFacts ==
  /\ VERT \in Dims /\ EDGE \in Dims /\ Dim \in Dims /\ VERT # EDGE /\ VERT # Dim
  /\ 1..Dim \subseteq Dims /\ \A d \in 1..Dim : d \in 1..3 /\ d # VERT
  BY MeshAssumption DEF VERT, EDGE, Dims

\* The first tag of a name is the only one.
LEMMA IterFacts ==
  ASSUME NEW ts, TagsOK(ts), NEW d \in Dims, NEW name, has_tag(ts, d, name)
  PROVE  /\ tag_iter(ts, d, name) \in 1..Len(ts[d])
         /\ get_tag(ts, d, name) \in TagRecord
         /\ get_tag(ts, d, name).name = name
         /\ \A i \in 1..Len(ts[d]) : ts[d][i].name = name => i = tag_iter(ts, d, name)
  <1>1. /\ ts[d] \in Seq(TagRecord) /\ DOMAIN ts[d] = 1..Len(ts[d]) /\ Len(ts[d]) \in Nat
        /\ \A i, j \in 1..Len(ts[d]) : ts[d][i].name = ts[d][j].name => i = j
    BY LenProperties DEF TagsOK, UniqueNames
  <1>2. PICK i \in 1..Len(ts[d]) : ts[d][i].name = name
    BY <1>1 DEF has_tag
  <1>3. \A j \in 1..(i - 1) : ts[d][j].name # name
    BY <1>1, <1>2
  <1>4. /\ tag_iter(ts, d, name) \in 1..Len(ts[d])
        /\ ts[d][tag_iter(ts, d, name)].name = name
    BY <1>1, <1>2, <1>3 DEF tag_iter
  <1>5. get_tag(ts, d, name) \in TagRecord
    BY <1>1, <1>4, ElementOfSeq DEF get_tag
  <1> QED BY <1>1, <1>4, <1>5 DEF get_tag

\* A tag in the sequence is found by its name.
LEMMA FoundByName ==
  ASSUME NEW ts, TagsOK(ts), NEW d \in Dims, NEW i \in 1..Len(ts[d])
  PROVE  has_tag(ts, d, ts[d][i].name) /\ get_tag(ts, d, ts[d][i].name) = ts[d][i]
  <1>1. ts[d] \in Seq(TagRecord) /\ DOMAIN ts[d] = 1..Len(ts[d])
    BY LenProperties DEF TagsOK
  <1>2. has_tag(ts, d, ts[d][i].name)
    BY <1>1 DEF has_tag
  <1> QED BY <1>2, IterFacts DEF get_tag

-----------------------------------------------------------------------------
(* remove_tag and put_tag *)

\* us has the tags of ts without those of the names `gone' (pairs of a dimension and
\* a name).
Without(us, ts, gone) ==
  /\ TagsOK(us)
  /\ \A e \in Dims, m \in Names :
       /\ has_tag(us, e, m) <=> has_tag(ts, e, m) /\ <<e, m>> \notin gone
       /\ has_tag(us, e, m) => get_tag(us, e, m) = get_tag(ts, e, m)

LEMMA SameSequence ==
  ASSUME NEW ts, NEW us, NEW e, NEW m, us[e] = ts[e]
  PROVE  /\ has_tag(us, e, m) <=> has_tag(ts, e, m)
         /\ get_tag(us, e, m) = get_tag(ts, e, m)
  BY Zenon DEF has_tag, get_tag, tag_iter

LEMMA RemoveFacts ==
  ASSUME NEW ts, TagsOK(ts), NEW d \in Dims, NEW name \in Names
  PROVE  Without(remove_tag(ts, d, name), ts, {<<d, name>>})
  <1> DEFINE us == remove_tag(ts, d, name)
  <1>1. CASE ~has_tag(ts, d, name)
    BY <1>1 DEF Without, remove_tag
  <1>2. CASE has_tag(ts, d, name)
    <2> DEFINE k == tag_iter(ts, d, name)
               s == ts[d]
               n == Len(s)
               u == RemoveAt(s, k)
    <2>1. /\ s \in Seq(TagRecord) /\ n \in Nat /\ k \in 1..n /\ s[k].name = name
          /\ \A i, j \in 1..n : s[i].name = s[j].name => i = j
      BY <1>2, IterFacts, LenProperties DEF TagsOK, UniqueNames, get_tag
    <2> HIDE DEF k
    <2>2. /\ SubSeq(s, 1, k - 1) \in Seq(TagRecord) /\ SubSeq(s, k + 1, n) \in Seq(TagRecord)
          /\ Len(SubSeq(s, 1, k - 1)) = k - 1 /\ Len(SubSeq(s, k + 1, n)) = n - k
          /\ \A i \in 1..(k - 1) : SubSeq(s, 1, k - 1)[i] = s[i]
          /\ \A i \in 1..(n - k) : SubSeq(s, k + 1, n)[i] = s[k + i]
      <3>1. \A i \in 1..n : s[i] \in TagRecord
        BY <2>1, ElementOfSeq
      <3>2. k - 1 \in Int /\ k + 1 \in Int /\ n \in Int
        BY <2>1
      <3>3. /\ SubSeq(s, 1, k - 1) \in Seq(TagRecord)
            /\ Len(SubSeq(s, 1, k - 1)) = IF 1 <= k - 1 THEN (k - 1) - 1 + 1 ELSE 0
            /\ \A i \in 1..(k - 1) - 1 + 1 : SubSeq(s, 1, k - 1)[i] = s[1 + i - 1]
        BY <2>1, <3>1, <3>2, SubSeqProperties
      <3>4. /\ SubSeq(s, k + 1, n) \in Seq(TagRecord)
            /\ Len(SubSeq(s, k + 1, n)) = IF k + 1 <= n THEN n - (k + 1) + 1 ELSE 0
            /\ \A i \in 1..n - (k + 1) + 1 : SubSeq(s, k + 1, n)[i] = s[(k + 1) + i - 1]
        BY <2>1, <3>1, <3>2, SubSeqProperties
      <3> QED BY <2>1, <3>3, <3>4
    <2>3. /\ u \in Seq(TagRecord) /\ Len(u) = n - 1
          /\ \A i \in 1..(n - 1) : u[i] = IF i < k THEN s[i] ELSE s[i + 1]
      <3> DEFINE a == SubSeq(s, 1, k - 1)
                 b == SubSeq(s, k + 1, n)
      <3>1. u = a \o b
        BY DEF RemoveAt
      <3>2. a \in Seq(TagRecord) /\ b \in Seq(TagRecord)
        BY <2>2
      <3> HIDE DEF a, b, u
      <3>3. /\ u \in Seq(TagRecord) /\ Len(u) = Len(a) + Len(b)
            /\ \A i \in 1..(Len(a) + Len(b)) : u[i] = IF i <= Len(a) THEN a[i] ELSE b[i - Len(a)]
        BY <3>1, <3>2, ConcatProperties
      <3>4. Len(a) = k - 1 /\ Len(b) = n - k
        BY <2>2 DEF a, b
      <3>5. ASSUME NEW i \in 1..(n - 1)
            PROVE  u[i] = IF i < k THEN s[i] ELSE s[i + 1]
        <4>1. CASE i < k
          <5>1. i \in 1..(k - 1) /\ i \in 1..(Len(a) + Len(b)) /\ i <= Len(a)
            BY <2>1, <3>4, <4>1
          <5>2. a[i] = s[i]
            BY <2>2, <5>1 DEF a
          <5> QED BY <3>3, <4>1, <5>1, <5>2
        <4>2. CASE ~(i < k)
          <5>1. i - (k - 1) \in 1..(n - k) /\ k + (i - (k - 1)) = i + 1
            BY <2>1, <4>2
          <5>3. i \in 1..(Len(a) + Len(b)) /\ ~(i <= Len(a)) /\ i - Len(a) = i - (k - 1)
            BY <2>1, <3>4, <4>2
          <5>4. u[i] = IF i <= Len(a) THEN a[i] ELSE b[i - Len(a)]
            BY <3>3, <5>3
          <5>2. u[i] = b[i - (k - 1)]
            BY Zenon, <5>3, <5>4
          <5> QED BY <2>2, <4>2, <5>1, <5>2 DEF b
        <4> QED BY <4>1, <4>2
      <3> QED BY <2>1, <3>3, <3>4, <3>5
    <2> HIDE DEF u
    <2> DEFINE at(i) == IF i < k THEN i ELSE i + 1
    <2>at. \A i \in 1..(n - 1) : at(i) \in 1..n /\ at(i) # k /\ u[i] = s[at(i)]
      BY <2>1, <2>3
    <2>in. \A i, j \in 1..(n - 1) : at(i) = at(j) => i = j
      BY <2>1
    <2> HIDE DEF at
    <2>4. DOMAIN u = 1..(n - 1) /\ UniqueNames(u)
      <3>1. DOMAIN u = 1..(n - 1)
        BY <2>3, LenProperties
      <3>2. ASSUME NEW i \in 1..(n - 1), NEW j \in 1..(n - 1), u[i].name = u[j].name
            PROVE  i = j
        <4>1. at(i) = at(j)
          BY <2>1, <2>at, <3>2
        <4> QED BY <2>in, <4>1
      <3> QED BY <3>1, <3>2 DEF UniqueNames
    <2>5. /\ us[d] = u /\ \A e \in Dims : e # d => us[e] = ts[e]
          /\ DOMAIN us = Dims
      BY <1>2 DEF remove_tag, TagsOK, k, u
    <2> HIDE DEF us
    <2>6. TagsOK(us)
      BY <2>3, <2>4, <2>5 DEF TagsOK
    <2>7. \A e \in Dims, m \in Names : e # d =>
             /\ has_tag(us, e, m) <=> has_tag(ts, e, m)
             /\ get_tag(us, e, m) = get_tag(ts, e, m)
      <3> SUFFICES ASSUME NEW e \in Dims, NEW m \in Names, e # d
                   PROVE  /\ has_tag(us, e, m) <=> has_tag(ts, e, m)
                          /\ get_tag(us, e, m) = get_tag(ts, e, m)
        OBVIOUS
      <3>1. us[e] = ts[e]
        BY <2>5
      <3> QED BY <3>1, SameSequence
    <2>8. ASSUME NEW m \in Names
          PROVE  has_tag(us, d, m) <=> has_tag(ts, d, m) /\ m # name
      <3>1. has_tag(us, d, m) <=> \E i \in 1..(n - 1) : u[i].name = m
        BY <2>4, <2>5 DEF has_tag
      <3>2. has_tag(ts, d, m) <=> \E i \in 1..n : s[i].name = m
        BY <2>1, LenProperties DEF has_tag
      <3>3. \A i \in 1..(n - 1) : \E j \in 1..n : j # k /\ u[i] = s[j]
        BY <2>at
      <3>4. ASSUME NEW j \in 1..n, j # k PROVE \E i \in 1..(n - 1) : u[i] = s[j]
        <4>1. CASE j < k
          BY <2>1, <2>3, <4>1
        <4>2. CASE j > k
          <5>1. j - 1 \in 1..(n - 1) /\ ~(j - 1 < k) /\ (j - 1) + 1 = j
            BY <2>1, <4>2
          <5> QED BY <2>3, <5>1
        <4> QED BY <2>1, <3>4, <4>1, <4>2
      <3>5. \A j \in 1..n : s[j].name = name <=> j = k
        BY <2>1
      <3>6. ASSUME has_tag(us, d, m) PROVE has_tag(ts, d, m) /\ m # name
        <4>1. PICK i \in 1..(n - 1) : u[i].name = m
          BY <3>1, <3>6
        <4>2. PICK j \in 1..n : j # k /\ u[i] = s[j]
          BY <3>3
        <4> QED BY <3>2, <3>5, <4>1, <4>2
      <3>7. ASSUME has_tag(ts, d, m), m # name PROVE has_tag(us, d, m)
        <4>1. PICK j \in 1..n : s[j].name = m
          BY <3>2, <3>7
        <4>2. PICK i \in 1..(n - 1) : u[i] = s[j]
          BY <3>4, <3>5, <3>7, <4>1
        <4> QED BY <3>1, <4>1, <4>2
      <3> QED BY <3>6, <3>7
    <2>9. ASSUME NEW m \in Names, has_tag(us, d, m)
          PROVE  get_tag(us, d, m) = get_tag(ts, d, m)
      <3>1. PICK i \in 1..(n - 1) : u[i].name = m
        BY <2>4, <2>5, <2>9 DEF has_tag
      <3>2. PICK j \in 1..n : u[i] = s[j]
        BY <2>1, <2>3
      <3>3. get_tag(us, d, m) = u[i]
        BY <2>3, <2>5, <2>6, <3>1, FoundByName
      <3>4. get_tag(ts, d, m) = s[j]
        BY <3>1, <3>2, FoundByName
      <3> QED BY <3>2, <3>3, <3>4
    <2> QED BY <2>6, <2>7, <2>8, <2>9 DEF Without, us
  <1> QED BY <1>1, <1>2

\* us has the tag, and for the rest the tags of ts.
With(us, ts, d, tag) ==
  /\ TagsOK(us)
  /\ has_tag(us, d, tag.name) /\ get_tag(us, d, tag.name) = tag
  /\ \A e \in Dims, m \in Names : e # d \/ m # tag.name =>
       /\ has_tag(us, e, m) <=> has_tag(ts, e, m)
       /\ has_tag(us, e, m) => get_tag(us, e, m) = get_tag(ts, e, m)

LEMMA PutFacts ==
  ASSUME NEW ts, TagsOK(ts), NEW d \in Dims, NEW tag \in TagRecord
  PROVE  With(put_tag(ts, d, tag), ts, d, tag)
  <1> DEFINE us == put_tag(ts, d, tag)
             s == ts[d]
             n == Len(s)
             name == tag.name
             u == us[d]
  <1>1. /\ s \in Seq(TagRecord) /\ n \in Nat /\ DOMAIN s = 1..n
        /\ \A i, j \in 1..n : s[i].name = s[j].name => i = j
    BY LenProperties DEF TagsOK, UniqueNames
  <1>2. name \in Names
    BY DEF TagRecord
  <1>3. /\ DOMAIN us = Dims /\ \A e \in Dims : e # d => us[e] = ts[e]
        /\ u = IF has_tag(ts, d, name) THEN [s EXCEPT ![tag_iter(ts, d, name)] = tag]
               ELSE Append(s, tag)
    BY DEF put_tag, TagsOK
  <1> HIDE DEF us, u
  \* Place k has the tag now, and no other place had or has its name.
  <1>4. \E k \in Nat \ {0} :
          /\ u \in Seq(TagRecord) /\ k \in 1..Len(u) /\ u[k] = tag
          /\ DOMAIN u = 1..Len(u)
          /\ \A i \in 1..Len(u) : i # k => i \in 1..n /\ u[i] = s[i]
          /\ \A i \in 1..n : i # k => i \in 1..Len(u) /\ s[i].name # name
          /\ k \in 1..n => s[k].name = name
    <2>1. CASE has_tag(ts, d, name)
      <3> DEFINE k == tag_iter(ts, d, name)
      <3>1. /\ k \in 1..n /\ s[k].name = name
            /\ \A i \in 1..n : s[i].name = name => i = k
        BY <2>1, IterFacts DEF get_tag
      <3>2. u = [s EXCEPT ![k] = tag]
        BY <1>3, <2>1
      <3> HIDE DEF k
      <3>3. /\ u \in Seq(TagRecord) /\ Len(u) = n
            /\ \A i \in 1..n : u[i] = IF i = k THEN tag ELSE s[i]
        BY <1>1, <3>1, <3>2, ExceptSeq
      <3>4. DOMAIN u = 1..Len(u) /\ k \in Nat \ {0}
        BY <1>1, <3>1, <3>3, LenProperties
      <3> QED BY <3>1, <3>3, <3>4
    <2>2. CASE ~has_tag(ts, d, name)
      <3>1. u = Append(s, tag)
        BY <1>3, <2>2
      <3>2. /\ u \in Seq(TagRecord) /\ Len(u) = n + 1
            /\ \A i \in 1..n : u[i] = s[i]
            /\ u[n + 1] = tag
        BY <1>1, <3>1, AppendProperties
      <3>3. DOMAIN u = 1..Len(u)
        BY <3>2, LenProperties
      <3>4. \A i \in 1..n : s[i].name # name
        BY <1>1, <2>2 DEF has_tag
      <3>5. \A i \in 1..Len(u) : i # n + 1 => i \in 1..n
        BY <1>1, <3>2
      <3>6. \A i \in 1..n : i \in 1..Len(u) /\ i # n + 1
        BY <1>1, <3>2
      <3> QED BY <1>1, <3>2, <3>3, <3>4, <3>5, <3>6
    <2> QED BY <2>1, <2>2
  <1>5. PICK k \in Nat \ {0} :
          /\ u \in Seq(TagRecord) /\ k \in 1..Len(u) /\ u[k] = tag
          /\ DOMAIN u = 1..Len(u)
          /\ \A i \in 1..Len(u) : i # k => i \in 1..n /\ u[i] = s[i]
          /\ \A i \in 1..n : i # k => i \in 1..Len(u) /\ s[i].name # name
          /\ k \in 1..n => s[k].name = name
    BY <1>4
  <1>6. UniqueNames(u)
    <2> SUFFICES ASSUME NEW i \in 1..Len(u), NEW j \in 1..Len(u), u[i].name = u[j].name
                 PROVE  i = j
      BY <1>5 DEF UniqueNames
    <2>1. CASE i # k /\ j # k
      BY <1>1, <1>5, <2>1
    <2>2. CASE i = k \/ j = k
      BY <1>5, <2>2
    <2> QED BY <2>1, <2>2
  <1>7. TagsOK(us)
    BY <1>3, <1>5, <1>6 DEF TagsOK, u
  <1>8. has_tag(us, d, name) /\ get_tag(us, d, name) = tag
    BY <1>5, <1>7, FoundByName DEF u
  <1>9. ASSUME NEW e \in Dims, NEW m \in Names, e # d
        PROVE  (has_tag(us, e, m) <=> has_tag(ts, e, m)) /\ get_tag(us, e, m) = get_tag(ts, e, m)
    <2>1. us[e] = ts[e]
      BY <1>3, <1>9
    <2> QED BY <2>1, SameSequence
  <1>10. ASSUME NEW m \in Names, m # name
         PROVE  /\ has_tag(us, d, m) <=> has_tag(ts, d, m)
                /\ has_tag(us, d, m) => get_tag(us, d, m) = get_tag(ts, d, m)
    <2>1. ASSUME has_tag(us, d, m)
          PROVE  has_tag(ts, d, m) /\ get_tag(us, d, m) = get_tag(ts, d, m)
      <3>1. PICK i \in 1..Len(u) : u[i].name = m
        BY <1>5, <2>1 DEF has_tag, u
      <3>2. i \in 1..n /\ u[i] = s[i]
        BY <1>5, <1>10, <3>1
      <3>3. get_tag(us, d, m) = u[i]
        BY <1>7, <3>1, FoundByName DEF u
      <3>4. has_tag(ts, d, m) /\ get_tag(ts, d, m) = s[i]
        BY <3>1, <3>2, FoundByName
      <3> QED BY <3>2, <3>3, <3>4
    <2>2. ASSUME has_tag(ts, d, m)
          PROVE  has_tag(us, d, m)
      <3>1. PICK i \in 1..n : s[i].name = m
        BY <1>1, <2>2 DEF has_tag
      <3>2. i \in 1..Len(u) /\ (i = k \/ u[i] = s[i])
        BY <1>5, <3>1
      <3>3. CASE i # k
        <4>1. u[i].name = m
          BY <3>1, <3>2, <3>3
        <4> QED BY <1>5, <3>2, <4>1 DEF has_tag, u
      <3>4. CASE i = k
        \* Only a tag of its own name has been replaced.
        BY <1>5, <1>10, <3>1, <3>4
      <3> QED BY <3>3, <3>4
    <2> QED BY <2>1, <2>2
  <1> QED BY <1>7, <1>8, <1>9, <1>10, Zenon DEF With, us

-----------------------------------------------------------------------------
(* add_tag: a caller's coordinates and metric take the measures away *)

\* The measures of the coordinates or of the metric.
Affected(d, name) == IF d = VERT THEN {m \in Measures : name \in Needs(m)} ELSE {}

LEMMA MeasureFacts ==
  ASSUME NEW m \in Measures
  PROVE  /\ m[1] \in Dims /\ m[1] # VERT /\ m[2] \in {"length", "quality", "size"}
         /\ m[2] \in Names /\ m = <<m[1], m[2]>>
         /\ Needs(m) \subseteq Inputs /\ Inputs \subseteq Names /\ "coordinates" \in Needs(m)
         /\ m[2] # "size" => Needs(m) = Inputs
  <1>1. m = <<EDGE, "length">> \/ m = <<Dim, "quality">> \/ m = <<Dim, "size">>
    BY DEF Measures
  <1> QED BY <1>1, DimFacts DEF Needs, Inputs, Names

LEMMA AffectedFacts ==
  /\ Affected(VERT, "coordinates") = {<<EDGE, "length">>, <<Dim, "quality">>} \cup {<<Dim, "size">>}
  /\ Affected(VERT, "metric") = {<<EDGE, "length">>, <<Dim, "quality">>}
  /\ \A d, name : d # VERT \/ name \notin Inputs => Affected(d, name) = {}
  BY DEF Affected, Measures, Needs, Inputs

LEMMA WithoutTwice ==
  ASSUME NEW ts, NEW us, NEW ws, NEW g, NEW h, Without(us, ts, g), Without(ws, us, h)
  PROVE  Without(ws, ts, g \cup h)
  BY Zenon DEF Without

LEMMA ReactFacts ==
  ASSUME NEW ts, TagsOK(ts), NEW d \in Dims, NEW name \in Names
  PROVE  Without(react_to_set_tag(ts, d, name), ts, Affected(d, name))
  <1> DEFINE us == remove_tag(ts, EDGE, "length")
             ws == remove_tag(us, Dim, "quality")
             xs == remove_tag(ws, Dim, "size")
  <1>0. "length" \in Names /\ "quality" \in Names /\ "size" \in Names
    BY DEF Names
  <1>1. Without(us, ts, {<<EDGE, "length">>})
    BY <1>0, DimFacts, RemoveFacts
  <1> HIDE DEF us
  <1>2. Without(ws, us, {<<Dim, "quality">>})
    BY <1>0, <1>1, DimFacts, RemoveFacts DEF Without
  <1>3. Without(ws, ts, {<<EDGE, "length">>} \cup {<<Dim, "quality">>})
    BY <1>1, <1>2, WithoutTwice
  <1> HIDE DEF ws
  <1>4. Without(xs, ws, {<<Dim, "size">>})
    BY <1>0, <1>2, DimFacts, RemoveFacts DEF Without
  <1> HIDE DEF xs
  <1>5. Without(xs, ts, ({<<EDGE, "length">>} \cup {<<Dim, "quality">>}) \cup {<<Dim, "size">>})
    BY <1>3, <1>4, WithoutTwice
  <1>6. {<<EDGE, "length">>} \cup {<<Dim, "quality">>} = {<<EDGE, "length">>, <<Dim, "quality">>}
    OBVIOUS
  <1>7. CASE d = VERT /\ name = "coordinates"
    <2>1. react_to_set_tag(ts, d, name) = xs
      BY <1>7 DEF react_to_set_tag, us, ws, xs
    <2> QED BY <1>5, <1>6, <1>7, <2>1, AffectedFacts
  <1>8. CASE d = VERT /\ name = "metric"
    <2>1. react_to_set_tag(ts, d, name) = ws
      BY <1>8 DEF react_to_set_tag, us, ws
    <2> QED BY <1>3, <1>6, <1>8, <2>1, AffectedFacts
  <1>9. CASE d # VERT \/ name \notin Inputs
    <2>1. react_to_set_tag(ts, d, name) = ts
      BY <1>9 DEF react_to_set_tag, Inputs
    <2>2. Affected(d, name) = {}
      BY <1>9, AffectedFacts
    <2> QED BY <2>1, <2>2 DEF Without
  <1> QED BY <1>7, <1>8, <1>9 DEF Inputs

\* us has the tag, and for the rest the tags of ts but those that are gone.
Added(us, ts, d, tag, gone) ==
  /\ TagsOK(us)
  /\ has_tag(us, d, tag.name) /\ get_tag(us, d, tag.name) = tag
  /\ \A e \in Dims, m \in Names : e # d \/ m # tag.name =>
       /\ has_tag(us, e, m) <=> has_tag(ts, e, m) /\ <<e, m>> \notin gone
       /\ has_tag(us, e, m) => get_tag(us, e, m) = get_tag(ts, e, m)

LEMMA AddFacts ==
  ASSUME NEW ts, TagsOK(ts), NEW d \in Dims, NEW tag \in TagRecord, NEW internal \in BOOLEAN
  PROVE  Added(add_tag(ts, d, tag, internal), ts, d, tag,
               IF internal THEN {} ELSE Affected(d, tag.name))
  <1> DEFINE us == put_tag(ts, d, tag)
             name == tag.name
  <1>1. With(us, ts, d, tag)
    BY PutFacts
  <1>2. name \in Names
    BY DEF TagRecord
  <1> HIDE DEF us
  <1>3. CASE internal
    <2>1. add_tag(ts, d, tag, internal) = us
      BY <1>3 DEF add_tag, us
    <2>2. Added(us, ts, d, tag, {})
      BY <1>1, Zenon DEF Added, With
    <2> QED BY <1>3, <2>1, <2>2
  <1>4. CASE ~internal
    <2> DEFINE ws == react_to_set_tag(us, d, name)
               gone == Affected(d, name)
    <2>1. add_tag(ts, d, tag, internal) = ws
      BY <1>4 DEF add_tag, us
    <2>2. Without(ws, us, gone)
      BY <1>1, <1>2, ReactFacts DEF With
    <2>3. <<d, name>> \notin gone
      BY MeasureFacts DEF Affected
    <2> HIDE DEF ws, gone
    <2>4. TagsOK(ws) /\ has_tag(ws, d, name) /\ get_tag(ws, d, name) = tag
      BY <1>1, <1>2, <2>2, <2>3, Zenon DEF Without, With
    <2>5. \A e \in Dims, m \in Names : e # d \/ m # name =>
            /\ has_tag(ws, e, m) <=> has_tag(ts, e, m) /\ <<e, m>> \notin gone
            /\ has_tag(ws, e, m) => get_tag(ws, e, m) = get_tag(ts, e, m)
      BY <1>1, <2>2, Zenon DEF Without, With
    <2>6. Added(ws, ts, d, tag, gone)
      BY <2>4, <2>5, Zenon DEF Added
    <2> QED BY <1>4, <2>1, <2>6 DEF gone
  <1> QED BY <1>3, <1>4

-----------------------------------------------------------------------------
(* The control point tags of one dimension *)

CtrlNames == {"bezier_pts", "n_bezier_pts"}

CtrlAt(ts, d, order) ==
  LET n == n_internal_ctrlPts(d, order) IN
  /\ has_tag(ts, d, "bezier_pts") <=> n > 0
  /\ has_tag(ts, d, "n_bezier_pts") <=> n > 0
  /\ n > 0 => /\ get_tag(ts, d, "bezier_pts").ncomps = n * Dim
              /\ get_array(ts, d, "n_bezier_pts") = <<n>>

Clear(ts, d) == ~has_tag(ts, d, "bezier_pts") /\ ~has_tag(ts, d, "n_bezier_pts")

Same(us, ts, e, m) ==
  /\ has_tag(us, e, m) <=> has_tag(ts, e, m)
  /\ has_tag(us, e, m) => get_tag(us, e, m) = get_tag(ts, e, m)

\* Nothing but the control point tags of dimension d differs.
SameElsewhere(us, ts, d) ==
  /\ TagsOK(us)
  /\ \A e \in Dims, m \in Names : e # d \/ m \notin CtrlNames => Same(us, ts, e, m)

LEMMA CountFacts ==
  ASSUME NEW d \in 1..3, NEW order \in Nat
  PROVE  n_internal_ctrlPts(d, order) \in Int
  <1> DEFINE a == order - 1
             b == order - 2
             c == order - 3
  <1>1. a \in Int /\ b \in Int /\ c \in Int
    OBVIOUS
  <1> HIDE DEF a, b, c
  <1>2. a * b \in Int
    BY <1>1
  <1>3. a * b * c \in Int
    BY <1>1, <1>2
  <1>4. (a * b) \div 2 \in Int
    BY <1>2
  <1>5. (a * b * c) \div 6 \in Int
    BY <1>3
  <1> QED BY <1>1, <1>4, <1>5 DEF n_internal_ctrlPts, a, b, c

LEMMA CtrlCarried ==
  ASSUME NEW ts, NEW us, NEW d \in Dims, NEW order, \A m \in CtrlNames : Same(us, ts, d, m)
  PROVE  /\ CtrlAt(us, d, order) <=> CtrlAt(ts, d, order)
         /\ Clear(us, d) <=> Clear(ts, d)
  <1> DEFINE n == n_internal_ctrlPts(d, order)
             many == n > 0
  <1>1. Same(us, ts, d, "bezier_pts") /\ Same(us, ts, d, "n_bezier_pts")
    BY DEF CtrlNames
  <1> HIDE DEF n
  <1>2. \A ws : CtrlAt(ws, d, order) <=>
          /\ has_tag(ws, d, "bezier_pts") <=> many
          /\ has_tag(ws, d, "n_bezier_pts") <=> many
          /\ many => /\ get_tag(ws, d, "bezier_pts").ncomps = n * Dim
                     /\ get_tag(ws, d, "n_bezier_pts").array = <<n>>
    BY DEF CtrlAt, n, get_array
  <1> HIDE DEF many
  <1> QED BY <1>1, <1>2, Zenon DEF Same, Clear

LEMMA RemoveCtrlFacts ==
  ASSUME NEW ts, TagsOK(ts), NEW d \in 1..3, NEW order \in Nat,
         d <= Dim => CtrlAt(ts, d, order)
  PROVE  /\ SameElsewhere(remove_ctrlPts(ts, d, order), ts, d)
         /\ d <= Dim => Clear(remove_ctrlPts(ts, d, order), d)
  <1> DEFINE us == remove_tag(ts, d, "bezier_pts")
             ws == remove_tag(us, d, "n_bezier_pts")
             n == n_internal_ctrlPts(d, order)
             many == n > 0
  <1>0. "bezier_pts" \in Names /\ "n_bezier_pts" \in Names
    BY DEF Names
  <1>1. CASE ~(d <= Dim /\ many)
    <2>1. remove_ctrlPts(ts, d, order) = ts
      BY <1>1 DEF remove_ctrlPts
    <2>2. SameElsewhere(ts, ts, d)
      BY Zenon DEF SameElsewhere, Same
    <2>3. d <= Dim => Clear(ts, d)
      BY <1>1 DEF CtrlAt, Clear
    <2> QED BY <2>1, <2>2, <2>3
  <1>2. CASE d <= Dim /\ many
    <2>1. d \in Dims
      BY <1>2, MeshAssumption DEF Dims
    <2>2. has_tag(ts, d, "bezier_pts") /\ has_tag(ts, d, "n_bezier_pts")
      BY <1>2 DEF CtrlAt
    <2>3. remove_ctrlPts(ts, d, order) = ws
      BY <1>2, <2>2 DEF remove_ctrlPts
    <2>4. Without(us, ts, {<<d, "bezier_pts">>})
      BY <1>0, <2>1, RemoveFacts
    <2> HIDE DEF us
    <2>5. Without(ws, us, {<<d, "n_bezier_pts">>})
      BY <1>0, <2>1, <2>4, RemoveFacts DEF Without
    <2>6. Without(ws, ts, {<<d, "bezier_pts">>} \cup {<<d, "n_bezier_pts">>})
      BY <2>4, <2>5, WithoutTwice
    <2> HIDE DEF ws
    <2>7. Clear(ws, d)
      BY <1>0, <2>1, <2>6 DEF Without, Clear
    <2>8. \A e \in Dims, m \in Names : e # d \/ m \notin CtrlNames => Same(ws, ts, e, m)
      <3>1. \A e, m : e # d \/ m \notin CtrlNames =>
              <<e, m>> \notin {<<d, "bezier_pts">>} \cup {<<d, "n_bezier_pts">>}
        BY DEF CtrlNames
      <3> QED BY <2>6, <3>1, Zenon DEF Without, Same
    <2> QED BY <2>3, <2>6, <2>7, <2>8 DEF SameElsewhere, Without
  <1> QED BY <1>1, <1>2

LEMMA AddCtrlFacts ==
  ASSUME NEW ts, TagsOK(ts), NEW d \in 1..3, NEW order \in Nat, d <= Dim => Clear(ts, d)
  PROVE  /\ SameElsewhere(add_ctrlPts(ts, d, order), ts, d)
         /\ d <= Dim => CtrlAt(add_ctrlPts(ts, d, order), d, order)
  <1> DEFINE n == n_internal_ctrlPts(d, order)
             many == n > 0
             pts == Tag("bezier_pts", n * Dim, <<>>)
             counts == Tag("n_bezier_pts", 1, <<n>>)
             us == add_tag(ts, d, pts, TRUE)
             ws == add_tag(us, d, counts, FALSE)
  <1>1. CASE ~(d <= Dim /\ many)
    <2>1. add_ctrlPts(ts, d, order) = ts
      BY <1>1 DEF add_ctrlPts
    <2>2. SameElsewhere(ts, ts, d)
      BY Zenon DEF SameElsewhere, Same
    <2>3. d <= Dim => CtrlAt(ts, d, order)
      BY <1>1 DEF CtrlAt, Clear
    <2> QED BY <2>1, <2>2, <2>3
  <1>2. CASE d <= Dim /\ many
    <2>1. d \in Dims /\ d # VERT
      BY <1>2, MeshAssumption DEF Dims, VERT
    <2>2. add_ctrlPts(ts, d, order) = ws
      BY <1>2 DEF add_ctrlPts
    <2>3. n \in Int
      BY CountFacts
    <2> HIDE DEF n
    <2>4. n * Dim \in Int
      BY <2>3, MeshAssumption
    <2>5. /\ pts.name = "bezier_pts" /\ pts.ncomps = n * Dim
          /\ counts.name = "n_bezier_pts" /\ counts.array = <<n>>
      BY DEF Tag
    <2>6. pts \in TagRecord /\ counts \in TagRecord
      BY <2>3, <2>4 DEF Tag, TagRecord, Names
    <2> HIDE DEF pts, counts
    <2>7. Added(us, ts, d, pts, {})
      BY <2>1, <2>6, AddFacts
    <2> HIDE DEF us
    <2>8. Affected(d, "n_bezier_pts") = {}
      BY <2>1 DEF Affected
    <2>9. Added(ws, us, d, counts, {})
      <3>1. TagsOK(us)
        BY <2>7 DEF Added
      <3>2. Added(ws, us, d, counts, IF FALSE THEN {} ELSE Affected(d, counts.name))
        BY <2>1, <2>6, <3>1, AddFacts
      <3> QED BY <2>5, <2>8, <3>2
    <2> HIDE DEF ws
    <2>10. /\ has_tag(ws, d, "n_bezier_pts") /\ get_tag(ws, d, "n_bezier_pts") = counts
           /\ has_tag(ws, d, "bezier_pts") /\ get_tag(ws, d, "bezier_pts") = pts
      <3>1. "bezier_pts" \in Names /\ "bezier_pts" # "n_bezier_pts"
        BY DEF Names
      <3>2. <<d, "bezier_pts">> \notin {}
        OBVIOUS
      <3> QED BY <2>1, <2>5, <2>7, <2>9, <3>1, <3>2, Zenon DEF Added
    <2>11. CtrlAt(ws, d, order)
      BY <1>2, <2>5, <2>10 DEF CtrlAt, n, get_array
    <2>12. \A e \in Dims, m \in Names : e # d \/ m \notin CtrlNames => Same(ws, ts, e, m)
      <3>1. \A m : m \notin CtrlNames => m # "bezier_pts" /\ m # "n_bezier_pts"
        BY DEF CtrlNames
      <3>2. \A x : x \notin {}
        OBVIOUS
      <3> QED BY <2>5, <2>7, <2>9, <3>1, <3>2, Zenon DEF Added, Same
    <2> QED BY <2>2, <2>9, <2>11, <2>12 DEF SameElsewhere, Added
  <1> QED BY <1>1, <1>2

\* change_max_order, one dimension after the other.
LEMMA OrderFacts ==
  ASSUME NEW ts, TagsOK(ts), NEW old \in Nat, NEW order \in Nat,
         \A d \in 1..Dim : CtrlAt(ts, d, old)
  PROVE  LET us == add_tags_for_ctrlPts(remove_tags_for_ctrlPts(ts, old), order)
         IN  /\ TagsOK(us)
             /\ \A d \in 1..Dim : CtrlAt(us, d, order)
             /\ \A e \in Dims, m \in Names \ CtrlNames : Same(us, ts, e, m)
  <1>0. CtrlNames \subseteq Names /\ 1..Dim \subseteq 1..3 /\ 1..Dim \subseteq Dims
    BY MeshAssumption DEF CtrlNames, Names, Dims
  <1>1. \A d \in 1..3 : d <= Dim => d \in 1..Dim
    BY MeshAssumption
  \* What happens in dimension d leaves the others alone.
  <1>2. ASSUME NEW x, NEW y, NEW d \in 1..3, SameElsewhere(x, y, d), NEW e \in 1..3, e # d, NEW o
        PROVE  e <= Dim => /\ CtrlAt(x, e, o) <=> CtrlAt(y, e, o)
                           /\ Clear(x, e) <=> Clear(y, e)
    <2>1. ASSUME e <= Dim PROVE e \in Dims /\ \A m \in CtrlNames : Same(x, y, e, m)
      BY <1>0, <1>1, <1>2, <2>1, Zenon DEF SameElsewhere
    <2> QED BY <2>1, CtrlCarried
  <1> DEFINE t1 == remove_ctrlPts(ts, 1, old)
             t2 == remove_ctrlPts(t1, 2, old)
             t3 == remove_ctrlPts(t2, 3, old)
             u1 == add_ctrlPts(t3, 1, order)
             u2 == add_ctrlPts(u1, 2, order)
             u3 == add_ctrlPts(u2, 3, order)
  <1>3. add_tags_for_ctrlPts(remove_tags_for_ctrlPts(ts, old), order) = u3
    BY DEF add_tags_for_ctrlPts, remove_tags_for_ctrlPts
  <1>4. /\ 1 \in 1..3 /\ 2 \in 1..3 /\ 3 \in 1..3 /\ 1 # 2 /\ 1 # 3 /\ 2 # 3
    OBVIOUS
  <1>5. SameElsewhere(t1, ts, 1) /\ (1 <= Dim => Clear(t1, 1))
    BY <1>1, <1>4, RemoveCtrlFacts
  <1> HIDE DEF t1
  <1>6. (2 <= Dim => CtrlAt(t1, 2, old)) /\ (3 <= Dim => CtrlAt(t1, 3, old))
    BY <1>1, <1>2, <1>4, <1>5
  <1>7. SameElsewhere(t2, t1, 2) /\ (2 <= Dim => Clear(t2, 2))
    BY <1>4, <1>5, <1>6, RemoveCtrlFacts DEF SameElsewhere
  <1> HIDE DEF t2
  <1>8. (1 <= Dim => Clear(t2, 1)) /\ (3 <= Dim => CtrlAt(t2, 3, old))
    BY <1>2, <1>4, <1>5, <1>6, <1>7
  <1>9. SameElsewhere(t3, t2, 3) /\ (3 <= Dim => Clear(t3, 3))
    BY <1>4, <1>7, <1>8, RemoveCtrlFacts DEF SameElsewhere
  <1> HIDE DEF t3
  <1>10. (1 <= Dim => Clear(t3, 1)) /\ (2 <= Dim => Clear(t3, 2))
    BY <1>2, <1>4, <1>7, <1>8, <1>9
  <1>11. SameElsewhere(u1, t3, 1) /\ (1 <= Dim => CtrlAt(u1, 1, order))
    BY <1>4, <1>9, <1>10, AddCtrlFacts DEF SameElsewhere
  <1> HIDE DEF u1
  <1>12. (2 <= Dim => Clear(u1, 2)) /\ (3 <= Dim => Clear(u1, 3))
    BY <1>2, <1>4, <1>9, <1>10, <1>11
  <1>13. SameElsewhere(u2, u1, 2) /\ (2 <= Dim => CtrlAt(u2, 2, order))
    BY <1>4, <1>11, <1>12, AddCtrlFacts DEF SameElsewhere
  <1> HIDE DEF u2
  <1>14. (1 <= Dim => CtrlAt(u2, 1, order)) /\ (3 <= Dim => Clear(u2, 3))
    BY <1>2, <1>4, <1>11, <1>12, <1>13
  <1>15. SameElsewhere(u3, u2, 3) /\ (3 <= Dim => CtrlAt(u3, 3, order))
    BY <1>4, <1>13, <1>14, AddCtrlFacts DEF SameElsewhere
  <1> HIDE DEF u3
  <1>16. (1 <= Dim => CtrlAt(u3, 1, order)) /\ (2 <= Dim => CtrlAt(u3, 2, order))
    BY <1>2, <1>4, <1>13, <1>14, <1>15
  <1>17. \A d \in 1..Dim : CtrlAt(u3, d, order)
    <2>1. \A d \in 1..Dim : (d = 1 \/ d = 2 \/ d = 3) /\ d <= Dim
      BY MeshAssumption
    <2> QED BY <1>15, <1>16, <2>1
  <1>18. ASSUME NEW e \in Dims, NEW m \in Names \ CtrlNames PROVE Same(u3, ts, e, m)
    <2>1. /\ Same(t1, ts, e, m) /\ Same(t2, t1, e, m) /\ Same(t3, t2, e, m)
          /\ Same(u1, t3, e, m) /\ Same(u2, u1, e, m) /\ Same(u3, u2, e, m)
      BY <1>5, <1>7, <1>9, <1>11, <1>13, <1>15, <1>18, Zenon DEF SameElsewhere
    <2>2. Same(t3, ts, e, m)
      BY <2>1, Zenon DEF Same
    <2>3. Same(u3, t3, e, m)
      BY <2>1, Zenon DEF Same
    <2> QED BY <2>2, <2>3, Zenon DEF Same
  <1>19. TagsOK(u3)
    BY <1>15 DEF SameElsewhere
  <1> QED BY <1>3, <1>17, <1>18, <1>19

-----------------------------------------------------------------------------
(* One measure *)

FreshIn(ts, m) ==
  /\ has_tag(ts, m[1], m[2])
  /\ \A n \in Needs(m) : has_tag(ts, VERT, n) /\ get_array(ts, VERT, n) # <<>>
  => get_array(ts, m[1], m[2]) = measured(ts, m[2])

LEMMA FreshCarried ==
  ASSUME NEW ts, NEW us, NEW m \in Measures, FreshIn(ts, m),
         has_tag(us, m[1], m[2]) => Same(us, ts, m[1], m[2]),
         \A n \in Needs(m) : has_tag(us, VERT, n) /\ get_array(us, VERT, n) # <<>>
                               => Same(us, ts, VERT, n)
  PROVE  FreshIn(us, m)
  <1> SUFFICES ASSUME has_tag(us, m[1], m[2]),
                      \A n \in Needs(m) : has_tag(us, VERT, n) /\ get_array(us, VERT, n) # <<>>
               PROVE  get_array(us, m[1], m[2]) = measured(us, m[2])
    BY DEF FreshIn
  <1>1. /\ has_tag(ts, m[1], m[2])
        /\ get_array(us, m[1], m[2]) = get_array(ts, m[1], m[2])
    BY Zenon DEF Same, get_array
  <1>2. \A n \in Needs(m) : /\ has_tag(ts, VERT, n)
                            /\ get_array(us, VERT, n) = get_array(ts, VERT, n)
    BY Zenon DEF Same, get_array
  <1>3. get_array(ts, m[1], m[2]) = measured(ts, m[2])
    BY <1>1, <1>2 DEF FreshIn
  <1>4. measured(us, m[2]) = measured(ts, m[2])
    <2>1. get_array(us, VERT, "coordinates") = get_array(ts, VERT, "coordinates")
      BY <1>2, MeasureFacts
    <2>2. m[2] # "size" => get_array(us, VERT, "metric") = get_array(ts, VERT, "metric")
      BY <1>2, MeasureFacts DEF Inputs
    <2> QED BY <2>1, <2>2 DEF measured
  <1> QED BY <1>1, <1>3, <1>4

\* A tag of the vertices: a caller's takes the measures away, an internal one leaves
\* them behind.
LEMMA InputAdded ==
  ASSUME NEW ts, TagsOK(ts), NEW tag \in TagRecord, tag.name \in Inputs, NEW internal \in BOOLEAN
  PROVE  LET us == add_tag(ts, VERT, tag, internal)
         IN  /\ TagsOK(us)
             /\ \A m \in Measures : internal => Same(us, ts, m[1], m[2])
             /\ \A d \in 1..Dim, m \in CtrlNames : Same(us, ts, d, m)
             /\ \A m \in Measures :
                  /\ FreshIn(ts, m)
                  /\ ~(internal /\ tag.name \in Needs(m) /\ tag.array # <<>>)
                  => FreshIn(us, m)
  <1> DEFINE us == add_tag(ts, VERT, tag, internal)
             gone == IF internal THEN {} ELSE Affected(VERT, tag.name)
  <1>1. Added(us, ts, VERT, tag, gone)
    BY DimFacts, AddFacts
  <1> HIDE DEF us
  <1>2. \A e \in Dims, m \in Names :
          /\ e # VERT \/ m # tag.name
          /\ <<e, m>> \notin gone
          => Same(us, ts, e, m)
    BY <1>1, Zenon DEF Added, Same
  <1>3. \A m \in Measures : m \notin gone => Same(us, ts, m[1], m[2])
    BY <1>2, MeasureFacts
  <1>4. \A m \in Measures : m \in gone => ~has_tag(us, m[1], m[2])
    <2>1. \A e \in Dims, m \in Names : e # VERT /\ <<e, m>> \in gone => ~has_tag(us, e, m)
      BY <1>1, Zenon DEF Added
    <2> QED BY <2>1, MeasureFacts
  <1>5. \A d \in 1..Dim, m \in CtrlNames : Same(us, ts, d, m)
    <2> SUFFICES ASSUME NEW d \in 1..Dim, NEW m \in CtrlNames PROVE Same(us, ts, d, m)
      OBVIOUS
    <2>1. <<d, m>> \notin gone
      BY DEF Affected, Measures, CtrlNames
    <2> QED BY <1>2, <2>1, DimFacts DEF CtrlNames, Names
  <1>6. ASSUME NEW m \in Measures, FreshIn(ts, m),
               ~(internal /\ tag.name \in Needs(m) /\ tag.array # <<>>)
        PROVE  FreshIn(us, m)
    <2>1. CASE m \in gone
      BY <1>4, <2>1 DEF FreshIn
    <2>2. CASE m \notin gone
      <3>1. \A n \in Needs(m) : n # tag.name => Same(us, ts, VERT, n)
        <4> SUFFICES ASSUME NEW n \in Needs(m), n # tag.name PROVE Same(us, ts, VERT, n)
          OBVIOUS
        <4>1. n \in Names /\ VERT \in Dims
          BY MeasureFacts, DimFacts
        <4>2. <<VERT, n>> \notin gone
          BY MeasureFacts DEF Affected
        <4> QED BY <1>2, <4>1, <4>2
      <3>2. CASE tag.name \notin Needs(m)
        BY <1>3, <1>6, <2>2, <3>1, <3>2, FreshCarried
      <3>3. CASE tag.name \in Needs(m)
        <4>1. internal
          BY <2>2, <3>3 DEF Affected
        <4>2. get_array(us, VERT, tag.name) = <<>>
          BY <1>1, <1>6, <3>3, <4>1 DEF Added, get_array
        <4> QED BY <3>3, <4>2 DEF FreshIn
      <3> QED BY <3>2, <3>3
    <2> QED BY <2>1, <2>2
  <1>7. ASSUME internal PROVE gone = {}
    BY <1>7
  <1>8. TagsOK(us)
    BY <1>1 DEF Added
  <1> HIDE DEF gone
  <1> QED BY <1>3, <1>5, <1>6, <1>7, <1>8 DEF us

\* A tag of other entities disturbs nothing but itself.
LEMMA OtherAdded ==
  ASSUME NEW ts, TagsOK(ts), NEW d \in 1..Dim, NEW tag \in TagRecord
  PROVE  LET us == add_tag(ts, d, tag, FALSE)
         IN  /\ TagsOK(us)
             /\ has_tag(us, d, tag.name) /\ get_tag(us, d, tag.name) = tag
             /\ \A e \in Dims, m \in Names : e # d \/ m # tag.name => Same(us, ts, e, m)
             /\ \A e \in Dims, m \in Names : has_tag(ts, e, m) => has_tag(us, e, m)
             /\ \A m \in Measures : FreshIn(ts, m) /\ m # <<d, tag.name>> => FreshIn(us, m)
  <1> DEFINE us == add_tag(ts, d, tag, FALSE)
  <1>1. Added(us, ts, d, tag, IF FALSE THEN {} ELSE Affected(d, tag.name))
    BY DimFacts, AddFacts
  <1>2. (IF FALSE THEN {} ELSE Affected(d, tag.name)) = {}
    BY DimFacts DEF Affected
  <1> HIDE DEF us
  <1>3. Added(us, ts, d, tag, {})
    BY <1>1, <1>2
  <1>4. /\ TagsOK(us) /\ has_tag(us, d, tag.name) /\ get_tag(us, d, tag.name) = tag
        /\ \A e \in Dims, m \in Names : e # d \/ m # tag.name => Same(us, ts, e, m)
    BY <1>3 DEF Added, Same
  <1>5. \A e \in Dims, m \in Names : has_tag(ts, e, m) => has_tag(us, e, m)
    BY <1>4, Zenon DEF Same
  <1>6. ASSUME NEW m \in Measures, FreshIn(ts, m), m # <<d, tag.name>> PROVE FreshIn(us, m)
    <2>1. Same(us, ts, m[1], m[2])
      BY <1>4, <1>6, MeasureFacts
    <2>2. \A n \in Needs(m) : Same(us, ts, VERT, n)
      BY <1>4, MeasureFacts, DimFacts
    <2> QED BY <1>6, <2>1, <2>2, FreshCarried
  <1> QED BY <1>4, <1>5, <1>6 DEF us

-----------------------------------------------------------------------------
(* The invariant.  What was not told of a change is a measure that is there: *)
(* a measure that comes back after it was removed is fresh again.            *)

\* Children are asked of parents that are there, no parents are newer than the last
\* array a caller made, and a mesh without children has lost none.
ChildrenKept ==
  /\ IF children = 0 THEN late = FALSE ELSE parents # 0
  /\ parents <= version /\ children <= version /\ 0 < version

IInv == TypeOK /\ MeasuresFresh /\ ChildrenMirrorParents /\ CtrlPtsOfOrder /\ ChildrenKept

\* The parts of IInv, on tags and what was not told.
Told(ts, u) ==
  /\ TagsOK(ts)
  /\ u \subseteq {m \in Measures : has_tag(ts, m[1], m[2])}
  /\ \A m \in Measures \ u : FreshIn(ts, m)

Kept(v, p, c, l) ==
  /\ v \in Nat /\ p \in Nat /\ c \in Nat /\ p <= v /\ c <= v /\ 0 < v
  /\ \/ c = 0 /\ l = FALSE
     \/ c # 0 /\ p # 0 /\ c = p /\ l = FALSE
     \/ c # 0 /\ p # 0 /\ c # p /\ l = TRUE

Rests(v, o, p, c, l, f) ==
  /\ o \in Nat \ {0} /\ f \in BOOLEAN
  /\ Kept(v, p, c, l)

\* An array that a caller makes is newer than all before it: what each operation
\* makes of the parents and the children.
LEMMA RestsAfter ==
  ASSUME NEW v, NEW o, NEW p, NEW c, NEW l, NEW f, Rests(v, o, p, c, l, f)
  PROVE  /\ v \in Nat /\ v + 1 \in Nat /\ o \in Nat \ {0} /\ f \in BOOLEAN
         /\ Rests(v, o, p, c, l, TRUE)
         /\ Rests(v + 1, o, p, c, l, f)
         /\ Rests(v + 1, o, v + 1, c, c # 0, f)
         /\ LET q == IF p = 0 THEN 1 ELSE p
            IN  Rests(v, o, q, IF c = 0 THEN q ELSE c, l, f)
         /\ Rests(v, o, p, 0, FALSE, f)
         /\ Rests(v + 1, o, v + 1, v + 1, FALSE, f)
  <1> DEFINE q == IF p = 0 THEN 1 ELSE p
  <1>1. Kept(v, p, c, l) /\ o \in Nat \ {0} /\ f \in BOOLEAN
    BY Zenon DEF Rests
  <1>2. /\ v \in Nat /\ v + 1 \in Nat
        /\ Kept(v + 1, p, c, l)
        /\ Kept(v + 1, v + 1, v + 1, FALSE)
        /\ Kept(v, p, 0, FALSE)
    BY <1>1 DEF Kept
  <1>3. Kept(v + 1, v + 1, c, c # 0)
    <2>1. CASE c = 0
      BY <1>1, <2>1 DEF Kept
    <2>2. CASE c # 0
      BY <1>1, <2>2 DEF Kept
    <2> QED BY <2>1, <2>2
  <1>4. Kept(v, q, IF c = 0 THEN q ELSE c, l)
    BY <1>1 DEF Kept
  <1>5. TRUE \in BOOLEAN
    OBVIOUS
  <1> HIDE DEF q
  <1>6. Rests(v, o, q, IF c = 0 THEN q ELSE c, l, f)
    BY <1>1, <1>4, Zenon DEF Rests
  <1>7. /\ Rests(v, o, p, c, l, TRUE)
        /\ Rests(v + 1, o, p, c, l, f)
        /\ Rests(v + 1, o, v + 1, c, c # 0, f)
        /\ Rests(v, o, p, 0, FALSE, f)
        /\ Rests(v + 1, o, v + 1, v + 1, FALSE, f)
    BY <1>1, <1>2, <1>3, <1>5, Zenon DEF Rests
  <1> QED BY <1>1, <1>2, <1>6, <1>7 DEF q

LEMMA KeptParts ==
  ASSUME NEW v, NEW p, NEW c, NEW l
  PROVE  Kept(v, p, c, l) <=> /\ v \in Nat /\ p \in Nat /\ c \in Nat /\ l \in BOOLEAN
                              /\ c # 0 => (c = p <=> ~l)
                              /\ IF c = 0 THEN l = FALSE ELSE p # 0
                              /\ p <= v /\ c <= v /\ 0 < v
  <1>1. CASE l = TRUE
    BY <1>1 DEF Kept
  <1>2. CASE l = FALSE
    BY <1>2 DEF Kept
  <1>3. CASE l \notin BOOLEAN
    BY <1>3, Zenon DEF Kept
  <1> QED BY <1>1, <1>2, <1>3

LEMMA Parts ==
  IInv <=> /\ Told(tags, untold)
           /\ Rests(version, max_order, parents, children, late, failed)
           /\ \A d \in 1..Dim : CtrlAt(tags, d, max_order)
  <1>1. Kept(version, parents, children, late) <=>
           /\ version \in Nat /\ parents \in Nat /\ children \in Nat /\ late \in BOOLEAN
           /\ ChildrenMirrorParents /\ ChildrenKept
    BY KeptParts, Zenon DEF ChildrenMirrorParents, ChildrenKept
  <1> QED BY <1>1, Zenon DEF IInv, TypeOK, MeasuresFresh, CtrlPtsOfOrder,
                             Told, Rests, CtrlAt, FreshIn, TagsOK

LEMMA PartsNext ==
  IInv' <=> /\ Told(tags', untold')
            /\ Rests(version', max_order', parents', children', late', failed')
            /\ \A d \in 1..Dim : CtrlAt(tags', d, max_order')
  <1>1. Kept(version', parents', children', late') <=>
           /\ version' \in Nat /\ parents' \in Nat /\ children' \in Nat /\ late' \in BOOLEAN
           /\ ChildrenMirrorParents' /\ ChildrenKept'
    BY KeptParts, Zenon DEF ChildrenMirrorParents, ChildrenKept
  <1> QED BY <1>1, Zenon DEF IInv, TypeOK, MeasuresFresh, CtrlPtsOfOrder,
                             Told, Rests, CtrlAt, FreshIn, TagsOK

LEMMA CtrlKept ==
  ASSUME \A d \in 1..Dim : CtrlAt(tags, d, max_order), max_order' = max_order,
         \A d \in 1..Dim, m \in CtrlNames : Same(tags', tags, d, m)
  PROVE  \A d \in 1..Dim : CtrlAt(tags', d, max_order')
  <1> SUFFICES ASSUME NEW d \in 1..Dim PROVE CtrlAt(tags', d, max_order)
    OBVIOUS
  <1>1. d \in Dims /\ \A m \in CtrlNames : Same(tags', tags, d, m)
    BY DimFacts
  <1> QED BY <1>1, CtrlCarried

LEMMA InitIInv == Init => IInv
  <1> SUFFICES ASSUME Init PROVE IInv
    OBVIOUS
  <1>1. \A d \in Dims : tags[d] = <<>>
    BY DEF Init
  <1>2. \A d \in Dims, m \in Names : ~has_tag(tags, d, m)
    BY <1>1 DEF has_tag
  <1>3. TagsOK(tags)
    BY <1>1, EmptySeq DEF TagsOK, UniqueNames, Init
  <1>4. \A m \in Measures : FreshIn(tags, m)
    BY <1>2, MeasureFacts DEF FreshIn
  <1>5. \A d \in 1..Dim : n_internal_ctrlPts(d, 1) = 0
    <2>1. \A d \in 1..3 : n_internal_ctrlPts(d, 1) = 0
      BY DEF n_internal_ctrlPts
    <2> QED BY <2>1, DimFacts
  <1>6. \A d \in 1..Dim : CtrlAt(tags, d, max_order)
    <2> SUFFICES ASSUME NEW d \in 1..Dim PROVE CtrlAt(tags, d, 1)
      BY DEF Init
    <2>1. ~has_tag(tags, d, "bezier_pts") /\ ~has_tag(tags, d, "n_bezier_pts")
      BY <1>2, DimFacts DEF Names
    <2> QED BY <1>5, <2>1 DEF CtrlAt
  <1>7. Told(tags, untold)
    BY <1>3, <1>4 DEF Told, Init
  <1>8. Rests(version, max_order, parents, children, late, failed)
    <2>1. version = 1 /\ max_order = 1 /\ parents = 0 /\ children = 0 /\ late = FALSE /\ failed = FALSE
      BY DEF Init
    <2>2. FALSE \in BOOLEAN /\ 1 \in Nat \ {0}
      OBVIOUS
    <2>3. Kept(1, 0, 0, FALSE)
      BY DEF Kept
    <2> QED BY <2>1, <2>2, <2>3, Zenon DEF Rests
  <1> QED BY <1>6, <1>7, <1>8, Parts

\* add_tag with an array: what the caller's call takes away is not there to be
\* stale, what an internal one leaves is untold.
LEMMA AddTagStep ==
  ASSUME IInv, NEW name \in Inputs, NEW internal \in BOOLEAN, AddTag(name, internal)
  PROVE  IInv'
  <1> DEFINE tag == Tag(name, 1, <<version'>>)
             us == add_tag(tags, VERT, tag, internal)
  <1>1. /\ Told(tags, untold) /\ version' \in Nat
        /\ Rests(version', max_order', parents', children', late', failed')
        /\ \A d \in 1..Dim : CtrlAt(tags, d, max_order)
    <2>1. Rests(version, max_order, parents, children, late, failed)
      BY Parts
    <2>2. /\ version' = version + 1 /\ max_order' = max_order /\ parents' = parents
          /\ children' = children /\ late' = late /\ failed' = failed
      BY DEF AddTag, Fresh, Rest
    <2>3. version + 1 \in Nat /\ Rests(version + 1, max_order, parents, children, late, failed)
      BY <2>1, RestsAfter
    <2> QED BY <2>2, <2>3, Parts
  <1>2. /\ tags' = us /\ max_order' = max_order
        /\ untold' = {m \in untold \cup {m \in Measures : internal /\ name \in Needs(m)} :
                        has_tag(tags', m[1], m[2])}
    BY DEF AddTag, Rest, Untold
  <1>3. tag \in TagRecord /\ tag.name = name
    BY <1>1 DEF AddTag, Fresh, Tag, TagRecord, Inputs, Names
  <1> HIDE DEF tag
  <1>4. TagsOK(tags)
    BY <1>1 DEF Told
  <1>5. /\ TagsOK(us)
        /\ \A d \in 1..Dim, m \in CtrlNames : Same(us, tags, d, m)
        /\ \A m \in Measures : /\ FreshIn(tags, m) /\ ~(internal /\ tag.name \in Needs(m) /\ tag.array # <<>>)
                               => FreshIn(us, m)
    BY <1>3, <1>4, InputAdded
  <1> HIDE DEF us
  <1>6. Told(tags', untold')
    <2>1. untold \subseteq Measures
      BY <1>1 DEF Told
    <2>2. untold' \subseteq {m \in Measures : has_tag(tags', m[1], m[2])}
      BY <1>2, <2>1
    <2>3. ASSUME NEW m \in Measures, m \notin untold' PROVE FreshIn(tags', m)
      <3>1. CASE ~has_tag(tags', m[1], m[2])
        BY <3>1 DEF FreshIn
      <3>2. CASE has_tag(tags', m[1], m[2])
        <4>1. m \notin untold /\ ~(internal /\ name \in Needs(m))
          BY <1>2, <2>3, <3>2
        <4> QED BY <1>1, <1>2, <1>3, <1>5, <4>1 DEF Told
      <3> QED BY <3>1, <3>2
    <2> QED BY <1>2, <1>5, <2>2, <2>3 DEF Told
  <1>7. \A d \in 1..Dim : CtrlAt(tags', d, max_order')
    BY <1>1, <1>2, <1>5, CtrlKept
  <1> QED BY <1>1, <1>6, <1>7, PartsNext

\* add_tag without an array: nothing reacts, but nothing can be measured either.
LEMMA AddTagOnlyStep ==
  ASSUME IInv, NEW name \in Inputs, AddTagOnly(name)
  PROVE  IInv'
  <1> DEFINE tag == Tag(name, 1, <<>>)
             us == add_tag(tags, VERT, tag, TRUE)
  <1>1. /\ Told(tags, untold)
        /\ Rests(version', max_order', parents', children', late', failed')
        /\ \A d \in 1..Dim : CtrlAt(tags, d, max_order)
    BY Parts DEF Rests, AddTagOnly, Rest
  <1>2. tags' = us /\ max_order' = max_order /\ untold' = untold
    BY DEF AddTagOnly, Rest
  <1>3. tag \in TagRecord /\ tag.name = name /\ tag.array = <<>>
    BY EmptySeq DEF Tag, TagRecord, Inputs, Names
  <1> HIDE DEF tag
  <1>4. TagsOK(tags)
    BY <1>1 DEF Told
  <1>5. /\ TagsOK(us)
        /\ \A m \in Measures : Same(us, tags, m[1], m[2])
        /\ \A d \in 1..Dim, m \in CtrlNames : Same(us, tags, d, m)
        /\ \A m \in Measures : FreshIn(tags, m) => FreshIn(us, m)
    BY <1>3, <1>4, InputAdded
  <1> HIDE DEF us
  <1>6. Told(tags', untold')
    <2>1. untold' \subseteq {m \in Measures : has_tag(tags', m[1], m[2])}
      BY <1>1, <1>2, <1>5 DEF Told, Same
    <2> QED BY <1>1, <1>2, <1>5, <2>1 DEF Told
  <1>7. \A d \in 1..Dim : CtrlAt(tags', d, max_order')
    BY <1>1, <1>2, <1>5, CtrlKept
  <1> QED BY <1>1, <1>6, <1>7, PartsNext

LEMMA SetTagStep ==
  ASSUME IInv, NEW name \in Inputs, NEW ncomps \in Int, SetTag(name, ncomps)
  PROVE  IInv'
  <1>1. /\ Told(tags, untold) /\ version \in Nat
        /\ Rests(version', max_order', parents', children', late', failed')
        /\ \A d \in 1..Dim : CtrlAt(tags, d, max_order)
        /\ max_order' = max_order
        /\ untold' = {m \in untold : has_tag(tags', m[1], m[2])}
    <2>1. /\ Told(tags, untold)
          /\ Rests(version, max_order, parents, children, late, failed)
          /\ \A d \in 1..Dim : CtrlAt(tags, d, max_order)
      BY Parts
    <2>2. /\ max_order' = max_order /\ parents' = parents /\ children' = children /\ late' = late
          /\ \/ version' = version + 1 /\ failed' = failed
             \/ version' = version /\ failed' = TRUE
      BY Zenon DEF SetTag, Fresh, Rest
    <2>4. /\ version \in Nat /\ version + 1 \in Nat
          /\ Rests(version + 1, max_order, parents, children, late, failed)
          /\ Rests(version, max_order, parents, children, late, TRUE)
      BY <2>1, RestsAfter
    <2>5. /\ version' \in Nat
          /\ Rests(version', max_order', parents', children', late', failed')
      BY <2>2, <2>4
    <2>3. /\ max_order' = max_order
          /\ untold' = {m \in untold : has_tag(tags', m[1], m[2])}
      BY DEF SetTag, Rest, Untold
    <2> QED BY <2>1, <2>3, <2>4, <2>5
  <1>4. TagsOK(tags) /\ untold \subseteq {m \in Measures : has_tag(tags, m[1], m[2])}
    BY <1>1 DEF Told
  <1>5. CASE tags' = tags
    <2>1. untold' = untold
      BY <1>1, <1>4, <1>5
    <2> QED BY <1>1, <1>5, <2>1, PartsNext
  <1>6. CASE /\ version' = version + 1
             /\ tags' = add_tag(tags, VERT, Tag(name, ncomps, <<version'>>), FALSE)
    <2> DEFINE tag == Tag(name, ncomps, <<version'>>)
               us == add_tag(tags, VERT, tag, FALSE)
    <2>1. tag \in TagRecord /\ tag.name = name
      BY <1>1, <1>6 DEF Tag, TagRecord, Inputs, Names
    <2>2. tags' = us
      BY <1>6
    <2> HIDE DEF tag
    <2>3. /\ TagsOK(us)
          /\ \A d \in 1..Dim, m \in CtrlNames : Same(us, tags, d, m)
          /\ \A m \in Measures : FreshIn(tags, m) => FreshIn(us, m)
      BY <1>4, <2>1, InputAdded
    <2> HIDE DEF us
    <2>4. Told(tags', untold')
      <3>1. untold' \subseteq {m \in Measures : has_tag(tags', m[1], m[2])}
        BY <1>1, <1>4
      <3>2. ASSUME NEW m \in Measures, m \notin untold' PROVE FreshIn(tags', m)
        <4>1. CASE m \in untold
          BY <1>1, <3>2, <4>1 DEF FreshIn
        <4>2. CASE m \notin untold
          BY <1>1, <2>2, <2>3, <4>2 DEF Told
        <4> QED BY <4>1, <4>2
      <3> QED BY <2>2, <2>3, <3>1, <3>2 DEF Told
    <2>5. \A d \in 1..Dim : CtrlAt(tags', d, max_order')
      BY <1>1, <2>2, <2>3, CtrlKept
    <2> QED BY <1>1, <2>4, <2>5, PartsNext
  <1> QED BY <1>5, <1>6 DEF SetTag, Fresh

\* remove_tag does not react either: a measure without its input is not one that
\* can be told to be stale.
LEMMA RemoveTagStep ==
  ASSUME IInv, NEW name \in Inputs, RemoveTag(name)
  PROVE  IInv'
  <1>1. /\ Told(tags, untold)
        /\ Rests(version', max_order', parents', children', late', failed')
        /\ \A d \in 1..Dim : CtrlAt(tags, d, max_order)
        /\ max_order' = max_order /\ untold' = untold
        /\ tags' = remove_tag(tags, VERT, name)
    BY Parts DEF Rests, RemoveTag, Rest
  <1>2. TagsOK(tags)
    BY <1>1 DEF Told
  <1>3. Without(tags', tags, {<<VERT, name>>})
    BY <1>1, <1>2, DimFacts, RemoveFacts DEF Inputs, Names
  <1>4. \A e \in Dims, m \in Names : e # VERT \/ m # name => Same(tags', tags, e, m)
    BY <1>3 DEF Without, Same
  <1>5. ~has_tag(tags', VERT, name)
    BY <1>3, DimFacts DEF Without, Inputs, Names
  <1>6. \A m \in Measures : Same(tags', tags, m[1], m[2])
    BY <1>4, MeasureFacts
  <1>7. Told(tags', untold')
    <2>1. untold' \subseteq {m \in Measures : has_tag(tags', m[1], m[2])}
      BY <1>1, <1>6 DEF Told, Same
    <2>2. ASSUME NEW m \in Measures, m \notin untold' PROVE FreshIn(tags', m)
      <3>1. \A n \in Needs(m) : n # name => Same(tags', tags, VERT, n)
        BY <1>4, MeasureFacts, DimFacts
      <3>2. \A n \in Needs(m) : has_tag(tags', VERT, n) => n # name
        BY <1>5
      <3>3. FreshIn(tags, m)
        BY <1>1, <2>2 DEF Told
      <3> QED BY <1>6, <3>1, <3>2, <3>3, FreshCarried
    <2> QED BY <1>3, <2>1, <2>2 DEF Told, Without
  <1>8. \A d \in 1..Dim, m \in CtrlNames : Same(tags', tags, d, m)
    BY <1>4, DimFacts DEF CtrlNames, Names
  <1>9. \A d \in 1..Dim : CtrlAt(tags', d, max_order')
    BY <1>1, <1>8, CtrlKept
  <1> QED BY <1>1, <1>7, <1>9, PartsNext

\* ask_lengths, ask_qualities and ask_sizes: the measure is made from what is there.
LEMMA AskStep ==
  ASSUME IInv, NEW k \in Measures, ask(k[1], k[2])
  PROVE  IInv'
  <1> DEFINE tag == Tag(k[2], 1, measured(tags, k[2]))
             us == add_tag(tags, k[1], tag, FALSE)
  <1>1. /\ Told(tags, untold)
        /\ Rests(version', max_order', parents', children', late', failed')
        /\ \A d \in 1..Dim : CtrlAt(tags, d, max_order)
        /\ max_order' = max_order /\ untold' = untold
        /\ tags' = us /\ ~has_tag(tags, k[1], k[2])
    BY Parts DEF Rests, ask, Rest
  <1>2. TagsOK(tags) /\ untold \subseteq {m \in Measures : has_tag(tags, m[1], m[2])}
    BY <1>1 DEF Told
  <1>3. k[1] \in 1..Dim /\ k[2] \in Names /\ k = <<k[1], k[2]>> /\ k[2] \notin Inputs
    <2>1. k = <<EDGE, "length">> \/ k = <<Dim, "quality">> \/ k = <<Dim, "size">>
      BY DEF Measures
    <2> QED BY <2>1, MeshAssumption DEF EDGE, Names, Inputs
  <1>4. k[2] \notin CtrlNames
    BY MeasureFacts DEF CtrlNames
  <1>5. tag \in TagRecord /\ tag.name = k[2] /\ tag.array = measured(tags, k[2])
    <2>1. \A n \in Needs(k) : get_array(tags, VERT, n) \in Seq(Int)
      <3> SUFFICES ASSUME NEW n \in Needs(k) PROVE get_array(tags, VERT, n) \in Seq(Int)
        OBVIOUS
      <3>1. has_tag(tags, VERT, n)
        BY <1>3 DEF ask
      <3>2. get_tag(tags, VERT, n) \in TagRecord
        BY <1>2, <3>1, IterFacts, DimFacts
      <3> QED BY <3>2 DEF get_array, TagRecord
    <2>2. measured(tags, k[2]) \in Seq(Int)
      <3>1. get_array(tags, VERT, "coordinates") \in Seq(Int)
        BY <2>1, MeasureFacts
      <3>2. CASE k[2] = "size"
        BY <3>1, <3>2 DEF measured
      <3>3. CASE k[2] # "size"
        <4>1. get_array(tags, VERT, "metric") \in Seq(Int)
          BY <2>1, <3>3, MeasureFacts DEF Inputs
        <4> QED BY <3>1, <3>3, <4>1, ConcatProperties DEF measured
      <3> QED BY <3>2, <3>3
    <2> QED BY <1>3, <2>2 DEF Tag, TagRecord
  <1> HIDE DEF tag
  <1>6. /\ TagsOK(us)
        /\ has_tag(us, k[1], k[2]) /\ get_tag(us, k[1], k[2]) = tag
        /\ \A e \in Dims, m \in Names : e # k[1] \/ m # k[2] => Same(us, tags, e, m)
        /\ \A e \in Dims, m \in Names : has_tag(tags, e, m) => has_tag(us, e, m)
        /\ \A m \in Measures : FreshIn(tags, m) /\ m # k => FreshIn(us, m)
    <2>1. LET name == tag.name
          IN  /\ TagsOK(us)
              /\ has_tag(us, k[1], name) /\ get_tag(us, k[1], name) = tag
              /\ \A e \in Dims, m \in Names : e # k[1] \/ m # name => Same(us, tags, e, m)
              /\ \A e \in Dims, m \in Names : has_tag(tags, e, m) => has_tag(us, e, m)
              /\ \A m \in Measures : FreshIn(tags, m) /\ m # <<k[1], name>> => FreshIn(us, m)
      BY <1>2, <1>3, <1>5, OtherAdded
    <2> HIDE DEF us
    <2> QED BY <1>3, <1>5, <2>1
  <1> HIDE DEF us
  <1>7. FreshIn(us, k)
    <2>1. ASSUME NEW n \in Inputs
          PROVE  Same(us, tags, VERT, n)
      <3>1. n \in Names /\ n # k[2] /\ VERT \in Dims
        BY <1>3, DimFacts DEF Inputs, Names
      <3> QED BY <1>6, <3>1
    <2>2. \A n \in Needs(k) : has_tag(tags, VERT, n)
      BY <1>3 DEF ask
    <2>3. ASSUME NEW n \in Needs(k) PROVE get_array(us, VERT, n) = get_array(tags, VERT, n)
      <3>1. Same(us, tags, VERT, n) /\ has_tag(tags, VERT, n)
        BY <2>1, <2>2, MeasureFacts
      <3> QED BY <3>1, Zenon DEF Same, get_array
    <2>4. measured(us, k[2]) = measured(tags, k[2])
      <3>1. get_array(us, VERT, "coordinates") = get_array(tags, VERT, "coordinates")
        BY <2>3, MeasureFacts
      <3>2. k[2] # "size" => get_array(us, VERT, "metric") = get_array(tags, VERT, "metric")
        BY <2>3, MeasureFacts DEF Inputs
      <3> QED BY <3>1, <3>2 DEF measured
    <2> QED BY <1>5, <1>6, <2>4 DEF FreshIn, get_array
  <1>8. Told(tags', untold')
    <2>1. untold' \subseteq {m \in Measures : has_tag(tags', m[1], m[2])}
      BY <1>1, <1>2, <1>6, MeasureFacts
    <2>2. ASSUME NEW m \in Measures, m \notin untold' PROVE FreshIn(tags', m)
      <3>1. FreshIn(tags, m)
        BY <1>1, <2>2 DEF Told
      <3> QED BY <1>1, <1>6, <1>7, <3>1
    <2> QED BY <1>1, <1>6, <2>1, <2>2 DEF Told
  <1>9. \A d \in 1..Dim, m \in CtrlNames : Same(tags', tags, d, m)
    <2>1. CtrlNames \subseteq Names
      BY DEF CtrlNames, Names
    <2> QED BY <1>1, <1>4, <1>6, <2>1, DimFacts
  <1>10. \A d \in 1..Dim : CtrlAt(tags', d, max_order')
    BY <1>1, <1>9, CtrlKept
  <1> QED BY <1>1, <1>8, <1>10, PartsNext

\* set_parents keeps the children, and ask_children inverts the parents that are
\* set or that it makes.
LEMMA ParentsStep ==
  ASSUME IInv, set_parents \/ ask_children
  PROVE  IInv'
  <1>1. /\ Told(tags, untold)
        /\ Rests(version, max_order, parents, children, late, failed)
        /\ \A d \in 1..Dim : CtrlAt(tags, d, max_order)
    BY Parts
  <1>2. tags' = tags /\ max_order' = max_order /\ failed' = failed /\ untold' = untold
    BY DEF set_parents, ask_children
  <1>3. CASE set_parents
    \* The new parents are newer than any that the children were inverted from.
    <2>1. /\ version' = version + 1 /\ parents' = version' /\ children' = children
          /\ late' = (children # 0)
      BY <1>3 DEF set_parents, Fresh
    <2>2. Rests(version', max_order', parents', children', late', failed')
      BY <1>1, <1>2, <2>1, RestsAfter
    <2> QED BY <1>1, <1>2, <2>2, PartsNext
  <1>4. CASE ask_children
    <2>1. /\ version' = version /\ late' = late
          /\ parents' = IF parents = 0 THEN 1 ELSE parents
          /\ children' = IF children = 0 THEN parents' ELSE children
      BY <1>4 DEF ask_children
    <2>2. Rests(version', max_order', parents', children', late', failed')
      <3>1. LET q == IF parents = 0 THEN 1 ELSE parents
            IN  Rests(version, max_order, q, IF children = 0 THEN q ELSE children, late, failed)
        BY <1>1, RestsAfter
      <3> QED BY <1>2, <2>1, <3>1
    <2> QED BY <1>1, <1>2, <2>2, PartsNext
  <1> QED BY <1>3, <1>4

\* unmap_mesh: the parents are the new mesh's own before it asks the children for
\* the leaf tag.
LEMMA UnmapStep ==
  ASSUME IInv, unmap_mesh
  PROVE  IInv'
  <1>1. /\ Told(tags, untold)
        /\ Rests(version, max_order, parents, children, late, failed)
        /\ \A d \in 1..Dim : CtrlAt(tags, d, max_order)
    BY Parts
  <1>2. max_order' = max_order /\ failed' = failed /\ untold' = untold /\ late' = FALSE
    BY DEF unmap_mesh
  <1>3. CASE tags' = tags /\ version' = version /\ parents' = parents /\ children' = 0
    <2>1. Rests(version', max_order', parents', children', late', failed')
      BY <1>1, <1>2, <1>3, RestsAfter
    <2> QED BY <1>1, <1>2, <1>3, <2>1, PartsNext
  <1>4. CASE /\ version' = version + 1 /\ parents' = version' /\ children' = version'
             /\ tags' = add_tag(tags, Dim, Tag("leaf", 1, <<version'>>), FALSE)
    <2> DEFINE tag == Tag("leaf", 1, <<version'>>)
               us == add_tag(tags, Dim, tag, FALSE)
    <2>1. tag \in TagRecord /\ tag.name = "leaf"
      BY <1>1, <1>4 DEF Rests, Tag, TagRecord, Names
    <2>2. Dim \in 1..Dim /\ TagsOK(tags) /\ tags' = us
      BY <1>1, <1>4, MeshAssumption DEF Told
    <2> HIDE DEF tag
    <2>3. /\ TagsOK(us)
          /\ \A e \in Dims, m \in Names : e # Dim \/ m # "leaf" => Same(us, tags, e, m)
          /\ \A e \in Dims, m \in Names : has_tag(tags, e, m) => has_tag(us, e, m)
          /\ \A m \in Measures : FreshIn(tags, m) /\ m # <<Dim, "leaf">> => FreshIn(us, m)
      BY <2>1, <2>2, OtherAdded
    <2> HIDE DEF us
    <2>4. \A m \in Measures : m # <<Dim, "leaf">> /\ m[1] \in Dims /\ m[2] \in Names
      BY MeasureFacts
    <2>5. Told(tags', untold')
      BY <1>1, <1>2, <2>2, <2>3, <2>4 DEF Told
    <2>6. \A d \in 1..Dim, m \in CtrlNames : Same(tags', tags, d, m)
      <3>1. \A m \in CtrlNames : m \in Names /\ m # "leaf"
        BY DEF CtrlNames, Names
      <3> QED BY <2>2, <2>3, <3>1, DimFacts
    <2>7. \A d \in 1..Dim : CtrlAt(tags', d, max_order')
      BY <1>1, <1>2, <2>6, CtrlKept
    <2>8. Rests(version', max_order', parents', children', late', failed')
      <3>1. Rests(version + 1, max_order, version + 1, version + 1, FALSE, failed)
        BY <1>1, RestsAfter
      <3> QED BY <1>2, <1>4, <3>1
    <2> QED BY <2>5, <2>7, <2>8, PartsNext
  <1> QED BY <1>3, <1>4 DEF unmap_mesh, Fresh, built_parents

\* change_max_order: what goes and what comes is where each order has inner points.
LEMMA OrderStep ==
  ASSUME IInv, NEW order \in 1..MaxOrder, change_max_order(order)
  PROVE  IInv'
  <1>1. /\ Told(tags, untold)
        /\ Rests(version, max_order, parents, children, late, failed)
        /\ \A d \in 1..Dim : CtrlAt(tags, d, max_order)
    BY Parts
  <1>2. /\ order \in Nat \ {0}
        /\ tags' = add_tags_for_ctrlPts(remove_tags_for_ctrlPts(tags, max_order), order)
        /\ max_order' = order /\ untold' = untold
        /\ version' = version /\ parents' = parents /\ children' = children /\ late' = late
        /\ failed' = failed
    BY MeshAssumption DEF change_max_order
  <1>3. /\ TagsOK(tags')
        /\ \A d \in 1..Dim : CtrlAt(tags', d, order)
        /\ \A e \in Dims, m \in Names \ CtrlNames : Same(tags', tags, e, m)
    <2>1. TagsOK(tags) /\ max_order \in Nat
      BY <1>1 DEF Told, Rests
    <2> QED BY <1>1, <1>2, <2>1, OrderFacts
  <1>4. Inputs \cap CtrlNames = {} /\ Inputs \subseteq Names
    BY DEF Inputs, CtrlNames, Names
  <1>5. \A m \in Measures : Same(tags', tags, m[1], m[2])
    <2>1. \A m \in Measures : m[1] \in Dims /\ m[2] \in Names \ CtrlNames
      BY MeasureFacts DEF CtrlNames
    <2> QED BY <1>3, <2>1
  <1>6. \A n \in Inputs : Same(tags', tags, VERT, n)
    BY <1>3, <1>4, DimFacts
  <1>7. Told(tags', untold')
    <2>1. untold' \subseteq {m \in Measures : has_tag(tags', m[1], m[2])}
      BY <1>1, <1>2, <1>5 DEF Told, Same
    <2>2. ASSUME NEW m \in Measures, m \notin untold' PROVE FreshIn(tags', m)
      <3>1. FreshIn(tags, m)
        BY <1>1, <1>2, <2>2 DEF Told
      <3>2. \A n \in Needs(m) : Same(tags', tags, VERT, n)
        BY <1>6, MeasureFacts
      <3> QED BY <1>5, <3>1, <3>2, FreshCarried
    <2> QED BY <1>3, <2>1, <2>2 DEF Told
  <1> QED BY <1>1, <1>2, <1>3, <1>7, PartsNext DEF Rests

LEMMA SetCtrlStep ==
  ASSUME IInv, NEW d \in 1..Dim, set_tag_for_ctrlPts(d)
  PROVE  IInv'
  <1> DEFINE n == n_internal_ctrlPts(d, max_order)
             tag == Tag("bezier_pts", n * Dim, <<version'>>)
             us == add_tag(tags, d, tag, FALSE)
  <1>1. /\ Told(tags, untold)
        /\ Rests(version, max_order, parents, children, late, failed)
        /\ \A e \in 1..Dim : CtrlAt(tags, e, max_order)
    BY Parts
  <1>2. /\ version' = version + 1 /\ tags' = us /\ has_tag(tags, d, "bezier_pts")
        /\ max_order' = max_order /\ untold' = untold
        /\ parents' = parents /\ children' = children /\ late' = late
        /\ failed' = failed
    BY DEF set_tag_for_ctrlPts, Fresh, Rest
  <1>3. n * Dim \in Int
    <2>1. n \in Int
      BY <1>1, DimFacts, CountFacts DEF Rests
    <2> HIDE DEF n
    <2> QED BY <2>1, MeshAssumption
  <1>4. tag \in TagRecord /\ tag.name = "bezier_pts" /\ tag.ncomps = n * Dim
    BY <1>1, <1>2, <1>3 DEF Rests, Tag, TagRecord, Names
  <1> HIDE DEF tag
  <1>5. TagsOK(tags)
    BY <1>1 DEF Told
  <1>6. /\ TagsOK(us)
        /\ has_tag(us, d, "bezier_pts") /\ get_tag(us, d, "bezier_pts") = tag
        /\ \A e \in Dims, m \in Names : e # d \/ m # "bezier_pts" => Same(us, tags, e, m)
        /\ \A e \in Dims, m \in Names : has_tag(tags, e, m) => has_tag(us, e, m)
        /\ \A m \in Measures : FreshIn(tags, m) /\ m # <<d, "bezier_pts">> => FreshIn(us, m)
    BY <1>4, <1>5, OtherAdded
  <1> HIDE DEF us
  <1>7. Told(tags', untold')
    <2>1. \A m \in Measures : m # <<d, "bezier_pts">> /\ m[1] \in Dims /\ m[2] \in Names
      BY MeasureFacts
    <2> QED BY <1>1, <1>2, <1>6, <2>1 DEF Told
  <1>8. CtrlAt(us, d, max_order)
    <2>1. Same(us, tags, d, "n_bezier_pts")
      BY <1>6, DimFacts DEF Names
    <2>2. n > 0 /\ has_tag(tags, d, "n_bezier_pts") /\ get_array(tags, d, "n_bezier_pts") = <<n>>
      BY <1>1, <1>2 DEF CtrlAt
    <2>3. has_tag(us, d, "n_bezier_pts") /\ get_array(us, d, "n_bezier_pts") = <<n>>
      BY <2>1, <2>2 DEF Same, get_array
    <2> QED BY <1>4, <1>6, <2>2, <2>3 DEF CtrlAt
  <1>9. ASSUME NEW e \in 1..Dim, e # d PROVE CtrlAt(us, e, max_order)
    <2>1. CtrlNames \subseteq Names /\ e \in Dims
      BY DimFacts DEF CtrlNames, Names
    <2>2. \A m \in CtrlNames : Same(us, tags, e, m)
      BY <1>6, <1>9, <2>1
    <2> QED BY <1>1, <2>1, <2>2, CtrlCarried
  <1>10. Rests(version', max_order', parents', children', late', failed')
    BY <1>1, <1>2, RestsAfter
  <1> QED BY <1>2, <1>7, <1>8, <1>9, <1>10, PartsNext

-----------------------------------------------------------------------------
LEMMA NextIInv == IInv /\ [Next]_vars => IInv'
  <1> SUFFICES ASSUME IInv, [Next]_vars PROVE IInv'
    OBVIOUS
  <1>1. CASE UNCHANGED vars
    BY <1>1, Parts, PartsNext DEF vars
  <1>2. ASSUME NEW name \in Inputs,
               \/ \E internal \in BOOLEAN : AddTag(name, internal)
               \/ AddTagOnly(name) \/ SetTag(name, 1) \/ RemoveTag(name)
        PROVE  IInv'
    BY <1>2, AddTagStep, AddTagOnlyStep, SetTagStep, RemoveTagStep
  <1>3. CASE AskLengths \/ AskQualities \/ AskSizes
    <2>1. PICK k \in Measures : ask(k[1], k[2])
      <3>1. CASE AskLengths
        BY <3>1 DEF AskLengths, Measures
      <3>2. CASE AskQualities
        BY <3>2 DEF AskQualities, Measures
      <3>3. CASE AskSizes
        BY <3>3 DEF AskSizes, Measures
      <3> QED BY <1>3, <3>1, <3>2, <3>3
    <2> QED BY <2>1, AskStep
  <1>4. CASE set_parents \/ ask_children
    BY <1>4, ParentsStep
  <1>5. CASE unmap_mesh
    BY <1>5, UnmapStep
  <1>6. CASE \E order \in 1..MaxOrder : change_max_order(order)
    BY <1>6, OrderStep
  <1>7. CASE \E d \in 1..Dim : set_tag_for_ctrlPts(d)
    BY <1>7, SetCtrlStep
  <1> QED BY <1>1, <1>2, <1>3, <1>4, <1>5, <1>6, <1>7 DEF Next

LEMMA IInvHolds == Spec => []IInv
  BY InitIInv, NextIInv, PTL DEF Spec

\* Every tag keeps its type, add_tag makes no second tag of a name in a dimension,
\* and what was not told of a change is a measure that is there.
THEOREM TypeCorrect == Spec => []TypeOK
  <1>1. IInv => TypeOK
    BY DEF IInv
  <1> QED BY IInvHolds, <1>1, PTL

\* Whatever order tags are added, set, removed and asked in (react_to_set_tag), a
\* measure the mesh holds is that of the coordinates and the metric it holds, but
\* for those an internal add_tag left behind: for meshes of any dimension and any
\* number of calls.
THEOREM MeasuresAreFresh == Spec => []MeasuresFresh
  <1>1. IInv => MeasuresFresh
    BY DEF IInv
  <1> QED BY IInvHolds, <1>1, PTL

\* The children that ask_children keeps are the inverse of the parents the mesh has
\* just when set_parents was not called after it, through any sequence of
\* set_parents, ask_children and unmap_mesh.
THEOREM ChildrenAreMirrored == Spec => []ChildrenMirrorParents
  <1>1. IInv => ChildrenMirrorParents
    BY DEF IInv
  <1> QED BY IInvHolds, <1>1, PTL

\* change_max_order leaves control point tags just where the order it came to has
\* inner points, with that many components, from whatever order it came.
THEOREM CtrlPtsFollowOrder == Spec => []CtrlPtsOfOrder
  <1>1. IInv => CtrlPtsOfOrder
    BY DEF IInv
  <1> QED BY IInvHolds, <1>1, PTL
=============================================================================
