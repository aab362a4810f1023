------------------------------ MODULE MeshFile ------------------------------
(***************************************************************************)
(* The .osh directories: every rank writes a stream with its part of the   *)
(* mesh, rank 0 also the files nparts and version; as many ranks or more   *)
(* read them again, each the stream with its number.                       *)
(*                                                                         *)
(* A stream is a sequence of items <<type, value>>; an item read with      *)
(* another type than it was written with is a misread of everything that   *)
(* follows.  Arrays are sequences; whether they are compressed and the     *)
(* order of bytes are left out.                                            *)
(***************************************************************************)
EXTENDS Integers, Sequences, SequencesExt, FiniteSets

CONSTANTS
  NRanks,     \* ranks of the world
  Jobs,       \* records [nwrite, nread, strict]: who writes and who reads
  Meshes,     \* sets of parts: a sequence of parts, one for each writing rank
  OldDirs     \* directories that may be there before, see NoDir

latest_version == 10
Ranks == 0..NRanks - 1

VARIABLES
  job,      \* what this program does, in Jobs
  parts,    \* the parts it writes
  dir,      \* the directory: [made, nparts, version, streams]
  pc,       \* where each rank is
  rd,       \* what each rank has read: see NewReader
  nparts,   \* <<>>, or what the last bcast of nparts and version gave
  before    \* what was in the directory at first

vars == <<job, parts, dir, pc, rd, nparts, before>>

-----------------------------------------------------------------------------
(* Items *)
Narrow(v) == ((v + 128) % 256) - 128
I8(v) == <<"I8", Narrow(v)>>
I32(v) == <<"I32", v>>
Real(v) == <<"Real", v>>
Str(v) == <<"string", v>>
Arr(v) == <<"array", v>>
Magic == <<"magic", 0>>
Bit(b) == IF b THEN 1 ELSE 0

\* write_meta; hints is <<>> for no hints or <<axes>>.
write_meta(m) ==
  <<I8(m.family), I8(m.dim), I32(m.size), I32(m.rank), I8(m.parting), I32(m.layers),
    I8(Bit(m.hints # <<>>))>>
  \o (IF m.hints = <<>> THEN <<>>
      ELSE <<I32(Len(m.hints[1]))>>
           \o [i \in 1..Len(m.hints[1]) |-> Real(m.hints[1][i])])

write_tag(t) ==
  <<Str(t.name), I8(t.ncomps), I8(t.type), Str("n_geom_ents"), I32(Len(t.class_ids))>>
  \o (IF t.class_ids = <<>> THEN <<>> ELSE <<Arr(t.class_ids)>>)
  \o <<Arr(t.array)>>

\* write_rc_tag: the form of the field over all entities, see RcFields.
write_tags(m, d) ==
  <<I32(Len(m.tags[d]) + Len(m.rcs[d]))>>
  \o FlattenSeq([i \in 1..Len(m.tags[d]) |-> write_tag(m.tags[d][i])])
  \o FlattenSeq([i \in 1..Len(m.rcs[d]) |-> write_tag(m.rcs[d][i])])
  \o (IF m.size > 1 THEN <<Arr(m.owners[d].ranks), Arr(m.owners[d].idxs)>> ELSE <<>>)

write_sets(m) ==
  <<I32(Len(m.sets))>>
  \o FlattenSeq([i \in 1..Len(m.sets) |->
       <<Str(m.sets[i].name), I32(Len(m.sets[i].pairs))>>
       \o FlattenSeq([j \in 1..Len(m.sets[i].pairs) |->
            <<I8(m.sets[i].pairs[j][1]), I32(m.sets[i].pairs[j][2])>>])])

\* ask_parents: dimensions nobody set parents of have none.
ask_parents(m, d) ==
  IF m.parents[d] # <<>> THEN m.parents[d]
  ELSE <<[i \in 1..m.nents[d] |-> -1], [i \in 1..m.nents[d] |-> 0]>>

Dims(m) == 1..m.dim + 1   \* arrays by dimension start at 1: dimension d at d + 1
has_any_parents(m) == \E d \in Dims(m) : m.parents[d] # <<>>

write_parents(m) ==
  <<I8(Bit(has_any_parents(m)))>>
  \o (IF has_any_parents(m)
      THEN FlattenSeq([d \in Dims(m) |-> <<Arr(ask_parents(m, d)[1]), Arr(ask_parents(m, d)[2])>>])
      ELSE <<>>)

\* write(stream, mesh)
write_stream(m) ==
  <<Magic, I8(0)>> \o write_meta(m) \o <<I32(m.nents[1])>>
  \o FlattenSeq([d \in 1..m.dim |->
       <<Arr(m.down[d].ab2b)>> \o (IF d > 1 THEN <<Arr(m.down[d].codes)>> ELSE <<>>)])
  \o FlattenSeq([d \in Dims(m) |-> write_tags(m, d)])
  \o write_sets(m) \o write_parents(m)

-----------------------------------------------------------------------------
(* The directory.  A stream is [closed, items]; until it is closed some or *)
(* none of it is there for others.                                         *)
NoDir == [made |-> FALSE, nparts |-> 0, version |-> 0, streams |-> <<>>]

Put(f, k, v) == [x \in DOMAIN f \cup {k} |-> IF x = k THEN v ELSE f[x]]

\* The names of the streams: "<rank>.osh", or "<rank>" before there was a
\* version file.
stream_name(rank, version) == <<rank, IF version # -1 THEN "osh" ELSE "">>

NewReader == [in |-> <<>>, version |-> 0, d |-> 0, left |-> 0,
              mesh |-> [family |-> 0, dim |-> -1, size |-> 0, rank |-> 0, parting |-> -1,
                        layers |-> -1, hints |-> <<>>, nents |-> <<>>, down |-> <<>>,
                        tags |-> <<>>, rcs |-> <<>>, owners |-> <<>>, sets |-> <<>>,
                        parents |-> <<>>, max_order |-> -1]]

InComm(n) == {r \in Ranks : r < n}

Init ==
  /\ job \in Jobs
  /\ parts \in {m \in Meshes : Len(m) = job.nwrite}
  /\ before \in OldDirs
  /\ dir = before
  /\ pc = [r \in Ranks |-> IF r < job.nwrite THEN "create"
                           ELSE IF r < job.nread THEN "ask" ELSE "end"]
  /\ rd = [r \in Ranks |-> NewReader]
  /\ nparts = <<>>

Goto(r, at) == pc' = [pc EXCEPT ![r] = at]

\* write(path, mesh): create_directory fails only where there can be none
CreateDirectory(r) ==
  /\ pc[r] = "create"
  /\ dir' = [dir EXCEPT !.made = TRUE]
  /\ Goto(r, "made")
  /\ UNCHANGED <<job, parts, rd, nparts, before>>

\* A barrier of the writing ranks: all are at it or past it.
CanOpen == \A q \in InComm(job.nwrite) : pc[q] # "create"

\* Faulty variant: the second barrier is one of all ranks.
CanReturn_world == job.nwrite = NRanks /\ \A q \in Ranks : pc[q] \notin {"create", "made", "open", "counts"}

\* The second barrier, of the same ranks.
CanReturn == \A q \in InComm(job.nwrite) : pc[q] \notin {"create", "made", "open", "counts"}

OpenStream(r) ==
  /\ pc[r] = "made" /\ CanOpen
  /\ dir.made
  /\ dir' = [dir EXCEPT !.streams =
               Put(@, stream_name(r, latest_version), [closed |-> FALSE, items |-> <<>>])]
  /\ Goto(r, "open")
  /\ UNCHANGED <<job, parts, rd, nparts, before>>

WriteStream(r) ==
  /\ pc[r] = "open"
  /\ dir' = [dir EXCEPT !.streams[stream_name(r, latest_version)].items = write_stream(parts[r + 1])]
  /\ Goto(r, "counts")
  /\ UNCHANGED <<job, parts, rd, nparts, before>>

\* write_nparts, write_version: rank 0 only, closed at once
WriteCounts(r) ==
  /\ pc[r] = "counts"
  /\ dir' = IF r = 0 THEN [dir EXCEPT !.nparts = job.nwrite, !.version = latest_version] ELSE dir
  /\ Goto(r, "written")
  /\ UNCHANGED <<job, parts, rd, nparts, before>>

\* Faulty variant: the stream is still open when write has returned.
ReturnFromWrite_open(r) ==
  /\ pc[r] = "written" /\ CanReturn
  /\ Goto(r, IF r < job.nread THEN "ask" ELSE "end")
  /\ UNCHANGED <<job, parts, dir, rd, nparts, before>>

\* The second barrier comes before the stream is closed, at the end of write.
ReturnFromWrite(r) ==
  /\ pc[r] = "written" /\ CanReturn
  /\ dir' = [dir EXCEPT !.streams[stream_name(r, latest_version)].closed = TRUE]
  /\ Goto(r, IF r < job.nread THEN "ask" ELSE "end")
  /\ UNCHANGED <<job, parts, rd, nparts, before>>

-----------------------------------------------------------------------------
(* read(path, comm, mesh, strict) *)

\* read_nparts and read_version on rank 0, with their broadcasts.  No nparts
\* file ends the program; no version file is version -1.
ReadCounts ==
  /\ pc[0] = "ask"
  /\ IF dir.nparts = 0
     THEN Goto(0, "refused") /\ UNCHANGED nparts
     ELSE nparts' = <<dir.nparts, dir.version>> /\ Goto(0, "counted")
  /\ UNCHANGED <<job, parts, dir, rd, before>>

GetCounts(r) ==
  /\ r # 0 /\ pc[r] = "ask" /\ nparts # <<>>
  /\ Goto(r, "counted")
  /\ UNCHANGED <<job, parts, dir, rd, nparts, before>>

Refuses == IF job.strict THEN nparts[1] # job.nread ELSE nparts[1] > job.nread

Decide(r) ==
  /\ pc[r] = "counted"
  /\ Goto(r, IF Refuses THEN "refused" ELSE IF r < nparts[1] THEN "in" ELSE "set_comm")
  /\ UNCHANGED <<job, parts, dir, rd, nparts, before>>

\* read_in_comm: the stream is named by the rank in the subcommunicator,
\* which has the ranks below nparts in their order.
OpenForRead(r) ==
  LET name == stream_name(r, nparts[2])
      stream == dir.streams[name]
  IN  /\ pc[r] = "in"
      /\ IF name \in DOMAIN dir.streams
         THEN /\ Goto(r, "head")
              /\ \E n \in (IF stream.closed THEN {Len(stream.items)} ELSE 0..Len(stream.items)) :
                   rd' = [rd EXCEPT ![r].in = SubSeq(stream.items, 1, n), ![r].version = nparts[2]]
         ELSE Goto(r, "failed") /\ UNCHANGED rd
      /\ UNCHANGED <<job, parts, dir, nparts, before>>

-----------------------------------------------------------------------------
(* read(stream, mesh, version), by sections.  A section is a step that     *)
(* takes items of the given types from the front of the stream.            *)
Fits(types, s) == Len(types) <= Len(s) /\ \A i \in 1..Len(types) : s[i][1] = types[i]
Values(n, s) == [i \in 1..n |-> s[i][2]]
Rest(n, s) == SubSeq(s, n + 1, Len(s))
Repeat(n, t) == [i \in 1..n |-> t]

\* One step of rank r's reader from section at: either its items do not fit, or
\* the step goes to next with reader new, or a check of it fails.
Section(r, at, types, ok, next, new) ==
  /\ pc[r] = at
  /\ IF ~Fits(types, rd[r].in) THEN Goto(r, "misread") /\ UNCHANGED rd
     ELSE IF ~ok THEN Goto(r, "failed") /\ UNCHANGED rd
     ELSE Goto(r, next) /\ rd' = [rd EXCEPT ![r] = new]
  /\ UNCHANGED <<job, parts, dir, nparts, before>>

ReadHead(r) ==
  LET s == rd[r].in
      own == rd[r].version = -1
      types == <<"magic">> \o (IF own THEN <<"I32">> ELSE <<>>) \o <<"I8">>
      version == IF own THEN s[2][2] ELSE rd[r].version
  IN  Section(r, "head", types, version \in 1..latest_version, "meta",
              [rd[r] EXCEPT !.in = Rest(Len(types), s), !.version = version])

\* read_meta; before version 3 the layers are the default of set_parting
meta_fields(v) ==
  (IF v >= 7 THEN <<"family">> ELSE <<>>) \o <<"dim", "size", "rank", "parting">>
  \o (IF v >= 3 THEN <<"layers">> ELSE <<>>) \o <<"have_hints">>

meta_type(f) == IF f \in {"size", "rank", "layers"} THEN "I32" ELSE "I8"

ReadMeta(r) ==
  LET s == rd[r].in
      v == rd[r].version
      fields == meta_fields(v)
      types == [i \in 1..Len(fields) |-> meta_type(fields[i])]
      Get(f) == s[CHOOSE i \in 1..Len(fields) : fields[i] = f][2]
      n == Len(fields)
      naxes == IF Get("have_hints") = 0 THEN 0 ELSE s[n + 1][2]
      hint_types == IF Get("have_hints") = 0 THEN <<>> ELSE <<"I32">> \o Repeat(naxes, "Real")
      all_types == types \o hint_types \o (IF v < 6 THEN <<"I8">> ELSE <<>>)
      m == [rd[r].mesh EXCEPT
              !.family = IF v >= 7 THEN Get("family") ELSE @,
              !.dim = Get("dim"), !.size = Get("size"), !.rank = Get("rank"),
              !.parting = Get("parting"),
              !.layers = IF v >= 3 THEN Get("layers") ELSE Bit(Get("parting") # 0),
              !.hints = IF Get("have_hints") = 0 THEN <<>>
                        ELSE <<Values(naxes, Rest(n + 1, s))>>]
  IN  Section(r, "meta", IF Fits(types, s) THEN all_types ELSE types,
              /\ Get("size") = nparts[1] /\ Get("rank") = r
              /\ Get("parting") \in 0..2,
              "ents", [rd[r] EXCEPT !.in = Rest(Len(all_types), s), !.mesh = m, !.d = 1])

\* element_degree(family, d, d - 1)
degree(family, d) == IF family = 0 THEN d + 1 ELSE 2 * d

\* set_verts, then set_ents for each dimension
ReadEnts(r) ==
  LET s == rd[r].in
      d == rd[r].d
      types == IF d = 1 THEN <<"I32">> ELSE IF d = 2 THEN <<"array">> ELSE <<"array", "array">>
      m == rd[r].mesh
      n == IF d = 1 THEN s[1][2] ELSE Len(s[1][2]) \div degree(m.family, d - 1)
      new == [m EXCEPT !.nents = Append(@, n),
                !.down = IF d = 1 THEN @
                         ELSE Append(@, [ab2b |-> s[1][2], codes |-> IF d = 2 THEN <<>> ELSE s[2][2]])]
  IN  Section(r, "ents", types, d = 1 \/ Len(s[1][2]) = n * degree(m.family, d - 1),
              IF d = m.dim + 1 THEN "ntags" ELSE "ents",
              [rd[r] EXCEPT !.in = Rest(Len(types), s), !.mesh = new,
                            !.d = IF d = m.dim + 1 THEN 1 ELSE d + 1])

AfterTags(m) == IF m.size > 1 THEN "owners" ELSE "next_dim"

ReadNTags(r) ==
  LET s == rd[r].in
  IN  Section(r, "ntags", <<"I32">>, TRUE,
              IF s[1][2] > 0 THEN "tag" ELSE AfterTags(rd[r].mesh),
              [rd[r] EXCEPT !.in = Rest(1, s), !.left = s[1][2], !.mesh.tags = Append(@, <<>>),
                            !.mesh.rcs = Append(@, <<>>)])

\* read_tag: the class ids are read and dropped, a name with _rc stays a tag
\* over all entities; n_bezier_pts of edges gives the order of the mesh
tag_fields(v) ==
  <<"string", "I8", "I8">> \o (IF v < 5 THEN <<"I8">> ELSE <<>>)
  \o (IF 2 <= v /\ v < 5 THEN <<"I8">> ELSE <<>>)
  \o (IF v > 9 THEN <<"string", "I32">> ELSE <<>>)

LocalMax(a) == IF a = <<>> THEN -128
               ELSE CHOOSE x \in ToSet(a) : \A y \in ToSet(a) : y <= x   \* get_max of I8

ReadTag(r) ==
  LET s == rd[r].in
      d == rd[r].d
      m == rd[r].mesh
      head == tag_fields(rd[r].version)
      n == Len(head)
      ids == IF rd[r].version > 9 /\ s[n][2] > 0 THEN <<"array">> ELSE <<>>
      types == head \o ids \o <<"array">>
      array == s[Len(types)][2]
      t == [name |-> s[1][2], ncomps |-> s[2][2], type |-> s[3][2],
            class_ids |-> <<>>, array |-> array]
      curves == t.name = "n_bezier_pts" /\ d = 2 /\ t.type = 0
  IN  Section(r, "tag", IF Fits(head, s) THEN types ELSE head,
              /\ rd[r].version > 9 => s[n - 1][2] = "n_geom_ents"
              /\ t.type \in {0, 2, 3, 5}
              /\ curves => LocalMax(array) + 1 >= 1
              /\ t.ncomps >= 0 /\ Len(array) = m.nents[d] * t.ncomps,
              IF rd[r].left > 1 THEN "tag" ELSE AfterTags(m),
              [rd[r] EXCEPT !.in = Rest(Len(types), s), !.left = @ - 1,
                 !.mesh.tags[d] = Append(@, t),
                 !.mesh.max_order = IF curves THEN LocalMax(array) + 1 ELSE @])

\* set_owners
ReadOwners(r) ==
  LET s == rd[r].in
      n == rd[r].mesh.nents[rd[r].d]
  IN  Section(r, "owners", <<"array", "array">>, Len(s[1][2]) = n /\ Len(s[2][2]) = n, "next_dim",
              [rd[r] EXCEPT !.in = Rest(2, s),
                            !.mesh.owners = Append(@, [ranks |-> s[1][2], idxs |-> s[2][2]])])

is_last(r) == rd[r].d = rd[r].mesh.dim + 1

NextDim(r) ==
  LET last == is_last(r)
      v == rd[r].version
  IN  Section(r, "next_dim", <<>>, TRUE,
              IF ~last THEN "ntags" ELSE IF v >= 8 THEN "nsets" ELSE "set_comm",
              [rd[r] EXCEPT !.d = @ + 1])

AfterSets(v) == IF v >= 9 THEN "parents" ELSE "set_comm"

ReadNSets(r) ==
  LET s == rd[r].in
  IN  Section(r, "nsets", <<"I32">>, TRUE,
              IF s[1][2] > 0 THEN "set" ELSE AfterSets(rd[r].version),
              [rd[r] EXCEPT !.in = Rest(1, s), !.left = s[1][2]])

\* One set; it comes into being with its first pair.
ReadSet(r) ==
  LET s == rd[r].in
      n == s[2][2]
      types == <<"string", "I32">> \o FlattenSeq(Repeat(n, <<"I8", "I32">>))
      pairs == [j \in 1..n |-> <<s[2 * j + 1][2], s[2 * j + 2][2]>>]
      head == <<"string", "I32">>
  IN  Section(r, "set", IF Fits(head, s) THEN types ELSE head, TRUE,
              IF rd[r].left > 1 THEN "set" ELSE AfterSets(rd[r].version),
              [rd[r] EXCEPT !.in = Rest(Len(types), s), !.left = @ - 1,
                 !.mesh.sets = IF n = 0 THEN @ ELSE Append(@, [name |-> s[1][2], pairs |-> pairs])])

ReadParents(r) ==
  LET s == rd[r].in
      m == rd[r].mesh
      types == <<"I8">> \o (IF Fits(<<"I8">>, s) /\ s[1][2] # 0
                            THEN Repeat(2 * (m.dim + 1), "array") ELSE <<>>)
  IN  Section(r, "parents", types, TRUE, "set_comm",
              [rd[r] EXCEPT !.in = Rest(Len(types), s),
                 !.mesh.parents = IF s[1][2] = 0 THEN [d \in Dims(m) |-> <<>>]
                                  ELSE [d \in Dims(m) |-> <<s[2 * d][2], s[2 * d + 1][2]>>]])

\* Not strict: set_comm(comm), a collective of all readers, see MeshComm.
SetComm(r) ==
  /\ pc[r] = "set_comm"
  /\ job.strict \/ \A q \in InComm(job.nread) : pc[q] \in {"set_comm", "end"}
  /\ Goto(r, "end")
  /\ UNCHANGED <<job, parts, dir, rd, nparts, before>>

Read(r) ==
  \/ GetCounts(r) \/ Decide(r) \/ OpenForRead(r) \/ ReadHead(r) \/ ReadMeta(r)
  \/ ReadEnts(r) \/ ReadNTags(r) \/ ReadTag(r) \/ ReadOwners(r) \/ NextDim(r)
  \/ ReadNSets(r) \/ ReadSet(r) \/ ReadParents(r) \/ SetComm(r)

Write(r) ==
  \/ CreateDirectory(r) \/ OpenStream(r) \/ WriteStream(r) \/ WriteCounts(r) \/ ReturnFromWrite(r)

\* OMEGA_H_CHECK and Omega_h_fail end the program on all ranks.
Aborted == \E r \in Ranks : pc[r] \in {"failed", "refused", "misread"}

Next == ~Aborted /\ (ReadCounts \/ \E r \in Ranks : Write(r) \/ Read(r))

Spec == Init /\ [][Next]_vars /\ WF_vars(Next)

-----------------------------------------------------------------------------
Locations ==
  {"create", "made", "open", "counts", "written", "ask", "counted", "in", "head", "meta", "ents",
   "ntags", "tag", "owners", "next_dim", "nsets", "set", "parents", "set_comm", "end", "failed",
   "refused", "misread"}

\* Ranks are at known places, a reader's counters stay in range and nobody reads
\* before the number of parts is known.
TypeOK ==
  /\ pc \in [Ranks -> Locations]
  /\ \A r \in Ranks :
       /\ rd[r].left >= 0
       /\ pc[r] \in {"ntags", "tag", "owners"} => rd[r].d \in Dims(rd[r].mesh)
       /\ rd[r].in # <<>> => nparts # <<>>

\* A part as it comes back, but for its fields by reverse classification: class
\* sets without pairs are gone, parents are there for every dimension if for any,
\* and owners only where there is more than one rank.
Stored(m) ==
  [m EXCEPT
     !.tags = [d \in Dims(m) |-> [i \in DOMAIN @[d] |-> [@[d][i] EXCEPT !.class_ids = <<>>]]],
     !.rcs = [d \in Dims(m) |-> <<>>],
     !.owners = IF m.size > 1 THEN @ ELSE <<>>,
     !.sets = SelectSeq(@, LAMBDA t : t.pairs # <<>>),
     !.parents = [d \in Dims(m) |-> IF has_any_parents(m) THEN ask_parents(m, d) ELSE <<>>]]

Without(m, n) == [m EXCEPT !.tags = [d \in Dims(m) |-> SubSeq(@[d], 1, n[d])]]

\* The fields by reverse classification that reading made tags of: the tags past
\* the n that were written as tags.
Past(m, d, n) == SubSeq(m.tags[d], n + 1, Len(m.tags[d]))

\* A rank that has read the directory has the part of the rank of that number that
\* wrote it last, also over the streams of more ranks that were there before, and a
\* rank past the last part has read nothing (write, read_in_comm).  Of fields by
\* reverse classification no value is lost, but they are tags after it, of all
\* entities and no class ids: RcFieldsRead, below, does not hold.
ReadBack ==
  \A r \in InComm(job.nread) :
    job.nwrite > 0 /\ pc[r] \in {"set_comm", "end"} =>
      IF r >= job.nwrite THEN rd[r].mesh = NewReader.mesh
      ELSE LET part == parts[r + 1]
               ntags == [d \in Dims(part) |-> Len(part.tags[d])]
           IN  /\ Without(rd[r].mesh, ntags) = Stored(part)
               /\ \A d \in Dims(part) :
                    /\ Len(rd[r].mesh.tags[d]) = Len(part.tags[d]) + Len(part.rcs[d])
                    /\ \A i \in DOMAIN part.rcs[d] :
                         LET t == Past(rd[r].mesh, d, ntags[d])[i]
                         IN  /\ t.name = part.rcs[d][i].name
                             /\ t.array = part.rcs[d][i].array

\* Every value is read with the type it was written with, and the reader comes to
\* the end of the stream exactly, whatever version wrote it (read, read_meta,
\* read_tag and their tests of the version).
NothingMisread ==
  \A r \in Ranks :
    /\ pc[r] # "misread"
    /\ pc[r] \in {"set_comm", "end"} => rd[r].in = <<>>

\* A rank without edges and with a part of a curved mesh: it takes its order from
\* the largest n_bezier_pts of its own edges, which is of none.
CurvedWithoutEdges(m) ==
  m.dim >= 1 /\ m.nents[2] = 0 /\ \E t \in ToSet(m.tags[2]) : t.name = "n_bezier_pts"

\* A check fails on files that this program or an earlier version of it wrote if
\* the rank reads a part of a curved mesh without edges (the local maximum in
\* read_tag, set_max_order), and on no others.
NoCheckFails ==
  \A r \in Ranks :
    /\ pc[r] = "failed" => r < job.nwrite /\ CurvedWithoutEdges(parts[r + 1])
    /\ pc[r] \in {"set_comm", "end"} /\ r < job.nwrite /\ r < job.nread /\ nparts # <<>> =>
         ~CurvedWithoutEdges(parts[r + 1])

\* What a rank starts to read is a whole stream: the barrier of write comes before
\* the streams are closed, but a rank only opens the one it wrote itself.
ClosedWhenRead ==
  \A r \in Ranks : pc[r] = "head" =>
    \E n \in DOMAIN dir.streams : dir.streams[n].closed /\ dir.streams[n].items = rd[r].in

\* Ranks are refused together and only for their number, or because there is
\* nothing to read.
RefusedForCount ==
  \A r \in Ranks : pc[r] = "refused" =>
    IF nparts = <<>> THEN r = 0 /\ job.nwrite = 0
    ELSE job.nread < nparts[1] \/ (job.strict /\ job.nread # nparts[1])

\* Every program ends: each rank gets past the barriers and broadcasts of write and
\* read, also when only some ranks write, or the program is aborted.
Ended == Aborted \/ \A r \in Ranks : pc[r] = "end"
Finishes == <>Ended

\* What rc_field_test.cpp:119 asserts: a field by reverse classification is one
\* again after it is written and read, with the same values.
RcFieldsRead ==
  \A r \in InComm(job.nread) :
    pc[r] = "end" /\ r < job.nwrite =>
      \A d \in Dims(parts[r + 1]) :
        {<<f.name, f.array>> : f \in ToSet(parts[r + 1].rcs[d])}
          = {<<f.name, f.array>> : f \in ToSet(rd[r].mesh.rcs[d])}
=============================================================================
