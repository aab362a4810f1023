-------------------------------- MODULE Adapt -------------------------------
(***************************************************************************)
(* The drivers of adaptation: adapt (Omega_h_adapt.cpp), which first       *)
(* splits and collapses until edge lengths are as wanted, moves vertices   *)
(* to the surface of a model where one is given, and swaps and collapses   *)
(* until qualities are as wanted; the loops around it that move vertices   *)
(* (warp_to_limit) or change the metric (approach_metric, both             *)
(* Omega_h_approach.cpp) as far as the mesh allows, adapt, and go on; and  *)
(* the repair of a bad mesh before that (Omega_h_fix.cpp).  All decisions  *)
(* are made by reductions over all ranks, so one program stands for them.  *)
(*                                                                         *)
(* The mesh is what the drivers look at.  There is a row of edges between  *)
(* fixed ends, with one element at each, whose quality depends on how long *)
(* the edge is.  And there is a cavity that can be connected in two ways,  *)
(* and in a third without its vertex; its quality falls as vertices and    *)
(* metric go from 0 to Target.  What a split, a collapse or a swap does to *)
(* entities is module MeshMod.                                             *)
(***************************************************************************)
EXTENDS Integers, Sequences, SequencesExt, FiniteSetsExt

CONSTANTS Meshes,        \* what to begin with: [chain, elems, cavity], see below
          Goals,         \* subset of {"adapt", "warp", "approach"}
          Options,       \* AdaptOpts, see Opts below
          MinLen, MaxLen,    \* min_length_desired, max_length_desired
          MaxAllowed,    \* max_length_allowed
          Best,          \* the quality 1.0
          MaxIters       \* halvings: max_niters, or those above min_step

VARIABLES pc,       \* where the program is
          goal,     \* what it was called for
          opts,     \* AdaptOpts as given
          allowed, desired,  \* min_quality_allowed, min_quality_desired in use
          longest,  \* max_length_allowed in use
          chain,    \* the lengths of the edges of the row
          elems,    \* by length: qual, and which collapses flip or make invalid
          cavity,   \* each way: <<quality at 0, three times what it loses till Target>>
          way, at,  \* the way it is connected, and where vertices and metric are
          left,     \* the tags: what is left to go, or NoWarp
          snapping, \* in snap_and_satisfy_quality, with a model
          try,      \* the loop of warp_to_limit: from, step, left, i
          did,      \* did_anything
          minqual   \* of fix_for_given_metric, or NoFix

vars == <<pc, goal, opts, allowed, desired, longest, chain, elems, cavity, way, at, left,
          snapping, try, did, minqual>>
meshvars == <<chain, elems, cavity, way, at>>
optvars == <<goal, opts, allowed, desired, longest>>
loopvars == <<left, snapping, try, minqual>>

Target == 4096    \* 2^12: halvings stay whole numbers
NoWarp == -1
NoFix == -100
NoTry == [from |-> 0, step |-> 0, left |-> 0, i |-> 0]

Opts == [refine : BOOLEAN, coarsen : BOOLEAN, swap : BOOLEAN, slivers : BOOLEAN,
         curved : BOOLEAN, crv_qual : BOOLEAN,   \* min_crv_qual_allowed > 0
         filter : BOOLEAN,                       \* should_filter_invalids
         noflip : BOOLEAN,                       \* should_prevent_coarsen_flip
         model : BOOLEAN,                        \* egads_model
         stall_ok : BOOLEAN,                     \* allow_snap_failure
         allowed : Nat, desired : Nat]

cavity_quality(w, a) == cavity[w][1] - (cavity[w][2] * (a.mesh + a.metric)) \div (3 * Target)
mesh_quality(w, a) == Min({cavity_quality(w, a)} \cup {elems.qual[n] : n \in ToSet(chain)})
min_quality == mesh_quality(way, at)
max_length == Max(ToSet(chain))
lengths_good == \A k \in DOMAIN chain : MinLen <= chain[k] /\ chain[k] <= MaxLen

okay(q) == q >= allowed /\ max_length <= longest

Init ==
    /\ pc = "start" /\ goal \in Goals /\ opts \in Options
    /\ goal = "warp" => ~opts.model      \* both would use the tag warp
    /\ allowed = opts.allowed /\ desired = opts.desired /\ longest = MaxAllowed
    /\ \E m \in Meshes : chain = m.chain /\ elems = m.elems /\ cavity = m.cavity
    /\ way = 1 /\ at = [mesh |-> 0, metric |-> 0]
    /\ left = [mesh |-> IF goal = "warp" THEN Target ELSE NoWarp,
               metric |-> IF goal = "approach" THEN Target ELSE NoWarp]
    /\ snapping = FALSE /\ try = NoTry /\ did = FALSE /\ minqual = NoFix

\* grade_fix_adapt repairs first; the others begin with what they are.
Start ==
    /\ pc = "start"
    /\ pc' = CASE goal = "adapt" -> "adapt"
               [] goal = "approach" /\ min_quality < opts.allowed -> "fix"
               [] OTHER -> "move"
    /\ UNCHANGED <<optvars, meshvars, loopvars, did>>

-----------------------------------------------------------------------------
(* warp_to_limit, approach_metric *)

\* approach_metric moves the metric, the others the vertices.
moved == IF goal = "approach" /\ ~snapping THEN "metric" ELSE "mesh"

\* After a move.
AfterMove == IF snapping THEN "quality" ELSE "adapt"

Arrived == /\ pc = "move" /\ left[moved] = NoWarp
           /\ pc' = IF snapping THEN "correct" ELSE "end"
           /\ UNCHANGED <<optvars, meshvars, loopvars, did>>

\* check_okay
NotOkay == /\ pc = "move" /\ left[moved] # NoWarp /\ ~okay(min_quality)
           /\ pc' = "failed"
           /\ UNCHANGED <<optvars, meshvars, loopvars, did>>

MoveWhole ==
    /\ pc = "move" /\ left[moved] # NoWarp /\ okay(min_quality)
    /\ at' = [at EXCEPT ![moved] = @ + left[moved]]
    /\ IF okay(mesh_quality(way, at'))
       THEN /\ pc' = AfterMove
            /\ left' = [left EXCEPT ![moved] = NoWarp]
            /\ UNCHANGED try
       ELSE /\ pc' = "halve"
            /\ try' = [from |-> at[moved], step |-> left[moved], left |-> 0, i |-> 0]
            /\ UNCHANGED left
    /\ UNCHANGED <<optvars, chain, elems, cavity, way, snapping, did, minqual>>

halved(t) == [t EXCEPT !.i = @ + 1, !.step = t.step \div 2, !.left = @ + t.step \div 2]

may_halve == try.i < MaxIters

MoveHalf ==
    /\ pc = "halve" /\ may_halve
    /\ LET t == halved(try) IN
       /\ at' = [at EXCEPT ![moved] = t.from + t.step]
       /\ IF okay(mesh_quality(way, at'))
          THEN pc' = AfterMove /\ left' = [left EXCEPT ![moved] = t.left] /\ try' = NoTry
          ELSE try' = t /\ UNCHANGED <<pc, left>>
    /\ UNCHANGED <<optvars, chain, elems, cavity, way, snapping, did, minqual>>

\* fix_for_given_metric sets allow_snap_failure.
exit_on_stall == snapping /\ (opts.stall_ok \/ minqual # NoFix)

\* With exit_on_stall the field is dropped and the vertices stay where they are.
Stall ==
    /\ pc = "halve" /\ ~may_halve
    /\ try' = NoTry
    /\ IF exit_on_stall THEN pc' = AfterMove /\ left' = [left EXCEPT ![moved] = NoWarp]
                        ELSE pc' = "failed" /\ UNCHANGED left
    /\ UNCHANGED <<optvars, meshvars, snapping, did, minqual>>

-----------------------------------------------------------------------------
(* fix_for_given_metric *)

\* Another round allows the quality and the lengths there are and wants a little
\* more quality.
FixRound ==
    /\ pc = "fix"
    /\ IF minqual # NoFix /\ min_quality <= minqual   \* stalled
       THEN /\ pc' = "move" /\ minqual' = NoFix
            /\ allowed' = opts.allowed /\ desired' = opts.desired /\ longest' = MaxAllowed
       ELSE /\ pc' = "adapt" /\ minqual' = min_quality
            /\ allowed' = min_quality
            /\ desired' = Min({min_quality + 1, Best})
            /\ longest' = Max({max_length, 2 * MaxLen})
    /\ UNCHANGED <<goal, opts, meshvars, left, snapping, try, did>>

-----------------------------------------------------------------------------
(* adapt *)

\* Where adapt returns to.
Return == IF minqual # NoFix THEN "fix" ELSE IF goal = "adapt" THEN "end" ELSE "move"

\* validate
valid == 0 <= allowed /\ allowed <= desired /\ desired <= Best

pre_adapt ==
    /\ pc = "adapt"
    /\ pc' = IF ~valid THEN "failed"
             ELSE IF min_quality >= desired /\ lengths_good THEN Return ELSE "refine"
    /\ did' = FALSE
    /\ UNCHANGED <<optvars, meshvars, loopvars>>

\* A split makes two of an edge, each half as long (one of them longer by one,
\* for an odd length), with an element each.
Split(s, keys) == FlattenSeq([k \in DOMAIN s |->
    IF k \in keys THEN <<s[k] \div 2, s[k] - s[k] \div 2>> ELSE <<s[k]>>])
TooLong == {k \in DOMAIN chain : chain[k] > MaxLen}
split_quality(k) == Min({elems.qual[chain[k] \div 2], elems.qual[chain[k] - chain[k] \div 2]})

\* refine_ghosted takes what would have the quality allowed, refine_ghosted_crv
\* anything.  All are in the independent set, as the row shares no element.
Splittable == {k \in TooLong : opts.curved \/ split_quality(k) >= allowed}

\* refine_by_size, in satisfy_lengths: a curved mesh is only changed if
\* min_crv_qual_allowed is positive.
refine_by_size ==
    /\ pc = "refine"
    /\ pc' = "coarsen"
    /\ did' = (opts.refine /\ Splittable # {})
    /\ chain' = IF did' /\ (~opts.curved \/ opts.crv_qual) THEN Split(chain, Splittable) ELSE chain
    /\ UNCHANGED <<optvars, elems, cavity, way, at, loopvars>>

\* The collapses: k joins edges k and k + 1 of the row, the vertex of the cavity is 0.
Joined(k) == IF k = 0 THEN 0 ELSE chain[k] + chain[k + 1]
Merge(s, keys) == FlattenSeq([k \in DOMAIN s |->
    IF k \in keys THEN <<s[k] + s[k + 1]>> ELSE IF k - 1 \in keys THEN <<>> ELSE <<s[k]>>])
collapse_quality(k) == IF k = 0 THEN cavity_quality(3, at) ELSE elems.qual[Joined(k)]
old_quality(k) ==
    IF k = 0 THEN cavity_quality(way, at) ELSE Min({elems.qual[chain[k]], elems.qual[chain[k + 1]]})

\* coarsen_ghosted: what is left of the candidates after one filter after the other.
prevent_coarsen_overshoot(cands, limit) == {k \in cands : Joined(k) < limit}
prevent_coarsen_flip(cands) == {k \in cands : opts.noflip => Joined(k) \notin elems.flips}
filter_coarsen_min_qual(cands) == {k \in cands : collapse_quality(k) >= allowed}
filter_coarsen_improve(cands) == {k \in cands : collapse_quality(k) > old_quality(k)}

Good(cands, limit) ==
    filter_coarsen_min_qual(prevent_coarsen_flip(prevent_coarsen_overshoot(cands, limit)))

\* find_indset: neighbours in the row share an element.
IndSets(cands) == {s \in SUBSET cands : /\ \A k \in s : k > 0 => k + 1 \notin s
                                       /\ \A k \in cands \ s : k > 0 /\ ({k - 1, k + 1} \cap s) \ {0} # {}}

\* coarsen: in a curved mesh, what the trial finds invalid is not collapsed, nor is
\* what was not tried (CoarsenTrial).  {} is to return false.
coarsen(cands) ==
    IF opts.curved /\ opts.filter THEN {{k \in s : Joined(k) \notin elems.invalid} : s \in IndSets(cands)}
    ELSE IndSets(cands)

\* The ends of the chain are fixed.
TooShort == {k \in 1..(Len(chain) - 1) : chain[k] < MinLen \/ chain[k + 1] < MinLen}
Collapsible == Good(TooShort, MaxLen)

\* coarsen_by_size; satisfy_lengths goes round if it or refine did anything.
coarsen_by_size ==
    /\ pc = "coarsen"
    /\ \E keys \in IF opts.coarsen THEN coarsen(Collapsible) ELSE {{}} :
         /\ chain' = Merge(chain, keys)
         /\ pc' = IF did \/ keys # {} THEN "refine" ELSE "snap"
    /\ did' = FALSE
    /\ UNCHANGED <<optvars, elems, cavity, way, at, loopvars>>

\* snap_and_satisfy_quality: with a model, the way to its surface is to be gone.
Snap ==
    /\ pc = "snap"
    /\ IF opts.model
       THEN pc' = "move" /\ snapping' = TRUE /\ left' = [left EXCEPT !.mesh = Target - at.mesh]
       ELSE pc' = "quality" /\ UNCHANGED <<left, snapping>>
    /\ UNCHANGED <<optvars, meshvars, try, did, minqual>>

\* satisfy_quality is done, one way or the other.
AfterQuality(satisfied) ==
    /\ pc' = IF snapping /\ satisfied THEN "move" ELSE "correct"
    /\ left' = IF snapping /\ ~satisfied THEN [left EXCEPT !.mesh = NoWarp] ELSE left

\* Faulty variant: the old quality will do.
improves_or_equals(w) == cavity_quality(w, at) >= cavity_quality(way, at)

\* filter_swap_improve
improves(w) == cavity_quality(w, at) > cavity_quality(way, at)

\* swap_edges: the cavity is connected the other way; swap_edges_crv does not
\* ask whether that is better.
can_swap == opts.swap /\ way < 3 /\ (opts.curved \/ improves(3 - way))

\* coarsen_slivers: longer edges will do, but not the quality there was.  The layers
\* around a sliver, nsliver_layers of them, are all elements of these meshes.
Slivers == 1..(Len(chain) - 1) \cup (IF way < 3 /\ Len(cavity) = 3 THEN {0} ELSE {})
coarsen_slivers ==
    IF opts.slivers THEN coarsen(filter_coarsen_improve(Good(Slivers, longest))) ELSE {{}}

satisfy_quality ==
    /\ pc = "quality"
    /\ \/ min_quality >= desired /\ AfterQuality(TRUE) /\ UNCHANGED <<chain, way>>
       \/ min_quality < desired /\ can_swap
          /\ way' = 3 - way
          /\ UNCHANGED <<pc, left, chain>>
       \/ min_quality < desired /\ ~can_swap
          /\ \E keys \in coarsen_slivers :
               /\ way' = IF 0 \in keys THEN 3 ELSE way
               /\ chain' = Merge(chain, keys \ {0})
               /\ IF keys # {} THEN UNCHANGED <<pc, left>> ELSE AfterQuality(FALSE)
    /\ UNCHANGED <<optvars, elems, cavity, at, snapping, try, did, minqual>>

\* correct_integral_errors, the element-based parting, post_adapt.
post_adapt == /\ pc = "correct"
              /\ pc' = Return /\ snapping' = FALSE
              /\ UNCHANGED <<optvars, meshvars, left, try, did, minqual>>

Ended == pc \in {"end", "failed"}

Next == \/ Start \/ Arrived \/ NotOkay \/ MoveWhole \/ MoveHalf \/ Stall \/ FixRound
        \/ pre_adapt \/ refine_by_size \/ coarsen_by_size \/ Snap \/ satisfy_quality
        \/ post_adapt

Spec == Init /\ [][Next]_vars /\ WF_vars(Next)

-----------------------------------------------------------------------------

TypeOK ==
    /\ opts \in Opts
    /\ Len(chain) > 0 /\ \A k \in DOMAIN chain : chain[k] \in DOMAIN elems.qual
    /\ way \in DOMAIN cavity
    /\ \A m \in {"mesh", "metric"} : at[m] \in 0..Target /\ left[m] \in 0..Target \cup {NoWarp}
    /\ try.i \in 0..MaxIters /\ longest \in Nat
    /\ snapping => opts.model

(* A curved mesh may be changed, or not be changed, for ever: splits count as
   made when min_crv_qual_allowed forbids to make them (refine), and swaps are
   made back and forth as they need not improve anything (swap2d_ghosted_crv:
   "TODO this is temp fix where im allowing all swaps to happen"). *)
GoesRound ==
    /\ opts.curved
    /\ \/ pc \in {"refine", "coarsen"} /\ opts.refine /\ ~opts.crv_qual /\ TooLong # {}
       \/ pc = "quality" /\ opts.swap /\ way < 3 /\ \A w \in 1..2 : mesh_quality(w, at) < desired

(* Every other call ends: splits and collapses do not undo each other, swaps of a
   straight mesh do not go round, and moving the mesh arrives, stops or fails. *)
Ends == <>(Ended \/ GoesRound)

(* These calls are the ones that never end. *)
StaysRound == GoesRound => GoesRound'

(* Moving in parts goes where the whole was to go: what is done and what is
   left add up to the same position, while halving too. *)
TargetKept ==
    /\ \A m \in {"mesh", "metric"} :
         left[m] # NoWarp /\ pc # "failed" /\ (pc = "halve" => m # moved) => at[m] + left[m] = Target
    /\ pc = "halve" => try.from + try.step + try.left = Target

(* When lengths have been addressed, every edge that is still too long and every
   short edge that is still there would have made an element below the quality
   allowed, too long or flipped; or it was tried on a copy of a curved mesh with
   others that all came out invalid. *)
LengthsAddressed ==
    pc = "snap" =>
        /\ opts.refine => \A k \in TooLong : ~opts.curved /\ split_quality(k) < allowed
        /\ opts.coarsen => \/ Collapsible = {}
                           \/ opts.curved /\ opts.filter
                              /\ \E s \in IndSets(Collapsible) : \A k \in s : Joined(k) \in elems.invalid

(* A warp or a metric is reached in the end, or the program says it failed. *)
NothingLeft ==
    pc = "end" => /\ goal = "warp" => at.mesh = Target
                  /\ goal = "approach" => at.metric = Target

(* What is made is as good as is allowed, or as what was there; swapping and
   collapsing slivers never make the worst element worse.  Splits and swaps of a
   curved mesh do not ask for the quality. *)
KeepsQuality ==
    /\ pc = "coarsen" \/ (pc = "refine" /\ ~opts.curved) => min_quality' >= Min({min_quality, allowed})
    /\ pc = "quality" /\ ~(opts.curved /\ way' = 3 - way) => min_quality' >= min_quality
    /\ pc \notin {"refine", "coarsen", "quality", "move", "halve"} => min_quality' = min_quality

(* Every part of a move leaves a mesh that has the quality allowed, unless the
   program gives up the rest of a way to the surface after a last part that was
   not okay (warp_to_limit with exit_on_stall). *)
LeavesOkay ==
    pc \in {"move", "halve"} /\ pc' \in {"adapt", "quality"} =>
        min_quality' >= allowed \/ (exit_on_stall /\ try.i = MaxIters)
=============================================================================
