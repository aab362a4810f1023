------------------------------ MODULE MCIndSet ------------------------------
(***************************************************************************)
(* A strip of six elements on three ranks, and the five entities between   *)
(* two elements each: the inner vertices of a mesh of intervals, the inner *)
(* edges of a strip of triangles, or, as elements, the first five          *)
(* themselves.  Entities of the boundary are no candidates and are left    *)
(* out.  Global numbers are not monotone along the strip, so that a        *)
(* decision may have to travel across ranks.                               *)
(***************************************************************************)
EXTENDS IndSet

MCRank == 0..2
MCEnt == 1..5
MCElem == 1..6

\* The place of an entity along the strip.
Place == <<1, 3, 2, 5, 4>>

MCOwner == [e \in MCEnt |-> (Place[e] - 1) \div 2]

MCUp ==
    [d \in EntDims |->
        [e \in MCEnt |-> IF d = ELEM THEN {Place[e]} ELSE {Place[e], Place[e] + 1}]]

OwnElems(r) == {2 * r + 1, 2 * r + 2}

MCElemsOn ==
    [p \in Partings |->
        [r \in MCRank |->
            CASE p = ELEM_BASED -> OwnElems(r)
              [] p = GHOSTED -> {t \in MCElem : {t - 1, t, t + 1} \cap OwnElems(r) # {}}
              [] p = VERT_BASED ->
                    UNION {MCUp[VERT][e] : e \in {f \in MCEnt : MCOwner[f] = r}}]]
=============================================================================
