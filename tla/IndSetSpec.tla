----------------------------- MODULE IndSetSpec -----------------------------
(***************************************************************************)
(* What find_indset promises (Omega_h_indset.cpp:17): an independent set   *)
(* of candidate entities, grown by deciding entities one by one or several *)
(* at a time.  An undecided entity is selected when every neighbour is     *)
(* rejected or is undecided and compares less, and is rejected when a      *)
(* neighbour was selected.  Nothing is ever decided twice.                 *)
(***************************************************************************)
EXTENDS Integers

CONSTANT Ent      \* the mesh entities of one dimension

VARIABLES
    adj,          \* the pairs of entities that share an element
    less,         \* the pairs whose first compares less than the second
    status        \* status[e]: what has been decided of entity e

vars == <<adj, less, status>>

NOT_IN == 0
IS_IN == 1
UNKNOWN == 2

Init ==
    /\ adj \in SUBSET (Ent \X Ent)
    /\ \A u, v \in Ent : <<u, v>> \in adj => u # v /\ <<v, u>> \in adj
    /\ less \in SUBSET (Ent \X Ent)
    /\ \A u, v \in Ent : ~(<<u, v>> \in less /\ <<v, u>> \in less)
    /\ status \in [Ent -> {NOT_IN, UNKNOWN}]

CanSelect(v) ==
    /\ status[v] = UNKNOWN
    /\ \A u \in Ent :
        <<u, v>> \in adj => \/ status[u] = NOT_IN
                            \/ status[u] = UNKNOWN /\ <<u, v>> \in less

CanReject(v) ==
    /\ status[v] = UNKNOWN
    /\ \E u \in Ent : <<u, v>> \in adj /\ status[u] = IS_IN

Decide ==
    /\ status' \in [Ent -> {NOT_IN, IS_IN, UNKNOWN}]
    /\ \A v \in Ent :
        \/ status'[v] = status[v]
        \/ status'[v] = IS_IN /\ CanSelect(v)
        \/ status'[v] = NOT_IN /\ CanReject(v)
    /\ UNCHANGED <<adj, less>>

Spec == Init /\ [][Decide]_vars
=============================================================================
