------------------------------ MODULE RBTree ------------------------------
(***************************************************************************)
(* The red-black tree of Omega_h_rbtree.hpp and the set and the map made   *)
(* of it.  Keys are 1..N and unique in a tree, so a node goes by its key;  *)
(* the header, which is also the end of the iteration, is node 0.  A tree  *)
(* is a record of the nodes' fields: p, l, r and c for M_parent, M_left,   *)
(* M_right and M_color, v for the mapped value, and count for              *)
(* M_node_count.  The header's p, l and r are M_root, M_leftmost and       *)
(* M_rightmost.  Operators with a side s stand for the code's two mirrored *)
(* branches.                                                               *)
(***************************************************************************)
EXTENDS Integers, FiniteSets, Sequences

CONSTANTS N,            \* bound: the keys are 1..N
          Values,       \* what a map holds
          Default,      \* Value(), what operator[] makes
          Containers    \* the trees of the program

VARIABLE tree

Keys == 1..N
Header == 0
Nil == -1
Links == Keys \cup {Header, Nil}

Opp(s) == IF s = "l" THEN "r" ELSE "l"
Root(t) == t.p[Header]
Black(t, x) == x = Nil \/ t.c[x] = "black"

\* M_empty_initialize; a node that is not allocated has no links.
Empty ==
    [p |-> [x \in Keys \cup {Header} |-> Nil],
     l |-> [x \in Keys \cup {Header} |-> IF x = Header THEN Header ELSE Nil],
     r |-> [x \in Keys \cup {Header} |-> IF x = Header THEN Header ELSE Nil],
     c |-> [x \in Keys \cup {Header} |-> "red"],
     v |-> [x \in Keys |-> Default],
     count |-> 0]

-----------------------------------------------------------------------------
\* S_minimum (s = "l") and S_maximum (s = "r")
RECURSIVE Outermost(_, _, _)
Outermost(t, x, s) == IF t[s][x] = Nil THEN x ELSE Outermost(t, t[s][x], s)

\* The climb of M_increment and M_decrement: up while x hangs on side s.
RECURSIVE ClimbFrom(_, _, _)
ClimbFrom(t, x, s) ==
    IF x = t[s][t.p[x]] THEN ClimbFrom(t, t.p[x], s) ELSE <<x, t.p[x]>>

M_increment(t, x) ==
    IF t.r[x] # Nil THEN Outermost(t, t.r[x], "l")
    ELSE LET n == ClimbFrom(t, x, "r") IN IF t.r[n[1]] # n[2] THEN n[2] ELSE n[1]

M_decrement(t, x) ==
    IF t.c[x] = "red" /\ t.p[t.p[x]] = x THEN t.r[x]
    ELSE IF t.l[x] # Nil THEN Outermost(t, t.l[x], "r")
    ELSE ClimbFrom(t, x, "l")[2]

\* Put y where the parent of x, or the root, points to x.
Replace(t, x, y) ==
    IF x = Root(t) THEN [t EXCEPT !.p[Header] = y]
    ELSE IF x = t.l[t.p[x]] THEN [t EXCEPT !.l[t.p[x]] = y]
    ELSE [t EXCEPT !.r[t.p[x]] = y]

SetParent(t, x, y) == IF x = Nil THEN t ELSE [t EXCEPT !.p[x] = y]
SetColor(t, x, c) == IF x = Nil THEN t ELSE [t EXCEPT !.c[x] = c]

\* Rb_tree_rotate_left (s = "l") and Rb_tree_rotate_right (s = "r")
Rotate(t, x, s) ==
    LET y == t[Opp(s)][x]
        a == SetParent([t EXCEPT ![Opp(s)][x] = t[s][y], !.p[y] = t.p[x]], t[s][y], x)
    IN  [Replace(a, x, y) EXCEPT ![s][y] = x, !.p[x] = y]

\* Rb_tree_rebalance's loop, entered with x red.
RECURSIVE Rb_tree_rebalance(_, _)
Rb_tree_rebalance(t, x) ==
    IF x = Root(t) \/ Black(t, t.p[x]) THEN [t EXCEPT !.c[Root(t)] = "black"]
    ELSE LET g == t.p[t.p[x]]
             s == IF t.p[x] = t.l[g] THEN "l" ELSE "r"
             y == t[Opp(s)][g]
         IN  IF ~Black(t, y)
             THEN Rb_tree_rebalance([t EXCEPT !.c[t.p[x]] = "black", !.c[y] = "black", !.c[g] = "red"], g)
             ELSE LET inner == x = t[Opp(s)][t.p[x]]
                      z == IF inner THEN t.p[x] ELSE x
                      a == IF inner THEN Rotate(t, z, s) ELSE t
                      b == [a EXCEPT !.c[a.p[z]] = "black", !.c[g] = "red"]
                  IN  Rb_tree_rebalance(Rotate(b, g, Opp(s)), z)

\* The second half of Rb_tree_rebalance_for_erase: x, which may be null, lacks
\* one black node below xp.
RECURSIVE FillIn(_, _, _)
FillIn(t, x, xp) ==
    IF x = Root(t) \/ ~Black(t, x) THEN SetColor(t, x, "black")
    ELSE LET s == IF x = t.l[xp] THEN "l" ELSE "r"
             o == Opp(s)
             w0 == t[o][xp]
             a == IF Black(t, w0) THEN t
                  ELSE Rotate([t EXCEPT !.c[w0] = "black", !.c[xp] = "red"], xp, s)
             w == a[o][xp]
         IN  IF Black(a, a[s][w]) /\ Black(a, a[o][w])
             THEN FillIn([a EXCEPT !.c[w] = "red"], xp, a.p[xp])
             ELSE LET b == IF ~Black(a, a[o][w]) THEN a
                           ELSE Rotate([SetColor(a, a[s][w], "black") EXCEPT !.c[w] = "red"], w, o)
                      u == b[o][xp]
                      d == SetColor([b EXCEPT !.c[u] = b.c[xp], !.c[xp] = "black"], b[o][u], "black")
                  IN  SetColor(Rotate(d, xp, s), x, "black")

\* The node's place on one end of the tree passes on.
PassEnd(t, z, x, s) ==
    IF t[s][Header] # z THEN t
    ELSE [t EXCEPT ![s][Header] = IF t[Opp(s)][z] = Nil THEN t.p[z] ELSE Outermost(t, x, s)]

\* The first half of Rb_tree_rebalance_for_erase where z has one child or none:
\* what is left of the tree, the node that has moved up, and its parent.
UnlinkEnd(t, z) ==
    LET x == IF t.l[z] = Nil THEN t.r[z] ELSE t.l[z]
        a == Replace(SetParent(t, x, t.p[z]), z, x)
    IN  <<PassEnd(PassEnd(a, z, x, "l"), z, x, "r"), x, t.p[z], t.c[z]>>

\* The first half where z has two children: its successor y takes its place
\* and its color.
UnlinkMiddle(t, z) ==
    LET y == Outermost(t, t.r[z], "l")
        x == t.r[y]
        near == y = t.r[z]
        a == [t EXCEPT !.p[t.l[z]] = y, !.l[y] = t.l[z]]
        b == IF near THEN a
             ELSE [SetParent([a EXCEPT !.l[t.p[y]] = x], x, t.p[y]) EXCEPT !.r[y] = t.r[z], !.p[t.r[z]] = y]
        d == [Replace(b, z, y) EXCEPT !.p[y] = t.p[z], !.c[y] = t.c[z]]
    IN  <<d, x, IF near THEN y ELSE t.p[y], t.c[y]>>

destroy_node(t, z) ==
    [t EXCEPT !.p[z] = Nil, !.l[z] = Nil, !.r[z] = Nil, !.c[z] = "red", !.v[z] = Default]

\* Rb_tree_rebalance_for_erase and erase(iterator)
erase(t, z) ==
    LET cut == IF t.l[z] = Nil \/ t.r[z] = Nil THEN UnlinkEnd(t, z) ELSE UnlinkMiddle(t, z)
        a == IF cut[4] = "red" THEN cut[1] ELSE FillIn(cut[1], cut[2], cut[3])
    IN  [destroy_node(a, z) EXCEPT !.count = t.count - 1]

\* clear destroys every node; the header keeps its color.
clear(t) == IF t.count = 0 THEN t ELSE Empty

\* erase(first, last)
RECURSIVE EraseEach(_, _, _)
EraseEach(t, first, last) ==
    IF first = last THEN t ELSE EraseEach(erase(t, first), M_increment(t, first), last)

erase_range(t, first, last) ==
    IF first = t.l[Header] /\ last = Header THEN clear(t) ELSE EraseEach(t, first, last)

-----------------------------------------------------------------------------
\* upper_bound, with x the current node and y the last one greater than k
RECURSIVE Upper(_, _, _, _)
Upper(t, k, x, y) ==
    IF x = Nil THEN y ELSE IF k < x THEN Upper(t, k, t.l[x], x) ELSE Upper(t, k, t.r[x], y)
upper_bound(t, k) == Upper(t, k, Root(t), Header)

\* lower_bound, with x the current node and y the last one not less than k
RECURSIVE Lower(_, _, _, _)
Lower(t, k, x, y) ==
    IF x = Nil THEN y ELSE IF ~(x < k) THEN Lower(t, k, t.l[x], x) ELSE Lower(t, k, t.r[x], y)
lower_bound(t, k) == Lower(t, k, Root(t), Header)

find(t, k) ==
    LET j == lower_bound(t, k) IN IF j = Header \/ k < j THEN Header ELSE j

\* erase(const Key&)
erase_key(t, k) ==
    erase_range(t, lower_bound(t, k), upper_bound(t, k))

\* M_insert(x, y, v): a new node below y, to its left if x is not null.
M_insert(t, x, y, k, v) ==
    LET left == y = Header \/ x # Nil \/ k < y
        a == IF left THEN [t EXCEPT !.l[y] = k] ELSE [t EXCEPT !.r[y] = k]
        b == IF y = Header THEN [a EXCEPT !.p[Header] = k, !.r[Header] = k]
             ELSE IF left /\ y = t.l[Header] THEN [a EXCEPT !.l[Header] = k]
             ELSE IF ~left /\ y = t.r[Header] THEN [a EXCEPT !.r[Header] = k]
             ELSE a
    IN  Rb_tree_rebalance([b EXCEPT !.p[k] = y, !.v[k] = v, !.count = t.count + 1], k)

\* The descent of insert(v): the last node and the last comparison.
RECURSIVE Descend(_, _, _, _, _)
Descend(t, k, x, y, comp) ==
    IF x = Nil THEN <<y, comp>> ELSE Descend(t, k, IF k < x THEN t.l[x] ELSE t.r[x], x, k < x)

\* insert(const Value&): the tree, and the node the iterator returned is at
insert(t, k, v) ==
    LET d == Descend(t, k, Root(t), Header, TRUE)
        y == d[1]
        j == IF d[2] THEN M_decrement(t, y) ELSE y
        new == <<M_insert(t, Nil, y, k, v), k>>
    IN  IF d[2] /\ y = t.l[Header] THEN new
        ELSE IF j < k THEN new
        ELSE <<t, j>>

\* insert(iterator, const Value&)
insert_at(t, position, k, v) ==
    IF position = t.l[Header]
    THEN IF t.count > 0 /\ k < position THEN <<M_insert(t, position, position, k, v), k>> ELSE insert(t, k, v)
    ELSE IF position = Header
    THEN IF t.r[Header] < k THEN <<M_insert(t, Nil, t.r[Header], k, v), k>> ELSE insert(t, k, v)
    ELSE LET before == M_decrement(t, position) IN
         IF before < k /\ k < position
         THEN IF t.r[before] = Nil THEN <<M_insert(t, Nil, before, k, v), k>>
              ELSE <<M_insert(t, position, position, k, v), k>>
         ELSE insert(t, k, v)

\* map::operator[], assigned to
at(t, k, v) ==
    LET it == upper_bound(t, k)
        res == IF it = Header \/ it # k THEN insert_at(t, it, k, Default) ELSE <<t, it>>
    IN  [res[1] EXCEPT !.v[res[2]] = v]

\* Structural copy: M_copy keeps shape, colors and values; the ends are looked up.
M_copy(t) ==
    IF Root(t) = Nil THEN Empty
    ELSE [t EXCEPT !.l[Header] = Outermost(t, Root(t), "l"), !.r[Header] = Outermost(t, Root(t), "r")]

-----------------------------------------------------------------------------
Nodes(t) == {k \in Keys : t.p[k] # Nil}
Iterators(t) == Nodes(t) \cup {Header}

Init == tree = [c \in Containers |-> Empty]

Store(c, t) == tree' = [tree EXCEPT ![c] = t]

Insert(c, k, v) == Store(c, insert(tree[c], k, v)[1])
InsertAt(c, position, k, v) == Store(c, insert_at(tree[c], position, k, v)[1])
At(c, k, v) == Store(c, at(tree[c], k, v))
Erase(c, position) == Store(c, erase(tree[c], position))
EraseKey(c, k) == Store(c, erase_key(tree[c], k))
EraseRange(c, first, last) ==
    /\ first # Header /\ (last = Header \/ first <= last)
    /\ Store(c, erase_range(tree[c], first, last))
Clear(c) == Store(c, clear(tree[c]))
\* operator=: clear() first, unless the two are one.
Assign(c, d) == c # d /\ Store(c, M_copy(tree[d]))
Swap(c, d) == tree' = [tree EXCEPT ![c] = tree[d], ![d] = tree[c]]

Next ==
    \E c \in Containers :
        \/ \E k \in Keys, v \in Values :
            \/ Insert(c, k, v)
            \/ At(c, k, v)
            \/ \E position \in Iterators(tree[c]) : InsertAt(c, position, k, v)
        \/ \E position \in Nodes(tree[c]) : Erase(c, position)
        \/ \E k \in Keys : EraseKey(c, k)
        \/ \E first, last \in Iterators(tree[c]) : EraseRange(c, first, last)
        \/ Clear(c)
        \/ \E d \in Containers : Assign(c, d) \/ Swap(c, d)

Spec == Init /\ [][Next]_tree

-----------------------------------------------------------------------------
RECURSIVE BlackHeight(_, _)
BlackHeight(t, x) ==
    IF x = Nil THEN {0}
    ELSE LET below == BlackHeight(t, t.l[x]) \cup BlackHeight(t, t.r[x])
         IN  {h + (IF t.c[x] = "black" THEN 1 ELSE 0) : h \in below}

\* The color rules hold after every operation: a black root, no two red nodes
\* in a row, equally many black nodes on every way down; so look-ups stay
\* logarithmic whatever was inserted and erased.
Balanced ==
    \A c \in Containers : LET t == tree[c] IN
        /\ Black(t, Root(t))
        /\ \A x \in Nodes(t) : ~Black(t, x) => Black(t, t.l[x]) /\ Black(t, t.r[x])
        /\ Cardinality(BlackHeight(t, Root(t))) = 1

\* Parent links, the two ends kept in the header and the count stay true to the
\* nodes that are reached from the root.
LinksAgree ==
    \A c \in Containers : LET t == tree[c] IN
        /\ \A x \in Nodes(t), s \in {"l", "r"} : t[s][x] # Nil => t.p[t[s][x]] = x
        /\ \A x \in Nodes(t) : t.p[x] = Header <=> x = Root(t)
        /\ t.count = Cardinality(Nodes(t))
        /\ Root(t) = Nil => t.l[Header] = Header /\ t.r[Header] = Header
        /\ Root(t) # Nil => t.l[Header] = Outermost(t, Root(t), "l") /\ t.r[Header] = Outermost(t, Root(t), "r")

Least(S) == IF S = {} THEN Header ELSE CHOOSE k \in S : \A j \in S : k <= j
Greatest(S) == IF S = {} THEN Header ELSE CHOOSE k \in S : \A j \in S : j <= k

\* Incrementing an iterator reaches the next larger key or the end, and
\* decrementing is the way back, from the end too.
IteratesInOrder ==
    \A c \in Containers : LET t == tree[c] IN
        /\ t.l[Header] = Least(Nodes(t))
        /\ \A x \in Nodes(t) :
            /\ M_increment(t, x) = Least({k \in Nodes(t) : k > x})
            /\ x # t.l[Header] => M_decrement(t, x) = Greatest({k \in Nodes(t) : k < x})
        /\ Nodes(t) # {} => M_decrement(t, Header) = Greatest(Nodes(t))

\* find, lower_bound and upper_bound agree with their definition for every key,
\* present or not.
BoundsAreRight ==
    \A c \in Containers, k \in Keys : LET t == tree[c] IN
        /\ lower_bound(t, k) = Least({j \in Nodes(t) : j >= k})
        /\ upper_bound(t, k) = Least({j \in Nodes(t) : j > k})
        /\ find(t, k) = IF k \in Nodes(t) THEN k ELSE Header

Maps == [c \in Containers |-> [k \in Nodes(tree[c]) |-> tree[c].v[k]]]

\* What a map, a copy or an exchange of maps may do to the contents.
MapStep(old, new) ==
    \/ \E c \in Containers, k \in Keys, v \in Values :
          new = [old EXCEPT ![c] = [j \in DOMAIN old[c] \cup {k} |-> IF j = k THEN v ELSE old[c][j]]]
    \/ \E c \in Containers, lo \in Keys, hi \in Keys \cup {N + 1} :
          new = [old EXCEPT ![c] = [j \in {i \in DOMAIN old[c] : ~(lo <= i /\ i < hi)} |-> old[c][j]]]
    \/ \E c, d \in Containers : \/ new = [old EXCEPT ![c] = old[d]]
                                \/ new = [old EXCEPT ![c] = old[d], ![d] = old[c]]

\* The containers behave as maps: no operation loses, duplicates or revalues an
\* entry it is not about, wherever the hint of an insertion points.
KeepsToMap == MapStep(Maps, Maps')
IsAMap == [][KeepsToMap]_tree

\* The fields of every node and the counts stay in their types.
TypeOK ==
    \A c \in Containers : LET t == tree[c] IN
        /\ t.p \in [Keys \cup {Header} -> Links] /\ t.l \in [Keys \cup {Header} -> Links]
        /\ t.r \in [Keys \cup {Header} -> Links] /\ t.c \in [Keys \cup {Header} -> {"red", "black"}]
        /\ t.v \in [Keys -> Values] /\ t.count \in 0..N
=============================================================================
