------------------------------ MODULE InputYaml ------------------------------
(***************************************************************************)
(* InputYamlReader (Omega_h_input.cpp): what the callbacks at_shift and     *)
(* at_reduce build while the parser reads a YAML file.  The parser calls    *)
(* them in the order of a rightmost derivation in reverse, which is the     *)
(* order in which a derivation tree is finished; the model generates the    *)
(* derivations of the grammar (Omega_h_yaml.cpp) and calls them in it.      *)
(*                                                                         *)
(* A map or a list is the set of what lies below it, each with its path: a  *)
(* key is its characters, the n-th entry of a list n dashes.  Beside the    *)
(* reader's stack the model keeps, from the derivation alone, the entries   *)
(* the document has (entries).                                              *)
(***************************************************************************)
EXTENDS Integers, Sequences, FiniteSets, SequencesExt

CONSTANTS
    Starts,     \* the symbols derived: "doc", or a scalar for its text alone
    LeafTexts,  \* for each of them the symbols not expanded further, with their texts
    PlainChars, \* the characters an OTHERCHAR may be
    MaxItems,   \* at most this many entries of maps and lists
    MaxChars    \* at most this many characters

VARIABLES
    start,     \* the symbol derived, in Starts
    todo,      \* what is left of the derivation: symbols and reductions
    stack,     \* the value stack of the reader
    yield,     \* the characters shifted, when text is derived
    entries,   \* the entries of the document so far
    begun,     \* how many entries were begun
    cause,     \* "marker": a directive or document marker came before the
               \* first entry; "twice": a key came twice in one map
    pc         \* "read" | "done" | "failed"

yamlVars == <<start, todo, stack, yield, entries, begun, cause, pc>>

(* build_productions: the structure of documents.                          *)
StructureProductions ==
  [DOC |-> <<"doc", <<"top_items">>>>,
   DOC2 |-> <<"doc", <<"NEWLINE", "top_items">>>>,
   TOP_FIRST |-> <<"top_items", <<"top_item">>>>,
   TOP_NEXT |-> <<"top_items", <<"top_items", "top_item">>>>,
   TOP_DIRECT |-> <<"top_item", <<"%", "any*", "NEWLINE">>>>,
   TOP_BEGIN |-> <<"top_item", <<"-", "-", "-", "NEWLINE">>>>,
   TOP_END |-> <<"top_item", <<".", ".", ".", "NEWLINE">>>>,
   TOP_BMAP |-> <<"top_item", <<"bmap_item">>>>,
   BMAP_FIRST |-> <<"bmap_items", <<"bmap_item">>>>,
   BMAP_NEXT |-> <<"bmap_items", <<"bmap_items", "bmap_item">>>>,
   BMAP_SCALAR |-> <<"bmap_item", <<"scalar", ":", "WS*", "tag?", "map_scalar", "NEWLINE">>>>,
   BMAP_BSCALAR |-> <<"bmap_item", <<"scalar", ":", "WS*", "bscalar">>>>,
   BMAP_BVALUE |-> <<"bmap_item", <<"scalar", ":", "WS*", "NEWLINE", "bvalue">>>>,
   BVALUE_EMPTY |-> <<"bvalue", <<>>>>,
   BVALUE_BMAP |-> <<"bvalue", <<"INDENT", "bmap_items", "DEDENT">>>>,
   BVALUE_BSEQ |-> <<"bvalue", <<"INDENT", "bseq_items", "DEDENT">>>>,
   BMAP_FMAP |-> <<"bmap_item", <<"scalar", ":", "WS*", "tag?", "fmap", "NEWLINE">>>>,
   BMAP_FSEQ |-> <<"bmap_item", <<"scalar", ":", "WS*", "tag?", "fseq", "NEWLINE">>>>,
   BSEQ_FIRST |-> <<"bseq_items", <<"bseq_item">>>>,
   BSEQ_NEXT |-> <<"bseq_items", <<"bseq_items", "bseq_item">>>>,
   BSEQ_SCALAR |-> <<"bseq_item", <<"-", "WS+", "tag?", "scalar", "NEWLINE">>>>,
   BSEQ_BSCALAR |-> <<"bseq_item", <<"-", "WS+", "bscalar">>>>,
   BSEQ_BMAP |-> <<"bseq_item", <<"-", "NEWLINE", "INDENT", "bmap_items", "DEDENT">>>>,
   BSEQ_BMAP_TRAIL |-> <<"bseq_item", <<"-", "WS+", "NEWLINE", "INDENT", "bmap_items", "DEDENT">>>>,
   BSEQ_BSEQ |-> <<"bseq_item", <<"-", "NEWLINE", "INDENT", "bseq_items", "DEDENT">>>>,
   BSEQ_BSEQ_TRAIL |-> <<"bseq_item", <<"-", "WS+", "NEWLINE", "INDENT", "bseq_items", "DEDENT">>>>,
   BSEQ_FMAP |-> <<"bseq_item", <<"-", "WS+", "tag?", "fmap", "NEWLINE">>>>,
   BSEQ_FSEQ |-> <<"bseq_item", <<"-", "WS+", "tag?", "fseq", "NEWLINE">>>>,
   FMAP |-> <<"fmap", <<"{", "WS*", "fmap_items", "}", "WS*">>>>,
   FMAP_EMPTY |-> <<"fmap", <<"{", "WS*", "}", "WS*">>>>,
   FMAP_FIRST |-> <<"fmap_items", <<"fmap_item">>>>,
   FMAP_NEXT |-> <<"fmap_items", <<"fmap_items", ",", "WS*", "fmap_item">>>>,
   FMAP_SCALAR |-> <<"fmap_item", <<"scalar", ":", "WS*", "tag?", "scalar">>>>,
   FMAP_FMAP |-> <<"fmap_item", <<"scalar", ":", "WS*", "tag?", "fmap">>>>,
   FMAP_FSEQ |-> <<"fmap_item", <<"scalar", ":", "WS*", "tag?", "fseq">>>>,
   FSEQ |-> <<"fseq", <<"[", "WS*", "fseq_items", "]", "WS*">>>>,
   FSEQ_EMPTY |-> <<"fseq", <<"[", "WS*", "]", "WS*">>>>,
   FSEQ_FIRST |-> <<"fseq_items", <<"fseq_item">>>>,
   FSEQ_NEXT |-> <<"fseq_items", <<"fseq_items", ",", "WS*", "fseq_item">>>>,
   FSEQ_SCALAR |-> <<"fseq_item", <<"tag?", "scalar">>>>,
   FSEQ_FMAP |-> <<"fseq_item", <<"tag?", "fmap">>>>,
   FSEQ_FSEQ |-> <<"fseq_item", <<"tag?", "fseq">>>>]

(* build_productions: the text of scalars.  The class "common" is cut to a  *)
(* few of its characters; the others are reduced in the same way.           *)
TextProductions ==
  [SCALAR_RAW |-> <<"scalar", <<"scalar_head", "scalar_tail*">>>>,
   SCALAR_QUOTED |-> <<"scalar", <<"scalar_quoted">>>>,
   MAP_SCALAR_RAW |-> <<"map_scalar", <<"scalar_head", "scalar_tail*", "map_scalar_escaped*">>>>,
   MAP_SCALAR_QUOTED |-> <<"map_scalar", <<"scalar_quoted">>>>,
   SCALAR_DQUOTED |-> <<"scalar_quoted", <<"\"", "dquoted*", "descape*", "\"", "WS*">>>>,
   SCALAR_SQUOTED |-> <<"scalar_quoted", <<"'", "squoted*", "sescape*", "'", "WS*">>>>,
   SCALAR_HEAD_OTHER |-> <<"scalar_head", <<"OTHERCHAR">>>>,
   SCALAR_HEAD_DOT |-> <<"scalar_head", <<".", "OTHERCHAR">>>>,
   SCALAR_HEAD_DASH |-> <<"scalar_head", <<"-", "OTHERCHAR">>>>,
   SCALAR_HEAD_DOT_DOT |-> <<"scalar_head", <<".", ".", "OTHERCHAR">>>>,
   MAP_SCALAR_ESCAPED_EMPTY |-> <<"map_scalar_escaped*", <<>>>>,
   MAP_SCALAR_ESCAPED_NEXT |-> <<"map_scalar_escaped*", <<"map_scalar_escaped*", ",", "scalar_tail*">>>>,
   DQUOTED_EMPTY |-> <<"dquoted*", <<>>>>,
   DQUOTED_NEXT |-> <<"dquoted*", <<"dquoted*", "dquoted">>>>,
   SQUOTED_EMPTY |-> <<"squoted*", <<>>>>,
   SQUOTED_NEXT |-> <<"squoted*", <<"squoted*", "squoted">>>>,
   DESCAPE_EMPTY |-> <<"descape*", <<>>>>,
   DESCAPE_NEXT |-> <<"descape*", <<"descape*", "descape">>>>,
   DESCAPE |-> <<"descape", <<"\\", "descaped", "dquoted*">>>>,
   SESCAPE_EMPTY |-> <<"sescape*", <<>>>>,
   SESCAPE_NEXT |-> <<"sescape*", <<"sescape*", "sescape">>>>,
   SESCAPE |-> <<"sescape", <<"'", "'", "squoted*">>>>,
   SCALAR_TAIL_EMPTY |-> <<"scalar_tail*", <<>>>>,
   SCALAR_TAIL_NEXT |-> <<"scalar_tail*", <<"scalar_tail*", "scalar_tail">>>>,
   SCALAR_TAIL_SPACE |-> <<"scalar_tail", <<"WS">>>>,
   SCALAR_TAIL_DOT |-> <<"scalar_tail", <<".">>>>,
   SCALAR_TAIL_DASH |-> <<"scalar_tail", <<"-">>>>,
   SCALAR_TAIL_SQUOT |-> <<"scalar_tail", <<"'">>>>,
   SCALAR_TAIL_OTHER |-> <<"scalar_tail", <<"OTHERCHAR">>>>,
   DESCAPED_DQUOT |-> <<"descaped", <<"\"">>>>,
   DESCAPED_SLASH |-> <<"descaped", <<"\\">>>>,
   DESCAPED_DQUOTED |-> <<"descaped", <<"dquoted">>>>,
   DQUOTED_COMMON |-> <<"dquoted", <<"common">>>>,
   DQUOTED_SQUOT |-> <<"dquoted", <<"'">>>>,
   SQUOTED_COMMON |-> <<"squoted", <<"common">>>>,
   SQUOTED_DQUOT |-> <<"squoted", <<"\"">>>>,
   SQUOTED_SLASH |-> <<"squoted", <<"\\">>>>,
   COMMON_SPACE |-> <<"common", <<"WS">>>>,
   COMMON_COLON |-> <<"common", <<":">>>>,
   COMMON_OTHER |-> <<"common", <<"OTHERCHAR">>>>,
   SPACE_STAR_EMPTY |-> <<"WS*", <<>>>>,
   SPACE_STAR_NEXT |-> <<"WS*", <<"WS*", "WS">>>>]

Productions == StructureProductions @@ TextProductions

Expandable(sym) == /\ sym \notin DOMAIN LeafTexts[start]
                   /\ \E q \in DOMAIN Productions : Productions[q][1] = sym
RightHand(q) == Productions[q][2]

-----------------------------------------------------------------------------
(* Values on the reader's stack.                                           *)
none == [t |-> "none"]
failed == [t |-> "failed"]
char(c) == [t |-> "char", c |-> c]
str(s) == [t |-> "str", s |-> s]
map(items) == [t |-> "map", items |-> items]
list(n, items) == [t |-> "list", n |-> n, items |-> items]

MapMark == <<"map">>
ListMark == <<"list">>
Position(n) == [k \in 1..n |-> "-"]

(* What lies at and below a value, and the same moved below a key.          *)
Below(v) ==
    CASE v.t = "str" -> {[path |-> <<>>, what |-> v.s]}
      [] v.t = "map" -> {[path |-> <<>>, what |-> MapMark]} \cup v.items
      [] v.t = "list" -> {[path |-> <<>>, what |-> ListMark]} \cup v.items
Under(k, items) == {[e EXCEPT !.path = <<k>> \o e.path] : e \in items}
Keys(items) == {e.path[1] : e \in items}

(* at_shift: characters for white space and ordinary characters, the text   *)
(* of a NEWLINE, nothing for the other tokens.                              *)
at_shift(tok, c) ==
    CASE tok \in {"WS", "OTHERCHAR"} -> char(c)
      [] tok = "NEWLINE" -> str(<<>>)
      [] OTHER -> none

(* InputMap::add through map_next_item and map_first_item.                  *)
map_next_item(m, item) ==
    IF m.t # "map" \/ item.t # "item" \/ item.name \in Keys(m.items) THEN failed
    ELSE map(m.items \cup Under(item.name, Below(item.value)))
map_first_item(item) ==
    IF item = none THEN failed ELSE map_next_item(map({}), item)

(* map_item: a key and a string, list or map make a NameValue.              *)
map_item(k, v) ==
    IF k.t = "str" /\ v.t \in {"str", "list", "map"}
    THEN [t |-> "item", name |-> k.s, value |-> v] ELSE failed

seq_next_item(l, v) ==
    IF l.t = "list" /\ v.t \in {"str", "list", "map"}
    THEN list(l.n + 1, l.items \cup Under(Position(l.n + 1), Below(v)))
    ELSE failed
seq_first_item(v) == seq_next_item(list(0, {}), v)

IsSpace(c) == c \in {" ", "\t"}

remove_trailing_whitespace(s) ==
    LET solid == {k \in 1..Len(s) : ~IsSpace(s[k])}
    IN  SubSeq(s, 1, IF solid = {} THEN 0 ELSE CHOOSE k \in solid : \A l \in solid : l <= k)

(* The reductions that hand on one of their right-hand side's values.       *)
Handed ==
  [TOP_BMAP |-> 1, BVALUE_BMAP |-> 2, BVALUE_BSEQ |-> 2, BSEQ_SCALAR |-> 4,
   BSEQ_BSCALAR |-> 3, BSEQ_BMAP |-> 4, BSEQ_FMAP |-> 4, BSEQ_BMAP_TRAIL |-> 5,
   BSEQ_BSEQ |-> 4, BSEQ_FSEQ |-> 4, BSEQ_BSEQ_TRAIL |-> 5, FMAP |-> 3, FSEQ |-> 3,
   FSEQ_SCALAR |-> 2, FSEQ_FSEQ |-> 2, FSEQ_FMAP |-> 2, SCALAR_QUOTED |-> 1,
   MAP_SCALAR_QUOTED |-> 1, SCALAR_TAIL_SPACE |-> 1, SCALAR_TAIL_OTHER |-> 1,
   DESCAPED_DQUOTED |-> 1, DQUOTED_COMMON |-> 1, SQUOTED_COMMON |-> 1,
   COMMON_SPACE |-> 1, COMMON_OTHER |-> 1]

(* The reductions that make an entry of a map, by the place of its value.   *)
ItemValue ==
  [BMAP_SCALAR |-> 5, FMAP_SCALAR |-> 5, FMAP_FMAP |-> 5, FMAP_FSEQ |-> 5,
   BMAP_BSCALAR |-> 4, BMAP_BVALUE |-> 5, BMAP_FMAP |-> 5, BMAP_FSEQ |-> 5]

(* The reductions of a token to its character.                              *)
Character ==
  [DESCAPED_DQUOT |-> "\"", SQUOTED_DQUOT |-> "\"", DESCAPED_SLASH |-> "\\",
   SQUOTED_SLASH |-> "\\", SCALAR_TAIL_SQUOT |-> "'", DQUOTED_SQUOT |-> "'",
   COMMON_COLON |-> ":", SCALAR_TAIL_DOT |-> ".", SCALAR_TAIL_DASH |-> "-"]

EmptyStrings == {"DQUOTED_EMPTY", "SQUOTED_EMPTY", "DESCAPE_EMPTY", "SESCAPE_EMPTY",
                 "SCALAR_TAIL_EMPTY", "SPACE_STAR_EMPTY", "MAP_SCALAR_ESCAPED_EMPTY"}
Appends == {"DQUOTED_NEXT", "SQUOTED_NEXT", "SCALAR_TAIL_NEXT", "SPACE_STAR_NEXT"}

(* PROD_TOP_NEXT: the case where nothing was kept yet passes the empty      *)
(* value, not the entry, to map_first_item.                                 *)
top_next(r) ==
    IF r[2].t # "item" THEN r[1]
    ELSE IF r[1].t = "map" THEN map_next_item(r[1], r[2]) ELSE map_first_item(r[1])

(* at_reduce, for the structure of a document.                              *)
reduce_structure(q, r) ==
    CASE q = "DOC" -> IF r[1].t = "map" THEN r[1] ELSE failed
      [] q = "DOC2" -> IF r[2].t = "map" THEN r[2] ELSE failed
      [] q = "TOP_FIRST" -> IF r[1].t = "item" THEN map_first_item(r[1]) ELSE none
      [] q = "TOP_NEXT" -> top_next(r)
      [] q \in {"BMAP_FIRST", "FMAP_FIRST"} -> map_first_item(r[1])
      [] q = "BMAP_NEXT" -> map_next_item(r[1], r[2])
      [] q = "FMAP_NEXT" -> map_next_item(r[1], r[4])
      [] q \in DOMAIN ItemValue -> map_item(r[1], r[ItemValue[q]])
      [] q \in {"BVALUE_EMPTY", "FMAP_EMPTY"} -> map({})
      [] q = "FSEQ_EMPTY" -> list(0, {})
      [] q \in {"BSEQ_FIRST", "FSEQ_FIRST"} -> seq_first_item(r[1])
      [] q = "BSEQ_NEXT" -> seq_next_item(r[1], r[2])
      [] q = "FSEQ_NEXT" -> seq_next_item(r[1], r[4])
      [] OTHER -> none

(* at_reduce, for the text of a scalar.                                     *)
reduce_text(q, r) ==
    CASE q = "SCALAR_RAW" -> str(remove_trailing_whitespace(r[1].s \o r[2].s))
      [] q = "MAP_SCALAR_RAW" ->
            str(remove_trailing_whitespace(r[1].s \o r[2].s \o r[3].s))
      [] q = "SCALAR_HEAD_OTHER" -> str(<<r[1].c>>)
      [] q = "SCALAR_HEAD_DOT" -> str(<<".", r[2].c>>)
      [] q = "SCALAR_HEAD_DASH" -> str(<<"-", r[2].c>>)
      [] q = "SCALAR_HEAD_DOT_DOT" -> str(<<".", ".", r[3].c>>)
      [] q \in {"SCALAR_DQUOTED", "SCALAR_SQUOTED"} -> str(r[2].s \o r[3].s)
      [] q = "MAP_SCALAR_ESCAPED_NEXT" -> str(r[1].s \o <<",">> \o r[3].s)
      [] q \in {"DESCAPE_NEXT", "SESCAPE_NEXT"} -> str(r[1].s \o r[2].s)
      [] q = "DESCAPE" -> str(<<r[2].c>> \o r[3].s)
      [] q = "SESCAPE" -> str(<<"'">> \o r[3].s)
      [] q \in EmptyStrings -> str(<<>>)
      [] q \in Appends -> str(Append(r[1].s, r[2].c))
      [] q \in DOMAIN Character -> char(Character[q])
      [] OTHER -> none

at_reduce(q, r) ==
    IF q \in DOMAIN Handed THEN r[Handed[q]]
    ELSE IF q \in DOMAIN StructureProductions THEN reduce_structure(q, r)
    ELSE reduce_text(q, r)

-----------------------------------------------------------------------------
Symbol(s, p, k) == [sym |-> s, prod |-> "", path |-> p, key |-> k]
Reduction(q) == [sym |-> "", prod |-> q, path |-> <<>>, key |-> FALSE]

YamlInit ==
    /\ start \in Starts
    /\ todo = <<Symbol(start, <<>>, FALSE)>>
    /\ stack = <<>> /\ yield = <<>> /\ entries = {} /\ begun = 0 /\ cause = {}
    /\ pc = "read"

ItemSymbols == {"top_item", "bmap_item", "bseq_item", "fmap_item", "fseq_item"}
ItemLists == {"top_items", "bmap_items", "bseq_items", "fmap_items", "fseq_items"}
Nullable == {Productions[q][1] : q \in {p \in DOMAIN TextProductions : RightHand(p) = <<>>}}

(* The bounds: entries begun and to come, characters read and to come.     *)
Within(n, t) ==
    /\ n + Len(SelectSeq(t, LAMBDA x : x.sym \in ItemSymbols \cup ItemLists)) <= MaxItems
    /\ \/ start = "doc"
       \/ Len(yield) + Len(SelectSeq(t, LAMBDA x : x.sym # "" /\ x.sym \notin Nullable))
            <= MaxChars

(* The place of the next entry of the list at path p.                       *)
NextPosition(p) ==
    Position(1 + Cardinality({e \in entries : /\ Len(e.path) = Len(p) + 1
                                              /\ SubSeq(e.path, 1, Len(p)) = p}))

Container(sym, q) ==
    IF sym \in {"top_items", "bmap_items", "fmap_items"}
         \/ q \in {"BVALUE_EMPTY", "FMAP_EMPTY"} THEN {MapMark}
    ELSE IF sym \in {"bseq_items", "fseq_items"} \/ q = "FSEQ_EMPTY" THEN {ListMark}
    ELSE {}

(* The derivation goes on with a production of the first symbol.            *)
Expand ==
    /\ pc = "read" /\ todo # <<>> /\ Expandable(Head(todo).sym)
    /\ \E q \in DOMAIN Productions :
         LET h == Head(todo)
             p == IF h.sym \in {"bseq_item", "fseq_item"}
                  THEN Append(h.path, NextPosition(h.path)) ELSE h.path
             t == [k \in 1..Len(RightHand(q)) |->
                     Symbol(RightHand(q)[k], p, k = 1 /\ h.sym \in {"bmap_item", "fmap_item"})]
                  \o <<Reduction(q)>> \o Tail(todo)
             n == begun + (IF h.sym \in ItemSymbols /\ q # "TOP_BMAP" THEN 1 ELSE 0)
         IN  /\ Productions[q][1] = h.sym
             /\ Within(n, t)
             /\ todo' = t /\ begun' = n
             /\ entries' = entries \cup {[path |-> p, what |-> w] : w \in Container(h.sym, q)}
             /\ cause' = IF /\ q \in {"TOP_DIRECT", "TOP_BEGIN", "TOP_END"}
                            /\ \A e \in entries : e.path = <<>>
                         THEN cause \cup {"marker"} ELSE cause
    /\ UNCHANGED <<start, stack, yield, pc>>

(* A symbol that is not expanded: its text is a key, or an entry.           *)
Leaf ==
    /\ pc = "read" /\ todo # <<>> /\ Head(todo).sym \in DOMAIN LeafTexts[start]
    /\ \E s \in LeafTexts[start][Head(todo).sym] :
         LET h == Head(todo)
             own == CHOOSE k \in 1..Len(todo) :
                      todo[k].prod # "" /\ \A l \in 1..(k - 1) : todo[l].prod = ""
         IN  /\ stack' = Append(stack, IF s = <<>> THEN none ELSE str(s))
             /\ todo' = [k \in 1..(Len(todo) - 1) |->
                          IF h.key /\ k + 1 < own
                          THEN [todo[k + 1] EXCEPT !.path = Append(@, s)]
                          ELSE todo[k + 1]]
             /\ entries' = IF h.key \/ s = <<>> THEN entries
                           ELSE entries \cup {[path |-> h.path, what |-> s]}
             /\ cause' = IF h.key /\ \E e \in entries : e.path = Append(h.path, s)
                         THEN cause \cup {"twice"} ELSE cause
    /\ UNCHANGED <<start, yield, begun, pc>>

Shift ==
    /\ pc = "read" /\ todo # <<>>
    /\ LET tok == Head(todo).sym IN
       /\ tok # "" /\ tok \notin DOMAIN LeafTexts[start] /\ ~Expandable(tok)
       /\ \E c \in (IF tok = "OTHERCHAR" THEN PlainChars ELSE IF tok = "WS" THEN {" "} ELSE {tok}) :
            /\ stack' = Append(stack, at_shift(tok, c))
            /\ yield' = IF start = "doc" THEN yield ELSE Append(yield, c)
    /\ todo' = Tail(todo)
    /\ UNCHANGED <<start, entries, begun, cause, pc>>

Reduce ==
    /\ pc = "read" /\ todo # <<>> /\ Head(todo).prod # ""
    /\ LET q == Head(todo).prod
           n == Len(RightHand(q))
       IN  \E v \in {at_reduce(q, SubSeq(stack, Len(stack) - n + 1, Len(stack)))} :
             /\ stack' = Append(SubSeq(stack, 1, Len(stack) - n), v)
             /\ pc' = IF v = failed THEN "failed"
                      ELSE IF Len(todo) = 1 THEN "done" ELSE "read"
    /\ todo' = Tail(todo)
    /\ UNCHANGED <<start, yield, entries, begun, cause>>

YamlNext == Expand \/ Leaf \/ Shift \/ Reduce

YamlSpec == YamlInit /\ [][YamlNext]_yamlVars

-----------------------------------------------------------------------------
YamlTypeOK ==
    /\ pc \in {"read", "done", "failed"}
    /\ \A k \in 1..Len(stack) : stack[k].t \in {"none", "failed", "char", "str", "item", "map", "list"}
    /\ pc = "done" => todo = <<>> /\ Len(stack) = 1

(* A document that is accepted has no key twice in a map and is read to     *)
(* exactly its entries, each below the keys and at the places in lists it   *)
(* was written under, whichever of the block and flow notations are used.   *)
ReadBack ==
    pc = "done" /\ start = "doc" => /\ Below(stack[1]) = entries
                                    /\ "twice" \notin cause

NoEntry == \A e \in entries : e.path = <<>>

(* A document is refused only because a key comes twice in a map, there is  *)
(* no entry, or something that is no entry comes before the first one.      *)
RefusedForCause ==
    pc = "failed" => cause # {} \/ NoEntry

(* The documents of unit_parser.cpp begin with the marker --- and are read. *)
MarkersAccepted ==
    pc = "failed" => "twice" \in cause \/ NoEntry

(* What the characters of a scalar stand for: the text between the quotes   *)
(* with each escape dropped, or everything up to the last solid character.  *)
Meant(y) ==
    LET q == y[1]
        esc == IF q = "\"" THEN "\\" ELSE "'"
        end == CHOOSE k \in 1..Len(y) : /\ ~IsSpace(y[k])
                                        /\ \A l \in (k + 1)..Len(y) : IsSpace(y[l])
        escaped[k \in 1..Len(y)] == k > 2 /\ y[k - 1] = esc /\ ~escaped[k - 1]
        kept(k) == y[k] # esc \/ escaped[k]
    IN  IF q \in {"\"", "'"}
        THEN LET f[k \in 1..end] == IF k = 1 THEN <<>>
                                    ELSE IF k < end /\ kept(k) THEN Append(f[k - 1], y[k])
                                    ELSE f[k - 1]
             IN  f[end]
        ELSE SubSeq(y, 1, end)

(* The text of a scalar is what its characters stand for, with either kind  *)
(* of quotes and their escapes, and without the white space after it.       *)
TextMeant ==
    pc = "done" /\ start # "doc" => stack[1] = str(Meant(yield))

-----------------------------------------------------------------------------
(***************************************************************************)
(* InputYamlReader::handle_block_scalar (Omega_h_input.cpp): the text of a  *)
(* YAML block scalar, from its header and the raw characters after it.      *)
(*                                                                         *)
(* A block is given as lines of spaces and a body; Raw spells it out as the *)
(* grammar hands it over: everything up to the first solid character is the *)
(* NEWLINE token after the header (leading), the rest follows, and the last *)
(* token also swallows less indented comments and the indentation of the    *)
(* next entry.                                                              *)
(***************************************************************************)
CONSTANTS
    Blocks    \* the blocks read: records [style, indicator, chomp, comment,
              \* crlf, parent, lines, after]; a line is [ind, body]

VARIABLES
    block,     \* the block being read
    step,        \* "header" | "trim" | "unindent" | "chomp" | "done" | "failed"
    newline,   \* the newline found
    indent,    \* num_indent_spaces
    content,   \* the text so far
    pos        \* unindent_pos, counted from 0

blockVars == <<block, step, newline, indent, content, pos>>

LF == <<"\n">>
CRLF == <<"\r", "\n">>
Spaces(n) == [k \in 1..n |-> " "]
Newline(b) == IF b.crlf THEN CRLF ELSE LF
LineText(l) == Spaces(l.ind) \o l.body
First(b) == CHOOSE k \in 1..Len(b.lines) : /\ b.lines[k].body # <<>>
                                           /\ \A j \in 1..(k - 1) : b.lines[j].body = <<>>

(* The NEWLINE token after the header: an optional comment, and the blank   *)
(* lines and spaces up to the first solid character.                        *)
leading_empties_or_comments(b) ==
    (IF b.comment THEN <<"#", "c">> ELSE <<>>) \o Newline(b)
    \o FlattenSeq([k \in 1..(First(b) - 1) |-> LineText(b.lines[k]) \o Newline(b)])
    \o Spaces(b.lines[First(b)].ind)

(* The block's items, and the spaces before what follows it.                *)
rest(b) ==
    b.lines[First(b)].body \o Newline(b)
    \o FlattenSeq([k \in 1..(Len(b.lines) - First(b)) |->
                     LineText(b.lines[First(b) + k]) \o Newline(b)])
    \o Spaces(b.after)

BlockInit ==
    /\ block \in Blocks
    /\ step = "header" /\ newline = LF /\ indent = 0 /\ content = <<>> /\ pos = 0

(* Places in a string, counted from 0; -1 stands for npos.                  *)
Chr(s, k) == s[k + 1]
Substr(s, k) == SubSeq(s, k + 1, Len(s))
Least(S) == IF S = {} THEN -1 ELSE CHOOSE x \in S : \A y \in S : x <= y
Greatest(S) == IF S = {} THEN -1 ELSE CHOOSE x \in S : \A y \in S : x >= y
Find(s, S, from) == Least({k \in from..(Len(s) - 1) : Chr(s, k) \in S})
Rfind(s, c, from) == Greatest({k \in 0..(Len(s) - 1) : k <= from /\ Chr(s, k) = c})

(* num_indent_spaces in unsigned arithmetic: when there is no newline before*)
(* the content, which is at 0 then, the difference wraps around to 0.       *)
num_indent_spaces(lead) ==
    LET solid == Least({k \in 0..(Len(lead) - 1) : Chr(lead, k) \notin {"\r", "\n", " "}})
        content_beg == IF solid = -1 THEN Len(lead) ELSE solid
        before == Rfind(lead, "\n", content_beg)
    IN  IF before = -1 THEN content_beg ELSE (content_beg - before) - 1

(* The header and what the leading token tells: the newline, the indentation*)
(* and where the content begins.  An indentation indicator is relative to   *)
(* the parent and overrides the indentation found.                          *)
ReadHeader ==
    /\ step = "header"
    /\ LET lead == leading_empties_or_comments(block)
           first_newline == Find(lead, {"\r", "\n"}, 0)
           nl == IF first_newline > 0 /\ Chr(lead, first_newline - 1) = "\r" THEN CRLF ELSE LF
           keep_beg == first_newline + 1 - Len(nl)
           wanted == IF block.indicator = 0 THEN 0 ELSE block.indicator + block.parent
           found == num_indent_spaces(lead)
       IN  /\ newline' = nl
           /\ IF wanted > 0 /\ found < wanted
              THEN step' = "failed" /\ UNCHANGED <<indent, content>>
              ELSE /\ step' = "trim"
                   /\ indent' = IF wanted > 0 THEN wanted ELSE found
                   /\ content' = Substr(lead, keep_beg) \o rest(block)
    /\ UNCHANGED <<block, pos>>

(* The newline before the last line; size() - 2 wraps around below 2.       *)
last_newline ==
    Rfind(content, "\n", IF Len(content) < 2 THEN Len(content) ELSE Len(content) - 2)

SpacesFrom(s, k) ==
    LET solid == Least({j \in k..(Len(s) - 1) : Chr(s, j) # " "})
    IN  (IF solid = -1 THEN Len(s) ELSE solid) - k

(* One round of the loop that drops trailing lines indented less than the   *)
(* content.                                                                 *)
TrimLine ==
    /\ step = "trim"
    /\ IF last_newline = -1 \/ SpacesFrom(content, last_newline + 1) >= indent
       THEN step' = "unindent" /\ UNCHANGED content
       ELSE content' = SubSeq(content, 1, last_newline + 1) /\ UNCHANGED step
    /\ UNCHANGED <<block, newline, indent, pos>>

(* One round of the loop that cuts the indentation after each newline, and  *)
(* in a folded block the newline too.                                       *)
UnindentLine ==
    /\ step = "unindent"
    /\ LET next == Find(content, {"\n"}, pos)
           start_cut == IF block.style = ">" THEN next + 1 - Len(newline) ELSE next + 1
           spaces == SpacesFrom(content, next + 1)
           end_cut == next + 1 + (IF spaces < indent THEN spaces ELSE indent)
       IN  IF next = -1
           THEN step' = "chomp" /\ UNCHANGED <<content, pos>>
           ELSE /\ content' = SubSeq(content, 1, start_cut) \o Substr(content, end_cut)
                /\ pos' = start_cut
                /\ UNCHANGED step
    /\ UNCHANGED <<block, newline, indent>>

remove_trailing_whitespace_and_newlines(s) ==
    SubSeq(s, 1, Greatest({k \in 0..(Len(s) - 1) : Chr(s, k) \notin {" ", "\t", "\n", "\r"}}) + 1)

(* The chomping indicator, and the newline the content still begins with.   *)
Chomp ==
    /\ step = "chomp" /\ step' = "done"
    /\ LET cut == IF block.chomp = "+" THEN content
                  ELSE remove_trailing_whitespace_and_newlines(content)
                       \o (IF block.chomp = "-" THEN <<>> ELSE newline)
       IN  content' = IF block.style = "|" THEN Substr(cut, Len(newline)) ELSE cut
    /\ UNCHANGED <<block, newline, indent, pos>>

BlockNext == ReadHeader \/ TrimLine \/ UnindentLine \/ Chomp

BlockSpec == BlockInit /\ [][BlockNext]_blockVars /\ WF_blockVars(BlockNext)

-----------------------------------------------------------------------------
BlockTypeOK ==
    /\ step \in {"header", "trim", "unindent", "chomp", "done", "failed"}
    /\ newline \in {LF, CRLF} /\ indent \in Nat /\ pos \in Nat

(* What the lines of the block say: without the common indentation, without *)
(* the trailing lines that have less of it, joined, and chomped.            *)
MeantBlock(b) ==
    LET base == IF b.indicator > 0 THEN b.indicator + b.parent ELSE b.lines[First(b)].ind
        lastLine == Greatest({k \in 1..Len(b.lines) : b.lines[k].ind >= base})
        Cut(l) == Spaces(IF l.ind > base THEN l.ind - base ELSE 0) \o l.body
        Joined(nl) == FlattenSeq([k \in 1..lastLine |-> Cut(b.lines[k]) \o nl])
        raw == IF b.style = "|" THEN Joined(Newline(b)) ELSE Joined(<<>>)
        solid == {k \in 1..Len(raw) : raw[k] \notin {" ", "\n", "\r"}}
    IN  IF b.chomp = "+" THEN raw
        ELSE SubSeq(raw, 1, Greatest(solid)) \o (IF b.chomp = "-" THEN <<>> ELSE Newline(b))

(* The text of a block is what its lines say, for both styles, every        *)
(* chomping, with blank and more indented lines and comments after it.      *)
BlockRead == step = "done" => content = MeantBlock(block)

(* Only an indicator that asks for more indentation than there is is refused.*)
RefusedForIndent ==
    step = "failed" => /\ block.indicator > 0
                     /\ block.lines[First(block)].ind < block.indicator + block.parent

(* Both loops end, also when a round of the first leaves nothing to drop.   *)
BlockFinishes == <>(step \in {"done", "failed"})
=============================================================================
