-------------------------------- MODULE Lalr --------------------------------
(***************************************************************************)
(* The parser generator and the parser it makes: from a language to an     *)
(* augmented grammar (Omega_h_language.cpp, Omega_h_grammar.cpp), the      *)
(* LR(0) machine, FIRST sets, and Pager's lane tracing, which finds the    *)
(* context in which each reduction is right (Omega_h_build_parser.cpp);    *)
(* then the tables (Omega_h_parser.cpp) are run on any sequence of tokens  *)
(* (Reader::at_token).                                                     *)
(*                                                                         *)
(* Symbols, productions and states count from 1.  A state-config is        *)
(* <<state, production, dot>>; its number in the code only says in which   *)
(* order originators are taken, and that is the order of these triples.    *)
(***************************************************************************)
EXTENDS Integers, TLC, SequencesExt, FiniteSetsExt

CONSTANTS Languages,    \* the languages to build parsers for
          MaxTokens     \* bound: how many tokens are read, before the end

VARIABLES grammar,      \* the grammar, once it is built
          outcome,      \* what became of the parser generator
          states,       \* the LR(0) states found so far
          front,        \* the next of them to expand
          firsts,       \* FIRST set of each symbol
          events,       \* symbols to add to FIRST sets
          goals,        \* state-configs whose contexts are still to be computed
          contexts,     \* the context found for each state-config
          complete,     \* the state-configs whose context is final
          lanes,        \* where lane tracing is
          reader        \* the parser at work

vars == <<grammar, outcome, states, front, firsts, events, goals, contexts, complete, lanes, reader>>

NULL == 0               \* FIRST_NULL
MARKER == <<0>>
ZERO == <<1>>

-----------------------------------------------------------------------------
\* A value that starts as x and is changed for one element of s after another.
After(Change(_, _), x, s) ==
    LET value[k \in 0..Len(s)] ==
            IF k = 0 THEN x
            ELSE CHOOSE v \in {Change(u, s[k]) : u \in {value[k - 1]}} : v = v
    IN  value[Len(s)]

(* Grammars. *)
Distinct(s) == After(LAMBDA acc, x : IF x \in ToSet(acc) THEN acc ELSE Append(acc, x), <<>>, s)

find_goal_symbol(nonterminals, prods) ==
    {n \in nonterminals : \A p \in DOMAIN prods : n \notin ToSet(prods[p].rhs)}

\* Tokens, the end, nonterminals in the order they are defined, and ACCEPT.
build_grammar(lang) ==
    LET names == Distinct(lang.tokens \o <<"EOF">> \o
                          [p \in DOMAIN lang.productions |-> lang.productions[p][1]])
        Number(n) == CHOOSE i \in DOMAIN names : names[i] = n
        nterminals == Len(lang.tokens) + 1
        prods == [p \in DOMAIN lang.productions |->
                    [lhs |-> Number(lang.productions[p][1]),
                     rhs |-> [i \in DOMAIN lang.productions[p][2] |->
                                Number(lang.productions[p][2][i])]]]
        roots == find_goal_symbol((nterminals + 1)..Len(names), prods)
    IN  [nterminals |-> nterminals, nsymbols |-> Len(names) + 1, lang |-> lang,
         rooted |-> Cardinality(roots) = 1,
         productions |-> Append(prods, [lhs |-> Len(names) + 1,
                                        rhs |-> <<CHOOSE r \in roots : TRUE>>])]

Terminals == 1..grammar.nterminals
EndTerminal == grammar.nterminals
Productions == DOMAIN grammar.productions
accept_production == Len(grammar.productions)
Lhs(p) == grammar.productions[p].lhs
Rhs(p) == grammar.productions[p].rhs
AtEnd(c) == c[2] = Len(Rhs(c[1]))
AfterDot(c) == Rhs(c[1])[c[2] + 1]
ByLhs(n) == {p \in Productions : Lhs(p) = n}

-----------------------------------------------------------------------------
(* The LR(0) machine. *)
close(cs) ==
    After(LAMBDA acc, p :
                acc \cup {<<q, 0>> : q \in UNION {ByLhs(AfterDot(c)) : c \in {c \in acc : ~AtEnd(c)}}},
             cs, grammar.productions)

StartState == [configs |-> close({<<accept_production, 0>>}), shifts |-> <<>>]
TransitionSymbols(s) == {AfterDot(c) : c \in {c \in s.configs : ~AtEnd(c)}}
NextConfigs(s, symbol) ==
    close({<<c[1], c[2] + 1>> : c \in {c \in s.configs : ~AtEnd(c) /\ AfterDot(c) = symbol}})

\* The state's transitions, in the order of their symbols, and the states they lead to.
AddTransition(found, symbol) ==
    LET next == NextConfigs(states[front], symbol)
        known == {i \in DOMAIN found : found[i].configs = next}
        s == IF known = {} THEN Len(found) + 1 ELSE CHOOSE i \in known : TRUE
        all == IF known = {} THEN Append(found, [configs |-> next, shifts |-> <<>>]) ELSE found
    IN  [all EXCEPT ![front].shifts = @ @@ (symbol :> s)]

build_lr0_parser ==
    /\ outcome = "lr0"
    /\ front <= Len(states)
    /\ states' = After(LAMBDA acc, x : IF x \in TransitionSymbols(states[front])
                                          THEN AddTransition(acc, x) ELSE acc,
                          states, [x \in 1..grammar.nsymbols |-> x])
    /\ front' = front + 1
    /\ UNCHANGED <<grammar, outcome, firsts, events, goals, contexts, complete, lanes, reader>>

Reductions(s) == {c \in states[s].configs : AtEnd(c)}
TerminalShifts(s) == DOMAIN states[s].shifts \cap Terminals
lr0_context(c) == IF c[1] = accept_production THEN {EndTerminal} ELSE Terminals

\* The context of a reduction: what lane tracing found, and any terminal otherwise.
ReduceContext(s, c) ==
    LET sc == <<s, c[1], c[2]>> IN IF sc \in complete THEN contexts[sc] ELSE lr0_context(c)

determine_adequate_states(Context(_, _)) ==
    {s \in DOMAIN states : \A c \in Reductions(s) :
        /\ Context(s, c) \cap TerminalShifts(s) = {}
        /\ \A d \in Reductions(s) \ {c} : Context(s, c) \cap Context(s, d) = {}}

-----------------------------------------------------------------------------
(* FIRST sets. *)
get_first_set_of_string(str, F) ==
    LET solid == {i \in DOMAIN str : NULL \notin F[str[i]]}
        upto == IF solid = {} THEN Len(str) ELSE Min(solid)
    IN  (UNION {F[str[i]] : i \in 1..upto} \ {NULL}) \cup (IF solid = {} THEN {NULL} ELSE {})

FirstEvents ==
    SelectSeq([x \in 1..grammar.nsymbols |->
                 IF x \in Terminals THEN <<x, x>>
                 ELSE IF \E p \in ByLhs(x) : Rhs(p) = <<>> THEN <<NULL, x>> ELSE <<>>],
              LAMBDA e : e # <<>>)

Ascending(S) == SelectSeq([i \in 1..(grammar.nterminals + 1) |-> i - 1], LAMBDA y : y \in S)

\* What is missing from the FIRST sets of the symbols that depend on x.
NewEvents(x, F) ==
    LET Depends(n) == \E p \in ByLhs(n) : x \in ToSet(Rhs(p))
        Missing(p) == Ascending(get_first_set_of_string(Rhs(p), F) \ F[Lhs(p)])
    IN  FlattenSeq([n \in 1..grammar.nsymbols |-> FlattenSeq([p \in Productions |->
            IF Lhs(p) = n /\ Depends(n)
            THEN [i \in DOMAIN Missing(p) |-> <<Missing(p)[i], n>>] ELSE <<>>])])

\* One event: the symbol is added, then the ones that depend on it are looked at again.
compute_first_sets ==
    /\ outcome = "firsts"
    /\ events # <<>>
    /\ LET e == Head(events) IN
       \E F \in {[firsts EXCEPT ![e[2]] = @ \cup {e[1]}]} :
          /\ firsts' = F
          /\ events' = Tail(events) \o (IF F = firsts THEN <<>> ELSE NewEvents(e[2], F))
    /\ UNCHANGED <<grammar, outcome, states, front, goals, contexts, complete, lanes, reader>>

-----------------------------------------------------------------------------
(***************************************************************************)
(* Lane tracing: the context of a reduction comes from the originators of  *)
(* its state-config, the state-configs with a dot before the left hand     *)
(* side, in the states where the production began.  Where nothing may      *)
(* follow an originator, tracing goes on from there.                       *)
(***************************************************************************)
StateConfigs == UNION {{<<s, c[1], c[2]>> : c \in states[s].configs} : s \in DOMAIN states}
Before(a, b) == \/ a[1] < b[1]
                \/ a[1] = b[1] /\ (a[2] < b[2] \/ (a[2] = b[2] /\ a[3] < b[3]))
Least(S) == CHOOSE a \in S : \A b \in S \ {a} : Before(a, b)

immediate_predecessors(sc) ==
    {<<sc[1], c[1], c[2]>> :
        c \in {c \in states[sc[1]].configs : ~AtEnd(c) /\ AfterDot(c) = Lhs(sc[2])}}

transition_predecessors(sc) ==
    IF sc[3] = 0 THEN {}
    ELSE LET x == Rhs(sc[2])[sc[3]] IN
         {<<s, sc[2], sc[3] - 1>> :
            s \in {s \in DOMAIN states : x \in DOMAIN states[s].shifts /\ states[s].shifts[x] = sc[1]}}

originators(sc) ==
    LET back == After(LAMBDA acc, x : acc \cup UNION {transition_predecessors(t) : t \in acc},
                         {sc}, Rhs(sc[2]))
    IN  UNION {immediate_predecessors(t) : t \in back}

get_follow_string(sc) == SubSeq(Rhs(sc[2]), sc[3] + 2, Len(Rhs(sc[2])))

\* The LR(0) machine is finished; it may do, or else contexts are needed.
start_contexts ==
    /\ outcome = "lr0"
    /\ front > Len(states)
    /\ IF determine_adequate_states(LAMBDA s, c : lr0_context(c)) = DOMAIN states
       THEN /\ outcome' = "parser"
            /\ UNCHANGED <<firsts, events, contexts, complete>>
       ELSE /\ outcome' = "firsts"
            /\ firsts' = [x \in 1..grammar.nsymbols |-> {}]
            /\ events' = FirstEvents
            /\ complete' = {sc \in StateConfigs : sc[2] = accept_production}
            /\ contexts' = [sc \in StateConfigs |-> IF sc[2] = accept_production
                                                    THEN {EndTerminal} ELSE {}]
    /\ UNCHANGED <<grammar, states, front, goals, lanes, reader>>

\* The state-configs of reductions in inadequate states.
start_tracing ==
    /\ outcome = "firsts"
    /\ events = <<>>
    /\ outcome' = "tracing"
    /\ goals' = LET adequate == determine_adequate_states(LAMBDA s, c : lr0_context(c)) IN
                UNION {{<<s, c[1], c[2]>> : c \in Reductions(s)} : s \in DOMAIN states \ adequate}
    /\ UNCHANGED <<grammar, states, front, firsts, events, contexts, complete, lanes, reader>>

\* Faulty variant: the failures of the one before are still counted.
Turn_counts(l) ==
    [l EXCEPT !.pointer = Len(l.lane), !.tests_failed = FALSE, !.popping = FALSE,
              !.todo = originators(Last(l.lane))]

\* The top of the lane is the state-config to look at now.
Turn(l) ==
    [l EXCEPT !.pointer = Len(l.lane), !.nfailed = 0, !.tests_failed = FALSE, !.popping = FALSE,
              !.todo = originators(Last(l.lane))]

compute_context_set ==
    /\ outcome = "tracing" /\ lanes = <<>> /\ goals # {}
    /\ goals' = goals \ {Least(goals)}
    /\ lanes' = LET zeta_j == Least(goals) IN
                IF zeta_j \in complete THEN <<>>
                ELSE Turn([goal |-> zeta_j, lane |-> <<zeta_j>>, stack |-> <<>>, in_lane |-> {zeta_j},
                           pointer |-> 1, nfailed |-> 0, tests_failed |-> FALSE,
                           popping |-> FALSE, todo |-> {}])
    /\ UNCHANGED <<grammar, outcome, states, front, firsts, events, contexts, complete, reader>>

\* What is new goes to all state-configs of the lane up to the pointer, from the
\* top down, less what those above have already.
context_adding_routine(lane, pointer, generated) ==
    After(LAMBDA acc, v :
             IF v \in {MARKER, ZERO} THEN acc
             ELSE [new |-> acc.new \ acc.contexts[v],
                   contexts |-> [acc.contexts EXCEPT ![v] = @ \cup acc.new]],
          [new |-> generated, contexts |-> contexts], Reverse(SubSeq(lane, 1, pointer))).contexts

\* The first originator to fail goes on the lane, the others on the stack.
deal_with_tests_failed(l, sc) ==
    LET top == Last(l.lane)
        l1 == CASE l.nfailed = 0 -> [l EXCEPT !.lane = Append(@, sc), !.in_lane = @ \cup {sc},
                                              !.tests_failed = TRUE]
                [] l.nfailed = 1 -> [l EXCEPT !.lane = Front(@) \o <<MARKER, top>>,
                                              !.stack = @ \o <<MARKER, sc>>]
                [] OTHER -> [l EXCEPT !.stack = Append(@, sc)]
    IN  [l1 EXCEPT !.nfailed = @ + 1]

\* A loop: markers between sc and the pointer move to the top of the lane.
move_markers(l, sc) ==
    LET loc == CHOOSE i \in DOMAIN l.lane : l.lane[i] = sc
        moved == {i \in (loc + 1)..(l.pointer - 1) : l.lane[i] = MARKER}
        zeroed == [i \in DOMAIN l.lane |-> IF i \in moved THEN ZERO ELSE l.lane[i]]
        markers == [i \in 1..Cardinality(moved) |-> MARKER]
    IN  [l EXCEPT !.lane = IF l.tests_failed THEN Front(zeroed) \o markers \o <<Last(zeroed)>>
                           ELSE zeroed \o markers]

\* The lane goes on from an originator that nothing may follow, unless it is known.
TracesOn(follow, sc) == (follow \subseteq {NULL} \/ NULL \in follow) /\ sc \notin complete

\* One originator of the state-config under the pointer.
do_loop ==
    /\ outcome = "tracing" /\ lanes # <<>> /\ ~lanes.popping /\ lanes.todo # {}
    /\ \E sc \in {Least(lanes.todo)} :
       LET follow == get_first_set_of_string(get_follow_string(sc), firsts)
           heads == follow \ {NULL}
           known == IF heads = {} \/ (NULL \in follow /\ sc \in complete) THEN contexts[sc] ELSE {}
           further == TracesOn(follow, sc)
           looped == sc \in lanes.in_lane
           l == [lanes EXCEPT !.todo = @ \ {sc}]
       IN \/ /\ further /\ looped /\ heads # {}
             /\ outcome' = "ambiguous"
             /\ UNCHANGED <<lanes, contexts>>
          \/ /\ further /\ looped /\ heads = {}
             /\ lanes' = move_markers(l, sc)
             /\ contexts' = context_adding_routine(lanes'.lane, l.pointer, known)
             /\ UNCHANGED outcome
          \/ /\ further /\ ~looped
             /\ contexts' = context_adding_routine(l.lane, l.pointer, heads)
             /\ IF l.nfailed = 1 /\ l.lane[Len(l.lane) - 1] # l.lane[l.pointer]
                THEN outcome' = "check failed" /\ UNCHANGED lanes
                ELSE lanes' = deal_with_tests_failed(l, sc) /\ UNCHANGED outcome
          \/ /\ ~further
             /\ lanes' = l
             /\ contexts' = context_adding_routine(l.lane, l.pointer, heads \cup known)
             /\ UNCHANGED outcome
    /\ UNCHANGED <<grammar, states, front, firsts, events, goals, complete, reader>>

\* All originators were looked at: the first that failed is next, or the lane is popped.
end_do_loop ==
    /\ outcome = "tracing" /\ lanes # <<>> /\ ~lanes.popping /\ lanes.todo = {}
    /\ lanes' = IF lanes.tests_failed THEN Turn(lanes) ELSE [lanes EXCEPT !.popping = TRUE]
    /\ UNCHANGED <<grammar, outcome, states, front, firsts, events, goals, contexts, complete, reader>>

\* The other productions of the same left hand side that begin in the same state.
heuristic_propagation_of_context_sets(sc) ==
    IF sc[3] # 0 THEN {}
    ELSE {t \in StateConfigs : t[1] = sc[1] /\ t[3] = 0 /\ Lhs(t[2]) = Lhs(sc[2])} \ {sc}

Popped(l, sc) == [l EXCEPT !.lane = Front(@), !.in_lane = @ \ {sc}]

pop_lane ==
    /\ outcome = "tracing" /\ lanes # <<>> /\ lanes.popping
    /\ LET l == lanes
           top == Last(l.lane)
       IN \/ /\ top = MARKER
             /\ lanes' = CASE Last(l.stack) = MARKER ->
                                [l EXCEPT !.stack = Front(@), !.lane = Front(@)]
                           [] Last(l.stack) \in complete -> [l EXCEPT !.stack = Front(@)]
                           [] OTHER -> Turn([l EXCEPT !.stack = Front(@),
                                                      !.lane = Append(@, Last(l.stack)),
                                                      !.in_lane = @ \cup {Last(l.stack)}])
             /\ UNCHANGED <<contexts, complete>>
          \/ /\ top = ZERO
             /\ lanes' = [l EXCEPT !.lane = Front(@)]
             /\ UNCHANGED <<contexts, complete>>
          \/ /\ top \notin {MARKER, ZERO}
             /\ LET alike == heuristic_propagation_of_context_sets(top) IN
                /\ complete' = complete \cup {top} \cup alike
                /\ contexts' = [sc \in DOMAIN contexts |->
                                  IF sc \in alike THEN contexts[top] ELSE contexts[sc]]
             /\ lanes' = IF l.lane = <<l.goal>> THEN <<>>
                         ELSE Popped(l, top)
    /\ UNCHANGED <<grammar, outcome, states, front, firsts, events, goals, reader>>

build_lalr1_parser ==
    /\ outcome = "tracing" /\ lanes = <<>> /\ goals = {}
    /\ outcome' = IF determine_adequate_states(ReduceContext) = DOMAIN states
                  THEN "parser" ELSE "not LALR(1)"
    /\ UNCHANGED <<grammar, states, front, firsts, events, goals, contexts, complete, lanes, reader>>

-----------------------------------------------------------------------------
(***************************************************************************)
(* The parser at work.  The value of a symbol is the text it stands for,   *)
(* as it is for DebugReader.                                               *)
(***************************************************************************)
Reduces(s, t) == {c \in Reductions(s) : t \in ReduceContext(s, c)}

\* The next token, or the end; what has been read is remembered.
next_token ==
    /\ outcome = "parser" /\ reader.token = 0 /\ ~reader.did_accept /\ ~reader.failed
    /\ \E t \in (IF Len(reader.text) < MaxTokens THEN Terminals ELSE {EndTerminal}) :
         reader' = [reader EXCEPT !.token = t]
    /\ UNCHANGED <<grammar, outcome, states, front, firsts, events, goals, contexts, complete, lanes>>

execute_shift(r) ==
    [r EXCEPT !.stack = Append(@, states[Last(@)].shifts[r.token]),
              !.values = Append(@, <<r.token>>), !.text = Append(@, r.token), !.token = 0]

execute_reduce(r, p) ==
    LET n == Len(Rhs(p))
        below == SubSeq(r.stack, 1, Len(r.stack) - n)
        kept == SubSeq(r.values, 1, Len(r.values) - n)
        rhs == SubSeq(r.values, Len(r.values) - n + 1, Len(r.values))
    IN  [r EXCEPT !.stack = Append(below, states[Last(below)].shifts[Lhs(p)]),
                  !.values = Append(kept, FlattenSeq(rhs))]

\* One turn of the loop: a reduction does not consume the token.
at_token ==
    /\ outcome = "parser" /\ reader.token # 0 /\ ~reader.did_accept /\ ~reader.failed
    /\ LET r == reader
           s == Last(r.stack)
       IN \/ /\ r.token \in TerminalShifts(s)
             /\ reader' = execute_shift(r)
          \/ \E c \in Reduces(s, r.token) :
             reader' = IF c[1] = accept_production THEN [r EXCEPT !.did_accept = TRUE]
                       ELSE execute_reduce(r, c[1])
          \/ /\ r.token \notin TerminalShifts(s)
             /\ Reduces(s, r.token) = {}
             /\ reader' = [r EXCEPT !.failed = TRUE]
    /\ UNCHANGED <<grammar, outcome, states, front, firsts, events, goals, contexts, complete, lanes>>

-----------------------------------------------------------------------------
Init ==
    /\ grammar \in {build_grammar(lang) : lang \in Languages}
    /\ outcome = IF grammar.rooted THEN "lr0" ELSE "no root"
    /\ states = IF grammar.rooted THEN <<StartState>> ELSE <<>>
    /\ front = 1
    /\ firsts = <<>> /\ events = <<>> /\ goals = {} /\ contexts = <<>> /\ complete = {}
    /\ lanes = <<>>
    /\ reader = [stack |-> <<1>>, values |-> <<>>, token |-> 0, text |-> <<>>,
                 did_accept |-> FALSE, failed |-> FALSE]

Next == \/ build_lr0_parser \/ start_contexts \/ compute_first_sets \/ start_tracing
        \/ compute_context_set \/ do_loop \/ end_do_loop \/ pop_lane \/ build_lalr1_parser
        \/ next_token \/ at_token

\* It is one thread that does not stop before it is done.
Spec == Init /\ [][Next]_vars /\ WF_vars(Next)

-----------------------------------------------------------------------------
\* The least solution of the equations that contexts have to satisfy, if the
\* originators of a state-config are Orig(sc).
LeastContexts(Orig(_)) ==
    LET orig == [sc \in StateConfigs |-> Orig(sc)]
        follow == [sc \in {sc \in StateConfigs : ~AtEnd(<<sc[2], sc[3]>>)} |->
                     get_first_set_of_string(get_follow_string(sc), firsts)]
        Step(C) == [sc \in DOMAIN C |-> C[sc] \cup UNION {
                      (follow[o] \ {NULL}) \cup
                      (IF follow[o] \subseteq {NULL} \/ NULL \in follow[o] THEN C[o] ELSE {}) : o \in orig[sc]}]
        rounds == [i \in 1..Cardinality(StateConfigs) |-> i]
    IN  After(LAMBDA C, i : Step(C),
                 [sc \in StateConfigs |-> IF sc[2] = accept_production THEN {EndTerminal} ELSE {}], rounds)

\* However lanes cross and loop, a context that is said to be complete is what
\* the originators of its state-config give, no more and no less.
LanesExact ==
    outcome \in {"parser", "not LALR(1)"} /\ contexts # <<>> =>
        LET C == LeastContexts(originators) IN \A sc \in complete : contexts[sc] = C[sc]

\* The words of up to n symbols that each symbol of a grammar stands for.
Words(g, n) ==
    LET Join(A, B) == {w \in {a \o b : a \in A, b \in B} : Len(w) <= n}
        W0 == [x \in 1..g.nsymbols |-> IF x < g.nterminals THEN {<<x>>} ELSE {}]
        Step(W) == [x \in DOMAIN W |-> W[x] \cup UNION {
                      After(LAMBDA acc, y : Join(acc, W[y]), {<<>>}, g.productions[p].rhs) :
                      p \in {p \in DOMAIN g.productions : g.productions[p].lhs = x}}]
        rounds == [i \in 1..((n + 1) * g.nsymbols) |-> i]
    IN  After(LAMBDA W, i : Step(W), W0, rounds)[g.nsymbols]
Sentences == [lang \in Languages |-> Words(build_grammar(lang), MaxTokens)]

\* The parser accepts the sentences of the language and gives the text back in
\* order; it fails where no sentence goes on.
ReadsTheLanguage ==
    LET sentences == Sentences[grammar.lang] IN
    /\ reader.did_accept => reader.text \in sentences /\ reader.values = <<reader.text>>
    /\ reader.failed => \A w \in sentences :
          IF reader.token = EndTerminal THEN w # reader.text
          ELSE ~IsPrefix(Append(reader.text, reader.token), w)

\* The true originators are in the states where the production begins.
TrueOriginators(sc) ==
    LET back == After(LAMBDA acc, x : acc \cup UNION {transition_predecessors(t) : t \in acc},
                      {sc}, Rhs(sc[2]))
    IN  UNION {immediate_predecessors(t) : t \in {t \in back : t[3] = 0}}
TrulyAdequate ==
    LET C == LeastContexts(TrueOriginators) IN
    determine_adequate_states(LAMBDA s, c : C[<<s, c[1], c[2]>>]) = DOMAIN states

\* Tracing gives up only on grammars that are not LALR(1).
GivesUpRightly == outcome \in {"ambiguous", "check failed"} => ~TrulyAdequate

\* "ERROR: The grammar is not LALR(1)." is said only of grammars that are not.
RefusedRightly == outcome = "not LALR(1)" => ~TrulyAdequate

\* The assertion in deal_with_tests_failed: when a second originator fails, the
\* first is on top of the lane and the state-config they are originators of below.
MarkersInStep == outcome # "check failed"

\* A parser is built or refused, and what it reads is accepted or refused.
ComesToAnEnd == <>(outcome \notin {"lr0", "firsts", "tracing"} /\
                   (outcome = "parser" => reader.did_accept \/ reader.failed))
=============================================================================
