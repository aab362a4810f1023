-------------------------------- MODULE Reader ------------------------------
(***************************************************************************)
(* Finite automata (Omega_h_finite_automaton.cpp) as the reader of regular *)
(* expressions puts them together, one production after another            *)
(* (regex::Reader::at_reduce), and the lexer that is made of one of them   *)
(* for each token of a language (build_lexer).                             *)
(*                                                                         *)
(* States count from 1, and 0 is no state; tokens too.  An automaton is    *)
(* its table, whose rows have two more columns for epsilons if it is not   *)
(* deterministic, and the token that each state accepts.  With each goes   *)
(* the set of words, up to a length, that it is meant to accept.           *)
(***************************************************************************)
EXTENDS Integers, SequencesExt, FiniteSetsExt

CONSTANTS NCHARS,       \* how many characters there are
          MaxLen,       \* bound: the length of the words that are compared
          MaxOps,       \* bound: the productions of one expression
          MaxStates,    \* bound: the states of an automaton
          MaxExprs     \* bound: the tokens of a language

VARIABLES values,       \* the value stack of the reader
          nops,         \* how many productions were reduced
          lexer         \* the lexer, and what its tokens are meant to be

vars == <<values, nops, lexer>>

Chars == 1..NCHARS
epsilon0 == NCHARS + 1
epsilon1 == NCHARS + 2
Columns(fa) == IF fa.is_deterministic THEN Chars ELSE 1..epsilon1
States(fa) == DOMAIN fa.table

-----------------------------------------------------------------------------
(* Making automata. *)
add_state(fa) == [fa EXCEPT !.table = Append(@, [x \in Columns(fa) |-> 0]),
                            !.accepted = Append(@, 0)]
add_transitions(fa, T) ==
    [fa EXCEPT !.table = [s \in DOMAIN @ |-> [x \in DOMAIN @[s] |->
        IF \E t \in T : t[1] = s /\ t[2] = x
        THEN (CHOOSE t \in T : t[1] = s /\ t[2] = x)[3] ELSE @[s][x]]]]
Accepting(fa) == {s \in States(fa) : fa.accepted[s] # 0}

\* The states of another automaton, after the ones that are there.
append_states(fa, other) ==
    LET offset == Len(fa.table) IN
    [fa EXCEPT !.table = @ \o [s \in States(other) |-> [x \in Columns(fa) |->
                   IF x \in Columns(other) /\ other.table[s][x] # 0
                   THEN other.table[s][x] + offset ELSE 0]],
               !.accepted = @ \o other.accepted]

Empty(det) == [is_deterministic |-> det, table |-> <<>>, accepted |-> <<>>]
make_set_nfa(chars, token) ==
    [is_deterministic |-> TRUE,
     table |-> <<[x \in Chars |-> IF x \in chars THEN 2 ELSE 0], [x \in Chars |-> 0]>>,
     accepted |-> <<0, token>>]

unite(a, b) ==
    LET both == append_states(append_states(add_state(Empty(FALSE)), a), b)
    IN  add_transitions(both, {<<1, epsilon0, 2>>, <<1, epsilon1, Len(a.table) + 2>>})

concat(a, b, token) ==
    LET n == Len(a.table)
        both == append_states(append_states(Empty(FALSE), a), b)
    IN  [add_transitions(both, {<<s, epsilon0, n + 1>> : s \in Accepting(a)})
           EXCEPT !.accepted = [s \in DOMAIN @ |-> IF s - n \in Accepting(b) THEN token ELSE 0]]

\* A new accepting state, and epsilons back to the start.
plus(a, token) ==
    LET new == add_state(append_states(Empty(FALSE), a))
        last == Len(new.table)
    IN  [add_transitions(new, UNION {{<<s, epsilon0, last>>, <<s, epsilon1, 1>>} : s \in Accepting(a)})
           EXCEPT !.accepted = [s \in DOMAIN @ |-> IF s = last THEN token ELSE 0]]

\* A chain of epsilons from a new start through all old accepting states to a new one.
maybe(a, token) ==
    LET new == add_state(append_states(add_state(Empty(FALSE)), a))
        last == Len(new.table)
        old == {s + 1 : s \in Accepting(a)}
        Next(s) == Min({t \in old \cup {last} : t > s})
    IN  [add_transitions(new, {<<1, epsilon1, 2>>} \cup {<<s, epsilon0, Next(s)>> : s \in old \cup {1}})
           EXCEPT !.accepted = [s \in DOMAIN @ |-> IF s = last THEN token ELSE 0]]

star(a, token) == maybe(plus(a, token), token)

-----------------------------------------------------------------------------
(* Powersets, and merging states. *)
StepSet(fa, S, x) == {fa.table[s][x] : s \in S} \ {0}

RECURSIVE get_epsilon_closure(_, _)
get_epsilon_closure(fa, S) ==
    LET more == S \cup StepSet(fa, S, epsilon0) \cup StepSet(fa, S, epsilon1)
    IN  IF more = S THEN S ELSE get_epsilon_closure(fa, more)

\* The token of a set of states is the least.
MinAccepted(fa, S) ==
    LET tokens == {fa.accepted[s] : s \in S} \ {0} IN IF tokens = {} THEN 0 ELSE Min(tokens)

\* One more row, and the new sets of states that it leads to.
AddRow(fa, d) ==
    LET S == d.sets[Len(d.table) + 1]
        To(x) == LET T == StepSet(fa, S, x) IN IF T = {} THEN {} ELSE get_epsilon_closure(fa, T)
        sets[x \in 0..NCHARS] ==
            IF x = 0 THEN d.sets
            ELSE IF To(x) \in {{}} \cup ToSet(sets[x - 1]) THEN sets[x - 1]
            ELSE Append(sets[x - 1], To(x))
        all == sets[NCHARS]
    IN  [sets |-> all,
         table |-> Append(d.table, [x \in Chars |->
                     IF To(x) = {} THEN 0 ELSE CHOOSE i \in DOMAIN all : all[i] = To(x)])]

RECURSIVE Rows(_, _)
Rows(fa, d) == IF Len(d.table) = Len(d.sets) THEN d
               ELSE CHOOSE e \in {Rows(fa, c) : c \in {AddRow(fa, d)}} : TRUE

make_deterministic(fa) ==
    IF fa.is_deterministic THEN fa
    ELSE LET d == Rows(fa, [sets |-> <<get_epsilon_closure(fa, {1})>>, table |-> <<>>])
         IN  [is_deterministic |-> TRUE, table |-> d.table,
              accepted |-> [i \in DOMAIN d.sets |-> MinAccepted(fa, d.sets[i])]]

SameRow(fa, s, t) == fa.accepted[s] = fa.accepted[t] /\ fa.table[s] = fa.table[t]

\* States that are the same become one, the first.
simplify_once(fa) ==
    LET firsts == SelectSeq([s \in States(fa) |-> s],
                            LAMBDA s : \A t \in 1..(s - 1) : ~SameRow(fa, s, t))
        Simple(s) == CHOOSE i \in DOMAIN firsts : SameRow(fa, firsts[i], s)
    IN  [fa EXCEPT !.table = [i \in DOMAIN firsts |-> [x \in Columns(fa) |->
                        IF fa.table[firsts[i]][x] = 0 THEN 0 ELSE Simple(fa.table[firsts[i]][x])]],
                   !.accepted = [i \in DOMAIN firsts |-> fa.accepted[firsts[i]]]]

RECURSIVE simplify(_)
simplify(fa) ==
    CHOOSE out \in {IF Len(once.table) < Len(fa.table) THEN simplify(once) ELSE once :
                      once \in {simplify_once(fa)}} : TRUE

-----------------------------------------------------------------------------
(***************************************************************************)
(* The reader's productions.  Sets of words are put together by what the   *)
(* expression means.                                                       *)
(***************************************************************************)
result_token == Len(lexer.tokens) + 1
Words == UNION {[1..n -> Chars] : n \in 0..MaxLen}
Short(W) == {w \in W : Len(w) <= MaxLen}
Join(V, W) == Short({v \o w : v \in V, w \in W})
RECURSIVE Repeat(_, _)
Repeat(V, W) == LET more == W \cup Join(W, V) IN IF more = W THEN W ELSE Repeat(V, more)

Push(fa, words) == Len(fa.table) <= MaxStates /\ values' = Append(values, [fa |-> fa, words |-> words])
Push1(fa, words) ==
    Len(fa.table) <= MaxStates /\ values' = Append(Front(values), [fa |-> fa, words |-> words])
Push2(fa, words) ==
    Len(fa.table) <= MaxStates /\ values' = Append(Front(Front(values)), [fa |-> fa, words |-> words])
Top == Last(values)
Under == values[Len(values) - 1]
Reduced == /\ ~lexer.built /\ Len(lexer.tokens) < MaxExprs
           /\ nops < MaxOps /\ nops' = nops + 1 /\ UNCHANGED lexer

PROD_SINGLE_CHAR ==
    Reduced /\ \E c \in Chars : Push(make_set_nfa({c}, result_token), {<<c>>})
PROD_ANY == Reduced /\ Push(make_set_nfa(Chars, result_token), {<<c>> : c \in Chars})
\* A set, or the characters that are not in it.
PROD_SINGLE_SET ==
    /\ Reduced
    /\ \E items \in SUBSET Chars \ {{}}, negative \in BOOLEAN :
         LET set == IF negative THEN Chars \ items ELSE items IN
         Push(make_set_nfa(set, result_token), {<<c>> : c \in set})
PROD_UNION == /\ Reduced /\ Len(values) >= 2
              /\ Push2(unite(Under.fa, Top.fa), Under.words \cup Top.words)
PROD_CONCAT == /\ Reduced /\ Len(values) >= 2
               /\ Push2(concat(Under.fa, Top.fa, result_token), Join(Under.words, Top.words))
PROD_STAR == /\ Reduced /\ values # <<>>
             /\ Push1(star(Top.fa, result_token), Repeat(Top.words, {<<>>}))
PROD_PLUS == /\ Reduced /\ values # <<>>
             /\ Push1(plus(Top.fa, result_token), Repeat(Top.words, Top.words))
PROD_MAYBE == /\ Reduced /\ values # <<>>
              /\ Push1(maybe(Top.fa, result_token), Top.words \cup {<<>>})

\* The expression is read, and its automaton is united with those before.
PROD_REGEX ==
    /\ Len(values) = 1 /\ Len(lexer.tokens) < MaxExprs
    /\ \E dfa \in {simplify(make_deterministic(Top.fa))} :
         lexer' = [fa |-> IF lexer.tokens = <<>> THEN dfa ELSE unite(lexer.fa, dfa),
                   tokens |-> Append(lexer.tokens, Top.words), built |-> FALSE]
    /\ values' = <<>> /\ nops' = 0

build_lexer ==
    /\ values = <<>> /\ lexer.tokens # <<>> /\ ~lexer.built
    /\ lexer' = [lexer EXCEPT !.fa = simplify(make_deterministic(@)), !.built = TRUE]
    /\ UNCHANGED <<values, nops>>

Init == /\ values = <<>> /\ nops = 0
        /\ lexer = [fa |-> Empty(TRUE), tokens |-> <<>>, built |-> FALSE]
Next == \/ PROD_SINGLE_CHAR \/ PROD_ANY \/ PROD_SINGLE_SET \/ PROD_UNION \/ PROD_CONCAT
        \/ PROD_STAR \/ PROD_PLUS \/ PROD_MAYBE \/ PROD_REGEX \/ build_lexer
Spec == Init /\ [][Next]_vars

-----------------------------------------------------------------------------
\* The token that an automaton gives a word.
Close(fa, S) == IF fa.is_deterministic THEN S ELSE get_epsilon_closure(fa, S)
RECURSIVE Reached(_, _)
Reached(fa, w) ==
    IF w = <<>> THEN Close(fa, {1})
    ELSE CHOOSE T \in {Close(fa, StepSet(fa, S, Last(w))) : S \in {Reached(fa, Front(w))}} : TRUE
TokenOf(fa, w) == MinAccepted(fa, Reached(fa, w))

\* Whatever it is put together from, an automaton accepts what its expression means.
AcceptsItsWords ==
    \A i \in DOMAIN values : \A w \in Words :
        (TokenOf(values[i].fa, w) # 0) = (w \in values[i].words)

\* An accepting state leads nowhere: concat, plus and maybe add their epsilons to
\* such states and assert that there are none, and maybe makes a chain of them
\* that would otherwise lead from the end of one word into another.
AcceptingStatesEnd ==
    \A i \in DOMAIN values : LET fa == values[i].fa IN
        \A s \in Accepting(fa), x \in Columns(fa) : fa.table[s][x] = 0

\* A lexer gives a word the first token whose expression it matches.
FirstTokenWins ==
    lexer.tokens # <<>> => \A w \in Words :
        LET mine == {i \in DOMAIN lexer.tokens : w \in lexer.tokens[i]} IN
        TokenOf(lexer.fa, w) = IF mine = {} THEN 0 ELSE Min(mine)

-----------------------------------------------------------------------------
(***************************************************************************)
(* How Reader (Omega_h_reader.cpp) cuts a stream into tokens: characters   *)
(* go through the lexer until it has nowhere to go, then the reader backs  *)
(* up to the last place where it accepted; in an indentation-sensitive     *)
(* language a newline is followed by INDENT and DEDENT tokens.             *)
(*                                                                         *)
(* The stream is written as it is read.  The parser is left open: before   *)
(* it shifts a token it may reduce, and it may fail.  A token is recorded  *)
(* with the part of the stream that it was.  Messages are left out.        *)
(***************************************************************************)
CONSTANTS TextChars,          \* the characters of the language
          Other,          \* a character that is none of them
          NewlineChar,    \* "\n"
          step(_, _),     \* the lexer: its next state, or 0
          accepts(_),     \* the token that it accepts in a state, or 0
          NEWLINE, INDENT, DEDENT,    \* the tokens of IndentInfo
          Rhs,            \* the lengths of the right hand sides that there are
          sensitive,      \* whether indentation matters
          MaxText,        \* bound: the length of a stream
          MaxReads        \* bound: how many streams one reader reads

VARIABLES text,           \* the stream, as far as it is known
          pos,            \* how much of it was read
          lex,            \* the lexer: state, start of its text, token, last accept
          place,          \* line and column
          tokens,         \* what was given to the parser
          indents,        \* indent_text and indent_stack
          symbols,        \* the height of value_stack, symbol_indentation_stack, and
                          \* how much of that an earlier stream left there
          status,         \* idle, reading, done, failed, or mismatch
          nreads

readVars == <<text, pos, lex, place, tokens, indents, symbols, status, nreads>>

StartState == 1
LexerText == SubSeq(text, lex.start + 1, pos)
StartPlace == [line |-> 1, column |-> 1]

update_position(p, c) ==
    IF c = NewlineChar THEN [line |-> p.line + 1, column |-> 1]
    ELSE [p EXCEPT !.column = @ + 1]

Fresh(at) == [state |-> StartState, start |-> at, token |-> 0, accept |-> 0, place |-> StartPlace]

\* reset_lexer_state leaves the last accept as it was.
reset_lexer_state(at) ==
    [lex EXCEPT !.state = StartState, !.start = at, !.token = 0]

read_stream ==
    /\ status \in {"idle", "done", "failed", "mismatch"} /\ nreads < MaxReads
    /\ nreads' = nreads + 1
    /\ text' = <<>> /\ pos' = 0 /\ tokens' = <<>>
    /\ lex' = [Fresh(0) EXCEPT !.accept = lex.accept, !.place = lex.place]
    /\ place' = StartPlace
    /\ indents' = [text |-> <<>>, stack |-> <<>>]
    /\ symbols' = [symbols EXCEPT !.values = 0, !.left = Len(symbols.indentation)]
    /\ status' = "reading"

-----------------------------------------------------------------------------
(***************************************************************************)
(* at_token for each token of a sequence: maybe a reduction, then a shift  *)
(* with the indentation as it is for that token.                           *)
(***************************************************************************)
Reduce(s, n) ==
    [s EXCEPT !.values = @ + 1 - n,
              !.indentation = IF ~sensitive THEN @
                              ELSE IF n = 0 THEN Append(@, Last(@))
                              ELSE SubSeq(@, 1, Len(@) + 1 - n)]
Shift(s, width) ==
    [s EXCEPT !.values = @ + 1,
              !.indentation = IF sensitive THEN Append(@, width) ELSE @]

\* A reduction of nothing copies the top of the stack, and there has to be one.
CanReduce(s, n) == n <= s.values /\ ~(sensitive /\ n = 0 /\ s.indentation = <<>>)

\* One reduction at most, before the first of the tokens.
at_tokens(news) ==
    \E n \in Rhs \cup {-1} :
        /\ n # -1 => CanReduce(symbols, n)
        /\ tokens' = tokens \o news
        /\ symbols' = LET s0 == IF n = -1 THEN symbols ELSE Reduce(symbols, n)
                          height[k \in 0..Len(news)] ==
                            IF k = 0 THEN s0 ELSE Shift(height[k - 1], news[k].width)
                      IN  height[Len(news)]

Token(t, from, to, width) == [token |-> t, from |-> from, to |-> to, width |-> width]

\* Where the last newline of a text is, and what comes after it.
Indentation(t) ==
    LET last == CHOOSE i \in 0..Len(t) : /\ i = 0 \/ t[i] = NewlineChar
                                         /\ \A j \in (i + 1)..Len(t) : t[j] # NewlineChar
    IN  SubSeq(t, last + 1, Len(t))

\* The levels that end, from the top of the stack.
Closing(stack, minlen) ==
    SelectSeq([i \in DOMAIN stack |-> i],
              LAMBDA i : \A j \in i..Len(stack) : stack[j].end > minlen)

\* What follows a newline; all goes on as "after" unless indentations do not match.
at_token_indent(t, from, to, after) ==
    LET old == indents.text
        new == Indentation(SubSeq(text, from + 1, to))
        first == Token(t, from, to, Len(old))
        closing == Closing(indents.stack, Len(new))
    IN \/ /\ ~sensitive \/ t # NEWLINE \/ new = old
          /\ at_tokens(<<first>>)
          /\ status' = after /\ UNCHANGED indents
       \/ /\ sensitive /\ t = NEWLINE /\ IsStrictPrefix(old, new)
          /\ at_tokens(<<first, Token(INDENT, to, to, Len(new))>>)
          /\ indents' = [text |-> new,
                         stack |-> Append(indents.stack, [start |-> Len(old), end |-> Len(new)])]
          /\ status' = after
       \/ /\ sensitive /\ t = NEWLINE /\ IsStrictPrefix(new, old)
          /\ at_tokens(<<first>> \o [i \in DOMAIN closing |-> Token(DEDENT, to, to, Len(old))])
          /\ indents' = [text |-> new,
                         stack |-> SubSeq(indents.stack, 1, Len(indents.stack) - Len(closing))]
          /\ status' = after
       \/ /\ sensitive /\ t = NEWLINE /\ ~IsPrefix(old, new) /\ ~IsPrefix(new, old)
          /\ at_tokens(<<first>>)
          /\ status' = "mismatch" /\ UNCHANGED indents    \* indent_mismatch

\* The parser has no action for the token.
ParserFails == status' = "failed" /\ UNCHANGED <<tokens, symbols, indents>>

-----------------------------------------------------------------------------
\* The stream position after the last accept.
backtrack_to_last_accept == lex.start + lex.accept

\* The lexer's text ends here.
at_lexer_end(after) ==
    \/ /\ lex.token = 0
       /\ status' = "failed" /\ UNCHANGED <<pos, lex, place, tokens, indents, symbols>>
    \/ /\ lex.token # 0
       /\ at_token_indent(lex.token, lex.start, backtrack_to_last_accept, after) \/ ParserFails
       /\ pos' = backtrack_to_last_accept
       /\ place' = lex.place
       /\ lex' = reset_lexer_state(pos')

Accepted(l, p) == [l EXCEPT !.token = accepts(l.state), !.accept = pos + 1 - l.start, !.place = p]

\* One character, from the stream or given back to it before.
next_char ==
    /\ status = "reading"
    /\ \E c \in (IF pos < Len(text) THEN {text[pos + 1]}
                 ELSE IF Len(text) < MaxText THEN TextChars \cup {Other} ELSE {}) :
         LET next == step(lex.state, c)
             p == update_position(place, c)
             l == [lex EXCEPT !.state = next]
         IN /\ text' = IF pos < Len(text) THEN text ELSE Append(text, c)
            /\ \/ /\ c = Other
                  /\ status' = "failed"
                  /\ UNCHANGED <<pos, lex, place, tokens, indents, symbols>>
               \/ /\ c # Other /\ next = 0
                  /\ at_lexer_end("reading")
               \/ /\ c # Other /\ next # 0
                  /\ pos' = pos + 1 /\ place' = p
                  /\ lex' = IF accepts(next) = 0 THEN l ELSE Accepted(l, p)
                  /\ UNCHANGED <<tokens, indents, symbols, status>>
    /\ UNCHANGED nreads

\* There are no more characters; the end of the stream is the last token.
end_of_stream ==
    /\ status = "reading" /\ pos = Len(text)
    /\ \/ /\ lex.accept < Len(LexerText)
          /\ status' = "failed" /\ UNCHANGED <<pos, lex, place, tokens, indents, symbols>>
       \/ /\ lex.accept >= Len(LexerText)
          /\ at_lexer_end("done")
    /\ UNCHANGED <<text, nreads>>

ReadInit ==
    /\ text = <<>> /\ pos = 0 /\ tokens = <<>> /\ nreads = 0 /\ status = "idle"
    /\ lex = Fresh(0) /\ place = StartPlace
    /\ indents = [text |-> <<>>, stack |-> <<>>]
    /\ symbols = [values |-> 0, indentation |-> <<>>, left |-> 0]
ReadNext == read_stream \/ next_char \/ end_of_stream
ReadSpec == ReadInit /\ [][ReadNext]_vars

-----------------------------------------------------------------------------
\* The state of the lexer after a word, and the lengths that it accepts from a place on.
Lexed(w) == LET at[k \in 0..Len(w)] ==
                    IF k = 0 THEN StartState ELSE IF at[k - 1] = 0 THEN 0 ELSE step(at[k - 1], w[k])
            IN  at[Len(w)]
Matches(from) ==
    {to \in (from + 1)..Len(text) : LET s == Lexed(SubSeq(text, from + 1, to)) IN s # 0 /\ accepts(s) # 0}
RealTokens == SelectSeq(tokens, LAMBDA t : t.from < t.to)

\* Whatever was given back, the tokens follow one another without a gap, and
\* each is as long as the stream allows.
LongestMatch ==
    LET real == RealTokens IN
    /\ \A i \in DOMAIN real :
          /\ real[i].from = IF i = 1 THEN 0 ELSE real[i - 1].to
          /\ real[i].to \in Matches(real[i].from)
          /\ \A to \in Matches(real[i].from) : to <= real[i].to
    /\ status = "done" => real # <<>> /\ Last(real).to = Len(text)

\* The line and column that errors are reported at are those of the stream position.
PlaceTrue ==
    status \in {"reading", "done"} =>
        LET newlines == {i \in 1..pos : text[i] = NewlineChar} IN
        /\ place.line = Cardinality(newlines) + 1
        /\ place.column = Len(Indentation(SubSeq(text, 1, pos))) + 1

Count(t) == Cardinality({i \in DOMAIN tokens : tokens[i].token = t})

\* An INDENT is closed by one DEDENT, and a line that is not indented closes all.
IndentsBalance ==
    status \in {"reading", "done"} /\ sensitive =>
        /\ Count(INDENT) - Count(DEDENT) = Len(indents.stack)
        /\ indents.text = <<>> => indents.stack = <<>>
        /\ \A i \in DOMAIN indents.stack :
              /\ indents.stack[i].start < indents.stack[i].end
              /\ indents.stack[i].end <= IF i < Len(indents.stack) THEN indents.stack[i + 1].start
                                         ELSE Len(indents.text)

\* The line that a mismatched line is compared with in the message is the one on
\* top of the stack: indent_mismatch asserts that there is one.
MismatchNamesALine == status = "mismatch" => indents.stack # <<>>

\* Counted from the top, as the YAML reader counts, symbol_indentation_stack has an
\* entry for each symbol of the parser's stack, whatever earlier streams left.
SymbolIndentations == sensitive => Len(symbols.indentation) = symbols.left + symbols.values

\* "accept the longest match": a stream that ends within a longer token is cut up
\* as it would be if it went on.
EndCutsUp ==
    status = "failed" /\ pos = Len(text) /\ lex.accept < Len(LexerText) =>
        Matches(lex.start) = {}
=============================================================================
