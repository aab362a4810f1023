-------------------------------- MODULE MCText --------------------------------
(***************************************************************************)
(* Small instances of what reads text: the parser generator and the        *)
(* readers it drives, expressions, input files, command lines, and the     *)
(* trees that hold what was read.  A behaviour is about one of these       *)
(* parts, named by mode; the parts' variables stay side by side and the    *)
(* others do not move.                                                     *)
(***************************************************************************)
EXTENDS InputYaml

VARIABLES
    mode,       \* the part and its instances
    grammar, outcome, states, front, firsts, events, goals, contexts, complete, lanes,
    reader,     \* Lalr
    values, nops, lexer,                                        \* Reader: its lexers
    text, readPos, lex, place, tokens, indents, symbols, status, nreads,   \* Reader
    variables, functions, program, exprTodo, exprStack, result, given, recorded,
    round,      \* Expr
    heap, root, walkPc, stk, reads, held, asked, calls, why,    \* Inputs: the tree
    line, argc, argv, who, linePc, at, flag, hit, help, used, nargs, ok, style,  \* Inputs: the line
    tree        \* RBTree

lalrVars == <<grammar, outcome, states, front, firsts, events, goals, contexts,
              complete, lanes, reader>>
faVars == <<values, nops, lexer>>
readVars == <<text, readPos, lex, place, tokens, indents, symbols, status, nreads>>
exprVars == <<variables, functions, program, exprTodo, exprStack, result, given,
              recorded, round>>

inputVars == <<heap, root, walkPc, stk, reads, held, asked, calls, why>>
lineVars == <<line, argc, argv, who, linePc, at, flag, hit, help, used, nargs, ok,
              style>>
treeVars == <<tree>>
vars == <<mode, lalrVars, faVars, readVars, exprVars, yamlVars, blockVars, inputVars,
          lineVars, treeVars>>

-----------------------------------------------------------------------------
(* Lalr.                                                                     *)

\* The LR(0) and the LALR(1) grammar of unit_parser.cpp.
G1 == [tokens |-> <<"a", "(", ")", "+">>,
       productions |-> << <<"G", <<"(", "E", ")">> >>, <<"E", <<"E", "+", "T">> >>, <<"E", <<"T">> >>,
                          <<"T", <<"(", "E", ")">> >>, <<"T", <<"a">> >> >>]
NotSlr == [tokens |-> <<"a", "b", "c", "d">>,
           productions |-> << <<"S", <<"A", "a">> >>, <<"S", <<"b", "A", "c">> >>, <<"S", <<"d", "c">> >>,
                              <<"S", <<"b", "d", "a">> >>, <<"A", <<"d">> >> >>]
\* Lists that may be empty, with optional parts before and after.
Optional == [tokens |-> <<"a", "b", "c">>,
             productions |-> << <<"S", <<"O", "L", "P">> >>, <<"O", <<>> >>, <<"O", <<"c">> >>,
                                <<"L", <<"L", "I">> >>, <<"L", <<>> >>, <<"I", <<"a">> >>,
                                <<"P", <<>> >>, <<"P", <<"b", "S1">> >>, <<"S1", <<"O", "P">> >> >>]
\* A chain of right recursions that come back to each other.
RightRecursive == [tokens |-> <<"a", "b">>,
                   productions |-> << <<"S", <<"A">> >>, <<"A", <<"a", "B">> >>, <<"A", <<"b", "A">> >>,
                                      <<"A", <<"a">> >>, <<"B", <<"b", "A">> >>, <<"B", <<"a", "B">> >> >>]
ReadLanguages == {G1, NotSlr, Optional, RightRecursive}

\* A begins what it stands for in two ways, and so does B.
Parts(x, y) == << <<>>, <<x>>, <<x, "A">>, <<"A", x>>, <<x, "B">>, <<"B", "A">>, <<"B">>, <<"A", "B">>, <<"B", y>>,
                <<x, "A", "B", y>> >>
SmallLanguages ==
    {[tokens |-> <<"a", "b">>,
      productions |-> << <<"S", s>>, <<"A", Parts("a", "b")[i]>>, <<"A", Parts("a", "b")[j]>>,
                         <<"B", Parts("b", "a")[k]>>, <<"B", Parts("b", "a")[l]>> >>] :
        s \in {<<"A", "B">>, <<"A", "a", "B">>}, i \in 1..2, j \in 3..10, k \in 1..2, l \in {2, 4, 7, 9}}

Lanes == INSTANCE Lalr WITH Languages <- SmallLanguages, MaxTokens <- 0
Parsing == INSTANCE Lalr WITH Languages <- ReadLanguages, MaxTokens <- 5

-----------------------------------------------------------------------------
(* Reader: expressions over two characters, and the lexer for the tokens a,  *)
(* abb, b, a blank, and newlines each with blanks and tabs after it.           *)
Rows == << [a |-> 2, b |-> 5, nl |-> 6, sp |-> 7, tab |-> 0],
           [a |-> 0, b |-> 3, nl |-> 0, sp |-> 0, tab |-> 0],
           [a |-> 0, b |-> 4, nl |-> 0, sp |-> 0, tab |-> 0],
           [a |-> 0, b |-> 0, nl |-> 0, sp |-> 0, tab |-> 0],
           [a |-> 0, b |-> 0, nl |-> 0, sp |-> 0, tab |-> 0],
           [a |-> 0, b |-> 0, nl |-> 6, sp |-> 6, tab |-> 6],
           [a |-> 0, b |-> 0, nl |-> 0, sp |-> 0, tab |-> 0] >>
Accepting == {2, 4, 5, 6, 7}    \* a, abb, b, NEWLINE and blank
StepIn(s, ch) == IF ch = "?" THEN 0 ELSE Rows[s][ch]
TokenIn(s) == IF s \in Accepting THEN s ELSE 0

Fa == INSTANCE Reader WITH
    NCHARS <- 2, MaxLen <- 4, MaxOps <- 5, MaxStates <- 14, MaxExprs <- 1,
    TextChars <- {"a", "nl", "sp", "tab"}, Other <- "?", NewlineChar <- "nl",
    step <- StepIn, accepts <- TokenIn, NEWLINE <- 6, INDENT <- 8, DEDENT <- 9, pos <- readPos,
    Rhs <- {}, sensitive <- TRUE, MaxText <- 7, MaxReads <- 1
Lexers == INSTANCE Reader WITH
    NCHARS <- 2, MaxLen <- 3, MaxOps <- 3, MaxStates <- 10, MaxExprs <- 2,
    TextChars <- {"a", "b", "nl", "sp"}, Other <- "?", NewlineChar <- "nl",
    step <- StepIn, accepts <- TokenIn, NEWLINE <- 6, INDENT <- 8, DEDENT <- 9, pos <- readPos,
    Rhs <- {2}, sensitive <- FALSE, MaxText <- 5, MaxReads <- 2
Symbols == INSTANCE Reader WITH
    NCHARS <- 2, MaxLen <- 3, MaxOps <- 3, MaxStates <- 10, MaxExprs <- 2,
    TextChars <- {"a", "nl", "sp"}, Other <- "?", NewlineChar <- "nl",
    step <- StepIn, accepts <- TokenIn, NEWLINE <- 6, INDENT <- 8, DEDENT <- 9, pos <- readPos,
    Rhs <- {0, 1, 2}, sensitive <- TRUE, MaxText <- 3, MaxReads <- 2

-----------------------------------------------------------------------------
(* Expr: two points in two dimensions; each input gives x, u and m as one    *)
(* value or as an array.                                                     *)
X == <<"var", "x">>
Y == <<"var", "y">>
U == <<"var", "u">>
M == <<"var", "m">>
T == <<"var", "t">>
K(k) == <<"const", k>>
fn(name, args) == <<"call", name, args>>
prog(expr) == [assigns |-> <<>>, expr |-> expr]

Programs == <<
    prog(<<"add", <<"mul", K(2), X>>, <<"neg", Y>>>>),
    prog(<<"ternary", <<"or", <<"gt", X, Y>>, <<"eq", X, K(0)>>>>, <<"sub", X, Y>>, K(3)>>),
    prog(<<"ternary", <<"and", <<"lt", X, Y>>, <<"gt", K(2), K(1)>>>>, U, <<"mul", U, X>>>>),
    prog(<<"mul", M, U>>),
    prog(<<"mul", <<"mul", X, U>>, U>>),
    prog(<<"mul", <<"mul", M, M>>, Y>>),
    prog(<<"mul", <<"add", M, <<"var", "I">>>>, X>>),
    prog(<<"div", U, X>>),
    prog(<<"pow", fn("sin", <<X>>), K(2)>>),
    prog(fn("norm", <<fn("vector", <<X, fn("u", <<K(1)>>)>>)>>)),
    prog(fn("matrix", <<X, K(1), Y, <<"var", "d">>>>)),
    prog(fn("symm", <<fn("matrix", <<X, K(1), K(1), Y>>)>>)),
    prog(<<"add", fn("tensor", <<K(0)>>), M>>),
    prog(fn("m", <<K(1)>>)),
    prog(fn("vector", <<X>>)),
    prog(<<"sub", fn("exp", <<X>>), <<"add", fn("cos", <<Y>>), fn("sqrt", <<fn("erf", <<Y>>)>>)>>>>),
    [assigns |-> <<<<"t", <<"add", X, Y>>>>, <<"x", <<"mul", T, T>>>>>>, expr |-> <<"sub", T, X>>],
    [assigns |-> <<<<"y", X>>, <<"t", <<"mul", U, M>>>>, <<"y", K(7)>>>>, expr |-> Y],
    prog(<<"add", X, T>>)
>>

Val(type, numbers) == [t |-> type, v |-> numbers]
Inputs ==
    [x : {Val("real", <<2>>), Val("reals", <<0, 3>>), Val("reals", <<2, 1>>)},
     y : {Val("real", <<1>>), Val("reals", <<1, 4>>)},
     u : {Val("vec", <<1, 2>>), Val("reals", <<1, 2, 3, 4>>)},
     m : {Val("ten", <<1, 2, 3, 4>>), Val("reals", <<1, 2, 3, 4, 5, 6, 7, 9>>)}]

Expr == INSTANCE Expr WITH Dim <- 2, Size <- 2, Rounds <- 2, todo <- exprTodo, stack <- exprStack

-----------------------------------------------------------------------------
(* InputYaml: documents of a few entries with scalars as leaves, scalars     *)
(* alone spelled out in characters, and blocks of up to three lines with up  *)
(* to two spaces.  A line of a block with a body is indented at least as the *)
(* first one with a body, unless it is a comment after the block; a block is *)
(* indented more than its parent, and what follows it is not.                *)
DocLeaves ==
    [scalar |-> {<<"a">>, <<"b">>}, map_scalar |-> {<<"v">>}, bscalar |-> {<<"w">>}]
    @@ ("WS*" :> {<<>>}) @@ ("WS+" :> {<<>>}) @@ ("tag?" :> {<<>>}) @@ ("any*" :> {<<>>})

Begins(ls, k) == /\ ls[k].body = <<"x">> /\ ls[k].ind > 0
                 /\ \A j \in 1..(k - 1) : ls[j].body = <<>>
GoesOn(ls, k) ==
    \A j \in (k + 1)..Len(ls) :
        /\ ls[j].body = <<"x">> => ls[j].ind >= ls[k].ind
        /\ ls[j].body = <<"#">> => /\ ls[j].ind < ls[k].ind
                                   /\ \A l \in j..Len(ls) : ls[l].body # <<"x">>
BlockLines ==
    {ls \in UNION {[1..n -> [ind : 0..2, body : {<<>>, <<"x">>, <<"#">>}]] : n \in 1..3} :
        /\ \A k \in 1..Len(ls) : ls[k].body # <<"x">> => ls[k].ind \in {0, 2}
        /\ \E k \in 1..Len(ls) : Begins(ls, k) /\ GoesOn(ls, k)}
SomeBlocks ==
    {b \in [style : {"|", ">"}, indicator : 0..1, chomp : {"", "+", "-"}, comment : {FALSE},
            crlf : {FALSE}, parent : {0}, lines : BlockLines, after : {0}] :
       b.after <= b.parent /\ \A k \in 1..Len(b.lines) : Begins(b.lines, k) => b.lines[k].ind > b.parent}
TextLeaves == [doc |-> DocLeaves, map_scalar |-> [scalar_none |-> {<<>>}]]

-----------------------------------------------------------------------------
(* Inputs.  The main file includes two others at different depths, one of    *)
(* which includes a third; loop includes itself beside an entry, lost a file *)
(* that does not exist, and the include of odd is not a name.  Names: 1      *)
(* before "include" (2), 3 and 4 after it.                                   *)
(* The lines: two of the Library's flags, a program like osh_box with one    *)
(* flag of one argument and one positional argument, and every short line.   *)
Entry(kind, s, up, key) == [kind |-> kind, str |-> s, up |-> up, key |-> key]
InputFiles ==
    [main |-> <<Entry("map", "", 0, 0), Entry("map", "", 1, 1), Entry("scalar", "sub", 2, 2),
                Entry("scalar", "other", 1, 2), Entry("scalar", "x", 1, 4)>>,
     sub |-> <<Entry("map", "", 0, 0), Entry("list", "", 1, 1), Entry("scalar", "1", 2, 1),
               Entry("scalar", "deep", 1, 2)>>,
     other |-> <<Entry("map", "", 0, 0), Entry("scalar", "1", 1, 3)>>,
     deep |-> <<Entry("map", "", 0, 0), Entry("scalar", "x", 1, 3)>>,
     loop |-> <<Entry("map", "", 0, 0), Entry("scalar", "1", 1, 1), Entry("scalar", "loop", 1, 2)>>,
     lost |-> <<Entry("map", "", 0, 0), Entry("scalar", "nowhere", 1, 2)>>,
     odd |-> <<Entry("map", "", 0, 0), Entry("list", "", 1, 2)>>]

Words == {"--osh-time-chop", "--osh-pool", "--osh-time-chop=2", "--family", "--help", "x"}

Input == INSTANCE Inputs WITH
    Names <- 1..4, Include <- 2, FileNames <- DOMAIN InputFiles, Files <- InputFiles,
    MainFiles <- {"main", "loop", "lost", "odd"}, Nodes <- 1..9, MaxCalls <- 5,
    pc <- walkPc,
    Lines <- UNION {[1..n -> Words] : n \in 0..4},
    LibFlags <- <<[name |-> "--osh-time-chop", nargs |-> 1], [name |-> "--osh-pool", nargs |-> 0]>>,
    AppFlags <- <<[name |-> "--family", nargs |-> 1]>>, AppArgs <- 1, i <- at

-----------------------------------------------------------------------------
(* RBTree: a set of up to eight keys, and two small maps.                    *)
Tree == INSTANCE RBTree WITH N <- 8, Values <- {0}, Default <- 0, Containers <- {1}
TreeMaps == INSTANCE RBTree WITH N <- 3, Values <- {0, 1}, Default <- 0, Containers <- {1, 2}

-----------------------------------------------------------------------------
Modes == {"lanes", "parsing", "automaton", "lexer", "reader", "indents", "symbols", "expr",
          "yaml", "block", "input", "line", "tree", "maps"}

\* A part that a behaviour is not about.
LalrOff == /\ grammar = 0 /\ outcome = 0 /\ states = 0 /\ front = 0 /\ firsts = 0
           /\ events = 0 /\ goals = 0 /\ contexts = 0 /\ complete = 0 /\ lanes = 0
           /\ reader = 0
FaOff == /\ values = 0 /\ nops = 0 /\ lexer = 0
ReadOff == /\ text = 0 /\ readPos = 0 /\ lex = 0 /\ place = 0 /\ tokens = 0
           /\ indents = 0 /\ symbols = 0 /\ status = 0 /\ nreads = 0
ExprOff == /\ variables = 0 /\ functions = 0 /\ program = 0 /\ exprTodo = 0
           /\ exprStack = 0 /\ result = 0 /\ given = 0 /\ recorded = 0 /\ round = 0
YamlOff == /\ start = 0 /\ todo = 0 /\ stack = 0 /\ yield = 0 /\ entries = 0
           /\ begun = 0 /\ cause = 0 /\ pc = 0
BlockOff == /\ block = 0 /\ step = 0 /\ newline = 0 /\ indent = 0 /\ content = 0
            /\ pos = 0
InputOff == /\ heap = 0 /\ root = 0 /\ walkPc = 0 /\ stk = 0 /\ reads = 0 /\ held = 0
            /\ asked = 0 /\ calls = 0 /\ why = 0
LineOff == /\ line = 0 /\ argc = 0 /\ argv = 0 /\ who = 0 /\ linePc = 0 /\ at = 0
           /\ flag = 0 /\ hit = 0 /\ help = 0 /\ used = 0 /\ nargs = 0 /\ ok = 0
           /\ style = 0
TreeOff == /\ tree = 0

Init ==
    /\ mode \in Modes
    /\ CASE mode = "lanes" -> Lanes!Init
         [] mode = "parsing" -> Parsing!Init
         [] OTHER -> LalrOff
    /\ CASE mode = "automaton" -> Fa!Init
         [] mode = "lexer" -> Lexers!Init
         [] OTHER -> FaOff
    /\ CASE mode = "reader" -> Lexers!ReadInit
         [] mode = "indents" -> Fa!ReadInit
         [] mode = "symbols" -> Symbols!ReadInit
         [] OTHER -> ReadOff
    /\ IF mode = "expr" THEN Expr!Init ELSE ExprOff
    /\ IF mode = "yaml" THEN YamlInit ELSE YamlOff
    /\ IF mode = "block" THEN BlockInit ELSE BlockOff
    /\ IF mode = "input" THEN Input!Init ELSE InputOff
    /\ IF mode = "line" THEN Input!LineInit ELSE LineOff
    /\ CASE mode = "tree" -> Tree!Init
         [] mode = "maps" -> TreeMaps!Init
         [] OTHER -> TreeOff

LalrStep ==
    /\ \/ mode = "lanes" /\ Lanes!Next
       \/ mode = "parsing" /\ Parsing!Next
    /\ UNCHANGED <<mode, faVars, readVars, exprVars, yamlVars, blockVars, inputVars,
                   lineVars, treeVars>>
FaStep ==
    /\ \/ mode = "automaton" /\ Fa!Next
       \/ mode = "lexer" /\ Lexers!Next
    /\ UNCHANGED <<mode, lalrVars, readVars, exprVars, yamlVars, blockVars, inputVars,
                   lineVars, treeVars>>
ReadStep ==
    /\ \/ mode = "reader" /\ Lexers!ReadNext
       \/ mode = "indents" /\ Fa!ReadNext
       \/ mode = "symbols" /\ Symbols!ReadNext
    /\ UNCHANGED <<mode, lalrVars, faVars, exprVars, yamlVars, blockVars, inputVars,
                   lineVars, treeVars>>
ExprStep ==
    /\ mode = "expr" /\ Expr!Next
    /\ UNCHANGED <<mode, lalrVars, faVars, readVars, yamlVars, blockVars, inputVars,
                   lineVars, treeVars>>
YamlStep ==
    /\ mode = "yaml" /\ YamlNext
    /\ UNCHANGED <<mode, lalrVars, faVars, readVars, exprVars, blockVars, inputVars,
                   lineVars, treeVars>>
BlockStep ==
    /\ mode = "block" /\ BlockNext
    /\ UNCHANGED <<mode, lalrVars, faVars, readVars, exprVars, yamlVars, inputVars,
                   lineVars, treeVars>>
InputStep ==
    /\ mode = "input" /\ Input!Next
    /\ UNCHANGED <<mode, lalrVars, faVars, readVars, exprVars, yamlVars, blockVars,
                   lineVars, treeVars>>
LineStep ==
    /\ mode = "line" /\ Input!LineNext
    /\ UNCHANGED <<mode, lalrVars, faVars, readVars, exprVars, yamlVars, blockVars,
                   inputVars, treeVars>>
TreeStep ==
    /\ \/ mode = "tree" /\ Tree!Next
       \/ mode = "maps" /\ TreeMaps!Next
    /\ UNCHANGED <<mode, lalrVars, faVars, readVars, exprVars, yamlVars, blockVars,
                   inputVars, lineVars>>

Next == \/ LalrStep \/ FaStep \/ ReadStep \/ ExprStep \/ YamlStep
        \/ BlockStep \/ InputStep \/ LineStep \/ TreeStep

\* A parser is built and reads, a block is read and a tree of includes is walked
\* by one thread that nothing holds up.
Reading == \/ mode \in {"parsing", "block"}
           \/ mode = "input" /\ walkPc = "walk"

Spec == /\ Init /\ [][Next]_vars
        /\ WF_vars(Reading /\ Next)

-----------------------------------------------------------------------------
\* Every part's state has its type.
TypeOK ==
    /\ mode = "expr" => Expr!TypeOK
    /\ mode = "yaml" => YamlTypeOK
    /\ mode = "block" => BlockTypeOK
    /\ mode = "input" => Input!TypeOK
    /\ mode = "line" => Input!LineTypeOK
    /\ mode = "maps" => TreeMaps!TypeOK

\* However lanes cross and loop, a context that is said to be complete is what
\* the originators of its state-config give (compute_context_set, do_loop).
LanesExact == mode = "lanes" => Lanes!LanesExact

\* Tracing gives up only on grammars that are not LALR(1) (build_lalr1_parser).
GivesUpRightly == mode = "lanes" => Lanes!GivesUpRightly

\* The parser accepts the sentences of the language and gives the text back in
\* order; it fails where no sentence goes on (build_lalr1_parser, Reader::at_token).
ReadsTheLanguage == mode = "parsing" => Parsing!ReadsTheLanguage

\* A parser is built or refused, and what it reads is accepted or refused.
ComesToAnEnd ==
    <>(mode = "parsing" =>
        /\ outcome \notin {"lr0", "firsts", "tracing"}
        /\ outcome = "parser" => reader.did_accept \/ reader.failed)

\* Whatever it is put together from, an automaton accepts what its expression
\* means (FiniteAutomaton: concat, star, plus, maybe, unite).
AcceptsItsWords == mode = "automaton" => Fa!AcceptsItsWords

\* An accepting state leads nowhere: concat, plus and maybe add their epsilons to
\* such states and assert that there are none.
AcceptingStatesEnd == mode = "automaton" => Fa!AcceptingStatesEnd

\* A lexer gives a word the first token whose expression it matches
\* (build_lexer, make_deterministic, simplify).
FirstTokenWins == mode = "lexer" => Lexers!FirstTokenWins

\* Whatever the reader gave back, the tokens follow one another without a gap, and
\* each is as long as the stream allows (at_lexer_end, backtrack_to_last_accept).
LongestMatch == mode = "reader" => Lexers!LongestMatch

\* The line and column that errors are reported at are those of the stream position.
PlaceTrue == mode = "reader" => Lexers!PlaceTrue

\* An INDENT is closed by one DEDENT, and a line that is not indented closes all
\* (at_token_indent).
IndentsBalance == mode = "indents" => Fa!IndentsBalance

\* Counted from the top, as the YAML reader counts, symbol_indentation_stack has an
\* entry for each symbol of the parser's stack, whatever earlier streams left.
SymbolIndentations == mode = "symbols" => Symbols!SymbolIndentations

\* Evaluating while parsing and evaluating the recorded tree give the same result,
\* and leave the same variables for the next program (ExprReader, ExprOpsReader).
ReadersAgree == mode = "expr" => Expr!ReadersAgree

\* Evaluation on arrays is evaluation at each point: where a program has a value at
\* every point, it has one for the arrays, with those numbers (eval_*, promote).
EvalIsPointwise == mode = "expr" => Expr!EvalIsPointwise

\* A program depends on no variable but those get_symbols_used names.
SymbolsSuffice == mode = "expr" => Expr!SymbolsSuffice

\* A document that is accepted has no key twice in a map and is read to exactly its
\* entries, each below the keys and at the places in lists it was written under,
\* whichever of the block and flow notations are used (InputYamlReader::at_reduce).
DocumentReadBack == mode = "yaml" => ReadBack

\* A document is refused only because a key comes twice in a map, there is no
\* entry, or something that is no entry comes before the first one.
DocumentRefusedForCause == mode = "yaml" => RefusedForCause

\* The text of a scalar is what its characters stand for, with either kind of
\* quotes and their escapes, and without the white space after it.
ScalarMeant == mode = "yaml" => TextMeant

\* The text of a block is what its lines say, for both styles, every chomping,
\* with blank and more indented lines and comments after it (handle_block_scalar).
BlocksRead == mode = "block" => BlockRead

\* Only an indicator that asks for more indentation than there is is refused.
BlocksRefusedForIndent == mode = "block" => RefusedForIndent

\* Both loops of handle_block_scalar end, also when a round of the first leaves
\* nothing to drop.
BlocksFinish == <>(mode = "block" => step \in {"done", "failed"})

\* The pointers back agree with the entries of an input tree: every node but the
\* top is the entry of exactly one container, the one its parent points to, also
\* after it came in by an include (handle_one_include).
ParentsMatch == mode = "input" => Input!ParentsMatch

\* A tree that was read has no include left, and as many scalars as the files read
\* have without their includes.
EverythingRead == mode = "input" => Input!EverythingRead

\* check_unused complains exactly when there is a scalar the program never got.
UnusedFound == mode = "input" => Input!UnusedFound

\* What a program got from its input once does not change: neither a default nor
\* another call replaces it (InputMap::get).
AnswersStay == [][mode = "input" => Input!KeepsAnswers]_inputVars

\* Reading an input file ends, in a tree or in a failure, includes and all.
ReadEnds == <>(mode = "input" => walkPc # "walk")

\* No token of a command line is consumed twice: not by the Library and the
\* program, not by two items of one of them, and not from a stale slot behind argc.
ConsumedOnce == mode = "line" => Input!ConsumedOnce

\* What is left in argv[1..argc) is exactly what nobody consumed, in the order it
\* was typed (CmdLine::parse, shift).
RestIsIntact == mode = "line" => Input!RestIsIntact

\* A program that runs has a line of which every token was consumed, and every
\* required argument is there (CmdLine::check_empty).
RunsOnlyComplete == mode = "line" => Input!RunsOnlyComplete

\* The arguments of a flag are the tokens that follow it: as typed for the
\* Library's flags, and for the program's once the Library's are taken out.
ArgumentsFollowTheirFlag == mode = "line" => Input!ArgumentsFollowTheirFlag

\* parse_final and parse with check_empty accept the same lines.
StylesAgree == mode = "line" => Input!StylesAgree

\* The color rules hold after every operation of the tree: a black root, no two red
\* nodes in a row, equally many black nodes on every way down.
Balanced == mode = "tree" => Tree!Balanced

\* Parent links, the two ends kept in the header and the count stay true to the
\* nodes that are reached from the root.
LinksAgree == mode = "tree" => Tree!LinksAgree

\* Incrementing an iterator reaches the next larger key or the end, and
\* decrementing is the way back, from the end too.
IteratesInOrder == mode = "tree" => Tree!IteratesInOrder

\* find, lower_bound and upper_bound agree with their definition for every key.
BoundsAreRight == mode = "tree" => Tree!BoundsAreRight

\* The containers behave as maps: no operation loses, duplicates or revalues an
\* entry it is not about, wherever the hint of an insertion points.
IsAMap == [][mode = "maps" => TreeMaps!KeepsToMap]_tree
-----------------------------------------------------------------------------
(* What is checked, as conjunctions of the parts above. *)

\* A language is read as it is described: the tables that are built accept its
\* sentences and nothing else, tokens are the longest and first ones, indentation
\* is counted on every stack alike, and the readers of expressions agree.
LanguagesAreRead ==
    /\ TypeOK
    /\ LanesExact /\ GivesUpRightly /\ ReadsTheLanguage
    /\ AcceptsItsWords /\ AcceptingStatesEnd /\ FirstTokenWins /\ LongestMatch
    /\ PlaceTrue /\ IndentsBalance /\ SymbolIndentations
    /\ ReadersAgree /\ EvalIsPointwise /\ SymbolsSuffice

\* What a user writes in an input file or on the command line is what the program
\* gets, all of it and once, or it is refused for a cause; and the ordered
\* containers answer for the entries they hold.
InputsAreRead ==
    /\ DocumentReadBack /\ DocumentRefusedForCause /\ ScalarMeant
    /\ BlocksRead /\ BlocksRefusedForIndent
    /\ ParentsMatch /\ EverythingRead /\ UnusedFound
    /\ ConsumedOnce /\ RunsOnlyComplete /\ ArgumentsFollowTheirFlag
    /\ StylesAgree /\ RestIsIntact
    /\ Balanced /\ LinksAgree /\ IteratesInOrder /\ BoundsAreRight

\* Every reader ends, and on the way no answer that was given changes and no
\* operation of a container touches an entry it is not about.
ReadersEnd ==
    AnswersStay /\ IsAMap /\ ComesToAnEnd /\ BlocksFinish /\ ReadEnds
===============================================================================
