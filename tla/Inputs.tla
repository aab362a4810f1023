-------------------------------- MODULE Inputs --------------------------------
(***************************************************************************)
(* What a program is started with: a tree of inputs read from files, and   *)
(* its command line.                                                       *)
(*                                                                         *)
(* The tree of inputs (Omega_h_input.cpp): read_input reads a file and     *)
(* splices the files it includes into it, the program asks for entries,    *)
(* which marks them as used, adds defaults and creates what is missing,    *)
(* and check_unused reports what was never asked.                          *)
(*                                                                         *)
(* Names are numbered in the order of std::map; one of them is "include".  *)
(* A node keeps its entries by name or position, and the pointer to its    *)
(* parent, which get_full_name follows.                                    *)
(***************************************************************************)
EXTENDS Integers, FiniteSets, Sequences, SequencesExt

CONSTANTS
    Names,      \* the names of map entries, numbers
    Include,    \* the name "include"
    FileNames,  \* the files that exist
    Files,      \* a file: its nodes, records [kind, str, up, key]; the first
                \* is the map at the top, the others come after their parent
    MainFiles,  \* the files read_input is called with
    Nodes,      \* the places for nodes in memory, 1..n
    MaxCalls    \* the program's calls

VARIABLES
    heap,       \* the nodes: [kind, str, kids, parent, used]
    root,       \* the map read_input returns
    pc,         \* "walk" | "ready" | "clean" | "unused" | "failed"
    stk,        \* the calls of handle_one_include: [at, key], key the next one
    reads,      \* how often each file was read
    held,       \* the containers the program has a reference to
    asked,      \* the scalars the program got
    calls,      \* its calls so far
    why         \* what failed

vars == <<heap, root, pc, stk, reads, held, asked, calls, why>>

Free == [kind |-> "free", str |-> "", kids |-> <<>>, parent |-> 0, used |-> FALSE]
FreeNodes(h) == {n \in Nodes : h[n].kind = "free"}
Node(kind, s) == [kind |-> kind, str |-> s, kids |-> <<>>, parent |-> 0, used |-> FALSE]
LeastOf(S) == CHOOSE x \in S : \A y \in S : x <= y

(* InputMap::add and InputList::add: the entry and its pointer back.        *)
add(h, m, k, n) == [h EXCEPT ![m].kids = (k :> n) @@ @, ![n].parent = m]

(* The places new nodes get, the lowest that are free.                      *)
Place(h, f) ==
    [k \in 1..Len(Files[f]) |->
       CHOOSE x \in FreeNodes(h) : Cardinality({y \in FreeNodes(h) : y < x}) = k - 1]

(* read_input_without_includes: the nodes of a file in memory, each added   *)
(* to its parent; only the map at the top counts as used.                   *)
load(h, f) ==
    LET p == Place(h, f)
        n == Len(Files[f])
        at(x) == CHOOSE k \in 1..n : p[k] = x
    IN  [x \in Nodes |->
           IF \E k \in 1..n : p[k] = x
           THEN LET nd == Files[f][at(x)]
                    below == {k \in 2..n : Files[f][k].up = at(x)}
                IN  [kind |-> nd.kind, str |-> nd.str,
                     kids |-> [key \in {Files[f][k].key : k \in below} |->
                                 p[CHOOSE k \in below : Files[f][k].key = key]],
                     parent |-> IF nd.up = 0 THEN 0 ELSE p[nd.up],
                     used |-> nd.up = 0]
           ELSE h[x]]
loaded(h, f) == Place(h, f)[1]

Init ==
    /\ \E f \in MainFiles :
         /\ heap = load([n \in Nodes |-> Free], f)
         /\ root = loaded([n \in Nodes |-> Free], f)
         /\ reads = [g \in FileNames |-> IF g = f THEN 1 ELSE 0]
    /\ pc = "walk" /\ stk = <<[at |-> root, key |-> 0]>>
    /\ held = {} /\ asked = {} /\ calls = 0 /\ why = "nothing"

-----------------------------------------------------------------------------
(* The entries a loop over a container still has to visit.                  *)
Top == stk[Len(stk)]
Ahead == {k \in DOMAIN heap[Top.at].kids : k > Top.key}
Visit == LeastOf(Ahead)
Visited == heap[Top.at].kids[Visit]
Step(s, k) == [s EXCEPT ![Len(s)].key = k]
Included == heap[Top.at].kind = "map" /\ Visit = Include

Fail(reason) ==
    /\ pc' = "failed" /\ why' = reason
    /\ UNCHANGED <<heap, root, stk, reads, held, asked, calls>>

(* Faulty variant: a scalar is not stepped over.                            *)
WalkEntryStuck ==
    /\ pc = "walk" /\ Ahead # {} /\ ~Included
    /\ IF heap[Visited].kind = "scalar"
       THEN UNCHANGED <<stk, heap>>
       ELSE /\ stk' = Append(Step(stk, Visit), [at |-> Visited, key |-> 0])
            /\ heap' = [heap EXCEPT ![Visited].used = TRUE]
    /\ UNCHANGED <<root, pc, reads, held, asked, calls, why>>

(* A list or map among the entries is entered through get_list or get_map,  *)
(* which marks it as used; a scalar is passed over.                         *)
WalkEntry ==
    /\ pc = "walk" /\ Ahead # {} /\ ~Included
    /\ IF heap[Visited].kind = "scalar"
       THEN /\ stk' = Step(stk, Visit) /\ UNCHANGED heap
       ELSE /\ stk' = Append(Step(stk, Visit), [at |-> Visited, key |-> 0])
            /\ heap' = [heap EXCEPT ![Visited].used = TRUE]
    /\ UNCHANGED <<root, pc, reads, held, asked, calls, why>>

(* A container without an include is left; when the map at the top is, the  *)
(* tree is complete and the program gets it.                                *)
WalkBack ==
    /\ pc = "walk" /\ Ahead = {}
    /\ IF Len(stk) > 1
       THEN /\ stk' = SubSeq(stk, 1, Len(stk) - 1) /\ UNCHANGED <<pc, held>>
       ELSE /\ stk' = <<>> /\ pc' = "ready" /\ held' = {root}
    /\ UNCHANGED <<heap, root, reads, asked, calls, why>>

(* The entries of a map moved to another one, and the map gone.             *)
moved(h, from, to) ==
    [n \in Nodes |->
       IF n = from THEN Free
       ELSE IF n = to THEN [h[to] EXCEPT !.kids = h[from].kids @@ @]
       ELSE IF \E k \in DOMAIN h[from].kids : h[from].kids[k] = n
       THEN [h[n] EXCEPT !.parent = to]
       ELSE h[n]]

(* An include: its entry is removed, the file read, and its entries moved   *)
(* into the map that asked for it, where none may have the name of another. *)
(* The search starts again from the top.                                    *)
TakeInclude ==
    /\ pc = "walk" /\ Ahead # {} /\ Included
    /\ LET m == Top.at
           file == heap[Visited].str
           cut == [heap EXCEPT ![m].kids = [k \in DOMAIN @ \ {Include} |-> @[k]],
                               ![Visited] = Free]
       IN  IF heap[Visited].kind # "scalar" THEN Fail("not a name")
           ELSE IF file \notin FileNames THEN Fail("no file")
           ELSE LET new == load(cut, file)
                    top == loaded(cut, file)
                IN  IF DOMAIN new[top].kids \cap DOMAIN new[m].kids # {} THEN Fail("twice")
                    ELSE /\ Cardinality(FreeNodes(cut)) >= Len(Files[file])
                         /\ heap' = moved(new, top, m)
                         /\ stk' = <<[at |-> root, key |-> 0]>>
                         /\ reads' = [reads EXCEPT ![file] = @ + 1]
                         /\ UNCHANGED <<root, pc, held, asked, calls, why>>

-----------------------------------------------------------------------------
(* The program's calls on a container m it holds, for the entry k.          *)
Calling(m) == pc = "ready" /\ m \in held /\ calls < MaxCalls
Has(m, k) == k \in DOMAIN heap[m].kids
Kid(m, k) == heap[m].kids[k]
as(n, T) == heap[n].kind = "scalar" /\ (T = "int" => heap[n].str = "1")
new_node == LeastOf(FreeNodes(heap))

(* get<T>(name): the entry has to exist, is marked used, and has to be a    *)
(* scalar that reads as a T.                                                *)
get(m, k, T) ==
    /\ Calling(m)
    /\ IF ~Has(m, k) THEN Fail("missing")
       ELSE IF ~as(Kid(m, k), T) THEN Fail("type")
       ELSE /\ heap' = [heap EXCEPT ![Kid(m, k)].used = TRUE]
            /\ asked' = asked \cup {Kid(m, k)}
            /\ calls' = calls + 1
            /\ UNCHANGED <<root, pc, stk, reads, held, why>>

(* get<T>(name, default) on a map: a default is added when the entry does   *)
(* not read as a T, which fails when it is there but is something else.     *)
get_default(m, k, T) ==
    /\ Calling(m) /\ heap[m].kind = "map"
    /\ IF Has(m, k) /\ as(Kid(m, k), T) THEN get(m, k, T)
       ELSE IF Has(m, k) THEN Fail("exists")
       ELSE /\ FreeNodes(heap) # {}
            /\ heap' = [add([heap EXCEPT ![new_node] = Node("scalar", "1")], m, k, new_node)
                          EXCEPT ![new_node].used = TRUE]
            /\ asked' = asked \cup {new_node}
            /\ calls' = calls + 1
            /\ UNCHANGED <<root, pc, stk, reads, held, why>>

(* get_map and get_list: a map creates what is missing, a list cannot.      *)
get_container(m, k, kind) ==
    /\ Calling(m)
    /\ IF Has(m, k) /\ heap[Kid(m, k)].kind = kind
       THEN /\ heap' = [heap EXCEPT ![Kid(m, k)].used = TRUE]
            /\ held' = held \cup {Kid(m, k)}
            /\ calls' = calls + 1
            /\ UNCHANGED <<root, pc, stk, reads, asked, why>>
       ELSE IF Has(m, k) \/ heap[m].kind = "list" THEN Fail("exists")
       ELSE /\ FreeNodes(heap) # {}
            /\ heap' = [add([heap EXCEPT ![new_node] = Node(kind, "")], m, k, new_node)
                          EXCEPT ![new_node].used = TRUE]
            /\ held' = held \cup {new_node}
            /\ calls' = calls + 1
            /\ UNCHANGED <<root, pc, stk, reads, asked, why>>

(* is<T>(name), is_map, is_list: only looks, and uses nothing.              *)
is(m, k) ==
    /\ Calling(m) /\ Has(m, k)
    /\ calls' = calls + 1
    /\ UNCHANGED <<heap, root, pc, stk, reads, held, asked, why>>

(* check_unused: the first node that was not used ends the program.         *)
check_unused ==
    /\ pc = "ready"
    /\ pc' = IF \E n \in Nodes : heap[n].kind # "free" /\ ~heap[n].used THEN "unused" ELSE "clean"
    /\ UNCHANGED <<heap, root, stk, reads, held, asked, calls, why>>

Next ==
    \/ WalkEntry \/ WalkBack \/ TakeInclude
    \/ \E m \in held, k \in Names :
         \/ \E T \in {"int", "string"} : get(m, k, T) \/ get_default(m, k, T)
         \/ \E kind \in {"map", "list"} : get_container(m, k, kind)
         \/ is(m, k)
    \/ check_unused

Spec == Init /\ [][Next]_vars /\ WF_vars(WalkEntry \/ WalkBack \/ TakeInclude)

-----------------------------------------------------------------------------
Kinds == {"free", "scalar", "map", "list"}
Live == {n \in Nodes : heap[n].kind # "free"}

TypeOK ==
    /\ pc \in {"walk", "ready", "clean", "unused", "failed"}
    /\ \A n \in Nodes : heap[n].kind \in Kinds /\ heap[n].used \in BOOLEAN
    /\ root \in Live /\ held \subseteq Live /\ asked \subseteq Live

(* The pointers back agree with the entries: every node but the top is the  *)
(* entry of exactly one container, the one its parent points to, so a full  *)
(* name can be put together for it, also after it came in by an include.    *)
ParentsMatch ==
    \A n \in Live :
        LET holders == {<<m, k>> \in Live \X (Names \cup Nodes) :
                          k \in DOMAIN heap[m].kids /\ heap[m].kids[k] = n}
        IN  IF n = root THEN holders = {}
            ELSE \E k \in Names \cup Nodes : holders = {<<heap[n].parent, k>>}

(* A tree that was read has no include left, and as many scalars as the     *)
(* files read have without their includes.                                  *)
ScalarsIn(f) == Cardinality({k \in 1..Len(Files[f]) :
    /\ Files[f][k].kind = "scalar"
    /\ ~(Files[f][k].key = Include /\ Files[f][Files[f][k].up].kind = "map")})
EverythingRead ==
    pc = "ready" /\ calls = 0 =>
        /\ \A n \in Live : heap[n].kind = "map" => Include \notin DOMAIN heap[n].kids
        /\ Cardinality({n \in Live : heap[n].kind = "scalar"})
             = FoldSet(LAMBDA f, t : t + reads[f] * ScalarsIn(f), 0, FileNames)

(* check_unused complains exactly when there is a scalar the program never  *)
(* got.  Maps and lists are marked by the search for includes already, so a *)
(* container nobody asked for is only noticed by its scalars.               *)
UnusedFound ==
    pc \in {"clean", "unused"} =>
        (pc = "unused" <=> \E n \in Live : heap[n].kind = "scalar" /\ n \notin asked)

(* What was got once does not change: neither a default nor another call    *)
(* replaces it.                                                             *)
KeepsAnswers == \A n \in asked : heap'[n].str = heap[n].str /\ heap'[n].kind = "scalar"
AnswersStay == [][KeepsAnswers]_vars

(* Reading ends, in a tree or in a failure, for files that do not bring     *)
(* themselves in again without also bringing in a name.                     *)
ReadEnds == <>(pc # "walk")

-----------------------------------------------------------------------------
(***************************************************************************)
(* The command line (Omega_h_cmdline.cpp) as every Omega_h program uses    *)
(* it: Library::initialize parses the --osh-* flags out of argv, then the  *)
(* program parses what is left with a CmdLine of its own and refuses to    *)
(* run when anything remains.  Both work in place: a parsed token is       *)
(* shifted out of argv, so the slots at and after argc keep stale tokens,  *)
(* and the loop over the flags reads argv[i] without looking at argc.      *)
(*                                                                         *)
(* argv holds positions of the original line, so that what each item       *)
(* consumed can be told apart even between equal tokens.                   *)
(***************************************************************************)
CONSTANTS
    Lines,     \* the command lines, sequences of tokens without argv[0]
    LibFlags,  \* the Library's flags in the order of add_flag, [name, nargs]
    AppFlags,  \* the program's flags, likewise
    AppArgs    \* the number of its required positional arguments

VARIABLES
    line,     \* the line as typed
    argc,
    argv,     \* argv[k] for k >= 1: a position of line
    who,      \* whose CmdLine parses
    linePc,   \* "flags" | "return" | "done" | "abort"
    i,        \* the index of CmdLine::parse
    flag,     \* the flag the inner loop compares next
    hit,      \* parsed_by_flag
    help,     \* parsed_help_, of each CmdLine
    used,     \* what each item took: records [who, item, part, at]
    nargs,    \* nargs_parsed_
    ok,       \* what parse returns
    style     \* the program calls parse_final, or parse and then check_empty

lineVars == <<line, argc, argv, who, linePc, i, flag, hit, help, used, nargs, ok, style>>

Owners == {"library", "app"}
Flags(w) == IF w = "library" THEN LibFlags ELSE AppFlags
ArgsOf(w) == IF w = "library" THEN 0 ELSE AppArgs
Token(k) == line[argv[k]]

LineInit ==
    /\ line \in Lines
    /\ argc = Len(line) + 1
    /\ argv = [k \in 1..Len(line) |-> k]
    /\ who = "library" /\ linePc = "flags" /\ i = 1 /\ flag = 1 /\ hit = FALSE
    /\ help = {} /\ used = {} /\ nargs = 0 /\ ok = TRUE
    /\ style \in {"parse_final", "parse"}

(* shift, n times at index k: the tail moves down, and the slots it leaves  *)
(* behind argc keep the last token.                                         *)
shift(a, c, k, n) ==
    [j \in DOMAIN a |-> IF j \in k..(c - 1)
                        THEN a[IF j + n < c THEN j + n ELSE c - 1]
                        ELSE a[j]]

(* Whether an item was parsed before (CmdLineItem::parsed_).                *)
parsed(w, item) == \E u \in used : u.who = w /\ u.item = item /\ u.part = 0

(* Faulty variant: no count for a flag without arguments.                   *)
ParseFlagUncounted ==
    LET n == Flags(who)[flag].nargs IN
    IF parsed(who, flag)
    THEN /\ ok' = FALSE /\ linePc' = "return"
         /\ UNCHANGED <<argc, argv, used, hit, flag>>
    ELSE IF n > 0 /\ (argc - 1) - i < n
    THEN /\ ok' = FALSE /\ linePc' = "return"
         /\ argc' = argc - 1 /\ argv' = shift(argv, argc, i, 1)
         /\ UNCHANGED <<used, hit, flag>>
    ELSE /\ argc' = argc - (1 + n)
         /\ argv' = shift(argv, argc, i, 1 + n)
         /\ used' = used \cup {[who |-> who, item |-> flag, part |-> p,
                                at |-> argv[i + p]] : p \in 0..n}
         /\ hit' = TRUE /\ flag' = flag + 1
         /\ UNCHANGED <<ok, linePc>>

(* CmdLineItem::parse of a flag that argv[i] names, and CmdLineFlag's       *)
(* parse_impl: the flag is shifted out, then there must be enough tokens,   *)
(* then each of its arguments takes the token at i and shifts it out.       *)
ParseFlag ==
    LET n == Flags(who)[flag].nargs IN
    IF parsed(who, flag)
    THEN /\ ok' = FALSE /\ linePc' = "return"
         /\ UNCHANGED <<argc, argv, used, hit, flag>>
    ELSE IF (argc - 1) - i < n
    THEN /\ ok' = FALSE /\ linePc' = "return"
         /\ argc' = argc - 1 /\ argv' = shift(argv, argc, i, 1)
         /\ UNCHANGED <<used, hit, flag>>
    ELSE /\ argc' = argc - (1 + n)
         /\ argv' = shift(argv, argc, i, 1 + n)
         /\ used' = used \cup {[who |-> who, item |-> flag, part |-> p,
                                at |-> argv[i + p]] : p \in 0..n}
         /\ hit' = TRUE /\ flag' = flag + 1
         /\ UNCHANGED <<ok, linePc>>

(* The inner loop: each flag is compared with whatever argv[i] is by then,  *)
(* also when the flag before it just consumed the last token.               *)
CompareFlag ==
    /\ linePc = "flags" /\ (hit \/ i < argc)
    /\ flag <= Len(Flags(who))
    /\ IF Token(i) = Flags(who)[flag].name
       THEN ParseFlag
       ELSE /\ flag' = flag + 1
            /\ UNCHANGED <<ok, linePc, argc, argv, used, hit>>
    /\ UNCHANGED <<line, who, i, help, nargs, style>>

(* The rest of one round of CmdLine::parse, for a token no flag took:       *)
(* --help stays in argv and is stepped over, the next positional argument   *)
(* takes the token, or the token is left for somebody else.                 *)
NextToken ==
    /\ linePc = "flags" /\ flag > Len(Flags(who)) /\ (hit \/ i < argc)
    /\ flag' = 1 /\ hit' = FALSE
    /\ \/ hit /\ UNCHANGED <<i, help, used, nargs, argc, argv>>
       \/ /\ ~hit /\ Token(i) = "--help"
          /\ help' = help \cup {who} /\ i' = i + 1
          /\ UNCHANGED <<used, nargs, argc, argv>>
       \/ /\ ~hit /\ Token(i) # "--help" /\ nargs < ArgsOf(who)
          /\ used' = used \cup {[who |-> who, item |-> Len(Flags(who)) + 1 + nargs,
                                 part |-> 0, at |-> argv[i]]}
          /\ nargs' = nargs + 1
          /\ argc' = argc - 1 /\ argv' = shift(argv, argc, i, 1)
          /\ UNCHANGED <<i, help>>
       \/ /\ ~hit /\ Token(i) # "--help" /\ nargs >= ArgsOf(who)
          /\ i' = i + 1
          /\ UNCHANGED <<help, used, nargs, argc, argv>>
    /\ UNCHANGED <<line, who, linePc, ok, style>>

(* The end of the loop: every required argument must have been found.       *)
EndOfLine ==
    /\ linePc = "flags" /\ ~hit /\ flag = 1 /\ i >= argc
    /\ ok' = (nargs >= ArgsOf(who))
    /\ linePc' = "return"
    /\ UNCHANGED <<line, argc, argv, who, i, flag, hit, help, used, nargs, style>>

(* Library::initialize checks the result of parse(comm, ...), which reports *)
(* no error for --help, and the program goes on to its own CmdLine.         *)
LibraryReturns ==
    /\ linePc = "return" /\ who = "library"
    /\ IF ok THEN /\ who' = "app" /\ linePc' = "flags"
                  /\ i' = 1 /\ flag' = 1 /\ hit' = FALSE /\ nargs' = 0
             ELSE /\ linePc' = "abort"
                  /\ UNCHANGED <<who, i, flag, hit, nargs>>
    /\ UNCHANGED <<line, argc, argv, help, used, ok, style>>

(* CmdLine::check_empty: only argv[0] is left.                              *)
check_empty == argc = 1

(* parse_final, or parse followed by check_empty.                           *)
parse_final == ok /\ "app" \notin help /\ check_empty
parse_and_check == ok /\ check_empty

AppReturns ==
    /\ linePc = "return" /\ who = "app"
    /\ ok' = IF style = "parse_final" THEN parse_final ELSE parse_and_check
    /\ linePc' = "done"
    /\ UNCHANGED <<line, argc, argv, who, i, flag, hit, help, used, nargs, style>>

LineNext == CompareFlag \/ NextToken \/ EndOfLine \/ LibraryReturns \/ AppReturns

LineSpec == LineInit /\ [][LineNext]_vars /\ WF_vars(LineNext)

-----------------------------------------------------------------------------
(* The program runs with its options.                                      *)
Runs == linePc = "done" /\ ok
Ended == linePc \in {"done", "abort"}

LineTypeOK ==
    /\ argc \in 0..(Len(line) + 1)
    /\ \A k \in DOMAIN argv : argv[k] \in 1..Len(line)
    /\ who \in Owners /\ help \subseteq Owners
    /\ linePc \in {"flags", "return", "done", "abort"}
    /\ ok \in BOOLEAN /\ hit \in BOOLEAN /\ nargs \in 0..AppArgs

(* No token is consumed twice: not by the Library and the program, not by   *)
(* two items of one of them, and not from a stale slot behind argc.         *)
ConsumedOnce ==
    \A u, v \in used : u.at = v.at => u = v

(* What is left in argv[1..argc) is exactly what nobody consumed, in the    *)
(* order it was typed; a flag that failed for want of arguments is gone.    *)
RestIsIntact ==
    LET left == {k \in 1..Len(line) : \A u \in used : u.at # k} IN
    ok => /\ {argv[k] : k \in 1..(argc - 1)} = left
          /\ \A k \in 1..(argc - 2) : argv[k] < argv[k + 1]

(* A program that runs has a line of which every token was consumed: no     *)
(* token was ignored, --help included, and every required argument is there.*)
RunsOnlyComplete ==
    Runs => /\ \A k \in 1..Len(line) : \E u \in used : u.at = k
            /\ \A n \in 1..AppArgs : parsed("app", Len(AppFlags) + n)

(* The arguments of a flag are the tokens that follow it: as typed for the  *)
(* Library's flags, and for the program's once the Library's are taken out. *)
ArgumentsFollowTheirFlag ==
    \A u, v \in used :
        u.who = v.who /\ u.item = v.item /\ v.part = u.part + 1 =>
            /\ u.at < v.at
            /\ \A k \in (u.at + 1)..(v.at - 1) :
                 \E w \in used : w.at = k /\ w.who = "library" /\ u.who = "app"

(* The two ways programs call the parser accept the same lines.            *)
StylesAgree ==
    linePc = "return" /\ who = "app" => parse_final = parse_and_check

(* Every line is parsed to an end, whatever is stepped over or left behind. *)
Finishes == <>Ended

(* The usage text of --osh-time-chop: a value given with an equals sign     *)
(* reaches the profiler.                                                    *)
ChopAsDocumented ==
    Runs => \A k \in 1..Len(line) : line[k] = "--osh-time-chop=2" =>
                 \E u \in used : u.who = "library" /\ u.at = k
=============================================================================
