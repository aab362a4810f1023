-------------------------------- MODULE Expr --------------------------------
(***************************************************************************)
(* Expressions over the points of a mesh (Omega_h_expr.cpp).  A program    *)
(* is a sequence of assignments and an expression.  ExprReader evaluates   *)
(* it while it parses, one reduction of the parser after the other;        *)
(* ExprOpsReader makes a tree of operations that is evaluated later, and   *)
(* as often as wanted.  A variable is one value or an array with a value   *)
(* at each of size points, and operations on both promote the one value.   *)
(*                                                                         *)
(* A value is [t, v]: its type and the sequence of its numbers.  Arrays of *)
(* scalars, vectors and matrices are all of type "reals", as in the code,  *)
(* and told apart by their lengths.  Numbers are integers; exp, sqrt, sin, *)
(* cos, erf and quotients are the functions math and quotient.             *)
(*                                                                         *)
(* A node of an expression is a tuple: <<"const", c>>, <<"var", name>>,    *)
(* <<"neg", a>>, <<binary operator, a, b>>, <<"ternary", c, a, b>> or      *)
(* <<"call", name, arguments>>.                                            *)
(***************************************************************************)
EXTENDS Integers, SequencesExt, FiniteSetsExt

CONSTANTS Programs,  \* sequence of [assigns, expr]: <<name, node>>s and a node
          Inputs,    \* the variables registered by the caller, with their values
          Dim,       \* 1, 2 or 3
          Size,      \* the number of points
          Rounds     \* programs read in a row: bound

VARIABLES variables,  \* of the environment of ExprReader
          functions,  \* names of the functions of both environments
          program,    \* number of the program being read; 0: none
          todo,       \* what the parser has still to reduce
          stack,      \* values of the parser's stack
          result,     \* of the last program read
          given,      \* the variables at the start of the last program
          recorded,   \* [variables, result] of the tree of the same program
          round

vars == <<variables, functions, program, todo, stack, result, given, recorded, round>>

Builtin == {"exp", "sqrt", "sin", "cos", "erf", "vector", "symm", "matrix", "tensor", "norm"}
Binary == {"or", "and", "gt", "lt", "eq", "add", "sub", "mul", "div", "pow"}

value(t, v) == [t |-> t, v |-> v]
Fail == value("fail", <<>>)   \* an exception or a failed check
NaN == -1000                  \* what a division by zero makes
bool(b) == value("bool", <<IF b THEN 1 ELSE 0>>)
real(x) == value("real", <<x>>)
reals(s) == value("reals", s)

math(name, x) == (CASE name = "exp" -> 11 [] name = "sqrt" -> 13 [] name = "sin" -> 17
                    [] name = "cos" -> 19 [] OTHER -> 23) * x + 5
quotient(a, b) == IF b = 0 THEN NaN ELSE ((100 * a) \div b)
power(a, b) == IF a = 0 THEN 0 ELSE IF b < 0 THEN 100 \div a ELSE a^b
SumTo(n, f(_)) == FoldFunction(+, 0, [i \in 1..n |-> f(i)])

-----------------------------------------------------------------------------
(* Promotion of one value to all points. *)

repeat(size, s) == [k \in 1..(size * Len(s)) |-> s[((k - 1) % Len(s)) + 1]]

promote(size, x) ==
    IF x.t = "bool" THEN value("bytes", repeat(size, x.v))
    ELSE IF x.t \in {"real", "vec", "ten"} THEN reals(repeat(size, x.v))
    ELSE IF x.t = "reals" THEN x ELSE Fail

\* promote_bools to promote_matrices: only a value that meets an array.
promoted(size, x, other) ==
    IF x.t = "bool" /\ other.t = "bytes"
    THEN IF Len(other.v) = size THEN promote(size, x) ELSE Fail
    ELSE IF x.t \in {"real", "vec", "ten"} /\ other.t = "reals" THEN promote(size, x) ELSE x

-----------------------------------------------------------------------------
(* Operations on promoted operands. *)

each(Op(_, _), a, b) == [i \in DOMAIN a |-> Op(a[i], b[i])]

\* multiply_each and divide_each_maybe_zero: b has one number for each width of a.
widths(Op(_, _), a, b) ==
    IF Len(b) = 0 THEN IF a = <<>> THEN reals(a) ELSE Fail
    ELSE IF Len(a) % Len(b) # 0 THEN Fail
    ELSE reals([k \in DOMAIN a |-> Op(a[k], b[((k - 1) \div (Len(a) \div Len(b))) + 1])])

logical(Op(_, _), l, r) ==
    IF l.t = r.t /\ l.t \in {"bool", "bytes"} /\ Len(l.v) = Len(r.v)
    THEN value(l.t, each(Op, l.v, r.v)) ELSE Fail
eval_or(l, r) == logical(LAMBDA x, y : IF x = 1 \/ y = 1 THEN 1 ELSE 0, l, r)
eval_and(l, r) == logical(LAMBDA x, y : IF x = 1 /\ y = 1 THEN 1 ELSE 0, l, r)

compared(Op(_, _), l, r) ==
    IF l.t = r.t /\ l.t \in {"real", "reals"} /\ Len(l.v) = Len(r.v)
    THEN value(IF l.t = "real" THEN "bool" ELSE "bytes", each(Op, l.v, r.v)) ELSE Fail
gt(l, r) == compared(LAMBDA x, y : IF x > y THEN 1 ELSE 0, l, r)
lt(l, r) == compared(LAMBDA x, y : IF x < y THEN 1 ELSE 0, l, r)
eq(l, r) == compared(LAMBDA x, y : IF x = y THEN 1 ELSE 0, l, r)

summed(Op(_, _), l, r) ==
    IF l.t = r.t /\ l.t \in {"real", "vec", "ten", "reals"} /\ Len(l.v) = Len(r.v)
    THEN value(l.t, each(Op, l.v, r.v)) ELSE Fail
add(l, r) == summed(+, l, r)
sub(l, r) == summed(-, l, r)

\* Products at one point: of vectors, of a matrix and a vector, of matrices.
\* Matrices are stored by rows.
dot(a, b) == <<SumTo(Dim, LAMBDA k : a[k] * b[k])>>
mat_vec(m, u) == [i \in 1..Dim |-> SumTo(Dim, LAMBDA k : m[(i - 1) * Dim + k] * u[k])]
mat_mat(m, n) ==
    [c \in 1..(Dim * Dim) |-> SumTo(Dim, LAMBDA k :
        m[((c - 1) \div Dim) * Dim + k] * n[(k - 1) * Dim + ((c - 1) % Dim) + 1])]

\* The numbers of point i of an array with w numbers at each point.
point(s, w, i) == SubSeq(s, (i - 1) * w + 1, i * w)
pointwise(Op(_, _), a, wa, b, wb, n) ==
    reals(FlattenSeq([i \in 1..n |-> Op(point(a, wa, i), point(b, wb, i))]))

scaled(s, x) == [k \in DOMAIN s |-> s[k] * x]

mul_arrays(size, l, r) ==
    LET nl == Len(l.v) nr == Len(r.v) IN
    IF nr = size THEN widths(LAMBDA x, y : x * y, l.v, r.v)
    ELSE IF nl = size THEN widths(LAMBDA x, y : x * y, r.v, l.v)
    ELSE IF nl = size * Dim /\ nr = size * Dim
    THEN pointwise(dot, l.v, Dim, r.v, Dim, size)
    ELSE IF nl = size * Dim * Dim /\ nr = size * Dim
    THEN pointwise(mat_vec, l.v, Dim * Dim, r.v, Dim, size)
    ELSE IF nl = size * Dim * Dim /\ nr = size * Dim * Dim
    THEN pointwise(mat_mat, l.v, Dim * Dim, r.v, Dim * Dim, size)
    ELSE Fail
mul(size, l, r) ==
    CASE l.t = "real" /\ r.t = "real" -> real(l.v[1] * r.v[1])
      [] l.t \in {"vec", "ten"} /\ r.t = "real" -> value(l.t, scaled(l.v, r.v[1]))
      [] l.t = "real" /\ r.t \in {"vec", "ten"} -> value(r.t, scaled(r.v, l.v[1]))
      [] l.t = "vec" /\ r.t = "vec" -> value("real", dot(l.v, r.v))
      [] l.t = "ten" /\ r.t = "vec" -> value("vec", mat_vec(l.v, r.v))
      [] l.t = "ten" /\ r.t = "ten" -> value("ten", mat_mat(l.v, r.v))
      [] l.t = "reals" /\ r.t = "reals" -> mul_arrays(size, l, r)
      [] OTHER -> Fail

\* Where an array is divided by zero it has to be zero itself and stays so.
div(l, r) ==
    IF r.t = "reals"
    THEN IF l.t # "reals" THEN Fail
         ELSE LET q == widths(LAMBDA x, y : IF y = 0 /\ x = 0 THEN 0 ELSE quotient(x, y), l.v, r.v)
              IN IF NaN \in ToSet(q.v) THEN Fail ELSE q
    ELSE IF r.t = "real" /\ l.t \in {"real", "vec", "ten"}
    THEN value(l.t, [k \in DOMAIN l.v |-> quotient(l.v[k], r.v[1])])
    ELSE Fail

eval_pow(l, r) ==
    IF l.t = r.t /\ r.t \in {"real", "reals"} /\ Len(l.v) = Len(r.v)
    THEN value(r.t, each(power, l.v, r.v)) ELSE Fail

neg(x) == IF x.t \in {"real", "vec", "ten", "reals"} THEN value(x.t, scaled(x.v, -1)) ELSE Fail

\* A condition at each point takes values of any width; one condition only
\* scalars and arrays, and casts only the value it chooses.
ternary(size, cond, a, b) ==
    IF cond.t = "bool"
    THEN LET chosen == IF cond.v[1] = 1 THEN a ELSE b IN
         IF a.t \in {"real", "reals"} /\ chosen.t = a.t THEN chosen ELSE Fail
    ELSE IF cond.t = "bytes"
    THEN LET x == promote(size, a)
             y == promote(size, b) IN
         IF \/ x.t # "reals" \/ y.t # "reals"
            \/ Len(x.v) # Len(y.v) \/ cond.v = <<>> \/ Len(x.v) % Len(cond.v) # 0
         THEN Fail
         ELSE LET width == Len(x.v) \div Len(cond.v) IN
              reals([k \in DOMAIN x.v |->
                       IF cond.v[((k - 1) \div width) + 1] = 1 THEN x.v[k] ELSE y.v[k]])
    ELSE Fail
\* x(i) and x(i, j): j is read from the first argument as well.
access(size, x, args) ==
    IF args = <<>> \/ \E k \in DOMAIN args : k <= 2 /\ args[k].t # "real" THEN Fail
    ELSE LET i == args[1].v[1]
             j == IF Len(args) > 1 THEN args[1].v[1] ELSE -1
             component(ncomps, c) ==
                 IF c \in 0..(ncomps - 1)
                 THEN reals([k \in 1..(Len(x.v) \div ncomps) |-> x.v[(k - 1) * ncomps + c + 1]])
                 ELSE Fail IN
         CASE x.t = "vec" /\ i \in 0..(Dim - 1) -> real(x.v[i + 1])
           [] x.t = "ten" /\ i \in 0..(Dim - 1) /\ j >= 0 -> real(x.v[i * Dim + j + 1])
           [] x.t = "reals" /\ Len(x.v) = size * Dim -> component(Dim, i)
           [] x.t = "reals" /\ Len(x.v) # size * Dim /\ Len(x.v) = size * Dim * Dim ->
                component(Dim * Dim, j * Dim + i)
           [] OTHER -> Fail

-----------------------------------------------------------------------------
(* The functions every environment has. *)

interleave(arrays) ==
    IF \E k \in DOMAIN arrays : Len(arrays[k].v) # Len(arrays[1].v) \/ arrays[k].t # "reals"
    THEN Fail
    ELSE reals([c \in 1..(Len(arrays) * Len(arrays[1].v)) |->
           arrays[((c - 1) % Len(arrays)) + 1].v[((c - 1) \div Len(arrays)) + 1]])

HasArrays(args) == \E k \in DOMAIN args : args[k].t = "reals"
Scalars(args) == \A k \in DOMAIN args : args[k].t = "real"

\* Missing components repeat the last one given.
make_vector(size, args) ==
    LET full == [k \in 1..Dim |-> IF k <= Len(args) THEN args[k] ELSE Last(args)] IN
    IF Len(args) \notin 1..Dim THEN Fail
    ELSE IF HasArrays(args) THEN interleave([k \in 1..Dim |-> promote(size, full[k])])
    ELSE IF Scalars(args) THEN value("vec", [k \in 1..Dim |-> full[k].v[1]]) ELSE Fail

make_matrix(size, args) ==
    IF Len(args) = 1 /\ args[1].t = "real" /\ args[1].v[1] = 0
    THEN reals([k \in 1..(size * Dim * Dim) |-> 0])
    ELSE IF Len(args) # Dim * Dim THEN Fail
    ELSE IF HasArrays(args) THEN interleave([k \in DOMAIN args |-> promote(size, args[k])])
    ELSE IF Scalars(args) THEN value("ten", [k \in DOMAIN args |-> args[k].v[1]]) ELSE Fail

\* The components of a symmetric matrix: the diagonal, then what is
\* above it (matrices_to_symms: symm[j][i] is row i of column j).
SymmEntries == CASE Dim = 1 -> <<1>> [] Dim = 2 -> <<1, 4, 2>>
                 [] OTHER -> <<1, 5, 9, 2, 6, 3>>
make_symm(size, args) ==
    IF Len(args) # 1 THEN Fail
    ELSE LET x == promote(size, args[1]) IN
         IF x.t # "reals" \/ Len(x.v) # size * Dim * Dim THEN Fail
         ELSE reals(FlattenSeq([i \in 1..size |-> [c \in DOMAIN SymmEntries |->
                  point(x.v, Dim * Dim, i)[SymmEntries[c]]]]))

of_scalar(name, size, args) ==
    IF Len(args) = 1 /\ (args[1].t = "real" \/ (args[1].t = "reals" /\ Len(args[1].v) = size))
    THEN value(args[1].t, [k \in DOMAIN args[1].v |-> math(name, args[1].v[k])])
    ELSE Fail
eval_exp(size, args) == of_scalar("exp", size, args)
eval_sqrt(size, args) == of_scalar("sqrt", size, args)
eval_sin(size, args) == of_scalar("sin", size, args)
eval_cos(size, args) == of_scalar("cos", size, args)
eval_erf(size, args) == of_scalar("erf", size, args)

norm_at(u) == math("sqrt", dot(u, u)[1])
eval_norm(size, args) ==
    IF Len(args) # 1 THEN Fail
    ELSE IF args[1].t = "vec" THEN real(norm_at(args[1].v))
    ELSE IF args[1].t = "reals" /\ Len(args[1].v) = size * Dim
    THEN reals([i \in 1..size |-> norm_at(point(args[1].v, Dim, i))])
    ELSE Fail

call_function(size, name, args) ==
    CASE name = "exp" -> eval_exp(size, args)   [] name = "sqrt" -> eval_sqrt(size, args)
      [] name = "sin" -> eval_sin(size, args)   [] name = "cos" -> eval_cos(size, args)
      [] name = "erf" -> eval_erf(size, args)   [] name = "norm" -> eval_norm(size, args)
      [] name = "vector" -> make_vector(size, args)
      [] name = "symm" -> make_symm(size, args)
      [] name \in {"matrix", "tensor"} -> make_matrix(size, args)

\* The variable of that name hides the function.
call(size, vs, name, args) ==
    IF \E k \in DOMAIN args : args[k].t = "fail" THEN Fail
    ELSE IF name \in DOMAIN vs THEN access(size, vs[name], args)
    ELSE IF name \in functions THEN call_function(size, name, args) ELSE Fail

binary(size, op, a, b) ==
    LET l == promoted(size, a, b)
        r == promoted(size, b, a) IN
    IF l.t = "fail" \/ r.t = "fail" THEN Fail
    ELSE CASE op = "or" -> eval_or(l, r) [] op = "and" -> eval_and(l, r)
           [] op = "gt" -> gt(l, r)      [] op = "lt" -> lt(l, r)      [] op = "eq" -> eq(l, r)
           [] op = "add" -> add(l, r)    [] op = "sub" -> sub(l, r)
           [] op = "mul" -> mul(size, l, r)
           [] op = "div" -> div(l, r)    [] op = "pow" -> eval_pow(l, r)
choice(size, cond, a, b) ==
    IF cond.t = "fail" \/ a.t = "fail" \/ b.t = "fail" THEN Fail
    ELSE ternary(size, cond, promoted(size, a, b), promoted(size, b, a))

-----------------------------------------------------------------------------
(* The tree of operations: ExprOp::eval. *)

RECURSIVE eval(_, _, _)
eval(size, vs, node) ==
    CASE node[1] = "const" -> real(node[2])
      [] node[1] = "var" -> IF node[2] \in DOMAIN vs THEN vs[node[2]] ELSE Fail
      [] node[1] = "neg" -> neg(eval(size, vs, node[2]))
      [] node[1] \in Binary ->
           binary(size, node[1], eval(size, vs, node[2]), eval(size, vs, node[3]))
      [] node[1] = "ternary" ->
           choice(size, eval(size, vs, node[2]), eval(size, vs, node[3]), eval(size, vs, node[4]))
      [] node[1] = "call" ->
           call(size, vs, node[2], [k \in DOMAIN node[3] |-> eval(size, vs, node[3][k])])

assigned(vs, name, val) == [n \in DOMAIN vs \union {name} |-> IF n = name THEN val ELSE vs[n]]

\* SemicolonOps and AssignOps, then the expression.
RECURSIVE eval_program(_, _, _, _)
eval_program(size, vs, assigns, expr) ==
    IF assigns = <<>> THEN [variables |-> vs, result |-> eval(size, vs, expr)]
    ELSE LET val == eval(size, vs, assigns[1][2]) IN
         IF val.t = "fail" THEN [variables |-> vs, result |-> Fail]
         ELSE eval_program(size, assigned(vs, assigns[1][1], val), Tail(assigns), expr)

\* The order in which the parser reduces a program.
RECURSIVE reductions(_)
reductions(node) ==
    CASE node[1] \in {"const", "var"} -> <<node>>
      [] node[1] = "neg" -> reductions(node[2]) \o <<<<"neg">>>>
      [] node[1] \in Binary -> reductions(node[2]) \o reductions(node[3]) \o <<<<node[1]>>>>
      [] node[1] = "ternary" -> reductions(node[2]) \o reductions(node[3]) \o reductions(node[4])
                                \o <<<<"ternary">>>>
      [] node[1] = "call" -> FlattenSeq([k \in DOMAIN node[3] |-> reductions(node[3][k])])
                             \o <<<<"call", node[2], Len(node[3])>>>>
code(p) ==
    FlattenSeq([k \in DOMAIN p.assigns |->
        reductions(p.assigns[k][2]) \o <<<<"assign", p.assigns[k][1]>>>>])
    \o reductions(p.expr) \o <<<<"program">>>>

\* SymbolSetReader: the names after PROD_VAR and PROD_CALL.
get_symbols_used(p) ==
    {code(p)[k][2] : k \in {n \in DOMAIN code(p) : code(p)[n][1] \in {"var", "call"}}}

-----------------------------------------------------------------------------

\* The environment starts with d and the identity; the caller registers
\* Inputs, whose names are no functions.
Standard == [d |-> real(Dim),
             I |-> value("ten", [k \in 1..(Dim * Dim) |->
                     IF (k - 1) \div Dim = (k - 1) % Dim THEN 1 ELSE 0])]
Registered(input) ==
    [n \in DOMAIN Standard \union DOMAIN input |->
        IF n \in DOMAIN input THEN input[n] ELSE Standard[n]]

None == [variables |-> Standard, result |-> Fail]

Init == /\ functions = Builtin
        /\ \E input \in Inputs : variables = Registered(input)
        /\ program = 0 /\ todo = <<>> /\ stack = <<>> /\ result = Fail
        /\ given = variables
        /\ recorded = None
        /\ round = 0

Idle == program = 0

\* read_string of the same text by both readers.
Read == /\ Idle /\ round < Rounds
        /\ \E p \in DOMAIN Programs : program' = p /\ todo' = code(Programs[p])
        /\ stack' = <<>>
        /\ given' = variables
        /\ round' = round + 1
        /\ UNCHANGED <<variables, functions, result, recorded>>

\* The environment of the tree is a copy; its result is that of its eval.
EvalRecorded(p, vs) == eval_program(Size, vs, Programs[p].assigns, Programs[p].expr)

Finish(x) == /\ result' = x
             /\ recorded' = EvalRecorded(program, given)
             /\ program' = 0 /\ todo' = <<>> /\ stack' = <<>>
             /\ UNCHANGED <<variables, functions, given, round>>

top(k) == stack[Len(stack) - k]
popped(n) == SubSeq(stack, 1, Len(stack) - n)

\* at_reduce of an operation: it takes its operands from the stack.
Value(step) ==
    CASE step[1] = "const" -> real(step[2])
      [] step[1] = "var" -> IF step[2] \in DOMAIN variables THEN variables[step[2]] ELSE Fail
      [] step[1] = "neg" -> neg(top(0))
      [] step[1] \in Binary -> binary(Size, step[1], top(1), top(0))
      [] step[1] = "ternary" -> choice(Size, top(2), top(1), top(0))
      [] step[1] = "call" -> call(Size, variables, step[2],
                                  SubSeq(stack, Len(stack) - step[3] + 1, Len(stack)))
taken(step) ==
    CASE step[1] \in {"const", "var"} -> 0 [] step[1] = "neg" -> 1 [] step[1] \in Binary -> 2
      [] step[1] = "ternary" -> 3 [] step[1] = "call" -> step[3]

ReduceExpr ==
    /\ ~Idle /\ todo[1][1] \notin {"assign", "program"}
    /\ LET x == Value(todo[1]) IN
       IF x.t = "fail" THEN Finish(Fail)
       ELSE /\ stack' = Append(popped(taken(todo[1])), x)
            /\ todo' = Tail(todo)
            /\ UNCHANGED <<variables, functions, program, result, given, recorded, round>>

ReduceAssign ==
    /\ ~Idle /\ todo[1][1] = "assign"
    /\ variables' = assigned(variables, todo[1][2], top(0))
    /\ stack' = popped(1) /\ todo' = Tail(todo)
    /\ UNCHANGED <<functions, program, result, given, recorded, round>>

ReduceProgram == ~Idle /\ todo[1][1] = "program" /\ Finish(top(0))

Done == Idle /\ round = Rounds /\ UNCHANGED vars

Next == Read \/ ReduceExpr \/ ReduceAssign \/ ReduceProgram \/ Done

Spec == Init /\ [][Next]_vars

-----------------------------------------------------------------------------

Types == {"bool", "bytes", "real", "reals", "vec", "ten", "fail"}

TypeOK == /\ \A n \in DOMAIN variables : variables[n].t \in Types \ {"fail"}
          /\ \A k \in DOMAIN stack : stack[k].t \in Types \ {"fail"}
          /\ result.t \in Types
          /\ \A k \in DOMAIN stack : stack[k].t = "vec" => Len(stack[k].v) = Dim
          /\ program \in 0..Len(Programs) /\ round \in 0..Rounds

(* Evaluating while parsing and evaluating the recorded tree give the same
   result, and leave the same variables for the next program. *)
ReadersAgree ==
    Idle /\ round > 0 => recorded = [variables |-> variables, result |-> result]

\* What a value is at point i, for an environment of one point.
Width(x) == IF Size = 0 THEN 0 ELSE Len(x.v) \div Size
at(x, i) ==
    LET s == point(x.v, Width(x), i) IN
    IF x.t = "bytes" THEN value("bool", s)
    ELSE IF x.t # "reals" THEN x
    ELSE IF Width(x) = 1 THEN value("real", s)
    ELSE IF Width(x) = Dim THEN value("vec", s)
    ELSE IF Width(x) = Dim * Dim THEN value("ten", s) ELSE reals(s)

(* Evaluation on arrays is evaluation at each point: where a program has a
   value at every point, it has one for the arrays, with those numbers.  An
   array of symmetric matrices is not split, as no value of one point is. *)
EvalIsPointwise ==
    Idle /\ round > 0 =>
        \A p \in DOMAIN Programs :
            LET here == EvalRecorded(p, given).result
                there == [i \in 1..Size |->
                            eval_program(1, [n \in DOMAIN given |-> at(given[n], i)],
                                         Programs[p].assigns, Programs[p].expr).result] IN
            (\A i \in 1..Size : there[i].t # "fail" /\ NaN \notin ToSet(there[i].v)) =>
                /\ here.t # "fail"
                /\ \A i \in 1..Size : at(here, i).v = there[i].v

(* A program depends on no variable but those get_symbols_used names. *)
SymbolsSuffice ==
    Idle /\ round > 0 =>
        \A p \in DOMAIN Programs :
            LET kept == DOMAIN given \intersect get_symbols_used(Programs[p]) IN
            EvalRecorded(p, [n \in kept |-> given[n]]).result = EvalRecorded(p, given).result

(* m(i, j) of a matrix is its entry in row i and column j. *)
EntriesRead ==
    Idle /\ round > 0 =>
        \A p \in DOMAIN Programs : \A i, j \in 0..(Dim - 1) :
            LET x == given["m"] IN
            (Programs[p].expr = <<"call", "m", <<<<"const", i>>, <<"const", j>>>>>>
             /\ Programs[p].assigns = <<>> /\ x.t = "ten") =>
                EvalRecorded(p, given).result = real(x.v[i * Dim + j + 1])

(* No name is a variable and a function. *)
NamesDistinct == DOMAIN variables \intersect functions = {}
=============================================================================
