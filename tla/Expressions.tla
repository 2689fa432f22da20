---------------------------- MODULE Expressions ----------------------------
(***************************************************************************)
(* Scalar expressions of the planner: the array kernels that evaluate them *)
(* (array/ops.rs, executor/evaluator.rs), the rewrite rules that simplify   *)
(* them (planner/rules/expr.rs), constant folding, and the key range read   *)
(* off a condition (planner/rules/range.rs).                               *)
(*                                                                         *)
(* An expression is a tuple headed by its operator: <<"col", c>>,           *)
(* <<"int", n>>, <<"bool", b>>, <<"null">>, <<"+", e1, e2>>, ...  A SQL     *)
(* value is <<v>>, or <<>> for NULL.                                        *)
(***************************************************************************)
EXTENDS Integers, FiniteSets, Sequences

CONSTANT MaxInt        \* the largest integer of the machine type (i32::MAX)
ASSUME MaxIntAssumption == MaxInt \in Nat \ {0}

Arith == {"+", "-", "*", "/"}
Compare == {"=", "<>", ">", "<", ">=", "<="}
Unary == {"neg", "not", "isnull", "tobool"}
Binary == Arith \cup Compare \cup {"and", "or"}

Num(n) == <<"int", n>>
True == <<"bool", TRUE>>
False == <<"bool", FALSE>>
Numeric(e) == e[1] \in Arith \cup {"neg", "int"}
Literal(e, v) == IF v = <<>> THEN <<"null">> ELSE <<IF Numeric(e) THEN "int" ELSE "bool", v[1]>>

\* Two's complement: what a release build leaves of a result out of range.
Wrap(n) == ((n + MaxInt + 1) % (2 * (MaxInt + 1))) - (MaxInt + 1)
Quotient(m, n) ==
  LET abs(x) == IF x < 0 THEN -x ELSE x
      q == abs(m) \div abs(n)
  IN IF (m < 0) = (n < 0) THEN q ELSE -q
RawArith(op, m, n) ==
  Wrap(CASE op = "+" -> m + n [] op = "-" -> m - n [] op = "*" -> m * n [] op = "/" -> Quotient(m, n))
RawCompare(op, m, n) ==
  CASE op = "=" -> m = n [] op = "<>" -> m # n [] op = ">" -> m > n
    [] op = "<" -> m < n [] op = ">=" -> m >= n [] op = "<=" -> m <= n

---------------------------------------------------------------------------
(* What SQL says: three-valued logic, NULL in - NULL out.                   *)
SqlAnd(x, y) == IF <<FALSE>> \in {x, y} THEN <<FALSE>> ELSE IF <<>> \in {x, y} THEN <<>> ELSE <<TRUE>>
SqlOr(x, y) == IF <<TRUE>> \in {x, y} THEN <<TRUE>> ELSE IF <<>> \in {x, y} THEN <<>> ELSE <<FALSE>>
SqlBinary(op, x, y) ==
  CASE op = "and" -> SqlAnd(x, y)
    [] op = "or" -> SqlOr(x, y)
    [] op \notin {"and", "or"} /\ <<>> \in {x, y} -> <<>>
    [] op = "/" /\ y = <<0>> -> <<>>
    [] OTHER -> IF op \in Arith THEN <<RawArith(op, x[1], y[1])>> ELSE <<RawCompare(op, x[1], y[1])>>
SqlUnary(op, x) ==
  CASE op = "isnull" -> <<x = <<>>>>
    [] op # "isnull" /\ x = <<>> -> <<>>
    [] op = "neg" -> <<Wrap(-x[1])>>
    [] op = "not" -> <<~ x[1]>>
    [] op = "tobool" -> <<x[1] # 0>>

RECURSIVE Sql(_, _)
Sql(e, row) ==
  CASE e[1] = "col" -> row[e[2]]
    [] e[1] \in {"int", "bool"} -> <<e[2]>>
    [] e[1] = "null" -> <<>>
    [] e[1] \in Unary -> SqlUnary(e[1], Sql(e[2], row))
    [] e[1] \in Binary -> SqlBinary(e[1], Sql(e[2], row), Sql(e[3], row))
    [] e[1] = "if" -> IF Sql(e[2], row) = <<TRUE>> THEN Sql(e[3], row) ELSE Sql(e[4], row)

---------------------------------------------------------------------------
(* The kernels, on one row: a cell of an array is the raw value and the     *)
(* validity bit; a NULL cell has a raw value too.  The array of a NULL      *)
(* literal has no type, so most operators refuse it (err).                  *)
Cell(raw, valid) == [raw |-> raw, valid |-> valid, err |-> FALSE]
NoOp == [raw |-> 0, valid |-> FALSE, err |-> TRUE]
ClearNull(c) == [c EXCEPT !.raw = c.raw /\ c.valid]
Reads(cell) == IF cell.valid THEN <<cell.raw>> ELSE <<>>

KernelArith(op, a, b) == Cell(RawArith(op, a.raw, b.raw), a.valid /\ b.valid)
SafenDividend(b) == IF b.raw = 0 THEN Cell(1, FALSE) ELSE b
KernelDiv(a, b) == KernelArith("/", a, SafenDividend(b))
KernelCompare(op, a, b) == ClearNull(Cell(RawCompare(op, a.raw, b.raw), a.valid /\ b.valid))
KernelAnd(a, b) ==
  Cell(a.raw /\ b.raw, (a.valid /\ b.valid) \/ (~ a.raw /\ a.valid) \/ (~ b.raw /\ b.valid))
KernelOrStrict(a, b) == Cell(a.raw \/ b.raw, a.valid /\ b.valid)
KernelOr(a, b) == Cell(a.raw \/ b.raw, (a.valid /\ b.valid) \/ a.raw \/ b.raw)
KernelNot(a) == ClearNull(Cell(~ a.raw, a.valid))
KernelNeg(a) == Cell(Wrap(-a.raw), a.valid)
KernelToBool(a) == Cell(a.raw # 0, a.valid)
KernelSelect(s, a, b) ==
  Cell(IF s.raw THEN a.raw ELSE b.raw, (s.valid /\ a.valid) \/ (~ s.valid /\ b.valid))

KernelBinary(op, a, b) ==
  IF a.err \/ b.err THEN NoOp
  ELSE CASE op = "/" -> KernelDiv(a, b)
         [] op \in Arith \ {"/"} -> KernelArith(op, a, b)
         [] op \in Compare -> KernelCompare(op, a, b)
         [] op = "and" -> KernelAnd(a, b)
         [] op = "or" -> KernelOr(a, b)
KernelUnary(op, a) ==
  IF op = "isnull" THEN Cell(~ a.valid, TRUE)
  ELSE IF a.err THEN NoOp
  ELSE CASE op = "neg" -> KernelNeg(a)
         [] op = "not" -> KernelNot(a)
         [] op = "tobool" -> KernelToBool(a)

RECURSIVE Kernel(_, _)
Kernel(e, row) ==
  CASE e[1] = "col" -> IF row[e[2]] = <<>> THEN Cell(0, FALSE) ELSE Cell(row[e[2]][1], TRUE)
    [] e[1] \in {"int", "bool"} -> Cell(e[2], TRUE)
    [] e[1] = "null" -> NoOp
    [] e[1] \in Unary -> KernelUnary(e[1], Kernel(e[2], row))
    [] e[1] \in Binary -> KernelBinary(e[1], Kernel(e[2], row), Kernel(e[3], row))
    [] e[1] = "if" ->
         LET s == Kernel(e[2], row) a == Kernel(e[3], row) b == Kernel(e[4], row)
         IN IF s.err \/ a.err \/ b.err THEN NoOp ELSE KernelSelect(s, a, b)

---------------------------------------------------------------------------
(* Constant analysis: {} when unknown, {v} for the constant v.              *)
RECURSIVE Const(_)
Const(e) ==
  CASE e[1] \in {"int", "bool", "null"} -> {Sql(e, <<>>)}
    [] e[1] \in Binary ->
         LET xs == Const(e[2]) \X Const(e[3])
         IN {IF <<>> \in {x[1], x[2]} THEN <<>>
             ELSE Reads(KernelBinary(e[1], Cell(x[1][1], TRUE), Cell(x[2][1], TRUE))) : x \in xs}
    [] e[1] \in {"neg", "not"} ->
         {IF x = <<>> THEN <<>> ELSE Reads(KernelUnary(e[1], Cell(x[1], TRUE))) : x \in Const(e[2])}
    [] e[1] = "isnull" -> {<<x = <<>>>> : x \in Const(e[2])}
    [] e[1] = "tobool" -> {SqlUnary("tobool", x) : x \in Const(e[2]) \ {<<>>}}
    [] OTHER -> {}
IsNotZero(e) == \E v \in Const(e) : v # <<0>>
\* value_cmp: both constant and of the same variant.
ValueCmp(op, e1, e2) ==
  \E v \in Const(e1), w \in Const(e2) :
    Len(v) = Len(w) /\ (v = <<>> \/ RawCompare(op, v[1], w[1])) /\ (v = <<>> => op \in {">=", "<="})

---------------------------------------------------------------------------
(* The rewrite rules: On(cond, rule, to) is the rule's result where it      *)
(* applies at the root of an expression e with operands a and b.            *)
On(cond, rule, to) == IF cond THEN {<<rule, "", to>>} ELSE {}

AddRules(e, a, b) ==
  IF e[1] # "+" THEN {} ELSE
    On(b = Num(0), "add-zero", a)
    \cup On(TRUE, "add-comm", <<"+", b, a>>)
    \cup On(b[1] = "+", "add-assoc", <<"+", <<"+", a, b[2]>>, b[3]>>)
    \cup On(a = b, "add-same", <<"*", a, Num(2)>>)
    \cup On(b[1] = "neg", "add-neg", <<"-", a, b[2]>>)
    \cup On(a[1] = "*" /\ b[1] = "*" /\ a[2] = b[2], "mul-add-factor", <<"*", a[2], <<"+", a[3], b[3]>>>>)
MulRules(e, a, b) ==
  IF e[1] # "*" THEN {} ELSE
    On(b = Num(0), "mul-zero", Num(0))
    \cup On(b = Num(1), "mul-one", a)
    \cup On(b = Num(-1), "mul-minus", <<"neg", a>>)
    \cup On(TRUE, "mul-comm", <<"*", b, a>>)
    \cup On(b[1] = "*", "mul-assoc", <<"*", <<"*", a, b[2]>>, b[3]>>)
    \cup On(b[1] = "+", "mul-add-distri", <<"+", <<"*", a, b[2]>>, <<"*", a, b[3]>>>>)
    \cup On(b[1] = "/" /\ b[2] = Num(1) /\ b[3] = a /\ IsNotZero(a), "recip-mul-div", Num(1))
SubRules(e, a, b) ==
  On(e[1] = "neg" /\ a[1] = "neg", "neg-neg", a[2])
  \cup On(e[1] = "neg" /\ a[1] = "-", "neg-sub", <<"-", a[3], a[2]>>)
  \cup On(e[1] = "-" /\ b = Num(0), "sub-zero", a)
  \cup On(e[1] = "-" /\ a = Num(0), "zero-sub", <<"neg", b>>)
  \cup On(e[1] = "-" /\ a = b, "sub-cancel", Num(0))
  \cup On(e[1] = "/" /\ a = b /\ IsNotZero(a), "div-cancel", Num(1))

Flip == [op \in Compare |-> CASE op = ">" -> "<" [] op = "<" -> ">" [] op = ">=" -> "<=" [] op = "<=" -> ">="
                               [] OTHER -> op]
Negate == [op \in Compare |-> CASE op = "=" -> "<>" [] op = "<>" -> "=" [] op = ">" -> "<=" [] op = ">=" -> "<"
                                 [] op = "<" -> ">=" [] op = "<=" -> ">"]
\* eq-eq .. le-eq, eq-comm .. le-comm, eq-add .. le-add: rule is <<family, operator>>.
CompareRules(e, a, b) ==
  IF e[1] \notin Compare THEN {} ELSE
    (IF a = b THEN {<<"cmp-same", e[1], IF e[1] \in {"=", ">=", "<="} THEN True ELSE False>>} ELSE {})
    \cup {<<"cmp-comm", e[1], <<Flip[e[1]], b, a>>>>}
    \cup (IF a[1] = "+" THEN {<<"cmp-add", e[1], <<e[1], a[2], <<"-", b, a[3]>>>>>>} ELSE {})
NotRules(e, a) ==
  IF e[1] # "not" THEN {} ELSE
    (IF a[1] \in Compare THEN {<<"not-cmp", a[1], <<Negate[a[1]], a[2], a[3]>>>>} ELSE {})
    \cup On(a[1] = "and", "not-and", <<"or", <<"not", a[2]>>, <<"not", a[3]>>>>)
    \cup On(a[1] = "or", "not-or", <<"and", <<"not", a[2]>>, <<"not", a[3]>>>>)
    \cup On(a[1] = "not", "not-not", a[2])

\* and_rules: the ones of the first and the third stage, with eq-comm.
AndRules(e, a, b) ==
  IF e[1] # "and" THEN {} ELSE
    On(a = True, "and-true", b)
    \cup On(TRUE, "and-comm", <<"and", b, a>>)
    \cup On(b[1] = "and", "and-assoc", <<"and", <<"and", a, b[2]>>, b[3]>>)
EqComm(e, a, b) == IF e[1] = "=" THEN {<<"cmp-comm", "=", <<"=", b, a>>>>} ELSE {}
\* Two bounds on the same side: a subsumes b.
SubsumesAtEqual(a, b) ==
  \/ a[1] \in {">", ">="} /\ b[1] \in {">", ">="} /\ ValueCmp(">=", a[3], b[3])
  \/ a[1] \in {"<", "<="} /\ b[1] \in {"<", "<="} /\ ValueCmp("<=", a[3], b[3])
Subsumes(a, b) ==
  \/ a[1] \in {">", ">="} /\ b[1] \in {">", ">="}
     /\ ValueCmp(IF a[1] = ">=" /\ b[1] = ">" THEN ">" ELSE ">=", a[3], b[3])
  \/ a[1] \in {"<", "<="} /\ b[1] \in {"<", "<="}
     /\ ValueCmp(IF a[1] = "<=" /\ b[1] = "<" THEN "<" ELSE "<=", a[3], b[3])
FoldRules(e, a, b) ==
  IF e[1] # "and" THEN {} ELSE
    On(a = False, "and-false", False)
    \cup On(a = <<"null">>, "and-null", <<"null">>)
    \cup On(a[1] = "=" /\ b[1] = "=" /\ a[3] = b[2], "eq-trans", <<"and", a, <<"=", a[2], b[3]>>>>)
    \cup (IF a[1] \in Compare /\ b[1] \in Compare /\ a[2] = b[2]
          THEN On(Subsumes(a, b), "and-fold", a)
               \cup On(a[1] = ">" /\ b[1] = "<" /\ ValueCmp(">=", a[3], b[3]), "and-gt-lt-conflict", False)
          ELSE {})
OrRules(e, a, b) ==
  IF e[1] # "or" THEN {} ELSE
    On(a = False, "or-false", b)
    \cup On(a = True, "or-true", True)
    \cup On(a = <<"null">>, "or-null", <<"null">>)
    \cup On(TRUE, "or-comm", <<"or", b, a>>)
    \cup On(b[1] = "or", "or-assoc", <<"or", <<"or", a, b[2]>>, b[3]>>)
    \cup On(a[1] = "and" /\ b[1] = "and" /\ a[2] = b[2], "add-or-distri", <<"and", a[2], <<"or", a[3], b[3]>>>>)
IfRules(e) ==
  IF e[1] # "if" THEN {} ELSE
    On(e[2] = False, "if-false", e[4])
    \cup On(e[2] = True, "if-true", e[3])
    \cup On(e[2][1] = "not", "if-not", <<"if", e[2][2], e[4], e[3]>>)
\* union_constant, bottom-up: the class of a constant keeps the constant only.
IsLiteral(e) == e[1] \in {"int", "bool", "null"}
FoldConstant(e) ==
  LET literal == IsLiteral(e[2]) /\ (e[1] \in Binary => IsLiteral(e[3]))
      null == e[1] \in {"and", "or"} /\ <<"null">> \in {e[2], e[3]}
  IN IF e[1] \in Unary \cup Binary /\ literal
     THEN {<<IF null THEN "const-null" ELSE "const", e[1], Literal(e, v)>> : v \in Const(e)}
     ELSE {}

ExprRules(e) ==
  LET a == e[2] b == e[3]
  IN IF e[1] \in Unary \cup Binary \cup {"if"}
     THEN AddRules(e, a, b) \cup MulRules(e, a, b) \cup SubRules(e, a, b) \cup CompareRules(e, a, b)
          \cup NotRules(e, a) \cup AndRules(e, a, b) \cup FoldRules(e, a, b) \cup OrRules(e, a, b)
          \cup IfRules(e) \cup FoldConstant(e)
     ELSE {}

---------------------------------------------------------------------------
(* analyze_range: {} for none, else {[col, start, end]}; a bound is <<>> for *)
(* unbounded or <<inclusive, value>>.                                        *)
Side(op, v) ==
  [start |-> IF op \in {"=", ">="} THEN <<TRUE, v>> ELSE IF op = ">" THEN <<FALSE, v>> ELSE <<>>,
   end |-> IF op \in {"=", "<="} THEN <<TRUE, v>> ELSE IF op = "<" THEN <<FALSE, v>> ELSE <<>>]
RangeOn(col, side) == [col |-> col, start |-> side.start, end |-> side.end]
OneOf(x, y) == IF x = <<>> THEN y ELSE x
RECURSIVE RangeOf(_)
RangeOf(e) ==
  CASE e[1] \in Compare \ {"<>"} ->
         IF e[3][1] = "col" /\ Const(e[2]) # {} THEN {RangeOn(e[3][2], Side(Flip[e[1]], v)) : v \in Const(e[2])}
         ELSE IF e[2][1] = "col" THEN {RangeOn(e[2][2], Side(e[1], v)) : v \in Const(e[3])} ELSE {}
    [] e[1] = "and" ->
         {RangeOn(r[1].col, [start |-> OneOf(r[1].start, r[2].start), end |-> OneOf(r[1].end, r[2].end)]) :
            r \in {p \in RangeOf(e[2]) \X RangeOf(e[3]) :
                    /\ p[1].col = p[2].col
                    /\ <<>> \in {p[1].start, p[2].start}
                    /\ <<>> \in {p[1].end, p[2].end}}}
    [] OTHER -> {}
=============================================================================
