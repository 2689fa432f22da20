----------------------------- MODULE Optimizer -----------------------------
(***************************************************************************)
(* The optimizer (planner/optimizer.rs): three stages of rewriting, each    *)
(* with its rules over expressions and plans (planner/rules).  The e-graph  *)
(* is abstracted to the term it may extract: a behaviour starts from the    *)
(* bound term and replaces one subterm at a time by a rule of the stage.    *)
(*                                                                         *)
(* A plan is a tuple headed by its node: <<"scan", t, cols, filter>>,       *)
(* <<"filter", cond, p>>, <<"proj", cols, p>>, <<"order", keys, p>>,        *)
(* <<"limit", limit, offset, p>>, <<"topn", limit, offset, keys, p>>,       *)
(* <<"join", type, cond, l, r>>, <<"hashjoin", type, cond, lkeys, rkeys, l, *)
(* r>>, <<"mergejoin", ...>>, <<"apply", type, l, r>>, <<"agg", f, p>>,     *)
(* <<"hashagg", keys, f, p>>, <<"sortagg", keys, f, p>>, <<"empty", p>>.    *)
(* An aggregate f is <<function, column, output column>>.                   *)
(***************************************************************************)
EXTENDS Expressions, SequencesExt

CONSTANTS Queries,     \* [term, stage, steps]: a bound term, the stage it starts in, its step bound
          ColumnsOf,   \* table -> its columns, in order
          KeyOf,       \* table -> its primary key
          Databases,   \* table -> its RowSets, each a sequence of rows (column -> value)
                       \* in the order of the primary key
          Rows         \* rows that scalar terms are evaluated on

Joins == {"join", "hashjoin", "mergejoin", "apply"}
Plans == Joins \cup {"scan", "filter", "proj", "order", "limit", "topn", "agg", "hashagg", "sortagg", "empty"}
IsPlan(e) == e[1] \in Plans

\* The child plans and the child expressions of a node, by position.
Children(e) ==
  CASE e[1] \in {"filter", "in"} -> {2, 3}
    [] e[1] \in {"proj", "order", "agg"} -> {3}
    [] e[1] \in {"hashagg", "sortagg", "limit", "scan"} -> {4}
    [] e[1] = "topn" -> {5}
    [] e[1] = "join" -> {3, 4, 5}
    [] e[1] \in {"hashjoin", "mergejoin"} -> {3, 6, 7}
    [] e[1] = "apply" -> {3, 4}
    [] e[1] \in Unary \cup {"empty", "exists"} -> {2}
    [] e[1] \in Binary -> {2, 3}
    [] e[1] = "if" -> {2, 3, 4}
    [] OTHER -> {}

RECURSIVE Subterms(_)
Subterms(e) == {e} \cup UNION {Subterms(e[i]) : i \in Children(e)}
Left(e) == e[Len(e) - 1]
Right(e) == e[Len(e)]
Child(e) == e[Len(e)]

---------------------------------------------------------------------------
(* analyze_schema, analyze_columns and analyze_order                        *)
RECURSIVE Schema(_)
Schema(p) ==
  CASE p[1] \in {"filter", "order", "limit", "topn", "empty"} -> Schema(Child(p))
    [] p[1] \in Joins -> IF p[2] \in {"semi", "anti"} THEN Schema(Left(p)) ELSE Schema(Left(p)) \o Schema(Right(p))
    [] p[1] = "scan" -> p[3]
    [] p[1] = "proj" -> p[2]
    [] p[1] = "agg" -> <<p[2][3]>>
    [] p[1] \in {"hashagg", "sortagg"} -> p[2] \o <<p[3][3]>>
OwnColumns(e) ==
  CASE e[1] = "col" -> {e[2]}
    [] e[1] = "scan" -> ToSet(e[3])
    [] e[1] = "proj" \/ e[1] = "order" -> ToSet(e[2])
    [] e[1] = "topn" -> ToSet(e[4])
    [] e[1] \in {"hashjoin", "mergejoin"} -> ToSet(e[4]) \cup ToSet(e[5])
    [] e[1] = "agg" -> {e[2][2]}
    [] e[1] \in {"hashagg", "sortagg"} -> ToSet(e[2]) \cup {e[3][2]}
    [] OTHER -> {}
Columns(e) == UNION {OwnColumns(s) : s \in Subterms(e)}
Produced(p) == ToSet(Schema(p))
NotDependOn(e, p) == Columns(e) \cap Produced(p) = {}
DependOn(e, p) == ~ NotDependOn(e, p)
AllDependOn(e, p) == Columns(e) \subseteq Produced(p)

RECURSIVE OrderKey(_)
OrderKey(p) ==
  CASE p[1] = "scan" -> SelectSeq(p[3], LAMBDA c : c = KeyOf[p[2]])
    [] p[1] = "order" -> p[2]
    [] p[1] = "topn" -> p[4]
    [] p[1] \in {"proj", "filter", "limit", "mergejoin", "sortagg"} -> OrderKey(Child(p))
    [] OTHER -> <<>>
IsOrderBy(keys, p) == IsPrefix(keys, OrderKey(p))

---------------------------------------------------------------------------
(* Plan rules.  A rule is recorded with the join type it applied to.        *)
OnType(cond, rule, type, to) == IF cond THEN {<<rule, type, to>>} ELSE {}
CancelRules(p) ==
  On(p[1] = "limit" /\ p[2] = -1 /\ p[3] = 0, "limit-null", Child(p))
  \cup On(p[1] = "order" /\ p[2] = <<>>, "order-null", Child(p))
  \cup On(p[1] = "filter" /\ p[2] = True, "filter-true", Child(p))
  \cup On(p[1] = "filter" /\ p[2] = False, "filter-false", <<"empty", Child(p)>>)
MergeRules(p) ==
  On(p[1] = "limit" /\ p[4][1] = "order", "limit-order-topn", <<"topn", p[2], p[3], p[4][2], p[4][3]>>)
  \cup On(p[1] = "filter" /\ p[3][1] = "filter", "filter-merge", <<"filter", <<"and", p[2], p[3][2]>>, p[3][3]>>)
  \cup On(p[1] = "filter" /\ p[2][1] = "and", "filter-split", <<"filter", p[2][2], <<"filter", p[2][3], p[3]>>>>)

Below(p, c, to) == [c EXCEPT ![Len(c)] = [p EXCEPT ![Len(p)] = to]]
PushdownFilter(p) ==
  IF p[1] # "filter" THEN {} ELSE
    LET cond == p[2] c == p[3]
    IN On(c[1] = "order", "pushdown-filter-order", Below(p, c, Child(c)))
       \cup On(c[1] = "limit", "pushdown-filter-limit", Below(p, c, Child(c)))
       \cup On(c[1] = "topn", "pushdown-filter-topn", Below(p, c, Child(c)))
       \cup On(c[1] = "proj" /\ AllDependOn(cond, Child(c)), "pushdown-filter-proj", Below(p, c, Child(c)))
       \cup On(c[1] = "hashagg" /\ c[3][3] \notin Columns(cond), "pushdown-filter-hashagg", Below(p, c, Child(c)))
       \cup (IF c[1] # "join" THEN {} ELSE
               OnType(c[2] \in {"inner", "semi"}, "pushdown-filter-join", c[2], [c EXCEPT ![3] = <<"and", c[3], cond>>])
               \cup OnType(c[2] \in {"anti", "left_outer"} /\ NotDependOn(cond, c[5]), "pushdown-filter-left", c[2],
                           [c EXCEPT ![4] = <<"filter", cond, c[4]>>]))
       \cup OnType(c[1] = "apply" /\ NotDependOn(cond, c[4]), "pushdown-filter-apply-left", c[2],
                   [c EXCEPT ![3] = <<"filter", cond, c[3]>>])
PushdownJoinCondition(p) ==
  IF p[1] # "join" THEN {} ELSE
    LET both == p[3][1] = "and"
        first == IF both THEN p[3][2] ELSE p[3]
        pushed(side, cond, rest) == [p EXCEPT ![3] = rest, ![side] = <<"filter", cond, p[side]>>]
    IN OnType(both /\ NotDependOn(first, p[5]), "pushdown-join-condition-left", p[2], pushed(4, first, p[3][3]))
       \cup OnType(NotDependOn(p[3], p[5]), "pushdown-join-condition-left", p[2], pushed(4, p[3], True))
       \cup OnType(both /\ NotDependOn(first, p[4]), "pushdown-join-condition-right", p[2], pushed(5, first, p[3][3]))
       \cup OnType(NotDependOn(p[3], p[4]), "pushdown-join-condition-right", p[2], pushed(5, p[3], True))

RotateLosesCond(j, l) == <<"join", "inner", j[3], l[4], <<"join", "inner", True, l[5], j[5]>>>>
Rotate(j, l) == <<"join", "inner", <<"and", j[3], l[3]>>, l[4], <<"join", "inner", True, l[5], j[5]>>>>
JoinReorderRules(p) ==
  LET inner(j) == j[1] = "join" /\ j[2] = "inner"
  IN On(inner(p) /\ inner(p[4]), "inner-join-right-rotate", Rotate(p, p[4]))
     \cup (IF p[1] # "proj" THEN {} ELSE
             LET j == p[3]
             IN On(inner(j) /\ j[4][1] = "proj" /\ inner(j[4][3]), "inner-join-right-rotate-1",
                   <<"proj", p[2], Rotate(j, j[4][3])>>)
                \cup On(inner(j), "inner-join-swap", <<"proj", p[2], [j EXCEPT ![4] = j[5], ![5] = j[4]]>>)
                \cup On(j[1] = "hashjoin" /\ j[2] = "inner", "inner-hash-join-swap",
                        <<"proj", p[2], [j EXCEPT ![4] = j[5], ![5] = j[4], ![6] = j[7], ![7] = j[6]]>>))

\* The equalities of a condition that only splits into equalities, else <<>>.
RECURSIVE Equalities(_)
Equalities(e) ==
  CASE e[1] = "=" /\ e[2][1] = "col" /\ e[3][1] = "col" -> <<<<e[2][2], e[3][2]>>>>
    [] e[1] = "and" /\ Equalities(e[2]) # <<>> /\ Len(Equalities(e[2])) = 1 /\ Equalities(e[3]) # <<>> ->
         Equalities(e[2]) \o Equalities(e[3])
    [] OTHER -> <<>>
SidesMatch(eqs, l, r) == eqs # <<>> /\ \A i \in DOMAIN eqs : eqs[i][1] \notin Produced(r) /\ eqs[i][2] \notin Produced(l)
Firsts(eqs) == [i \in DOMAIN eqs |-> eqs[i][1]]
Seconds(eqs) == [i \in DOMAIN eqs |-> eqs[i][2]]
HashJoinRules(p) ==
  IF p[1] # "join" THEN {} ELSE
    LET eqs == Equalities(p[3])
        one == IF p[3][1] = "and" THEN Equalities(p[3][2]) ELSE <<>>
        keyed(es, cond) == <<"hashjoin", p[2], cond, Firsts(es), Seconds(es), p[4], p[5]>>
    IN OnType(SidesMatch(eqs, p[4], p[5]), "hash-join-on-eq", p[2], keyed(eqs, True))
       \cup OnType(Len(one) = 1 /\ SidesMatch(one, p[4], p[5]) /\ p[2] = "inner", "hash-join-on-eq", p[2],
                   <<"filter", p[3][3], keyed(one, True)>>)
       \cup OnType(Len(one) = 1 /\ SidesMatch(one, p[4], p[5]) /\ p[2] \in {"semi", "anti"}, "hash-join-on-eq", p[2],
                   keyed(one, p[3][3]))
Equals(l, r) == <<"=", <<"col", l>>, <<"col", r>>>>
HashJoinRevRules(p) ==
  IF p[1] # "hashjoin" THEN {} ELSE
    LET eqs == [i \in DOMAIN p[4] |-> Equals(p[4][i], p[5][i])]
        keys == FoldRight(LAMBDA eq, rest : <<"and", eq, rest>>, Front(eqs), Last(eqs))
    IN {<<"hash-join-rev", p[2], <<"join", p[2], <<"and", p[3], keys>>, p[6], p[7]>>>>}

Column0(subquery) == <<"col", Schema(subquery)[1]>>
SubqueryRules(p) ==
  On(p[1] = "in", "in-to-exists", <<"exists", <<"filter", <<"=", p[2], Column0(p[3])>>, p[3]>>>>)
  \cup (IF p[1] # "filter" THEN {} ELSE
          On(p[2][1] = "exists", "exists-to-semi-apply", <<"apply", "semi", p[3], p[2][2]>>)
          \cup On(p[2][1] = "not" /\ p[2][2][1] = "exists", "not-exists-to-anti-apply",
                  <<"apply", "anti", p[3], p[2][2][2]>>)
          \cup On(p[3][1] = "apply" /\ p[3][2] = "left_outer" /\ DependOn(p[2], p[3][4]),
                  "left-outer-apply-to-inner-apply", <<"filter", p[2], [p[3] EXCEPT ![2] = "inner"]>>))
NewKeys(l, keys) == Schema(l) \o keys
ApplyRules(p) ==
  IF p[1] # "apply" THEN {} ELSE
    LET l == p[3] r == p[4]
    IN On(NotDependOn(r, l), "apply-to-join", <<"join", p[2], True, l, r>>)
       \cup On(r[1] = "filter" /\ NotDependOn(r[3], l), "apply-filter-to-join", <<"join", p[2], r[2], l, r[3]>>)
       \cup On(p[2] = "inner" /\ r[1] = "filter", "pushdown-apply-filter", <<"filter", r[2], <<"apply", "inner", l, r[3]>>>>)
       \cup On(p[2] = "inner" /\ r[1] = "proj", "pushdown-apply-proj",
               <<"proj", NewKeys(l, r[2]), <<"apply", "inner", l, r[3]>>>>)
       \cup On(p[2] \in {"semi", "anti"} /\ r[1] = "proj", "pushdown-semi-apply-proj", [p EXCEPT ![4] = r[3]])
       \cup On(p[2] = "inner" /\ r[1] = "hashagg", "pushdown-apply-group-agg",
               <<"hashagg", NewKeys(l, r[2]), r[3], <<"apply", "inner", l, r[4]>>>>)
       \cup On(p[2] = "inner" /\ r[1] = "agg", "pushdown-apply-scalar-agg",
               <<"hashagg", NewKeys(l, <<>>), r[2], <<"apply", "left_outer", l, r[3]>>>>)

\* apply_proj: a projection to the used columns over each child.
Kept(p, used) == <<"proj", SelectSeq(Schema(p), LAMBDA c : c \in used), p>>
\* column_prune: the scan keeps the columns used by the projection and its own filter.
Pruned(scan, used) == [scan EXCEPT ![3] = SelectSeq(@, LAMBDA c : c \in used \cup Columns(scan[4]))]
ProjectionRules(p) ==
  IF p[1] # "proj" THEN
    On(p[1] = "agg", "pushdown-proj-agg", <<"agg", p[2], Kept(p[3], {p[2][2]})>>)
    \cup On(p[1] = "hashagg", "pushdown-proj-hashagg",
            <<"hashagg", p[2], p[3], Kept(p[4], ToSet(p[2]) \cup {p[3][2]})>>)
    \cup On(p[1] = "limit" /\ p[4][1] = "proj", "pushdown-limit-proj", Below(p, p[4], Child(p[4])))
  ELSE
    LET c == p[3] used == ToSet(p[2])
    IN On(p[2] = Schema(c), "identical-proj", c)
       \cup On(c[1] = "proj" /\ used \subseteq Produced(c[3]), "pushdown-proj-proj", <<"proj", p[2], c[3]>>)
       \cup On(c[1] = "limit", "pushdown-proj-limit", Below(p, c, Child(c)))
       \cup On(c[1] \in {"order", "topn"}, "pushdown-proj-order",
               <<"proj", p[2], [c EXCEPT ![Len(c)] = Kept(Child(c), used \cup OwnColumns(c))]>>)
       \cup On(c[1] = "filter", "pushdown-proj-filter", <<"proj", p[2], [c EXCEPT ![3] = Kept(c[3], used \cup Columns(c[2]))]>>)
       \cup OnType(c[1] = "join", "pushdown-proj-join", c[2],
               <<"proj", p[2], [c EXCEPT ![4] = Kept(c[4], used \cup Columns(c[3])),
                                         ![5] = Kept(c[5], used \cup Columns(c[3]))]>>)
       \cup OnType(c[1] = "apply", "pushdown-proj-apply", c[2],
               <<"proj", p[2], [c EXCEPT ![3] = Kept(c[3], used \cup Columns(c[4])),
                                         ![4] = Kept(c[4], used \cup Columns(c[4]))]>>)
       \cup On(c[1] = "scan", "pushdown-proj-scan", <<"proj", p[2], Pruned(c, used)>>)

UselessOrderIfAny(p) == On(p[1] = "order" /\ OrderKey(p[3]) # <<>>, "useless-order", p[3])
UselessOrder(p) == On(p[1] = "order" /\ IsOrderBy(p[2], p[3]), "useless-order", p[3])
OrderRules(p) ==
  UselessOrder(p)
  \cup OnType(p[1] = "hashjoin" /\ IsOrderBy(p[4], p[6]) /\ IsOrderBy(p[5], p[7]), "merge-join", p[2],
              [p EXCEPT ![1] = "mergejoin"])
  \cup On(p[1] = "hashagg" /\ IsOrderBy(p[2], p[4]), "sort-agg", [p EXCEPT ![1] = "sortagg"])

IsPrimaryKeyRange(cond, scan) == \E r \in RangeOf(cond) : r.col = KeyOf[scan[2]]
FilterScanRules(p) ==
  IF p[1] # "filter" \/ p[3][1] # "scan" \/ p[3][4] # True THEN {} ELSE
    On(IsPrimaryKeyRange(p[2], p[3]), "filter-scan", [p[3] EXCEPT ![4] = p[2]])
    \cup On(p[2][1] = "and" /\ IsPrimaryKeyRange(p[2][2], p[3]), "filter-scan-1",
            <<"filter", p[2][3], [p[3] EXCEPT ![4] = p[2][2]]>>)

---------------------------------------------------------------------------
(* The stages                                                               *)
AlwaysBetter(e) == CancelRules(e) \cup MergeRules(e)
AndStage(e) == IF e[1] \in Binary THEN AndRules(e, e[2], e[3]) \cup EqComm(e, e[2], e[3]) ELSE {}
Folding(e) == IF e[1] \in Unary \cup Binary THEN FoldConstant(e) ELSE {}
Stage1(e) == AndStage(e) \cup Folding(e) \cup AlwaysBetter(e) \cup SubqueryRules(e) \cup ApplyRules(e)
Stage2(e) == ExprRules(e) \cup AlwaysBetter(e) \cup PushdownFilter(e) \cup PushdownJoinCondition(e)
             \cup ProjectionRules(e) \cup FilterScanRules(e)
Stage3(e) == AndStage(e) \cup Folding(e) \cup AlwaysBetter(e) \cup JoinReorderRules(e) \cup HashJoinRules(e)
             \cup HashJoinRevRules(e) \cup PushdownFilter(e) \cup PushdownJoinCondition(e)
             \cup ProjectionRules(e) \cup OrderRules(e)
StageRules(n, e) == CASE n = 1 -> Stage1(e) [] n = 2 -> Stage2(e) [] n = 3 -> Stage3(e)
RECURSIVE Rewrites(_, _)
Rewrites(n, e) ==
  StageRules(n, e)
  \cup UNION {{<<w[1], w[2], [e EXCEPT ![i] = w[3]]>> : w \in Rewrites(n, e[i])} : i \in Children(e)}

VARIABLES query,      \* the chosen query
          term,       \* the term reached
          stage,      \* the stage running, 1 .. 3
          steps,      \* rewrites left (the bound of this walk)
          used        \* the rules applied so far, each with the join type or operator
vars == <<query, term, stage, steps, used>>

Init ==
  /\ query \in Queries
  /\ term = query.term
  /\ stage = query.stage
  /\ steps = query.steps
  /\ used = {}
Rewrite ==
  /\ steps > 0
  /\ \E w \in Rewrites(stage, term) :
       /\ term' = w[3]
       /\ used' = used \cup {<<w[1], w[2]>>}
  /\ steps' = steps - 1
  /\ UNCHANGED <<query, stage>>
NextStage ==
  /\ stage < 3
  /\ IsPlan(term)
  /\ stage' = stage + 1
  /\ UNCHANGED <<query, term, steps, used>>
Next == Rewrite \/ NextStage
Spec == Init /\ [][Next]_vars

---------------------------------------------------------------------------
(* What a plan returns: a sequence of rows.                                 *)
Merged(r, s) == [c \in DOMAIN r \cup DOMAIN s |-> IF c \in DOMAIN r THEN r[c] ELSE s[c]]
Only(r, cols) == [c \in ToSet(cols) |-> r[c]]
Nulls(cols) == [c \in ToSet(cols) |-> <<>>]
\* DataValue's order: NULL first.
Less(x, y) == IF x = <<>> \/ y = <<>> THEN x = <<>> /\ y # <<>> ELSE x[1] < y[1]
Sorted(rows, keys) ==
  IF keys = <<>> THEN rows ELSE SortSeq(rows, LAMBDA r, s : Less(r[keys[1]], s[keys[1]]))
Slice(rows, limit, offset) ==
  LET n == Len(rows) IN SubSeq(rows, offset + 1, IF limit = -1 THEN n ELSE IF offset + limit < n THEN offset + limit ELSE n)
\* The executor reads the key range off the scan's filter; the RowSet iterator
\* cuts the batch at the first scanned column.
RowsetRows(rows, cols, filter) ==
  LET beyond(b, v, strict) == IF strict THEN Less(b[2], v) ELSE ~ Less(v, b[2])
      first(b, strict) == LET at == {i \in DOMAIN rows : beyond(b, rows[i][cols[1]], strict)}
                          IN IF at = {} THEN Len(rows) + 1 ELSE CHOOSE i \in at : \A j \in at : i <= j
      cut(r) == SubSeq(rows, IF r.start = <<>> THEN 1 ELSE first(r.start, ~ r.start[1]),
                             (IF r.end = <<>> THEN Len(rows) + 1 ELSE first(r.end, r.end[1])) - 1)
  IN IF RangeOf(filter) = {} THEN rows ELSE cut(CHOOSE r \in RangeOf(filter) : TRUE)
\* scan_inner: one RowSet after the other; no scan asks for with_sorted.
ScanRows(rowsets, cols, filter) ==
  FlattenSeq([i \in DOMAIN rowsets |-> RowsetRows(rowsets[i], cols, filter)])
\* matched[i]: the right rows that match left row i.
EachLeft(type, left, matched, rcols) ==
  LET of(i) == CASE type = "semi" -> IF matched[i] # <<>> THEN <<left[i]>> ELSE <<>>
                 [] type = "anti" -> IF matched[i] = <<>> THEN <<left[i]>> ELSE <<>>
                 [] type = "left_outer" /\ matched[i] = <<>> -> <<Merged(left[i], Nulls(rcols))>>
                 [] OTHER -> [j \in DOMAIN matched[i] |-> Merged(left[i], matched[i][j])]
  IN FlattenSeq([i \in DOMAIN left |-> of(i)])
\* The rows of a join, given the pairs of positions that match; the rows of the right
\* side without a match are padded last.
\* (The nested loop of a right or full outer join is a todo!: its rows are what the
\* plan means.)
JoinRows(type, left, right, matches, lcols, rcols) ==
  LET rights(Test(_)) == LET at == SelectSeq([j \in DOMAIN right |-> j], Test) IN [n \in DOMAIN at |-> right[at[n]]]
      lone == rights(LAMBDA j : \A i \in DOMAIN left : <<i, j>> \notin matches)
  IN EachLeft(IF type = "full_outer" THEN "left_outer" ELSE type, left,
              [i \in DOMAIN left |-> rights(LAMBDA j : <<i, j>> \in matches)], rcols)
     \o (IF type \in {"right_outer", "full_outer"}
         THEN [j \in DOMAIN lone |-> Merged(lone[j], Nulls(lcols))] ELSE <<>>)
\* group_by_keys: the runs of rows with equal keys.
Runs(keys, rows) ==
  LET key(i) == [n \in DOMAIN keys |-> rows[i][keys[n]]]
      starts == SelectSeq([i \in DOMAIN rows |-> i], LAMBDA i : i = 1 \/ key(i - 1) # key(i))
      last(g) == IF g = Len(starts) THEN Len(rows) ELSE starts[g + 1] - 1
  IN [g \in DOMAIN starts |-> [key |-> key(starts[g]), rows |-> SubSeq(rows, starts[g], last(g))]]
KeyLess(x, y) == \E n \in DOMAIN x : Less(x[n], y[n]) /\ \A m \in 1 .. n - 1 : x[m] = y[m]
\* The loop of MergeJoinExecutor: the groups it takes together, or one alone.
RECURSIVE MergeGroups(_, _)
MergeGroups(ls, rs) ==
  CASE ls = <<>> /\ rs = <<>> -> <<>>
    [] ls # <<>> /\ rs # <<>> /\ ls[1].key = rs[1].key ->
         <<<<ls[1].rows, rs[1].rows>>>> \o MergeGroups(Tail(ls), Tail(rs))
    [] ls # <<>> /\ (rs # <<>> => KeyLess(ls[1].key, rs[1].key)) ->
         <<<<ls[1].rows, <<>>>>>> \o MergeGroups(Tail(ls), rs)
    [] OTHER -> <<<<<<>>, rs[1].rows>>>> \o MergeGroups(ls, Tail(rs))
MergeRows(type, ls, rs, lcols, rcols) ==
  LET taken == MergeGroups(ls, rs)
  IN FlattenSeq([g \in DOMAIN taken |->
       JoinRows(type, taken[g][1], taken[g][2], (DOMAIN taken[g][1]) \X (DOMAIN taken[g][2]), lcols, rcols)])
AggregateOf(f, rows) ==
  IF f[1] = "rowcount" THEN <<Len(rows)>> ELSE <<Cardinality({i \in DOMAIN rows : rows[i][f[2]] # <<>>})>>
\* Groups of equal keys, in order of first appearance.
GroupRows(keys, f, rows) ==
  LET key(r) == Only(r, keys)
      firsts == SelectSeq([i \in DOMAIN rows |-> i], LAMBDA i : \A j \in 1 .. i - 1 : key(rows[j]) # key(rows[i]))
  IN [g \in DOMAIN firsts |->
        Merged(key(rows[firsts[g]]),
               [c \in {f[3]} |-> AggregateOf(f, SelectSeq(rows, LAMBDA r : key(r) = key(rows[firsts[g]])))])]
\* SortAgg: one group per run of equal keys.
RunRows(keys, f, rows) ==
  LET runs == Runs(keys, rows)
  IN [g \in DOMAIN runs |->
        Merged(Only(runs[g].rows[1], keys), [c \in {f[3]} |-> AggregateOf(f, runs[g].rows)])]
\* A merge join of a type its builder refuses, and an Apply, do not run.
Refused == <<[refused |-> <<TRUE>>]>>

RECURSIVE RowsOf(_, _, _), Truth(_, _, _)
RowsOf(p, db, env) ==
  LET holds(cond, row) == Truth(cond, Merged(row, env), db) = <<TRUE>>
      child == RowsOf(Child(p), db, env)
      left == RowsOf(Left(p), db, env)
      pairs == (DOMAIN left) \X (DOMAIN child)
      keyed(l, r) == \A i \in DOMAIN p[4] : l[p[4][i]] = r[p[5][i]]
  IN CASE p[1] = "scan" -> LET rows == ScanRows(db[p[2]], p[3], p[4])
                           IN [i \in DOMAIN rows |-> Only(rows[i], p[3])]
       [] p[1] = "filter" -> SelectSeq(child, LAMBDA r : holds(p[2], r))
       [] p[1] = "proj" -> [i \in DOMAIN child |-> Only(child[i], p[2])]
       [] p[1] = "order" -> Sorted(child, p[2])
       [] p[1] = "limit" -> Slice(child, p[2], p[3])
       [] p[1] = "topn" -> Slice(Sorted(child, p[4]), p[2], p[3])
       [] p[1] = "empty" -> <<>>
       [] p[1] = "agg" -> <<[c \in {p[2][3]} |-> AggregateOf(p[2], child)]>>
       [] p[1] = "hashagg" -> GroupRows(p[2], p[3], child)
       [] p[1] = "sortagg" -> RunRows(p[2], p[3], child)
       [] p[1] = "join" ->
            JoinRows(p[2], left, child, {m \in pairs : holds(p[3], Merged(left[m[1]], child[m[2]]))},
                     Schema(Left(p)), Schema(Right(p)))
       [] p[1] = "hashjoin" ->
            JoinRows(p[2], left, child,
                     {m \in pairs : keyed(left[m[1]], child[m[2]]) /\ holds(p[3], Merged(left[m[1]], child[m[2]]))},
                     Schema(Left(p)), Schema(Right(p)))
       [] p[1] = "mergejoin" /\ p[2] \notin {"semi", "anti"} ->
            MergeRows(p[2], Runs(p[4], left), Runs(p[5], child), Schema(Left(p)), Schema(Right(p)))
       [] p[1] = "mergejoin" /\ p[2] \in {"semi", "anti"} -> Refused
       [] p[1] = "apply" ->
            EachLeft(p[2], left, [i \in DOMAIN left |-> RowsOf(p[4], db, Merged(left[i], env))], Schema(Right(p)))
Truth(e, row, db) ==
  CASE e[1] = "exists" -> <<RowsOf(e[2], db, row) # <<>>>>
    [] e[1] = "in" ->
         LET rows == RowsOf(e[3], db, row)
             eqs == {SqlBinary("=", Sql(e[2], row), rows[i][Schema(e[3])[1]]) : i \in DOMAIN rows}
         IN IF <<TRUE>> \in eqs THEN <<TRUE>> ELSE IF <<>> \in eqs THEN <<>> ELSE <<FALSE>>
    [] e[1] = "not" -> SqlUnary("not", Truth(e[2], row, db))
    [] e[1] \in {"and", "or"} -> SqlBinary(e[1], Truth(e[2], row, db), Truth(e[3], row, db))
    [] OTHER -> Sql(e, row)

---------------------------------------------------------------------------
(* Properties                                                               *)
NullAt(e, row) == \E s \in Subterms(e) : Sql(s, row) = <<>>
OverflowAt(e, row) ==
  \E s \in Subterms(e) :
    /\ s[1] \in {"+", "-", "*", "neg"}
    /\ \A i \in Children(s) : Sql(s[i], row) # <<>>
    /\ LET x == Sql(s[2], row)[1]
           y == IF s[1] = "neg" THEN x ELSE Sql(s[3], row)[1]
           exact == CASE s[1] = "+" -> x + y [] s[1] = "-" -> x - y [] s[1] = "*" -> x * y [] s[1] = "neg" -> -x
       IN exact # Wrap(exact)
Named(rules) == {<<r, "">> : r \in rules}
\* The rules that take NULL for a value, or for FALSE.
NullRules ==
  Named({"mul-zero", "sub-cancel", "and-null", "or-null", "eq-trans", "and-gt-lt-conflict", "if-not", "in-to-exists"})
  \cup ({"cmp-same"} \X Compare) \cup ({"const-null"} \X {"and", "or"})
  \cup ({"hash-join-on-eq"} \X {"inner", "left_outer", "right_outer", "full_outer", "semi", "anti"})
\* The rules that move a term across an inequality as if integers were unbounded.
OverflowRules == {"cmp-add"} \X {">", "<", ">=", "<="}
\* The rules that change results on ordinary data.
WrongRules ==
  Named({"recip-mul-div", "pushdown-filter-limit", "pushdown-filter-topn", "left-outer-apply-to-inner-apply",
         "pushdown-apply-scalar-agg", "pushdown-apply-group-agg"})
  \cup ({"pushdown-join-condition-left"} \X {"left_outer", "full_outer", "anti"})
  \cup ({"pushdown-join-condition-right"} \X {"right_outer", "full_outer"})
  \cup ({"merge-join"} \X {"semi", "anti"})
\* The rules that take a scan to come in the order of the primary key.
OrderedRules == Named({"useless-order", "sort-agg"}) \cup ({"merge-join"} \X {"inner", "left_outer", "right_outer", "full_outer"})
Applied(rules) == used \cap rules # {}

\* The type invariant; rewriting keeps an expression an expression and a plan a
\* plan that produces the same columns (schema.rs, extract_key, apply_proj).
TypeOK ==
  /\ stage \in 1 .. 3 /\ steps \in 0 .. query.steps
  /\ IsPlan(term) = IsPlan(query.term)
  /\ IsPlan(term) => Produced(term) = Produced(query.term)

\* Rewriting an expression (planner/rules/expr.rs) keeps its SQL value on every
\* row, except that NullRules may change it where some operand is NULL,
\* OverflowRules where some operation overflows, and recip-mul-div anywhere.
ValuePreserved ==
  ~ IsPlan(term) =>
    \A row \in Rows :
      \/ Applied(WrongRules)
      \/ Applied(NullRules) /\ (NullAt(query.term, row) \/ NullAt(term, row))
      \/ Applied(OverflowRules) /\ (OverflowAt(query.term, row) \/ OverflowAt(term, row))
      \/ Sql(term, row) = Sql(query.term, row)

\* A CASE whose condition is FALSE and of whose two values exactly one is NULL:
\* select_op takes the validity of the value it does not select (array/ops.rs).
SelectMisses(e, row) ==
  \E s \in Subterms(e) :
    s[1] = "if" /\ Sql(s[2], row) = <<FALSE>> /\ (Sql(s[3], row) = <<>>) # (Sql(s[4], row) = <<>>)
\* An OR, or a CASE condition, over a NULL cell whose raw value is true (a cast).
DirtyOperand(e, row) ==
  \E s \in Subterms(e) :
    LET dirty(x) == LET c == Kernel(x, row) IN ~ c.err /\ ~ c.valid /\ c.raw
    IN (s[1] = "or" /\ (dirty(s[2]) \/ dirty(s[3]))) \/ (s[1] = "if" /\ dirty(s[2]))
\* The kernels of array/ops.rs that do not fail give the SQL value of every
\* expression on every row, but for CASE over one NULL value and OR over the
\* raw value of a NULL.
KernelsRight ==
  ~ IsPlan(term) =>
    \A row \in Rows :
      LET cell == Kernel(term, row)
      IN cell.err \/ SelectMisses(term, row) \/ DirtyOperand(term, row) \/ Reads(cell) = Sql(term, row)

Occurs(x, rows) == Cardinality({i \in DOMAIN rows : rows[i] = x})
SameRows(r, s) == Len(r) = Len(s) /\ \A i \in DOMAIN r : Occurs(r[i], r) = Occurs(r[i], s)
NullFree(db) ==
  \A t \in DOMAIN db : \A row \in ToSet(FlattenSeq(db[t])) : \A c \in DOMAIN row : row[c] # <<>>
OuterFree(e) == \A s \in Subterms(e) : s[1] \in Joins => s[2] \in {"inner", "semi", "anti"}
InOrder(rows, key) == \A i, j \in DOMAIN rows : i < j => ~ Less(rows[j][key], rows[i][key])
\* The RowSets of the tables scanned follow each other in the order of the key.
KeyOrdered(e, db) ==
  \A s \in Subterms(e) : s[1] = "scan" => InOrder(FlattenSeq(db[s[2]]), KeyOf[s[2]])
Scans(e) == {s \in Subterms(e) : s[1] = "scan" /\ s[4] # True}
\* Scans whose range is not one of the first scanned column, or starts at a NULL.
Misranged(e) ==
  \E s \in Scans(e) :
    s[4] = False \/ \E r \in RangeOf(s[4]) : r.col # s[3][1] \/ (r.start # <<>> /\ r.start[2] = <<>>)
\* The executor reads the range again off the filter the optimizer extracted:
\* a filter pushed into a scan still has a range, or is the constant FALSE, in
\* which case the class also holds the free Empty plan (filter-false).
RangesKept == \A s \in Scans(term) : s[4] = False \/ \E r \in RangeOf(s[4]) : r.col = KeyOf[s[2]]
\* Optimizing a plan keeps its rows (as a bag) on every database, but for the
\* rules of WrongRules, with NULLs about those of NullRules, and with RowSets that
\* overlap in their keys those of OrderedRules; a condition
\* that became the scan's key range (filter-scan, planner/rules/range.rs)
\* returns the rows it held for when the key is the first column scanned.
PlanPreserved ==
  TypeOK /\ RangesKept /\
  (IsPlan(term) =>
     \A db \in Databases :
       \/ Applied(WrongRules) \/ Misranged(term)
       \/ Applied(NullRules) /\ ~ (NullFree(db) /\ OuterFree(query.term))
       \/ Applied(OrderedRules) /\ ~ KeyOrdered(query.term, db)
       \/ SameRows(RowsOf(term, db, <<>>), RowsOf(query.term, db, <<>>)))

PaddedMerge(e) == \E s \in Subterms(e) : s[1] = "mergejoin" /\ s[2] \in {"left_outer", "full_outer"}
\* ORDER BY stays obeyed by every rewriting, on every database, unless its sort was
\* dropped as useless (planner/rules/order.rs) over a scan of RowSets that overlap in
\* their keys, which come one after the other, or above a merge join that pads left
\* rows (the NULLs stand between the right keys).
OrderKept ==
  query.term[1] = "order" =>
    \A db \in Databases :
      \/ Applied(WrongRules)
      \/ <<"useless-order", "">> \in used /\ (PaddedMerge(term) \/ ~ KeyOrdered(query.term, db))
      \/ InOrder(RowsOf(term, db, <<>>), query.term[2][1])
=============================================================================
