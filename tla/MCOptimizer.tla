---------------------------- MODULE MCOptimizer ----------------------------
(* Bound terms for Optimizer: each rule's pattern occurs in some of them.   *)
EXTENDS Optimizer

Col(c) == <<"col", c>>
a == Col("a")
b == Col("b")
k == Col("k")
v == Col("v")
Op(op, x, y) == <<op, x, y>>
Is(x, n) == <<"=", x, Num(n)>>
Query(n, first, t) == [term |-> t, stage |-> first, steps |-> n]

\* Scalar terms over a and b; MaxInt = 7.
MCRows == [{"a", "b"} -> {<<>>, <<0>>, <<1>>, <<7>>}]
IntTerms ==
  {Op(o, x, y) : o \in Arith, x \in {a, Num(0), Num(2)}, y \in {a, b, Num(0), Num(1), Num(-1), Num(2)}} \ {Op("/", a, Num(-1))}
Scalars1 ==
  IntTerms
  \cup {<<"neg", x>> : x \in {a, <<"neg", a>>, Op("-", a, b)}}
  \cup {Op(c, x, y) : c \in Compare, x \in {a, Num(1)}, y \in {a, b, Num(1)}}
Scalars2 ==
  {Op("+", a, Op("+", b, Num(1))), Op("+", a, <<"neg", b>>), Op("*", a, Op("*", b, Num(2))),
   Op("*", Num(2), Op("/", Num(1), Num(2))), Op("*", a, Op("+", b, Num(1))), Op("+", Op("*", a, b), Op("*", a, Num(2)))}
  \cup {Op(c, Op("+", a, Num(1)), b) : c \in Compare}
  \cup {<<"not", Op(c, a, b)>> : c \in Compare}
  \cup {<<"not", Op(o, Is(a, 1), Is(b, 1))>> : o \in {"and", "or"}}
  \cup {<<"not", <<"not", Is(a, 1)>>>>, <<"isnull", Op("+", a, b)>>}
  \cup {Op("and", Op(c, a, Num(1)), Op(d, a, n)) : c \in Compare, d \in {">", "<", ">=", "<="}, n \in {Num(0), Num(1)}}
  \cup {Op("and", Op("=", a, b), Op("=", b, Num(1)))}
  \cup {Op(o, l, Is(a, 1)) : o \in {"and", "or"}, l \in {True, False, <<"null">>}}
  \cup {Op(o, <<"null">>, l) : o \in {"and", "or"}, l \in {True, False}}
  \cup {Op(o, Is(a, 1), Op(o, Is(b, 1), Is(b, 0))) : o \in {"and", "or"}}
  \cup {Op("or", Op("and", Is(a, 1), Is(b, 1)), Op("and", Is(a, 1), Is(b, 0)))}
  \cup {<<"if", c, a, b>> : c \in {True, False, Is(a, 1), <<"not", Is(a, 1)>>, <<"tobool", Op("+", a, Num(1))>>}}
  \cup {Op("or", <<"tobool", Op("+", a, Num(1))>>, Is(b, 1)), Op("and", <<"tobool", a>>, <<"tobool", Op("/", a, b)>>)}

\* Tables t(k, v) and u(a, b) with the key first, w(x, y) with the key second.
MCColumnsOf == [t |-> <<"k", "v">>, u |-> <<"a", "b">>, w |-> <<"x", "y">>]
MCKeyOf == [t |-> "k", u |-> "a", w |-> "y"]
RowsetOf(c, d, rows) == [i \in DOMAIN rows |-> [x \in {c, d} |-> IF x = c THEN rows[i][1] ELSE rows[i][2]]]
TableOf(c, d, rowsets) == [n \in DOMAIN rowsets |-> RowsetOf(c, d, rowsets[n])]
Database(t, u, w) == [t |-> TableOf("k", "v", t), u |-> TableOf("a", "b", u), w |-> TableOf("x", "y", w)]
\* The last two have RowSets that overlap: in t, and in t and u.
MCDatabases ==
  {Database(<<<<<<<<1>>, <<1>>>>>>, <<<<<<2>>, <<2>>>>, <<<<3>>, <<1>>>>>>>>, <<<<<<<<1>>, <<1>>>>, <<<<3>>, <<1>>>>>>>>,
            <<<<<<<<3>>, <<1>>>>, <<<<1>>, <<2>>>>>>>>),
   Database(<<<<<<<<0>>, <<>>>>, <<<<2>>, <<2>>>>>>>>, <<<<<<<<1>>, <<>>>>, <<<<2>>, <<0>>>>>>>>, <<<<<<<<>>, <<2>>>>>>>>),
   Database(<<<<<<<<1>>, <<1>>>>, <<<<2>>, <<1>>>>>>>>, <<>>, <<<<<<<<1>>, <<1>>>>>>>>),
   Database(<<<<<<<<1>>, <<1>>>>, <<<<3>>, <<2>>>>>>, <<<<<<1>>, <<2>>>>, <<<<2>>, <<1>>>>>>>>,
            <<<<<<<<1>>, <<1>>>>, <<<<2>>, <<2>>>>>>>>, <<>>),
   Database(<<<<<<<<2>>, <<1>>>>>>, <<<<<<1>>, <<1>>>>>>>>, <<<<<<<<3>>, <<1>>>>>>, <<<<<<1>>, <<1>>>>, <<<<2>>, <<1>>>>>>>>,
            <<<<<<<<1>>, <<3>>>>>>, <<<<<<2>>, <<1>>>>>>>>)}

Scan(t) == <<"scan", t, MCColumnsOf[t], True>>
Filter(cond, p) == <<"filter", cond, p>>
Proj(cols, p) == <<"proj", cols, p>>
Join(type, cond, l, r) == <<"join", type, cond, l, r>>
Apply(type, l, r) == <<"apply", type, l, r>>
KeyEq == Op("=", k, a)
Types == {"inner", "left_outer", "right_outer", "full_outer", "semi", "anti"}

RangeConds ==
  {Op("and", Op(">", k, Num(1)), Op("<=", k, Num(2))), Op("and", Op(">", k, Num(2)), Op("<", k, Num(1))),
   Op("and", Op(">=", k, Num(2)), Is(v, 1)), Op("<", Num(1), k), Op("and", Op(">", k, Num(0)), Op(">", k, Num(1))),
   Op(">", Op("+", k, Num(1)), Num(2)), Op("=", k, <<"null">>), Op(">", k, <<"null">>), <<"not", Op(">=", k, Num(2))>>}
RangeQueries ==
  {Query(5, 2, Filter(cond, Scan("t"))) : cond \in RangeConds}
  \cup {Query(4, 2, Filter(Op(">=", Col("y"), Num(2)), Scan("w"))),
        Query(5, 2, Proj(<<"v">>, Filter(Op(">", k, Num(1)), Scan("t"))))}
PushdownQueries ==
  {Query(4, 2, Filter(Is(v, 2), p)) :
     p \in {<<"order", <<"k">>, Scan("t")>>, <<"limit", 1, 0, Scan("t")>>, <<"limit", -1, 0, Scan("t")>>,
            <<"topn", 1, 0, <<"v">>, Scan("t")>>, <<"order", <<>>, Scan("t")>>,
            <<"hashagg", <<"v">>, <<"rowcount", "k", "n">>, Scan("t")>>}}
  \cup {Query(4, 2, Filter(Is(v, 1), Filter(Is(k, 1), Scan("t")))),
        Query(4, 2, Filter(Op(">", Col("n"), Num(1)), <<"hashagg", <<"v">>, <<"count", "k", "n">>, Scan("t")>>)),
        Query(5, 2, <<"limit", 1, 1, <<"order", <<"v">>, Proj(<<"v">>, Scan("t"))>>>>),
        Query(5, 2, <<"limit", 1, 1, Proj(<<"v">>, Scan("t"))>>),
        Query(5, 2, Proj(<<"v">>, <<"limit", 1, 1, Proj(<<"v", "k">>, Scan("t"))>>)),
        Query(5, 2, Proj(<<"v">>, <<"order", <<"k">>, Scan("t")>>)),
        Query(5, 2, Proj(<<"v">>, <<"topn", 1, 0, <<"k">>, Scan("t")>>)),
        Query(4, 2, <<"agg", <<"rowcount", "k", "n">>, Filter(Is(v, 1), Scan("t"))>>)}
JoinQueries ==
  {Query(4, 2, Filter(cond, Join(type, Op("and", on, KeyEq), Scan("t"), Scan("u")))) :
     type \in Types, cond \in {Op("<", k, Num(3))}, on \in {Is(v, 1), True}}
  \cup {Query(4, 3, Join(type, Op("and", Is(b, 1), KeyEq), Scan("t"), Scan("u"))) : type \in Types}
  \cup {Query(4, 3, Join(type, Op("and", Op("=", v, b), cond), Scan("t"), Scan("u"))) :
          type \in Types, cond \in {KeyEq, Op("<", k, a)}}
  \cup {Query(5, 3, Join(type, on, Scan("t"), Scan("u"))) : type \in Types, on \in {KeyEq, Op("=", v, b), Is(k, 1)}}
  \cup {Query(4, 3, Proj(<<"v", "b">>, Join("inner", KeyEq, Scan("t"), Scan("u")))),
        Query(5, 3, Proj(<<"v", "b">>, <<"hashjoin", "inner", True, <<"k">>, <<"a">>, Scan("t"), Scan("u")>>)),
        Query(3, 3, Join("inner", Op("=", b, Col("x")), Join("inner", KeyEq, Scan("t"), Scan("u")), Scan("w"))),
        Query(4, 3, Proj(<<"v", "y">>, Join("inner", Op("=", b, Col("x")),
                      Proj(<<"v", "b">>, Join("inner", KeyEq, Scan("t"), Scan("u"))), Scan("w"))))}
SubqueryQueries ==
  {Query(5, 1, Filter(cond, Scan("t"))) :
     cond \in {<<"exists", Proj(<<"b">>, Filter(Op("=", k, a), Scan("u")))>>, <<"not", <<"exists", Filter(Op("=", v, b), Scan("u"))>>>>}}
  \cup {Query(4, 1, Filter(cond, Scan("t"))) :
     cond \in {<<"in", v, Proj(<<"b">>, Scan("u"))>>, <<"not", <<"in", v, Proj(<<"b">>, Scan("u"))>>>>}}
  \cup {Query(5, 1, Filter(Is(Col("n"), 0), Apply(type, Scan("t"), <<"agg", <<f, "b", "n">>, Filter(Op("=", v, b), Scan("u"))>>))) :
          type \in {"inner", "left_outer"}, f \in {"rowcount", "count"}}
  \cup {Query(4, 1, Filter(Op("<", v, Num(2)), Apply("left_outer", Scan("t"), Filter(KeyEq, Scan("u"))))),
        Query(4, 1, Filter(<<"isnull", b>>, Apply("left_outer", Scan("t"), Filter(KeyEq, Scan("u"))))),
        Query(4, 1, Proj(<<"v", "n">>, Apply("inner", Proj(<<"v">>, Scan("t")),
                      <<"hashagg", <<"b">>, <<"rowcount", "b", "n">>, Filter(Op("=", v, b), Scan("u"))>>))),
        Query(4, 1, Proj(<<"k", "b">>, Apply("inner", Scan("t"), Proj(<<"b">>, Filter(KeyEq, Scan("u"))))))}
OrderQueries ==
  {Query(4, 3, <<"order", <<c>>, p>>) : c \in {"k", "v"}, p \in {Scan("t"), Filter(Is(v, 1), Scan("t")), Proj(<<"k", "v">>, Scan("t"))}}
  \cup {Query(4, 3, <<"order", <<c>>, <<"hashjoin", type, True, <<"k">>, <<"a">>, Scan("t"), Scan("u")>>>>) :
          c \in {"k", "a"}, type \in {"inner", "left_outer", "right_outer", "full_outer"}}
  \cup {Query(5, 3, <<"hashagg", <<c>>, <<"rowcount", "k", "n">>, Scan("t")>>) : c \in {"k", "v"}}
  \cup {Query(4, 3, <<"limit", 1, 0, <<"order", <<"k">>, Scan("t")>>>>)}

MCQueries ==
  {Query(6, 2, e) : e \in Scalars1 \cup Scalars2}
  \cup RangeQueries \cup PushdownQueries \cup JoinQueries \cup SubqueryQueries \cup OrderQueries
=============================================================================
