---------------------------- MODULE MCExecutors ----------------------------
(* Inputs for Executors: chunks of at most Window = 2 rows.                *)
EXTENDS Executors

\* Ways to cut n rows into chunks, some of them empty.
Cuts(n) ==
  CASE n = 0 -> {<<>>, <<0>>}
    [] n = 1 -> {<<1>>, <<0, 1>>}
    [] n = 2 -> {<<2>>, <<1, 0, 1>>}
    [] n = 3 -> {<<1, 2>>}
    [] n = 4 -> {<<2, 2>>}
CutAs(rows, cut) ==
  [i \in DOMAIN cut |->
     LET before == FoldLeft(LAMBDA a, b : a + b, 0, SubSeq(cut, 1, i - 1))
     IN SubSeq(rows, before + 1, before + cut[i])]
Chunked(rowsets) == UNION {{CutAs(rows, cut) : cut \in Cuts(Len(rows))} : rows \in rowsets}
Upto(n, S) == UNION {[1 .. m -> S] : m \in 0 .. n}

\* Join inputs: key columns in order, for a merge join in any order too; the second
\* column tells the rows apart.
Ascending(keys) == \A i, j \in DOMAIN keys : i < j => keys[i] <= keys[j]
Numbered(keys) == [i \in DOMAIN keys |-> <<keys[i], i>>]
AnyOrder(n) == {Numbered(keys) : keys \in Upto(n, {1, 2})}
Chunk1(rows) == CutAs(rows, CHOOSE cut \in Cuts(Len(rows)) : TRUE)
KeyRows(n) == {Numbered(keys) : keys \in {k \in Upto(n, {Null, 1, 2}) : Ascending(k)}}

Query(kind, left, right) ==
  [kind |-> kind, left |-> left, right |-> right, type |-> "inner", anti |-> FALSE,
   cond |-> "true", bare |-> FALSE, desc |-> FALSE, offset |-> 0, limit |-> 0,
   arg |-> 2, plus |-> FALSE, fns |-> <<>>]

JoinQueries ==
  LET inputs == Chunked(KeyRows(3)) \X Chunked(KeyRows(2))
  IN {[Query(kind, io[1], io[2]) EXCEPT !.type = t] :
        kind \in {"hash_join", "merge_join"}, io \in inputs, t \in {"inner", "left", "right", "full"}}
     \cup {[Query("merge_join", Chunk1(l), Chunk1(r)) EXCEPT !.type = t] :
        l \in AnyOrder(3), r \in AnyOrder(3), t \in {"inner", "left", "right", "full"}}
     \cup {[Query("nl_join", io[1], io[2]) EXCEPT !.type = t, !.cond = c] :
        io \in inputs, t \in {"inner", "left"}, c \in {"eq", "cast", "null"}}
     \cup {[Query("hash_semi", io[1], io[2]) EXCEPT !.anti = a] : io \in inputs, a \in BOOLEAN}
     \cup {[Query(kind, io[1], io[2]) EXCEPT !.anti = a, !.cond = c] :
        kind \in {"hash_semi2", "nl_semi"}, io \in inputs, a \in BOOLEAN, c \in {"less", "cast", "null"}}
BareQueries ==
  LET inputs == Chunked({Numbered(k) : k \in Upto(2, {1})}) \X Chunked({Numbered(k) : k \in Upto(2, {1})})
  IN {[Query("nl_join", io[1], io[2]) EXCEPT !.type = t, !.bare = b] :
        io \in inputs, t \in {"inner", "left", "right", "full"}, b \in BOOLEAN}
     \cup {[Query("nl_semi", io[1], io[2]) EXCEPT !.anti = a, !.bare = TRUE] :
        io \in inputs, a \in BOOLEAN}

AggRows == Upto(3, {1, 2} \X {Null, 1, 2})
ByKey(rows) == \A i, j \in DOMAIN rows : i < j => rows[i][1] <= rows[j][1]
AggQueries ==
  {[Query(kind, left, <<>>) EXCEPT !.plus = p] :
     kind \in {"simple_agg", "hash_agg"}, left \in Chunked(AggRows), p \in BOOLEAN}
  \cup {Query("sort_agg", left, <<>>) :
     left \in Chunked({rows \in AggRows : ByKey(rows)} \cup {<<<<1, 2>>, <<2, 1>>, <<2, 2>>, <<3, 1>>>>})}

SomeRows == {Numbered(keys) : keys \in Upto(3, {Null, 1, 2})}
               \cup {Numbered(<<2, 1, Null, 1>>), Numbered(<<1, 2, 2, Null>>)}
OrderQueries ==
  {[Query("order", left, <<>>) EXCEPT !.desc = d] : left \in Chunked(SomeRows), d \in BOOLEAN}
  \cup {[Query(kind, left, <<>>) EXCEPT !.desc = TRUE, !.offset = o, !.limit = l] :
     kind \in {"top_n", "limit"}, left \in Chunked(SomeRows), o \in 0 .. 2, l \in {0, 1, 2, NoLimit}}

Fn(agg, arg) == [agg |-> agg, arg |-> arg]
WindowQueries ==
  {[Query("window", left, <<>>) EXCEPT !.fns = f] :
     left \in Chunked(SomeRows),
     f \in {<<Fn("sum", 1)>>, <<Fn("sum", 2)>>, <<Fn("rowcount", 1), Fn("max", 2), Fn("count", 1)>>}}
  \cup {[Query("filter", left, <<>>) EXCEPT !.cond = c] : left \in Chunked(SomeRows), c \in {"eq", "cast", "null"}}

AllQueries == JoinQueries \cup BareQueries \cup AggQueries \cup OrderQueries \cup WindowQueries
=============================================================================
