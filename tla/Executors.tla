----------------------------- MODULE Executors -----------------------------
(***************************************************************************)
(* What one executor of src/src/executor computes from its children's      *)
(* chunks: the joins, the aggregations, order, top-n, limit, window and    *)
(* filter.  How executors are wired together, and what an error or a panic *)
(* of one does to the others, is the subject of Pipeline.                  *)
(*                                                                         *)
(* A query `op' is a record: the executor's `kind', the chunks of its      *)
(* children (`left' and `right'; a unary executor has only `left'), the    *)
(* join `type', whether a semi join is `anti', the condition `cond',       *)
(* whether the children were pruned to no column at all (`bare'), the      *)
(* order `desc', `offset' and `limit', and the column `arg' of an          *)
(* aggregate and whether it is wrapped in an addition (`plus').            *)
(*                                                                         *)
(* A row is <<k, v>>: the key column and one more.  A value is a number,   *)
(* Null below all of them as in DataValue.  An array keeps a raw datum     *)
(* under every NULL (0 as the builders push it), which a few kernels read: *)
(* a cell is [raw, valid].                                                 *)
(***************************************************************************)
EXTENDS Integers, SequencesExt

CONSTANTS Queries,   \* the executors and inputs to run
          Window     \* PROCESSING_WINDOW_SIZE

ASSUME WindowAssumption == Window \in Nat \ {0}

MaxCapacity == 100    \* rows that BinaryHeap::with_capacity_by can reserve memory for
NoLimit == 1000       \* usize::MAX / 2, the limit of a plan without LIMIT

VARIABLES op,    \* the query
          in,    \* the chunks its children have still to deliver
          st,    \* the executor's local state
          buf,   \* the rows in its DataChunkBuilder
          out,   \* the chunks it has yielded
          pc     \* "build", "probe", "outer", "done" or "panic"

vars == <<op, pc, in, buf, out, st>>

Null == -1
NullRow == <<Null, Null>>
Rows(chunks) == FlattenSeq(chunks)

---------------------------------------------------------------------------
(* DataChunkBuilder and the evaluator                                      *)

\* A chunk is collected from its arrays: one of no columns has no rows.
Collected(rows) == IF op.bare THEN <<>> ELSE rows

\* push_row returns a chunk whenever the capacity is reached; take returns the
\* rest, and nothing when no row is left.
FullChunks(rows) ==
  [i \in 1 .. Len(rows) \div Window |->
     Collected(SubSeq(rows, (i - 1) * Window + 1, i * Window))]
Rest(rows) == SubSeq(rows, (Len(rows) \div Window) * Window + 1, Len(rows))
Taken(rows) == IF rows = <<>> THEN <<>> ELSE <<Collected(rows)>>

\* The Bool array of a join condition over the row l ++ r, or of a filter:
\* a comparison clears the raw datum under NULL, a cast to BOOLEAN does not.  The
\* literal NULL is no Bool array, and its evaluation is followed by a panic.
NotBool == op.cond = "null"
Raw(v) == IF v = Null THEN 0 ELSE v
CondEq(l, r) ==
  LET valid == l[1] # Null /\ r[1] # Null
  IN [raw |-> valid /\ l[1] = r[1], valid |-> valid]
CondCast(l, r) ==
  [raw |-> Raw(l[1]) + Raw(r[1]) # 0, valid |-> l[1] # Null /\ r[1] # Null]
CondLess(l, r) == [raw |-> l[2] < r[2], valid |-> TRUE]
Cond(l, r) ==
  CASE op.cond = "eq"   -> CondEq(l, r)
    [] op.cond = "cast" -> CondCast(l, r)
    [] op.cond = "less" -> CondLess(l, r)
    [] op.cond = "true" -> [raw |-> TRUE, valid |-> TRUE]

Is(kind) == op.kind = kind
Pull(side, chunk) ==
  /\ in[side] # <<>>
  /\ chunk = Head(in[side])
  /\ in' = [in EXCEPT ![side] = Tail(@)]

\* Rows pushed into the builder; the chunks that fill up are yielded.
Push(rows) ==
  /\ buf' = Rest(buf \o rows)
  /\ out' = out \o FullChunks(buf \o rows)
Flush(rows) ==
  /\ buf' = <<>>
  /\ out' = out \o FullChunks(buf \o rows) \o Taken(Rest(buf \o rows))

---------------------------------------------------------------------------
(* HashJoinExecutor                                                        *)

\* A map from the keys of the left rows to the rows and the `matched' flag.
LeftOuter == op.type \in {"left", "full"}
RightOuter == op.type \in {"right", "full"}

HashBuild ==
  /\ Is("hash_join") /\ pc = "build" /\ in.left # <<>>
  /\ Pull("left", Head(in.left)) /\ st' = st \o Head(in.left)
  /\ UNCHANGED <<op, buf, out, pc>>

\* The map is complete: st becomes the map itself.
HashBuilt ==
  /\ Is("hash_join") /\ pc = "build" /\ in.left = <<>>
  /\ st' = [k \in {st[i][1] : i \in DOMAIN st} |->
              [rows |-> SelectSeq(st, LAMBDA row : row[1] = k), matched |-> FALSE]]
  /\ pc' = "probe"
  /\ UNCHANGED <<op, in, buf, out>>

ProbeRow(map, r) ==
  IF r[1] \in DOMAIN map
  THEN [i \in DOMAIN map[r[1]].rows |-> map[r[1]].rows[i] \o r]
  ELSE IF RightOuter THEN <<NullRow \o r>> ELSE <<>>

HashProbe ==
  /\ Is("hash_join") /\ pc = "probe" /\ in.right # <<>>
  /\ LET chunk == Head(in.right)
     IN /\ Pull("right", chunk)
        /\ Push(FlattenSeq([i \in DOMAIN chunk |-> ProbeRow(st, chunk[i])]))
        /\ st' = [k \in DOMAIN st |->
                    [st[k] EXCEPT !.matched = @ \/ \E i \in DOMAIN chunk : chunk[i][1] = k]]
  /\ UNCHANGED <<op, pc>>

\* The unmatched left rows, key by key in the order of the hash map.
HashFinish ==
  /\ Is("hash_join") /\ pc = "probe" /\ in.right = <<>>
  /\ \E keys \in SetToSeqs({k \in DOMAIN st : LeftOuter /\ ~st[k].matched}) :
       Flush(FlattenSeq([j \in DOMAIN keys |->
                [i \in DOMAIN st[keys[j]].rows |-> st[keys[j]].rows[i] \o NullRow]]))
  /\ pc' = "done"
  /\ UNCHANGED <<op, in, st>>

---------------------------------------------------------------------------
(* HashSemiJoinExecutor and HashSemiJoinExecutor2                          *)

Semi == op.kind \in {"hash_semi", "hash_semi2"}
SemiBuild ==
  /\ Semi /\ pc = "build"
  /\ IF in.right = <<>> THEN pc' = "probe" /\ UNCHANGED <<in, st>>
     ELSE Pull("right", Head(in.right)) /\ st' = st \o Head(in.right) /\ UNCHANGED pc
  /\ UNCHANGED <<op, buf, out>>

KeySetHas(l) == \E i \in DOMAIN st : st[i][1] = l[1]

\* Of the right rows with this key, some makes the condition's raw datum true.
KeyedRowHas(l) == \E i \in DOMAIN st : st[i][1] = l[1] /\ Cond(l, st[i]).raw

\* The condition is evaluated for a left row whose key is in the map.
KeyedPanics(chunk) == Is("hash_semi2") /\ NotBool /\ \E i \in DOMAIN chunk : KeySetHas(chunk[i])

Exists(l) == IF Is("hash_semi") THEN KeySetHas(l) ELSE KeyedRowHas(l)

\* One chunk out for every chunk in, be it empty.
SemiProbe ==
  /\ Semi /\ pc = "probe"
  /\ IF in.left = <<>> THEN pc' = "done" /\ UNCHANGED <<in, out>>
     ELSE IF KeyedPanics(Head(in.left)) THEN pc' = "panic" /\ UNCHANGED <<in, out>>
     ELSE /\ Pull("left", Head(in.left))
          /\ out' = Append(out, SelectSeq(Head(in.left), LAMBDA l : Exists(l) # op.anti))
          /\ UNCHANGED pc
  /\ UNCHANGED <<op, st, buf>>

---------------------------------------------------------------------------
(* NestedLoopJoinExecutor                                                  *)

\* st keeps the collected left rows and the conditions evaluated so far, for
\* right row after right row and within it left row after left row.
NestedCollect ==
  /\ Is("nl_join") /\ pc = "build"
  /\ IF op.type \in {"inner", "left"}
     THEN /\ st' = [rows |-> Rows(in.left), filter |-> <<>>, right |-> 0]
          /\ in' = [in EXCEPT !.left = <<>>]
          /\ pc' = "probe"
     ELSE pc' = "panic" /\ UNCHANGED <<in, st>>      \* todo!()
  /\ UNCHANGED <<op, buf, out>>

\* A full chunk is filtered by the condition's raw data, which are kept with
\* their validity in the filter builder.
Filtered(chunk) ==
  SelectSeq(chunk, LAMBDA row : Cond(SubSeq(row, 1, 2), SubSeq(row, 3, 4)).raw)
Conditions(chunk) ==
  [i \in DOMAIN chunk |-> Cond(SubSeq(chunk[i], 1, 2), SubSeq(chunk[i], 3, 4))]

Pairs(lefts, rights) ==
  FlattenSeq([j \in DOMAIN rights |-> [i \in DOMAIN lefts |-> lefts[i] \o rights[j]]])

NestedEmit(chunks, next) ==
  IF NotBool /\ chunks # <<>> THEN pc' = "panic" /\ UNCHANGED <<out, st>>
  ELSE /\ out' = out \o [i \in DOMAIN chunks |-> Filtered(chunks[i])]
       /\ st' = [st EXCEPT !.filter = @ \o FlattenSeq([i \in DOMAIN chunks |-> Conditions(chunks[i])]),
                           !.right = @ + (IF in.right = <<>> THEN 0 ELSE Len(Head(in.right)))]
       /\ pc' = next

NestedProbe ==
  /\ Is("nl_join") /\ pc = "probe" /\ in.right # <<>>
  /\ Pull("right", Head(in.right))
  /\ LET rows == buf \o Pairs(st.rows, Head(in.right))
     IN NestedEmit(FullChunks(rows), "probe") /\ buf' = Rest(rows)
  /\ UNCHANGED op

NestedRest ==
  /\ Is("nl_join") /\ pc = "probe" /\ in.right = <<>>
  /\ NestedEmit(Taken(buf), "outer") /\ buf' = <<>>
  /\ UNCHANGED <<op, in>>

\* Left row i was compared with right row j at filter[i + left_row_num * j];
\* get(i) is None where the condition is NULL, and beyond the end panics.
At(i, j) == i + Len(st.rows) * (j - 1)
MatchedAt(i) == \E j \in 1 .. st.right : st.filter[At(i, j)].valid /\ st.filter[At(i, j)].raw

OutOfFilter == LeftOuter /\ st.rows # <<>> /\ st.right > 0 /\ st.filter = <<>>

NestedFinish ==
  /\ Is("nl_join") /\ pc = "outer"
  /\ IF OutOfFilter THEN pc' = "panic" /\ UNCHANGED <<buf, out>>
     ELSE LET unmatched == SetToSortSeq({i \in DOMAIN st.rows : LeftOuter /\ ~MatchedAt(i)}, <)
          IN /\ Flush([n \in DOMAIN unmatched |-> st.rows[unmatched[n]] \o NullRow])
             /\ pc' = "done"
  /\ UNCHANGED <<op, in, st>>

---------------------------------------------------------------------------
(* NestedLoopSemiJoinExecutor                                              *)

NestedSemiCollect ==
  /\ Is("nl_semi") /\ pc = "build"
  /\ st' = in.right /\ in' = [in EXCEPT !.right = <<>>]
  /\ pc' = "probe"
  /\ UNCHANGED <<op, buf, out>>

\* The right chunks are tried in turn, up to the first hit unless anti.
SemiExists(l) == \E c \in DOMAIN st : \E i \in DOMAIN st[c] : Cond(l, st[c][i]).raw

\* left_row_to_chunk of no column has no rows, row_concat asserts as many as
\* the right chunk; then the condition is evaluated, over no rows too.
ConcatPanicsEmpty(chunk) ==   \* a variant that skips empty right chunks
  chunk # <<>> /\ (op.bare \/ NotBool) /\ \E c \in DOMAIN st : st[c] # <<>>
ConcatPanics(chunk) ==
  chunk # <<>> /\ \E c \in DOMAIN st : NotBool \/ (op.bare /\ st[c] # <<>>)

NestedSemiProbe ==
  /\ Is("nl_semi") /\ pc = "probe"
  /\ IF in.left = <<>> THEN Flush(<<>>) /\ pc' = "done" /\ UNCHANGED in
     ELSE IF ConcatPanics(Head(in.left)) THEN pc' = "panic" /\ UNCHANGED <<in, buf, out>>
     ELSE /\ Pull("left", Head(in.left))
          /\ Push(SelectSeq(Head(in.left), LAMBDA l : SemiExists(l) # op.anti))
          /\ UNCHANGED pc
  /\ UNCHANGED <<op, st>>

---------------------------------------------------------------------------
(* MergeJoinExecutor                                                       *)

\* group_by_keys: a group for every run of rows with the same keys, whatever
\* the chunk boundaries.
GroupByKeys(rows) ==
  LET starts == {i \in DOMAIN rows : i = 1 \/ rows[i - 1][1] # rows[i][1]}
      start == SetToSortSeq(starts, <)
      end(g) == IF g = Len(start) THEN Len(rows) ELSE start[g + 1] - 1
  IN [g \in DOMAIN start |-> SubSeq(rows, start[g], end(g))]

MergeStart ==
  /\ Is("merge_join") /\ pc = "build"
  /\ st' = [left |-> GroupByKeys(Rows(in.left)), right |-> GroupByKeys(Rows(in.right))]
  /\ in' = [left |-> <<>>, right |-> <<>>]
  /\ pc' = "probe"
  /\ UNCHANGED <<op, buf, out>>

GroupKey(side) == st[side][1][1][1]
LeftPairs(lefts, rights) ==
  FlattenSeq([i \in DOMAIN lefts |-> [j \in DOMAIN rights |-> lefts[i] \o rights[j]]])
EqualArm == st.left # <<>> /\ st.right # <<>> /\ GroupKey("left") = GroupKey("right")
LeftArm == st.left # <<>> /\ (st.right # <<>> => GroupKey("left") < GroupKey("right"))
RightArmBoth ==   \* a variant that does not go on when the left side is finished
  st.right # <<>> /\ st.left # <<>> /\ GroupKey("left") > GroupKey("right")
RightArm == st.right # <<>> /\ (st.left # <<>> => GroupKey("left") > GroupKey("right"))
MergeEqual ==
  /\ EqualArm
  /\ Push(LeftPairs(st.left[1], st.right[1]))
  /\ st' = [left |-> Tail(st.left), right |-> Tail(st.right)]
MergeLeft ==
  /\ LeftArm
  /\ Push(IF LeftOuter THEN [i \in DOMAIN st.left[1] |-> st.left[1][i] \o NullRow] ELSE <<>>)
  /\ st' = [st EXCEPT !.left = Tail(@)]
MergeRight ==
  /\ RightArm
  /\ Push(IF RightOuter THEN [i \in DOMAIN st.right[1] |-> NullRow \o st.right[1][i]] ELSE <<>>)
  /\ st' = [st EXCEPT !.right = Tail(@)]
MergeStep ==
  /\ Is("merge_join") /\ pc = "probe"
  /\ MergeEqual \/ MergeLeft \/ MergeRight
  /\ UNCHANGED <<op, in, pc>>
MergeBreak ==
  /\ Is("merge_join") /\ pc = "probe" /\ ~EqualArm /\ ~LeftArm /\ ~RightArm
  /\ Flush(<<>>) /\ pc' = "done"
  /\ UNCHANGED <<op, in, st>>

---------------------------------------------------------------------------
(* Aggregate states: Evaluator::init_agg_state, eval_agg and agg_append    *)

AggNames == <<"rowcount", "count", "sum", "min", "max", "first", "last", "distinct">>
InitAgg(a) ==
  CASE a = "distinct" -> {}
    [] a \in {"rowcount", "count"} -> 0
    [] OTHER -> Null

\* Ext::add takes the other side for a NULL state; DataValue's + has a NULL
\* result for a NULL operand.  Ext::or, DataValue::min and max skip NULLs.
AddValues(a, b) == IF a = Null \/ b = Null THEN Null ELSE a + b
AddState(s, v) == IF s = Null THEN v ELSE AddValues(s, v)
OrValue(a, b) == IF a = Null THEN b ELSE a
MinValue(a, b) == IF a = Null THEN b ELSE IF b = Null \/ a < b THEN a ELSE b
MaxValue(a, b) == IF a = Null THEN b ELSE IF b = Null \/ a > b THEN a ELSE b

\* One value appended to the state, as HashAgg, SortAgg and Window do.
AppendAgg(a, s, v) ==
  CASE a = "rowcount" -> AddState(s, 1)
    [] a = "count"    -> AddState(s, IF v = Null THEN 0 ELSE 1)
    [] a = "sum"      -> AddState(s, v)
    [] a = "min"      -> MinValue(s, v)
    [] a = "max"      -> MaxValue(s, v)
    [] a = "first"    -> OrValue(s, v)
    [] a = "last"     -> v
    [] a = "distinct" -> s \cup {v}

\* The argument over one row: a column, or column + 1, whose raw datum under a
\* NULL is no longer 0.
Arg(row) == [raw |-> Raw(row[op.arg]) + (IF op.plus THEN 1 ELSE 0), valid |-> row[op.arg] # Null]
Value(c) == IF c.valid THEN c.raw ELSE Null

\* The array kernels: sum and count over all cells, raw data included; min and
\* max over the valid ones; first and last look at one cell only.
SumArray(cells) == FoldLeft(LAMBDA acc, c : acc + c.raw, 0, cells)
CountArray(cells) == Len(SelectSeq(cells, LAMBDA c : c.valid))
MinArray(cells) == FoldLeft(LAMBDA acc, c : MinValue(acc, Value(c)), Null, cells)
MaxArray(cells) == FoldLeft(LAMBDA acc, c : MaxValue(acc, Value(c)), Null, cells)
FirstArray(cells) == IF cells = <<>> THEN Null ELSE Value(cells[1])
LastArray(cells) == IF cells = <<>> THEN Null ELSE Value(cells[Len(cells)])

\* A whole chunk added to the state, as SimpleAgg does.
EvalAgg(a, s, cells) ==
  CASE a = "rowcount" -> AddState(s, Len(cells))
    [] a = "count"    -> AddState(s, CountArray(cells))
    [] a = "sum"      -> AddState(s, SumArray(cells))
    [] a = "min"      -> MinValue(s, MinArray(cells))
    [] a = "max"      -> MaxValue(s, MaxArray(cells))
    [] a = "first"    -> OrValue(s, FirstArray(cells))
    [] a = "last"     -> OrValue(LastArray(cells), s)
    [] a = "distinct" -> s \cup {Value(cells[i]) : i \in DOMAIN cells}

InitStates == [i \in DOMAIN AggNames |-> InitAgg(AggNames[i])]
AppendStates(s, v) == [i \in DOMAIN AggNames |-> AppendAgg(AggNames[i], s[i], v)]
Result(a, s) == IF a = "distinct" THEN Cardinality(s) ELSE s
Results(s) == [i \in DOMAIN AggNames |-> Result(AggNames[i], s[i])]

---------------------------------------------------------------------------
(* SimpleAggExecutor, HashAggExecutor, SortAggExecutor                     *)

Cells(chunk) == [i \in DOMAIN chunk |-> Arg(chunk[i])]
SimpleAgg ==
  /\ Is("simple_agg") /\ pc = "build"
  /\ IF in.left = <<>>
     THEN /\ out' = Append(out, <<Results(st)>>)
          /\ pc' = "done" /\ UNCHANGED <<in, st>>
     ELSE /\ Pull("left", Head(in.left))
          /\ st' = [i \in DOMAIN AggNames |-> EvalAgg(AggNames[i], st[i], Cells(Head(in.left)))]
          /\ UNCHANGED <<out, pc>>
  /\ UNCHANGED <<op, buf>>

\* entry(keys).or_insert_with(init_agg_states), then agg_list_append.
IntoGroup(groups, row) ==
  LET old == IF row[1] \in DOMAIN groups THEN groups[row[1]] ELSE InitStates
  IN [k \in DOMAIN groups \cup {row[1]} |->
        IF k = row[1] THEN AppendStates(old, Value(Arg(row))) ELSE groups[k]]
HashAgg ==
  /\ Is("hash_agg") /\ pc = "build" /\ in.left # <<>>
  /\ Pull("left", Head(in.left))
  /\ st' = FoldLeft(IntoGroup, st, Head(in.left))
  /\ UNCHANGED <<op, buf, out, pc>>
HashAggEnd ==
  /\ Is("hash_agg") /\ pc = "build" /\ in.left = <<>>
  /\ \E keys \in SetToSeqs(DOMAIN st) :
       Flush([i \in DOMAIN keys |-> <<keys[i]>> \o Results(st[keys[i]])])
  /\ pc' = "done"
  /\ UNCHANGED <<op, in, st>>

\* last_keys, the states of that group, and the rows pushed for finished ones.
GroupRow(s) == IF s.last = <<>> THEN <<>> ELSE <<s.last \o Results(s.states)>>
NextRowKeeps(s, row) ==   \* a variant that carries the states into the next group
  LET same == s.last = <<row[1]>>
  IN [last |-> <<row[1]>>,
      states |-> AppendStates(s.states, Value(Arg(row))),
      push |-> IF same THEN s.push ELSE s.push \o GroupRow(s)]
NextRow(s, row) ==
  LET same == s.last = <<row[1]>>
  IN [last |-> <<row[1]>>,
      states |-> AppendStates(IF same THEN s.states ELSE InitStates, Value(Arg(row))),
      push |-> IF same THEN s.push ELSE s.push \o GroupRow(s)]
SortAgg ==
  /\ Is("sort_agg") /\ pc = "build" /\ in.left # <<>>
  /\ Pull("left", Head(in.left))
  /\ LET s == FoldLeft(NextRow, st, Head(in.left))
     IN Push(s.push) /\ st' = [s EXCEPT !.push = <<>>]
  /\ UNCHANGED <<op, pc>>

\* push_row, or take when that does not fill the chunk.
SortAggEnd ==
  /\ Is("sort_agg") /\ pc = "build" /\ in.left = <<>>
  /\ Flush(GroupRow(st)) /\ pc' = "done"
  /\ UNCHANGED <<op, in, st>>

---------------------------------------------------------------------------
(* OrderExecutor, TopNExecutor                                             *)

\* cmp: by the order key, NULL first, reversed when descending.
Before(r1, r2) == IF op.desc THEN r1[1] > r2[1] ELSE r1[1] < r2[1]
Sorted(rows) == \A i, j \in DOMAIN rows : i < j => ~Before(rows[j], rows[i])

\* sort_unstable_by and into_sorted_vec: ties come in any order.
SortsOf(rows) ==
  {s \in {[i \in DOMAIN rows |-> rows[p[i]]] : p \in SetToSeqs(DOMAIN rows)} : Sorted(s)}

OrderCollect ==
  /\ Is("order") /\ pc = "build" /\ in.left # <<>>
  /\ Pull("left", Head(in.left)) /\ st' = st \o Head(in.left)
  /\ UNCHANGED <<op, buf, out, pc>>
OrderEnd ==
  /\ Is("order") /\ pc = "build" /\ in.left = <<>>
  /\ \E rows \in SortsOf(st) : Flush(rows)
  /\ pc' = "done"
  /\ UNCHANGED <<op, in, st>>

\* heap.push, and heap.pop of some greatest row above the heap size.
HeapSizeLimit == op.limit   \* a variant that forgets the offset
HeapSize == op.offset + op.limit
Popped(heap) ==
  IF Len(heap) <= HeapSize THEN {heap}
  ELSE {RemoveAt(heap, i) : i \in {n \in DOMAIN heap : \A j \in DOMAIN heap : ~Before(heap[n], heap[j])}}
TopNReserve ==
  /\ Is("top_n") /\ pc = "build" /\ HeapSize > MaxCapacity
  /\ pc' = "panic"
  /\ UNCHANGED <<op, in, st, buf, out>>
TopNRow ==
  /\ Is("top_n") /\ pc = "build" /\ HeapSize <= MaxCapacity /\ in.left # <<>>
  /\ IF Head(in.left) = <<>> THEN in' = [in EXCEPT !.left = Tail(@)] /\ UNCHANGED st
     ELSE /\ in' = [in EXCEPT !.left[1] = Tail(@)]
          /\ st' \in Popped(Append(st, Head(Head(in.left))))
  /\ UNCHANGED <<op, buf, out, pc>>

Slice(rows, offset, limit) ==
  SubSeq(rows, offset + 1, IF Len(rows) < offset + limit THEN Len(rows) ELSE offset + limit)
TopNEnd ==
  /\ Is("top_n") /\ pc = "build" /\ HeapSize <= MaxCapacity /\ in.left = <<>>
  /\ \E rows \in SortsOf(st) : Flush(Slice(rows, op.offset, op.limit))
  /\ pc' = "done"
  /\ UNCHANGED <<op, in, st>>

---------------------------------------------------------------------------
(* LimitExecutor, WindowExecutor, FilterExecutor                           *)

\* st is the number of rows processed.
LimitStart == IF st > op.offset THEN 0 ELSE op.offset - st
LimitEnd(n) == (IF st + n < op.offset + op.limit THEN st + n ELSE op.offset + op.limit) - st
Limit ==
  /\ Is("limit") /\ pc = "build"
  /\ IF in.left = <<>> \/ op.limit = 0 THEN pc' = "done" /\ UNCHANGED <<in, st, out>>
     ELSE LET chunk == Head(in.left)
          IN /\ Pull("left", chunk)
             /\ st' = st + Len(chunk)
             /\ IF LimitStart >= LimitEnd(Len(chunk)) THEN UNCHANGED <<out, pc>>
                ELSE /\ out' = Append(out, SubSeq(chunk, LimitStart + 1, LimitEnd(Len(chunk))))
                     /\ pc' = IF st' >= op.offset + op.limit THEN "done" ELSE pc
  /\ UNCHANGED <<op, buf>>

\* agg_list_append zips the functions with the row's own values: function j
\* reads column j, and one beyond the last column is never advanced.
WindowAppend(s, row) ==
  [j \in DOMAIN s |-> IF j > Len(row) THEN s[j] ELSE AppendAgg(op.fns[j].agg, s[j], row[j])]
WindowScan(chunk) ==   \* the states after each row of the chunk
  [i \in DOMAIN chunk |-> FoldLeft(WindowAppend, st, SubSeq(chunk, 1, i))]
WindowChunk ==
  /\ Is("window") /\ pc = "build"
  /\ IF in.left = <<>> THEN pc' = "done" /\ UNCHANGED <<in, st, out>>
     ELSE IF Head(in.left) = <<>> THEN pc' = "panic" /\ UNCHANGED <<in, st, out>>
     ELSE LET chunk == Head(in.left)
              states == WindowScan(chunk)
          IN /\ Pull("left", chunk)
             /\ st' = states[Len(chunk)]
             /\ out' = Append(out, [i \in DOMAIN chunk |-> chunk[i] \o states[i]])
             /\ UNCHANGED pc
  /\ UNCHANGED <<op, buf>>

\* The condition of a filter: k = 1, or CAST(k + 1 AS BOOLEAN).
Visible(row) == Cond(row, <<1, 0>>).raw
Filter ==
  /\ Is("filter") /\ pc = "build"
  /\ IF in.left = <<>> THEN pc' = "done" /\ UNCHANGED <<in, out>>
     ELSE IF NotBool THEN pc' = "panic" /\ UNCHANGED <<in, out>>
     ELSE /\ Pull("left", Head(in.left))
          /\ out' = Append(out, SelectSeq(Head(in.left), Visible))
          /\ UNCHANGED pc
  /\ UNCHANGED <<op, st, buf>>

StartState ==
  CASE Is("simple_agg") -> InitStates
    [] Is("sort_agg") -> [last |-> <<>>, states |-> InitStates, push |-> <<>>]
    [] Is("limit") -> 0
    [] Is("window") -> [j \in DOMAIN op.fns |-> InitAgg(op.fns[j].agg)]
    [] OTHER -> <<>>

Init ==
  /\ op \in Queries
  /\ in = [left |-> op.left, right |-> op.right]
  /\ st = StartState
  /\ buf = <<>> /\ out = <<>>
  /\ pc = "build"

Next ==
  \/ HashBuild \/ HashBuilt \/ HashProbe \/ HashFinish
  \/ SemiBuild \/ SemiProbe
  \/ NestedCollect \/ NestedProbe \/ NestedRest \/ NestedFinish
  \/ NestedSemiCollect \/ NestedSemiProbe
  \/ MergeStart \/ MergeStep \/ MergeBreak
  \/ SimpleAgg \/ HashAgg \/ HashAggEnd \/ SortAgg \/ SortAggEnd
  \/ OrderCollect \/ OrderEnd \/ TopNReserve \/ TopNRow \/ TopNEnd
  \/ Limit \/ WindowChunk \/ Filter

Spec == Init /\ [][Next]_vars

---------------------------------------------------------------------------
(* What the answers should be                                              *)

Lefts == Rows(op.left)
Rights == Rows(op.right)
Answer == Rows(out)
Done == pc = "done"
Copies(rows, row) == Cardinality({i \in DOMAIN rows : rows[i] = row})
PartOf(a, b) == \A row \in Range(a) : Copies(a, row) <= Copies(b, row)
SameRows(a, b) == Len(a) = Len(b) /\ PartOf(a, b)

Joins == {"hash_join", "nl_join", "merge_join"}
SemiJoins == {"hash_semi", "hash_semi2", "nl_semi"}
Keyed == op.kind \in {"hash_join", "merge_join", "hash_semi", "hash_semi2"}

\* The join under a match predicate: matching pairs, then the padded rows.
LoneLeft(Match(_, _)) ==
  SelectSeq(Lefts, LAMBDA l : LeftOuter /\ ~\E j \in DOMAIN Rights : Match(l, Rights[j]))
LoneRight(Match(_, _)) ==
  SelectSeq(Rights, LAMBDA r : RightOuter /\ ~\E i \in DOMAIN Lefts : Match(Lefts[i], r))
Padded(rows, pad(_)) == [i \in DOMAIN rows |-> pad(rows[i])]
JoinOf(Match(_, _)) ==
  SelectSeq(Pairs(Lefts, Rights), LAMBDA row : Match(SubSeq(row, 1, 2), SubSeq(row, 3, 4)))
  \o Padded(LoneLeft(Match), LAMBDA l : l \o NullRow)
  \o Padded(LoneRight(Match), LAMBDA r : NullRow \o r)
SemiOf(Match(_, _)) ==
  SelectSeq(Lefts, LAMBDA l : (\E j \in DOMAIN Rights : Match(l, Rights[j])) # op.anti)
AnswerOf(Match(_, _)) == IF op.kind \in SemiJoins THEN SemiOf(Match) ELSE JoinOf(Match)

\* SQL's match: the keys are equal and not NULL, the condition is true.
SqlMatch(l, r) ==
  /\ Keyed => l[1] = r[1] /\ l[1] # Null
  /\ op.kind \notin {"hash_join", "merge_join", "hash_semi"} => Cond(l, r).valid /\ Cond(l, r).raw

\* The code's match: keys are compared as DataValues, the condition by its raw
\* datum.
CodeMatch(l, r) ==
  /\ Keyed => l[1] = r[1]
  /\ op.kind \notin {"hash_join", "merge_join", "hash_semi"} => Cond(l, r).raw

HasNullKey(rows) == \E i \in DOMAIN rows : rows[i][1] = Null
NullsMeet ==
  \/ Keyed /\ HasNullKey(Lefts) /\ HasNullKey(Rights)
  \/ op.cond = "cast" /\ (HasNullKey(Lefts) \/ HasNullKey(Rights))

Values(rows) == [i \in DOMAIN rows |-> Value(Arg(rows[i]))]
NonNull(vs) == SelectSeq(vs, LAMBDA v : v # Null)
Total(vs) == FoldLeft(LAMBDA a, b : a + b, 0, vs)
SqlAgg(a, vs) ==
  LET some == NonNull(vs)
  IN CASE a = "rowcount" -> Len(vs)
       [] a = "count" -> Len(some)
       [] a = "distinct" -> Cardinality(Range(some))
       [] some = <<>> -> Null
       [] a = "sum" -> Total(some)
       [] a = "min" -> CHOOSE v \in Range(some) : \A w \in Range(some) : v <= w
       [] a = "max" -> CHOOSE v \in Range(some) : \A w \in Range(some) : v >= w
       [] a = "first" -> some[1]
       [] a = "last" -> some[Len(some)]
NullSafe == {"rowcount", "count", "min", "max"}

\* What the appending executors make of NULLs: the sum starts over after each
\* NULL, last is the last value whatever it is, NULL is one more distinct value.
AfterLastNull(vs) ==
  LET nulls == {i \in DOMAIN vs : vs[i] = Null}
  IN SubSeq(vs, 1 + (IF nulls = {} THEN 0 ELSE CHOOSE i \in nulls : \A j \in nulls : j <= i), Len(vs))
AppendedAgg(a, vs) ==
  CASE a = "sum" -> IF AfterLastNull(vs) = <<>> THEN Null ELSE Total(AfterLastNull(vs))
    [] a = "last" -> vs[Len(vs)]
    [] a = "distinct" -> Cardinality(Range(vs))
    [] OTHER -> SqlAgg(a, vs)

\* What SimpleAgg makes of them: the sum adds the raw data of the NULLs, and is
\* 0 for chunks without rows; first and last see the ends of the chunks only.
Firsts(chunks) == [i \in DOMAIN chunks |-> Values(chunks[i])[1]]
Lasts(chunks) == [i \in DOMAIN chunks |-> Values(chunks[i])[Len(chunks[i])]]
SimpleAggOf(a) ==
  LET chunks == SelectSeq(op.left, LAMBDA c : c # <<>>)
  IN CASE a = "sum" -> IF op.left = <<>> THEN Null
                       ELSE Total([i \in DOMAIN Lefts |-> Arg(Lefts[i]).raw])
    [] a = "first" -> SqlAgg("first", Firsts(chunks))
    [] a = "last" -> SqlAgg("last", Lasts(chunks))
    [] a = "distinct" -> Cardinality(Range(Values(Lefts)))
    [] OTHER -> SqlAgg(a, Values(Lefts))
Group(k) == Values(SelectSeq(Lefts, LAMBDA row : row[1] = k))
Keys(rows) == [i \in DOMAIN rows |-> rows[i][1]]

---------------------------------------------------------------------------
(* Properties                                                              *)

\* No chunk has more than PROCESSING_WINDOW_SIZE rows and the builder never keeps
\* a full chunk back (DataChunkBuilder::push_row).  Joins by key, aggregations
\* and sorts yield full chunks, then a last one that is not empty: no row is held
\* back at a chunk boundary, and no empty chunk wakes the consumer.
ChunksFull ==
  /\ Len(buf) < Window
  /\ \A i \in DOMAIN out : Len(out[i]) <= Window
  /\ (Done /\ op.kind \in {"hash_join", "merge_join", "hash_agg", "sort_agg", "order", "top_n"}) =>
       \A i \in DOMAIN out : Len(out[i]) > 0 /\ (i < Len(out) => Len(out[i]) = Window)

\* A merge join's answer is the join when its inputs come in the order of the keys.
InOrder(rows) == \A i, j \in DOMAIN rows : i < j => rows[i][1] <= rows[j][1]
Ordered == Is("merge_join") => InOrder(Lefts) /\ InOrder(Rights)

\* Hash, merge and nested-loop executors of the same join give SQL's rows, each
\* as often as SQL has it, for inner, outer, semi and anti joins and however
\* the inputs are cut into chunks -- unless NULL keys meet, the condition is a
\* cast over NULLs, the children were pruned to no column, or a merge join's input
\* is out of order.  On the way nothing is yielded that is not in the answer.
SqlJoin ==
  ~NullsMeet /\ pc # "panic" =>
    PartOf(Answer, AnswerOf(SqlMatch)) /\ (Done => SameRows(Answer, AnswerOf(SqlMatch)))

\* What a merge join still does when an input is out of order: it pairs only rows
\* with equal keys and each pair once, though it may miss some, and an outer side's
\* row is padded once if it is in no pair and never if it is.
MergeSound ==
  LET padded(row) == SubSeq(row, 1, 2) = NullRow \/ SubSeq(row, 3, 4) = NullRow
      pairs == SelectSeq(Answer, LAMBDA row : ~padded(row))
      lone(row) == Copies(Answer, row)
  IN  Done =>
        /\ PartOf(pairs, Pairs(Lefts, Rights))
        /\ \A row \in Range(pairs) : row[1] = row[3]
        /\ \A l \in Range(Lefts) : LeftOuter =>
             lone(l \o NullRow) = IF \E row \in Range(pairs) : SubSeq(row, 1, 2) = l THEN 0 ELSE 1
        /\ \A r \in Range(Rights) : RightOuter =>
             lone(NullRow \o r) = IF \E row \in Range(pairs) : SubSeq(row, 3, 4) = r THEN 0 ELSE 1

\* What the joins do with NULLs, exactly: a keyed join matches a NULL key with a
\* NULL key (JoinKeys compare as DataValues); a condition counts as true by its
\* raw datum, except that a nested-loop left join also pads a row whose every
\* match is NULL (filter.get(i) is None).
NullJoin ==
  Done /\ NullsMeet =>
    IF Is("nl_join")
    THEN SameRows(Answer,
           SelectSeq(Pairs(Lefts, Rights), LAMBDA row : CodeMatch(SubSeq(row, 1, 2), SubSeq(row, 3, 4)))
           \o SelectSeq(JoinOf(SqlMatch), LAMBDA row : SubSeq(row, 3, 4) = NullRow))
    ELSE SameRows(Answer, AnswerOf(CodeMatch))

\* The join executors compute the join of SQL, with NULLs what NullJoin says and out
\* of order what MergeSound says, in chunks as ChunksFull says.
JoinsRight ==
  /\ ChunksFull
  /\ Is("merge_join") => MergeSound
  /\ op.kind \in Joins \cup SemiJoins /\ ~op.bare /\ ~NotBool /\ Ordered => SqlJoin /\ NullJoin

\* The inputs on which the control of an executor panics, evaluation aside: a right or
\* full nested-loop join (todo!); a condition that is not a Bool array (filter, and
\* the joins with a condition once they evaluate it); children pruned to no column
\* under a nested-loop left, semi or anti join; a chunk without rows under a window
\* function (take().unwrap()); a top-n whose heap cannot be reserved.
Panicking ==
  \/ Is("nl_join") /\ op.type \in {"right", "full"}
  \/ Is("nl_join") /\ (NotBool \/ (op.bare /\ LeftOuter)) /\ Lefts # <<>> /\ Rights # <<>>
  \/ Is("nl_semi") /\ op.bare /\ Lefts # <<>> /\ Rights # <<>>
  \/ Is("nl_semi") /\ NotBool /\ Lefts # <<>> /\ op.right # <<>>
  \/ Is("hash_semi2") /\ NotBool /\ \E l \in Range(Lefts), r \in Range(Rights) : l[1] = r[1]
  \/ Is("filter") /\ NotBool /\ op.left # <<>>
  \/ Is("window") /\ \E i \in DOMAIN op.left : op.left[i] = <<>>
  \/ Is("top_n") /\ op.limit = NoLimit

\* A panic ends the stream as its end does, so what an executor yielded before passes
\* for its answer (Pipeline).  Whether one panics is decided by its rows and never by
\* how they are cut into chunks, but for empty chunks under a window function or a
\* literal NULL.  Rows have been yielded before the panic only by a window, and by a
\* keyed anti join whose first left rows have no partner.
PanicsExactly ==
  /\ Done => ~Panicking
  /\ pc = "panic" =>
       /\ Panicking
       /\ Answer # <<>> => Is("window") \/ (Is("hash_semi2") /\ op.anti)

\* Grouped aggregates, hashed or over sorted input: one row per key; without
\* NULL arguments every aggregate is SQL's, and with them COUNT, MIN and MAX
\* still are, while SUM restarts after each NULL, LAST may be NULL and COUNT
\* DISTINCT counts NULL (agg_append).
GroupsRight ==
  (Done /\ op.kind \in {"hash_agg", "sort_agg"}) =>
    /\ IsInjective(Keys(Answer))
    /\ Range(Keys(Answer)) = Range(Keys(Lefts))
    /\ \A i \in DOMAIN Answer : \A a \in DOMAIN AggNames :
         LET vs == Group(Answer[i][1])
         IN /\ Answer[i][a + 1] = AppendedAgg(AggNames[a], vs)
            /\ Null \notin Range(vs) \/ AggNames[a] \in NullSafe
                 => Answer[i][a + 1] = SqlAgg(AggNames[a], vs)

\* Ungrouped aggregates do not depend on how the input is cut into chunks when
\* no argument is NULL; with NULLs COUNT, MIN and MAX still are SQL's, SUM adds
\* whatever lies under the NULLs, FIRST and LAST see only the ends of the
\* chunks (eval_agg).  One row in any case.
SimpleAggRight ==
  (Done /\ Is("simple_agg")) =>
    /\ Len(Answer) = 1
    /\ \A a \in DOMAIN AggNames :
         LET vs == Values(Lefts)
         IN /\ Answer[1][a] = SimpleAggOf(AggNames[a])
            /\ (Null \notin Range(vs) /\ vs # <<>>) \/ AggNames[a] \in NullSafe
                 => Answer[1][a] = SqlAgg(AggNames[a], vs)

\* ORDER BY yields all rows in order, NULLs first unless descending; top-n yields
\* what a sort followed by OFFSET and LIMIT would, and never keeps more than
\* offset + limit rows.
OrderRight ==
  /\ (Done /\ op.kind \in {"order", "top_n"}) =>
        \A i \in 2 .. Len(Answer) :
          IF op.desc THEN Answer[i - 1][1] >= Answer[i][1] ELSE Answer[i - 1][1] <= Answer[i][1]
  /\ (Done /\ Is("order")) => SameRows(Answer, Lefts)
  /\ Is("top_n") => Len(st) <= op.offset + op.limit
  /\ (Done /\ Is("top_n")) =>
        /\ PartOf(Answer, Lefts)
        /\ \E rows \in SortsOf(Lefts) : Keys(Answer) = Keys(Slice(rows, op.offset, op.limit))

\* LIMIT passes exactly the rows from offset to offset + limit in their order,
\* and stops reading once it has them.
LimitRight ==
  (Done /\ Is("limit")) =>
    /\ Answer = Slice(Lefts, op.offset, op.limit)
    /\ op.limit > 0 /\ in.left # <<>> =>
         Len(Lefts) - Len(Rows(in.left)) \in op.offset + op.limit .. op.offset + op.limit + Window - 1

\* A window function is the running aggregate of its argument across chunks
\* when its argument is the column at its own place in the list and holds no
\* NULL; beyond the row's width it never leaves its initial value.
WindowRight ==
  (Done /\ Is("window")) =>
    /\ Len(Answer) = Len(Lefts)
    /\ \A i \in DOMAIN Answer : \A j \in DOMAIN op.fns :
         LET f == op.fns[j]
             vs == [n \in 1 .. i |-> Lefts[n][f.arg]]
         IN IF j > 2 THEN Answer[i][2 + j] = InitAgg(f.agg)
            ELSE (f.agg \in NullSafe \/ Null \notin Range(vs)) /\ (f.arg = j \/ f.agg = "rowcount")
                   => Answer[i][2 + j] = SqlAgg(f.agg, vs)

\* A filter passes the rows whose condition is true, in order, and with a cast
\* condition those where it is NULL over a nonzero raw datum as well.
FilterRight ==
  (Done /\ Is("filter")) =>
    Answer = SelectSeq(Lefts, LAMBDA row : (op.cond = "eq" /\ row[1] = 1) \/ op.cond = "cast")

\* Aggregates, grouped, ungrouped or over a window, are those of SQL wherever
\* NULLs and chunk boundaries lie, but for what the three definitions name.
AggregatesRight == ChunksFull /\ GroupsRight /\ SimpleAggRight /\ WindowRight

\* Sort, top-n, limit and filter pass the right rows in the right order, however
\* the input is cut into chunks.
SelectionsRight == ChunksFull /\ OrderRight /\ LimitRight /\ FilterRight

=============================================================================
