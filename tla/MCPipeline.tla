----------------------------- MODULE MCPipeline -----------------------------
(* Physical plans for Pipeline: chunks have one row, nodes are strings.    *)
EXTENDS Pipeline, TLC

Plan(root, kind, kids, script) ==
  [root |-> root, kind |-> kind, kids |-> kids, script |-> script, views |-> <<>>,
   fault |-> [n \in DOMAIN kind |-> <<0, "none">>],
   limit |-> 2, offset |-> 0, diskfails |-> FALSE]

\* A chain of one scan and up to two executors above it.
Chain(top, mid, chunks) ==
  Plan("t", "t" :> top @@ "m" :> mid @@ "s" :> "scan",
       "t" :> <<"m">> @@ "m" :> <<"s">> @@ "s" :> <<>>, "s" :> chunks)
Faulting(p, n, f) == [p EXCEPT !.fault[n] = f]

Limited == {[Chain("limit", "filter", <<<<1>>, <<2>>, <<3>>>>) EXCEPT !.limit = l, !.offset = o] :
              l \in 0 .. 2, o \in 0 .. 1}
           \cup {Chain("limit", "filter", <<<<1>>, Err>>), Chain("limit", "filter", <<<<1>>, <<2>>, Err>>)}
Inserted == {Chain("insert", "filter", <<<<1>>, <<2>>, <<3>>>>), Chain("insert", "order", <<<<1>>, Err>>),
             Faulting(Chain("insert", "filter", <<<<1>>, <<2>>>>), "m", <<2, "err">>),
             Faulting(Chain("insert", "filter", <<<<1>>, <<2>>, <<3>>>>), "m", <<2, "panic">>)}
Joined == {Plan("t", "t" :> "join" @@ "a" :> "scan" @@ "b" :> "scan",
                "t" :> <<"a", "b">> @@ "a" :> <<>> @@ "b" :> <<>>,
                "a" :> l @@ "b" :> <<<<4>>, <<5>>>>) : l \in {<<<<1>>, <<2>>, <<3>>>>, <<<<1>>, Err>>}}
Imported == {Plan("t", "t" :> "insert" @@ "s" :> "copyfrom", "t" :> <<"s">> @@ "s" :> <<>>,
                  "s" :> c) : c \in {<<<<1>>, <<2>>, <<3>>>>, <<<<1>>, <<2>>, Err>>}}
Exported == {[Plan("t", "t" :> "copyto" @@ "s" :> "scan", "t" :> <<"s">> @@ "s" :> <<>>,
                   "s" :> c) EXCEPT !.diskfails = d] :
              c \in {<<<<1>>, <<2>>, <<3>>>>, <<<<1>>, Err>>}, d \in BOOLEAN}
             \cup {Faulting(Chain("copyto", "filter", <<<<1>>, <<2>>>>), "m", <<2, "panic">>)}

\* A join of view v with itself, one scan of v, and DROP VIEW v, whose plan
\* mentions v without scanning it.
Viewing(chunks) ==
  [Plan("t", "t" :> "join" @@ "a" :> "view" @@ "b" :> "view" @@ "v" :> "scan",
        "t" :> <<"a", "b">> @@ "a" :> <<"v">> @@ "b" :> <<"v">> @@ "v" :> <<>>,
        "v" :> chunks) EXCEPT !.views = <<"v">>]
ViewOnce == [Plan("a", "a" :> "view" @@ "v" :> "scan", "a" :> <<"v">> @@ "v" :> <<>>,
                  "v" :> <<<<1>>, <<2>>, <<3>>>>) EXCEPT !.views = <<"v">>]
DropView == [Plan("d", "d" :> "scan" @@ "v" :> "scan", "d" :> <<>> @@ "v" :> <<>>,
                  "d" :> <<<<1>>>> @@ "v" :> <<<<1>>, <<2>>>>) EXCEPT !.views = <<"v">>]

AllPlans == Limited \cup Inserted \cup Joined \cup Imported \cup Exported
            \cup {Viewing(<<<<1>>, <<2>>, <<3>>>>), Viewing(<<<<1>>, <<2>>, <<3>>, <<4>>>>), ViewOnce, DropView}
=============================================================================
