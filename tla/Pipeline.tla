------------------------------ MODULE Pipeline ------------------------------
(***************************************************************************)
(* How a physical plan runs: src/src/executor/mod.rs turns every plan node *)
(* into a tokio task that pushes its chunks into a bounded broadcast       *)
(* channel, and every parent pulls its children's chunks from theirs.      *)
(*                                                                         *)
(* A plan is a record: the node's `kind', its `kids' in the order the      *)
(* executor polls them, the `views' prebuilt for the plan, the `script' of *)
(* a leaf (the chunks of one row it yields, Err where the storage or the   *)
(* CSV reader fails), the `fault' of a node (<<k, "err">> or               *)
(* <<k, "panic">>: its k-th input makes the evaluator fail or panic, k = 0 *)
(* for none), the `limit' and `offset' of a Limit, and whether the disk    *)
(* may fail under COPY TO.                                                 *)
(*                                                                         *)
(* A channel keeps the sequence of everything broadcast; each subscription *)
(* (an edge <<producer, consumer>>) keeps its position in it.  The queue   *)
(* is what some live subscription has still to read, and its capacity      *)
(* bounds it.                                                              *)
(***************************************************************************)
EXTENDS Integers, FiniteSets, SequencesExt

CONSTANTS Plans,      \* the physical plans the client may submit
          Capacity,   \* async_broadcast::broadcast(16)
          Cancels     \* may the client drop the query (Ctrl-C)?

ASSUME CapacityAssumption == Capacity \in Nat \ {0}

VARIABLES plan,    \* the submitted plan
          build,   \* what the Builder has still to do
          held,    \* nodes whose StreamSubscriber the Builder still holds
          task,    \* the state of every node's task
          sent,    \* what every task has broadcast
          live,    \* the subscriptions whose stream has not been dropped
          pos,     \* how much each subscription has read
          client,  \* what run() has collected, and how the stream ended
          table,   \* the rows an INSERT has committed, <<>> before that
          csv,     \* the blocking reader of COPY FROM
          file     \* the blocking writer of COPY TO

vars == <<plan, build, held, task, sent, live, pos, client, table, csv, file>>

Err == <<>>   \* a chunk is the sequence of its rows' values, never empty
Client == "client"

Nodes == DOMAIN plan.kind
EdgesOf(p) == {<<c, n>> : c \in DOMAIN p.kind, n \in DOMAIN p.kind \cup {Client}}

\* build_id: every child is built and subscribed to, then the node is spawned;
\* a scan of a view subscribes to the executor Builder::new has prebuilt.
RECURSIVE NodeSteps(_, _)
NodeSteps(p, n) ==
  LET Kid(c) == (IF c \in Range(p.views) THEN <<>> ELSE NodeSteps(p, c))
                \o <<[op |-> "subscribe", of |-> c, by |-> n]>>
      kids == p.kids[n]
  IN (IF kids = <<>> THEN <<>>
      ELSE IF Len(kids) = 1 THEN Kid(kids[1]) ELSE Kid(kids[1]) \o Kid(kids[2]))
     \o <<[op |-> "spawn", of |-> n, by |-> n]>>

\* Builder::new (views first), build (the root, subscribed to by run), and the
\* Builder going out of scope.
BuildSteps(p) ==
  (IF p.views = <<>> THEN <<>>
   ELSE IF Len(p.views) = 1 THEN NodeSteps(p, p.views[1])
   ELSE NodeSteps(p, p.views[1]) \o NodeSteps(p, p.views[2]))
  \o NodeSteps(p, p.root)
  \o <<[op |-> "subscribe", of |-> p.root, by |-> Client],
       [op |-> "drop", of |-> p.root, by |-> Client]>>

Init ==
  /\ plan \in Plans
  /\ build = BuildSteps(plan)
  /\ held = {}
  /\ task = [n \in Nodes |-> [st |-> "unborn", cur |-> 1, seen |-> 0,
                              acc |-> <<>>, pend |-> <<>>, fin |-> FALSE]]
  /\ sent = [n \in Nodes |-> <<>>]
  /\ live = {}
  /\ pos = [e \in EdgesOf(plan) |-> 0]
  /\ client = [got |-> <<>>, end |-> "no"]
  /\ table = <<>>
  /\ csv = [st |-> "idle", q |-> <<>>, next |-> 1]
  /\ file = [st |-> "idle", q |-> <<>>, rows |-> 0]

-----------------------------------------------------------------------------
(* Channels. *)

Running(n) == task[n].st = "running"
\* The sender is dropped with the task, however the task ends.
Closed(n) == task[n].st \in {"done", "aborted", "panicked"}
Subscribers(n) == {e \in live : e[1] = n}
Backlog(n) == {Len(sent[n]) - pos[e] : e \in Subscribers(n)}
Full(n) == \E b \in Backlog(n) : b >= Capacity
\* A handle is shared by the StreamSubscriber and every stream made from it.
UnusedButLeaked(n) == n \notin held \cup Range(plan.views) /\ Subscribers(n) = {}
Unused(n) == n \notin held /\ Subscribers(n) = {}

-----------------------------------------------------------------------------
(* The Builder runs on the caller's thread while spawned tasks run. *)

Spawn ==
  /\ build # <<>> /\ Head(build).op = "spawn"
  /\ LET n == Head(build).of
     IN /\ task' = [task EXCEPT ![n].st = "running"]
        /\ held' = held \cup {n}
  /\ build' = Tail(build)
  /\ UNCHANGED <<plan, sent, live, pos, client, table, csv, file>>

\* activate_cloned: the new receiver starts at the head of the channel, so it
\* reads only what is broadcast from now on.  build_id drops the subscriber it
\* subscribed from; a view's stays in `views' with the Builder.
Subscribe ==
  /\ build # <<>> /\ Head(build).op = "subscribe"
  /\ LET c == Head(build).of
         e == <<c, Head(build).by>>
     IN /\ live' = live \cup {e}
        /\ pos' = [pos EXCEPT ![e] = Len(sent[c])]
        /\ held' = IF c \in Range(plan.views) THEN held ELSE held \ {c}
  /\ build' = Tail(build)
  /\ UNCHANGED <<plan, task, sent, client, table, csv, file>>

DropBuilder ==
  /\ build # <<>> /\ Head(build).op = "drop"
  /\ held' = {}
  /\ build' = Tail(build)
  /\ UNCHANGED <<plan, task, sent, live, pos, client, table, csv, file>>

-----------------------------------------------------------------------------
(* What the executors do with one input chunk, and at the end of an input. *)
(* `t' is the task's record; a finished stream has fin = TRUE.             *)

Fails(n, t) == [t EXCEPT !.pend = <<Err>>, !.fin = TRUE]
Faulty(n, t) == plan.fault[n] # <<0, "none">> /\ plan.fault[n][1] = t.seen + 1

OnChunkForward(n, t, m) == [t EXCEPT !.pend = <<m>>]

\* Chunks have one row, so `processed' is the number of chunks seen.
OnChunkLimitStrict(n, t, m) ==
  IF plan.limit = 0 THEN [t EXCEPT !.fin = TRUE]
  ELSE IF t.seen < plan.offset THEN t
       ELSE [t EXCEPT !.pend = <<m>>, !.fin = t.seen + 1 > plan.offset + plan.limit]
OnChunkLimit(n, t, m) ==
  IF plan.limit = 0 THEN [t EXCEPT !.fin = TRUE]
  ELSE IF t.seen < plan.offset THEN t
       ELSE [t EXCEPT !.pend = <<m>>, !.fin = t.seen + 1 >= plan.offset + plan.limit]

OnChunkCollect(n, t, m) == [t EXCEPT !.acc = Append(@, m)]

\* The build side is collected, then every probe chunk yields its matches.
OnChunkJoin(n, t, m) ==
  IF t.cur = 1 THEN [t EXCEPT !.acc = Append(@, m)]
  ELSE [t EXCEPT !.pend = <<FlattenSeq(t.acc) \o m>>]

OnChunk(n, t, m) ==
  CASE plan.kind[n] = "limit" -> OnChunkLimit(n, t, m)
    [] plan.kind[n] = "join" -> OnChunkJoin(n, t, m)
    [] plan.kind[n] \in {"order", "insert", "copyto"} -> OnChunkCollect(n, t, m)
    [] OTHER -> OnChunkForward(n, t, m)

OnEndOrder(n, t) == [t EXCEPT !.pend = t.acc, !.fin = TRUE]
OnEndJoin(n, t) == IF t.cur = 1 THEN [t EXCEPT !.cur = 2] ELSE [t EXCEPT !.fin = TRUE]
OnEndInsert(n, t) == [t EXCEPT !.pend = <<<<Len(t.acc)>>>>, !.fin = TRUE]

OnEnd(n, t) ==
  CASE plan.kind[n] = "order" -> OnEndOrder(n, t)
    [] plan.kind[n] = "join" -> OnEndJoin(n, t)
    [] plan.kind[n] = "insert" -> OnEndInsert(n, t)
    [] plan.kind[n] = "copyto" -> [t EXCEPT !.cur = 2]
    [] OTHER -> [t EXCEPT !.fin = TRUE]

\* The batch an executor fails on: `?' yields the error and ends the stream.
\* Limit looks at its limit before it looks at the batch.
OnErrorAsEnd(n, t) == OnEnd(n, t)
OnError(n, t) ==
  IF plan.kind[n] = "limit" /\ plan.limit = 0 THEN [t EXCEPT !.fin = TRUE]
  ELSE Fails(n, t)

-----------------------------------------------------------------------------
(* Tasks.  A task that ends drops its stream, and with it the streams of   *)
(* its children; one whose loop over a child is over has dropped that one. *)

Inputs(n) == {e \in live : e[2] = n}

\* The task's new record, and the subscriptions it gives up.
Become(n, t) ==
  /\ task' = [task EXCEPT ![n] = t]
  /\ live' = IF t.st # "running" \/ t.fin THEN live \ Inputs(n) ELSE live

\* A leaf reads the next batch from the storage.
Produce(n) ==
  /\ Running(n) /\ plan.kind[n] = "scan"
  /\ task[n].pend = <<>> /\ ~task[n].fin
  /\ LET t == task[n]
     IN IF t.seen = Len(plan.script[n]) THEN Become(n, [t EXCEPT !.fin = TRUE])
        ELSE LET m == plan.script[n][t.seen + 1]
             IN Become(n, [t EXCEPT !.pend = <<m>>, !.fin = (m = Err), !.seen = @ + 1])
  /\ UNCHANGED <<plan, build, held, sent, pos, client, table, csv, file>>

Edge(n) == <<plan.kids[n][task[n].cur], n>>
Reads(n) == /\ Running(n) /\ plan.kids[n] # <<>>
            /\ task[n].pend = <<>> /\ ~task[n].fin
            /\ task[n].cur <= Len(plan.kids[n])
            /\ (plan.kind[n] = "copyto" => file.st # "idle" /\ task[n].acc = <<>>)

Receive(n) ==
  /\ Reads(n)
  /\ LET e == Edge(n)
         t == task[n]
         seen == [t EXCEPT !.seen = @ + 1]
     IN /\ pos[e] < Len(sent[e[1]])
        /\ pos' = [pos EXCEPT ![e] = @ + 1]
        /\ LET m == sent[e[1]][pos[e] + 1]
           IN IF m = Err THEN Become(n, OnError(n, t))
              ELSE IF ~Faulty(n, t) THEN Become(n, [OnChunk(n, t, m) EXCEPT !.seen = seen.seen])
              ELSE IF plan.fault[n][2] = "err" THEN Become(n, Fails(n, seen))
              ELSE Become(n, [seen EXCEPT !.st = "panicked"])
  /\ UNCHANGED <<plan, build, held, sent, client, table, csv, file>>

\* The child's stream is over; INSERT commits its transaction here.
ReceiveEnd(n) ==
  /\ Reads(n)
  /\ LET e == Edge(n)
         t == OnEnd(n, task[n])
     IN /\ Closed(e[1]) /\ pos[e] = Len(sent[e[1]])
        /\ task' = [task EXCEPT ![n] = t]
        /\ live' = live \ {e}
        /\ table' = IF plan.kind[n] = "insert" THEN t.acc ELSE table
  /\ UNCHANGED <<plan, build, held, sent, pos, client, csv, file>>

\* tx.broadcast(item).await: waits while the queue is full, and while every
\* receiver is inactive.
Broadcast(n) ==
  /\ Running(n) /\ task[n].pend # <<>>
  /\ Subscribers(n) # {} /\ ~Full(n)
  /\ sent' = [sent EXCEPT ![n] = Append(@, Head(task[n].pend))]
  /\ task' = [task EXCEPT ![n].pend = Tail(@)]
  /\ UNCHANGED <<plan, build, held, live, pos, client, table, csv, file>>

\* all receivers are dropped, stop the task.
StopTask(n) ==
  /\ Running(n) /\ task[n].pend # <<>> /\ Unused(n)
  /\ Become(n, [task[n] EXCEPT !.st = "done", !.pend = <<>>])
  /\ UNCHANGED <<plan, build, held, sent, pos, client, table, csv, file>>

Finish(n) ==
  /\ Running(n) /\ task[n].pend = <<>> /\ task[n].fin
  /\ Become(n, [task[n] EXCEPT !.st = "done"])
  /\ UNCHANGED <<plan, build, held, sent, pos, client, table, csv, file>>

\* AbortOnDropHandle: the last handle is gone.
Abort(n) ==
  /\ Running(n) /\ Unused(n)
  /\ Become(n, [task[n] EXCEPT !.st = "aborted", !.pend = <<>>])
  /\ UNCHANGED <<plan, build, held, sent, pos, client, table, csv, file>>

-----------------------------------------------------------------------------
(* COPY FROM: a blocking thread parses the file and sends chunks through an *)
(* mpsc channel of one slot; its own result is read when the channel ends.  *)

CopyFrom(n) == Running(n) /\ plan.kind[n] = "copyfrom" /\ task[n].pend = <<>> /\ ~task[n].fin

StartReader(n) ==
  /\ CopyFrom(n) /\ csv.st = "idle"
  /\ csv' = [csv EXCEPT !.st = "running"]
  /\ UNCHANGED <<plan, build, held, task, sent, live, pos, client, table, file>>

ReaderSend(n) ==
  /\ plan.kind[n] = "copyfrom" /\ csv.st = "running"
  /\ csv.next <= Len(plan.script[n]) /\ plan.script[n][csv.next] # Err
  /\ IF Closed(n) THEN csv' = [csv EXCEPT !.st = "err"]   \* the receiver is gone
     ELSE /\ csv.q = <<>>
          /\ csv' = [csv EXCEPT !.q = <<plan.script[n][csv.next]>>, !.next = @ + 1]
  /\ UNCHANGED <<plan, build, held, task, sent, live, pos, client, table, file>>

ReaderReturn(n) ==
  /\ plan.kind[n] = "copyfrom" /\ csv.st = "running"
  /\ csv.next <= Len(plan.script[n]) => plan.script[n][csv.next] = Err
  /\ csv' = [csv EXCEPT !.st = IF csv.next > Len(plan.script[n]) THEN "ok" ELSE "err"]
  /\ UNCHANGED <<plan, build, held, task, sent, live, pos, client, table, file>>

CopyFromRecv(n) ==
  /\ CopyFrom(n) /\ csv.q # <<>>
  /\ task' = [task EXCEPT ![n].pend = csv.q]
  /\ csv' = [csv EXCEPT !.q = <<>>]
  /\ UNCHANGED <<plan, build, held, sent, live, pos, client, table, file>>

\* handle.await.unwrap()?
CopyFromEnd(n) ==
  /\ CopyFrom(n) /\ csv.q = <<>> /\ csv.st \in {"ok", "err"}
  /\ task' = [task EXCEPT ![n].pend = IF csv.st = "ok" THEN <<>> ELSE <<Err>>, ![n].fin = TRUE]
  /\ UNCHANGED <<plan, build, held, sent, live, pos, client, table, csv, file>>

-----------------------------------------------------------------------------
(* COPY TO: the task forwards its batches to a blocking writer.             *)

CopyTo(n) == Running(n) /\ plan.kind[n] = "copyto" /\ task[n].pend = <<>> /\ ~task[n].fin

StartWriter(n) ==
  /\ CopyTo(n) /\ file.st = "idle"
  /\ file' = [file EXCEPT !.st = "running"]
  /\ UNCHANGED <<plan, build, held, task, sent, live, pos, client, table, csv>>

\* sender.send(batch?).await: a send error means the writer has returned one.
CopyToSend(n) ==
  /\ CopyTo(n) /\ task[n].acc # <<>>
  /\ IF file.st = "running"
     THEN /\ file.q = <<>>
          /\ file' = [file EXCEPT !.q = task[n].acc]
          /\ task' = [task EXCEPT ![n].acc = <<>>]
          /\ live' = live
     ELSE /\ file' = file
          /\ task' = [task EXCEPT ![n].acc = <<>>, ![n].cur = 2]
          /\ live' = live \ Inputs(n)
  /\ UNCHANGED <<plan, build, held, sent, pos, client, table, csv>>

WriterWrite(n) ==
  /\ plan.kind[n] = "copyto" /\ file.st = "running" /\ file.q # <<>>
  /\ file' = [file EXCEPT !.q = <<>>, !.rows = @ + 1]
  /\ UNCHANGED <<plan, build, held, task, sent, live, pos, client, table, csv>>

WriterFail(n) ==
  /\ plan.kind[n] = "copyto" /\ file.st = "running" /\ plan.diskfails
  /\ file' = [file EXCEPT !.st = "err", !.q = <<>>]
  /\ UNCHANGED <<plan, build, held, task, sent, live, pos, client, table, csv>>

WriterEnd(n) ==
  /\ plan.kind[n] = "copyto" /\ file.st = "running" /\ file.q = <<>>
  /\ task[n].cur = 2 \/ task[n].fin \/ Closed(n)   \* the sender is dropped
  /\ file' = [file EXCEPT !.st = "ok"]
  /\ UNCHANGED <<plan, build, held, task, sent, live, pos, client, table, csv>>

\* writer.await.unwrap()?
CopyToEnd(n) ==
  /\ CopyTo(n) /\ task[n].cur = 2 /\ file.st \in {"ok", "err"}
  /\ task' = [task EXCEPT ![n].pend = IF file.st = "ok" THEN <<<<file.rows>>>> ELSE <<Err>>,
                          ![n].fin = TRUE]
  /\ UNCHANGED <<plan, build, held, sent, live, pos, client, table, csv, file>>

-----------------------------------------------------------------------------
(* Database::run collects the root's stream; Ctrl-C drops its future.       *)

RootEdge == <<plan.root, Client>>

ClientReceive ==
  /\ build = <<>> /\ client.end = "no" /\ pos[RootEdge] < Len(sent[plan.root])
  /\ LET m == sent[plan.root][pos[RootEdge] + 1]
     IN IF m = Err THEN client' = [client EXCEPT !.end = "err"] /\ live' = live \ {RootEdge}
        ELSE client' = [client EXCEPT !.got = Append(@, m)] /\ live' = live
  /\ pos' = [pos EXCEPT ![RootEdge] = @ + 1]
  /\ UNCHANGED <<plan, build, held, task, sent, table, csv, file>>

ClientEnd ==
  /\ build = <<>> /\ client.end = "no"
  /\ Closed(plan.root) /\ pos[RootEdge] = Len(sent[plan.root])
  /\ client' = [client EXCEPT !.end = "ok"]
  /\ live' = live \ {RootEdge}
  /\ UNCHANGED <<plan, build, held, task, sent, pos, table, csv, file>>

Cancel ==
  /\ Cancels /\ build = <<>> /\ client.end = "no"
  /\ client' = [client EXCEPT !.end = "cancelled"]
  /\ live' = live \ {RootEdge}
  /\ UNCHANGED <<plan, build, held, task, sent, pos, table, csv, file>>

BuildStep == Spawn \/ Subscribe \/ DropBuilder
TaskStep(n) ==
  \/ Produce(n) \/ Receive(n) \/ ReceiveEnd(n)
  \/ Broadcast(n) \/ StopTask(n) \/ Finish(n)
  \/ StartReader(n) \/ CopyFromRecv(n) \/ CopyFromEnd(n)
  \/ StartWriter(n) \/ CopyToSend(n) \/ CopyToEnd(n)
ThreadStep(n) == ReaderSend(n) \/ ReaderReturn(n) \/ WriterWrite(n) \/ WriterEnd(n)
ClientStep == ClientReceive \/ ClientEnd

Next ==
  \/ BuildStep \/ ClientStep \/ Cancel
  \/ \E n \in Nodes : TaskStep(n) \/ ThreadStep(n) \/ WriterFail(n) \/ Abort(n)

\* The runtime polls every task that can make progress, the operating system
\* runs the blocking threads, an abort takes effect at the task's next await
\* and the caller keeps collecting; nobody has to press Ctrl-C, and a disk
\* need not fail.
AllNodes == UNION {DOMAIN p.kind : p \in Plans}
Fairness ==
  /\ WF_vars(BuildStep) /\ WF_vars(ClientStep)
  /\ \A n \in AllNodes : /\ WF_vars(n \in Nodes /\ TaskStep(n))
                         /\ WF_vars(n \in Nodes /\ ThreadStep(n))
                         /\ WF_vars(n \in Nodes /\ Abort(n))

Spec == Init /\ [][Next]_vars /\ Fairness

-----------------------------------------------------------------------------
(* What a plan should return: the reference the pipeline is compared with. *)

HasErr(s) == \E i \in 1 .. Len(s) : s[i] = Err
FirstErr(s) == CHOOSE i \in 1 .. Len(s) : s[i] = Err /\ \A j \in 1 .. i - 1 : s[j] # Err
\* A stream ends with its first error.
UpToErr(s) == IF HasErr(s) THEN SubSeq(s, 1, FirstErr(s)) ELSE s
AllOrErr(s, out) == IF HasErr(s) THEN <<Err>> ELSE out

RECURSIVE Expected(_)
Expected(n) ==
  LET kid == Expected(plan.kids[n][1])
      hits == plan.fault[n][2] = "err" /\ plan.fault[n][1] <= Len(kid)
      in == IF hits THEN UpToErr([kid EXCEPT ![plan.fault[n][1]] = Err]) ELSE kid
      last == plan.offset + plan.limit
  IN CASE plan.kind[n] \in {"scan", "copyfrom"} -> UpToErr(plan.script[n])
       [] plan.kind[n] = "limit" ->
            IF plan.limit = 0 THEN <<>>
            ELSE LET kept == SubSeq(in, 1, IF last < Len(in) THEN last ELSE Len(in))
                 IN IF HasErr(kept) /\ FirstErr(kept) <= plan.offset THEN <<Err>>
                    ELSE SubSeq(kept, plan.offset + 1, Len(kept))
       [] plan.kind[n] = "order" -> AllOrErr(in, in)
       [] plan.kind[n] = "insert" -> AllOrErr(in, <<<<Len(in)>>>>)
       [] plan.kind[n] = "copyto" -> AllOrErr(in, <<<<Len(in)>>>>)
       [] plan.kind[n] = "join" ->
            LET right == Expected(plan.kids[n][2])
            IN AllOrErr(in, [i \in 1 .. Len(right) |->
                              IF right[i] = Err THEN Err ELSE FlattenSeq(in) \o right[i]])
       [] OTHER -> in

Panicked == \E n \in Nodes : task[n].st = "panicked"
Scans(v) == {n \in Nodes : v \in Range(plan.kids[n])}
Shared == \E v \in Range(plan.views) : Cardinality(Scans(v)) > 1

\* Every task has ended and every blocking thread has returned.
Quiet == /\ build = <<>>
         /\ \A n \in Nodes : Closed(n)
         /\ csv.st # "running" /\ file.st # "running"

-----------------------------------------------------------------------------
(* Properties. *)

\* Types; no channel holds more than its capacity (broadcast(16), channel(1)), and
\* only subscribed streams of the plan are read.
TypeOK ==
  /\ plan \in Plans /\ held \subseteq Nodes /\ live \subseteq EdgesOf(plan)
  /\ \A n \in Nodes : /\ task[n].st \in {"unborn", "running", "done", "aborted", "panicked"}
                       /\ \A b \in Backlog(n) : b \in 0 .. Capacity
  /\ client.end \in {"no", "ok", "err", "cancelled"}
  /\ csv.st \in {"idle", "running", "ok", "err"} /\ Len(csv.q) <= 1
  /\ file.st \in {"idle", "running", "ok", "err"} /\ Len(file.q) <= 1

\* The caller of run() sees the plan's whole answer or its first error,
\* whatever the interleaving of the tasks, the builder and the threads: unless
\* a task panicked (spawn drops the panicking task's sender, which a parent
\* cannot tell from the end of the stream) or a view is scanned twice.  In any
\* case COPY TO reports the rows that are in the file, and a failed write is
\* an error to the client, though the writer is only asked once its channel
\* has ended.
Delivered ==
  /\ TypeOK
  /\ ~Panicked /\ ~Shared =>
       /\ client.end = "ok" => client.got = Expected(plan.root)
       /\ client.end = "err" => HasErr(Expected(plan.root)) \/ file.st = "err"
  /\ plan.kind[plan.root] = "copyto" /\ client.end = "ok" =>
       client.got = <<<<file.rows>>>> /\ file.st = "ok"

\* INSERT is all or nothing with respect to its source: what it commits is the
\* source's every chunk, nothing if the source fails, also when the query is
\* cancelled; after a panic it is still a prefix, never rows out of order.
CommitsWhole ==
  \A n \in Nodes : plan.kind[n] = "insert" /\ table # <<>> =>
    LET source == Expected(plan.kids[n][1])
    IN IF Panicked THEN table = SubSeq(source, 1, Len(table)) ELSE table = source

\* A view feeds both inputs of a join and has more chunks than its own channel,
\* the second scan's channel and the chunk in that scan's hands can hold.
OverflowsSharedView ==
  \E v \in Range(plan.views) :
    Cardinality(Scans(v)) > 1 /\ Len(plan.script[v]) > 2 * Capacity + 1

\* Every query ends, and leaves no task or blocking thread behind: finished,
\* failed, cut short by a Limit or cancelled.  Tasks wait for each other for ever
\* only when the two inputs of a join share a view with too many chunks.
EveryTaskStops == ~OverflowsSharedView => <>(client.end # "no" /\ Quiet)

=============================================================================
