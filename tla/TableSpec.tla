----------------------------- MODULE TableSpec -----------------------------
(***************************************************************************)
(* What a storage engine of RisingLight promises (the traits Table and     *)
(* Transaction of src/storage/mod.rs): a transaction sees the database as  *)
(* it was when the transaction started, buffers its inserts and deletes,   *)
(* and a commit applies exactly the buffered writes, all at once.          *)
(*                                                                         *)
(* A row is identified by the pair <<table, row>>; rows that are equal as  *)
(* values are different rows here.                                         *)
(***************************************************************************)
CONSTANTS Client,  \* transactions
          Fact,    \* <<table, row>> pairs
          Scopes   \* the sets of facts that one snapshot may cover

VARIABLES facts,   \* the rows of the database, committed
          view,    \* client -> the rows its snapshot shows
          active,  \* transactions that have started and not ended
          buffer   \* client -> [ins, del], its uncommitted writes

tvars == <<facts, view, active, buffer>>

NoWrite == [ins |-> {}, del |-> {}]

TInit ==
    /\ facts \in SUBSET Fact
    /\ view = [c \in Client |-> {}]
    /\ active = {}
    /\ buffer = [c \in Client |-> NoWrite]

\* Table::read, write and update.
Begin(c) ==
    /\ c \notin active
    /\ active' = active \cup {c}
    /\ \E scope \in Scopes : view' = [view EXCEPT ![c] = facts \cap scope]
    /\ UNCHANGED <<facts, buffer>>

\* Transaction::append and delete.
Write(c) ==
    /\ c \in active
    /\ buffer'[c] \in [ins : SUBSET (Fact \ facts), del : SUBSET Fact]
    /\ buffer' = [buffer EXCEPT ![c] = buffer'[c]]
    /\ UNCHANGED <<facts, view, active>>

\* Transaction::commit.  The snapshot may outlive it.
Commit(c) ==
    /\ c \in active
    /\ facts' = (facts \cup buffer[c].ins) \ buffer[c].del
    /\ buffer' = [buffer EXCEPT ![c] = NoWrite]
    /\ \/ UNCHANGED <<view, active>>
       \/ active' = active \ {c} /\ view' = [view EXCEPT ![c] = {}]

\* A commit that returns an error and a transaction that is dropped.
Discard(c) ==
    /\ c \in active
    /\ buffer' = [buffer EXCEPT ![c] = NoWrite]
    /\ UNCHANGED <<facts, view, active>>

End(c) ==
    /\ c \in active
    /\ active' = active \ {c}
    /\ view' = [view EXCEPT ![c] = {}]
    /\ buffer' = [buffer EXCEPT ![c] = NoWrite]
    /\ UNCHANGED facts

TNext == \E c \in Client : Begin(c) \/ Write(c) \/ Commit(c) \/ Discard(c) \/ End(c)

TSpec == TInit /\ [][TNext]_tvars
=============================================================================
