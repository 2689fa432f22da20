------------------------------ MODULE MCSession ------------------------------
(***************************************************************************)
(* Workloads of two sessions for module Session.  A prelude a session      *)
(* runs alone is not needed: the statements of one run() go in order, and  *)
(* the other session starts at any time.                                   *)
(***************************************************************************)
EXTENDS Session

St(op, names) == [op |-> op, names |-> names]

CreateT == St("create", <<"t">>)
CreateU == St("create", <<"u">>)
ViewV == St("view", <<"v", "t">>)

\* What a session may be sent: every pair of these runs together.
Scripts ==
  { <<CreateT, CreateU>>,
    <<CreateT, St("insert", <<"t">>), St("drop", <<"t">>)>>,
    <<St("dropif", <<"t", "u">>), CreateU>>,
    <<CreateT, St("drop", <<"t", "t">>)>>,
    <<CreateT, ViewV, St("drop", <<"v">>), St("select", <<"t">>)>>,
    <<St("dropif", <<"v">>), CreateU, St("drop", <<"u">>)>>,
    <<CreateT, ViewV, St("drop", <<"t">>), St("drop", <<"v">>)>>,
    <<CreateT, ViewV, St("view", <<"w", "v">>), St("drop", <<"t">>)>>,
    <<St("select", <<"w">>), St("drop", <<"v">>)>>,
    <<St("create", <<"v">>), ViewV, St("insert", <<"v">>)>>,
    <<St("insert", <<"t">>), St("insert", <<"t">>)>>,
    <<St("pgstat", <<>>), St("select", <<"v">>)>>,
    <<CreateU, St("index", <<"i", "t">>), St("index", <<"i", "u">>), CreateT>>,
    <<St("disable", <<>>), St("mock", <<"t">>), St("enable", <<>>), St("pgstat", <<>>)>> }

Pairs == Scripts \X Scripts
=============================================================================
