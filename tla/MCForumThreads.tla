---------------------------- MODULE MCForumThreads ----------------------------
(***************************************************************************)
(* Instances of ForumThreads.  Accounts and requests are interchangeable.  *)
(***************************************************************************)
EXTENDS ForumThreads, TLC

Symmetry == Permutations(Users) \cup Permutations(Requests)

\* Bounds of the runs: what replies do not touch is tried before the first
\* request; at most one account is mentioned, and at most one deleted; at most
\* two requests are in flight at once; texts are edited before the second
\* reply; an administrator has no account besides.
Modest ==
  /\ thread.pinned \/ (\E n \in notices : n.post = Opening /\ n.kind # "thread_locked")
       => \A r \in Requests : req[r].op = "idle"
  /\ Cardinality({n \in notices : n.kind = "mention"}) <= 1
  /\ Cardinality({u \in Users : purge[u].running \/ u \notin accounts}) <= 1
  /\ Cardinality({r \in Requests : req[r].op \notin {"idle", "done"}}) <= 2
  /\ \A r \in Requests : req[r].op = "edit" => nextId <= 2
  /\ \A r \in Requests : req[r].admin => req[r].actor = NoUser
=============================================================================
