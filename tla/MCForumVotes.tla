---------------------------- MODULE MCForumVotes ----------------------------
(***************************************************************************)
(* Instances of ForumVotes.  One request per user is a user who waits for  *)
(* each answer; two requests of one user are a double click or two tabs.   *)
(***************************************************************************)
EXTENDS ForumVotes, TLC

CONSTANTS u1, u2, r1, r2, r3

OneRequestEach == r1 :> u1 @@ r2 :> u2
DoubleClick == r1 :> u1 @@ r2 :> u1 @@ r3 :> u2
=============================================================================
