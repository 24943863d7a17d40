------------------------------ MODULE MCDeploy ------------------------------
(* Three further builds: one that fails, one that meets what it has left,  *)
(* and one after that.                                                     *)
EXTENDS Deploy
=============================================================================
