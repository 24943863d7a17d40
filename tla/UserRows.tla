------------------------------ MODULE UserRows ------------------------------
(***************************************************************************)
(* The table users, to which votes and memberships refer.                  *)
(***************************************************************************)

CONSTANT Users      \* accounts that exist at the start
VARIABLE accounts   \* rows of users

\* me_delete_submit, its DELETE: what becomes of the rows that refer to u is
\* up to their foreign keys.
DeleteUser(u) ==
  /\ u \in accounts
  /\ accounts' = accounts \ {u}
=============================================================================
