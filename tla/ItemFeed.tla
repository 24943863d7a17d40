------------------------------ MODULE ItemFeed ------------------------------
(***************************************************************************)
(* What the Steam poller promises the followers of a mod.  Items           *)
(* (comments, discussions, release notes) are found by several finders who *)
(* do not know of each other; a finder finds an item once, and the notices *)
(* about it are written in the step that finds it, one per user.  With one *)
(* finder nobody is told twice.  Nothing is said about cycles, pages or    *)
(* transactions.                                                           *)
(***************************************************************************)
EXTENDS Integers

CONSTANTS Items, Users, Finders

VARIABLES
  known,    \* items with a row
  foundBy,  \* foundBy[i]: the finders of i
  told      \* told[<<u, i>>]: notices of u that count i

vars == <<known, foundBy, told>>

Init ==
  /\ known = {}
  /\ foundBy = [i \in Items |-> {}]
  /\ told = [n \in Users \X Items |-> 0]

\* Finder s finds the items in new; the pairs in notices are told of them.
Find(s, new, notices) ==
  /\ \A i \in new : s \notin foundBy[i]
  /\ known' = known \cup new
  /\ foundBy' = [i \in Items |-> IF i \in new THEN foundBy[i] \cup {s} ELSE foundBy[i]]
  /\ told' = [n \in Users \X Items |-> IF n \in notices THEN told[n] + 1 ELSE told[n]]

\* The account of u is deleted, and its notices with it.
Forget(u) ==
  /\ told' = [n \in Users \X Items |-> IF n[1] = u THEN 0 ELSE told[n]]
  /\ UNCHANGED <<known, foundBy>>

Next ==
  \/ \E s \in Finders : \E new \in SUBSET Items : \E notices \in SUBSET (Users \X new) :
       Find(s, new, notices)
  \/ \E u \in Users : Forget(u)

Spec == Init /\ [][Next]_vars
=============================================================================
