---------------------------- MODULE MCNewsPages ----------------------------
(***************************************************************************)
(* An instance of NewsPages.  Locks and entries are per key and no step    *)
(* reads those of another, so behaviours that ask for one key each are     *)
(* searched.                                                               *)
(***************************************************************************)
EXTENDS NewsPages

MCKeys == {"site:banner", "rss:news"}
MCValues == {S : S \in SUBSET (1..MaxPosts)}
MCTtl == [k \in MCKeys |-> IF k = "site:banner" THEN 1 ELSE 2]

OneKey == \E k \in Keys : \A c \in Callers : caller[c].key = k
=============================================================================
