---------------------------- MODULE MCCatalogue ----------------------------
(***************************************************************************)
(* An instance of Catalogue.  The additions, the versions, the counters    *)
(* and the roadmap meet only in the deletion of a mod, so behaviours are   *)
(* searched that work on one of them; several versions without marks of    *)
(* views and without restarts, and restarts where something was counted.   *)
(***************************************************************************)
EXTENDS Catalogue

Inserting == \E r \in Requests : req[r].op = "add"
Marks == \E p \in Replicas : marks[p] # {}
Versions == uploads > 0 \/ Marks
Planning == added > 0 \/ \E r \in Requests : req[r].op = "append"

\* The roadmap does not ask whether a mod is public; positions chosen by API
\* callers are combined with one request, overlaps with none.
PlanningCases ==
  Planning =>
    /\ \A m \in ModIds : mods[m] # "hidden"
    /\ given # {} => crossed = {} /\ \A r, s \in Requests : Busy(r) /\ Busy(s) => r = s

\* Whether a mod is public plays no role for additions, nor do other mods.
InsertingCases ==
  Inserting =>
    /\ \A m \in ModIds : mods[m] # "hidden"
    /\ \A m \in ManualIds : ~Present(m)

\* A view or a download before a restart, and one after it.
CountingCases ==
  /\ Marks => work <= 3
  /\ restarts > 0 => Versions \/ \E m \in ModIds : views[m] > 0

\* With a second version neither views nor visibility play a role; a third
\* upload has two other requests beside it.
VersionCases ==
  /\ uploads > 1 =>
       /\ restarts = 0
       /\ \A m \in ModIds : views[m] = 0 /\ mods[m] # "hidden"
  /\ uploads > 2 => work <= 3

OnePart ==
  /\ InsertingCases /\ PlanningCases /\ CountingCases /\ VersionCases
  /\ Inserting \/ Planning => work <= 2
  /\ ~(Versions /\ Planning)
  /\ Versions \/ Planning => ~Inserting /\ \A m \in SteamIds : ~Present(m)
=============================================================================
