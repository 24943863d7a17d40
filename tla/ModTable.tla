------------------------------ MODULE ModTable ------------------------------
(***************************************************************************)
(* The table mods and the requests that work on the catalogue              *)
(* (routes/admin.py, routes/admin_api.py).                                 *)
(*                                                                         *)
(* A request has one transaction.  What it inserted and has not committed  *)
(* is invisible to others, but another INSERT of the same id waits for it. *)
(* A request that fails, by an error, a lost connection or the end of its  *)
(* process, leaves nothing in the database.                                *)
(***************************************************************************)
EXTENDS Integers, Sequences, FiniteSets

CONSTANTS
  Requests,   \* requests in progress at one time
  SteamIds,   \* workshop ids the team adds
  MaxManual,  \* bound on manual_mod_id_seq
  MaxBatch,   \* bound on the items of one bulk call (MAX_BULK_MODS)
  MaxWork     \* bound on the requests of a behaviour

ManualIds == 1..MaxManual
ModIds == ManualIds \cup SteamIds

ASSUME BoundsAssumption == MaxManual \in Nat /\ MaxBatch \in Nat /\ MaxWork \in Nat
ASSUME RequestsAssumption == IsFiniteSet(Requests)
ASSUME SteamIdsAssumption == SteamIds \subseteq Nat \ {0} /\ SteamIds \cap ManualIds = {}

VARIABLES
  mods,       \* rows of mods: absent, hidden or public
  sequence,   \* the last value of manual_mod_id_seq
  req,        \* what each request has read and is about to do
  work,       \* requests begun
  crossed     \* history: mods on which two requests were in progress at once

tableVars == <<mods, sequence>>
requestVars == <<req, work, crossed>>

\* The requests of one mod are told apart from those that add mods.
Table == 0
Idle == [op |-> "idle", mod |-> -1]
Busy(r) == req[r] # Idle
Present(m) == mods[m] # "absent"

Cross(m) == crossed' = IF \E s \in Requests : req[s].mod = m THEN crossed \cup {m} ELSE crossed

Begin(r, record) ==
  /\ ~Busy(r) /\ work < MaxWork
  /\ req' = [req EXCEPT ![r] = record]
  /\ work' = work + 1
  /\ Cross(record.mod)

\* A request of one step, which may fall between the steps of another.
AtOnce(m) == Cross(m) /\ UNCHANGED <<req, work>>

Continue(r, record) == req' = [req EXCEPT ![r] = record] /\ UNCHANGED <<work, crossed>>

End(r) == Continue(r, Idle)

TableInit ==
  /\ mods \in [ModIds -> {"absent", "public"}]
  /\ sequence \in 0..MaxManual
  /\ \A m \in ManualIds : Present(m) => m <= sequence
  /\ req = [r \in Requests |-> Idle]
  /\ work = 0
  /\ crossed = {}

-----------------------------------------------------------------------------
(* Additions.  todo: the ids not looked at yet; adding: the id whose row   *)
(* was given to the session; made: inserted, not committed; looks: whether *)
(* the handler asks for a row before it adds one.                          *)

AddRequest ==
  [op : {"add"}, mod : {Table}, looks : BOOLEAN,
   todo : Seq(SteamIds), adding : SUBSET ModIds, made : SUBSET ModIds]

Adding(todo, ids) == [op |-> "add", mod |-> Table, looks |-> todo # <<>>,
                      todo |-> todo, adding |-> ids, made |-> {}]

\* add_mod inserts what the form says.
AddMod(r) ==
  /\ \E m \in SteamIds : Begin(r, Adding(<<>>, {m}))
  /\ UNCHANGED tableVars

\* create_mod looks first: bulk_create_mods of one item.  Duplicates in a
\* batch are legal; items without an id or a name are skipped.
BulkCreate(r) ==
  /\ \E n \in 1..MaxBatch : \E ids \in [1..n -> SteamIds] : Begin(r, Adding(ids, {}))
  /\ UNCHANGED tableVars

\* The two manual creations: nextval is not undone by a rollback.
AddManual(r) ==
  /\ sequence < MaxManual
  /\ sequence' = sequence + 1
  /\ Begin(r, Adding(<<>>, {sequence + 1}))
  /\ UNCHANGED mods

\* Variant: nothing is skipped.
LookInsertsAgain(r) ==
  /\ req[r].op = "add" /\ req[r].adding = {} /\ req[r].todo # <<>>
  /\ Continue(r, [req[r] EXCEPT !.todo = Tail(@), !.adding = {Head(req[r].todo)}])
  /\ UNCHANGED tableVars

\* session.get of the next item: rows committed and rows of its own count.
Look(r) ==
  /\ req[r].op = "add" /\ req[r].adding = {} /\ req[r].todo # <<>>
  /\ LET m == Head(req[r].todo) IN
     Continue(r, [req[r] EXCEPT !.todo = Tail(@),
                                !.adding = IF Present(m) \/ m \in req[r].made THEN {} ELSE {m}])
  /\ UNCHANGED tableVars

\* s holds a row that r wants to insert.
WaitsFor(r, s) ==
  /\ r # s
  /\ req[r].op = "add" /\ req[s].op = "add"
  /\ req[r].adding \cap req[s].made # {}

\* Variant: a duplicate is tried again.
InsertRetries(r) ==
  /\ req[r].op = "add" /\ req[r].adding # {}
  /\ \A s \in Requests : ~WaitsFor(r, s)
  /\ \A m \in req[r].adding : ~Present(m) /\ m \notin req[r].made
  /\ Continue(r, [req[r] EXCEPT !.adding = {}, !.made = @ \cup req[r].adding])
  /\ UNCHANGED tableVars

\* The flush before the next get, or at the commit.  A duplicate raises.
Insert(r) ==
  /\ req[r].op = "add" /\ req[r].adding # {}
  /\ \A s \in Requests : ~WaitsFor(r, s)
  /\ IF \E m \in req[r].adding : Present(m) \/ m \in req[r].made
     THEN End(r)
     ELSE Continue(r, [req[r] EXCEPT !.adding = {}, !.made = @ \cup req[r].adding])
  /\ UNCHANGED tableVars

CommitAdditions(r) ==
  /\ req[r].op = "add" /\ req[r].adding = {} /\ req[r].todo = <<>>
  /\ \E as \in {"hidden", "public"} :
       mods' = [m \in ModIds |-> IF m \in req[r].made THEN as ELSE mods[m]]
  /\ End(r)
  /\ UNCHANGED sequence

\* PostgreSQL ends one of two transactions that wait for each other.
Deadlocked(r) ==
  /\ \E s \in Requests : WaitsFor(r, s) /\ WaitsFor(s, r)
  /\ End(r)
  /\ UNCHANGED tableVars

\* update_mod: of the allowed fields only public is told apart here.
UpdateMod(m) ==
  /\ Present(m)
  /\ mods' = [mods EXCEPT ![m] = IF @ = "public" THEN "hidden" ELSE "public"]
  /\ UNCHANGED <<sequence, requestVars>>

\* The row goes; what hangs on it goes by the cascades of the other modules.
DropMod(m) ==
  /\ Present(m)
  /\ mods' = [mods EXCEPT ![m] = "absent"]
  /\ AtOnce(m)
  /\ UNCHANGED sequence
=============================================================================
