------------------------------ MODULE Roadmap ------------------------------
(***************************************************************************)
(* The roadmap of each mod: rows of mod_roadmap_items, shown in the order  *)
(* of position, then id (routes/admin.py, routes/admin_api.py).  Titles,   *)
(* texts and statuses are left out: editing them moves nothing.            *)
(***************************************************************************)
EXTENDS ModTable

CONSTANTS
  MaxItems,     \* bound on the ids of mod_roadmap_items
  MaxPosition,  \* bound on positions
  Chosen        \* positions callers of the API ask for

ASSUME ItemsAssumption ==
  MaxItems \in Nat /\ MaxPosition \in Nat /\ Chosen \subseteq 0..MaxPosition

VARIABLES
  items,   \* rows: the mod and the position of each item
  added,   \* ids given
  given    \* history: mods where a position was ever chosen by API

itemVars == <<items, added, given>>

ItemIds == 1..MaxItems
Item == [mod : ModIds, position : Nat]
NoItem == [mod |-> 0, position |-> 0]
Listed(i) == items[i] # NoItem
ItemsOf(m) == {i \in ItemIds : Listed(i) /\ items[i].mod = m}

\* What requests on roadmaps remember: the positions they read.
RoadmapRequest ==
  [op : {"append"}, mod : ModIds, position : Nat] \cup
  [op : {"move"}, mod : ModIds, stage : {"loaded"}, item : ItemIds, up : BOOLEAN, at : Nat] \cup
  [op : {"move"}, mod : ModIds, stage : {"found"}, item : ItemIds, up : BOOLEAN, at : Nat,
   neighbour : ItemIds, to : Nat]

\* A roadmap made from the form, one item after the other.
RoadmapInit ==
  /\ added \in 0..MaxItems /\ added <= MaxPosition
  /\ \E m \in ModIds :
       /\ added > 0 => Present(m)
       /\ items = [i \in ItemIds |-> IF i <= added THEN [mod |-> m, position |-> i] ELSE NoItem]
  /\ given = {}

Highest(m) ==
  LET positions == {items[i].position : i \in ItemsOf(m)}
  IN {p \in positions \cup {0} : \A q \in positions : q <= p}

InsertItem(m, p) ==
  /\ added < MaxItems
  /\ added' = added + 1
  /\ items' = [items EXCEPT ![added + 1] = [mod |-> m, position |-> p]]

-----------------------------------------------------------------------------

\* add_roadmap_item: the highest position, or 0, is read first.
AddItemBegin(r, m) ==
  /\ \E p \in Highest(m) : p < MaxPosition /\ Begin(r, [op |-> "append", mod |-> m, position |-> p])
  /\ UNCHANGED <<tableVars, itemVars>>

\* Variant: the new item takes the place of the last.
AddItemCommitAtLast(r) ==
  /\ req[r].op = "append"
  /\ InsertItem(req[r].mod, req[r].position)
  /\ End(r)
  /\ UNCHANGED <<given, tableVars>>

\* The foreign key refuses the item when the mod is gone.
AddItemCommit(r) ==
  /\ req[r].op = "append"
  /\ IF Present(req[r].mod) THEN InsertItem(req[r].mod, req[r].position + 1)
     ELSE UNCHANGED <<items, added>>
  /\ End(r)
  /\ UNCHANGED <<given, tableVars>>

\* create_roadmap: the caller chooses the position, 0 when it says nothing.
\* update_roadmap: any field, the position among them.
CreateItem(m) ==
  /\ Present(m)
  /\ \E p \in Chosen : InsertItem(m, p)
  /\ given' = given \cup {m}
  /\ AtOnce(m)
  /\ UNCHANGED tableVars

UpdateItem(i) ==
  /\ Listed(i)
  /\ \E p \in Chosen : items' = [items EXCEPT ![i].position = p]
  /\ given' = given \cup {items[i].mod}
  /\ AtOnce(items[i].mod)
  /\ UNCHANGED <<added, tableVars>>

\* delete_roadmap_item, delete_roadmap.
DeleteItem(i) ==
  /\ Listed(i)
  /\ items' = [items EXCEPT ![i] = NoItem]
  /\ AtOnce(items[i].mod)
  /\ UNCHANGED <<added, given, tableVars>>

DropItems(m) ==
  /\ items' = [i \in ItemIds |-> IF items[i].mod = m THEN NoItem ELSE items[i]]
  /\ UNCHANGED <<added, given>>

-----------------------------------------------------------------------------
(* move_roadmap_item: the item is loaded, then its neighbour is looked for *)
(* with the position the item had, then both are written.                  *)

MoveBegin(r, i, up) ==
  /\ Listed(i)
  /\ Begin(r, [op |-> "move", mod |-> items[i].mod, stage |-> "loaded", item |-> i, up |-> up,
               at |-> items[i].position])
  /\ UNCHANGED <<tableVars, itemVars>>

\* Strictly above, the lowest of them; strictly below, the highest.
Above(m, p) ==
  {i \in ItemsOf(m) : items[i].position < p /\
     \A j \in ItemsOf(m) : items[j].position < p => items[j].position <= items[i].position}
Below(m, p) ==
  {i \in ItemsOf(m) : items[i].position > p /\
     \A j \in ItemsOf(m) : items[j].position > p => items[j].position >= items[i].position}

\* Variant: any item above or below will do.
NeighboursAny(r) ==
  {i \in ItemsOf(req[r].mod) : IF req[r].up THEN items[i].position < req[r].at
                               ELSE items[i].position > req[r].at}

Neighbours(r) ==
  IF req[r].up THEN Above(req[r].mod, req[r].at) ELSE Below(req[r].mod, req[r].at)

MoveFind(r) ==
  /\ req[r].op = "move" /\ req[r].stage = "loaded"
  /\ \/ Neighbours(r) = {} /\ End(r)
     \/ \E n \in Neighbours(r) :
          Continue(r, [op |-> "move", mod |-> req[r].mod, stage |-> "found", item |-> req[r].item,
                       up |-> req[r].up, at |-> req[r].at, neighbour |-> n,
                       to |-> items[n].position])
  /\ UNCHANGED <<tableVars, itemVars>>

\* The item that another move shifted may be its own neighbour: loaded once,
\* nothing of it is written.  Rows that are gone are passed over.
MoveCommit(r) ==
  /\ req[r].op = "move" /\ req[r].stage = "found"
  /\ LET i == req[r].item
         n == req[r].neighbour
     IN items' = IF i = n THEN items
                 ELSE [j \in ItemIds |->
                        IF j = i /\ Listed(i) THEN [items[i] EXCEPT !.position = req[r].to]
                        ELSE IF j = n /\ Listed(n) THEN [items[n] EXCEPT !.position = req[r].at]
                        ELSE items[j]]
  /\ End(r)
  /\ UNCHANGED <<added, given, tableVars>>
=============================================================================
