------------------------------- MODULE Poller -------------------------------
(***************************************************************************)
(* The Steam poller: poll_once and _fanout_to_subscribers in               *)
(* app/services/poller.py, the callers that start a cycle (poller_task,    *)
(* "Poll now" in app/routes/admin.py, POST /poll in                        *)
(* app/routes/admin_api.py) with the locks they take, and the operations   *)
(* of users that meet a running cycle (follow, unfollow, account           *)
(* deletion).                                                              *)
(*                                                                         *)
(* A cycle is one database transaction over all feeds; a feed is one kind  *)
(* of item of one mod.  For each feed the cycle scrapes a page, reads      *)
(* which of its ids have a row, upserts the page and, when some were new,  *)
(* adds a notice for every follower.  Other transactions commit between    *)
(* any two of these steps.  Rows and notices become visible at the commit  *)
(* at the end; a cycle that fails leaves nothing.                          *)
(*                                                                         *)
(* Snapshots, labels, titles and app names are left out: no step of the    *)
(* cycle depends on them.  The mods are fixed.                             *)
(***************************************************************************)
EXTENDS Integers, FiniteSets

CONSTANTS
  Pollers,     \* the callers of poll_once
  lockOf,      \* lockOf[p]: the asyncio.Lock that p takes, in its replica
  NoLock,      \* poller_task takes none
  Users,       \* accounts that exist at the start
  Mods,
  NFeeds,      \* feeds are visited in the order 1, 2, ..., NFeeds
  modOf,       \* modOf[f]: the mod of feed f
  Items,
  feedOf,      \* feedOf[i]: the feed item i appears in
  MaxCrashes   \* bound on the cycles that die before their commit

Feeds == 1..NFeeds

ASSUME FeedsAssumption ==
  /\ NFeeds \in Nat
  /\ modOf \in [Feeds -> Mods]
  /\ feedOf \in [Items -> Feeds]
ASSUME CrashesAssumption == MaxCrashes \in Nat
ASSUME CallersAssumption == IsFiniteSet(Pollers)

VARIABLES
  accounts,    \* rows of users
  follows,     \* rows of mod_subscriptions, as <<user, mod>>
  listed,      \* items that the first page of their feed shows
  known,       \* items with a committed row
  told,        \* told[<<u, i>>]: committed notices of u that count item i
  cycle,       \* cycle[p]: where the cycle of p is and what it holds
  foundBy,     \* history: foundBy[i]: the slots that committed i as new
  crashes

vars == <<accounts, follows, listed, known, told, cycle, foundBy, crashes>>

-----------------------------------------------------------------------------

\* What can have one cycle running: a lock, or a caller that takes none.
Slot(p) == IF lockOf[p] = NoLock THEN <<"caller", p>> ELSE <<"lock", lockOf[p]>>
Slots == {Slot(p) : p \in Pollers}

Cycle ==
  [pc : {"idle", "fetching", "upserting", "telling"},
   feed : 1..(NFeeds + 1),            \* the feed it is at
   page : SUBSET Items,               \* the ids scraped from that feed
   fresh : SUBSET Items,              \* those without a row when it looked
   rows : SUBSET Items,               \* rows it has written, uncommitted
   new : SUBSET Items,                \* history: all it took for new
   flushed : SUBSET (Users \X Items), \* notices it has inserted, uncommitted
   added : SUBSET (Users \X Items),   \* notices the next query will flush
   steady : SUBSET (Users \X Mods)]   \* history: follows since it began

Idle ==
  [pc |-> "idle", feed |-> 1, page |-> {}, fresh |-> {}, rows |-> {},
   new |-> {}, flushed |-> {}, added |-> {}, steady |-> {}]

TypeOK ==
  /\ accounts \subseteq Users
  /\ follows \subseteq Users \X Mods
  /\ listed \subseteq Items
  /\ known \subseteq Items
  /\ told \in [Users \X Items -> Nat]
  /\ cycle \in [Pollers -> Cycle]
  /\ foundBy \in [Items -> SUBSET Slots]
  /\ crashes \in 0..MaxCrashes

Init ==
  /\ accounts = Users
  /\ follows \in SUBSET (Users \X Mods)
  /\ listed = {}
  /\ known = {}
  /\ told = [n \in Users \X Items |-> 0]
  /\ cycle = [p \in Pollers |-> Idle]
  /\ foundBy = [i \in Items |-> {}]
  /\ crashes = 0

Running(p) == cycle[p].pc # "idle"
OnPage(f) == {i \in listed : feedOf[i] = f}

-----------------------------------------------------------------------------
(* The cycle.                                                              *)

\* Variant: the lock is never looked at.
LockFreeUnchecked(p) == TRUE

\* _POLL_LOCK.locked() is false; a trigger that finds it taken does nothing.
LockFree(p) ==
  lockOf[p] # NoLock => \A q \in Pollers : lockOf[q] = lockOf[p] => ~Running(q)

Begin(p) ==
  /\ ~Running(p)
  /\ LockFree(p)
  /\ cycle' = [cycle EXCEPT ![p] = [Idle EXCEPT !.pc = "fetching", !.steady = follows]]
  /\ UNCHANGED <<accounts, follows, listed, known, told, foundBy, crashes>>

\* A notice waiting to be flushed is for an account that no longer exists.
BrokenRow(p) == \E n \in cycle[p].added : n[1] \notin accounts

\* The rollback of an exception that leaves poll_once, and of a crash.
Fail(p) ==
  /\ cycle' = [cycle EXCEPT ![p] = Idle]
  /\ UNCHANGED <<known, told, foundBy>>

\* Variant: the difference is swapped.
FreshSwapped(p, page) == (known \cup cycle[p].rows) \ page

\* Variant: only what this cycle has written itself is looked up.
FreshUnread(p, page) == page \ cycle[p].rows

\* incoming_ids - existing_ids
Fresh(p, page) == page \ (known \cup cycle[p].rows)

\* fetch_* and the SELECT of the ids that have a row.  A feed is asked for its
\* newest fifty comments, or for the first page of the discussions or of the
\* change notes.  What cannot be parsed is missing; a failed scrape returns an
\* empty page, and an empty page skips the feed.  The SELECT flushes the
\* notices added before; a broken one fails the whole cycle.
Scrape(p, page) ==
  LET c == cycle[p] IN
  /\ c.pc = "fetching"
  /\ c.feed <= NFeeds
  /\ page \subseteq OnPage(c.feed)
  /\ \/ /\ page = {}
        /\ cycle' = [cycle EXCEPT ![p].feed = c.feed + 1]
        /\ UNCHANGED <<known, told, foundBy>>
     \/ /\ page # {} /\ BrokenRow(p)
        /\ Fail(p)
     \/ /\ page # {} /\ ~BrokenRow(p)
        /\ cycle' = [cycle EXCEPT ![p] =
             [c EXCEPT !.pc = "upserting", !.page = page, !.fresh = Fresh(p, page),
                       !.new = c.new \cup Fresh(p, page),
                       !.flushed = c.flushed \cup c.added, !.added = {}]]
        /\ UNCHANGED <<known, told, foundBy>>
  /\ UNCHANGED <<accounts, follows, listed, crashes>>

\* INSERT ... ON CONFLICT DO UPDATE waits for every transaction that holds
\* one of the rows.
Upsert(p) ==
  LET c == cycle[p] IN
  /\ c.pc = "upserting"
  /\ \A q \in Pollers \ {p} : cycle[q].rows \cap c.page = {}
  /\ cycle' = [cycle EXCEPT ![p] =
       IF c.fresh = {} THEN [c EXCEPT !.pc = "fetching", !.feed = c.feed + 1,
                                      !.rows = c.rows \cup c.page]
                       ELSE [c EXCEPT !.pc = "telling", !.rows = c.rows \cup c.page]]
  /\ UNCHANGED <<accounts, follows, listed, known, told, foundBy, crashes>>

\* _fanout_to_subscribers: the followers at this moment are told.
FanOut(p) ==
  LET c == cycle[p]
      followers == {u \in Users : <<u, modOf[c.feed]>> \in follows}
  IN
  /\ c.pc = "telling"
  /\ cycle' = [cycle EXCEPT ![p] =
       [c EXCEPT !.pc = "fetching", !.feed = c.feed + 1,
                 !.added = c.added \cup (followers \X c.fresh)]]
  /\ UNCHANGED <<accounts, follows, listed, known, told, foundBy, crashes>>

\* Variant: the notices of the cycle are committed without its rows.
CommittedRowsLost(p) == {}

CommittedRows(p) == cycle[p].rows

\* Variant: notices not flushed by a later query are dropped.
CommittedNoticesFlushed(p) == cycle[p].flushed

CommittedNotices(p) == cycle[p].flushed \cup cycle[p].added

\* The one commit of the cycle, after the last feed of the last mod.
Commit(p) ==
  /\ cycle[p].pc = "fetching"
  /\ cycle[p].feed = NFeeds + 1
  /\ \/ /\ BrokenRow(p)
        /\ Fail(p)
     \/ /\ ~BrokenRow(p)
        /\ known' = known \cup CommittedRows(p)
        /\ told' = [n \in Users \X Items |->
             IF n \in CommittedNotices(p) THEN told[n] + 1 ELSE told[n]]
        /\ foundBy' = [i \in Items |->
             IF i \in cycle[p].new THEN foundBy[i] \cup {Slot(p)} ELSE foundBy[i]]
        /\ cycle' = [cycle EXCEPT ![p] = Idle]
  /\ UNCHANGED <<accounts, follows, listed, crashes>>

\* The replica stops, or the database drops the connection.
Crash(p) ==
  /\ Running(p)
  /\ crashes < MaxCrashes
  /\ crashes' = crashes + 1
  /\ Fail(p)
  /\ UNCHANGED <<accounts, follows, listed>>

-----------------------------------------------------------------------------
(* Steam and the users.                                                    *)

\* An item is new, or a discussion has a new reply, and is the first of its
\* feed.
Publish(i) ==
  /\ i \notin listed
  /\ listed' = listed \cup {i}
  /\ UNCHANGED <<accounts, follows, known, told, cycle, foundBy, crashes>>

\* Later items push i off the page, or Steam removes it.
Leave(i) ==
  /\ i \in listed
  /\ listed' = listed \ {i}
  /\ UNCHANGED <<accounts, follows, known, told, cycle, foundBy, crashes>>

StillSteady(now) == [p \in Pollers |-> [cycle[p] EXCEPT !.steady = @ \cap now]]

\* toggle_mod_subscription
ToggleFollow(u, m) ==
  /\ u \in accounts
  /\ follows' = IF <<u, m>> \in follows THEN follows \ {<<u, m>>}
                                        ELSE follows \cup {<<u, m>>}
  /\ cycle' = StillSteady(follows')
  /\ UNCHANGED <<accounts, listed, known, told, foundBy, crashes>>

\* me_delete_submit: follows and notices cascade.  The DELETE waits for a
\* transaction that has inserted a notice for the account.
DeleteAccount(u) ==
  /\ u \in accounts
  /\ \A p \in Pollers : \A n \in cycle[p].flushed : n[1] # u
  /\ accounts' = accounts \ {u}
  /\ follows' = {f \in follows : f[1] # u}
  /\ told' = [n \in Users \X Items |-> IF n[1] = u THEN 0 ELSE told[n]]
  /\ cycle' = StillSteady(follows')
  /\ UNCHANGED <<listed, known, foundBy, crashes>>

Next ==
  \/ \E p \in Pollers : \/ Begin(p) \/ Upsert(p) \/ FanOut(p) \/ Commit(p) \/ Crash(p)
                        \/ \E page \in SUBSET Items : Scrape(p, page)
  \/ \E i \in Items : Publish(i) \/ Leave(i)
  \/ \E u \in Users : DeleteAccount(u) \/ \E m \in Mods : ToggleFollow(u, m)

Spec == Init /\ [][Next]_vars

WholePage(p, f) == cycle[p].feed = f /\ Scrape(p, OnPage(f))

Advance(p) == FanOut(p) \/ Commit(p) \/ \E page \in SUBSET Items : Scrape(p, page)

\* Every cycle that is started runs on.  poller_task, which takes no lock,
\* starts one every interval, and the first page of a feed that it asks for
\* again and again is sometimes read whole.  Nobody has to click, and a click
\* may read as little as it will.
Fairness ==
  \A p \in Pollers :
    /\ WF_vars(Advance(p)) /\ SF_vars(Upsert(p))
    /\ lockOf[p] = NoLock =>
         WF_vars(Begin(p)) /\ \A f \in Feeds : SF_vars(WholePage(p, f))

FairSpec == Spec /\ Fairness

-----------------------------------------------------------------------------

\* A follower is told of an item at most once by every slot: cycles of one slot
\* follow each other, and a cycle counts as new only what no earlier one has
\* committed, whatever the cycles of other slots do meanwhile
\* (poller.py:89-93, 179-182, 229-232).
NoticesPerSlot == \A n \in Users \X Items : told[n] <= Cardinality(Slots)

\* No follower gets two notices for one item ("would ... fire duplicate
\* notifications", admin.py:161-163).
NoDuplicateNotice == \A n \in Users \X Items : told[n] <= 1

\* A notice is never about an item the board does not show: rows and
\* notices of a cycle appear together (poller.py:265).
ToldIsKnown == \A n \in Users \X Items : told[n] > 0 => n[2] \in known

\* The commit that first makes an item known tells everyone who followed its
\* mod since the cycle began: no overlap of cycles, crash or page loses a
\* notice (poller.py:93, 119-127, 265).
LearnedIsTold ==
  [][\A i \in known' \ known : \A p \in Pollers :
       Running(p) /\ ~Running(p)' =>
         \A u \in Users : <<u, modOf[feedOf[i]]>> \in cycle[p].steady =>
           told'[<<u, i>>] > 0]_vars

-----------------------------------------------------------------------------
(* Why they hold.                                                          *)

\* What a page holds: items of the feed it came from, new or with a row.
PageIsOfFeed ==
  \A p \in Pollers : cycle[p].pc \in {"upserting", "telling"} =>
    /\ cycle[p].feed <= NFeeds
    /\ \A i \in cycle[p].page : feedOf[i] = cycle[p].feed
    /\ cycle[p].fresh \subseteq cycle[p].page
    /\ cycle[p].page \ cycle[p].fresh \subseteq known \cup cycle[p].rows

\* A notice in the making is about an item whose row is in the making.
PendingHasRow ==
  \A p \in Pollers :
    /\ ~Running(p) => cycle[p] = Idle
    /\ \A n \in cycle[p].flushed \cup cycle[p].added : n[2] \in cycle[p].rows
    /\ cycle[p].pc = "telling" => cycle[p].fresh \subseteq cycle[p].rows

\* Whoever follows since the cycle began has, or is about to get, a notice of
\* every row of the cycle that nobody committed yet.
SteadyAreTold ==
  \A p \in Pollers :
    /\ cycle[p].steady \subseteq follows
    /\ \A i \in cycle[p].rows \ known : \A u \in Users :
         <<u, modOf[feedOf[i]]>> \in cycle[p].steady =>
           \/ <<u, i>> \in cycle[p].flushed \cup cycle[p].added
           \/ cycle[p].pc = "telling" /\ i \in cycle[p].fresh

\* What a cycle writes was known, or is new to it; its notices are about what
\* is new to it.
NewIsPending ==
  \A p \in Pollers :
    /\ cycle[p].rows \subseteq known \cup cycle[p].new
    /\ cycle[p].new \subseteq
         cycle[p].rows \cup (IF cycle[p].pc = "upserting" THEN cycle[p].fresh ELSE {})
    /\ cycle[p].pc \in {"upserting", "telling"} => cycle[p].fresh \subseteq cycle[p].new
    /\ \A n \in cycle[p].flushed \cup cycle[p].added : n[2] \in cycle[p].new

\* Running cycles have a slot each, and none takes for new what its slot has
\* committed before.
SlotsApart ==
  /\ \A p, q \in Pollers : Running(p) /\ Running(q) /\ p # q => Slot(p) # Slot(q)
  /\ \A p \in Pollers : \A i \in cycle[p].new : Slot(p) \notin foundBy[i]

\* Who found an item is why it is known, and why it was told.
FoundIsKnown ==
  /\ \A i \in Items : foundBy[i] # {} <=> i \in known
  /\ \A n \in Users \X Items : told[n] <= Cardinality(foundBy[n[2]])

\* The inductive invariant, whatever locks the callers take.
IInv ==
  /\ TypeOK /\ PageIsOfFeed /\ PendingHasRow /\ SteadyAreTold
  /\ NewIsPending /\ SlotsApart /\ FoundIsKnown

-----------------------------------------------------------------------------

\* An item that stays on the first page of its feed gets a row in the end,
\* whatever cycles failed (poller.py:78-80, 269-276).  One that leaves the page
\* before a cycle has read it is never learned.
EventuallyKnown == \A i \in Items : i \in listed ~> i \in known \/ i \notin listed

\* The cycle, with all its steps, only ever finds and tells at once.
Feed == INSTANCE ItemFeed WITH Finders <- Slots
ImplementsFeed == Feed!Spec
=============================================================================
