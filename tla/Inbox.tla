------------------------------- MODULE Inbox -------------------------------
(***************************************************************************)
(* The notices of an account, as its owner reads and clears them           *)
(* (routes/auth.py).  Who writes notices is in ForumThreads and Poller.    *)
(***************************************************************************)
EXTENDS Sessions

CONSTANTS
  MaxNotices,   \* bound on the ids of notifications
  PageSize      \* how many of them the inbox shows

ASSUME InboxAssumption == MaxNotices \in Nat /\ PageSize \in Nat \ {0}

VARIABLES
  notices,   \* rows of notifications; their ids follow created_at
  arrived,   \* ids given so far
  seen       \* history: what there was when an account last looked

inboxVars == <<notices, arrived, seen>>

NoticeIds == 1..MaxNotices
NoNotice == [user |-> 0, read |-> FALSE]
NoticesOf(id) == {n \in NoticeIds : id # 0 /\ notices[n].user = id}
Unread(ns) == {n \in ns : ~notices[n].read}
Removed(ns) == [n \in NoticeIds |-> IF n \in ns THEN NoNotice ELSE notices[n]]

InboxInit ==
  /\ notices = [n \in NoticeIds |-> NoNotice]
  /\ arrived = {}
  /\ seen = [s \in Subs |-> {}]

\* Dated before its commit, a notice may appear after a later one.
Arrive(s, n) ==
  /\ users[s] # NoUser /\ n \notin arrived
  /\ arrived' = arrived \cup {n}
  /\ notices' = [notices EXCEPT ![n] = [user |-> users[s].id, read |-> FALSE]]
  /\ UNCHANGED <<seen, sessionVars, requestVars>>

\* A notice goes with the thread, the reply or the mod that it is about.
Withdraw(n) ==
  /\ notices[n] # NoNotice
  /\ notices' = Removed({n})
  /\ UNCHANGED <<arrived, seen, sessionVars, requestVars>>

Newer(n) == {m \in NoticesOf(notices[n].user) : m > n}

\* Variant: the oldest come first.
PageOldest(id) ==
  {n \in NoticesOf(id) : Cardinality({m \in NoticesOf(id) : m < n}) < PageSize}

\* ORDER BY created_at DESC LIMIT 100.
Page(id) == {n \in NoticesOf(id) : Cardinality(Newer(n)) < PageSize}

\* my_notifications: the page is loaded, and what in it is unread.
LookBegin(r, b) ==
  /\ \E s \in CurrentUser(b) :
       Begin(r, [op |-> "look", sub |-> s, id |-> users[s].id, all |-> NoticesOf(users[s].id),
                 unread |-> Unread(Page(users[s].id))])
  /\ UNCHANGED <<sessionVars, inboxVars>>

\* They are marked.  One row that is gone is an error, some of several are not.
LookCommit(r) ==
  /\ req[r].op = "look"
  /\ LET there == {n \in req[r].unread : notices[n].user = req[r].id} IN
     IF there = {} /\ Cardinality(req[r].unread) = 1
     THEN UNCHANGED <<notices, seen>>
     ELSE /\ notices' = [n \in NoticeIds |->
               IF n \in there THEN [notices[n] EXCEPT !.read = TRUE] ELSE notices[n]]
          /\ seen' = [seen EXCEPT ![req[r].sub] = req[r].all]
  /\ End(r)
  /\ UNCHANGED <<arrived, sessionVars>>

\* clear_notifications: whatever is there when the DELETE runs.
ClearBegin(r, b) ==
  /\ \E s \in CurrentUser(b) : Begin(r, [op |-> "clear", id |-> users[s].id])
  /\ UNCHANGED <<sessionVars, inboxVars>>

ClearCommit(r) ==
  /\ req[r].op = "clear"
  /\ notices' = Removed(NoticesOf(req[r].id))
  /\ End(r)
  /\ UNCHANGED <<arrived, seen, sessionVars>>

\* The notices of a deleted account go with it.
DropNotices(s) ==
  /\ notices' = Removed(NoticesOf(users[s].id))
  /\ seen' = [seen EXCEPT ![s] = {}]
  /\ UNCHANGED arrived
=============================================================================
