----------------------------- MODULE ForumThreads -----------------------------
(***************************************************************************)
(* One forum thread and its replies: forum_new_submit, forum_reply, the    *)
(* edits, the deletions and the moderation in app/routes/forum.py, the     *)
(* deletions in app/routes/admin.py, the notices they write, and           *)
(* me_delete_submit in app/routes/auth.py, which anonymises what an        *)
(* account wrote.                                                          *)
(*                                                                         *)
(* A handler reads rows, awaits, and writes in one transaction at its end. *)
(* Reads and write are steps of their own; the writes of one transaction,  *)
(* which hold the row lock of the thread or of the post until the commit,  *)
(* are one.  A deletion of an account has two steps, because between its   *)
(* UPDATEs and its DELETE other transactions commit.                       *)
(*                                                                         *)
(* A name is the account it names; an administrator's label, an invented   *)
(* name and "deleted user" are NoUser.  Texts are reduced to whether they  *)
(* were edited.  The spam and rate checks only refuse, as Abort does, and  *)
(* the time windows of authors may be open at any time.                    *)
(***************************************************************************)
EXTENDS Integers, FiniteSets

CONSTANTS
  Users,      \* accounts that exist at the start
  NoUser,     \* NULL, for author_user_id and for a name
  Requests,   \* invocations of the handlers, each of them used once
  Statuses,   \* THREAD_STATUSES
  MaxPosts,   \* bound on the ids of forum_posts
  MaxFanout   \* MAX_FANOUT_PER_POST

ASSUME UsersAssumption == NoUser \notin Users /\ IsFiniteSet(Users)
ASSUME StatusesAssumption == "open" \in Statuses
ASSUME BoundsAssumption == MaxPosts \in Nat /\ MaxFanout \in Nat

VARIABLES
  accounts,   \* rows of users
  thread,     \* the row of forum_threads, and whether it exists
  posts,      \* rows of forum_posts
  nextId,     \* next id of forum_posts
  notices,    \* rows of notifications about the thread
  purge,      \* purge[u]: the deletion of account u
  req,        \* req[r]: the handler invocation r and what it has read
  serial      \* history: no two requests that change reply_count overlapped

vars == <<accounts, thread, posts, nextId, notices, purge, req, serial>>

-----------------------------------------------------------------------------

Authors == Users \cup {NoUser}
PostIds == 1..MaxPosts
Opening == 0              \* the thread itself, where an id of a post is expected
Ids == PostIds \cup {Opening}

Kinds == {"thread_reply", "reply_to_reply", "mention", "thread_status", "thread_locked"}

Thread ==
  [state : {"unborn", "standing", "deleted"}, author : Authors, name : Authors,
   edited : BOOLEAN, locked : BOOLEAN, pinned : BOOLEAN, status : Statuses,
   count : Nat]

Post == [id : PostIds, author : Authors, name : Authors, edited : BOOLEAN]

\* actor is actor_name.
Notice == [user : Users, kind : Kinds, post : Ids, actor : Authors]

Purge ==
  [running : BOOLEAN,
   ids : SUBSET Ids,               \* rows its UPDATEs anonymised, and lock
   from : 0..(MaxPosts + 1)]       \* history: the first id given out later
NoPurge == [running |-> FALSE, ids |-> {}, from |-> 0]

Request ==
  [op : {"idle", "reply", "edit", "delete", "deleting", "done"},
   actor : Authors,                \* the account of the session, if any
   admin : BOOLEAN,
   target : Ids,                   \* the post it edits or deletes
   count : Nat,                    \* thread.reply_count as read
   author : Authors,               \* thread.author_user_id as read
   open : BOOLEAN]                 \* history: since it began the thread was
                                   \* at some moment not locked
Idle ==
  [op |-> "idle", actor |-> NoUser, admin |-> FALSE, target |-> Opening,
   count |-> 0, author |-> NoUser, open |-> FALSE]

\* A new row of forum_threads; one that is unborn or deleted has no content.
Row(state, author, name) ==
  [state |-> state, author |-> author, name |-> name, edited |-> FALSE,
   locked |-> FALSE, pinned |-> FALSE, status |-> "open", count |-> 0]

Init ==
  /\ accounts = Users
  /\ thread = Row("unborn", NoUser, NoUser)
  /\ posts = {}
  /\ nextId = 1
  /\ notices = {}
  /\ purge = [u \in Users |-> NoPurge]
  /\ req = [r \in Requests |-> Idle]
  /\ serial = TRUE

Standing == thread.state = "standing"

\* No deletion of an account holds the lock of the row.
Free(id) == \A u \in Users : ~(purge[u].running /\ id \in purge[u].ids)

\* The name shown: an administrator writes under a label.
Byline(u, admin) == IF admin THEN NoUser ELSE u

Notify(users, kind, post, actor) ==
  [user : users, kind : {kind}, post : {post}, actor : {actor}]

\* A request that will change reply_count begins.
StillSerial == serial /\ \A r \in Requests : req[r].op \notin {"reply", "delete", "deleting"}

Done(r) == req' = [req EXCEPT ![r] = [Idle EXCEPT !.op = "done"]]

-----------------------------------------------------------------------------
(* Threads and replies.                                                    *)

\* forum_new_submit, with the accounts that _notify_mentions finds.
NewThread(u, admin, mentioned) ==
  /\ thread.state = "unborn"
  /\ u \in accounts \cup {NoUser}
  /\ mentioned \subseteq accounts
  /\ thread' = Row("standing", u, Byline(u, admin))
  /\ notices' = Notify(mentioned \ {u}, "mention", Opening, Byline(u, admin))
  /\ UNCHANGED <<accounts, posts, nextId, purge, req, serial>>

\* Variant: the lock of the thread is not looked at.
OpenForRepliesWhenLocked == Standing

\* A locked thread takes no replies, from administrators neither.
OpenForReplies == Standing /\ ~thread.locked

\* forum_reply, its reads.
BeginReply(r, u, admin) ==
  /\ req[r].op = "idle"
  /\ OpenForReplies
  /\ u \in accounts \cup {NoUser}
  /\ req' = [req EXCEPT ![r] =
       [Idle EXCEPT !.op = "reply", !.actor = u, !.admin = admin, !.count = thread.count,
                    !.author = thread.author, !.open = ~thread.locked]]
  /\ serial' = StillSerial
  /\ UNCHANGED <<accounts, thread, posts, nextId, notices, purge>>

Repliers == {p.author : p \in posts} \ {NoUser}

\* Variant: the query has no LIMIT.
FanOutUnlimited(users) == users = Repliers

\* prev_repliers: authors of other replies, cut at MAX_FANOUT_PER_POST.
FanOut(users) ==
  /\ users \subseteq Repliers
  /\ Cardinality(users) <= MaxFanout
  /\ users # Repliers => Cardinality(users) = MaxFanout

\* Variants: the author of the thread, or of the reply, is not counted as
\* already notified; only the author of the thread is told.
ReplyNoticesAuthorTwice(r, repliers, mentioned) ==
  LET byline == Byline(req[r].actor, req[r].admin) IN
  UNION {Notify({req[r].author} \ {req[r].actor, NoUser}, "thread_reply", nextId, byline),
         Notify(repliers \ {req[r].actor}, "reply_to_reply", nextId, byline),
         Notify(mentioned \ {req[r].actor}, "mention", nextId, byline)}
ReplyNoticesToActor(r, repliers, mentioned) ==
  LET byline == Byline(req[r].actor, req[r].admin) IN
  UNION {Notify({req[r].author} \ {req[r].actor, NoUser}, "thread_reply", nextId, byline),
         Notify(repliers \ {req[r].author}, "reply_to_reply", nextId, byline),
         Notify(mentioned \ {req[r].actor}, "mention", nextId, byline)}
ReplyNoticesAuthorOnly(r, repliers, mentioned) ==
  LET byline == Byline(req[r].actor, req[r].admin) IN
  Notify({req[r].author} \ {req[r].actor, NoUser}, "thread_reply", nextId, byline)

\* The notices of a reply: the author of the thread, the repliers who are not
\* already notified, and whoever the text mentions.
ReplyNotices(r, repliers, mentioned) ==
  LET byline == Byline(req[r].actor, req[r].admin) IN
  UNION {Notify({req[r].author} \ {req[r].actor, NoUser}, "thread_reply", nextId, byline),
         Notify(repliers \ {req[r].author, req[r].actor}, "reply_to_reply", nextId, byline),
         Notify(mentioned \ {req[r].actor}, "mention", nextId, byline)}

\* The UPDATE finds its thread, and the foreign keys their accounts.
RowsRemain(r) == Standing /\ {req[r].actor, req[r].author} \ {NoUser} \subseteq accounts

\* forum_reply, its flush and commit: reply_count is what was read, plus one.
FinishReply(r, repliers, mentioned) ==
  /\ req[r].op = "reply"
  /\ nextId <= MaxPosts
  /\ RowsRemain(r) /\ Free(Opening)
  /\ FanOut(repliers)
  /\ mentioned \subseteq accounts
  /\ posts' = posts \cup
       {[id |-> nextId, author |-> req[r].actor,
         name |-> Byline(req[r].actor, req[r].admin), edited |-> FALSE]}
  /\ nextId' = nextId + 1
  /\ thread' = [thread EXCEPT !.count = req[r].count + 1]
  /\ notices' = notices \cup ReplyNotices(r, repliers, mentioned)
  /\ Done(r)
  /\ UNCHANGED <<accounts, purge, serial>>

\* _can_edit and the ownership test of forum_post_delete, within the window.
\* The cookie mb_token would be a third right, but get_or_create_token sets it
\* on a response that no handler sends, so no browser holds one.
MayTouch(author, u, admin) == admin \/ (u # NoUser /\ author = u)

\* Variant: the lock of the thread is not looked at.
EditAllowedWhenLocked(author, u, admin) == MayTouch(author, u, admin)

EditAllowed(author, u, admin) == MayTouch(author, u, admin) /\ (admin \/ ~thread.locked)

\* forum_post_edit_submit and forum_thread_edit_submit, their reads.
BeginEdit(r, u, admin, id) ==
  /\ req[r].op = "idle"
  /\ u \in accounts \cup {NoUser}
  /\ Standing
  /\ \/ id = Opening /\ EditAllowed(thread.author, u, admin)
     \/ \E p \in posts : p.id = id /\ EditAllowed(p.author, u, admin)
  /\ req' = [req EXCEPT ![r] =
       [Idle EXCEPT !.op = "edit", !.actor = u, !.admin = admin, !.target = id,
                    !.open = ~thread.locked]]
  /\ UNCHANGED <<accounts, thread, posts, nextId, notices, purge, serial>>

\* Their UPDATE and commit.
FinishEdit(r) ==
  LET id == req[r].target IN
  /\ req[r].op = "edit"
  /\ Free(id)
  /\ \/ /\ id = Opening /\ Standing
        /\ thread' = [thread EXCEPT !.edited = TRUE]
        /\ posts' = posts
     \/ /\ \E p \in posts : p.id = id
        /\ posts' = {IF p.id = id THEN [p EXCEPT !.edited = TRUE] ELSE p : p \in posts}
        /\ thread' = thread
  /\ Done(r)
  /\ UNCHANGED <<accounts, nextId, notices, purge, serial>>

\* forum_post_delete and admin_delete_post: the post is read first,
BeginDelete(r, u, admin, id) ==
  /\ req[r].op = "idle"
  /\ u \in accounts \cup {NoUser}
  /\ \E p \in posts : p.id = id /\ MayTouch(p.author, u, admin)
  /\ req' = [req EXCEPT ![r] =
       [Idle EXCEPT !.op = "delete", !.actor = u, !.admin = admin, !.target = id]]
  /\ serial' = StillSerial
  /\ UNCHANGED <<accounts, thread, posts, nextId, notices, purge>>

\* then the thread,
ReadCount(r) ==
  /\ req[r].op = "delete"
  /\ Standing
  /\ req' = [req EXCEPT ![r].op = "deleting", ![r].count = thread.count]
  /\ UNCHANGED <<accounts, thread, posts, nextId, notices, purge, serial>>

\* Variant: the deletion is counted twice.
LessTwo(n) == IF n > 1 THEN n - 2 ELSE 0

\* max(0, thread.reply_count - 1)
LessOne(n) == IF n > 0 THEN n - 1 ELSE 0

\* then the row goes, with its notices.  A row that is gone already is no
\* error, and an UPDATE that would change nothing is not sent.
FinishDelete(r) ==
  LET id == req[r].target
      n == req[r].count
  IN
  /\ req[r].op = "deleting"
  /\ Standing /\ Free(id)
  /\ LessOne(n) # n => Free(Opening)
  /\ posts' = {p \in posts : p.id # id}
  /\ notices' = {m \in notices : m.post # id}
  /\ thread' = IF LessOne(n) # n THEN [thread EXCEPT !.count = LessOne(n)] ELSE thread
  /\ Done(r)
  /\ UNCHANGED <<accounts, nextId, purge, serial>>

\* A request is refused or ends without a commit: a check fails, an UPDATE
\* finds no row, a foreign key finds no account, a connection is lost.  A
\* deletion that finds the thread gone finds the post gone too.
Abort(r) ==
  /\ req[r].op \notin {"idle", "done"}
  /\ Done(r)
  /\ UNCHANGED <<accounts, thread, posts, nextId, notices, purge, serial>>

-----------------------------------------------------------------------------
(* Moderation.                                                             *)

\* forum_thread_delete and admin_delete_thread, by an administrator: replies
\* and notices cascade.
DeleteThread ==
  /\ Standing
  /\ \A id \in Ids : Free(id)
  /\ thread' = Row("deleted", NoUser, NoUser)
  /\ posts' = {}
  /\ notices' = {}
  /\ UNCHANGED <<accounts, nextId, purge, req, serial>>

TellAuthor(kind) == notices' = notices \cup Notify({thread.author} \ {NoUser}, kind, Opening, NoUser)

\* The next three write what follows from the row as read a moment before,
\* which another administrator may have changed: what they write does not
\* depend on what the row holds at the commit.

\* forum_toggle_lock: the author is told of a lock, not of its end.
Lock ==
  /\ Standing /\ Free(Opening)
  /\ thread' = [thread EXCEPT !.locked = TRUE]
  /\ TellAuthor("thread_locked")
  /\ UNCHANGED <<accounts, posts, nextId, purge, req, serial>>

Unlock ==
  /\ Standing /\ Free(Opening)
  /\ thread' = [thread EXCEPT !.locked = FALSE]
  /\ req' = [r \in Requests |-> IF req[r].op \in {"reply", "edit"}
                                  THEN [req[r] EXCEPT !.open = TRUE] ELSE req[r]]
  /\ UNCHANGED <<accounts, posts, nextId, notices, purge, serial>>

\* forum_toggle_pin
TogglePin(pinned) ==
  /\ Standing /\ Free(Opening)
  /\ thread' = [thread EXCEPT !.pinned = pinned]
  /\ UNCHANGED <<accounts, posts, nextId, notices, purge, req, serial>>

\* forum_set_status: the author is told of a change.
SetStatus(s) ==
  /\ Standing /\ Free(Opening)
  /\ thread' = [thread EXCEPT !.status = s]
  /\ TellAuthor("thread_status")
  /\ UNCHANGED <<accounts, posts, nextId, purge, req, serial>>

-----------------------------------------------------------------------------
(* Deleting an account.                                                    *)

\* Variant: only threads are anonymised.
WrittenThreads(u) == IF Standing /\ thread.author = u THEN {Opening} ELSE {}

\* The rows that the two UPDATEs of me_delete_submit reach.
Written(u) ==
  {p.id : p \in {q \in posts : q.author = u}}
    \cup (IF Standing /\ thread.author = u THEN {Opening} ELSE {})

BeginPurge(u) ==
  /\ u \in accounts /\ ~purge[u].running
  /\ purge' = [purge EXCEPT ![u] =
       [running |-> TRUE, ids |-> Written(u),
        from |-> IF thread.state = "unborn" THEN 0 ELSE nextId]]
  /\ UNCHANGED <<accounts, thread, posts, nextId, notices, req, serial>>

\* Variant: the author stays on the rows the UPDATEs did not reach.
AnonymousOnlyReached(row, id, u) ==
  IF id \in purge[u].ids THEN [row EXCEPT !.author = NoUser, !.name = NoUser] ELSE row

\* What the UPDATEs reached lost its name and its author; ON DELETE SET NULL
\* takes the author off the rest.
Anonymous(row, id, u) ==
  IF row.author # u THEN row
  ELSE IF id \in purge[u].ids THEN [row EXCEPT !.author = NoUser, !.name = NoUser]
  ELSE [row EXCEPT !.author = NoUser]

\* The DELETE and the commit: the notices to u cascade.
FinishPurge(u) ==
  /\ purge[u].running
  /\ accounts' = accounts \ {u}
  /\ posts' = {Anonymous(p, p.id, u) : p \in posts}
  /\ thread' = Anonymous(thread, Opening, u)
  /\ notices' = {n \in notices : n.user # u}
  /\ purge' = [purge EXCEPT ![u].running = FALSE]
  /\ UNCHANGED <<nextId, req, serial>>

AbortPurge(u) ==
  /\ purge[u].running
  /\ purge' = [purge EXCEPT ![u] = NoPurge]
  /\ UNCHANGED <<accounts, thread, posts, nextId, notices, req, serial>>

Next ==
  \/ \E u \in Authors, admin \in BOOLEAN, mentioned \in SUBSET Users :
       NewThread(u, admin, mentioned)
  \/ \E r \in Requests, u \in Authors, admin \in BOOLEAN :
       \/ BeginReply(r, u, admin)
       \/ \E id \in Ids : BeginEdit(r, u, admin, id) \/ BeginDelete(r, u, admin, id)
  \/ \E r \in Requests :
       \/ \E repliers, mentioned \in SUBSET Users : FinishReply(r, repliers, mentioned)
       \/ FinishEdit(r) \/ ReadCount(r) \/ FinishDelete(r) \/ Abort(r)
  \/ DeleteThread \/ Lock \/ Unlock
  \/ \E pinned \in BOOLEAN : TogglePin(pinned)
  \/ \E s \in Statuses : SetStatus(s)
  \/ \E u \in Users : BeginPurge(u) \/ FinishPurge(u) \/ AbortPurge(u)

Spec == Init /\ [][Next]_vars

-----------------------------------------------------------------------------
(* Properties.                                                             *)

TypeOK ==
  /\ accounts \subseteq Users
  /\ thread \in Thread
  /\ posts \subseteq Post
  /\ nextId \in 1..(MaxPosts + 1)
  /\ notices \subseteq Notice
  /\ purge \in [Users -> Purge]
  /\ req \in [Requests -> Request]
  /\ serial \in BOOLEAN

PostedIds == {p.id : p \in posts}

\* Ids of replies are given out once; replies, notices and requests for them
\* need their thread.
PostsInOrder ==
  /\ \A p \in posts : p.id < nextId
  /\ \A p, q \in posts : p.id = q.id => p = q
  /\ ~Standing => posts = {} /\ notices = {} /\ thread.author = NoUser
  /\ thread.state = "unborn" => \A r \in Requests : req[r].op = "idle"

\* No row keeps an account that is gone, nor a notice a reply that is gone,
\* whatever was deleted between a handler's reads and its commit
\* (models/forum.py:39, 73 and models/notification.py:27, 36).
LinksHold ==
  /\ {thread.author} \cup {p.author : p \in posts} \subseteq accounts \cup {NoUser}
  /\ {n.user : n \in notices} \subseteq accounts
  /\ {n.post : n \in notices} \subseteq PostedIds \cup {Opening}
  /\ \A u \in Users : purge[u].running => u \in accounts

\* While no two requests that change it overlap, reply_count is the number of
\* replies: an aborted request, a deleted account or a deleted thread leaves
\* no trace in it (forum.py:487-488 and 815-818, admin.py:808-811).
SerialCountIsPosts == serial /\ Standing => thread.count = Cardinality(PostedIds)

\* What a request remembers of reply_count is still right when it is the only
\* one that may change it.
SerialReads ==
  serial =>
    \A r \in Requests :
      /\ req[r].op \in {"reply", "delete", "deleting"} =>
           \A s \in Requests \ {r} : req[s].op \in {"idle", "edit", "done"}
      /\ req[r].op \in {"reply", "deleting"} /\ Standing => req[r].count = thread.count
      /\ req[r].op \in {"delete", "deleting"} /\ Standing =>
           req[r].target \in PostedIds

\* A name is that of the author while the account exists, and what a running
\* deletion has not reached was committed after it began.
NamesFollow ==
  /\ \A row \in posts \cup {thread} : row.name \in accounts => row.author = row.name
  /\ \A u \in Users : purge[u].running =>
       /\ purge[u].from <= nextId
       /\ thread.state = "unborn" => purge[u].from = 0
       /\ thread.name = u /\ purge[u].from # 0 => Opening \in purge[u].ids
       /\ \A p \in posts : p.name = u /\ p.id < purge[u].from => p.id \in purge[u].ids

\* A name outlives its account only on what was committed while the deletion
\* ran: everything written before is anonymised (auth.py:478-489).
EarlierWritingsAnonymous ==
  \A u \in Users \ accounts :
    /\ thread.name = u => purge[u].from = 0
    /\ \A p \in posts : p.name = u => p.id >= purge[u].from

\* A reply begun, and an edit other than an administrator's, met the thread
\* unlocked; a reply knows the author of the thread, unless the account is gone.
MetThread ==
  \A r \in Requests :
    /\ req[r].op = "reply" => req[r].open
    /\ req[r].op = "edit" => req[r].open \/ req[r].admin
    /\ req[r].op = "reply" /\ Standing => thread.author \in {req[r].author, NoUser}

IInv ==
  /\ TypeOK /\ PostsInOrder /\ LinksHold
  /\ SerialCountIsPosts /\ SerialReads
  /\ NamesFollow /\ EarlierWritingsAnonymous
  /\ MetThread

\* "Dedupe so the same person doesn't get N copies": nobody is told of a reply
\* both as author of the thread and as an earlier replier; nobody is told of
\* their own; and at most MAX_FANOUT_PER_POST repliers are told of one reply
\* (forum.py:518-548).
NoticesAreFew ==
  /\ \A m, n \in notices :
       m.post = n.post /\ m.user = n.user /\ m.kind = "thread_reply" => n.kind # "reply_to_reply"
  /\ \A n \in notices, p \in posts : n.post = p.id => n.user # p.author
  /\ \A p \in posts :
       Cardinality({n \in notices : n.post = p.id /\ n.kind = "reply_to_reply"}) <= MaxFanout

\* "a conversation pings all participants": whoever opened the thread or
\* replied before, and still has an account, has a notice of a new reply at
\* the commit, unless it is their own or the repliers exceed the limit
\* (forum.py:502-548).
TellsParticipants ==
  [][\A p \in posts' :
       /\ p.id = nextId
       /\ Cardinality(Repliers) <= MaxFanout
       => (Repliers \cup {thread.author}) \ {p.author, NoUser}
            \subseteq {n.user : n \in {m \in notices' : m.post = p.id}}]_vars

\* A reply appears, or a text changes, on a locked thread only by the hand of
\* an administrator or of a request that met the thread unlocked: "otherwise a
\* user ... can defeat moderation by rewriting their post after an admin locks
\* the thread" (forum.py:451-452, 724-729, 774-775).
LockedIsFrozen ==
  [][thread.locked /\ Standing
       /\ \/ nextId' # nextId
          \/ thread'.edited /\ ~thread.edited
          \/ \E p \in posts : ~p.edited /\ [p EXCEPT !.edited = TRUE] \in posts'
     => \E r \in Requests :
          /\ req[r].op \in {"reply", "edit"} /\ req'[r].op = "done"
          /\ req[r].open \/ (req[r].op = "edit" /\ req[r].admin)]_vars
=============================================================================
