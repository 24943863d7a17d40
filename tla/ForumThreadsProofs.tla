-------------------------- MODULE ForumThreadsProofs --------------------------
(***************************************************************************)
(* Proofs about ForumThreads: counts, links, names, locks and notices, for *)
(* any number of accounts, requests and replies.                           *)
(***************************************************************************)
EXTENDS ForumThreads, TLAPS, FiniteSetTheorems

\* The ids given out are finitely many.
LEMMA IdsFinite ==
  ASSUME TypeOK
  PROVE  IsFiniteSet(PostedIds) /\ PostedIds \subseteq PostIds
<1>1. PostedIds \subseteq PostIds
  BY DEF TypeOK, PostedIds, Post
<1>2. IsFiniteSet(PostIds)
  BY BoundsAssumption, FS_Interval DEF PostIds
<1> QED
  BY <1>1, <1>2, FS_Subset

\* Before the thread there is nothing.
LEMMA InitIInv == Init => IInv
  BY UsersAssumption, StatusesAssumption, BoundsAssumption
  DEF Init, Row, Idle, NoPurge, IInv, TypeOK, Thread, Post, Notice, Purge, Request, Ids,
      Authors, PostsInOrder, LinksHold, SerialCountIsPosts, SerialReads, NamesFollow,
      EarlierWritingsAnonymous, MetThread, Standing, Opening

\* The new thread has no replies, and no request knows of it.
LEMMA NewThreadIInv ==
  ASSUME IInv, NEW u \in Authors, NEW admin \in BOOLEAN, NEW mentioned \in SUBSET Users,
         NewThread(u, admin, mentioned)
  PROVE  IInv'
<1>1. /\ posts = {} /\ thread' = Row("standing", u, Byline(u, admin))
      /\ UNCHANGED <<accounts, posts, nextId, purge, req, serial>>
      /\ u \in accounts \cup {NoUser} /\ Byline(u, admin) \in {u, NoUser}
      /\ accounts \subseteq Users
  BY DEF NewThread, IInv, TypeOK, PostsInOrder, Standing, Byline
<1>2. thread' \in Thread
  BY <1>1, StatusesAssumption DEF Row, Thread, Authors
<1>3. /\ notices' \subseteq Notice /\ {n.user : n \in notices'} \subseteq accounts
      /\ {n.post : n \in notices'} \subseteq {Opening}
  BY <1>1 DEF NewThread, Notify, Notice, Kinds, Ids, Authors
<1>4. TypeOK'
  BY <1>1, <1>2, <1>3 DEF IInv, TypeOK
<1>5. PostsInOrder'
  BY <1>1 DEF PostsInOrder, Standing, Row
<1>6. LinksHold'
  BY <1>1, <1>3 DEF IInv, LinksHold, Row, PostedIds
<1>7. SerialCountIsPosts'
  BY <1>1, FS_EmptySet DEF SerialCountIsPosts, Row, PostedIds
<1>8. SerialReads' /\ MetThread'
  BY <1>1 DEF NewThread, IInv, PostsInOrder, SerialReads, MetThread
<1>9. NamesFollow' /\ EarlierWritingsAnonymous'
  BY <1>1, UsersAssumption
  DEF NewThread, IInv, NamesFollow, EarlierWritingsAnonymous, Row
<1> QED
  BY <1>4, <1>5, <1>6, <1>7, <1>8, <1>9 DEF IInv

\* A request that only begins, reads or ends changes no row.
LEMMA RequestIInv ==
  ASSUME IInv, NEW r \in Requests, NEW q \in Request,
         req' = [req EXCEPT ![r] = q],
         UNCHANGED <<accounts, thread, posts, nextId, notices, purge>>,
         thread.state # "unborn",
         serial' \in BOOLEAN, SerialReads', MetThread', serial' => serial
  PROVE  IInv'
<1>1. TypeOK'
  BY DEF IInv, TypeOK
<1>2. PostsInOrder' /\ LinksHold' /\ SerialCountIsPosts'
  BY DEF IInv, PostsInOrder, LinksHold, SerialCountIsPosts, Standing, PostedIds
<1>3. NamesFollow' /\ EarlierWritingsAnonymous'
  BY DEF IInv, NamesFollow, EarlierWritingsAnonymous
<1> QED
  BY <1>1, <1>2, <1>3 DEF IInv

LEMMA BeginReplyIInv ==
  ASSUME IInv, NEW r \in Requests, NEW u \in Authors, NEW admin \in BOOLEAN,
         BeginReply(r, u, admin)
  PROVE  IInv'
<1> DEFINE q == [Idle EXCEPT !.op = "reply", !.actor = u, !.admin = admin,
                             !.count = thread.count, !.author = thread.author,
                             !.open = ~thread.locked]
<1>1. /\ req' = [req EXCEPT ![r] = q] /\ req \in [Requests -> Request]
      /\ UNCHANGED <<accounts, thread, posts, nextId, notices, purge>>
      /\ thread.state = "standing" /\ ~thread.locked /\ thread \in Thread
      /\ serial' = StillSerial /\ serial \in BOOLEAN
  BY DEF BeginReply, OpenForReplies, Standing, IInv, TypeOK
<1>2. q \in Request
  BY <1>1 DEF Idle, Request, Thread, Ids, Authors
<1>3. q.op = "reply" /\ q.open = TRUE /\ q.count = thread.count /\ q.author = thread.author
  BY <1>1 DEF Idle
<1> HIDE DEF q
<1>4. req'[r] = q /\ \A s \in Requests \ {r} : req'[s] = req[s]
  BY <1>1
<1>5. serial' => serial /\ \A s \in Requests : req[s].op \in {"idle", "edit", "done"}
  BY <1>1 DEF StillSerial, Request
<1>6. SerialReads'
  BY <1>1, <1>3, <1>4, <1>5 DEF SerialReads
<1>7. MetThread'
  BY <1>1, <1>3, <1>4 DEF IInv, MetThread, Standing
<1> QED
  BY <1>1, <1>2, <1>5, <1>6, <1>7, RequestIInv DEF StillSerial

LEMMA BeginEditIInv ==
  ASSUME IInv, NEW r \in Requests, NEW u \in Authors, NEW admin \in BOOLEAN, NEW id \in Ids,
         BeginEdit(r, u, admin, id)
  PROVE  IInv'
<1> DEFINE q == [Idle EXCEPT !.op = "edit", !.actor = u, !.admin = admin, !.target = id,
                             !.open = ~thread.locked]
<1>1. /\ req' = [req EXCEPT ![r] = q] /\ req \in [Requests -> Request]
      /\ UNCHANGED <<accounts, thread, posts, nextId, notices, purge, serial>>
      /\ thread.state = "standing" /\ thread \in Thread /\ (admin \/ ~thread.locked)
      /\ serial \in BOOLEAN
  BY DEF BeginEdit, EditAllowed, Standing, IInv, TypeOK
<1>2. q \in Request
  BY <1>1 DEF Idle, Request, Thread, Ids, Authors
<1>3. q.op = "edit" /\ (q.open \/ q.admin)
  BY <1>1 DEF Idle
<1> HIDE DEF q
<1>4. req'[r] = q /\ \A s \in Requests \ {r} : req'[s] = req[s]
  BY <1>1
<1>5. SerialReads'
  BY <1>1, <1>3, <1>4 DEF IInv, SerialReads, Standing, PostedIds
<1>6. MetThread'
  BY <1>1, <1>3, <1>4 DEF IInv, MetThread, Standing
<1> QED
  BY <1>1, <1>2, <1>5, <1>6, RequestIInv

LEMMA BeginDeleteIInv ==
  ASSUME IInv, NEW r \in Requests, NEW u \in Authors, NEW admin \in BOOLEAN, NEW id \in Ids,
         BeginDelete(r, u, admin, id)
  PROVE  IInv'
<1> DEFINE q == [Idle EXCEPT !.op = "delete", !.actor = u, !.admin = admin, !.target = id]
<1>1. /\ req' = [req EXCEPT ![r] = q] /\ req \in [Requests -> Request]
      /\ UNCHANGED <<accounts, thread, posts, nextId, notices, purge>>
      /\ thread.state = "standing" /\ id \in PostedIds
      /\ serial' = StillSerial /\ serial \in BOOLEAN
  BY DEF BeginDelete, Standing, IInv, TypeOK, PostsInOrder, PostedIds, Thread
<1>2. q \in Request
  BY <1>1 DEF Idle, Request, Ids, Authors
<1>3. q.op = "delete" /\ q.target = id
  BY <1>1 DEF Idle
<1> HIDE DEF q
<1>4. req'[r] = q /\ \A s \in Requests \ {r} : req'[s] = req[s]
  BY <1>1
<1>5. serial' => serial /\ \A s \in Requests : req[s].op \in {"idle", "edit", "done"}
  BY <1>1 DEF StillSerial, Request
<1>6. SerialReads'
  BY <1>1, <1>3, <1>4, <1>5 DEF SerialReads, PostedIds
<1>7. MetThread'
  BY <1>1, <1>3, <1>4 DEF IInv, MetThread, Standing
<1> QED
  BY <1>1, <1>2, <1>5, <1>6, <1>7, RequestIInv DEF StillSerial

LEMMA ReadCountIInv ==
  ASSUME IInv, NEW r \in Requests, ReadCount(r)
  PROVE  IInv'
<1> DEFINE q == [req[r] EXCEPT !.op = "deleting", !.count = thread.count]
<1>1. /\ req' = [req EXCEPT ![r] = q] /\ req \in [Requests -> Request]
      /\ UNCHANGED <<accounts, thread, posts, nextId, notices, purge, serial>>
      /\ thread.state = "standing" /\ thread \in Thread /\ req[r].op = "delete"
      /\ serial \in BOOLEAN
  BY DEF ReadCount, Standing, IInv, TypeOK
<1>2. q \in Request
  BY <1>1 DEF Request, Thread
<1>3. q.op = "deleting" /\ q.target = req[r].target /\ q.count = thread.count
  BY <1>1 DEF Request
<1> HIDE DEF q
<1>4. req'[r] = q /\ \A s \in Requests \ {r} : req'[s] = req[s]
  BY <1>1
<1>5. SerialReads'
  BY <1>1, <1>3, <1>4 DEF IInv, SerialReads, Standing, PostedIds
<1>6. MetThread'
  BY <1>1, <1>3, <1>4 DEF IInv, MetThread, Standing
<1> QED
  BY <1>1, <1>2, <1>5, <1>6, RequestIInv

LEMMA AbortIInv ==
  ASSUME IInv, NEW r \in Requests, Abort(r)
  PROVE  IInv'
<1> DEFINE q == [Idle EXCEPT !.op = "done"]
<1>1. /\ req' = [req EXCEPT ![r] = q] /\ req \in [Requests -> Request]
      /\ UNCHANGED <<accounts, thread, posts, nextId, notices, purge, serial>>
      /\ thread.state # "unborn" /\ serial \in BOOLEAN
  BY DEF Abort, Done, IInv, TypeOK, PostsInOrder
<1>2. q \in Request /\ q.op = "done"
  BY DEF Idle, Request, Ids, Authors
<1> HIDE DEF q
<1>4. req'[r] = q /\ \A s \in Requests \ {r} : req'[s] = req[s]
  BY <1>1
<1>5. SerialReads'
  BY <1>1, <1>2, <1>4 DEF IInv, SerialReads, Standing, PostedIds
<1>6. MetThread'
  BY <1>1, <1>2, <1>4 DEF IInv, MetThread, Standing
<1> QED
  BY <1>1, <1>2, <1>5, <1>6, RequestIInv

\* A step of moderation changes no count, link or name.
LEMMA ModerationIInv ==
  ASSUME IInv, NEW kind \in Kinds, Standing,
         UNCHANGED <<accounts, posts, nextId, purge, serial>>,
         thread' \in Thread, thread'.state = thread.state, thread'.author = thread.author,
         thread'.name = thread.name, thread'.count = thread.count,
         notices' \subseteq notices \cup Notify({thread.author} \ {NoUser}, kind, Opening, NoUser),
         req' \in [Requests -> Request],
         \A r \in Requests :
           /\ req'[r].op = req[r].op /\ req'[r].target = req[r].target
           /\ req'[r].count = req[r].count /\ req'[r].admin = req[r].admin
           /\ req'[r].author = req[r].author
           /\ req[r].open => req'[r].open
  PROVE  IInv'
<1>1. \A n \in Notify({thread.author} \ {NoUser}, kind, Opening, NoUser) :
        n \in Notice /\ n.user \in accounts /\ n.post = Opening
  BY DEF Notify, Notice, IInv, TypeOK, LinksHold, Ids, Authors
<1>2. notices' \subseteq Notice
  BY <1>1 DEF IInv, TypeOK
<1>3. TypeOK'
  BY <1>2 DEF IInv, TypeOK
<1>4. PostsInOrder'
  BY DEF IInv, PostsInOrder, Standing
<1>5. {n.user : n \in notices'} \subseteq accounts
  BY <1>1 DEF IInv, LinksHold
<1>6. {n.post : n \in notices'} \subseteq PostedIds \cup {Opening}
  BY <1>1 DEF IInv, LinksHold
<1>7. LinksHold'
  BY <1>5, <1>6 DEF IInv, LinksHold, PostedIds
<1>8. SerialCountIsPosts' /\ SerialReads' /\ MetThread'
  BY DEF IInv, SerialCountIsPosts, SerialReads, MetThread, Standing, PostedIds
<1>9. NamesFollow'
  BY DEF IInv, NamesFollow
<1>10. EarlierWritingsAnonymous'
  BY DEF IInv, EarlierWritingsAnonymous
<1> QED
  BY <1>3, <1>4, <1>7, <1>8, <1>9, <1>10 DEF IInv

\* Locking, unlocking, pinning, setting the status.
Moderation ==
  \/ Lock \/ Unlock
  \/ \E pinned \in BOOLEAN : TogglePin(pinned)
  \/ \E s \in Statuses : SetStatus(s)

LEMMA ModerateIInv ==
  ASSUME IInv, Moderation
  PROVE  IInv'
<1>0. thread \in Thread /\ req \in [Requests -> Request]
  BY DEF IInv, TypeOK
<1>1. CASE Lock
  <2>1. thread' \in Thread /\ thread'.state = thread.state /\ thread'.author = thread.author
        /\ thread'.name = thread.name /\ thread'.count = thread.count
    BY <1>0, <1>1 DEF Lock, Thread
  <2> QED
    BY <1>0, <1>1, <2>1, ModerationIInv DEF Lock, TellAuthor, Kinds
<1>2. CASE Unlock
  <2>1. thread' \in Thread /\ thread'.state = thread.state /\ thread'.author = thread.author
        /\ thread'.name = thread.name /\ thread'.count = thread.count
    BY <1>0, <1>2 DEF Unlock, Thread
  <2>2. ASSUME NEW r \in Requests
        PROVE  /\ req'[r] \in Request
               /\ req'[r].op = req[r].op /\ req'[r].target = req[r].target
               /\ req'[r].count = req[r].count /\ req'[r].admin = req[r].admin
               /\ req'[r].author = req[r].author
               /\ req[r].open => req'[r].open
    <3>1. req'[r] = req[r] \/ req'[r] = [req[r] EXCEPT !.open = TRUE]
      BY <1>2 DEF Unlock
    <3> QED
      BY <1>0, <3>1 DEF Request
  <2>3. req' \in [Requests -> Request]
    BY <1>2, <2>2 DEF Unlock
  <2> QED
    BY <1>2, <2>1, <2>2, <2>3, ModerationIInv DEF Unlock, Kinds
<1>3. ASSUME NEW pinned \in BOOLEAN, TogglePin(pinned) PROVE IInv'
  <2>1. thread' \in Thread /\ thread'.state = thread.state /\ thread'.author = thread.author
        /\ thread'.name = thread.name /\ thread'.count = thread.count
    BY <1>0, <1>3 DEF TogglePin, Thread
  <2> QED
    BY <1>0, <1>3, <2>1, ModerationIInv DEF TogglePin, Kinds
<1>4. ASSUME NEW s \in Statuses, SetStatus(s) PROVE IInv'
  <2>1. thread' \in Thread /\ thread'.state = thread.state /\ thread'.author = thread.author
        /\ thread'.name = thread.name /\ thread'.count = thread.count
    BY <1>0, <1>4 DEF SetStatus, Thread
  <2> QED
    BY <1>0, <1>4, <2>1, ModerationIInv DEF SetStatus, TellAuthor, Kinds
<1> QED
  BY <1>1, <1>2, <1>3, <1>4 DEF Moderation

\* Replies and notices go with the thread.
LEMMA DeleteThreadIInv ==
  ASSUME IInv, DeleteThread
  PROVE  IInv'
<1>1. /\ thread' = Row("deleted", NoUser, NoUser) /\ posts' = {} /\ notices' = {}
      /\ UNCHANGED <<accounts, nextId, purge, req, serial>>
      /\ accounts \subseteq Users
  BY DEF DeleteThread, IInv, TypeOK
<1>2. TypeOK'
  BY <1>1, StatusesAssumption DEF IInv, TypeOK, Row, Thread, Authors
<1>3. PostsInOrder' /\ SerialCountIsPosts'
  BY <1>1 DEF PostsInOrder, SerialCountIsPosts, Standing, Row
<1>4. LinksHold'
  BY <1>1 DEF IInv, LinksHold, Row, PostedIds
<1>5. SerialReads' /\ MetThread'
  BY <1>1 DEF IInv, SerialReads, MetThread, Standing, Row
<1>6. NamesFollow' /\ EarlierWritingsAnonymous'
  BY <1>1, UsersAssumption DEF IInv, NamesFollow, EarlierWritingsAnonymous, Row
<1> QED
  BY <1>2, <1>3, <1>4, <1>5, <1>6 DEF IInv

\* A reply adds one id, and is counted when no other request intervened.
LEMMA FinishReplyIInv ==
  ASSUME IInv, NEW r \in Requests, NEW repliers \in SUBSET Users,
         NEW mentioned \in SUBSET Users, FinishReply(r, repliers, mentioned)
  PROVE  IInv'
<1> DEFINE post == [id |-> nextId, author |-> req[r].actor,
                    name |-> Byline(req[r].actor, req[r].admin), edited |-> FALSE]
           done == [Idle EXCEPT !.op = "done"]
           new == ReplyNotices(r, repliers, mentioned)
<1> USE BoundsAssumption, UsersAssumption
<1>1. /\ nextId \in PostIds /\ nextId' = nextId + 1 /\ posts' = posts \cup {post}
      /\ thread.state = "standing" /\ notices' = notices \cup new
      /\ req' = [req EXCEPT ![r] = done] /\ req \in [Requests -> Request]
      /\ thread' = [thread EXCEPT !.count = req[r].count + 1] /\ thread \in Thread
      /\ UNCHANGED <<accounts, purge, serial>>
      /\ accounts \subseteq Users /\ req[r] \in Request /\ req[r].op = "reply"
      /\ serial \in BOOLEAN
  BY DEF FinishReply, Done, RowsRemain, Standing, IInv, TypeOK, PostIds
<1>2. /\ req[r].actor \in accounts \cup {NoUser} /\ req[r].author \in accounts \cup {NoUser}
      /\ repliers \subseteq accounts /\ mentioned \subseteq accounts
      /\ Byline(req[r].actor, req[r].admin) \in {req[r].actor, NoUser}
  BY DEF FinishReply, RowsRemain, FanOut, Repliers, IInv, LinksHold, Byline
<1>3. /\ thread' \in Thread /\ thread'.count = req[r].count + 1
      /\ thread'.state = "standing" /\ thread'.author = thread.author
      /\ thread'.name = thread.name
  BY <1>1 DEF Thread, Request
<1>4. done \in Request /\ done.op = "done"
  BY DEF Idle, Request, Ids, Authors
<1>5. post \in Post
  BY <1>1, <1>2 DEF Post, Authors
<1>6. \A n \in new : n \in Notice /\ n.user \in accounts /\ n.post = nextId
  BY <1>1, <1>2 DEF ReplyNotices, Notify, Notice, Kinds, Ids, Authors
<1>7. /\ post.id = nextId /\ post.name \in {post.author, NoUser}
      /\ post.author \in accounts \cup {NoUser}
  BY <1>2
<1> HIDE DEF post, done, new
<1>8. req'[r] = done /\ \A s \in Requests \ {r} : req'[s] = req[s]
  BY <1>1
<1>9. nextId \notin PostedIds /\ PostedIds' = PostedIds \cup {nextId}
  BY <1>1, <1>7 DEF PostedIds, IInv, PostsInOrder, TypeOK, Post, PostIds
<1>10. TypeOK'
  BY <1>1, <1>3, <1>4, <1>5, <1>6 DEF IInv, TypeOK, PostIds
<1>11. PostsInOrder'
  BY <1>1, <1>3, <1>7 DEF IInv, PostsInOrder, Standing, TypeOK, Post, PostIds
<1>12. {n.post : n \in notices'} \subseteq PostedIds' \cup {Opening}
  BY <1>1, <1>6, <1>9 DEF IInv, LinksHold
<1>13. LinksHold'
  BY <1>1, <1>3, <1>6, <1>7, <1>12 DEF IInv, LinksHold
<1>14. SerialCountIsPosts'
  <2>1. SUFFICES ASSUME serial PROVE thread'.count = Cardinality(PostedIds')
    BY <1>1 DEF SerialCountIsPosts
  <2>2. req[r].count = Cardinality(PostedIds)
    BY <1>1, <2>1 DEF IInv, SerialCountIsPosts, SerialReads, Standing
  <2>3. Cardinality(PostedIds') = Cardinality(PostedIds) + 1
    BY <1>9, IdsFinite, FS_AddElement, Zenon DEF IInv
  <2> QED
    BY <1>3, <2>2, <2>3
<1>15. SerialReads'
  BY <1>1, <1>4, <1>8 DEF IInv, SerialReads
<1>16. NamesFollow'
  <2>1. \A row \in posts' \cup {thread'} : row.name \in accounts => row.author = row.name
    <3>1. \A row \in posts \cup {thread} : row.name \in accounts => row.author = row.name
      BY DEF IInv, NamesFollow
    <3>2. post.name \in accounts => post.author = post.name
      BY <1>1, <1>7
    <3> QED
      BY <1>1, <1>3, <3>1, <3>2
  <2>2. \A u \in Users : purge[u].from \in Int
    BY DEF IInv, TypeOK, Purge
  <2>3. \A u \in Users : purge[u].running =>
          purge[u].from <= nextId' /\ (thread.name = u /\ purge[u].from # 0 => Opening \in purge[u].ids)
    BY <1>1, <2>2 DEF IInv, NamesFollow, PostIds
  <2>4. \A u \in Users : purge[u].running =>
          \A p \in posts' : p.name = u /\ p.id < purge[u].from => p.id \in purge[u].ids
    BY <1>1, <1>7, <2>2 DEF IInv, NamesFollow, PostIds
  <2> QED
    BY <1>1, <1>3, <2>1, <2>3, <2>4 DEF NamesFollow
<1>17. EarlierWritingsAnonymous'
  BY <1>1, <1>2, <1>3, <1>7 DEF IInv, EarlierWritingsAnonymous
<1>18. MetThread'
  BY <1>1, <1>3, <1>4, <1>8 DEF IInv, MetThread, Standing
<1> QED
  BY <1>10, <1>11, <1>13, <1>14, <1>15, <1>16, <1>17, <1>18 DEF IInv

\* An edit keeps ids, authors and names.
LEMMA FinishEditIInv ==
  ASSUME IInv, NEW r \in Requests, FinishEdit(r)
  PROVE  IInv'
<1> DEFINE done == [Idle EXCEPT !.op = "done"]
           edit(p) == IF p.id = req[r].target THEN [p EXCEPT !.edited = TRUE] ELSE p
<1>1. /\ req' = [req EXCEPT ![r] = done] /\ req \in [Requests -> Request]
      /\ UNCHANGED <<accounts, nextId, notices, purge, serial>>
      /\ thread \in Thread /\ posts \subseteq Post
  BY DEF FinishEdit, Done, IInv, TypeOK
<1>2. done \in Request /\ done.op = "done"
  BY DEF Idle, Request, Ids, Authors
<1>3. \A p \in posts : /\ edit(p) \in Post /\ edit(p).id = p.id
                       /\ edit(p).author = p.author /\ edit(p).name = p.name
  BY <1>1 DEF Post
<1>4. posts' = posts \/ posts' = {edit(p) : p \in posts}
  BY DEF FinishEdit
<1> HIDE DEF edit
<1>5. \A q \in posts' : \E p \in posts :
        q \in Post /\ q.id = p.id /\ q.author = p.author /\ q.name = p.name
  BY <1>1, <1>3, <1>4
<1>6. posts' = {} <=> posts = {}
  BY <1>4
<1>7. \A p, q \in posts' : p.id = q.id => p = q
  BY <1>3, <1>4 DEF IInv, PostsInOrder
<1>8. PostedIds' = PostedIds
  BY <1>3, <1>4 DEF PostedIds
<1>9. /\ thread' \in Thread /\ thread'.state = thread.state /\ thread'.author = thread.author
      /\ thread'.name = thread.name /\ thread'.count = thread.count
      /\ thread.state # "unborn"
  BY <1>1 DEF FinishEdit, Thread, IInv, PostsInOrder
<1> HIDE DEF done
<1>10. req'[r] = done /\ \A s \in Requests \ {r} : req'[s] = req[s]
  BY <1>1
<1>11. TypeOK'
  <2>1. posts' \subseteq Post
    BY <1>5
  <2> QED
    BY <1>1, <1>2, <1>9, <2>1 DEF IInv, TypeOK
<1>12. PostsInOrder'
  BY <1>1, <1>5, <1>6, <1>7, <1>9 DEF IInv, PostsInOrder, Standing
<1>13. LinksHold'
  <2>1. {p.author : p \in posts'} \subseteq {p.author : p \in posts}
    BY <1>5
  <2> QED
    BY <1>1, <1>8, <1>9, <2>1 DEF IInv, LinksHold
<1>14. SerialCountIsPosts' /\ SerialReads'
  BY <1>1, <1>2, <1>8, <1>9, <1>10 DEF IInv, SerialCountIsPosts, SerialReads, Standing
<1>15. NamesFollow'
  <2>1. \A row \in posts' \cup {thread'} : row.name \in accounts => row.author = row.name
    BY <1>5, <1>9 DEF IInv, NamesFollow
  <2>2. \A u \in Users : purge[u].running =>
          \A p \in posts' : p.name = u /\ p.id < purge[u].from => p.id \in purge[u].ids
    BY <1>5 DEF IInv, NamesFollow
  <2> QED
    BY <1>1, <1>9, <2>1, <2>2 DEF IInv, NamesFollow
<1>16. EarlierWritingsAnonymous'
  BY <1>1, <1>5, <1>9 DEF IInv, EarlierWritingsAnonymous
<1>17. MetThread'
  BY <1>1, <1>9, <1>2, <1>10 DEF IInv, MetThread, Standing
<1> QED
  BY <1>11, <1>12, <1>13, <1>14, <1>15, <1>16, <1>17 DEF IInv

\* A deletion takes one id away, and is counted when no other intervened.
LEMMA FinishDeleteIInv ==
  ASSUME IInv, NEW r \in Requests, FinishDelete(r)
  PROVE  IInv'
<1> DEFINE done == [Idle EXCEPT !.op = "done"]
           id == req[r].target
           n == req[r].count
<1>1. /\ req' = [req EXCEPT ![r] = done] /\ req \in [Requests -> Request]
      /\ UNCHANGED <<accounts, nextId, purge, serial>>
      /\ thread \in Thread /\ posts \subseteq Post /\ notices \subseteq Notice
      /\ thread.state = "standing" /\ req[r].op = "deleting" /\ req[r] \in Request
      /\ posts' = {p \in posts : p.id # id} /\ notices' = {m \in notices : m.post # id}
      /\ thread' = IF LessOne(n) # n THEN [thread EXCEPT !.count = LessOne(n)] ELSE thread
  BY DEF FinishDelete, Done, Standing, IInv, TypeOK
<1>2. done \in Request /\ done.op = "done"
  BY DEF Idle, Request, Ids, Authors
<1>3. n \in Nat /\ LessOne(n) \in Nat
  BY <1>1 DEF Request, LessOne
<1>4. /\ thread' \in Thread /\ thread'.state = thread.state /\ thread'.author = thread.author
      /\ thread'.name = thread.name
      /\ thread'.count = IF LessOne(n) # n THEN LessOne(n) ELSE thread.count
  BY <1>1, <1>3 DEF Thread
<1>5. PostedIds' = PostedIds \ {id}
  BY <1>1 DEF PostedIds
<1> HIDE DEF done
<1>6. req'[r] = done /\ \A s \in Requests \ {r} : req'[s] = req[s]
  BY <1>1
<1>7. TypeOK'
  BY <1>1, <1>2, <1>4 DEF IInv, TypeOK
<1>8. PostsInOrder'
  BY <1>1, <1>4 DEF IInv, PostsInOrder, Standing
<1>9. {m.post : m \in notices'} \subseteq PostedIds' \cup {Opening}
  BY <1>1, <1>5 DEF IInv, LinksHold
<1>10. LinksHold'
  BY <1>1, <1>4, <1>9 DEF IInv, LinksHold
<1>11. SerialCountIsPosts'
  <2>1. SUFFICES ASSUME serial PROVE thread'.count = Cardinality(PostedIds')
    BY <1>1 DEF SerialCountIsPosts
  <2>2. n = thread.count /\ id \in PostedIds /\ thread.count = Cardinality(PostedIds)
    BY <1>1, <2>1 DEF IInv, SerialCountIsPosts, SerialReads, Standing
  <2>3. Cardinality(PostedIds') = Cardinality(PostedIds) - 1
    BY <1>5, <2>2, IdsFinite, FS_RemoveElement, Zenon DEF IInv
  <2>4. Cardinality(PostedIds) # 0
    BY <2>2, IdsFinite, FS_EmptySet, Zenon DEF IInv
  <2>5. Cardinality(PostedIds) \in Nat
    BY IdsFinite, FS_CardinalityType, Zenon DEF IInv
  <2>6. thread'.count = LessOne(thread.count)
    BY <1>3, <1>4, <2>2
  <2> QED
    BY <2>2, <2>3, <2>4, <2>5, <2>6 DEF LessOne
<1>12. SerialReads'
  BY <1>1, <1>2, <1>4, <1>6 DEF IInv, SerialReads
<1>13. NamesFollow' /\ EarlierWritingsAnonymous'
  <2>1. posts' \subseteq posts
    BY <1>1
  <2>2. \A row \in posts' \cup {thread'} : row.name \in accounts' => row.author = row.name
    BY <1>1, <1>4, <2>1 DEF IInv, NamesFollow
  <2>3. NamesFollow'
    BY <1>1, <1>4, <2>1, <2>2 DEF IInv, NamesFollow
  <2>4. EarlierWritingsAnonymous'
    BY <1>1, <1>4, <2>1 DEF IInv, EarlierWritingsAnonymous
  <2> QED
    BY <2>3, <2>4
<1>14. MetThread'
  BY <1>1, <1>4, <1>2, <1>6 DEF IInv, MetThread, Standing
<1> QED
  BY <1>7, <1>8, <1>10, <1>11, <1>12, <1>13, <1>14 DEF IInv

\* A deletion of an account notes what its UPDATEs reached.
LEMMA BeginPurgeIInv ==
  ASSUME IInv, NEW u \in Users, BeginPurge(u)
  PROVE  IInv'
<1> DEFINE p0 == [running |-> TRUE, ids |-> Written(u),
                  from |-> IF thread.state = "unborn" THEN 0 ELSE nextId]
<1>1. /\ purge' = [purge EXCEPT ![u] = p0] /\ purge \in [Users -> Purge]
      /\ UNCHANGED <<accounts, thread, posts, nextId, notices, req, serial>>
      /\ u \in accounts /\ nextId \in 1..(MaxPosts + 1) /\ posts \subseteq Post
  BY DEF BeginPurge, IInv, TypeOK
<1>2. p0 \in Purge
  BY <1>1, BoundsAssumption DEF Written, Purge, Ids, Post
<1>3. /\ p0.running = TRUE /\ p0.from <= nextId
      /\ thread.state = "unborn" => p0.from = 0
      /\ thread.author = u /\ p0.from # 0 => Opening \in p0.ids
      /\ \A p \in posts : p.author = u => p.id \in p0.ids
  <2>1. p0.running = TRUE /\ p0.from <= nextId /\ (thread.state = "unborn" => p0.from = 0)
    BY <1>1
  <2>2. \A p \in posts : p.author = u => p.id \in Written(u)
    BY DEF Written
  <2>3. thread.author = u => Standing /\ Opening \in Written(u)
    BY <1>1, UsersAssumption DEF Written, IInv, PostsInOrder
  <2> QED
    BY <2>1, <2>2, <2>3
<1> HIDE DEF p0
<1>4. purge'[u] = p0 /\ \A v \in Users \ {u} : purge'[v] = purge[v]
  BY <1>1
<1>5. TypeOK'
  BY <1>1, <1>2 DEF IInv, TypeOK
<1>6. PostsInOrder' /\ SerialCountIsPosts' /\ SerialReads' /\ MetThread'
  BY <1>1 DEF IInv, PostsInOrder, SerialCountIsPosts, SerialReads, MetThread, Standing, PostedIds
<1>7. LinksHold'
  BY <1>1, <1>4 DEF IInv, LinksHold, PostedIds
<1>8. NamesFollow'
  BY <1>1, <1>3, <1>4 DEF IInv, NamesFollow
<1>9. EarlierWritingsAnonymous'
  BY <1>1, <1>4 DEF IInv, EarlierWritingsAnonymous
<1> QED
  BY <1>5, <1>6, <1>7, <1>8, <1>9 DEF IInv

\* A deletion of an account that is given up leaves no trace.
LEMMA AbortPurgeIInv ==
  ASSUME IInv, NEW u \in Users, AbortPurge(u)
  PROVE  IInv'
<1>1. /\ purge' = [purge EXCEPT ![u] = NoPurge] /\ purge \in [Users -> Purge]
      /\ UNCHANGED <<accounts, thread, posts, nextId, notices, req, serial>>
      /\ u \in accounts
  BY DEF AbortPurge, IInv, TypeOK, LinksHold
<1>2. NoPurge \in Purge /\ ~NoPurge.running
  BY BoundsAssumption DEF NoPurge, Purge
<1>3. purge'[u] = NoPurge /\ \A v \in Users \ {u} : purge'[v] = purge[v]
  BY <1>1
<1>4. TypeOK'
  BY <1>1, <1>2 DEF IInv, TypeOK
<1>5. PostsInOrder' /\ SerialCountIsPosts' /\ SerialReads' /\ MetThread'
  BY <1>1 DEF IInv, PostsInOrder, SerialCountIsPosts, SerialReads, MetThread, Standing, PostedIds
<1>6. LinksHold'
  BY <1>1, <1>2, <1>3 DEF IInv, LinksHold, PostedIds
<1>7. NamesFollow' /\ EarlierWritingsAnonymous'
  BY <1>1, <1>2, <1>3 DEF IInv, NamesFollow, EarlierWritingsAnonymous
<1> QED
  BY <1>4, <1>5, <1>6, <1>7 DEF IInv

\* A row of a deleted account: what becomes of its fields.
LEMMA AnonymousRow ==
  ASSUME NEW u \in Users, NEW row, NEW id, row \in Post \/ row \in Thread
  PROVE  /\ row \in Post => Anonymous(row, id, u) \in Post /\ Anonymous(row, id, u).id = row.id
         /\ row \in Thread => /\ Anonymous(row, id, u) \in Thread
                             /\ Anonymous(row, id, u).state = row.state
                             /\ Anonymous(row, id, u).count = row.count
         /\ Anonymous(row, id, u).author \in {row.author, NoUser} \ {u}
         /\ row.author # u => Anonymous(row, id, u) = row
         /\ Anonymous(row, id, u).name \in {row.name, NoUser}
         /\ row.author = u /\ id \in purge[u].ids => Anonymous(row, id, u).name = NoUser
<1>1. CASE row.author # u
  BY <1>1, UsersAssumption DEF Anonymous
<1>2. CASE row.author = u /\ id \in purge[u].ids
  <2>1. Anonymous(row, id, u) = [row EXCEPT !.author = NoUser, !.name = NoUser]
    BY <1>2 DEF Anonymous
  <2> QED
    BY <1>2, <2>1, UsersAssumption DEF Post, Thread, Authors
<1>3. CASE row.author = u /\ id \notin purge[u].ids
  <2>1. Anonymous(row, id, u) = [row EXCEPT !.author = NoUser]
    BY <1>3 DEF Anonymous
  <2> QED
    BY <1>3, <2>1, UsersAssumption DEF Post, Thread, Authors
<1> QED
  BY <1>1, <1>2, <1>3

\* With the account go its notices and its authorship; its name stays only
\* where the UPDATEs did not reach.
LEMMA FinishPurgeIInv ==
  ASSUME IInv, NEW u \in Users, FinishPurge(u)
  PROVE  IInv'
<1>1. /\ purge' = [purge EXCEPT ![u].running = FALSE] /\ purge \in [Users -> Purge]
      /\ UNCHANGED <<nextId, req, serial>>
      /\ accounts' = accounts \ {u} /\ accounts \subseteq Users /\ u \in accounts
      /\ posts' = {Anonymous(p, p.id, u) : p \in posts} /\ posts \subseteq Post
      /\ thread' = Anonymous(thread, Opening, u) /\ thread \in Thread
      /\ notices' = {n \in notices : n.user # u} /\ purge[u].running
  BY DEF FinishPurge, IInv, TypeOK, LinksHold
<1>2. /\ purge'[u] \in Purge /\ ~purge'[u].running /\ purge'[u].from = purge[u].from
      /\ \A v \in Users \ {u} : purge'[v] = purge[v]
  BY <1>1 DEF Purge
<1>3. /\ thread' \in Thread /\ thread'.state = thread.state /\ thread'.count = thread.count
      /\ thread'.author \in {thread.author, NoUser} \ {u}
      /\ thread.author # u => thread' = thread
      /\ thread'.name \in {thread.name, NoUser}
      /\ thread.author = u /\ Opening \in purge[u].ids => thread'.name = NoUser
  BY <1>1, AnonymousRow
<1>4. \A p \in posts :
        /\ Anonymous(p, p.id, u) \in Post /\ Anonymous(p, p.id, u).id = p.id
        /\ Anonymous(p, p.id, u).author \in {p.author, NoUser} \ {u}
        /\ p.author # u => Anonymous(p, p.id, u) = p
        /\ Anonymous(p, p.id, u).name \in {p.name, NoUser}
        /\ p.author = u /\ p.id \in purge[u].ids => Anonymous(p, p.id, u).name = NoUser
  BY <1>1, AnonymousRow
<1>5. \A q \in posts' : \E p \in posts :
        /\ q \in Post /\ q.id = p.id /\ q.author \in {p.author, NoUser} \ {u}
        /\ p.author # u => q = p
        /\ q.name \in {p.name, NoUser}
        /\ p.author = u /\ p.id \in purge[u].ids => q.name = NoUser
  BY <1>1, <1>4
<1>6. PostedIds' = PostedIds
  BY <1>1, <1>4 DEF PostedIds
<1>7. TypeOK'
  <2>1. posts' \subseteq Post
    BY <1>5
  <2>2. purge' \in [Users -> Purge]
    BY <1>1, <1>2
  <2> QED
    BY <1>1, <1>3, <2>1, <2>2 DEF IInv, TypeOK
<1>8. PostsInOrder'
  <2>1. \A p, q \in posts' : p.id = q.id => p = q
    BY <1>1, <1>4 DEF IInv, PostsInOrder
  <2>2. posts = {} => posts' = {}
    BY <1>1
  <2>3. \A p \in posts' : p.id < nextId
    BY <1>5 DEF IInv, PostsInOrder
  <2> QED
    BY <1>1, <1>3, <2>1, <2>2, <2>3 DEF IInv, PostsInOrder, Standing
<1>9. LinksHold'
  <2>1. \A p \in posts' : p.author \in accounts' \cup {NoUser}
    BY <1>1, <1>5 DEF IInv, LinksHold
  <2>2. thread'.author \in accounts' \cup {NoUser}
    BY <1>1, <1>3 DEF IInv, LinksHold
  <2>3. /\ {n.user : n \in notices'} \subseteq accounts'
        /\ {n.post : n \in notices'} \subseteq PostedIds' \cup {Opening}
    BY <1>1, <1>6 DEF IInv, LinksHold
  <2>4. \A v \in Users : purge'[v].running => v \in accounts'
    BY <1>1, <1>2 DEF IInv, LinksHold
  <2> QED
    BY <2>1, <2>2, <2>3, <2>4 DEF LinksHold
<1>10. SerialCountIsPosts' /\ SerialReads' /\ MetThread'
  BY <1>1, <1>3, <1>6 DEF IInv, SerialCountIsPosts, SerialReads, MetThread, Standing
<1>11. NamesFollow'
  <2>1. thread'.name \in accounts' => thread'.author = thread'.name
    BY <1>1, <1>3, UsersAssumption DEF IInv, NamesFollow
  <2>2. \A q \in posts' : q.name \in accounts' => q.author = q.name
    BY <1>1, <1>5, UsersAssumption DEF IInv, NamesFollow
  <2>3. ASSUME NEW v \in Users, purge'[v].running
        PROVE  /\ purge'[v] = purge[v] /\ purge[v].running
    BY <1>2, <2>3
  <2>4. ASSUME NEW v \in Users, purge'[v].running
        PROVE  /\ purge[v].from <= nextId
               /\ thread'.state = "unborn" => purge[v].from = 0
               /\ thread'.name = v /\ purge[v].from # 0 => Opening \in purge[v].ids
    BY <1>3, <2>3, <2>4, UsersAssumption DEF IInv, NamesFollow
  <2>5. ASSUME NEW v \in Users, purge'[v].running
        PROVE  \A q \in posts' : q.name = v /\ q.id < purge[v].from => q.id \in purge[v].ids
    BY <1>5, <2>3, <2>5, UsersAssumption DEF IInv, NamesFollow
  <2> QED
    BY <1>1, <2>1, <2>2, <2>3, <2>4, <2>5 DEF NamesFollow
<1>12. EarlierWritingsAnonymous'
  <2>1. ASSUME NEW v \in Users \ accounts
        PROVE  /\ thread'.name = v => purge'[v].from = 0
               /\ \A q \in posts' : q.name = v => q.id >= purge'[v].from
    BY <1>1, <1>2, <1>3, <1>5, <2>1, UsersAssumption DEF IInv, EarlierWritingsAnonymous
  <2>2. thread'.name = u => purge'[u].from = 0
    BY <1>1, <1>2, <1>3, UsersAssumption DEF IInv, NamesFollow
  <2>3. \A q \in posts' : q.name = u => q.id >= purge'[u].from
    <3>1. SUFFICES ASSUME NEW q \in posts', q.name = u, q.id < purge[u].from PROVE FALSE
      <4>1. \A q \in posts' : q.id \in Int
        BY <1>5 DEF Post, PostIds
      <4>2. purge[u].from \in Int
        BY <1>1 DEF Purge
      <4> QED
        BY <1>2, <4>1, <4>2
    <3>2. PICK p \in posts :
            /\ q.id = p.id /\ q.name \in {p.name, NoUser}
            /\ p.author = u /\ p.id \in purge[u].ids => q.name = NoUser
      BY <1>5, <3>1
    <3>3. p.name = u /\ p.author = u /\ p.id \in purge[u].ids
      BY <1>1, <3>1, <3>2, UsersAssumption DEF IInv, NamesFollow
    <3> QED
      BY <3>1, <3>2, <3>3, UsersAssumption
  <2> QED
    BY <1>1, <2>1, <2>2, <2>3 DEF EarlierWritingsAnonymous
<1> QED
  BY <1>7, <1>8, <1>9, <1>10, <1>11, <1>12 DEF IInv

\* Every step keeps the invariant.
LEMMA NextIInv == IInv /\ [Next]_vars => IInv'
<1> SUFFICES ASSUME IInv, [Next]_vars PROVE IInv'
  OBVIOUS
<1>1. CASE UNCHANGED vars
  BY <1>1 DEF vars, IInv, TypeOK, PostsInOrder, LinksHold, SerialCountIsPosts, SerialReads,
              NamesFollow, EarlierWritingsAnonymous, MetThread, Standing, PostedIds
<1>2. ASSUME NEW u \in Authors, NEW admin \in BOOLEAN, NEW mentioned \in SUBSET Users,
             NewThread(u, admin, mentioned)
      PROVE  IInv'
  BY <1>2, NewThreadIInv
<1>3. ASSUME NEW r \in Requests, NEW u \in Authors, NEW admin \in BOOLEAN,
             BeginReply(r, u, admin)
      PROVE  IInv'
  BY <1>3, BeginReplyIInv
<1>4. ASSUME NEW r \in Requests, NEW u \in Authors, NEW admin \in BOOLEAN, NEW id \in Ids,
             BeginEdit(r, u, admin, id) \/ BeginDelete(r, u, admin, id)
      PROVE  IInv'
  BY <1>4, BeginEditIInv, BeginDeleteIInv
<1>5. ASSUME NEW r \in Requests, NEW repliers \in SUBSET Users, NEW mentioned \in SUBSET Users,
             FinishReply(r, repliers, mentioned)
      PROVE  IInv'
  BY <1>5, FinishReplyIInv
<1>6. ASSUME NEW r \in Requests,
             FinishEdit(r) \/ ReadCount(r) \/ FinishDelete(r) \/ Abort(r)
      PROVE  IInv'
  BY <1>6, FinishEditIInv, ReadCountIInv, FinishDeleteIInv, AbortIInv
<1>7. CASE DeleteThread
  BY <1>7, DeleteThreadIInv
<1>8. CASE Moderation
  BY <1>8, ModerateIInv
<1>9. ASSUME NEW u \in Users, BeginPurge(u) \/ FinishPurge(u) \/ AbortPurge(u)
      PROVE  IInv'
  BY <1>9, BeginPurgeIInv, FinishPurgeIInv, AbortPurgeIInv
<1> QED
  BY <1>1, <1>2, <1>3, <1>4, <1>5, <1>6, <1>7, <1>8, <1>9 DEF Next, Moderation

-----------------------------------------------------------------------------

\* In every reachable state counts, links and names agree (IInv): in
\* particular reply_count is the number of replies while no two requests that
\* change it overlap.
THEOREM Invariance == Spec => []IInv
  BY InitIInv, NextIInv, PTL DEF Spec

\* A deletion of an account leaves its name on nothing that was committed
\* before it began, whatever else runs (auth.py:478-489).
THEOREM NamesAreErased == Spec => []EarlierWritingsAnonymous
<1>1. IInv => EarlierWritingsAnonymous
  BY DEF IInv
<1> QED
  BY <1>1, Invariance, PTL

\* Every participant with an account has a notice of a reply from its commit
\* on, unless the fan-out is cut (forum.py:502-548).
THEOREM ParticipantsAreTold == Spec => TellsParticipants
<1> DEFINE Told ==
      \A p \in posts' :
        /\ p.id = nextId
        /\ Cardinality(Repliers) <= MaxFanout
        => (Repliers \cup {thread.author}) \ {p.author, NoUser}
             \subseteq {n.user : n \in {m \in notices' : m.post = p.id}}
<1>1. ASSUME IInv, [Next]_vars PROVE Told
  <2>1. ASSUME NEW r \in Requests, NEW repliers \in SUBSET Users,
               NEW mentioned \in SUBSET Users, FinishReply(r, repliers, mentioned),
               NEW p \in posts', p.id = nextId, Cardinality(Repliers) <= MaxFanout
        PROVE  (Repliers \cup {thread.author}) \ {p.author, NoUser}
                 \subseteq {n.user : n \in {m \in notices' : m.post = p.id}}
    <3>1. p.author = req[r].actor
      <4>1. \A q \in posts : q.id # nextId
        BY <1>1, BoundsAssumption DEF IInv, PostsInOrder, TypeOK, Post, PostIds
      <4> QED
        BY <2>1, <4>1 DEF FinishReply
    <3>2. repliers = Repliers
      <4>1. repliers \subseteq Repliers /\ (repliers # Repliers => Cardinality(repliers) = MaxFanout)
        BY <2>1 DEF FinishReply, FanOut
      <4>2. IsFiniteSet(Repliers) /\ IsFiniteSet(repliers)
        <5>1. Repliers \subseteq Users
          <6>1. \A q \in posts : q.author \in Users \cup {NoUser}
            BY <1>1 DEF IInv, TypeOK, Post, Authors
          <6> QED
            BY <6>1 DEF Repliers
        <5> QED
          BY <5>1, <4>1, UsersAssumption, FS_Subset
      <4>3. ASSUME repliers # Repliers PROVE Cardinality(repliers) < Cardinality(Repliers)
        BY <4>1, <4>2, <4>3, FS_Subset, FS_CardinalityType
      <4>4. Cardinality(Repliers) \in Nat /\ Cardinality(repliers) \in Nat
        BY <4>2, FS_CardinalityType
      <4> QED
        BY <2>1, <4>1, <4>3, <4>4, BoundsAssumption
    <3>3. thread.author \in {req[r].author, NoUser}
      BY <1>1, <2>1 DEF FinishReply, RowsRemain, IInv, MetThread
    <3>4. ReplyNotices(r, repliers, mentioned) \subseteq notices'
      BY <2>1 DEF FinishReply
    <3>5. ASSUME NEW u \in (Repliers \cup {thread.author}) \ {p.author, NoUser}
          PROVE  \E n \in notices' : n.post = p.id /\ n.user = u
      <4> DEFINE byline == Byline(req[r].actor, req[r].admin)
      <4>1. CASE u = req[r].author
        <5>1. [user |-> u, kind |-> "thread_reply", post |-> nextId, actor |-> byline]
                \in ReplyNotices(r, repliers, mentioned)
          BY <3>1, <4>1 DEF ReplyNotices, Notify
        <5> QED
          BY <2>1, <3>4, <5>1
      <4>2. CASE u # req[r].author
        <5>1. [user |-> u, kind |-> "reply_to_reply", post |-> nextId, actor |-> byline]
                \in ReplyNotices(r, repliers, mentioned)
          BY <3>1, <3>2, <3>3, <4>2 DEF ReplyNotices, Notify
        <5> QED
          BY <2>1, <3>4, <5>1
      <4> QED
        BY <4>1, <4>2
    <3> QED
      BY <3>5
  <2>2. ASSUME nextId' = nextId PROVE \A p \in posts' : p.id # nextId
    <3>1. IInv'
      BY <1>1, NextIInv
    <3>2. nextId \in Int
      BY <1>1, BoundsAssumption DEF IInv, TypeOK
    <3> QED
      BY <2>2, <3>1, <3>2 DEF IInv, PostsInOrder
  <2>3. \/ nextId' = nextId
        \/ \E r \in Requests, repliers, mentioned \in SUBSET Users :
             FinishReply(r, repliers, mentioned)
    <3>1. ASSUME NEW u \in Authors, NEW admin \in BOOLEAN, NEW mentioned \in SUBSET Users,
                 NewThread(u, admin, mentioned)
          PROVE  nextId' = nextId
      BY <3>1 DEF NewThread
    <3>2. ASSUME NEW r \in Requests, NEW u \in Authors, NEW admin \in BOOLEAN,
                 \/ BeginReply(r, u, admin)
                 \/ \E id \in Ids : BeginEdit(r, u, admin, id) \/ BeginDelete(r, u, admin, id)
          PROVE  nextId' = nextId
      BY <3>2 DEF BeginReply, BeginEdit, BeginDelete
    <3>3. ASSUME NEW r \in Requests,
                 FinishEdit(r) \/ ReadCount(r) \/ FinishDelete(r) \/ Abort(r)
          PROVE  nextId' = nextId
      BY <3>3 DEF FinishEdit, ReadCount, FinishDelete, Abort
    <3>4. CASE DeleteThread \/ Moderation
      BY <3>4 DEF Moderation, DeleteThread, Lock, Unlock, TogglePin, SetStatus
    <3>5. ASSUME NEW u \in Users, BeginPurge(u) \/ FinishPurge(u) \/ AbortPurge(u)
          PROVE  nextId' = nextId
      BY <3>5 DEF BeginPurge, FinishPurge, AbortPurge
    <3>6. CASE UNCHANGED vars
      BY <3>6 DEF vars
    <3> QED
      BY <1>1, <3>1, <3>2, <3>3, <3>4, <3>5, <3>6 DEF Next, Moderation
  <2> QED
    BY <2>1, <2>2, <2>3
<1> QED
  BY <1>1, Invariance, PTL DEF Spec, TellsParticipants

\* On a locked thread a reply or a text appears or changes only by the hand of
\* an administrator or of a request that met it unlocked (forum.py:451-452,
\* 724-729, 774-775).
THEOREM LockFreezes == Spec => LockedIsFrozen
<1> DEFINE changed == \/ nextId' # nextId
                      \/ thread'.edited /\ ~thread.edited
                      \/ \E p \in posts : ~p.edited /\ [p EXCEPT !.edited = TRUE] \in posts'
           byRight == \E r \in Requests :
                        /\ req[r].op \in {"reply", "edit"} /\ req'[r].op = "done"
                        /\ req[r].open \/ (req[r].op = "edit" /\ req[r].admin)
<1>1. ASSUME IInv, [Next]_vars, changed PROVE byRight
  <2>0. ASSUME NEW r \in Requests, Done(r) PROVE req'[r].op = "done"
    <3>1. req' = [req EXCEPT ![r] = [Idle EXCEPT !.op = "done"]] /\ req \in [Requests -> Request]
      BY <1>1, <2>0 DEF Done, IInv, TypeOK
    <3>2. [Idle EXCEPT !.op = "done"].op = "done"
      BY DEF Idle
    <3> QED
      BY <3>1, <3>2
  <2>1. ASSUME NEW r \in Requests, NEW repliers \in SUBSET Users,
               NEW mentioned \in SUBSET Users, FinishReply(r, repliers, mentioned)
        PROVE  byRight
    BY <1>1, <2>0, <2>1 DEF FinishReply, IInv, MetThread
  <2>2. ASSUME NEW r \in Requests, FinishEdit(r) PROVE byRight
    BY <1>1, <2>0, <2>2 DEF FinishEdit, IInv, MetThread
  <2>3. \A p \in posts : ~p.edited => [p EXCEPT !.edited = TRUE] \notin posts
    <3>1. SUFFICES ASSUME NEW p \in posts, ~p.edited, [p EXCEPT !.edited = TRUE] \in posts
                   PROVE  FALSE
      OBVIOUS
    <3>2. p \in Post
      BY <1>1 DEF IInv, TypeOK
    <3>3. [p EXCEPT !.edited = TRUE].id = p.id /\ [p EXCEPT !.edited = TRUE].edited = TRUE
      BY <3>2 DEF Post
    <3> QED
      BY <1>1, <3>1, <3>3 DEF IInv, PostsInOrder
  <2>4. CASE UNCHANGED <<posts, nextId>> /\ (thread'.edited => thread.edited)
    BY <1>1, <2>3, <2>4
  <2>6. thread \in Thread
    BY <1>1 DEF IInv, TypeOK
  <2>7. CASE UNCHANGED <<posts, nextId, thread>>
    BY <2>4, <2>7
  <2>8. ASSUME NEW u \in Authors, NEW admin \in BOOLEAN, NEW mentioned \in SUBSET Users,
               NewThread(u, admin, mentioned)
        PROVE  byRight
    BY <2>4, <2>8 DEF NewThread, Row
  <2>9. ASSUME NEW r \in Requests, FinishDelete(r) PROVE byRight
    <3>1. posts' \subseteq posts /\ nextId' = nextId
      BY <2>9 DEF FinishDelete
    <3>2. thread'.edited = thread.edited
      BY <2>6, <2>9 DEF FinishDelete, Thread
    <3> QED
      BY <1>1, <2>3, <3>1, <3>2
  <2>10. CASE DeleteThread
    BY <1>1, <2>10 DEF DeleteThread, Row
  <2>11. CASE Moderation
    <3>1. thread'.edited = thread.edited
      BY <2>6, <2>11 DEF Moderation, Lock, Unlock, TogglePin, SetStatus, Thread
    <3>2. UNCHANGED <<posts, nextId>>
      BY <2>11 DEF Moderation, Lock, Unlock, TogglePin, SetStatus
    <3> QED
      BY <2>4, <3>1, <3>2
  <2>12. ASSUME NEW u \in Users, FinishPurge(u) PROVE byRight
    <3>1. ASSUME NEW row, NEW id, row \in Post \/ row \in Thread
          PROVE  Anonymous(row, id, u).edited = row.edited
      BY <3>1 DEF Anonymous, Post, Thread
    <3>2. thread'.edited = thread.edited /\ nextId' = nextId
      BY <2>6, <2>12, <3>1 DEF FinishPurge
    <3>3. ASSUME NEW p \in posts, ~p.edited, [p EXCEPT !.edited = TRUE] \in posts'
          PROVE  FALSE
      <4>1. posts \subseteq Post
        BY <1>1 DEF IInv, TypeOK
      <4>2. PICK q \in posts : [p EXCEPT !.edited = TRUE] = Anonymous(q, q.id, u)
        BY <2>12, <3>3 DEF FinishPurge
      <4>3. /\ [p EXCEPT !.edited = TRUE].id = p.id /\ [p EXCEPT !.edited = TRUE].edited = TRUE
            /\ Anonymous(q, q.id, u).id = q.id /\ Anonymous(q, q.id, u).edited = q.edited
        BY <4>1, <3>1, AnonymousRow DEF Post
      <4> QED
        BY <1>1, <3>3, <4>2, <4>3 DEF IInv, PostsInOrder
    <3> QED
      BY <1>1, <3>2, <3>3
  <2>13. ASSUME NEW r \in Requests, NEW u \in Authors, NEW admin \in BOOLEAN,
                BeginReply(r, u, admin)
                  \/ \E id \in Ids : BeginEdit(r, u, admin, id) \/ BeginDelete(r, u, admin, id)
         PROVE  UNCHANGED <<posts, nextId, thread>>
    BY <2>13 DEF BeginReply, BeginEdit, BeginDelete
  <2>14. ASSUME NEW r \in Requests, ReadCount(r) \/ Abort(r)
         PROVE  UNCHANGED <<posts, nextId, thread>>
    BY <2>14 DEF ReadCount, Abort
  <2>15. ASSUME NEW u \in Users, BeginPurge(u) \/ AbortPurge(u)
         PROVE  UNCHANGED <<posts, nextId, thread>>
    BY <2>15 DEF BeginPurge, AbortPurge
  <2>16. CASE UNCHANGED vars
    BY <2>7, <2>16 DEF vars
  <2> HIDE DEF byRight
  <2> QED
    BY <1>1, <2>1, <2>2, <2>7, <2>8, <2>9, <2>10, <2>11, <2>12, <2>13, <2>14, <2>15, <2>16
    DEF Next, Moderation
<1> QED
  BY <1>1, Invariance, PTL DEF Spec, LockedIsFrozen

-----------------------------------------------------------------------------

\* The notices that tell repliers of the reply with this id.
RepliersTold(id) == {n \in notices : n.post = id /\ n.kind = "reply_to_reply"}

\* What the proof of NoticesAreFew carries from step to step.
FewAndFinite == NoticesAreFew /\ \A p \in posts : IsFiniteSet(RepliersTold(p.id))

\* One notice for each of finitely many accounts.
LEMMA NotifyFinite ==
  ASSUME NEW users, IsFiniteSet(users), NEW kind, NEW post, NEW actor
  PROVE  /\ IsFiniteSet(Notify(users, kind, post, actor))
         /\ Cardinality(Notify(users, kind, post, actor)) <= Cardinality(users)
<1> DEFINE told == Notify(users, kind, post, actor)
           tell == [u \in users |-> [user |-> u, kind |-> kind, post |-> post, actor |-> actor]]
<1>1. tell \in [users -> told]
  BY DEF Notify
<1>2. \A n \in told : \E u \in users : tell[u] = n
  <2>1. SUFFICES ASSUME NEW n \in told PROVE \E u \in users : tell[u] = n
    OBVIOUS
  <2>2. n.user \in users /\ n = [user |-> n.user, kind |-> kind, post |-> post, actor |-> actor]
    BY <2>1 DEF Notify
  <2> QED
    BY <2>2
<1>3. tell \in Surjection(users, told)
  BY <1>1, <1>2 DEF Surjection
<1> QED
  BY <1>3, FS_Surjection

\* Steps that write no reply: notices may go, and those that come are about
\* the thread; replies may go or lose their author.
LEMMA FewAfterOther ==
  ASSUME IInv, FewAndFinite, IInv',
         \A n \in notices' \ notices :
           n.post = Opening /\ n.kind \notin {"thread_reply", "reply_to_reply"},
         \A q \in posts' : \E p \in posts : q.id = p.id /\ q.author \in {p.author, NoUser}
  PROVE  FewAndFinite'
<1>1. /\ posts' \subseteq Post /\ notices' \subseteq Notice
      /\ \A p \in posts' : p.id \in PostIds /\ p.id # Opening
  BY BoundsAssumption DEF IInv, TypeOK, Post, PostIds, Opening
<1>2. ASSUME NEW n \in notices', NEW p \in posts', n.post = p.id
      PROVE  n \in notices
  BY <1>1, <1>2
<1>3. ASSUME NEW p \in posts'
      PROVE  RepliersTold(p.id)' \subseteq RepliersTold(p.id)
  BY <1>2 DEF RepliersTold
<1>4. ASSUME NEW m \in notices', NEW n \in notices', m.post = n.post, m.user = n.user,
             m.kind = "thread_reply"
      PROVE  n.kind # "reply_to_reply"
  <2>1. m \in notices
    BY <1>4
  <2>2. CASE n \in notices
    BY <1>4, <2>1, <2>2 DEF FewAndFinite, NoticesAreFew
  <2>3. CASE n \notin notices
    BY <1>4, <2>3
  <2> QED
    BY <2>2, <2>3
<1>5. ASSUME NEW n \in notices', NEW q \in posts', n.post = q.id
      PROVE  n.user # q.author
  <2>1. PICK p \in posts : q.id = p.id /\ q.author \in {p.author, NoUser}
    OBVIOUS
  <2>2. n \in notices /\ n.user # NoUser
    BY <1>1, <1>2, <1>5, UsersAssumption DEF Notice
  <2> QED
    BY <1>5, <2>1, <2>2 DEF FewAndFinite, NoticesAreFew
<1>6. ASSUME NEW q \in posts'
      PROVE  IsFiniteSet(RepliersTold(q.id)') /\ Cardinality(RepliersTold(q.id)') <= MaxFanout
  <2>1. PICK p \in posts : q.id = p.id
    OBVIOUS
  <2>2. IsFiniteSet(RepliersTold(q.id)) /\ Cardinality(RepliersTold(q.id)) <= MaxFanout
    BY <2>1 DEF FewAndFinite, NoticesAreFew, RepliersTold
  <2>3. RepliersTold(q.id)' \subseteq RepliersTold(q.id)
    BY <1>3
  <2> HIDE DEF RepliersTold
  <2>4. /\ IsFiniteSet(RepliersTold(q.id)')
        /\ Cardinality(RepliersTold(q.id)') <= Cardinality(RepliersTold(q.id))
    BY <2>2, <2>3, FS_Subset
  <2> QED
    BY <2>2, <2>4, FS_CardinalityType, BoundsAssumption
<1> QED
  BY <1>4, <1>5, <1>6 DEF FewAndFinite, NoticesAreFew, RepliersTold

\* A reply: its notices carry its own id, which no notice had before.
LEMMA FewAfterReply ==
  ASSUME IInv, FewAndFinite, NEW r \in Requests, NEW repliers \in SUBSET Users,
         NEW mentioned \in SUBSET Users, FinishReply(r, repliers, mentioned)
  PROVE  FewAndFinite'
<1> DEFINE byline == Byline(req[r].actor, req[r].admin)
           told == repliers \ {req[r].author, req[r].actor}
           new == ReplyNotices(r, repliers, mentioned)
<1>1. /\ nextId \in PostIds /\ nextId # Opening
      /\ \A p \in posts : p.id # nextId
      /\ \A n \in notices : n.post # nextId
  <2>1. nextId \in PostIds /\ nextId # Opening
    BY BoundsAssumption DEF FinishReply, IInv, TypeOK, PostIds, Opening
  <2>2. \A p \in posts : p.id # nextId
    BY BoundsAssumption DEF IInv, PostsInOrder, TypeOK, Post, PostIds
  <2>3. \A n \in notices : n.post # nextId
    BY <2>1, <2>2 DEF IInv, LinksHold, PostedIds
  <2> QED
    BY <2>1, <2>2, <2>3
<1>2. /\ \A n \in new :
           /\ n.post = nextId /\ n.user # req[r].actor
           /\ n.kind = "thread_reply" => n.user = req[r].author
           /\ n.kind = "reply_to_reply" => n.user # req[r].author
  BY DEF ReplyNotices, Notify
<1>3. {n \in new : n.kind = "reply_to_reply"} = Notify(told, "reply_to_reply", nextId, byline)
  <2>1. \A n \in Notify(told, "reply_to_reply", nextId, byline) :
          n \in new /\ n.kind = "reply_to_reply"
    BY DEF ReplyNotices, Notify
  <2>2. \A n \in new : n.kind = "reply_to_reply" =>
          n \in Notify(told, "reply_to_reply", nextId, byline)
    BY DEF ReplyNotices, Notify
  <2> HIDE DEF new
  <2> QED
    BY <2>1, <2>2
<1>4. /\ notices' = notices \cup new
      /\ \A q \in posts' : q \in posts \/ (q.id = nextId /\ q.author = req[r].actor)
      /\ repliers \subseteq Users /\ Cardinality(repliers) <= MaxFanout
  BY DEF FinishReply, FanOut
<1> HIDE DEF new
<1>5. ASSUME NEW m \in notices', NEW n \in notices', m.post = n.post, m.user = n.user,
             m.kind = "thread_reply"
      PROVE  n.kind # "reply_to_reply"
  <2>1. (m \in notices /\ n \in notices) \/ (m \in new /\ n \in new)
    BY <1>1, <1>2, <1>4, <1>5
  <2> QED
    BY <1>2, <1>5, <2>1 DEF FewAndFinite, NoticesAreFew
<1>6. ASSUME NEW n \in notices', NEW q \in posts', n.post = q.id
      PROVE  n.user # q.author
  <2>1. (n \in notices /\ q \in posts) \/ (n \in new /\ q.author = req[r].actor)
    BY <1>1, <1>2, <1>4, <1>6
  <2> QED
    BY <1>2, <1>6, <2>1 DEF FewAndFinite, NoticesAreFew
<1>7. ASSUME NEW q \in posts'
      PROVE  IsFiniteSet(RepliersTold(q.id)') /\ Cardinality(RepliersTold(q.id)') <= MaxFanout
  <2>1. CASE q.id # nextId
    <3>1. RepliersTold(q.id)' = RepliersTold(q.id) /\ q \in posts
      BY <1>2, <1>4, <2>1 DEF RepliersTold
    <3> QED
      BY <3>1 DEF FewAndFinite, NoticesAreFew, RepliersTold
  <2>2. CASE q.id = nextId
    <3>1. RepliersTold(q.id)' = Notify(told, "reply_to_reply", nextId, byline)
      BY <1>1, <1>2, <1>3, <1>4, <2>2 DEF RepliersTold
    <3> HIDE DEF byline
    <3>2. IsFiniteSet(repliers)
      BY <1>4, UsersAssumption, FS_Subset
    <3>3. IsFiniteSet(told) /\ Cardinality(told) <= Cardinality(repliers)
      BY <3>2, FS_Subset
    <3> HIDE DEF told
    <3>4. /\ IsFiniteSet(Notify(told, "reply_to_reply", nextId, byline))
          /\ Cardinality(Notify(told, "reply_to_reply", nextId, byline)) <= Cardinality(told)
      BY <3>3, NotifyFinite
    <3> QED
      BY <1>4, <3>1, <3>2, <3>3, <3>4, FS_CardinalityType, BoundsAssumption
  <2> QED
    BY <2>1, <2>2
<1> QED
  BY <1>5, <1>6, <1>7 DEF FewAndFinite, NoticesAreFew, RepliersTold

\* Every step keeps it.
LEMMA FewStep == IInv /\ FewAndFinite /\ [Next]_vars => FewAndFinite'
<1> SUFFICES ASSUME IInv, FewAndFinite, [Next]_vars PROVE FewAndFinite'
  OBVIOUS
<1>0. IInv' /\ posts \subseteq Post
  BY NextIInv DEF IInv, TypeOK
<1>1. CASE UNCHANGED <<posts, notices>>
  BY <1>0, <1>1, FewAfterOther
<1>2. ASSUME NEW u \in Authors, NEW admin \in BOOLEAN, NEW mentioned \in SUBSET Users,
             NewThread(u, admin, mentioned)
      PROVE  FewAndFinite'
  <2>1. /\ \A n \in notices' : n.post = Opening /\ n.kind = "mention"
        /\ posts' = posts
    BY <1>2 DEF NewThread, Notify
  <2> QED
    BY <1>0, <2>1, FewAfterOther
<1>3. ASSUME NEW kind \in Kinds \ {"thread_reply", "reply_to_reply"}, TellAuthor(kind),
             posts' = posts
      PROVE  FewAndFinite'
  <2>1. \A n \in notices' \ notices : n.post = Opening /\ n.kind = kind
    BY <1>3 DEF TellAuthor, Notify
  <2> QED
    BY <1>0, <1>3, <2>1, FewAfterOther
<1>4. ASSUME NEW r \in Requests, FinishEdit(r) PROVE FewAndFinite'
  <2>1. \A p \in posts : [p EXCEPT !.edited = TRUE].id = p.id
                         /\ [p EXCEPT !.edited = TRUE].author = p.author
    BY <1>0 DEF Post
  <2>2. \/ posts' = posts
        \/ \A q \in posts' : \E p \in posts : q = p \/ q = [p EXCEPT !.edited = TRUE]
    BY <1>4 DEF FinishEdit
  <2>3. notices' = notices
    BY <1>4 DEF FinishEdit
  <2>4. \A q \in posts' : \E p \in posts : q.id = p.id /\ q.author = p.author
    BY <2>1, <2>2
  <2> QED
    BY <1>0, <2>3, <2>4, FewAfterOther
<1>5. CASE posts' \subseteq posts /\ notices' \subseteq notices
  BY <1>0, <1>5, FewAfterOther
<1>6. ASSUME NEW u \in Users, FinishPurge(u) PROVE FewAndFinite'
  <2>1. \A p \in posts : Anonymous(p, p.id, u).id = p.id
                         /\ Anonymous(p, p.id, u).author \in {p.author, NoUser}
    BY <1>0, AnonymousRow
  <2>2. \A q \in posts' : \E p \in posts : q.id = p.id /\ q.author \in {p.author, NoUser}
    BY <1>6, <2>1 DEF FinishPurge
  <2>3. notices' \subseteq notices
    BY <1>6 DEF FinishPurge
  <2> QED
    BY <1>0, <2>2, <2>3, FewAfterOther
<1>7. ASSUME NEW r \in Requests, FinishDelete(r) PROVE FewAndFinite'
  BY <1>5, <1>7 DEF FinishDelete
<1>8. CASE DeleteThread
  BY <1>5, <1>8 DEF DeleteThread
<1>9. CASE Moderation
  BY <1>1, <1>3, <1>9 DEF Moderation, Lock, Unlock, TogglePin, SetStatus, Kinds
<1>10. ASSUME NEW r \in Requests, NEW u \in Authors, NEW admin \in BOOLEAN,
              BeginReply(r, u, admin)
                \/ \E id \in Ids : BeginEdit(r, u, admin, id) \/ BeginDelete(r, u, admin, id)
       PROVE  UNCHANGED <<posts, notices>>
  BY <1>10 DEF BeginReply, BeginEdit, BeginDelete
<1>11. ASSUME NEW r \in Requests, ReadCount(r) \/ Abort(r)
       PROVE  UNCHANGED <<posts, notices>>
  BY <1>11 DEF ReadCount, Abort
<1>12. ASSUME NEW u \in Users, BeginPurge(u) \/ AbortPurge(u)
       PROVE  UNCHANGED <<posts, notices>>
  BY <1>12 DEF BeginPurge, AbortPurge
<1>13. CASE UNCHANGED vars
  BY <1>1, <1>13 DEF vars
<1>14. ASSUME NEW r \in Requests, NEW repliers \in SUBSET Users,
              NEW mentioned \in SUBSET Users, FinishReply(r, repliers, mentioned)
       PROVE  FewAndFinite'
  BY <1>14, FewAfterReply
<1> QED
  BY <1>1, <1>2, <1>4, <1>6, <1>7, <1>8, <1>9, <1>10, <1>11, <1>12, <1>13, <1>14 DEF Next, Moderation

\* Nobody is told of one reply twice as a participant, nor of their own, and
\* at most MAX_FANOUT_PER_POST repliers are told of it, whatever is deleted,
\* anonymised or moderated meanwhile (forum.py:518-548).
THEOREM FewNotices == Spec => []NoticesAreFew
<1>1. Init => FewAndFinite
  BY DEF Init, FewAndFinite, NoticesAreFew
<1>2. FewAndFinite => NoticesAreFew
  BY DEF FewAndFinite
<1> QED
  BY <1>1, <1>2, FewStep, Invariance, PTL DEF Spec
=============================================================================
