------------------------------ MODULE Accounts ------------------------------
(***************************************************************************)
(* Accounts, their inbox and the admin's keys together: logging out and    *)
(* deleting an account reach into the parts of the others.                 *)
(***************************************************************************)
EXTENDS Inbox, ApiKeys

vars == <<sessionVars, requestVars, inboxVars, keyVars>>

Init == SessionsInit /\ InboxInit /\ KeysInit

\* What a request does to the users row and the writings of its account.
AccountStep(r) ==
  \/ LoginCreate(r) \/ LoginAgain(r) \/ LoginRefresh(r) \/ LoginRotate(r)
  \/ LogoutCommit(r) \/ Answer(r)

Erase(r) ==
  /\ EraseCommit(r)
  /\ IF Row(req[r].sub, req[r].id) THEN DropNotices(req[r].sub) ELSE UNCHANGED inboxVars

BrowserStep(b) ==
  \/ \E r \in Requests :
       \/ \E s \in Subs : LoginFind(r, b, s)
       \/ LogoutBegin(r, b)
       \/ EraseBegin(r, b)
  \/ \E w \in Writings : Write(b, w)

AdminStep(b) ==
  /\ AdminLogin(b) \/ AdminLogout(b)
  /\ UNCHANGED <<users, minted, cookie, writings, ended, owners, missed, requestVars>>

InboxStep ==
  \/ \E n \in NoticeIds : Withdraw(n) \/ \E s \in Subs : Arrive(s, n)
  \/ \E r \in Requests : LookCommit(r) \/ ClearCommit(r)
  \/ \E r \in Requests, b \in Browsers : LookBegin(r, b) \/ ClearBegin(r, b)

KeyStep ==
  \/ \E r \in Requests :
       \/ MintCommit(r) \/ MintAnswer(r) \/ RevokeCommit(r) \/ CallEnds(r)
       \/ \E k \in Keys : Authorize(r, k)
       \/ \E b \in Browsers, k \in Keys : MintBegin(r, b, k) \/ RevokeBegin(r, b, k)
  \/ \E b \in Browsers : ShowKeys(b)
  \/ \E k \in Keys : Expire(k)

Next ==
  \/ \E r \in Requests : AccountStep(r) /\ UNCHANGED <<inboxVars, keyVars>>
  \/ \E b \in Browsers : (BrowserStep(b) \/ AdminStep(b)) /\ UNCHANGED <<inboxVars, keyVars>>
  \/ \E r \in Requests : Erase(r) /\ UNCHANGED keyVars
  \/ \E r \in Requests : Fail(r) /\ UNCHANGED <<sessionVars, inboxVars, keyVars>>
  \/ InboxStep /\ UNCHANGED keyVars
  \/ KeyStep /\ UNCHANGED inboxVars

Spec == Init /\ [][Next]_vars

-----------------------------------------------------------------------------

Stages == {"create", "again", "refresh", "rotate"}

RequestOK(q) ==
  \/ q = Idle
  \/ q \in [op : {"login"}, browser : Browsers, sub : Subs, stage : Stages, id : 0..minted]
  \/ q \in [op : {"logout"}, browser : Browsers, sub : Subs, id : 1..minted, was : 0..minted]
  \/ q \in [op : {"erase"}, browser : Browsers, sub : Subs, id : 1..minted,
             mine : SUBSET Writings]
  \/ q \in [op : {"answer"}, browser : Browsers, quit : BOOLEAN,
             value : [id : 0..minted, jti : 0..minted]]
  \/ q \in [op : {"look"}, sub : Subs, id : 1..minted, all : SUBSET NoticeIds,
             unread : SUBSET NoticeIds]
  \/ q \in [op : {"clear"}, id : 1..minted]
  \/ q \in [op : {"mint", "minted"}, browser : Browsers, key : Keys]
  \/ q \in [op : {"revoke", "call"}, key : Keys]

TypeOK ==
  /\ minted \in Nat /\ work \in 0..MaxWork
  /\ users \in [Subs -> [id : 0..minted, jti : 0..minted]]
  /\ cookie \in [Browsers -> [id : 0..minted, jti : 0..minted]]
  /\ admin \subseteq Browsers
  /\ writings \in [Writings -> [token : Browsers \cup {"fresh", "none", "deleted"}, owner : 0..minted]]
  /\ DOMAIN req = Requests /\ \A r \in Requests : RequestOK(req[r])
  /\ ended \subseteq 1..minted
  /\ owners \in [Writings -> SUBSET (1..minted)]
  /\ missed \subseteq Writings
  /\ notices \in [NoticeIds -> [user : 0..minted, read : BOOLEAN]]
  /\ arrived \subseteq NoticeIds
  /\ seen \in [Subs -> SUBSET NoticeIds]
  /\ keys \in [Keys -> [minted : BOOLEAN, expired : BOOLEAN, revoked : BOOLEAN, used : BOOLEAN]]
  /\ flash \in [Browsers -> SUBSET Keys]

\* The jti that a response on its way brings.
Carried(r) == IF req[r].op = "answer" THEN req[r].value.jti ELSE 0

\* Ids and jtis are given once; a row without an id has no jti.
MintedApart ==
  /\ \A s, t \in Subs : s # t /\ users[s].id # 0 => users[s].id # users[t].id
  /\ \A s, t \in Subs : s # t /\ users[s].jti # 0 => users[s].jti # users[t].jti
  /\ \A s \in Subs : users[s].id = 0 => users[s].jti = 0

\* A jti is in one place, a cookie or a response, and one that has ended is
\* nobody's.
OneSession ==
  /\ \A b, c \in Browsers : cookie[b].jti # 0 /\ cookie[b].jti = cookie[c].jti => b = c
  /\ \A r, q \in Requests : Carried(r) # 0 /\ Carried(r) = Carried(q) => r = q
  /\ \A b \in Browsers, r \in Requests : Carried(r) # 0 => Carried(r) # cookie[b].jti
  /\ \A s \in Subs : users[s].jti \notin ended

\* A key that a request names is minted, except where the request mints it.
KeysMatch ==
  /\ \A r \in Requests : req[r].op \in {"minted", "revoke", "call"} => keys[req[r].key].minted
  /\ \A r \in Requests : req[r].op = "mint" => keys[req[r].key] = Unminted
  /\ \A r, q \in Requests :
       req[r].op = "mint" /\ req[q].op = "mint" /\ req[r].key = req[q].key => r = q
  /\ \A k \in Keys : keys[k].expired \/ keys[k].revoked \/ keys[k].used => keys[k].minted

\* The owner of a writing is the only one it has had.
OwnersKnown ==
  \A w \in Writings :
    /\ writings[w].token = "deleted" => writings[w].owner = 0
    /\ w \notin missed =>
         IF writings[w].owner # 0 THEN owners[w] = {writings[w].owner}
         ELSE \/ owners[w] = {}
              \/ writings[w].token = "deleted" /\ \E id \in owners[w] : owners[w] = {id}

\* What an inbox on its way shows was there, and what it leaves unread was
\* behind a page of newer notices.
LooksMatch ==
  /\ \A n \in NoticeIds : notices[n] # NoNotice => n \in arrived
  /\ \A s \in Subs : seen[s] \subseteq arrived
  /\ \A r \in Requests : req[r].op = "look" =>
       /\ req[r].all \subseteq arrived
       /\ \A n \in req[r].all :
            /\ notices[n].user \in {0, req[r].id}
            /\ notices[n].user # 0 /\ ~notices[n].read /\ n \notin req[r].unread
                 => Cardinality({m \in req[r].all : m > n}) >= PageSize

\* A login ends every session its account had, and so do a logout and the
\* deletion (auth.py:277-280, 325-335; session.py:97-101): a response that
\* arrives late, in whatever order, never brings an ended session back, and
\* no two browsers are logged in to one account.
IInv ==
  /\ TypeOK /\ MintedApart /\ OneSession
  /\ KeysMatch /\ OwnersKnown /\ LooksMatch

\* An anonymous writing is adopted at most once, and a deletion leaves no
\* author on what it has seen (auth.py:288-308, 480-489): what belonged to
\* one account never comes to belong to another, except writings that the
\* deletion missed.
OwnersStay ==
  /\ \A w \in Writings \ missed : Cardinality(owners[w]) <= 1
  /\ \A w \in Writings : writings[w].token = "deleted" => writings[w].owner = 0

\* What was in the inbox when its owner last looked is read, unless a whole
\* page of newer notices hid it, whatever arrives or is withdrawn between the
\* load of the page and its mark (auth.py:386-415).  That nothing is marked
\* which was not loaded is how the handler is written, and is not stated.
InboxSettles ==
  \A s \in Subs, n \in NoticeIds :
    n \in seen[s] /\ n \in NoticesOf(users[s].id) /\ ~notices[n].read
      => Cardinality({m \in seen[s] : m > n}) >= PageSize
=============================================================================
