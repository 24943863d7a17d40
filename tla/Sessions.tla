------------------------------ MODULE Sessions ------------------------------
(***************************************************************************)
(* Accounts and their sessions: routes/auth.py, services/session.py.       *)
(*                                                                         *)
(* A session is a signed cookie <user id, jti>; it counts while the users  *)
(* row has the same jti.  An admin session is a signed cookie and nothing  *)
(* on the server.  Each handler reads, awaits and commits; what Google     *)
(* answers is settled before its callback touches the database.            *)
(***************************************************************************)
EXTENDS Integers, FiniteSets

CONSTANTS
  Requests,   \* requests in progress at one time
  Browsers,   \* browsers, each with its cookies
  Subs,       \* Google accounts
  Writings,   \* threads and replies that may be written
  MaxWork     \* bound on the requests of a behaviour

ASSUME WorkAssumption == MaxWork \in Nat
ASSUME BrowsersAssumption == Browsers \cap {"fresh", "none", "deleted"} = {}

VARIABLES
  users,     \* the row of each Google account
  minted,    \* ids and jtis given so far
  cookie,    \* mb_session of each browser
  admin,     \* the browsers with an mb_admin cookie
  writings,  \* token and owner of what was written
  req,       \* what each request has read and is about to do
  work,      \* requests begun
  ended,     \* history: jtis replaced, cleared or deleted
  owners,    \* history: the accounts a writing has had
  missed     \* history: writings the deletion of their owner did not see

sessionVars == <<users, minted, cookie, admin, writings, ended, owners, missed>>
requestVars == <<req, work>>

NoUser == [id |-> 0, jti |-> 0]
NoCookie == NoUser
Unwritten == [token |-> "none", owner |-> 0]
Deleted == [token |-> "deleted", owner |-> 0]
Idle == [op |-> "idle"]

Row(s, id) == id # 0 /\ users[s].id = id
Owned(id) == {w \in Writings : id # 0 /\ writings[w].owner = id}

\* current_user: the accounts whose row has the id and the jti of b's cookie.
CurrentUser(b) ==
  {s \in Subs : users[s].jti # 0 /\ users[s] = cookie[b]}

\* What ends when the jti of s is replaced, cleared or deleted.
Ending(s) == {users[s].jti} \ {0}

Begin(r, record) ==
  /\ req[r] = Idle /\ work < MaxWork
  /\ req' = [req EXCEPT ![r] = record]
  /\ work' = work + 1

Continue(r, record) == req' = [req EXCEPT ![r] = record] /\ UNCHANGED work
End(r) == Continue(r, Idle)

\* The response that r has ready: the session it sets, and whether it logs
\* the admin out.
Response(r, value, quit) ==
  [op |-> "answer", browser |-> req[r].browser, value |-> value, quit |-> quit]

SessionsInit ==
  /\ users = [s \in Subs |-> NoUser]
  /\ minted = 0
  /\ cookie = [b \in Browsers |-> NoCookie]
  /\ admin = {}
  /\ writings = [w \in Writings |-> Unwritten]
  /\ req = [r \in Requests |-> Idle]
  /\ work = 0
  /\ ended = {}
  /\ owners = [w \in Writings |-> {}]
  /\ missed = {}

\* A browser that sends an mb_token writes under it, any other under a fresh
\* one that no response hands out.
Tokens(b) == {b, "fresh"}

\* Somebody writes, under an account or not.
Write(b, w) ==
  /\ writings[w] = Unwritten
  /\ LET ids == {users[s].id : s \in CurrentUser(b)}
     IN \E token \in Tokens(b), id \in IF ids = {} THEN {0} ELSE ids :
          /\ writings' = [writings EXCEPT ![w] = [token |-> token, owner |-> id]]
          /\ owners' = [owners EXCEPT ![w] = ids]
  /\ UNCHANGED <<users, minted, cookie, admin, ended, missed, requestVars>>

-----------------------------------------------------------------------------
(* google_callback.                                                        *)

Login(r, stage, id) ==
  [op |-> "login", browser |-> req[r].browser, sub |-> req[r].sub, stage |-> stage, id |-> id]

LoginFind(r, b, s) ==
  /\ Begin(r, [op |-> "login", browser |-> b, sub |-> s, id |-> users[s].id,
               stage |-> IF users[s] = NoUser THEN "create" ELSE "refresh"])
  /\ UNCHANGED sessionVars

\* The unique constraint on google_sub lets one of two first logins in.
LoginCreate(r) ==
  /\ req[r].op = "login" /\ req[r].stage = "create"
  /\ IF users[req[r].sub] = NoUser
     THEN /\ minted' = minted + 1
          /\ users' = [users EXCEPT ![req[r].sub] = [id |-> minted + 1, jti |-> 0]]
          /\ Continue(r, Login(r, "rotate", minted + 1))
     ELSE Continue(r, Login(r, "again", 0)) /\ UNCHANGED <<users, minted>>
  /\ UNCHANGED <<cookie, admin, writings, ended, owners, missed>>

\* The loser looks for the winner's row; scalar_one raises when it is gone.
LoginAgain(r) ==
  /\ req[r].op = "login" /\ req[r].stage = "again"
  /\ IF users[req[r].sub] = NoUser THEN End(r)
     ELSE Continue(r, Login(r, "refresh", users[req[r].sub].id))
  /\ UNCHANGED sessionVars

\* Profile fields and last_login_at; an UPDATE of a deleted row raises.
LoginRefresh(r) ==
  /\ req[r].op = "login" /\ req[r].stage = "refresh"
  /\ IF Row(req[r].sub, req[r].id) THEN Continue(r, Login(r, "rotate", req[r].id)) ELSE End(r)
  /\ UNCHANGED sessionVars

Adoptable(b) == {w \in Writings : writings[w].token = b /\ writings[w].owner = 0}

\* Variant: a jti the account still has is kept.
LoginRotateOnce(r) ==
  /\ req[r].op = "login" /\ req[r].stage = "rotate"
  /\ LET s == req[r].sub IN
     /\ Row(s, req[r].id)
     /\ minted' = minted + 1
     /\ users' = [users EXCEPT ![s].jti = IF @ = 0 THEN minted + 1 ELSE @]
     /\ Continue(r, Response(r, users'[s], FALSE))
  /\ UNCHANGED <<cookie, admin, ended, missed, writings, owners>>

\* A fresh jti and the anonymous writings of the browser, in one commit.
LoginRotate(r) ==
  /\ req[r].op = "login" /\ req[r].stage = "rotate"
  /\ LET s == req[r].sub
         adopted == Adoptable(req[r].browser)
     IN IF Row(s, req[r].id)
        THEN /\ minted' = minted + 1
             /\ users' = [users EXCEPT ![s].jti = minted + 1]
             /\ ended' = ended \cup Ending(s)
             /\ writings' = [w \in Writings |->
                  IF w \in adopted THEN [writings[w] EXCEPT !.owner = req[r].id] ELSE writings[w]]
             /\ owners' = [w \in Writings |->
                  IF w \in adopted THEN owners[w] \cup {req[r].id} ELSE owners[w]]
             /\ Continue(r, Response(r, [id |-> req[r].id, jti |-> minted + 1], FALSE))
        ELSE End(r) /\ UNCHANGED <<minted, users, ended, writings, owners>>
  /\ UNCHANGED <<cookie, admin, missed>>

-----------------------------------------------------------------------------
(* logout and me_delete_submit.                                            *)

\* The signature and the age of the cookie are checked, its jti is not.
LogoutBegin(r, b) ==
  /\ LET rows == {s \in Subs : Row(s, cookie[b].id)} IN
     \/ /\ rows = {}
        /\ Begin(r, [op |-> "answer", browser |-> b, value |-> NoCookie, quit |-> TRUE])
     \/ \E s \in rows :
          Begin(r, [op |-> "logout", browser |-> b, sub |-> s, id |-> users[s].id,
                    was |-> users[s].jti])
  /\ UNCHANGED sessionVars

\* NULL is written unless the row was loaded with it.
LogoutCommit(r) ==
  /\ req[r].op = "logout"
  /\ LET s == req[r].sub IN
     IF req[r].was # 0 /\ ~Row(s, req[r].id)
     THEN End(r) /\ UNCHANGED <<users, ended>>
     ELSE /\ Continue(r, Response(r, NoCookie, TRUE))
          /\ IF req[r].was = 0
             THEN UNCHANGED <<users, ended>>
             ELSE /\ users' = [users EXCEPT ![s].jti = 0]
                  /\ ended' = ended \cup Ending(s)
  /\ UNCHANGED <<minted, cookie, admin, writings, owners, missed>>

\* The account is loaded, its writings are found and rewritten.
EraseBegin(r, b) ==
  /\ \E s \in CurrentUser(b) :
       Begin(r, [op |-> "erase", browser |-> b, sub |-> s, id |-> users[s].id,
                 mine |-> Owned(users[s].id)])
  /\ UNCHANGED sessionVars

\* Variant: the author token stays.
EraseCommitKeepsToken(r) ==
  /\ req[r].op = "erase"
  /\ LET s == req[r].sub IN
     /\ writings' = [w \in Writings |->
          IF w \in Owned(req[r].id) THEN [writings[w] EXCEPT !.owner = 0] ELSE writings[w]]
     /\ users' = [users EXCEPT ![s] = IF Row(s, req[r].id) THEN NoUser ELSE @]
  /\ Continue(r, Response(r, NoCookie, FALSE))
  /\ UNCHANGED <<ended, missed, minted, cookie, admin, owners>>

\* What the account came to own in between loses its owner by the foreign
\* key alone and keeps its token.
EraseCommit(r) ==
  /\ req[r].op = "erase"
  /\ LET s == req[r].sub
         theirs == Owned(req[r].id)
     IN /\ writings' = [w \in Writings |->
             IF w \notin theirs THEN writings[w]
             ELSE IF w \in req[r].mine THEN Deleted ELSE [writings[w] EXCEPT !.owner = 0]]
        /\ missed' = missed \cup (theirs \ req[r].mine)
        /\ IF Row(s, req[r].id)
           THEN /\ users' = [users EXCEPT ![s] = NoUser]
                /\ ended' = ended \cup Ending(s)
           ELSE UNCHANGED <<users, ended>>
  /\ Continue(r, Response(r, NoCookie, FALSE))
  /\ UNCHANGED <<minted, cookie, admin, owners>>

-----------------------------------------------------------------------------
(* Admin sessions, and what a browser does with a response.                *)

\* The throttle before it is in RateLimit.
AdminLogin(b) == admin' = admin \cup {b}
AdminLogout(b) == b \in admin /\ admin' = admin \ {b}

\* set_session, clear_session and, after a logout, clear_admin_session.
Answer(r) ==
  /\ req[r].op = "answer"
  /\ cookie' = [cookie EXCEPT ![req[r].browser] = req[r].value]
  /\ admin' = IF req[r].quit THEN admin \ {req[r].browser} ELSE admin
  /\ End(r)
  /\ UNCHANGED <<users, minted, writings, ended, owners, missed>>

\* A request or its response is lost; what it committed stays.
Fail(r) == req[r] # Idle /\ End(r)
=============================================================================
