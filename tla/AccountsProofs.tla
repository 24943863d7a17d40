--------------------------- MODULE AccountsProofs ---------------------------
(***************************************************************************)
(* Ended sessions stay ended, writings keep their owner and the inbox      *)
(* settles, for any number of browsers, accounts and overlapping requests. *)
(* Each group of variables is changed by few actions: the lemmas say       *)
(* which, then what those do to the parts of the invariant.                *)
(***************************************************************************)
EXTENDS Accounts, FiniteSetTheorems, TLAPS

userVars == <<users, minted, ended>>
cookieVars == <<cookie, admin>>
writingVars == <<writings, owners, missed>>

\* The actions of the requests, one disjunct each.
Steps(r) ==
  \/ LoginCreate(r) \/ LoginAgain(r) \/ LoginRefresh(r) \/ LoginRotate(r)
  \/ LogoutCommit(r) \/ Answer(r) \/ Erase(r)
  \/ Fail(r) /\ UNCHANGED <<sessionVars, inboxVars, keyVars>>
  \/ LookCommit(r) \/ ClearCommit(r)
  \/ MintCommit(r) \/ MintAnswer(r) \/ RevokeCommit(r) \/ CallEnds(r)
Begins(r) ==
  \/ \E b \in Browsers :
       \/ \E s \in Subs : LoginFind(r, b, s)
       \/ LogoutBegin(r, b) \/ EraseBegin(r, b) \/ LookBegin(r, b) \/ ClearBegin(r, b)
       \/ \E k \in Keys : MintBegin(r, b, k) \/ RevokeBegin(r, b, k)
  \/ \E k \in Keys : Authorize(r, k)
AtOnce ==
  \/ \E b \in Browsers, w \in Writings : Write(b, w)
  \/ \E b \in Browsers :
       (AdminLogin(b) \/ AdminLogout(b))
         /\ UNCHANGED <<users, minted, cookie, writings, ended, owners, missed, requestVars>>
  \/ \E n \in NoticeIds : Withdraw(n) \/ \E s \in Subs : Arrive(s, n)
  \/ \E b \in Browsers : ShowKeys(b)
  \/ \E k \in Keys : Expire(k)

LEMMA Actions == [Next]_vars => (\E r \in Requests : Steps(r) \/ Begins(r)) \/ AtOnce \/ UNCHANGED vars
BY DEF Next, AccountStep, BrowserStep, AdminStep, InboxStep, KeyStep, Steps, Begins, AtOnce

-----------------------------------------------------------------------------
(* Which actions change what.                                              *)

LEMMA UserFrame ==
  [Next]_vars => \/ UNCHANGED userVars
                 \/ \E r \in Requests : LoginCreate(r) \/ LoginRotate(r) \/ LogoutCommit(r) \/ Erase(r)
<1> USE DEF vars, userVars, sessionVars
<1>1. ASSUME NEW r \in Requests, Steps(r)
      PROVE  UNCHANGED userVars \/ LoginCreate(r) \/ LoginRotate(r) \/ LogoutCommit(r) \/ Erase(r)
  BY <1>1 DEF Steps, LoginAgain, LoginRefresh, Answer, LookCommit, ClearCommit, MintCommit,
     MintAnswer, RevokeCommit, CallEnds
<1>2. ASSUME NEW r \in Requests, Begins(r) PROVE UNCHANGED userVars
  BY <1>2 DEF Begins, LoginFind, LogoutBegin, EraseBegin, LookBegin, ClearBegin, MintBegin,
     RevokeBegin, Authorize
<1>3. CASE AtOnce
  BY <1>3 DEF AtOnce, Write, Withdraw, Arrive, ShowKeys, Expire
<1> QED BY <1>1, <1>2, <1>3, Actions

LEMMA CookieFrame ==
  [Next]_vars => UNCHANGED cookie \/ \E r \in Requests : Answer(r)
<1> USE DEF vars, sessionVars
<1>1. ASSUME NEW r \in Requests, Steps(r) PROVE UNCHANGED cookie \/ Answer(r)
  BY <1>1 DEF Steps, LoginCreate, LoginAgain, LoginRefresh, LoginRotate, LogoutCommit,
     Erase, EraseCommit, LookCommit, ClearCommit, MintCommit, MintAnswer, RevokeCommit, CallEnds
<1>2. ASSUME NEW r \in Requests, Begins(r) PROVE UNCHANGED cookie
  BY <1>2 DEF Begins, LoginFind, LogoutBegin, EraseBegin, LookBegin, ClearBegin, MintBegin,
     RevokeBegin, Authorize
<1>3. CASE AtOnce
  BY <1>3 DEF AtOnce, Write, Withdraw, Arrive, ShowKeys, Expire
<1> QED BY <1>1, <1>2, <1>3, Actions

LEMMA WritingFrame ==
  [Next]_vars => \/ UNCHANGED writingVars
                 \/ \E r \in Requests : LoginRotate(r) \/ EraseCommit(r)
                 \/ \E b \in Browsers, w \in Writings : Write(b, w)
<1> USE DEF vars, writingVars, sessionVars
<1>1. ASSUME NEW r \in Requests, Steps(r)
      PROVE  UNCHANGED writingVars \/ LoginRotate(r) \/ EraseCommit(r)
  BY <1>1 DEF Steps, LoginCreate, LoginAgain, LoginRefresh, LogoutCommit, Answer, Erase,
     LookCommit, ClearCommit, MintCommit, MintAnswer, RevokeCommit, CallEnds
<1>2. ASSUME NEW r \in Requests, Begins(r) PROVE UNCHANGED writingVars
  BY <1>2 DEF Begins, LoginFind, LogoutBegin, EraseBegin, LookBegin, ClearBegin, MintBegin,
     RevokeBegin, Authorize
<1>3. CASE AtOnce
  BY <1>3 DEF AtOnce, Withdraw, Arrive, ShowKeys, Expire
<1> QED BY <1>1, <1>2, <1>3, Actions

LEMMA InboxFrame ==
  [Next]_vars => \/ UNCHANGED inboxVars
                 \/ \E r \in Requests : Erase(r) \/ LookCommit(r) \/ ClearCommit(r)
                 \/ \E n \in NoticeIds : Withdraw(n) \/ \E s \in Subs : Arrive(s, n)
<1> SUFFICES ASSUME [Next]_vars
             PROVE  \/ UNCHANGED inboxVars
                    \/ \E r \in Requests : Erase(r) \/ LookCommit(r) \/ ClearCommit(r)
                    \/ \E n \in NoticeIds : Withdraw(n) \/ \E s \in Subs : Arrive(s, n)
  OBVIOUS
<1>1. CASE UNCHANGED vars
  BY <1>1 DEF vars
<1>2. ASSUME NEW r \in Requests, NEW b \in Browsers, LookBegin(r, b) \/ ClearBegin(r, b)
      PROVE  UNCHANGED inboxVars
  BY <1>2 DEF LookBegin, ClearBegin
<1> QED BY <1>1, <1>2 DEF Next, InboxStep

LEMMA KeyFrame ==
  [Next]_vars => \/ UNCHANGED keys
                 \/ \E r \in Requests : MintCommit(r) \/ RevokeCommit(r) \/ CallEnds(r)
                 \/ \E k \in Keys : Expire(k)
<1> SUFFICES ASSUME [Next]_vars
             PROVE  \/ UNCHANGED keys
                    \/ \E r \in Requests : MintCommit(r) \/ RevokeCommit(r) \/ CallEnds(r)
                    \/ \E k \in Keys : Expire(k)
  OBVIOUS
<1>1. CASE UNCHANGED vars
  BY <1>1 DEF vars, keyVars
<1>2. CASE KeyStep
  BY <1>2 DEF KeyStep, MintAnswer, Authorize, MintBegin, RevokeBegin, ShowKeys, keyVars
<1> QED BY <1>1, <1>2 DEF Next, keyVars

-----------------------------------------------------------------------------
(* Requests and their types.                                               *)

LEMMA Kinds ==
  ASSUME NEW q, RequestOK(q)
  PROVE  /\ q.op = "login" => /\ q.browser \in Browsers /\ q.sub \in Subs
                              /\ q.stage \in Stages /\ q.id \in 0..minted
         /\ q.op = "logout" => /\ q.browser \in Browsers /\ q.sub \in Subs
                               /\ q.id \in 1..minted /\ q.was \in 0..minted
         /\ q.op = "erase" => /\ q.browser \in Browsers /\ q.sub \in Subs
                              /\ q.id \in 1..minted /\ q.mine \subseteq Writings
         /\ q.op = "answer" => /\ q.browser \in Browsers /\ q.quit \in BOOLEAN
                               /\ q.value \in [id : 0..minted, jti : 0..minted]
         /\ q.op = "look" => /\ q.sub \in Subs /\ q.id \in 1..minted
                             /\ q.all \subseteq NoticeIds /\ q.unread \subseteq NoticeIds
         /\ q.op = "clear" => q.id \in 1..minted
         /\ q.op \in {"mint", "minted"} => q.browser \in Browsers /\ q.key \in Keys
         /\ q.op \in {"revoke", "call"} => q.key \in Keys
<1>1. CASE q = Idle
  <2>1. q.op = "idle"
    BY <1>1 DEF Idle
  <2> QED BY <2>1
<1>2. CASE q \in [op : {"login"}, browser : Browsers, sub : Subs, stage : Stages, id : 0..minted]
  BY <1>2
<1>3. CASE q \in [op : {"logout"}, browser : Browsers, sub : Subs, id : 1..minted, was : 0..minted]
  BY <1>3
<1>4. CASE q \in [op : {"erase"}, browser : Browsers, sub : Subs, id : 1..minted,
                  mine : SUBSET Writings]
  BY <1>4
<1>5. CASE q \in [op : {"answer"}, browser : Browsers, quit : BOOLEAN,
                  value : [id : 0..minted, jti : 0..minted]]
  BY <1>5
<1>6. CASE q \in [op : {"look"}, sub : Subs, id : 1..minted, all : SUBSET NoticeIds,
                  unread : SUBSET NoticeIds]
  BY <1>6
<1>7. CASE q \in [op : {"clear"}, id : 1..minted]
  BY <1>7
<1>8. CASE q \in [op : {"mint", "minted"}, browser : Browsers, key : Keys]
  BY <1>8
<1>9. CASE q \in [op : {"revoke", "call"}, key : Keys]
  BY <1>9
<1> QED BY <1>1, <1>2, <1>3, <1>4, <1>5, <1>6, <1>7, <1>8, <1>9 DEF RequestOK

LEMMA BeginFacts ==
  ASSUME DOMAIN req = Requests, NEW r \in Requests, NEW record, Begin(r, record)
  PROVE  /\ DOMAIN req' = Requests /\ req[r] = Idle /\ req'[r] = record
         /\ \A q \in Requests \ {r} : req'[q] = req[q]
         /\ work < MaxWork /\ work' = work + 1
BY DEF Begin

LEMMA ContinueFacts ==
  ASSUME DOMAIN req = Requests, NEW r \in Requests, NEW record, Continue(r, record)
  PROVE  /\ DOMAIN req' = Requests /\ req'[r] = record
         /\ \A q \in Requests \ {r} : req'[q] = req[q]
         /\ work' = work
BY DEF Continue

LEMMA EndFacts ==
  ASSUME DOMAIN req = Requests, NEW r \in Requests, End(r)
  PROVE  /\ DOMAIN req' = Requests /\ req'[r] = Idle
         /\ \A q \in Requests \ {r} : req'[q] = req[q]
         /\ work' = work
BY ContinueFacts DEF End

\* A login, a logout or a deletion concerns one account.
LEMMA RowFacts ==
  ASSUME IInv, NEW s \in Subs
  PROVE  /\ users[s] \in [id : 0..minted, jti : 0..minted]
         /\ users[s].id = 0 => users[s] = NoUser
         /\ users[s].jti # 0 => users[s].id \in 1..minted
         /\ minted \in Nat
<1>1. users[s] \in [id : 0..minted, jti : 0..minted] /\ minted \in Nat
  BY DEF IInv, TypeOK
<1>2. users[s].id = 0 => users[s].jti = 0
  BY DEF IInv, MintedApart
<1>3. users[s].id = 0 => users[s] = NoUser
  BY <1>1, <1>2 DEF NoUser
<1> QED BY <1>1, <1>2, <1>3

LEMMA CurrentFacts ==
  ASSUME IInv, NEW b, NEW s \in CurrentUser(b)
  PROVE  /\ s \in Subs /\ users[s].id \in 1..minted
         /\ \A t \in CurrentUser(b) : t = s
<1>1. s \in Subs /\ users[s].jti # 0 /\ users[s] = cookie[b]
  BY DEF CurrentUser
<1>2. ASSUME NEW t \in CurrentUser(b) PROVE t = s
  <2>1. t \in Subs /\ users[t].jti = users[s].jti
    BY <1>1 DEF CurrentUser
  <2> QED BY <1>1, <2>1 DEF IInv, MintedApart
<1> QED BY <1>1, <1>2, RowFacts

-----------------------------------------------------------------------------
(* Rows, ids and jtis.                                                     *)

UsersOK ==
  /\ minted \in Nat
  /\ users \in [Subs -> [id : 0..minted, jti : 0..minted]]
  /\ ended \subseteq 1..minted
  /\ MintedApart
  /\ \A s \in Subs : users[s].jti \notin ended

\* The row of s becomes e, with at most one new number.
RowBecomes(s, e) ==
  /\ minted' \in {minted, minted + 1}
  /\ e \in [id : 0..minted', jti : 0..minted']
  /\ users' = [users EXCEPT ![s] = e]
  /\ ended' = ended \cup Ending(s)
  /\ e.id \in {0, users[s].id} \/ (minted' = minted + 1 /\ e.id = minted')
  /\ e.jti = 0 \/ (minted' = minted + 1 /\ e.jti = minted')
  /\ e.id = 0 => e.jti = 0

LEMMA RowChanges ==
  ASSUME IInv, NEW s \in Subs, NEW e, RowBecomes(s, e)
  PROVE  UsersOK' /\ minted <= minted'
<1>1. /\ minted \in Nat /\ ended \subseteq 1..minted
      /\ users \in [Subs -> [id : 0..minted, jti : 0..minted]]
  BY DEF IInv, TypeOK
<1>2. minted' = minted \/ minted' = minted + 1
  BY DEF RowBecomes
<1>3. \A t \in Subs \ {s} : users'[t] = users[t]
  BY <1>1 DEF RowBecomes
<1>4. users'[s] = e
  BY <1>1 DEF RowBecomes
<1>5. users' \in [Subs -> [id : 0..minted', jti : 0..minted']]
  <2>1. \A t \in Subs : users[t] \in [id : 0..minted', jti : 0..minted']
    BY <1>1, <1>2
  <2>2. users \in [Subs -> [id : 0..minted', jti : 0..minted']]
    BY <1>1, <2>1
  <2> QED BY <2>2 DEF RowBecomes
<1>6. Ending(s) \subseteq 1..minted
  BY <1>1 DEF Ending
<1>7. ended' = ended \cup Ending(s) /\ ended' \subseteq 1..minted
  BY <1>1, <1>6 DEF RowBecomes
<1>8. MintedApart'
  <2>1. \A t \in Subs : /\ users[t].id \in 0..minted /\ users[t].jti \in 0..minted
                        /\ t # s /\ users[s].id # 0 => users[s].id # users[t].id
                        /\ users[t].id = 0 => users[t].jti = 0
    BY <1>1 DEF IInv, MintedApart
  <2>2. e.id \in {0, users[s].id} \/ e.id = minted + 1
    BY <1>2 DEF RowBecomes
  <2>3. e.jti \in {0, minted + 1}
    BY <1>2 DEF RowBecomes
  <2>4. \A t \in Subs \ {s} : /\ e.id # 0 => e.id # users[t].id
                              /\ e.jti # 0 => e.jti # users[t].jti
    BY <1>1, <2>1, <2>2, <2>3
  <2>5. \A t \in Subs : users'[t].id = 0 => users'[t].jti = 0
    BY <1>3, <1>4, <2>1 DEF RowBecomes
  <2>6. \A t, u \in Subs : t # u /\ users'[t].id # 0 => users'[t].id # users'[u].id
    BY <1>3, <1>4, <2>4 DEF IInv, MintedApart
  <2>7. \A t, u \in Subs : t # u /\ users'[t].jti # 0 => users'[t].jti # users'[u].jti
    BY <1>3, <1>4, <2>4 DEF IInv, MintedApart
  <2> QED BY <2>5, <2>6, <2>7 DEF MintedApart
<1>9. \A t \in Subs : users'[t].jti \notin ended'
  <2>1. e.jti \notin ended'
    BY <1>1, <1>2, <1>7 DEF RowBecomes
  <2>2. ASSUME NEW t \in Subs \ {s} PROVE users[t].jti \notin ended'
    <3>1. users[t].jti \notin ended
      BY DEF IInv, OneSession
    <3>2. users[t].jti \notin Ending(s)
      BY DEF IInv, MintedApart, Ending
    <3> QED BY <1>7, <3>1, <3>2
  <2> QED BY <1>3, <1>4, <2>1, <2>2
<1>10. minted' \in Nat /\ minted <= minted' /\ ended' \subseteq 1..minted'
  BY <1>1, <1>2, <1>7
<1> QED BY <1>5, <1>8, <1>9, <1>10 DEF UsersOK

\* What the four actions on rows do to one of them.
LEMMA RowSteps ==
  IInv /\ [Next]_vars => UNCHANGED userVars \/ \E s \in Subs : \E e : RowBecomes(s, e)
<1> SUFFICES ASSUME IInv, [Next]_vars
             PROVE  UNCHANGED userVars \/ \E s \in Subs : \E e : RowBecomes(s, e)
  OBVIOUS
<1>1. /\ minted \in Nat /\ ended \subseteq 1..minted
      /\ users \in [Subs -> [id : 0..minted, jti : 0..minted]]
      /\ \A r \in Requests : RequestOK(req[r])
  BY DEF IInv, TypeOK
<1>2. ASSUME NEW r \in Requests, LoginCreate(r)
      PROVE  UNCHANGED userVars \/ \E s \in Subs : \E e : RowBecomes(s, e)
  <2>1. PICK s \in Subs : s = req[r].sub
    BY <1>1, <1>2, Kinds DEF LoginCreate
  <2>2. CASE users[s] # NoUser
    BY <1>2, <2>1, <2>2 DEF LoginCreate, userVars
  <2>3. CASE users[s] = NoUser
    <3>1. PICK e : e = [id |-> minted + 1, jti |-> 0]
      OBVIOUS
    <3>2. minted' = minted + 1 /\ users' = [users EXCEPT ![s] = e] /\ ended' = ended
      BY <1>2, <2>1, <2>3, <3>1 DEF LoginCreate
    <3>3. Ending(s) = {}
      BY <2>3 DEF Ending, NoUser
    <3>4. RowBecomes(s, e)
      BY <1>1, <3>1, <3>2, <3>3 DEF RowBecomes
    <3> QED BY <3>4
  <2> QED BY <2>2, <2>3
<1>3. ASSUME NEW r \in Requests, LoginRotate(r)
      PROVE  UNCHANGED userVars \/ \E s \in Subs : \E e : RowBecomes(s, e)
  <2>1. PICK s \in Subs : s = req[r].sub
    BY <1>1, <1>3, Kinds DEF LoginRotate
  <2>2. CASE ~Row(s, req[r].id)
    BY <1>3, <2>1, <2>2 DEF LoginRotate, userVars
  <2>3. CASE Row(s, req[r].id)
    <3>1. minted' = minted + 1 /\ ended' = ended \cup Ending(s)
          /\ users' = [users EXCEPT ![s].jti = minted + 1]
      BY <1>3, <2>1, <2>3 DEF LoginRotate
    <3>2. PICK e : e = [id |-> users[s].id, jti |-> minted + 1]
      OBVIOUS
    <3>3. users' = [users EXCEPT ![s] = e]
      <4>1. [users[s] EXCEPT !.jti = minted + 1] = e
        BY <1>1, <3>2
      <4> QED BY <3>1, <4>1
    <3>4. users[s].id \in 0..minted /\ users[s].id # 0
      BY <1>1, <2>3 DEF Row
    <3>5. minted' = minted + 1 /\ ended' = ended \cup Ending(s)
      BY <3>1
    <3>6. /\ e \in [id : 0..minted', jti : 0..minted']
          /\ e.id = users[s].id /\ e.id # 0 /\ e.jti = minted'
      BY <1>1, <3>2, <3>4, <3>5
    <3>7. RowBecomes(s, e)
      BY <3>3, <3>5, <3>6 DEF RowBecomes
    <3> QED BY <3>7
  <2> QED BY <2>2, <2>3
<1>4. ASSUME NEW r \in Requests, LogoutCommit(r)
      PROVE  UNCHANGED userVars \/ \E s \in Subs : \E e : RowBecomes(s, e)
  <2>1. PICK s \in Subs : s = req[r].sub
    BY <1>1, <1>4, Kinds DEF LogoutCommit
  <2>2. minted' = minted
    BY <1>4 DEF LogoutCommit
  <2>3. CASE UNCHANGED <<users, ended>>
    BY <2>2, <2>3 DEF userVars
  <2>4. CASE users' = [users EXCEPT ![s].jti = 0] /\ ended' = ended \cup Ending(s)
    <3>1. PICK e : e = [id |-> users[s].id, jti |-> 0]
      OBVIOUS
    <3>2. users' = [users EXCEPT ![s] = e]
      <4>1. [users[s] EXCEPT !.jti = 0] = e
        BY <1>1, <3>1
      <4> QED BY <2>4, <4>1
    <3>3. ended' = ended \cup Ending(s)
      BY <2>4
    <3>4. /\ e \in [id : 0..minted', jti : 0..minted']
          /\ e.id = users[s].id /\ e.jti = 0
      BY <1>1, <2>2, <3>1
    <3>5. RowBecomes(s, e)
      BY <2>2, <3>2, <3>3, <3>4 DEF RowBecomes
    <3> QED BY <3>5
  <2> QED BY <1>4, <2>1, <2>3, <2>4 DEF LogoutCommit
<1>5. ASSUME NEW r \in Requests, Erase(r)
      PROVE  UNCHANGED userVars \/ \E s \in Subs : \E e : RowBecomes(s, e)
  <2>1. PICK s \in Subs : s = req[r].sub
    BY <1>1, <1>5, Kinds DEF Erase, EraseCommit
  <2>2. minted' = minted
    BY <1>5 DEF Erase, EraseCommit
  <2>3. CASE UNCHANGED <<users, ended>>
    BY <2>2, <2>3 DEF userVars
  <2>4. CASE users' = [users EXCEPT ![s] = NoUser] /\ ended' = ended \cup Ending(s)
    <3>1. RowBecomes(s, NoUser)
      BY <1>1, <2>2, <2>4 DEF RowBecomes, NoUser
    <3> QED BY <3>1
  <2> QED BY <1>5, <2>1, <2>3, <2>4 DEF Erase, EraseCommit
<1> QED BY <1>2, <1>3, <1>4, <1>5, UserFrame

LEMMA UserStep == IInv /\ [Next]_vars => UsersOK' /\ minted <= minted'
<1> SUFFICES ASSUME IInv, [Next]_vars PROVE UsersOK' /\ minted <= minted'
  OBVIOUS
<1>1. CASE UNCHANGED userVars
  <2>1. minted' = minted /\ users' = users /\ ended' = ended
    BY <1>1 DEF userVars
  <2>2. UsersOK
    BY DEF IInv, TypeOK, UsersOK, OneSession
  <2>3. minted \in Nat
    BY DEF IInv, TypeOK
  <2> QED BY <2>1, <2>2, <2>3 DEF UsersOK, MintedApart
<1> QED BY <1>1, RowSteps, RowChanges

-----------------------------------------------------------------------------
(* What becomes of the requests.                                           *)

RequestsOK ==
  /\ work \in 0..MaxWork
  /\ DOMAIN req = Requests /\ \A r \in Requests : RequestOK(req[r])

\* The request r becomes d, in one of the three ways of Sessions.
Becomes(r, d) == Begin(r, d) \/ Continue(r, d)

LEMMA BecomesFacts ==
  ASSUME DOMAIN req = Requests, NEW r \in Requests, NEW d, Becomes(r, d)
  PROVE  /\ DOMAIN req' = Requests /\ req'[r] = d
         /\ \A q \in Requests \ {r} : req'[q] = req[q]
         /\ work' = work \/ (work < MaxWork /\ work' = work + 1)
BY BeginFacts, ContinueFacts DEF Becomes

LEMMA KindsGrow ==
  ASSUME minted \in Nat, minted' \in Nat, minted <= minted', NEW q, RequestOK(q)
  PROVE  RequestOK(q)'
<1>1. \A n \in 0..minted : n \in 0..minted'
  OBVIOUS
<1>2. \A n \in 1..minted : n \in 1..minted'
  OBVIOUS
<1>3. \A v \in [id : 0..minted, jti : 0..minted] : v \in [id : 0..minted', jti : 0..minted']
  BY <1>1
<1> QED BY <1>1, <1>2, <1>3 DEF RequestOK

LEMMA BecomesOK ==
  ASSUME IInv, UsersOK', minted <= minted', NEW r \in Requests, NEW d, Becomes(r, d), RequestOK(d)'
  PROVE  RequestsOK'
<1>1. /\ DOMAIN req = Requests /\ \A q \in Requests : RequestOK(req[q])
      /\ work \in 0..MaxWork /\ minted \in Nat
  BY DEF IInv, TypeOK
<1>2. minted' \in Nat
  BY DEF UsersOK
<1>3. /\ DOMAIN req' = Requests /\ req'[r] = d
      /\ \A q \in Requests \ {r} : req'[q] = req[q]
      /\ work' = work \/ (work < MaxWork /\ work' = work + 1)
  BY <1>1, BecomesFacts
<1>4. work' \in 0..MaxWork
  BY <1>1, <1>3, WorkAssumption
<1>5. ASSUME NEW q \in Requests PROVE RequestOK(req[q])'
  <2>1. CASE q = r
    BY <1>3, <2>1 DEF RequestOK
  <2>2. CASE q # r
    <3>1. PICK e : e = req[q]
      OBVIOUS
    <3>2. RequestOK(e)
      BY <1>1, <3>1
    <3>3. RequestOK(e)'
      BY <1>1, <1>2, <3>2, KindsGrow
    <3>4. req'[q] = e
      BY <1>3, <2>2, <3>1
    <3> QED BY <3>3, <3>4 DEF RequestOK
  <2> QED BY <2>1, <2>2
<1> QED BY <1>3, <1>4, <1>5 DEF RequestsOK

\* The kind of the record d that a step makes of the request r, and which
\* action has made it where that matters.
Outcome(r, d) ==
  /\ Becomes(r, d)
  /\ RequestOK(d)'
  /\ \/ d.op \in {"idle", "login", "logout", "erase", "clear"}
     \/ d.op = "answer" /\ d.value = NoCookie
     \/ d.op = "answer" /\ d.value.jti = minted + 1 /\ LoginRotate(r) /\ minted' = minted + 1
     \/ d.op = "look" /\ \E b \in Browsers : LookBegin(r, b)
     \/ d.op = "mint" /\ \E b \in Browsers, k \in Keys : MintBegin(r, b, k)
     \/ d.op = "minted" /\ MintCommit(r) /\ d.key = req[r].key
     \/ d.op = "revoke" /\ keys[d.key].minted
     \/ d.op = "call" /\ keys[d.key].minted

LEMMA IdleOutcome == ASSUME NEW r \in Requests, End(r) PROVE Outcome(r, Idle)
BY DEF Outcome, Becomes, End, RequestOK, Idle

LEMMA StepOutcomes ==
  ASSUME IInv, UsersOK', minted <= minted', NEW r \in Requests, Steps(r)
  PROVE  \E d : Outcome(r, d)
<1>1. /\ RequestOK(req[r]) /\ minted \in Nat /\ minted' \in Nat
      /\ users \in [Subs -> [id : 0..minted, jti : 0..minted]]
      /\ users' \in [Subs -> [id : 0..minted', jti : 0..minted']]
  BY DEF IInv, TypeOK, UsersOK
<1>2. CASE End(r)
  BY <1>2, IdleOutcome
<1>3. ASSUME NEW stage \in Stages, NEW id \in 0..minted', req[r].op = "login",
             Continue(r, Login(r, stage, id))
      PROVE  \E d : Outcome(r, d)
  <2>1. PICK d : d = Login(r, stage, id)
    OBVIOUS
  <2>2. req[r].browser \in Browsers /\ req[r].sub \in Subs
    BY <1>1, <1>3, Kinds
  <2>3. d \in [op : {"login"}, browser : Browsers, sub : Subs, stage : Stages, id : 0..minted']
    BY <2>1, <2>2 DEF Login
  <2>4. RequestOK(d)' /\ d.op = "login"
    BY <2>3 DEF RequestOK
  <2>5. Continue(r, d)
    BY <1>3, <2>1
  <2> QED BY <2>4, <2>5 DEF Outcome, Becomes
<1>4. ASSUME NEW v \in [id : 0..minted', jti : 0..minted'], NEW quit \in BOOLEAN,
             req[r].op \in {"login", "logout", "erase"}, Continue(r, Response(r, v, quit)),
             \/ v = NoCookie
             \/ v.jti = minted + 1 /\ LoginRotate(r) /\ minted' = minted + 1
      PROVE  \E d : Outcome(r, d)
  <2>1. PICK d : d = Response(r, v, quit)
    OBVIOUS
  <2>2. req[r].browser \in Browsers
    BY <1>1, <1>4, Kinds
  <2>3. d \in [op : {"answer"}, browser : Browsers, quit : BOOLEAN,
               value : [id : 0..minted', jti : 0..minted']]
    BY <2>1, <2>2 DEF Response
  <2>4. RequestOK(d)' /\ d.op = "answer" /\ d.value = v
    BY <2>1, <2>3 DEF RequestOK, Response
  <2>5. Continue(r, d)
    BY <1>4, <2>1
  <2> QED BY <1>4, <2>4, <2>5 DEF Outcome, Becomes
<1>5. NoCookie \in [id : 0..minted', jti : 0..minted']
  BY <1>1 DEF NoCookie, NoUser
<1>6. CASE LoginCreate(r)
  <2>1. "rotate" \in Stages /\ "again" \in Stages
    BY DEF Stages
  <2>2. CASE Continue(r, Login(r, "rotate", minted + 1)) /\ minted' = minted + 1
    BY <1>1, <1>3, <1>6, <2>1, <2>2 DEF LoginCreate
  <2>3. CASE Continue(r, Login(r, "again", 0))
    BY <1>1, <1>3, <1>6, <2>1, <2>3 DEF LoginCreate
  <2> QED BY <1>6, <2>2, <2>3 DEF LoginCreate
<1>7. CASE LoginAgain(r)
  <2>1. "refresh" \in Stages
    BY DEF Stages
  <2>2. users[req[r].sub].id \in 0..minted /\ minted' = minted
    BY <1>1, <1>7, Kinds DEF LoginAgain, sessionVars
  <2> QED BY <1>2, <1>3, <1>7, <2>1, <2>2 DEF LoginAgain
<1>8. CASE LoginRefresh(r)
  <2>1. "rotate" \in Stages
    BY DEF Stages
  <2>2. req[r].id \in 0..minted /\ minted' = minted
    BY <1>1, <1>8, Kinds DEF LoginRefresh, sessionVars
  <2> QED BY <1>2, <1>3, <1>8, <2>1, <2>2 DEF LoginRefresh
<1>9. CASE LoginRotate(r)
  <2>1. CASE minted' = minted + 1 /\ Continue(r, Response(r, [id |-> req[r].id, jti |-> minted + 1], FALSE))
    <3>1. PICK v : v = [id |-> req[r].id, jti |-> minted + 1]
      OBVIOUS
    <3>2. req[r].op = "login" /\ req[r].id \in 0..minted
      BY <1>1, <1>9, Kinds DEF LoginRotate
    <3>3. v \in [id : 0..minted', jti : 0..minted'] /\ v.jti = minted + 1
      BY <1>1, <2>1, <3>1, <3>2
    <3>4. Continue(r, Response(r, v, FALSE))
      BY <2>1, <3>1
    <3> QED BY <1>4, <1>9, <2>1, <3>2, <3>3, <3>4
  <2> QED BY <1>2, <1>9, <2>1 DEF LoginRotate
<1>10. CASE LogoutCommit(r)
  BY <1>2, <1>4, <1>5, <1>10 DEF LogoutCommit
<1>11. CASE Erase(r)
  BY <1>4, <1>5, <1>11 DEF Erase, EraseCommit
<1>12. CASE MintCommit(r)
  <2>1. PICK d : d = [op |-> "minted", browser |-> req[r].browser, key |-> req[r].key]
    OBVIOUS
  <2>2. req[r].browser \in Browsers /\ req[r].key \in Keys
    BY <1>1, <1>12, Kinds DEF MintCommit
  <2>3. d \in [op : {"mint", "minted"}, browser : Browsers, key : Keys]
    BY <2>1, <2>2
  <2>4. RequestOK(d)'
    BY <2>3 DEF RequestOK
  <2> QED BY <1>12, <2>1, <2>4 DEF Outcome, Becomes, MintCommit
<1>13. CASE \/ Answer(r) \/ Fail(r) \/ LookCommit(r) \/ ClearCommit(r) \/ MintAnswer(r)
            \/ RevokeCommit(r) \/ CallEnds(r)
  BY <1>2, <1>13 DEF Answer, Fail, LookCommit, ClearCommit, MintAnswer, RevokeCommit, CallEnds
<1> QED BY <1>6, <1>7, <1>8, <1>9, <1>10, <1>11, <1>12, <1>13 DEF Steps

LEMMA BeginOutcomes ==
  ASSUME IInv, UsersOK', minted <= minted', NEW r \in Requests, Begins(r)
  PROVE  \E d : Outcome(r, d)
<1>1. /\ minted \in Nat /\ users \in [Subs -> [id : 0..minted, jti : 0..minted]]
  BY DEF IInv, TypeOK
<1>2. ASSUME NEW b \in Browsers, NEW s \in Subs, LoginFind(r, b, s) PROVE \E d : Outcome(r, d)
  <2>1. PICK d : d = [op |-> "login", browser |-> b, sub |-> s, id |-> users[s].id,
                      stage |-> IF users[s] = NoUser THEN "create" ELSE "refresh"]
    OBVIOUS
  <2>2. Begin(r, d) /\ minted' = minted
    BY <1>2, <2>1 DEF LoginFind, sessionVars
  <2>3. d \in [op : {"login"}, browser : Browsers, sub : Subs, stage : Stages, id : 0..minted']
    BY <1>1, <2>1, <2>2 DEF Stages
  <2>4. RequestOK(d)'
    BY <2>3 DEF RequestOK
  <2> QED BY <2>2, <2>3, <2>4 DEF Outcome, Becomes
<1>3. ASSUME NEW b \in Browsers, LogoutBegin(r, b) PROVE \E d : Outcome(r, d)
  <2>1. minted' = minted
    BY <1>3 DEF LogoutBegin, sessionVars
  <2>2. CASE Begin(r, [op |-> "answer", browser |-> b, value |-> NoCookie, quit |-> TRUE])
    <3>1. PICK d : d = [op |-> "answer", browser |-> b, value |-> NoCookie, quit |-> TRUE]
      OBVIOUS
    <3>2. d \in [op : {"answer"}, browser : Browsers, quit : BOOLEAN,
                 value : [id : 0..minted', jti : 0..minted']]
      BY <1>1, <2>1, <3>1 DEF NoCookie, NoUser
    <3>3. RequestOK(d)'
      BY <3>2 DEF RequestOK
    <3> QED BY <2>2, <3>1, <3>3 DEF Outcome, Becomes
  <2>3. ASSUME NEW s \in Subs, Row(s, cookie[b].id),
               Begin(r, [op |-> "logout", browser |-> b, sub |-> s, id |-> users[s].id,
                         was |-> users[s].jti])
        PROVE  \E d : Outcome(r, d)
    <3>1. PICK d : d = [op |-> "logout", browser |-> b, sub |-> s, id |-> users[s].id,
                        was |-> users[s].jti]
      OBVIOUS
    <3>2. users[s].id \in 1..minted' /\ users[s].jti \in 0..minted'
      BY <1>1, <2>1, <2>3 DEF Row
    <3>3. d \in [op : {"logout"}, browser : Browsers, sub : Subs, id : 1..minted', was : 0..minted']
      BY <3>1, <3>2
    <3>4. RequestOK(d)'
      BY <3>3 DEF RequestOK
    <3> QED BY <2>3, <3>1, <3>4 DEF Outcome, Becomes
  <2> QED BY <1>3, <2>2, <2>3 DEF LogoutBegin
<1>4. ASSUME NEW b \in Browsers, EraseBegin(r, b) PROVE \E d : Outcome(r, d)
  <2>1. PICK s \in CurrentUser(b) :
          Begin(r, [op |-> "erase", browser |-> b, sub |-> s, id |-> users[s].id,
                    mine |-> Owned(users[s].id)])
    BY <1>4 DEF EraseBegin
  <2>2. PICK d : d = [op |-> "erase", browser |-> b, sub |-> s, id |-> users[s].id,
                      mine |-> Owned(users[s].id)]
    OBVIOUS
  <2>3. minted' = minted /\ s \in Subs /\ users[s].id \in 1..minted
    BY <1>4, CurrentFacts DEF EraseBegin, sessionVars
  <2>4. Owned(users[s].id) \subseteq Writings
    BY DEF Owned
  <2>5. d \in [op : {"erase"}, browser : Browsers, sub : Subs, id : 1..minted',
               mine : SUBSET Writings]
    BY <2>2, <2>3, <2>4
  <2>6. RequestOK(d)'
    BY <2>5 DEF RequestOK
  <2> QED BY <2>1, <2>2, <2>6 DEF Outcome, Becomes
<1>5. ASSUME NEW b \in Browsers, LookBegin(r, b) PROVE \E d : Outcome(r, d)
  <2>1. PICK s \in CurrentUser(b) :
          Begin(r, [op |-> "look", sub |-> s, id |-> users[s].id, all |-> NoticesOf(users[s].id),
                    unread |-> Unread(Page(users[s].id))])
    BY <1>5 DEF LookBegin
  <2>2. PICK d : d = [op |-> "look", sub |-> s, id |-> users[s].id,
                      all |-> NoticesOf(users[s].id), unread |-> Unread(Page(users[s].id))]
    OBVIOUS
  <2>3. minted' = minted /\ s \in Subs /\ users[s].id \in 1..minted
    BY <1>5, CurrentFacts DEF LookBegin, sessionVars
  <2>4. NoticesOf(users[s].id) \subseteq NoticeIds /\ Unread(Page(users[s].id)) \subseteq NoticeIds
    BY DEF NoticesOf, Unread, Page
  <2>5. d \in [op : {"look"}, sub : Subs, id : 1..minted', all : SUBSET NoticeIds,
               unread : SUBSET NoticeIds]
    BY <2>2, <2>3, <2>4
  <2>6. RequestOK(d)'
    BY <2>5 DEF RequestOK
  <2> QED BY <1>5, <2>1, <2>2, <2>6 DEF Outcome, Becomes
<1>6. ASSUME NEW b \in Browsers, ClearBegin(r, b) PROVE \E d : Outcome(r, d)
  <2>1. PICK s \in CurrentUser(b) : Begin(r, [op |-> "clear", id |-> users[s].id])
    BY <1>6 DEF ClearBegin
  <2>2. PICK d : d = [op |-> "clear", id |-> users[s].id]
    OBVIOUS
  <2>3. minted' = minted /\ users[s].id \in 1..minted
    BY <1>6, CurrentFacts DEF ClearBegin, sessionVars
  <2>4. d \in [op : {"clear"}, id : 1..minted']
    BY <2>2, <2>3
  <2>5. RequestOK(d)'
    BY <2>4 DEF RequestOK
  <2> QED BY <2>1, <2>2, <2>5 DEF Outcome, Becomes
<1>7. ASSUME NEW b \in Browsers, NEW k \in Keys, MintBegin(r, b, k) PROVE \E d : Outcome(r, d)
  <2>1. PICK d : d = [op |-> "mint", browser |-> b, key |-> k]
    OBVIOUS
  <2>2. d \in [op : {"mint", "minted"}, browser : Browsers, key : Keys]
    BY <2>1
  <2>3. RequestOK(d)'
    BY <2>2 DEF RequestOK
  <2>4. Begin(r, d)
    BY <1>7, <2>1 DEF MintBegin
  <2> QED BY <1>7, <2>1, <2>3, <2>4 DEF Outcome, Becomes
<1>8. ASSUME NEW k \in Keys, NEW op \in {"revoke", "call"}, keys[k].minted,
             Begin(r, [op |-> op, key |-> k])
      PROVE  \E d : Outcome(r, d)
  <2>1. PICK d : d = [op |-> op, key |-> k]
    OBVIOUS
  <2>2. d \in [op : {"revoke", "call"}, key : Keys]
    BY <2>1
  <2>3. RequestOK(d)'
    BY <2>2 DEF RequestOK
  <2> QED BY <1>8, <2>1, <2>3 DEF Outcome, Becomes
<1>9. ASSUME NEW k \in Keys, Authorize(r, k) \/ \E b \in Browsers : RevokeBegin(r, b, k)
      PROVE  \E d : Outcome(r, d)
  BY <1>8, <1>9 DEF Authorize, RevokeBegin, Live
<1> QED BY <1>2, <1>3, <1>4, <1>5, <1>6, <1>7, <1>9 DEF Begins

LEMMA RequestFrame ==
  IInv /\ [Next]_vars => UNCHANGED requestVars \/ \E r \in Requests : \E d : Outcome(r, d)
<1> SUFFICES ASSUME IInv, [Next]_vars
             PROVE  UNCHANGED requestVars \/ \E r \in Requests : \E d : Outcome(r, d)
  OBVIOUS
<1>1. CASE AtOnce \/ UNCHANGED vars
  BY <1>1 DEF AtOnce, Write, Withdraw, Arrive, ShowKeys, Expire, vars, requestVars
<1> QED BY <1>1, Actions, StepOutcomes, BeginOutcomes, UserStep

LEMMA RequestStep == IInv /\ [Next]_vars => RequestsOK'
<1> SUFFICES ASSUME IInv, [Next]_vars PROVE RequestsOK'
  OBVIOUS
<1>1. UsersOK' /\ minted <= minted'
  BY UserStep
<1>2. CASE UNCHANGED requestVars
  <2>1. /\ req' = req /\ work' = work /\ minted \in Nat /\ minted' \in Nat
        /\ RequestsOK
    BY <1>1, <1>2 DEF requestVars, UsersOK, IInv, TypeOK, RequestsOK
  <2>2. ASSUME NEW r \in Requests PROVE RequestOK(req[r])'
    <3>1. PICK e : e = req[r]
      OBVIOUS
    <3>2. RequestOK(e)'
      BY <1>1, <2>1, <3>1, KindsGrow DEF RequestsOK
    <3> QED BY <2>1, <3>1, <3>2 DEF RequestOK
  <2> QED BY <2>1, <2>2 DEF RequestsOK
<1>3. ASSUME NEW r \in Requests, NEW d, Outcome(r, d) PROVE RequestsOK'
  BY <1>1, <1>3, BecomesOK DEF Outcome
<1> QED BY <1>2, <1>3, RequestFrame

-----------------------------------------------------------------------------
(* Cookies and sessions.                                                   *)

CookiesOK ==
  /\ cookie \in [Browsers -> [id : 0..minted, jti : 0..minted]]
  /\ admin \subseteq Browsers

LEMMA CookieStep == IInv /\ [Next]_vars => CookiesOK'
<1> SUFFICES ASSUME IInv, [Next]_vars PROVE CookiesOK'
  OBVIOUS
<1>1. /\ minted \in Nat /\ minted' \in Nat /\ minted <= minted'
      /\ \A r \in Requests : RequestOK(req[r])
      /\ CookiesOK
  BY UserStep DEF UsersOK, IInv, TypeOK, CookiesOK
<1>2. \A v \in [id : 0..minted, jti : 0..minted] : v \in [id : 0..minted', jti : 0..minted']
  <2>1. \A n \in 0..minted : n \in 0..minted'
    BY <1>1
  <2> QED BY <2>1
<1>3. cookie' \in [Browsers -> [id : 0..minted', jti : 0..minted']]
  <2>1. cookie \in [Browsers -> [id : 0..minted', jti : 0..minted']]
    BY <1>1, <1>2 DEF CookiesOK
  <2>2. ASSUME NEW r \in Requests, Answer(r)
        PROVE  cookie' \in [Browsers -> [id : 0..minted', jti : 0..minted']]
    <3>1. req[r].value \in [id : 0..minted', jti : 0..minted']
      BY <1>1, <1>2, <2>2, Kinds DEF Answer
    <3> QED BY <2>1, <2>2, <3>1 DEF Answer
  <2> QED BY <2>1, <2>2, CookieFrame
<1>4. admin' \subseteq Browsers
  <2> USE <1>1 DEF CookiesOK, sessionVars, vars
  <2>1. ASSUME NEW r \in Requests, Steps(r) PROVE admin' \subseteq Browsers
    BY <2>1 DEF Steps, LoginCreate, LoginAgain, LoginRefresh, LoginRotate, LogoutCommit, Answer,
       Erase, EraseCommit, LookCommit, ClearCommit, MintCommit, MintAnswer, RevokeCommit, CallEnds
  <2>2. ASSUME NEW r \in Requests, Begins(r) PROVE admin' \subseteq Browsers
    BY <2>2 DEF Begins, LoginFind, LogoutBegin, EraseBegin, LookBegin, ClearBegin, MintBegin,
       RevokeBegin, Authorize
  <2>3. CASE AtOnce
    BY <2>3 DEF AtOnce, Write, AdminLogin, AdminLogout, Withdraw, Arrive, ShowKeys, Expire
  <2> QED BY <2>1, <2>2, <2>3, Actions
<1> QED BY <1>3, <1>4 DEF CookiesOK

\* What a response carries is kept, dropped, or fresh.
LEMMA CarriedStep ==
  ASSUME IInv, [Next]_vars, NEW r \in Requests
  PROVE  \/ Carried(r)' \in {Carried(r), 0}
         \/ /\ LoginRotate(r) /\ Carried(r)' = minted + 1
            /\ \A q \in Requests \ {r} : Carried(q)' = Carried(q)
<1>1. DOMAIN req = Requests
  BY DEF IInv, TypeOK
<1>2. CASE UNCHANGED requestVars
  BY <1>2 DEF requestVars, Carried
<1>3. ASSUME NEW q \in Requests, NEW d, Outcome(q, d)
      PROVE  \/ Carried(r)' \in {Carried(r), 0}
             \/ /\ LoginRotate(r) /\ Carried(r)' = minted + 1
                /\ \A p \in Requests \ {r} : Carried(p)' = Carried(p)
  <2>1. req'[q] = d /\ \A p \in Requests \ {q} : req'[p] = req[p]
    BY <1>1, <1>3, BecomesFacts DEF Outcome
  <2>2. \A p \in Requests \ {q} : Carried(p)' = Carried(p)
    BY <2>1 DEF Carried
  <2>3. Carried(q)' = IF d.op = "answer" THEN d.value.jti ELSE 0
    BY <2>1 DEF Carried
  <2>4. d.op = "answer" => d.value.jti = 0 \/ (d.value.jti = minted + 1 /\ LoginRotate(q))
    BY <1>3 DEF Outcome, NoCookie, NoUser
  <2> QED BY <2>2, <2>3, <2>4
<1> QED BY <1>2, <1>3, RequestFrame

LEMMA SessionStep == IInv /\ [Next]_vars => OneSession'
<1> SUFFICES ASSUME IInv, [Next]_vars PROVE OneSession'
  OBVIOUS
<1>1. /\ minted \in Nat /\ DOMAIN req = Requests
      /\ cookie \in [Browsers -> [id : 0..minted, jti : 0..minted]]
      /\ \A r \in Requests : RequestOK(req[r])
  BY DEF IInv, TypeOK
<1>2. \A r \in Requests : Carried(r) \in 0..minted
  <2> SUFFICES ASSUME NEW r \in Requests PROVE Carried(r) \in 0..minted
    OBVIOUS
  <2>1. CASE req[r].op = "answer"
    <3>1. req[r].value \in [id : 0..minted, jti : 0..minted]
      BY <1>1, <2>1, Kinds
    <3> QED BY <2>1, <3>1 DEF Carried
  <2> QED BY <1>1, <2>1 DEF Carried
<1>3. /\ \A b, c \in Browsers : cookie[b].jti # 0 /\ cookie[b].jti = cookie[c].jti => b = c
      /\ \A r, q \in Requests : Carried(r) # 0 /\ Carried(r) = Carried(q) => r = q
      /\ \A b \in Browsers, r \in Requests : Carried(r) # 0 => Carried(r) # cookie[b].jti
  BY DEF IInv, OneSession
<1>4. \A b \in Browsers : cookie[b].jti \in 0..minted
  BY <1>1
<1>5. \A r, q \in Requests : Carried(r)' # 0 /\ Carried(r)' = Carried(q)' => r = q
  <2> SUFFICES ASSUME NEW r \in Requests, NEW q \in Requests, Carried(r)' # 0, Carried(r)' = Carried(q)'
               PROVE  r = q
    OBVIOUS
  <2>1. CASE Carried(r)' = Carried(r) /\ Carried(q)' = Carried(q)
    BY <1>3, <2>1
  <2>2. CASE Carried(r)' = minted + 1 /\ \A p \in Requests \ {r} : Carried(p)' = Carried(p)
    <3>1. CASE q # r
      <4>1. Carried(q)' = Carried(q) /\ Carried(q) \in 0..minted
        BY <1>2, <2>2, <3>1
      <4>2. Carried(q)' = minted + 1
        BY <2>2
      <4> QED BY <1>1, <4>1, <4>2
    <3> QED BY <3>1
  <2>3. CASE Carried(q)' = minted + 1 /\ \A p \in Requests \ {q} : Carried(p)' = Carried(p)
    <3>1. CASE q # r
      <4>1. Carried(r)' = Carried(r) /\ Carried(r) \in 0..minted
        BY <1>2, <2>3, <3>1
      <4> QED BY <1>1, <2>3, <4>1
    <3> QED BY <3>1
  <2> QED BY <2>1, <2>2, <2>3, CarriedStep
<1>6. CASE UNCHANGED cookie
  <2>1. \A b \in Browsers, r \in Requests : Carried(r)' # 0 => Carried(r)' # cookie[b].jti
    <3> SUFFICES ASSUME NEW b \in Browsers, NEW r \in Requests, Carried(r)' # 0
                 PROVE  Carried(r)' # cookie[b].jti
      OBVIOUS
    <3>1. CASE Carried(r)' = Carried(r)
      BY <1>3, <3>1
    <3>2. CASE Carried(r)' = minted + 1
      BY <1>1, <1>4, <3>2
    <3> QED BY <3>1, <3>2, CarriedStep
  <2> QED BY <1>3, <1>5, <1>6, <2>1, UserStep DEF OneSession, UsersOK
<1>7. ASSUME NEW r \in Requests, Answer(r) PROVE OneSession'
  <2> DEFINE b == req[r].browser
  <2>1. b \in Browsers /\ req[r].value.jti = Carried(r)
    BY <1>1, <1>7, Kinds DEF Answer, Carried
  <2>2. cookie' = [cookie EXCEPT ![b] = req[r].value]
    BY <1>7 DEF Answer
  <2>3. cookie'[b].jti = Carried(r) /\ \A c \in Browsers \ {b} : cookie'[c] = cookie[c]
    BY <1>1, <2>1, <2>2
  <2>4. req'[r] = Idle /\ \A q \in Requests \ {r} : req'[q] = req[q]
    BY <1>1, <1>7, EndFacts DEF Answer
  <2>5. Carried(r)' = 0 /\ \A q \in Requests \ {r} : Carried(q)' = Carried(q)
    <3>1. Idle.op # "answer"
      BY DEF Idle
    <3> QED BY <2>4, <3>1 DEF Carried
  <2> HIDE DEF b
  <2>6. \A c, d \in Browsers : cookie'[c].jti # 0 /\ cookie'[c].jti = cookie'[d].jti => c = d
    BY <1>3, <2>1, <2>3
  <2>7. \A c \in Browsers, q \in Requests : Carried(q)' # 0 => Carried(q)' # cookie'[c].jti
    BY <1>3, <2>1, <2>3, <2>5
  <2> QED BY <1>5, <2>6, <2>7, UserStep DEF OneSession, UsersOK
<1> QED BY <1>6, <1>7, CookieFrame

-----------------------------------------------------------------------------
(* Writings and their owners.                                              *)

WritingsOK ==
  /\ writings \in [Writings -> [token : Browsers \cup {"fresh", "none", "deleted"}, owner : 0..minted]]
  /\ owners \in [Writings -> SUBSET (1..minted)]
  /\ missed \subseteq Writings
  /\ OwnersKnown

\* What the invariant says of one writing.
Known(w) ==
  /\ writings[w] \in [token : Browsers \cup {"fresh", "none", "deleted"}, owner : 0..minted]
  /\ owners[w] \subseteq 1..minted
  /\ writings[w].token = "deleted" => writings[w].owner = 0
  /\ w \notin missed =>
       IF writings[w].owner # 0 THEN owners[w] = {writings[w].owner}
       ELSE \/ owners[w] = {}
            \/ writings[w].token = "deleted" /\ \E id \in owners[w] : owners[w] = {id}

LEMMA KnownStays ==
  ASSUME minted \in Nat, minted' \in Nat, minted <= minted', NEW w \in Writings, Known(w),
         writings'[w] = writings[w], owners'[w] = owners[w], missed \subseteq missed'
  PROVE  Known(w)'
BY DEF Known

LEMMA AllKnown ==
  ASSUME \A w \in Writings : Known(w)', DOMAIN writings' = Writings, DOMAIN owners' = Writings,
         missed' \subseteq Writings,
         writings' = [w \in Writings |-> writings'[w]], owners' = [w \in Writings |-> owners'[w]]
  PROVE  WritingsOK'
BY DEF Known, WritingsOK, OwnersKnown

LEMMA WritingStep == IInv /\ [Next]_vars => WritingsOK'
<1> SUFFICES ASSUME IInv, [Next]_vars PROVE WritingsOK'
  OBVIOUS
<1>1. /\ minted \in Nat /\ minted' \in Nat /\ minted <= minted'
      /\ \A r \in Requests : RequestOK(req[r])
      /\ writings \in [Writings -> [token : Browsers \cup {"fresh", "none", "deleted"}, owner : 0..minted]]
      /\ owners \in [Writings -> SUBSET (1..minted)]
      /\ missed \subseteq Writings
  BY UserStep DEF UsersOK, IInv, TypeOK
<1>2. \A w \in Writings : Known(w)
  BY <1>1 DEF IInv, OwnersKnown, Known
<1>3. CASE UNCHANGED writingVars
  <2>1. \A w \in Writings : Known(w)'
    BY <1>1, <1>2, <1>3, KnownStays DEF writingVars
  <2> QED BY <1>1, <1>3, <2>1, AllKnown DEF writingVars
<1>4. ASSUME NEW r \in Requests, LoginRotate(r) PROVE WritingsOK'
  <2>1. CASE UNCHANGED writingVars
    BY <1>3, <2>1
  <2>2. CASE Row(req[r].sub, req[r].id)
    <3> DEFINE adopted == Adoptable(req[r].browser)
    <3>1. /\ writings' = [w \in Writings |->
                IF w \in adopted THEN [writings[w] EXCEPT !.owner = req[r].id] ELSE writings[w]]
          /\ owners' = [w \in Writings |->
                IF w \in adopted THEN owners[w] \cup {req[r].id} ELSE owners[w]]
          /\ missed' = missed
      BY <1>4, <2>2 DEF LoginRotate
    <3>2. req[r].browser \in Browsers /\ req[r].id \in 0..minted
      BY <1>1, <1>4, Kinds DEF LoginRotate
    <3>3. req[r].id \in 1..minted'
      BY <1>1, <2>2, <3>2 DEF Row
    <3>4. ASSUME NEW w \in adopted PROVE Known(w)'
      <4>1. w \in Writings /\ writings[w].token = req[r].browser /\ writings[w].owner = 0
        BY DEF Adoptable
      <4>2. writings[w].token # "deleted" /\ owners[w] \subseteq 1..minted /\ (w \notin missed => owners[w] = {})
        BY <1>1, <1>2, <3>2, <4>1, BrowsersAssumption DEF Known
      <4>3. writings'[w] = [writings[w] EXCEPT !.owner = req[r].id] /\ owners'[w] = owners[w] \cup {req[r].id}
        BY <3>1, <4>1
      <4>4. /\ writings'[w] \in [token : Browsers \cup {"fresh", "none", "deleted"}, owner : 0..minted']
            /\ writings'[w].owner = req[r].id /\ writings'[w].token = writings[w].token
        BY <1>1, <3>3, <4>1, <4>3
      <4>5. owners'[w] \subseteq 1..minted' /\ (w \notin missed => owners'[w] = {req[r].id})
        BY <1>1, <3>3, <4>2, <4>3
      <4>6. /\ writings'[w].token # "deleted"
            /\ w \notin missed' => writings'[w].owner # 0 /\ owners'[w] = {writings'[w].owner}
        <5>1. writings'[w].token # "deleted" /\ writings'[w].owner = req[r].id
          BY <4>2, <4>4
        <5>2. req[r].id # 0 /\ (w \notin missed' => w \notin missed)
          BY <1>1, <3>1, <3>3
        <5> QED BY <4>5, <5>1, <5>2
      <4> QED BY <4>4, <4>5, <4>6 DEF Known
    <3>5. ASSUME NEW w \in Writings, w \notin adopted PROVE Known(w)'
      BY <1>1, <1>2, <3>1, <3>5, KnownStays
    <3> QED BY <1>1, <3>1, <3>4, <3>5, AllKnown
  <2> QED BY <1>4, <2>1, <2>2 DEF LoginRotate, writingVars
<1>5. ASSUME NEW r \in Requests, EraseCommit(r) PROVE WritingsOK'
  <2> DEFINE theirs == Owned(req[r].id)
  <2>1. /\ writings' = [w \in Writings |->
             IF w \notin theirs THEN writings[w]
             ELSE IF w \in req[r].mine THEN Deleted ELSE [writings[w] EXCEPT !.owner = 0]]
        /\ missed' = missed \cup (theirs \ req[r].mine)
        /\ owners' = owners
    BY <1>5 DEF EraseCommit
  <2>2. ASSUME NEW w \in Writings, w \notin theirs PROVE Known(w)'
    BY <1>1, <1>2, <2>1, <2>2, KnownStays
  <2>3. ASSUME NEW w \in Writings, w \in theirs, w \in req[r].mine PROVE Known(w)'
    <3>1. writings'[w] = Deleted
      BY <2>1, <2>3
    <3> QED BY <1>1, <1>2, <2>1, <3>1 DEF Known, Deleted
  <2>4. ASSUME NEW w \in Writings, w \in theirs, w \notin req[r].mine PROVE Known(w)'
    <3>1. writings'[w] = [writings[w] EXCEPT !.owner = 0] /\ w \in missed'
      BY <2>1, <2>4
    <3>2. /\ writings'[w] \in [token : Browsers \cup {"fresh", "none", "deleted"}, owner : 0..minted']
          /\ writings'[w].owner = 0
      BY <1>1, <3>1
    <3> QED BY <1>1, <1>2, <2>1, <3>1, <3>2 DEF Known
  <2>5. missed' \subseteq Writings
    BY <1>1, <2>1 DEF Owned
  <2> QED BY <1>1, <2>1, <2>2, <2>3, <2>4, <2>5, AllKnown
<1>6. ASSUME NEW b \in Browsers, NEW v \in Writings, Write(b, v) PROVE WritingsOK'
  <2> DEFINE ids == {users[s].id : s \in CurrentUser(b)}
  <2>1. PICK token \in Tokens(b), id \in IF ids = {} THEN {0} ELSE ids :
          /\ writings' = [writings EXCEPT ![v] = [token |-> token, owner |-> id]]
          /\ owners' = [owners EXCEPT ![v] = ids]
    BY <1>6 DEF Write
  <2>2. missed' = missed /\ minted' = minted
    BY <1>6 DEF Write
  <2>3. \A w \in Writings \ {v} : Known(w)'
    BY <1>1, <1>2, <2>1, <2>2, KnownStays
  <2>4. token \in Browsers \cup {"fresh"} /\ token # "deleted"
    BY <1>6, BrowsersAssumption DEF Tokens
  <2>5. (ids = {} /\ id = 0) \/ (ids = {id} /\ id \in 1..minted)
    <3>1. ASSUME NEW s \in CurrentUser(b) PROVE ids = {users[s].id} /\ users[s].id \in 1..minted
      BY CurrentFacts
    <3> QED BY <2>1, <3>1
  <2> HIDE DEF ids
  <2>6. writings'[v] = [token |-> token, owner |-> id] /\ owners'[v] = ids
    BY <1>1, <2>1
  <2>7. Known(v)'
    BY <1>1, <2>2, <2>4, <2>5, <2>6 DEF Known
  <2> QED BY <1>1, <2>1, <2>2, <2>3, <2>7, AllKnown
<1> QED BY <1>3, <1>4, <1>5, <1>6, WritingFrame

-----------------------------------------------------------------------------
(* The inbox.                                                              *)

InboxOK ==
  /\ notices \in [NoticeIds -> [user : 0..minted, read : BOOLEAN]]
  /\ arrived \subseteq NoticeIds
  /\ seen \in [Subs -> SUBSET NoticeIds]
  /\ \A n \in NoticeIds : notices[n] # NoNotice => n \in arrived
  /\ \A s \in Subs : seen[s] \subseteq arrived

\* A notice that has arrived keeps its account or goes, and stays read.
Fallen(n) ==
  \/ notices'[n] = notices[n]
  \/ notices'[n] = NoNotice
  \/ notices'[n].user = notices[n].user /\ notices'[n].read

LEMMA RemovedFacts ==
  ASSUME IInv, NEW ns, notices' = Removed(ns)
  PROVE  /\ \A n \in NoticeIds : notices'[n] = NoNotice \/ notices'[n] = notices[n]
         /\ \A n \in ns \cap NoticeIds : notices'[n] = NoNotice
         /\ notices' = [n \in NoticeIds |-> notices'[n]]
BY DEF Removed, IInv, TypeOK

\* LookCommit, unless it fails.
Marks(r, there) ==
  /\ there = {n \in req[r].unread : notices[n].user = req[r].id}
  /\ notices' = [n \in NoticeIds |->
       IF n \in there THEN [notices[n] EXCEPT !.read = TRUE] ELSE notices[n]]
  /\ seen' = [seen EXCEPT ![req[r].sub] = req[r].all]
  /\ arrived' = arrived

LEMMA LookCases ==
  ASSUME NEW r \in Requests, LookCommit(r)
  PROVE  UNCHANGED inboxVars \/ \E there : Marks(r, there)
BY DEF LookCommit, Marks, inboxVars

LEMMA EraseCases ==
  ASSUME NEW r \in Requests, Erase(r)
  PROVE  \/ UNCHANGED inboxVars
         \/ /\ Row(req[r].sub, req[r].id) /\ users' = [users EXCEPT ![req[r].sub] = NoUser]
            /\ DropNotices(req[r].sub)
BY DEF Erase, EraseCommit, inboxVars

LEMMA NoticeFacts ==
  ASSUME IInv
  PROVE  /\ minted \in Nat
         /\ notices \in [NoticeIds -> [user : 0..minted, read : BOOLEAN]]
         /\ arrived \subseteq NoticeIds
         /\ seen \in [Subs -> SUBSET NoticeIds]
         /\ \A n \in NoticeIds : notices[n].user # 0 => n \in arrived
         /\ \A n \in NoticeIds : notices[n] # NoNotice => n \in arrived
         /\ \A s \in Subs : seen[s] \subseteq arrived
<1>1. \A n \in NoticeIds : notices[n].user # 0 => notices[n] # NoNotice
  BY DEF NoNotice
<1> QED BY <1>1 DEF IInv, TypeOK, LooksMatch

LEMMA MarkFacts ==
  ASSUME IInv, NEW r \in Requests, req[r].op = "look", NEW there, Marks(r, there)
  PROVE  /\ req[r].sub \in Subs /\ req[r].all \subseteq arrived
         /\ \A n \in NoticeIds : /\ n \notin there => notices'[n] = notices[n]
                                 /\ notices'[n].user = notices[n].user
                                 /\ notices'[n] \in [user : 0..minted, read : BOOLEAN]
                                 /\ n \in there => notices'[n].read /\ notices[n].user # 0
         /\ notices' = [n \in NoticeIds |-> notices'[n]]
         /\ seen'[req[r].sub] = req[r].all
         /\ \A s \in Subs \ {req[r].sub} : seen'[s] = seen[s]
         /\ seen' \in [Subs -> SUBSET NoticeIds]
<1>1. RequestOK(req[r])
  BY DEF IInv, TypeOK
<1>2. /\ req[r].sub \in Subs /\ req[r].id \in 1..minted
      /\ req[r].all \subseteq NoticeIds /\ req[r].unread \subseteq NoticeIds
  BY <1>1, Kinds
<1>3. req[r].all \subseteq arrived
  BY DEF IInv, LooksMatch
<1>4. \A n \in NoticeIds : notices[n] \in [user : 0..minted, read : BOOLEAN]
  BY NoticeFacts
<1>5. \A n \in there : notices[n].user # 0
  BY <1>2, NoticeFacts DEF Marks
<1>6. \A n \in NoticeIds : notices'[n] = IF n \in there THEN [notices[n] EXCEPT !.read = TRUE] ELSE notices[n]
  BY DEF Marks
<1>7. \A n \in NoticeIds : /\ n \notin there => notices'[n] = notices[n]
                           /\ notices'[n].user = notices[n].user
                           /\ notices'[n] \in [user : 0..minted, read : BOOLEAN]
                           /\ n \in there => notices'[n].read /\ notices[n].user # 0
  BY <1>4, <1>5, <1>6
<1>8. notices' = [n \in NoticeIds |-> notices'[n]]
  BY DEF Marks
<1>9. seen'[req[r].sub] = req[r].all /\ \A s \in Subs \ {req[r].sub} : seen'[s] = seen[s]
  BY <1>2, NoticeFacts DEF Marks
<1>10. seen' \in [Subs -> SUBSET NoticeIds]
  BY <1>2, NoticeFacts DEF Marks
<1> QED BY <1>2, <1>3, <1>7, <1>8, <1>9, <1>10

LEMMA NoticeStep ==
  IInv /\ [Next]_vars => /\ InboxOK' /\ arrived \subseteq arrived'
                         /\ \A n \in arrived : Fallen(n)
<1> SUFFICES ASSUME IInv, [Next]_vars
             PROVE  InboxOK' /\ arrived \subseteq arrived' /\ \A n \in arrived : Fallen(n)
  OBVIOUS
<1>1. minted' \in Nat /\ minted <= minted'
  BY UserStep DEF UsersOK
<1>2. \A v \in [user : 0..minted, read : BOOLEAN] : v \in [user : 0..minted', read : BOOLEAN]
  <2>1. \A n \in 0..minted : n \in 0..minted'
    BY <1>1, NoticeFacts
  <2> QED BY <2>1
<1>3. NoNotice \in [user : 0..minted', read : BOOLEAN]
  BY <1>1 DEF NoNotice
<1>4. \A n \in NoticeIds : notices[n] \in [user : 0..minted', read : BOOLEAN]
  BY <1>2, NoticeFacts
<1>5. CASE UNCHANGED inboxVars
  <2>1. notices' = notices /\ arrived' = arrived /\ seen' = seen
    BY <1>5 DEF inboxVars
  <2> QED BY <1>4, <2>1, NoticeFacts DEF InboxOK, Fallen
<1>6. ASSUME NEW ns, notices' = Removed(ns), arrived' = arrived,
             seen' \in [Subs -> SUBSET NoticeIds],
             \A s \in Subs : seen'[s] \subseteq arrived
      PROVE  InboxOK' /\ arrived \subseteq arrived' /\ \A n \in arrived : Fallen(n)
  <2>1. \A n \in NoticeIds : notices'[n] = NoNotice \/ notices'[n] = notices[n]
    BY <1>6, RemovedFacts
  <2>2. notices' \in [NoticeIds -> [user : 0..minted', read : BOOLEAN]]
    BY <1>3, <1>4, <1>6, <2>1, RemovedFacts
  <2> QED BY <1>6, <2>1, <2>2, NoticeFacts DEF InboxOK, Fallen
<1>7. ASSUME NEW n \in NoticeIds, Withdraw(n)
      PROVE  InboxOK' /\ arrived \subseteq arrived' /\ \A m \in arrived : Fallen(m)
  BY <1>6, <1>7, NoticeFacts DEF Withdraw
<1>8. ASSUME NEW r \in Requests, ClearCommit(r)
      PROVE  InboxOK' /\ arrived \subseteq arrived' /\ \A m \in arrived : Fallen(m)
  BY <1>6, <1>8, NoticeFacts DEF ClearCommit
<1>9. ASSUME NEW n \in NoticeIds, NEW s \in Subs, Arrive(s, n)
      PROVE  InboxOK' /\ arrived \subseteq arrived' /\ \A m \in arrived : Fallen(m)
  <2>1. /\ n \notin arrived /\ arrived' = arrived \cup {n} /\ seen' = seen /\ minted' = minted
        /\ notices' = [notices EXCEPT ![n] = [user |-> users[s].id, read |-> FALSE]]
    BY <1>9 DEF Arrive, sessionVars
  <2>2. users[s].id \in 0..minted
    BY DEF IInv, TypeOK
  <2>3. \A m \in NoticeIds \ {n} : notices'[m] = notices[m]
    BY <2>1, NoticeFacts
  <2>4. notices' \in [NoticeIds -> [user : 0..minted', read : BOOLEAN]]
    BY <2>1, <2>2, NoticeFacts
  <2> QED BY <2>1, <2>3, <2>4, NoticeFacts DEF InboxOK, Fallen
<1>10. ASSUME NEW r \in Requests, LookCommit(r)
       PROVE  InboxOK' /\ arrived \subseteq arrived' /\ \A m \in arrived : Fallen(m)
  <2>1. ASSUME NEW there, Marks(r, there)
        PROVE  InboxOK' /\ arrived \subseteq arrived' /\ \A m \in arrived : Fallen(m)
    <3>1. req[r].op = "look" /\ arrived' = arrived
      BY <1>10, <2>1 DEF LookCommit, Marks
    <3>2. \A n \in NoticeIds : /\ notices'[n] \in [user : 0..minted', read : BOOLEAN]
                               /\ notices'[n] # NoNotice => n \in arrived
                               /\ Fallen(n)
      <4> SUFFICES ASSUME NEW n \in NoticeIds
                   PROVE  /\ notices'[n] \in [user : 0..minted', read : BOOLEAN]
                          /\ notices'[n] # NoNotice => n \in arrived
                          /\ Fallen(n)
        OBVIOUS
      <4>1. /\ n \notin there => notices'[n] = notices[n]
            /\ notices'[n].user = notices[n].user
            /\ notices'[n] \in [user : 0..minted, read : BOOLEAN]
            /\ n \in there => notices'[n].read /\ notices[n].user # 0
        BY <2>1, <3>1, MarkFacts
      <4>2. n \in there => n \in arrived
        BY <4>1, NoticeFacts
      <4>3. n \notin there /\ notices'[n] # NoNotice => n \in arrived
        BY <4>1, NoticeFacts
      <4> QED BY <1>2, <4>1, <4>2, <4>3 DEF Fallen
    <3>3. \A s \in Subs : seen'[s] \subseteq arrived
      BY <2>1, <3>1, MarkFacts, NoticeFacts
    <3>4. notices' \in [NoticeIds -> [user : 0..minted', read : BOOLEAN]]
      <4>1. notices' = [n \in NoticeIds |-> notices'[n]]
        BY <2>1, <3>1, MarkFacts
      <4> QED BY <3>2, <4>1
    <3>5. seen' \in [Subs -> SUBSET NoticeIds]
      BY <2>1, <3>1, MarkFacts
    <3> QED BY <3>1, <3>2, <3>3, <3>4, <3>5, NoticeFacts DEF InboxOK
  <2> QED BY <1>5, <1>10, <2>1, LookCases
<1>11. ASSUME NEW r \in Requests, Erase(r)
       PROVE  InboxOK' /\ arrived \subseteq arrived' /\ \A m \in arrived : Fallen(m)
  <2>1. CASE DropNotices(req[r].sub)
    <3>1. /\ notices' = Removed(NoticesOf(users[req[r].sub].id)) /\ arrived' = arrived
          /\ seen' = [seen EXCEPT ![req[r].sub] = {}]
      BY <2>1 DEF DropNotices
    <3>2. seen' \in [Subs -> SUBSET NoticeIds] /\ \A s \in Subs : seen'[s] \subseteq arrived
      BY <3>1, NoticeFacts
    <3> QED BY <1>6, <3>1, <3>2
  <2> QED BY <1>5, <1>11, <2>1, EraseCases
<1> QED BY <1>5, <1>7, <1>8, <1>9, <1>10, <1>11, InboxFrame

\* What a request that looks has read of n.
Looked(r, n) ==
  /\ notices[n].user \in {0, req[r].id}
  /\ notices[n].user # 0 /\ ~notices[n].read /\ n \notin req[r].unread
       => Cardinality({m \in req[r].all : m > n}) >= PageSize

LEMMA NewLook ==
  ASSUME IInv, NEW r \in Requests, NEW b \in Browsers, LookBegin(r, b)
  PROVE  req'[r].all \subseteq arrived /\ \A n \in req'[r].all : Looked(r, n)'
<1>1. PICK s \in CurrentUser(b) :
        Begin(r, [op |-> "look", sub |-> s, id |-> users[s].id, all |-> NoticesOf(users[s].id),
                  unread |-> Unread(Page(users[s].id))])
  BY DEF LookBegin
<1>2. PICK id : id = users[s].id
  OBVIOUS
<1>3. /\ req'[r].id = id /\ req'[r].all = NoticesOf(id) /\ req'[r].unread = Unread(Page(id))
      /\ notices' = notices
  <2>1. DOMAIN req = Requests
    BY DEF IInv, TypeOK
  <2> QED BY <1>1, <1>2, <2>1, BeginFacts DEF LookBegin, inboxVars
<1>4. id # 0
  BY <1>2, CurrentFacts, NoticeFacts
<1>5. NoticesOf(id) \subseteq arrived /\ \A n \in NoticesOf(id) : n \in NoticeIds /\ notices[n].user = id
  BY <1>4, NoticeFacts DEF NoticesOf
<1>6. ASSUME NEW n \in NoticesOf(id), ~notices[n].read, n \notin Unread(Page(id))
      PROVE  Cardinality({m \in NoticesOf(id) : m > n}) >= PageSize
  <2>1. n \notin Page(id)
    BY <1>6 DEF Unread
  <2>2. ~(Cardinality(Newer(n)) < PageSize)
    BY <2>1 DEF Page
  <2>3. Newer(n) = {m \in NoticesOf(id) : m > n}
    BY <1>5 DEF Newer
  <2>4. IsFiniteSet(Newer(n))
    <3>1. IsFiniteSet(NoticeIds)
      BY FS_Interval, InboxAssumption DEF NoticeIds
    <3>2. Newer(n) \subseteq NoticeIds
      BY DEF Newer, NoticesOf
    <3> QED BY <3>1, <3>2, FS_Subset
  <2>5. Cardinality(Newer(n)) \in Nat
    BY <2>4, FS_CardinalityType
  <2> QED BY <2>2, <2>3, <2>5, InboxAssumption
<1> QED BY <1>3, <1>5, <1>6 DEF Looked

LEMMA LookStep == IInv /\ [Next]_vars => LooksMatch'
<1> SUFFICES ASSUME IInv, [Next]_vars PROVE LooksMatch'
  OBVIOUS
<1>1. InboxOK' /\ arrived \subseteq arrived' /\ \A n \in arrived : Fallen(n)
  BY NoticeStep
<1>2. ASSUME NEW r \in Requests, req[r].op = "look"
      PROVE  /\ req[r].all \subseteq arrived /\ \A n \in req[r].all : Looked(r, n)
  BY <1>2 DEF IInv, LooksMatch, Looked
<1>3. ASSUME NEW r \in Requests, req'[r].op = "look", req'[r] = req[r]
      PROVE  req'[r].all \subseteq arrived' /\ \A n \in req'[r].all : Looked(r, n)'
  <2>1. ASSUME NEW n \in req[r].all PROVE Looked(r, n)'
    <3>1. Looked(r, n) /\ Fallen(n)
      BY <1>1, <1>2, <1>3
    <3> QED BY <1>3, <3>1 DEF Looked, Fallen, NoNotice
  <2> QED BY <1>1, <1>2, <1>3, <2>1
<1>4. ASSUME NEW r \in Requests, req'[r].op = "look"
      PROVE  req'[r].all \subseteq arrived' /\ \A n \in req'[r].all : Looked(r, n)'
  <2>1. CASE UNCHANGED requestVars
    BY <1>3, <1>4, <2>1 DEF requestVars
  <2>2. ASSUME NEW q \in Requests, NEW d, Outcome(q, d)
        PROVE  req'[r] = req[r] \/ \E b \in Browsers : LookBegin(r, b)
    <3>1. DOMAIN req = Requests
      BY DEF IInv, TypeOK
    <3>2. req'[q] = d /\ \A p \in Requests \ {q} : req'[p] = req[p]
      BY <2>2, <3>1, BecomesFacts DEF Outcome
    <3> QED BY <1>4, <2>2, <3>2 DEF Outcome
  <2>3. CASE \E b \in Browsers : LookBegin(r, b)
    BY <1>1, <2>3, NewLook
  <2> QED BY <1>3, <1>4, <2>1, <2>2, <2>3, RequestFrame
<1> QED BY <1>1, <1>4 DEF LooksMatch, InboxOK, Looked

-----------------------------------------------------------------------------
(* Keys.                                                                   *)

KeysOK ==
  /\ keys \in [Keys -> [minted : BOOLEAN, expired : BOOLEAN, revoked : BOOLEAN, used : BOOLEAN]]
  /\ flash \in [Browsers -> SUBSET Keys]
  /\ \A k \in Keys : keys[k].expired \/ keys[k].revoked \/ keys[k].used => keys[k].minted

KeyRow == [minted : BOOLEAN, expired : BOOLEAN, revoked : BOOLEAN, used : BOOLEAN]

\* The row of k changes to e, with k minted.
KeyBecomes(k, e) ==
  /\ keys' = [keys EXCEPT ![k] = e]
  /\ e \in KeyRow /\ e.minted

LEMMA KeySteps ==
  ASSUME IInv, [Next]_vars
  PROVE  \/ UNCHANGED keys
         \/ \E k \in Keys : \E e : KeyBecomes(k, e) /\ keys[k].minted
         \/ \E r \in Requests, k \in Keys : \E e :
              MintCommit(r) /\ k = req[r].key /\ KeyBecomes(k, e)
<1>1. /\ keys \in [Keys -> KeyRow]
      /\ \A r \in Requests : RequestOK(req[r])
  BY DEF IInv, TypeOK, KeyRow
<1>2. ASSUME NEW r \in Requests, MintCommit(r)
      PROVE  \E k \in Keys : \E e : MintCommit(r) /\ k = req[r].key /\ KeyBecomes(k, e)
  <2>1. PICK k \in Keys : k = req[r].key
    BY <1>1, <1>2, Kinds DEF MintCommit
  <2>2. PICK e : e = [keys[k] EXCEPT !.minted = TRUE]
    OBVIOUS
  <2>3. e \in KeyRow /\ e.minted
    BY <1>1, <2>2 DEF KeyRow
  <2>4. keys' = [keys EXCEPT ![k] = e]
    BY <1>2, <2>1, <2>2 DEF MintCommit
  <2> QED BY <1>2, <2>1, <2>3, <2>4 DEF KeyBecomes
<1>3. ASSUME NEW r \in Requests, RevokeCommit(r)
      PROVE  \E k \in Keys : \E e : KeyBecomes(k, e) /\ keys[k].minted
  <2>1. PICK k \in Keys : k = req[r].key
    BY <1>1, <1>3, Kinds DEF RevokeCommit
  <2>2. keys[k].minted
    BY <1>3, <2>1 DEF RevokeCommit, IInv, KeysMatch
  <2>3. PICK e : e = [keys[k] EXCEPT !.revoked = TRUE]
    OBVIOUS
  <2>4. e \in KeyRow /\ e.minted
    BY <1>1, <2>2, <2>3 DEF KeyRow
  <2>5. keys' = [keys EXCEPT ![k] = e]
    BY <1>3, <2>1, <2>3 DEF RevokeCommit
  <2> QED BY <2>2, <2>4, <2>5 DEF KeyBecomes
<1>4. ASSUME NEW r \in Requests, CallEnds(r)
      PROVE  \E k \in Keys : \E e : KeyBecomes(k, e) /\ keys[k].minted
  <2>1. PICK k \in Keys : k = req[r].key
    BY <1>1, <1>4, Kinds DEF CallEnds
  <2>2. keys[k].minted
    BY <1>4, <2>1 DEF CallEnds, IInv, KeysMatch
  <2>3. PICK commits \in BOOLEAN : keys' = [keys EXCEPT ![k].used = @ \/ commits]
    BY <1>4, <2>1 DEF CallEnds
  <2>4. PICK e : e = [keys[k] EXCEPT !.used = @ \/ commits]
    OBVIOUS
  <2>5. e \in KeyRow /\ e.minted
    BY <1>1, <2>2, <2>4 DEF KeyRow
  <2>6. keys' = [keys EXCEPT ![k] = e]
    BY <2>3, <2>4
  <2> QED BY <2>2, <2>5, <2>6 DEF KeyBecomes
<1>5. ASSUME NEW k \in Keys, Expire(k)
      PROVE  \E e : KeyBecomes(k, e) /\ keys[k].minted
  <2>1. PICK e : e = [keys[k] EXCEPT !.expired = TRUE]
    OBVIOUS
  <2>2. keys[k].minted /\ keys' = [keys EXCEPT ![k] = e]
    BY <1>5, <2>1 DEF Expire
  <2>3. e \in KeyRow /\ e.minted
    BY <1>1, <2>1, <2>2 DEF KeyRow
  <2> QED BY <2>2, <2>3 DEF KeyBecomes
<1> QED BY <1>2, <1>3, <1>4, <1>5, KeyFrame

LEMMA KeyStays ==
  ASSUME IInv, NEW k \in Keys, NEW e, KeyBecomes(k, e)
  PROVE  /\ keys' \in [Keys -> KeyRow]
         /\ keys'[k] = e /\ e.minted
         /\ \A j \in Keys \ {k} : keys'[j] = keys[j]
         /\ \A j \in Keys : keys[j].minted => keys'[j].minted
BY DEF KeyBecomes, IInv, TypeOK, KeyRow

LEMMA KeyTypeStep ==
  IInv /\ [Next]_vars => KeysOK' /\ \A j \in Keys : keys[j].minted => keys'[j].minted
<1> SUFFICES ASSUME IInv, [Next]_vars
             PROVE  KeysOK' /\ \A j \in Keys : keys[j].minted => keys'[j].minted
  OBVIOUS
<1>1. KeysOK
  BY DEF IInv, TypeOK, KeysMatch, KeysOK
<1>2. flash' \in [Browsers -> SUBSET Keys]
  <2> DEFINE FlashOK == flash' \in [Browsers -> SUBSET Keys]
  <2>1. CASE UNCHANGED flash
    BY <1>1, <2>1 DEF KeysOK
  <2>2. ASSUME NEW r \in Requests, MintAnswer(r) PROVE FlashOK
    <3>1. RequestOK(req[r])
      BY DEF IInv, TypeOK
    <3>2. req[r].key \in Keys
      BY <2>2, <3>1, Kinds DEF MintAnswer
    <3> QED BY <1>1, <2>2, <3>2 DEF MintAnswer, KeysOK
  <2>3. ASSUME NEW b \in Browsers, ShowKeys(b) PROVE FlashOK
    BY <1>1, <2>3 DEF ShowKeys, KeysOK
  <2>4. CASE KeyStep
    BY <2>1, <2>2, <2>3, <2>4 DEF KeyStep, MintCommit, RevokeCommit, CallEnds, Authorize, MintBegin,
       RevokeBegin, Expire, keyVars
  <2> QED BY <2>1, <2>4 DEF Next, keyVars, vars
<1>3. CASE UNCHANGED keys
  BY <1>1, <1>2, <1>3 DEF KeysOK
<1>4. ASSUME NEW k \in Keys, NEW e, KeyBecomes(k, e)
      PROVE  KeysOK' /\ \A j \in Keys : keys[j].minted => keys'[j].minted
  BY <1>1, <1>2, <1>4, KeyStays DEF KeysOK, KeyRow
<1> QED BY <1>3, <1>4, KeySteps

\* A request that names a key now did so before, or found it minted, or
\* found it free.
LEMMA NamedKeys ==
  ASSUME IInv, [Next]_vars, NEW r \in Requests, req'[r].op \in {"mint", "minted", "revoke", "call"}
  PROVE  \/ req'[r] = req[r]
         \/ \E b \in Browsers, k \in Keys : req'[r].op = "mint" /\ MintBegin(r, b, k)
         \/ req'[r].op = "minted" /\ MintCommit(r) /\ req'[r].key = req[r].key
         \/ req'[r].op \in {"revoke", "call"} /\ keys[req'[r].key].minted
<1>1. CASE UNCHANGED requestVars
  BY <1>1 DEF requestVars
<1>2. ASSUME NEW q \in Requests, NEW d, Outcome(q, d)
      PROVE  \/ req'[r] = req[r]
             \/ \E b \in Browsers, k \in Keys : req'[r].op = "mint" /\ MintBegin(r, b, k)
             \/ req'[r].op = "minted" /\ MintCommit(r) /\ req'[r].key = req[r].key
             \/ req'[r].op \in {"revoke", "call"} /\ keys[req'[r].key].minted
  <2>1. DOMAIN req = Requests
    BY DEF IInv, TypeOK
  <2>2. req'[q] = d /\ \A p \in Requests \ {q} : req'[p] = req[p]
    BY <1>2, <2>1, BecomesFacts DEF Outcome
  <2> QED BY <1>2, <2>2 DEF Outcome
<1> QED BY <1>1, <1>2, RequestFrame

LEMMA MintBeginFacts ==
  ASSUME IInv, NEW r \in Requests, NEW b \in Browsers, NEW k \in Keys, MintBegin(r, b, k)
  PROVE  /\ req'[r].op = "mint" /\ req'[r].key = k /\ keys'[k] = Unminted
         /\ \A q \in Requests \ {r} : req'[q] = req[q]
         /\ \A q \in Requests : req[q].op = "mint" => req[q].key # k
<1>1. /\ DOMAIN req = Requests /\ keys[k] \in KeyRow
      /\ keys[k].expired \/ keys[k].revoked \/ keys[k].used => keys[k].minted
  BY DEF IInv, TypeOK, KeysMatch, KeyRow
<1>2. ~keys[k].minted /\ keys' = keys
  BY DEF MintBegin, keyVars
<1>3. keys[k] = Unminted
  BY <1>1, <1>2 DEF KeyRow, Unminted
<1>4. Begin(r, [op |-> "mint", browser |-> b, key |-> k])
  BY DEF MintBegin
<1>5. /\ req'[r] = [op |-> "mint", browser |-> b, key |-> k]
      /\ \A q \in Requests \ {r} : req'[q] = req[q]
  BY <1>1, <1>4, BeginFacts
<1> QED BY <1>2, <1>3, <1>5 DEF MintBegin

LEMMA KeysStep == IInv /\ [Next]_vars => KeysMatch'
<1> SUFFICES ASSUME IInv, [Next]_vars PROVE KeysMatch'
  OBVIOUS
<1>1. KeysOK' /\ \A j \in Keys : keys[j].minted => keys'[j].minted
  BY KeyTypeStep
<1>2. \A r \in Requests : RequestOK(req[r]) /\ RequestOK(req[r])'
  BY RequestStep DEF IInv, TypeOK, RequestsOK
<1>3. /\ \A r \in Requests : req[r].op \in {"minted", "revoke", "call"} => keys[req[r].key].minted
      /\ \A r \in Requests : req[r].op = "mint" => keys[req[r].key] = Unminted /\ req[r].key \in Keys
      /\ \A r \in Requests : req[r].op \in {"minted", "revoke", "call"} => req[r].key \in Keys
      /\ \A r, q \in Requests :
           req[r].op = "mint" /\ req[q].op = "mint" /\ req[r].key = req[q].key => r = q
  BY <1>2, Kinds DEF IInv, KeysMatch
<1>4. ASSUME NEW r \in Requests, MintCommit(r)
      PROVE  /\ keys'[req[r].key].minted /\ req'[r].op = "minted"
             /\ \A q \in Requests \ {r} : req'[q] = req[q]
  <2>1. DOMAIN req = Requests /\ keys \in [Keys -> KeyRow]
    BY DEF IInv, TypeOK, KeyRow
  <2>2. req[r].key \in Keys
    BY <1>2, <1>4, Kinds DEF MintCommit
  <2>3. keys' = [keys EXCEPT ![req[r].key].minted = TRUE]
    BY <1>4 DEF MintCommit
  <2>4. keys'[req[r].key].minted
    BY <2>1, <2>2, <2>3 DEF KeyRow
  <2>5. Continue(r, [op |-> "minted", browser |-> req[r].browser, key |-> req[r].key])
    BY <1>4 DEF MintCommit
  <2> QED BY <2>1, <2>4, <2>5, ContinueFacts
<1>5. ASSUME NEW r \in Requests, req'[r].op \in {"minted", "revoke", "call"}
      PROVE  keys'[req'[r].key].minted
  <2>1. CASE req'[r] = req[r]
    BY <1>1, <1>3, <1>5, <2>1
  <2>2. CASE req'[r].op = "minted" /\ MintCommit(r) /\ req'[r].key = req[r].key
    BY <1>4, <2>2
  <2>3. CASE req'[r].op \in {"revoke", "call"} /\ keys[req'[r].key].minted
    <3>1. PICK d : d = req'[r]
      OBVIOUS
    <3>2. d.key \in Keys
      <4>1. RequestOK(d)'
        BY <1>2, <3>1 DEF RequestOK
      <4> QED BY <2>3, <3>1, <4>1 DEF RequestOK, Idle
    <3> QED BY <1>1, <2>3, <3>1, <3>2
  <2> QED BY <1>5, <2>1, <2>2, <2>3, NamedKeys
<1>6. ASSUME NEW r \in Requests, req'[r].op = "mint"
      PROVE  keys'[req'[r].key] = Unminted
  <2>1. ASSUME NEW b \in Browsers, NEW k \in Keys, MintBegin(r, b, k)
        PROVE  keys'[req'[r].key] = Unminted
    BY <2>1, MintBeginFacts
  <2>2. CASE req'[r] = req[r]
    <3>1. /\ req[r].op = "mint" /\ req[r].key \in Keys /\ keys[req[r].key] = Unminted
          /\ ~keys[req[r].key].minted
      BY <1>3, <1>6, <2>2 DEF Unminted
    <3>2. ASSUME NEW k \in Keys, NEW e, KeyBecomes(k, e), keys[k].minted
          PROVE  keys'[req[r].key] = Unminted
      BY <3>1, <3>2, KeyStays
    <3>3. ASSUME NEW q \in Requests, NEW k \in Keys, NEW e, MintCommit(q), k = req[q].key,
                 KeyBecomes(k, e)
          PROVE  keys'[req[r].key] = Unminted
      <4>1. q # r
        BY <1>4, <1>6, <3>3
      <4>2. k # req[r].key
        BY <1>3, <3>1, <3>3, <4>1 DEF MintCommit
      <4> QED BY <3>1, <3>3, <4>2, KeyStays
    <3> QED BY <2>2, <3>1, <3>2, <3>3, KeySteps
  <2> QED BY <1>6, <2>1, <2>2, NamedKeys
<1>7. ASSUME NEW r \in Requests, NEW q \in Requests, req'[r].op = "mint", req'[q].op = "mint",
             req'[r].key = req'[q].key
      PROVE  r = q
  <2>1. CASE req'[r] = req[r] /\ req'[q] = req[q]
    BY <1>3, <1>7, <2>1
  <2>2. ASSUME NEW b \in Browsers, NEW k \in Keys, MintBegin(r, b, k) PROVE r = q
    BY <1>7, <2>2, MintBeginFacts
  <2>3. ASSUME NEW b \in Browsers, NEW k \in Keys, MintBegin(q, b, k) PROVE r = q
    BY <1>7, <2>3, MintBeginFacts
  <2> QED BY <1>7, <2>1, <2>2, <2>3, NamedKeys
<1> QED BY <1>1, <1>5, <1>6, <1>7 DEF KeysMatch, KeysOK

-----------------------------------------------------------------------------
(* The theorems.                                                           *)

LEMMA InitInv == Init => IInv
<1> SUFFICES ASSUME Init PROVE IInv
  OBVIOUS
<1> USE DEF Init, SessionsInit, InboxInit, KeysInit
<1>1. TypeOK
  BY WorkAssumption DEF TypeOK, RequestOK, NoUser, NoCookie, Unwritten, NoNotice, Unminted
<1>2. MintedApart /\ OneSession
  BY DEF MintedApart, OneSession, Carried, NoUser, NoCookie, Idle
<1>3. KeysMatch
  BY DEF KeysMatch, Idle, Unminted
<1>4. OwnersKnown
  BY DEF OwnersKnown, Unwritten
<1>5. LooksMatch
  BY DEF LooksMatch, Idle, NoNotice
<1> QED BY <1>1, <1>2, <1>3, <1>4, <1>5 DEF IInv

LEMMA InvStep == IInv /\ [Next]_vars => IInv'
<1> SUFFICES ASSUME IInv, [Next]_vars PROVE IInv'
  OBVIOUS
<1>1. UsersOK' /\ RequestsOK' /\ CookiesOK' /\ WritingsOK' /\ InboxOK' /\ KeysOK'
  BY UserStep, RequestStep, CookieStep, WritingStep, NoticeStep, KeyTypeStep
<1>2. TypeOK'
  BY <1>1 DEF TypeOK, UsersOK, RequestsOK, CookiesOK, WritingsOK, InboxOK, KeysOK
<1> QED BY <1>1, <1>2, SessionStep, KeysStep, LookStep DEF IInv, UsersOK, WritingsOK

\* The invariant of accounts, sessions, keys and looks (auth.py:239-309,
\* 325-335, 386-415, 480-494): no ended session comes back.
THEOREM Invariance == Spec => []IInv
BY InitInv, InvStep, PTL DEF Spec

\* What belonged to one account never comes to belong to another, unless a
\* deletion missed it (auth.py:288-308, 480-489).
THEOREM WritingsKeepOwner == Spec => []OwnersStay
<1>1. IInv => OwnersStay
  <2> SUFFICES ASSUME IInv PROVE OwnersStay
    OBVIOUS
  <2>1. ASSUME NEW w \in Writings \ missed PROVE Cardinality(owners[w]) <= 1
    <3>1. owners[w] = {} \/ \E id : owners[w] = {id}
      BY DEF IInv, OwnersKnown
    <3>2. CASE owners[w] = {}
      <4>1. Cardinality(owners[w]) = 0
        BY <3>2, FS_EmptySet
      <4> QED BY <4>1
    <3>3. ASSUME NEW id, owners[w] = {id} PROVE Cardinality(owners[w]) <= 1
      <4>1. Cardinality(owners[w]) = 1
        BY <3>3, FS_Singleton
      <4> QED BY <4>1
    <3> QED BY <3>1, <3>2, <3>3
  <2> QED BY <2>1 DEF OwnersStay, IInv, OwnersKnown
<1> QED BY <1>1, Invariance, PTL

\* A row keeps its id, goes, or gets a new one.
LEMMA IdStep ==
  ASSUME IInv, [Next]_vars, NEW s \in Subs
  PROVE  users'[s].id \in {0, users[s].id, minted + 1}
<1>1. users \in [Subs -> [id : 0..minted, jti : 0..minted]]
  BY DEF IInv, TypeOK
<1>2. CASE UNCHANGED userVars
  BY <1>2 DEF userVars
<1>3. ASSUME NEW t \in Subs, NEW e, RowBecomes(t, e)
      PROVE  users'[s].id \in {0, users[s].id, minted + 1}
  <2>1. users'[s] = IF s = t THEN e ELSE users[s]
    BY <1>1, <1>3 DEF RowBecomes
  <2>2. e.id \in {0, users[t].id, minted + 1}
    BY <1>3 DEF RowBecomes
  <2> QED BY <2>1, <2>2
<1> QED BY <1>2, <1>3, RowSteps

\* What an account has seen changes when it looks or is deleted.
LEMMA SeenStep ==
  ASSUME IInv, [Next]_vars, NEW s \in Subs
  PROVE  \/ seen'[s] = seen[s]
         \/ seen'[s] = {}
         \/ \E r \in Requests : \E there : LookCommit(r) /\ Marks(r, there) /\ s = req[r].sub
<1>1. ASSUME NEW r \in Requests, NEW there, LookCommit(r), Marks(r, there)
      PROVE  seen'[s] = seen[s] \/ s = req[r].sub
  <2>1. req[r].op = "look"
    BY <1>1 DEF LookCommit
  <2> QED BY <1>1, <2>1, MarkFacts
<1>2. ASSUME NEW r \in Requests, DropNotices(req[r].sub)
      PROVE  seen'[s] \in {seen[s], {}}
  BY <1>2, NoticeFacts DEF DropNotices
<1>3. UNCHANGED inboxVars => seen' = seen
  BY DEF inboxVars
<1>4. CASE \E n \in NoticeIds : Withdraw(n) \/ \E t \in Subs : Arrive(t, n)
  BY <1>4 DEF Withdraw, Arrive
<1>5. CASE \E r \in Requests : ClearCommit(r)
  BY <1>5 DEF ClearCommit
<1> QED BY <1>1, <1>2, <1>3, <1>4, <1>5, InboxFrame, LookCases, EraseCases

LEMMA SettleStep == IInv /\ InboxSettles /\ [Next]_vars => InboxSettles'
<1> SUFFICES ASSUME IInv, InboxSettles, [Next]_vars,
                    NEW s \in Subs, NEW n \in NoticeIds,
                    n \in seen'[s], users'[s].id # 0, notices'[n].user = users'[s].id,
                    ~notices'[n].read
             PROVE  Cardinality({m \in seen'[s] : m > n}) >= PageSize
  BY DEF InboxSettles, NoticesOf
<1>1. CASE seen'[s] = seen[s]
  <2>1. n \in arrived /\ Fallen(n)
    BY <1>1, NoticeStep, NoticeFacts
  <2>2. notices[n].user = users'[s].id /\ ~notices[n].read
    BY <2>1 DEF Fallen, NoNotice
  <2>3. notices[n].user \in 0..minted /\ minted \in Nat
    BY NoticeFacts
  <2>4. users'[s].id = users[s].id
    BY <2>2, <2>3, IdStep
  <2>5. n \in NoticesOf(users[s].id)
    BY <2>2, <2>4 DEF NoticesOf
  <2> QED BY <1>1, <2>2, <2>5 DEF InboxSettles
<1>2. ASSUME NEW r \in Requests, NEW there, LookCommit(r), Marks(r, there), s = req[r].sub
      PROVE  Cardinality({m \in seen'[s] : m > n}) >= PageSize
  <2>1. req[r].op = "look"
    BY <1>2 DEF LookCommit
  <2>2. seen'[s] = req[r].all
    BY <1>2, <2>1, MarkFacts
  <2>3. n \notin there /\ notices'[n] = notices[n]
    BY <1>2, <2>1, MarkFacts
  <2>4. notices[n].user # 0 /\ notices[n].user = req[r].id
    BY <2>1, <2>2, <2>3 DEF IInv, LooksMatch
  <2>5. n \notin req[r].unread
    BY <1>2, <2>3, <2>4 DEF Marks
  <2>6. Cardinality({m \in req[r].all : m > n}) >= PageSize
    BY <2>1, <2>2, <2>3, <2>4, <2>5 DEF IInv, LooksMatch
  <2> QED BY <2>2, <2>6
<1> QED BY <1>1, <1>2, SeenStep

\* What was in the inbox when its owner last looked is read, unless a whole
\* page of newer notices hid it (auth.py:386-415).
THEOREM InboxIsRead == Spec => []InboxSettles
<1>1. Init => InboxSettles
  BY DEF Init, InboxInit, InboxSettles
<1> QED BY <1>1, SettleStep, Invariance, PTL DEF Spec
=============================================================================
