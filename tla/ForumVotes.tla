------------------------------ MODULE ForumVotes ------------------------------
(***************************************************************************)
(* The vote toggle of one forum thread: forum_upvote in                    *)
(* app/routes/forum.py, the constraints of the forum_upvotes table, and    *)
(* the two deletions that reach its rows (an account, the thread).         *)
(*                                                                         *)
(* A request reads whether its user has a vote, and for a new vote the     *)
(* weight the user's membership gives, then awaits the database again for  *)
(* the write.  What it read may be stale by then, because other requests   *)
(* commit in between.  The write itself (INSERT or DELETE, the UPDATE of   *)
(* the score and the COMMIT) is one step: it holds the row locks of the    *)
(* vote and of the thread until the commit, so under READ COMMITTED no     *)
(* conflicting write sees the middle of it.                                *)
(*                                                                         *)
(* Votes of different threads touch disjoint rows, so one thread is        *)
(* modelled.  Timestamps and the redirect are left out.                    *)
(***************************************************************************)
EXTENDS Integers, FiniteSets, UserRows

CONSTANTS
  NoUser,     \* the NULL of voter_user_id
  Requests,   \* concurrent invocations of the handler
  owner,      \* owner[r]: the account the session cookie of r names
  Weights,    \* the weights a membership, or its absence, can give
  MaxId       \* bound on the ids the autoincrement key hands out

ASSUME OwnerAssumption == owner \in [Requests -> Users]
ASSUME WeightsAssumption == Weights \subseteq Nat \ {0}
ASSUME MaxIdAssumption == MaxId \in Nat
ASSUME NoUserAssumption == NoUser \notin Users

VARIABLES
  weightOf,   \* weightOf[u]: what vote_weight_for returns for u now
  thread,     \* whether the thread row exists
  votes,      \* rows of forum_upvotes of the thread
  score,      \* forum_threads.vote_score
  nextId,     \* next value of the autoincrement key of forum_upvotes
  req,        \* req[r]: where request r is and what it read
  serial      \* history: no account has had two requests under way at once

vars == <<accounts, weightOf, thread, votes, score, nextId, req, serial>>

-----------------------------------------------------------------------------

\* voter_token of an authenticated vote, and of the one vote cast by cookie
\* before votes had accounts that the NULLS NOT DISTINCT index let survive.
Sentinel == ""
LegacyToken == "cookie"

VoteRow == [id : 0..MaxId, voter : Users \cup {NoUser},
            token : {Sentinel, LegacyToken}, weight : Nat \ {0}]

NoVote == [id |-> -1]

Request == [pc : {"idle", "toggling"}, seen : VoteRow \cup {NoVote},
            weight : Nat]

Idle == [pc |-> "idle", seen |-> NoVote, weight |-> 0]

LegacyVote == [id |-> 0, voter |-> NoUser, token |-> LegacyToken, weight |-> 1]

\* A vote of weight w brings w points.
Points(rows) == UNION {{v} \X (1..v.weight) : v \in rows}
SumOfWeights(rows) == Cardinality(Points(rows))

VotesOf(u) == {v \in votes : v.voter = u}

TypeOK ==
  /\ accounts \subseteq Users
  /\ weightOf \in [Users -> Weights]
  /\ thread \in BOOLEAN
  /\ votes \subseteq VoteRow
  /\ score \in Nat
  /\ nextId \in 1..(MaxId + 1)
  /\ req \in [Requests -> Request]
  /\ serial \in BOOLEAN

\* A thread that is new, or that was voted on once before accounts voted.
Init ==
  /\ accounts = Users
  /\ weightOf \in [Users -> Weights]
  /\ thread = TRUE
  /\ \/ votes = {} /\ score = 0
     \/ votes = {LegacyVote} /\ score = LegacyVote.weight
  /\ nextId = 1
  /\ req = [r \in Requests |-> Idle]
  /\ serial = TRUE

-----------------------------------------------------------------------------

\* The reads of the handler: the account, the thread, the user's vote and,
\* without one, the weight.  401 and 404 change nothing and are left out.
Select(r) ==
  /\ req[r].pc = "idle"
  /\ owner[r] \in accounts
  /\ thread
  /\ \E v \in VotesOf(owner[r]) \cup {NoVote} :
       /\ v = NoVote <=> VotesOf(owner[r]) = {}
       /\ req' = [req EXCEPT ![r] =
            [pc |-> "toggling", seen |-> v,
             weight |-> IF v = NoVote THEN weightOf[owner[r]] ELSE 0]]
  /\ serial' = (serial /\ \A q \in Requests : owner[q] = owner[r] => req[q].pc = "idle")
  /\ UNCHANGED <<accounts, weightOf, thread, votes, score, nextId>>

\* Variant: neither unique constraint exists.
InsertConflictsWithoutUnique(u) == ~thread \/ u \notin accounts

\* Whether INSERT of a vote of u raises IntegrityError: a foreign key to a
\* deleted row, uq_upvote_thread_voter or uq_upvote_thread_user.
InsertConflicts(u) ==
  \/ ~thread
  \/ u \notin accounts
  \/ \E v \in votes : v.token = Sentinel \/ v.voter = u

\* The else branch: INSERT with the weight read earlier, then the score.
\* On IntegrityError the transaction is rolled back and nothing changes.
Vote(r) ==
  LET u == owner[r]
      row == [id |-> nextId, voter |-> u, token |-> Sentinel,
              weight |-> req[r].weight]
  IN
  /\ req[r].pc = "toggling"
  /\ req[r].seen = NoVote
  /\ req' = [req EXCEPT ![r] = Idle]
  /\ nextId <= MaxId
  /\ IF InsertConflicts(u)
       THEN UNCHANGED <<votes, score, nextId>>
       ELSE /\ votes' = votes \cup {row}
            /\ score' = score + row.weight
            /\ nextId' = nextId + 1
  /\ UNCHANGED <<accounts, weightOf, thread, serial>>

\* Variants: no WHERE clause, and a strict comparison in it.
DeductedUnguarded(snapped) == IF thread THEN score - snapped ELSE score
DeductedStrict(snapped) ==
  IF thread /\ score > snapped THEN score - snapped ELSE score

\* What UPDATE ... SET vote_score = vote_score - snapped WHERE vote_score >=
\* snapped leaves in the score column.
Deducted(snapped) ==
  IF thread /\ score >= snapped THEN score - snapped ELSE score

\* Variants: take off the weight the voter has now, and delete by token.
UnvoteCurrentWeight(r) ==
  /\ req[r].pc = "toggling"
  /\ req[r].seen # NoVote
  /\ req' = [req EXCEPT ![r] = Idle]
  /\ votes' = {v \in votes : v.id # req[r].seen.id}
  /\ score' = Deducted(weightOf[owner[r]])
  /\ UNCHANGED <<accounts, weightOf, thread, nextId, serial>>
UnvoteByToken(r) ==
  /\ req[r].pc = "toggling"
  /\ req[r].seen # NoVote
  /\ req' = [req EXCEPT ![r] = Idle]
  /\ votes' = {v \in votes : v.token # req[r].seen.token}
  /\ score' = Deducted(req[r].seen.weight)
  /\ UNCHANGED <<accounts, weightOf, thread, nextId, serial>>

\* The existing branch: DELETE by primary key (no error when the row is gone)
\* and take the weight it had when it was read off the score.
Unvote(r) ==
  LET seen == req[r].seen
  IN
  /\ req[r].pc = "toggling"
  /\ seen # NoVote
  /\ req' = [req EXCEPT ![r] = Idle]
  /\ votes' = {v \in votes : v.id # seen.id}
  /\ score' = Deducted(seen.weight)
  /\ UNCHANGED <<accounts, weightOf, thread, nextId, serial>>

\* The replica stops, or the client goes away, before the commit.
Abort(r) ==
  /\ req[r].pc = "toggling"
  /\ req' = [req EXCEPT ![r] = Idle]
  /\ UNCHANGED <<accounts, weightOf, thread, votes, score, nextId, serial>>

\* A membership is bought, or expires.
WeightChanges(u) ==
  /\ \E w \in Weights : weightOf' = [weightOf EXCEPT ![u] = w]
  /\ UNCHANGED <<accounts, thread, votes, score, nextId, req, serial>>

\* voter_user_id is ON DELETE SET NULL, and the unique index counts NULLs as
\* equal: two NULL voters in a thread make the deletion fail.
SetNullConflicts(u) ==
  \E v, w \in VotesOf(u) \cup VotesOf(NoUser) : v # w

\* me_delete_submit: the whole deletion rolls back when SET NULL conflicts.
DeleteAccount(u) ==
  /\ DeleteUser(u)
  /\ ~SetNullConflicts(u)
  /\ votes' = {IF v.voter = u THEN [v EXCEPT !.voter = NoUser] ELSE v : v \in votes}
  /\ UNCHANGED <<weightOf, thread, score, nextId, req, serial>>

\* forum_thread_delete: the votes go with the thread.
DeleteThread ==
  /\ thread
  /\ thread' = FALSE
  /\ votes' = {}
  /\ score' = 0
  /\ UNCHANGED <<accounts, weightOf, nextId, req, serial>>

Next ==
  \/ \E r \in Requests : Select(r) \/ Vote(r) \/ Unvote(r) \/ Abort(r)
  \/ \E u \in Users : WeightChanges(u) \/ DeleteAccount(u)
  \/ DeleteThread

Spec == Init /\ [][Next]_vars

-----------------------------------------------------------------------------

\* "The score on a thread reflects real community priority, not just click
\* count" (donate.html:54): it is the sum of the weights of the votes.
ScoreIsSumOfWeights == score = SumOfWeights(votes)

\* While every user waits for an answer before clicking again, the score is
\* the sum of the weights of the votes: a vote leaves with the weight it came
\* with, whatever happened to the voter's membership or account since, and a
\* refused vote adds nothing (the UPDATEs at forum.py:590-594 and 609-613).
SerialScoreIsSum == serial => ScoreIsSumOfWeights

\* A user has at most one vote on a thread, and the thread at most one vote
\* without a user (the index of c3d4e5f6a7b8).
OneVotePerUser == \A v, w \in votes : v.voter = w.voter => v = w

\* A vote leaves a thread that stays only when a request of its own voter
\* completes, however stale what that request read has become; after the
\* account is deleted the vote has no voter (session.delete by primary key,
\* forum.py:589).
OnlyOwnVoteRemoved ==
  [][\A v \in votes :
       thread' /\ (\A w \in votes' : w.id # v.id) =>
         \E r \in Requests : /\ v.voter \in {owner[r], NoUser}
                             /\ req[r].pc = "toggling" /\ req'[r].pc = "idle"]_vars

\* Ids are handed out once.
IdsAreKeys ==
  /\ \A v, w \in votes : v.id = w.id => v = w
  /\ \A v \in votes : v.id < nextId

\* What a request saw may be gone by now, or have lost its voter, but it is
\* nobody else's vote, and it weighs what it weighed.
SeenIsOwn ==
  \A r \in Requests : \A v \in votes :
    req[r].pc = "toggling" /\ req[r].seen # NoVote /\ v.id = req[r].seen.id =>
      v.voter \in {owner[r], NoUser} /\ v.weight = req[r].seen.weight

SeenIsPast ==
  \A r \in Requests :
    req[r].seen # NoVote => req[r].pc = "toggling" /\ req[r].seen.id < nextId

\* A request that saw no vote read its weight from a membership.
WeightIsRead ==
  \A r \in Requests :
    req[r].pc = "toggling" /\ req[r].seen = NoVote => req[r].weight \in Weights

\* What two requests saw is one vote only if they are of one account.
SeenApart ==
  \A q, r \in Requests :
    req[q].seen # NoVote /\ req[r].seen # NoVote /\ req[q].seen.id = req[r].seen.id =>
      owner[q] = owner[r]

\* Users who wait for each answer: what a request saw is still there.
SerialReads ==
  serial =>
    /\ \A q, r \in Requests :
         owner[q] = owner[r] /\ req[q].pc = "toggling" /\ req[r].pc = "toggling" => q = r
    /\ \A r \in Requests :
         thread /\ req[r].seen # NoVote => \E v \in votes : v.id = req[r].seen.id

\* The inductive invariant: a vote deleted by an id read earlier is the
\* reader's own vote (forum.py:577-589).
IInv ==
  /\ TypeOK /\ OneVotePerUser /\ IdsAreKeys
  /\ SeenIsOwn /\ SeenIsPast /\ WeightIsRead
  /\ SeenApart /\ SerialReads

\* "Every logged-in user can vote on forum threads" (donate.html:53): the
\* INSERT for an account with no vote on the thread meets no constraint.
EveryUserCanVote ==
  thread => \A u \in accounts : VotesOf(u) = {} => ~InsertConflicts(u)
=============================================================================
