---------------------------- MODULE VotingProofs ----------------------------
(***************************************************************************)
(* Proofs about ForumVotes for any users, requests and weights: what the   *)
(* vote table, the handler and the score keep under every interleaving;    *)
(* and about Membership, which says what a vote weighs.                    *)
(***************************************************************************)
EXTENDS ForumVotes, Membership, FiniteSetTheorems, TLAPS

USE DEF NoVote

LEMMA InitHolds == Init => IInv
<1> SUFFICES ASSUME Init PROVE IInv
  OBVIOUS
<1>1. TypeOK
  BY MaxIdAssumption DEF Init, TypeOK, Idle, Request, LegacyVote, VoteRow, LegacyToken
<1>2. OneVotePerUser /\ IdsAreKeys
  BY DEF Init, OneVotePerUser, IdsAreKeys, LegacyVote
<1>3. SeenIsOwn /\ SeenIsPast /\ WeightIsRead
  BY DEF Init, SeenIsOwn, SeenIsPast, WeightIsRead, Idle
<1>4. SeenApart /\ SerialReads
  BY DEF Init, SeenApart, SerialReads, Idle
<1> QED BY <1>1, <1>2, <1>3, <1>4 DEF IInv

\* A select takes the user's own vote as it stands, or the user's weight.
LEMMA SelectPreserves ==
  ASSUME IInv, NEW r \in Requests, Select(r)
  PROVE  IInv'
<1>1. PICK v \in VotesOf(owner[r]) \cup {NoVote} :
        /\ v = NoVote <=> VotesOf(owner[r]) = {}
        /\ req' = [req EXCEPT ![r] =
             [pc |-> "toggling", seen |-> v,
              weight |-> IF v = NoVote THEN weightOf[owner[r]] ELSE 0]]
  BY DEF Select
<1>2. /\ UNCHANGED <<accounts, weightOf, thread, votes, score, nextId>>
      /\ serial' \in BOOLEAN
  BY DEF Select
<1>3. v # NoVote => v \in votes /\ v.voter = owner[r]
  BY <1>1 DEF VotesOf
<1>4. weightOf[owner[r]] \in Weights /\ weightOf[owner[r]] \in Nat
  BY OwnerAssumption, WeightsAssumption DEF IInv, TypeOK
<1>5. TypeOK'
  <2>1. v \in VoteRow \cup {NoVote}
    BY <1>3 DEF IInv, TypeOK
  <2>2. req' \in [Requests -> Request]
    BY <1>1, <1>4, <2>1 DEF IInv, TypeOK, Request
  <2> QED BY <1>2, <2>2 DEF IInv, TypeOK
<1>6. OneVotePerUser' /\ IdsAreKeys'
  BY <1>2 DEF IInv, OneVotePerUser, IdsAreKeys
<1>7. SeenIsOwn'
  BY <1>1, <1>2, <1>3 DEF IInv, SeenIsOwn, IdsAreKeys, TypeOK
<1>8. SeenIsPast' /\ WeightIsRead'
  BY <1>1, <1>2, <1>3, <1>4 DEF IInv, SeenIsPast, WeightIsRead, IdsAreKeys, TypeOK
<1>9. \A q \in Requests : req'[q] = IF q = r THEN req'[r] ELSE req[q]
  BY <1>1 DEF IInv, TypeOK
<1>10. req'[r].seen = v /\ req'[r].pc = "toggling" /\ req[r].pc = "idle"
  BY <1>1 DEF Select, IInv, TypeOK
<1>11. SeenApart'
  <2> SUFFICES ASSUME NEW q \in Requests, req[q].seen # NoVote, v # NoVote,
                      req[q].seen.id = v.id, q # r
               PROVE  owner[q] = owner[r]
    BY <1>9, <1>10 DEF SeenApart, IInv
  <2>1. req[q].pc = "toggling"
    BY DEF IInv, SeenIsPast
  <2> QED BY <1>3, <2>1, OwnerAssumption, NoUserAssumption DEF IInv, SeenIsOwn
<1>12. SerialReads'
  <2> SUFFICES ASSUME serial' PROVE SerialReads'
    BY DEF SerialReads
  <2>1. serial /\ \A q \in Requests : owner[q] = owner[r] => req[q].pc = "idle"
    BY DEF Select
  <2>2. \A q, p \in Requests :
          owner[q] = owner[p] /\ req'[q].pc = "toggling" /\ req'[p].pc = "toggling" => q = p
    BY <1>9, <2>1 DEF IInv, SerialReads
  <2>3. \A q \in Requests :
          thread' /\ req'[q].seen # NoVote => \E w \in votes' : w.id = req'[q].seen.id
    BY <1>2, <1>3, <1>9, <1>10, <2>1 DEF IInv, SerialReads
  <2> QED BY <2>2, <2>3 DEF SerialReads
<1> QED BY <1>5, <1>6, <1>7, <1>8, <1>11, <1>12 DEF IInv

\* A request that ends knows nothing any more; the others know what they did.
LEMMA OnlyForgets ==
  ASSUME SeenApart, SerialReads, req \in [Requests -> Request],
         NEW r \in Requests, req' = [req EXCEPT ![r] = Idle],
         votes \subseteq votes', UNCHANGED <<thread, serial>>
  PROVE  SeenApart' /\ SerialReads'
<1>1. \A q \in Requests : req'[q] = IF q = r THEN Idle ELSE req[q]
  OBVIOUS
<1>2. SeenApart'
  BY <1>1 DEF SeenApart, Idle
<1>3. SerialReads'
  BY <1>1 DEF SerialReads, Idle
<1> QED BY <1>2, <1>3

\* A new vote gets an id no request has seen, for a user who has none.
LEMMA VotePreserves ==
  ASSUME IInv, NEW r \in Requests, Vote(r)
  PROVE  IInv'
<1> DEFINE row == [id |-> nextId, voter |-> owner[r], token |-> Sentinel,
                   weight |-> req[r].weight]
<1>1. /\ req[r].pc = "toggling" /\ req[r].seen = NoVote
      /\ req' = [req EXCEPT ![r] = Idle] /\ nextId <= MaxId
      /\ UNCHANGED <<accounts, weightOf, thread, serial>>
  BY DEF Vote
<1>2. req[r].weight \in Nat \ {0} /\ nextId \in 1..(MaxId + 1)
  BY <1>1, WeightsAssumption DEF IInv, WeightIsRead, TypeOK
<1>3. req' \in [Requests -> Request]
  BY <1>1 DEF IInv, TypeOK, Request, Idle
<1>4. CASE InsertConflicts(owner[r])
  <2>1. UNCHANGED <<votes, score, nextId>>
    BY <1>4 DEF Vote
  <2>2. SeenApart' /\ SerialReads'
    BY <1>1, <2>1, OnlyForgets DEF IInv, TypeOK
  <2> QED BY <1>1, <1>3, <2>1, <2>2
       DEF IInv, TypeOK, OneVotePerUser, IdsAreKeys, SeenIsOwn, SeenIsPast, WeightIsRead, Idle
<1>5. CASE ~InsertConflicts(owner[r])
  <2>1. votes' = votes \cup {row} /\ score' = score + row.weight /\ nextId' = nextId + 1
    BY <1>5 DEF Vote
  <2>2. \A v \in votes : v.voter # owner[r] /\ v.id < nextId /\ v.id \in Nat
    BY <1>5, MaxIdAssumption DEF InsertConflicts, IInv, IdsAreKeys, TypeOK, VoteRow
  <2>3. TypeOK'
    <3>1. row \in VoteRow
      BY <1>1, <1>2, OwnerAssumption, MaxIdAssumption DEF VoteRow
    <3>2. votes' \subseteq VoteRow
      BY <2>1, <3>1 DEF IInv, TypeOK
    <3>3. score' \in Nat /\ nextId' \in 1..(MaxId + 1)
      BY <1>1, <1>2, <2>1, MaxIdAssumption DEF IInv, TypeOK
    <3> QED BY <1>1, <1>3, <3>2, <3>3 DEF IInv, TypeOK
  <2>4. OneVotePerUser'
    BY <2>1, <2>2 DEF IInv, OneVotePerUser
  <2>5. IdsAreKeys'
    BY <1>2, <2>1, <2>2 DEF IInv, IdsAreKeys
  <2>6. SeenIsOwn'
    <3> SUFFICES ASSUME NEW q \in Requests, NEW v \in votes',
                        req'[q].pc = "toggling", req'[q].seen # NoVote,
                        v.id = req'[q].seen.id
                 PROVE  v.voter \in {owner[q], NoUser} /\ v.weight = req'[q].seen.weight
      BY DEF SeenIsOwn
    <3>1. q # r /\ req'[q] = req[q]
      BY <1>1 DEF Idle, IInv, TypeOK
    <3>2. req[q].seen.id < nextId
      BY <3>1 DEF IInv, SeenIsPast
    <3>3. v \in votes
      BY <1>2, <2>1, <3>1, <3>2
    <3> QED BY <3>1, <3>3 DEF IInv, SeenIsOwn
  <2>7. SeenIsPast'
    <3> SUFFICES ASSUME NEW q \in Requests, req'[q].seen # NoVote
                 PROVE  req'[q].pc = "toggling" /\ req'[q].seen.id < nextId'
      BY DEF SeenIsPast
    <3>1. q # r /\ req'[q] = req[q]
      BY <1>1 DEF Idle, IInv, TypeOK
    <3>2. req[q].pc = "toggling" /\ req[q].seen.id < nextId /\ req[q].seen.id \in Nat
      BY <3>1, MaxIdAssumption DEF IInv, SeenIsPast, TypeOK, Request, VoteRow
    <3> QED BY <1>2, <2>1, <3>1, <3>2
  <2>8. WeightIsRead'
    BY <1>1 DEF IInv, WeightIsRead, TypeOK, Idle
  <2>9. SeenApart' /\ SerialReads'
    BY <1>1, <2>1, OnlyForgets DEF IInv, TypeOK
  <2> QED BY <2>3, <2>4, <2>5, <2>6, <2>7, <2>8, <2>9 DEF IInv
<1> QED BY <1>4, <1>5

\* The score a removal leaves is never negative.
LEMMA DeductedIsNat ==
  ASSUME score \in Nat, NEW w \in Nat
  PROVE  Deducted(w) \in Nat
  BY DEF Deducted

\* A removal takes rows away and forgets what the request saw.
LEMMA UnvotePreserves ==
  ASSUME IInv, NEW r \in Requests, Unvote(r)
  PROVE  IInv'
<1>1. /\ req[r].seen # NoVote /\ req' = [req EXCEPT ![r] = Idle]
      /\ votes' \subseteq votes
      /\ score' = Deducted(req[r].seen.weight)
      /\ UNCHANGED <<accounts, weightOf, thread, nextId, serial>>
  BY DEF Unvote
<1>2. req' \in [Requests -> Request]
  BY <1>1 DEF IInv, TypeOK, Request, Idle
<1>3. req[r].seen.weight \in Nat
  BY <1>1 DEF IInv, TypeOK, Request, VoteRow
<1>4. score' \in Nat
  BY <1>1, <1>3, DeductedIsNat DEF IInv, TypeOK
<1>5. TypeOK'
  BY <1>1, <1>2, <1>4 DEF IInv, TypeOK
<1>6. OneVotePerUser' /\ IdsAreKeys'
  BY <1>1 DEF IInv, OneVotePerUser, IdsAreKeys
<1>7. SeenIsOwn' /\ SeenIsPast' /\ WeightIsRead'
  BY <1>1 DEF IInv, TypeOK, SeenIsOwn, SeenIsPast, WeightIsRead, Idle
<1>8. \A q \in Requests : req'[q] = IF q = r THEN Idle ELSE req[q]
  BY <1>1 DEF IInv, TypeOK
<1>9. SeenApart'
  BY <1>8 DEF IInv, SeenApart, Idle
<1>10. SerialReads'
  <2> SUFFICES ASSUME serial', NEW q \in Requests, q # r, thread, req[q].seen # NoVote
               PROVE  \E v \in votes' : v.id = req[q].seen.id
    BY <1>1, <1>8 DEF IInv, SerialReads, Idle
  <2>1. PICK v \in votes : v.id = req[q].seen.id
    BY <1>1 DEF IInv, SerialReads
  <2>2. req[q].pc = "toggling" /\ req[r].pc = "toggling"
    BY <1>1 DEF IInv, SeenIsPast
  <2>3. req[q].seen.id # req[r].seen.id
    BY <1>1, <2>2 DEF IInv, SeenApart, SerialReads
  <2> QED BY <2>1, <2>3 DEF Unvote
<1> QED BY <1>5, <1>6, <1>7, <1>9, <1>10 DEF IInv

LEMMA AbortPreserves ==
  ASSUME IInv, NEW r \in Requests, Abort(r)
  PROVE  IInv'
<1>1. /\ req' = [req EXCEPT ![r] = Idle]
      /\ UNCHANGED <<accounts, weightOf, thread, votes, score, nextId, serial>>
  BY DEF Abort
<1>2. req' \in [Requests -> Request]
  BY <1>1 DEF IInv, TypeOK, Request, Idle
<1>3. SeenApart' /\ SerialReads'
  BY <1>1, OnlyForgets DEF IInv, TypeOK
<1> QED BY <1>1, <1>2, <1>3
     DEF IInv, TypeOK, OneVotePerUser, IdsAreKeys, SeenIsOwn, SeenIsPast, WeightIsRead, Idle

LEMMA WeightChangesPreserves ==
  ASSUME IInv, NEW u \in Users, WeightChanges(u)
  PROVE  IInv'
  BY DEF WeightChanges, IInv, TypeOK, OneVotePerUser, IdsAreKeys, SeenIsOwn,
         SeenIsPast, WeightIsRead, SeenApart, SerialReads

\* SET NULL renames one voter, and only when no other vote would then share
\* its NULL.
LEMMA DeleteAccountPreserves ==
  ASSUME IInv, NEW u \in Users, DeleteAccount(u)
  PROVE  IInv'
<1> DEFINE renamed(v) == IF v.voter = u THEN [v EXCEPT !.voter = NoUser] ELSE v
<1>1. /\ votes' = {renamed(v) : v \in votes}
      /\ accounts' = accounts \ {u}
      /\ UNCHANGED <<weightOf, thread, score, nextId, req, serial>>
      /\ ~SetNullConflicts(u)
  BY DEF DeleteAccount, DeleteUser
<1>2. \A v \in votes : /\ renamed(v) \in VoteRow /\ renamed(v).id = v.id
                       /\ renamed(v).weight = v.weight
                       /\ renamed(v).voter = IF v.voter = u THEN NoUser ELSE v.voter
  BY DEF IInv, TypeOK, VoteRow
<1>3. \A v, w \in VotesOf(u) \cup VotesOf(NoUser) : v = w
  BY <1>1 DEF SetNullConflicts
<1>4. TypeOK'
  BY <1>1, <1>2 DEF IInv, TypeOK
<1>5. OneVotePerUser'
  <2> SUFFICES ASSUME NEW v \in votes, NEW w \in votes,
                      renamed(v).voter = renamed(w).voter
               PROVE  renamed(v) = renamed(w)
    <3> HIDE DEF renamed
    <3> QED BY <1>1 DEF OneVotePerUser
  <2>1. v.voter = w.voter \/ {v, w} \subseteq VotesOf(u) \cup VotesOf(NoUser)
    BY <1>2 DEF VotesOf
  <2> QED BY <1>3, <2>1 DEF IInv, OneVotePerUser
<1>6. IdsAreKeys'
  <2>1. \A v, w \in votes : renamed(v).id = renamed(w).id => renamed(v) = renamed(w)
    BY <1>2 DEF IInv, IdsAreKeys
  <2>2. \A v \in votes : renamed(v).id < nextId
    BY <1>2 DEF IInv, IdsAreKeys
  <2> HIDE DEF renamed
  <2> QED BY <1>1, <2>1, <2>2 DEF IdsAreKeys
<1>7. SeenIsOwn'
  <2> SUFFICES ASSUME NEW r \in Requests, NEW v \in votes, req[r].pc = "toggling",
                      req[r].seen # NoVote, renamed(v).id = req[r].seen.id
               PROVE  /\ renamed(v).voter \in {owner[r], NoUser}
                      /\ renamed(v).weight = req[r].seen.weight
    BY <1>1 DEF SeenIsOwn
  <2> HIDE DEF renamed
  <2> QED BY <1>2 DEF IInv, SeenIsOwn
<1>8. SeenIsPast' /\ WeightIsRead'
  BY <1>1 DEF IInv, SeenIsPast, WeightIsRead
<1>9. SeenApart' /\ SerialReads'
  <2>1. \A v \in votes : renamed(v) \in votes' /\ renamed(v).id = v.id
    BY <1>1, <1>2
  <2> HIDE DEF renamed
  <2> QED BY <1>1, <2>1 DEF IInv, SeenApart, SerialReads
<1> QED BY <1>4, <1>5, <1>6, <1>7, <1>8, <1>9 DEF IInv

\* With the thread every vote goes.
LEMMA DeleteThreadPreserves == IInv /\ DeleteThread => IInv'
<1> SUFFICES ASSUME IInv, DeleteThread PROVE IInv'
  OBVIOUS
<1>1. votes' = {} /\ UNCHANGED <<accounts, weightOf, nextId, req, serial>>
  BY DEF DeleteThread
<1>2. TypeOK'
  BY DEF DeleteThread, IInv, TypeOK
<1>3. OneVotePerUser' /\ IdsAreKeys' /\ SeenIsOwn'
  BY <1>1 DEF OneVotePerUser, IdsAreKeys, SeenIsOwn
<1>4. SeenIsPast' /\ WeightIsRead'
  BY <1>1 DEF IInv, SeenIsPast, WeightIsRead
<1>5. SeenApart' /\ SerialReads'
  BY <1>1 DEF DeleteThread, IInv, SeenApart, SerialReads
<1> QED BY <1>2, <1>3, <1>4, <1>5 DEF IInv

LEMMA StutterPreserves == IInv /\ UNCHANGED vars => IInv'
  BY DEF vars, IInv, TypeOK, OneVotePerUser, IdsAreKeys, SeenIsOwn, SeenIsPast, WeightIsRead,
         SeenApart, SerialReads

\* Ids, one vote per user and the ownership of what requests saw survive
\* every interleaving of toggles and deletions (forum.py:561-615).
THEOREM Invariance == Spec => []IInv
<1>1. IInv /\ [Next]_vars => IInv'
  BY SelectPreserves, VotePreserves, UnvotePreserves, AbortPreserves,
     WeightChangesPreserves, DeleteAccountPreserves, DeleteThreadPreserves,
     StutterPreserves DEF Next
<1> QED BY InitHolds, <1>1, PTL DEF Spec

\* A user has at most one vote on a thread, however many of the user's
\* requests run at once (c3d4e5f6a7b8:28-40, forum.py:604-608).
THEOREM OneVote == Spec => []OneVotePerUser
<1>1. IInv => OneVotePerUser
  BY DEF IInv
<1> QED BY <1>1, Invariance, PTL

\* A vote leaves a standing thread only by a request of its own voter
\* (session.delete by primary key, forum.py:589).
THEOREM OnlyOwn == Spec => OnlyOwnVoteRemoved
<1> DEFINE Removal == \A v \in votes :
       thread' /\ (\A w \in votes' : w.id # v.id) =>
         \E r \in Requests : /\ v.voter \in {owner[r], NoUser}
                             /\ req[r].pc = "toggling" /\ req'[r].pc = "idle"
<1>1. ASSUME IInv, [Next]_vars
      PROVE  [Removal]_vars
  <2> SUFFICES ASSUME NEW v \in votes, thread', \A w \in votes' : w.id # v.id
               PROVE  \E r \in Requests : /\ v.voter \in {owner[r], NoUser}
                                          /\ req[r].pc = "toggling" /\ req'[r].pc = "idle"
    OBVIOUS
  <2>1. PICK r \in Requests : Unvote(r)
    <3>1. v \notin votes'
      OBVIOUS
    <3>2. ASSUME NEW r \in Requests, Select(r) \/ Abort(r) PROVE FALSE
      BY <3>1, <3>2 DEF Select, Abort
    <3>3. ASSUME NEW r \in Requests, Vote(r) PROVE FALSE
      <4>1. votes \subseteq votes'
        BY <3>3 DEF Vote
      <4> QED BY <3>1, <4>1
    <3>4. ASSUME NEW u \in Users, WeightChanges(u) PROVE FALSE
      BY <3>1, <3>4 DEF WeightChanges
    <3>5. ASSUME NEW u \in Users, DeleteAccount(u) PROVE FALSE
      <4> DEFINE w == IF v.voter = u THEN [v EXCEPT !.voter = NoUser] ELSE v
      <4>1. w \in votes'
        BY <3>5 DEF DeleteAccount, DeleteUser
      <4>2. w.id = v.id
        BY <1>1 DEF IInv, TypeOK, VoteRow
      <4> QED BY <4>1, <4>2
    <3>6. ~DeleteThread
      BY DEF DeleteThread
    <3>7. ~UNCHANGED vars
      BY <3>1 DEF vars
    <3> QED BY <1>1, <3>2, <3>3, <3>4, <3>5, <3>6, <3>7 DEF Next
  <2>2. /\ req[r].pc = "toggling" /\ req[r].seen # NoVote
        /\ req' = [req EXCEPT ![r] = Idle]
        /\ votes' = {x \in votes : x.id # req[r].seen.id}
    BY <2>1 DEF Unvote
  <2>3. v.id = req[r].seen.id
    BY <2>2
  <2>4. v.voter \in {owner[r], NoUser}
    BY <1>1, <2>2, <2>3 DEF IInv, SeenIsOwn
  <2>5. req'[r].pc = "idle"
    BY <1>1, <2>2 DEF IInv, TypeOK, Idle
  <2> QED BY <2>2, <2>4, <2>5
<1> QED BY <1>1, Invariance, PTL DEF Spec, OnlyOwnVoteRemoved

-----------------------------------------------------------------------------
(* What the score adds up to.  A vote brings points of its own, so sums    *)
(* are cardinalities of disjoint unions.                                   *)

LEMMA OneVoteMore ==
  ASSUME NEW S, NEW x, x \notin S, x.weight \in Nat, IsFiniteSet(Points(S))
  PROVE  /\ IsFiniteSet(Points(S \cup {x}))
         /\ SumOfWeights(S) \in Nat
         /\ SumOfWeights(S \cup {x}) = SumOfWeights(S) + x.weight
<1> DEFINE one == {x}
           points == 1..x.weight
           own == one \X points
<1>1. Points(S \cup {x}) = Points(S) \cup own /\ Points(S) \cap own = {}
  BY DEF Points
<1>2. IsFiniteSet(own) /\ Cardinality(own) = x.weight
  <2>1. IsFiniteSet(one) /\ Cardinality(one) = 1
    BY FS_Singleton
  <2>2. IsFiniteSet(points) /\ Cardinality(points) = x.weight
    <3>1. ASSUME NEW n \in Nat PROVE IsFiniteSet(1..n) /\ Cardinality(1..n) = n
      <4>1. /\ IsFiniteSet(1..n)
            /\ Cardinality(1..n) = IF 1 > n THEN 0 ELSE n - 1 + 1
        BY FS_Interval
      <4>2. (IF 1 > n THEN 0 ELSE n - 1 + 1) = n
        OBVIOUS
      <4> QED BY <4>1, <4>2
    <3> QED BY <3>1
  <2> HIDE DEF one, points
  <2>3. IsFiniteSet(own) /\ Cardinality(own) = 1 * x.weight
    BY <2>1, <2>2, FS_Product
  <2> QED BY <2>3
<1>3. /\ IsFiniteSet(Points(S) \cup own)
      /\ Cardinality(Points(S) \cup own)
           = Cardinality(Points(S)) + Cardinality(own) - Cardinality(Points(S) \cap own)
  <2> HIDE DEF own
  <2> QED BY <1>2, FS_Union
<1>4. Cardinality({}) = 0 /\ Cardinality(Points(S)) \in Nat
  BY FS_EmptySet, FS_CardinalityType
<1>5. /\ IsFiniteSet(Points(S \cup {x}))
      /\ Cardinality(Points(S \cup {x})) = Cardinality(Points(S)) + x.weight - 0
  <2> HIDE DEF own, one, points
  <2> QED BY <1>1, <1>2, <1>3, <1>4
<1> QED BY <1>4, <1>5 DEF SumOfWeights

LEMMA FewerVotes ==
  ASSUME NEW S, NEW T \in SUBSET S, IsFiniteSet(Points(S))
  PROVE  IsFiniteSet(Points(T))
<1>1. Points(T) \subseteq Points(S)
  BY DEF Points
<1> QED BY <1>1, FS_Subset

\* The score is right, there is an end to counting it, and the votes go with
\* the thread.
ScoreInv ==
  /\ SerialScoreIsSum
  /\ IsFiniteSet(Points(votes))
  /\ ~thread => votes = {}

LEMMA InitScore == Init => ScoreInv
<1> SUFFICES ASSUME Init PROVE ScoreInv
  OBVIOUS
<1>1. IsFiniteSet(Points({})) /\ SumOfWeights({}) = 0
  <2>1. Points({}) = {}
    BY DEF Points
  <2> QED BY <2>1, FS_EmptySet DEF SumOfWeights
<1>2. CASE votes = {} /\ score = 0
  BY <1>1, <1>2 DEF Init, ScoreInv, SerialScoreIsSum, ScoreIsSumOfWeights
<1>3. CASE votes = {LegacyVote} /\ score = LegacyVote.weight
  <2>1. LegacyVote.weight = 1 /\ votes = {} \cup {LegacyVote}
    BY <1>3 DEF LegacyVote
  <2>2. IsFiniteSet(Points(votes)) /\ SumOfWeights(votes) = 0 + 1
    <3>1. LegacyVote \notin {} /\ LegacyVote.weight \in Nat
      BY <2>1
    <3>2. /\ IsFiniteSet(Points({} \cup {LegacyVote}))
          /\ SumOfWeights({} \cup {LegacyVote}) = SumOfWeights({}) + LegacyVote.weight
      BY <1>1, <3>1, OneVoteMore
    <3> QED BY <1>1, <2>1, <3>2
  <2> QED BY <1>3, <2>1, <2>2 DEF Init, ScoreInv, SerialScoreIsSum, ScoreIsSumOfWeights
<1> QED BY <1>2, <1>3 DEF Init

\* A new vote is not among the others.
LEMMA VoteScores ==
  ASSUME IInv, ScoreInv, NEW r \in Requests, Vote(r)
  PROVE  ScoreInv'
<1> DEFINE row == [id |-> nextId, voter |-> owner[r], token |-> Sentinel,
                   weight |-> req[r].weight]
<1>1. CASE InsertConflicts(owner[r])
  BY <1>1 DEF Vote, ScoreInv, SerialScoreIsSum, ScoreIsSumOfWeights
<1>2. CASE ~InsertConflicts(owner[r])
  <2>1. /\ votes' = votes \cup {row} /\ score' = score + row.weight
        /\ thread /\ UNCHANGED <<thread, serial>>
    BY <1>2 DEF Vote, InsertConflicts
  <2>2. row \notin votes
    BY DEF IInv, IdsAreKeys, TypeOK
  <2>3. row.weight \in Nat
    BY DEF IInv, TypeOK, Request
  <2>4. IsFiniteSet(Points(votes')) /\ SumOfWeights(votes') = SumOfWeights(votes) + row.weight
    <3> HIDE DEF row
    <3> QED BY <2>1, <2>2, <2>3, OneVoteMore DEF ScoreInv
  <2> QED BY <2>1, <2>4 DEF ScoreInv, SerialScoreIsSum, ScoreIsSumOfWeights
<1> QED BY <1>1, <1>2

\* While users wait, the vote a request removes is still there, with the
\* weight it had when it was read, and the score covers it.
LEMMA UnvoteScores ==
  ASSUME IInv, ScoreInv, NEW r \in Requests, Unvote(r)
  PROVE  ScoreInv'
<1>1. /\ req[r].seen # NoVote /\ req[r].pc = "toggling"
      /\ votes' = {v \in votes : v.id # req[r].seen.id}
      /\ score' = Deducted(req[r].seen.weight)
      /\ UNCHANGED <<thread, serial>>
  BY DEF Unvote
<1>2. IsFiniteSet(Points(votes'))
  BY <1>1, FewerVotes DEF ScoreInv
<1>3. ASSUME serial PROVE score' = SumOfWeights(votes')
  <2>0. score = SumOfWeights(votes)
    BY <1>3 DEF ScoreInv, SerialScoreIsSum, ScoreIsSumOfWeights
  <2>1. CASE ~thread
    <3>1. votes' = votes
      BY <1>1, <2>1 DEF ScoreInv
    <3> QED BY <1>1, <2>0, <2>1, <3>1 DEF Deducted
  <2>2. CASE thread
    <3>1. PICK v \in votes : v.id = req[r].seen.id
      BY <1>1, <1>3, <2>2 DEF IInv, SerialReads
    <3>2. v.weight = req[r].seen.weight /\ v.weight \in Nat
      BY <1>1, <3>1 DEF IInv, SeenIsOwn, TypeOK, VoteRow
    <3>3. v \notin votes' /\ votes = votes' \cup {v}
      BY <1>1, <3>1 DEF IInv, IdsAreKeys
    <3>4. SumOfWeights(votes') \in Nat /\ score = SumOfWeights(votes') + v.weight
      BY <1>2, <2>0, <3>2, <3>3, OneVoteMore
    <3> QED BY <1>1, <2>2, <3>2, <3>4 DEF Deducted
  <2> QED BY <2>1, <2>2
<1> QED BY <1>1, <1>2, <1>3 DEF ScoreInv, SerialScoreIsSum, ScoreIsSumOfWeights

\* A vote that loses its voter keeps its weight.
LEMMA DeleteAccountScores ==
  ASSUME IInv, ScoreInv, NEW u \in Users, DeleteAccount(u)
  PROVE  ScoreInv'
<1> DEFINE renamed(v) == IF v.voter = u THEN [v EXCEPT !.voter = NoUser] ELSE v
<1>1. votes' = {renamed(v) : v \in votes} /\ UNCHANGED <<thread, score, serial>>
  BY DEF DeleteAccount, DeleteUser
<1>2. CASE \A v \in votes : v.voter # u
  <2>1. votes' = votes
    BY <1>1, <1>2
  <2> QED BY <1>1, <2>1 DEF ScoreInv, SerialScoreIsSum, ScoreIsSumOfWeights
<1>3. ASSUME NEW v \in votes, v.voter = u PROVE ScoreInv'
  <2> DEFINE rest == votes \ {v}
             w == [v EXCEPT !.voter = NoUser]
  <2>1. \A x \in rest : x.voter # u /\ x.id # v.id
    BY <1>3 DEF IInv, OneVotePerUser, IdsAreKeys
  <2>2. w.id = v.id /\ w.weight = v.weight /\ v.weight \in Nat
    BY DEF IInv, TypeOK, VoteRow
  <2>3. votes' = rest \cup {w} /\ votes = rest \cup {v}
    BY <1>1, <1>3, <2>1
  <2>4. v \notin rest /\ w \notin rest
    BY <2>1, <2>2
  <2>5. IsFiniteSet(Points(rest))
    BY FewerVotes DEF ScoreInv
  <2> HIDE DEF rest, w
  <2>6. SumOfWeights(votes) = SumOfWeights(rest) + v.weight
    BY <2>2, <2>3, <2>4, <2>5, OneVoteMore
  <2>7. IsFiniteSet(Points(votes')) /\ SumOfWeights(votes') = SumOfWeights(rest) + v.weight
    BY <2>2, <2>3, <2>4, <2>5, OneVoteMore
  <2> QED BY <1>1, <2>6, <2>7 DEF ScoreInv, SerialScoreIsSum, ScoreIsSumOfWeights
<1> QED BY <1>2, <1>3

LEMMA StepScores == IInv /\ ScoreInv /\ [Next]_vars => ScoreInv'
<1> SUFFICES ASSUME IInv, ScoreInv, [Next]_vars PROVE ScoreInv'
  OBVIOUS
<1> USE DEF ScoreInv, SerialScoreIsSum, ScoreIsSumOfWeights
<1>1. ASSUME NEW r \in Requests, Select(r) PROVE ScoreInv'
  BY <1>1 DEF Select
<1>2. ASSUME NEW r \in Requests, Abort(r) PROVE ScoreInv'
  BY <1>2 DEF Abort
<1>3. ASSUME NEW u \in Users, WeightChanges(u) PROVE ScoreInv'
  BY <1>3 DEF WeightChanges
<1>4. CASE DeleteThread
  <2>1. votes' = {} /\ score' = 0 /\ Points({}) = {}
    BY <1>4 DEF DeleteThread, Points
  <2> QED BY <2>1, FS_EmptySet DEF SumOfWeights
<1>5. CASE UNCHANGED vars
  BY <1>5 DEF vars
<1> QED BY <1>1, <1>2, <1>3, <1>4, <1>5, VoteScores, UnvoteScores, DeleteAccountScores DEF Next

\* While every user waits for an answer before clicking again, the score is
\* the sum of the weights of the votes, for any number of users, whatever
\* their memberships and accounts do meanwhile (forum.py:590-594, 609-613).
THEOREM ScoreIsSum == Spec => []SerialScoreIsSum
<1>1. ScoreInv => SerialScoreIsSum
  BY DEF ScoreInv
<1> QED BY InitScore, StepScores, Invariance, <1>1, PTL DEF Spec

-----------------------------------------------------------------------------
(* Membership, where the weights of votes come from.  It works on the same *)
(* table of accounts.  The invariant: the rows are those due for the       *)
(* sessions answered for, each once; and an event has either both ids or   *)
(* neither, so that whoever is known to the board is granted a tier.       *)

IdsTogether ==
  \A c \in Checkouts : checkout[c] # NoCheckout =>
    (checkout[c].user \in Users <=> checkout[c].tier \in Tiers)

BoughtInv == MembershipInv /\ IdsTogether /\ GrantedOnce /\ DelayChangesNothing

\* The checkouts that memberships are due for.
Owing == {d \in acked : checkout[d].user \in accounts}

\* A row is what is due for its session, and nothing due lacks its row.
LEMMA RowsAndDues ==
  ASSUME DelayChangesNothing
  PROVE  /\ \A m \in rows : m.session \in Owing /\ Terms(m) = Due(m.session)
         /\ \A c \in Owing : \E m \in rows : Terms(m) = Due(c)
<1>1. {Terms(m) : m \in rows} = {Due(c) : c \in Owing}
  BY DEF DelayChangesNothing, Owing
<1>2. ASSUME NEW m \in rows PROVE m.session \in Owing /\ Terms(m) = Due(m.session)
  <2>1. PICK c \in Owing : Terms(m) = Due(c)
    BY <1>1
  <2>2. c = m.session
    BY <2>1 DEF Terms, Due
  <2> QED
    BY <2>1, <2>2
<1>3. ASSUME NEW c \in Owing PROVE \E m \in rows : Terms(m) = Due(c)
  BY <1>1
<1> QED
  BY <1>2, <1>3

\* The board starts with no session and no row.
LEMMA BoardOpens == MembershipInit => BoughtInv
  BY TimesAssumption
  DEF MembershipInit, BoughtInv, MembershipInv, MembershipTypeOK, EventsInOrder, IdsTogether,
      GrantedOnce, DelayChangesNothing

\* A change of one session that nothing was answered for yet leaves the rows
\* as they were due.
LEMMA OtherSessionsKeepRows ==
  ASSUME BoughtInv, NEW c \in Checkouts, NEW s \in Session,
         checkout[c].status # "completed",
         checkout' = [checkout EXCEPT ![c] = s],
         s.created <= s.completed, s.completed <= now,
         s.user \in Users <=> s.tier \in Tiers,
         UNCHANGED <<now, accounts, acked, rows, nextRow>>
  PROVE  BoughtInv'
<1>1. checkout'[c] = s /\ \A d \in Checkouts \ {c} : checkout'[d] = checkout[d]
  BY DEF BoughtInv, MembershipInv, MembershipTypeOK
<1>2. c \notin acked /\ acked \subseteq Checkouts
  BY DEF BoughtInv, MembershipInv, MembershipTypeOK, EventsInOrder
<1>3. MembershipTypeOK'
  BY DEF BoughtInv, MembershipInv, MembershipTypeOK
<1>4. EventsInOrder' /\ IdsTogether'
  BY <1>1, <1>2 DEF BoughtInv, MembershipInv, EventsInOrder, IdsTogether
<1>5. \A m \in rows : m.session \in Checkouts \ {c}
  BY <1>2 DEF BoughtInv, MembershipInv, MembershipTypeOK, GrantedOnce, Row
<1>6. GrantedOnce'
  BY <1>1, <1>5 DEF BoughtInv, GrantedOnce
<1>7. DelayChangesNothing'
  <2>1. Owing' = Owing /\ Owing \subseteq Checkouts \ {c}
    BY <1>1, <1>2 DEF Owing
  <2>2. \A d \in Owing : Due(d)' = Due(d)
    BY <1>1, <2>1 DEF Due
  <2>3. {Due(d) : d \in Owing}' = {Due(d) : d \in Owing}
    BY <2>1, <2>2
  <2>4. {Terms(m) : m \in rows}' = {Terms(m) : m \in rows}
    BY DEF Terms
  <2> QED
    BY <2>3, <2>4 DEF BoughtInv, DelayChangesNothing, Owing
<1> QED
  BY <1>3, <1>4, <1>6, <1>7 DEF BoughtInv, MembershipInv

\* A delivery adds the row that is due, if the buyer is known and it is not
\* there yet, and otherwise leaves nothing owing.
LEMMA DeliverAddsOne ==
  ASSUME BoughtInv, NEW c \in Checkouts, Deliver(c)
  PROVE  BoughtInv'
<1> DEFINE row == [id |-> nextRow, session |-> c, user |-> checkout[c].user,
                   tier |-> checkout[c].tier, expires |-> Expires(c)]
<1> USE TimesAssumption
<1>0. /\ checkout[c] \in Session /\ now \in 0..MaxTime /\ checkout[c].status = "completed"
      /\ checkout[c] # NoCheckout
  BY DEF BoughtInv, MembershipInv, MembershipTypeOK, Deliver, NoCheckout, Session
<1>1. UNCHANGED <<now, accounts, checkout>> /\ acked' = Acknowledged(c)
  BY DEF Deliver
<1>2. \A d \in Checkouts : Due(d)' = Due(d)
  BY <1>1 DEF Due
<1>3. EventsInOrder' /\ IdsTogether' /\ acked' \subseteq Checkouts
  BY <1>0, <1>1
  DEF BoughtInv, MembershipInv, MembershipTypeOK, EventsInOrder, IdsTogether, Acknowledged
<1>4. CASE Skipped(c) \/ BadMetadata(c) \/ Refused(c)
  <2>1. UNCHANGED <<rows, nextRow>>
    BY <1>4 DEF Deliver
  <2>2. MembershipTypeOK' /\ GrantedOnce'
    BY <1>1, <1>3, <2>1 DEF BoughtInv, MembershipInv, MembershipTypeOK, GrantedOnce
  <2>3. Owing' = Owing
    <3>1. CASE BadMetadata(c)
      BY <1>1, <3>1 DEF Acknowledged, Owing
    <3>2. CASE Skipped(c)
      <4>1. checkout[c].user \notin Users
        BY <1>0, <3>2, NoIdAssumption DEF Skipped, BoughtInv, IdsTogether
      <4> QED
        BY <1>1, <4>1 DEF Owing, Acknowledged, BoughtInv, MembershipInv, MembershipTypeOK
    <3>3. CASE checkout[c].user \notin accounts
      BY <1>1, <3>3 DEF Owing, Acknowledged
    <3>4. CASE GrantConflicts(c)
      <4>1. c \in Owing
        BY <3>4, RowsAndDues DEF GrantConflicts, BoughtInv
      <4> QED
        BY <1>1, <4>1 DEF Owing, Acknowledged
    <3> QED
      BY <1>4, <3>1, <3>2, <3>3, <3>4 DEF Refused
  <2>4. DelayChangesNothing'
    <3>1. {Due(d) : d \in Owing}' = {Due(d) : d \in Owing}
      BY <1>1, <2>3 DEF Due
    <3>2. {Terms(m) : m \in rows}' = {Terms(m) : m \in rows}
      BY <2>1 DEF Terms
    <3> QED
      BY <3>1, <3>2 DEF BoughtInv, DelayChangesNothing, Owing
  <2> QED
    BY <1>3, <2>2, <2>4 DEF BoughtInv, MembershipInv
<1>5. CASE ~(Skipped(c) \/ BadMetadata(c) \/ Refused(c))
  <2>1. rows' = rows \cup {row} /\ nextRow <= MaxRow /\ nextRow' = nextRow + 1
    BY <1>5 DEF Deliver
  <2>2. checkout[c].user \in accounts /\ checkout[c].tier \in Tiers
    BY <1>0, <1>5 DEF Refused, BoughtInv, IdsTogether, MembershipInv, MembershipTypeOK
  <2>3. Expires(c) \in Period..(MaxTime + Period)
    BY <1>0 DEF Expires, Session
  <2>4. row \in Row
    BY <1>0, <2>1, <2>2, <2>3 DEF BoughtInv, MembershipInv, MembershipTypeOK, Row
  <2>5. \A m \in rows : m.session # c
    BY <1>5 DEF Refused, GrantConflicts
  <2>6. MembershipTypeOK'
    BY <1>1, <1>3, <2>1, <2>4 DEF BoughtInv, MembershipInv, MembershipTypeOK
  <2>7. GrantedOnce'
    BY <1>0, <1>1, <2>1, <2>5 DEF BoughtInv, GrantedOnce
  <2>8. DelayChangesNothing'
    <3>1. Owing' = Owing \cup {c}
      BY <1>1, <1>5, <2>2 DEF Owing, Acknowledged
    <3>2. {Due(d) : d \in Owing}' = {Due(d) : d \in Owing} \cup {Due(c)}
      BY <1>1, <3>1 DEF Due
    <3>3. {Terms(m) : m \in rows}' = {Terms(m) : m \in rows} \cup {Terms(row)}
      BY <2>1 DEF Terms
    <3>4. Terms(row) = Due(c)
      BY DEF Terms, Due, Expires
    <3> QED
      BY <3>2, <3>3, <3>4 DEF BoughtInv, DelayChangesNothing, Owing
  <2> QED
    BY <1>3, <2>6, <2>7, <2>8 DEF BoughtInv, MembershipInv
<1> QED
  BY <1>4, <1>5

\* With the account go its rows, and nothing is owed to it.
LEMMA DeleteBuyerTakesRows ==
  ASSUME BoughtInv, NEW u \in Users, DeleteBuyer(u)
  PROVE  BoughtInv'
<1>1. /\ accounts' = accounts \ {u} /\ rows' = {m \in rows : m.user # u}
      /\ UNCHANGED <<now, checkout, acked, nextRow>>
  BY DEF DeleteBuyer, DeleteUser
<1>2. MembershipInv' /\ IdsTogether' /\ GrantedOnce'
  BY <1>1
  DEF BoughtInv, MembershipInv, MembershipTypeOK, EventsInOrder, IdsTogether, GrantedOnce
<1>3. ASSUME NEW m \in rows' PROVE \E c \in Owing' : Terms(m) = Due(c)'
  <2>1. m.session \in Owing /\ Terms(m) = Due(m.session)
    BY <1>1, <1>3, RowsAndDues DEF BoughtInv
  <2>2. m.user = checkout[m.session].user
    BY <2>1 DEF Terms, Due
  <2>3. m.session \in Owing' /\ Due(m.session)' = Due(m.session)
    BY <1>1, <1>3, <2>1, <2>2 DEF Owing, Due
  <2> QED
    BY <2>1, <2>3
<1>4. ASSUME NEW c \in Owing' PROVE \E m \in rows' : Terms(m) = Due(c)'
  <2>1. c \in Owing /\ checkout[c].user # u /\ Due(c)' = Due(c)
    BY <1>1, <1>4 DEF Owing, Due
  <2>2. PICK m \in rows : Terms(m) = Due(c)
    BY <2>1, RowsAndDues DEF BoughtInv
  <2>3. m.user = checkout[c].user
    BY <2>2 DEF Terms, Due
  <2> QED
    BY <1>1, <2>1, <2>2, <2>3
<1>5. DelayChangesNothing'
  <2>1. {Terms(m) : m \in rows'} = {Due(c)' : c \in Owing'}
    BY <1>3, <1>4
  <2> QED
    BY <2>1 DEF DelayChangesNothing, Owing, Terms
<1> QED
  BY <1>2, <1>5 DEF BoughtInv

\* Every step of the board, of Stripe and of the clock keeps the invariant.
LEMMA StepKeepsRows ==
  ASSUME BoughtInv, [MembershipNext]_membershipVars
  PROVE  BoughtInv'
<1> USE TimesAssumption
<1>0. now \in 0..MaxTime /\ \A s \in Session : s.created \in Int /\ s.completed \in Int
  BY DEF BoughtInv, MembershipInv, MembershipTypeOK, Session
<1>1. CASE Tick
  BY <1>0, <1>1
  DEF Tick, BoughtInv, MembershipInv, MembershipTypeOK, EventsInOrder, IdsTogether,
      GrantedOnce, DelayChangesNothing, Terms, Due
<1>2. ASSUME NEW c \in Checkouts, Complete(c) PROVE BoughtInv'
  <2> DEFINE s == [checkout[c] EXCEPT !.status = "completed", !.completed = now]
  <2>1. checkout[c] \in Session /\ checkout[c].status = "open" /\ checkout[c] # NoCheckout
    BY <1>2 DEF Complete, BoughtInv, MembershipInv, MembershipTypeOK, NoCheckout
  <2>2. s \in Session /\ s.completed = now /\ s.created = checkout[c].created
    BY <1>0, <2>1 DEF Session
  <2>3. s.user = checkout[c].user /\ s.tier = checkout[c].tier
    BY <2>1 DEF Session
  <2>4. s.created <= now
    BY <1>0, <2>1, <2>2 DEF BoughtInv, MembershipInv, EventsInOrder
  <2>5. s.user \in Users <=> s.tier \in Tiers
    BY <2>1, <2>3 DEF BoughtInv, IdsTogether
  <2>6. checkout' = [checkout EXCEPT ![c] = s]
    BY <1>2, <2>1 DEF Complete, BoughtInv, MembershipInv, MembershipTypeOK
  <2>7. UNCHANGED <<now, accounts, acked, rows, nextRow>>
    BY <1>2 DEF Complete
  <2> HIDE DEF s
  <2>8. s.created <= s.completed /\ s.completed <= now
    BY <1>0, <2>2, <2>4
  <2> QED
    BY <2>1, <2>2, <2>5, <2>6, <2>7, <2>8, OtherSessionsKeepRows
<1>3. ASSUME NEW c \in Checkouts, Deliver(c) PROVE BoughtInv'
  BY <1>3, DeliverAddsOne
<1>4. ASSUME NEW c \in Checkouts, NEW u \in Users, NEW t \in Tiers, Checkout(u, t, c)
      PROVE  BoughtInv'
  <2> DEFINE s == Opened(u, t)
  <2>1. /\ s \in Session
        /\ s.created <= s.completed /\ s.completed <= now
        /\ s.user = u /\ s.tier = t
    BY <1>0 DEF Opened, Session
  <2>2. checkout[c].status # "completed"
    BY <1>4 DEF Checkout, NoCheckout
  <2>3. /\ checkout' = [checkout EXCEPT ![c] = s]
        /\ UNCHANGED <<now, accounts, acked, rows, nextRow>>
    BY <1>4 DEF Checkout
  <2> HIDE DEF s
  <2>4. s.user \in Users <=> s.tier \in Tiers
    BY <2>1
  <2> QED
    BY <2>1, <2>2, <2>3, <2>4, OtherSessionsKeepRows
<1>5. ASSUME NEW c \in Checkouts, NEW id \in NoId, Foreign(c, id) PROVE BoughtInv'
  <2> DEFINE s == Opened(id, id)
  <2>1. /\ s \in Session
        /\ s.created <= s.completed /\ s.completed <= now
        /\ s.user = id /\ s.tier = id
    BY <1>0, NoIdAssumption DEF Opened, Session
  <2>2. checkout[c].status # "completed"
    BY <1>5 DEF Foreign, NoCheckout
  <2>3. /\ checkout' = [checkout EXCEPT ![c] = s]
        /\ UNCHANGED <<now, accounts, acked, rows, nextRow>>
    BY <1>5 DEF Foreign
  <2> HIDE DEF s
  <2>4. s.user \in Users <=> s.tier \in Tiers
    BY <2>1, NoIdAssumption DEF NoId
  <2> QED
    BY <2>1, <2>2, <2>3, <2>4, OtherSessionsKeepRows
<1>6. ASSUME NEW u \in Users, DeleteBuyer(u) PROVE BoughtInv'
  BY <1>6, DeleteBuyerTakesRows
<1>7. CASE UNCHANGED membershipVars
  BY <1>7
  DEF membershipVars, BoughtInv, MembershipInv, MembershipTypeOK, EventsInOrder, IdsTogether,
      GrantedOnce, DelayChangesNothing, Terms, Due
<1> QED
  BY <1>1, <1>2, <1>3, <1>4, <1>5, <1>6, <1>7 DEF MembershipNext

LEMMA BoughtHolds == MembershipSpec => []BoughtInv
  BY BoardOpens, StepKeepsRows, PTL DEF MembershipSpec

\* Rows and sessions keep their types, and events their order
\* (services/membership.py:40-69).
THEOREM RowsAreTyped == MembershipSpec => []MembershipInv
<1>1. BoughtInv => MembershipInv
  BY DEF BoughtInv
<1> QED
  BY <1>1, BoughtHolds, PTL

\* A completed checkout is granted at most once, to its buyer, however often
\* its event is delivered (services/membership.py:60-69).
THEOREM OneGrantPerCheckout == MembershipSpec => []GrantedOnce
<1>1. BoughtInv => GrantedOnce
  BY DEF BoughtInv
<1> QED
  BY <1>1, BoughtHolds, PTL

\* The memberships are those due for the checkouts answered for: the time,
\* the order and the number of deliveries change none of them
\* (routes/membership.py:135-142).
THEOREM DeliveryTimeIsIrrelevant == MembershipSpec => []DelayChangesNothing
<1>1. BoughtInv => DelayChangesNothing
  BY DEF BoughtInv
<1> QED
  BY <1>1, BoughtHolds, PTL

\* A vote weighs more than one only while a completed checkout of a tier of
\* that weight lasts (services/membership.py:13-37).
THEOREM WeightIsBought == MembershipSpec => []NoUnboughtWeight
<1>1. BoughtInv => NoUnboughtWeight
  <2> SUFFICES ASSUME BoughtInv, NEW u \in accounts, NEW w \in VoteWeights(u) \ {1}
               PROVE  \E c \in Checkouts : /\ checkout[c].status = "completed"
                                           /\ checkout[c].user = u
                                           /\ tierWeight[checkout[c].tier] = w
                                           /\ now < checkout[c].created + Period
    BY DEF NoUnboughtWeight
  <2>1. PICK m \in Current(u) : tierWeight[m.tier] = w
    BY DEF VoteWeights
  <2>2. m \in rows /\ m.user = u /\ m.expires > now
    BY DEF Current, Active
  <2>3. m \in Row /\ m.session \in Checkouts
    BY <2>2 DEF BoughtInv, MembershipInv, MembershipTypeOK, Row
  <2>4. /\ checkout[m.session].status = "completed"
        /\ checkout[m.session].user = u
        /\ checkout[m.session].tier = m.tier
    BY <2>2 DEF BoughtInv, GrantedOnce
  <2>5. checkout[m.session] \in Session
    BY <2>3, <2>4 DEF BoughtInv, MembershipInv, MembershipTypeOK, NoCheckout
  <2>6. m.expires = checkout[m.session].created + Period
    BY <2>2, RowsAndDues DEF BoughtInv, Terms, Due
  <2>7. now \in Int /\ checkout[m.session].created + Period \in Int
    BY <2>5, TimesAssumption DEF BoughtInv, MembershipInv, MembershipTypeOK, Session
  <2>8. now < checkout[m.session].created + Period
    BY <2>2, <2>6, <2>7
  <2> QED
    BY <2>1, <2>3, <2>4, <2>8
<1> QED
  BY <1>1, BoughtHolds, PTL

\* A grant of another tier never takes time away from the buyer
\* (services/membership.py:25).
THEOREM TimeIsKept == MembershipSpec => TimeNeverShrinks
<1>1. BoughtInv /\ [MembershipNext]_membershipVars =>
        [\A u \in Users : \A m \in Current(u) :
           u \in accounts' /\ now' = now =>
             \E n \in Current(u)' : n.expires >= m.expires]_membershipVars
  <2> SUFFICES ASSUME BoughtInv, MembershipNext, NEW u \in Users, NEW m \in Current(u),
                      u \in accounts', now' = now
               PROVE  \E n \in Current(u)' : n.expires >= m.expires
    BY DEF Current, Active
  <2>0. /\ m \in rows /\ m.user = u /\ m.expires > now /\ now \in Int
        /\ \A n \in rows : n.user = u /\ n.expires > now => n.expires <= m.expires
        /\ \A n \in rows : n.expires \in Int
    BY TimesAssumption DEF Current, Active, BoughtInv, MembershipInv, MembershipTypeOK, Row
  <2>1. CASE rows' = rows
    <3>1. m \in Current(u)'
      BY <2>0, <2>1 DEF Current, Active
    <3> QED
      BY <2>0, <3>1
  <2>2. ASSUME NEW v \in Users, DeleteBuyer(v)
        PROVE  \E n \in Current(u)' : n.expires >= m.expires
    <3>1. u # v /\ rows' = {n \in rows : n.user # v}
      BY <2>2 DEF DeleteBuyer, DeleteUser
    <3>2. m \in Current(u)'
      BY <2>0, <3>1 DEF Current, Active
    <3> QED
      BY <2>0, <3>2
  <2>3. ASSUME NEW c \in Checkouts, Deliver(c), rows' # rows
        PROVE  \E n \in Current(u)' : n.expires >= m.expires
    <3>0. rows \subseteq rows' /\ \A n \in rows' : n.expires \in Int
      <4>1. rows' \subseteq Row
        BY <2>3, DeliverAddsOne DEF BoughtInv, MembershipInv, MembershipTypeOK
      <4> QED
        BY <2>3, <4>1, TimesAssumption DEF Deliver, Row
    <3>1. PICK row : rows' = rows \cup {row}
      BY <2>3 DEF Deliver
    <3>2. CASE row.user = u /\ row.expires > m.expires
      <4>1. row \in Current(u)'
        BY <2>0, <3>0, <3>1, <3>2 DEF Current, Active
      <4> QED
        BY <2>0, <3>0, <3>1, <3>2, <4>1
    <3>3. CASE ~(row.user = u /\ row.expires > m.expires)
      <4>1. m \in Current(u)'
        BY <2>0, <3>0, <3>1, <3>3 DEF Current, Active
      <4> QED
        BY <2>0, <4>1
    <3> QED
      BY <3>2, <3>3
  <2> QED
    BY <2>1, <2>2, <2>3 DEF MembershipNext, Tick, Complete, Foreign, Checkout
<1> QED
  BY <1>1, BoughtHolds, PTL DEF MembershipSpec, TimeNeverShrinks

=============================================================================
