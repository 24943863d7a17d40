----------------------------- MODULE Membership -----------------------------
(***************************************************************************)
(* Buying a membership: membership_checkout and stripe_webhook in          *)
(* app/routes/membership.py, process_checkout_completed,                   *)
(* active_membership and vote_weight_for in app/services/membership.py.    *)
(*                                                                         *)
(* Stripe keeps the checkouts, lets buyers complete them and delivers      *)
(* checkout.session.completed until a delivery is answered 200, in any     *)
(* order, late, and sometimes again after that.  A delivery is one step:   *)
(* the UNIQUE constraint on the session id makes a second INSERT of the    *)
(* same session wait for the first, and a delivery that fails before its   *)
(* commit leaves nothing and is repeated.  Events of other types and those *)
(* whose signature is wrong change nothing and are left out.               *)
(*                                                                         *)
(* The event says that a checkout was completed.  The board does not read  *)
(* payment_status: completed, not charged, is what it knows.               *)
(***************************************************************************)
EXTENDS Integers, UserRows

CONSTANTS
  Tiers,       \* active tiers with a price
  tierWeight,  \* vote_weight of a tier
  Checkouts,   \* ids of Stripe checkout sessions
  Period,      \* 30 days, in ticks
  OpenFor,     \* how long a checkout can be completed, in ticks
  Missing,     \* in place of an id that an event does not have
  Malformed,   \* in place of an id that is not a number
  MaxRow,      \* bound on the ids of user_memberships
  MaxTime      \* bound on the clock

ASSUME WeightAssumption == tierWeight \in [Tiers -> Nat \ {0, 1}]
ASSUME NoIdAssumption == Missing # Malformed /\ {Missing, Malformed} \cap (Users \cup Tiers) = {}
ASSUME TimesAssumption ==
  Period \in Nat \ {0} /\ OpenFor \in Nat /\ MaxRow \in Nat /\ MaxTime \in Nat

VARIABLES
  now,        \* the clock
  checkout,   \* checkout[c]: Stripe's session c
  acked,      \* sessions whose event was answered 200
  rows,       \* rows of user_memberships
  nextRow     \* next id of user_memberships

membershipVars == <<now, accounts, checkout, acked, rows, nextRow>>

-----------------------------------------------------------------------------

NoCheckout == [status |-> "none"]
NoId == {Missing, Malformed}

\* user is client_reference_id, tier is metadata.tier_id.
Session == [status : {"open", "completed"}, user : Users \cup NoId, tier : Tiers \cup NoId,
            created : 0..MaxTime, completed : 0..MaxTime]

Row == [id : 1..MaxRow, session : Checkouts, user : Users, tier : Tiers,
        expires : Period..(MaxTime + Period)]

MembershipTypeOK ==
  /\ now \in 0..MaxTime
  /\ accounts \subseteq Users
  /\ checkout \in [Checkouts -> Session \cup {NoCheckout}]
  /\ acked \subseteq Checkouts
  /\ rows \subseteq Row
  /\ nextRow \in 1..(MaxRow + 1)

MembershipInit ==
  /\ now = 0
  /\ accounts = Users
  /\ checkout = [c \in Checkouts |-> NoCheckout]
  /\ acked = {}
  /\ rows = {}
  /\ nextRow = 1

Tick ==
  /\ now < MaxTime
  /\ now' = now + 1
  /\ UNCHANGED <<accounts, checkout, acked, rows, nextRow>>

-----------------------------------------------------------------------------
(* What the board reads from the rows.                                     *)

\* Variant: a membership still counts when it ends.
ActiveInclusive(u) == {m \in rows : m.user = u /\ m.expires >= now}

Active(u) == {m \in rows : m.user = u /\ m.expires > now}

\* Variant: the order of the rows is the other way round.
CurrentEarliest(u) == {m \in Active(u) : \A n \in Active(u) : n.expires >= m.expires}

\* active_membership: the active rows that expire last; the query returns one
\* of them.
Current(u) == {m \in Active(u) : \A n \in Active(u) : n.expires <= m.expires}

\* vote_weight_for: the weights it may return.
VoteWeights(u) ==
  IF Current(u) = {} THEN {1} ELSE {tierWeight[m.tier] : m \in Current(u)}

-----------------------------------------------------------------------------

Opened(u, t) ==
  [status |-> "open", user |-> u, tier |-> t, created |-> now, completed |-> now]

\* membership_checkout, past the login and the tier: the guard, then Stripe.
Checkout(u, t, c) ==
  /\ u \in accounts
  /\ checkout[c] = NoCheckout
  /\ \/ Current(u) = {}
     \/ \E m \in Current(u) : m.tier # t
  /\ checkout' = [checkout EXCEPT ![c] = Opened(u, t)]
  /\ UNCHANGED <<now, accounts, acked, rows, nextRow>>

\* A session of the same Stripe account that the board did not open, a
\* payment link say: it has no ids, or ids of another kind.
Foreign(c, id) ==
  /\ checkout[c] = NoCheckout
  /\ checkout' = [checkout EXCEPT ![c] = Opened(id, id)]
  /\ UNCHANGED <<now, accounts, acked, rows, nextRow>>

\* The buyer completes the checkout on Stripe's page while it is open.
Complete(c) ==
  /\ checkout[c].status = "open"
  /\ now <= checkout[c].created + OpenFor
  /\ checkout' = [checkout EXCEPT ![c].status = "completed", ![c].completed = now]
  /\ UNCHANGED <<now, accounts, acked, rows, nextRow>>

\* Variant: the UNIQUE constraint is missing.
GrantConflictsNever(c) == FALSE

\* INSERT of a row for c raises IntegrityError.
GrantConflicts(c) == \E m \in rows : m.session = c

\* Variant: a payment made while another membership runs is turned away.
RefusedWhileActive(c) ==
  \/ checkout[c].user \notin accounts
  \/ GrantConflicts(c)
  \/ Active(checkout[c].user) # {}

\* user_not_found, or a duplicate.
Refused(c) == checkout[c].user \notin accounts \/ GrantConflicts(c)

\* Variant: counted from the delivery.
ExpiresFromDelivery(c) == now + Period

\* Variant: the 30 days are forgotten.
ExpiresAtOnce(c) == checkout[c].created

\* paid_at + 30 days, where paid_at is cs["created"]: the moment the session
\* was created, which Stripe always sends.
Expires(c) == checkout[c].created + Period

Skipped(c) == Missing \in {checkout[c].user, checkout[c].tier}
BadMetadata(c) == ~Skipped(c) /\ Malformed \in {checkout[c].user, checkout[c].tier}

\* Every outcome answers 200 (granted, duplicate, user not found, skipped)
\* except ids that are not numbers, which are answered 400.
Acknowledged(c) == IF BadMetadata(c) THEN acked ELSE acked \cup {c}

\* stripe_webhook for the event of c, until its answer.
Deliver(c) ==
  /\ checkout[c].status = "completed"
  /\ acked' = Acknowledged(c)
  /\ \/ /\ Skipped(c) \/ BadMetadata(c) \/ Refused(c)
        /\ UNCHANGED <<rows, nextRow>>
     \/ /\ ~Skipped(c) /\ ~BadMetadata(c) /\ ~Refused(c)
        /\ nextRow <= MaxRow
        /\ rows' = rows \cup
             {[id |-> nextRow, session |-> c, user |-> checkout[c].user,
               tier |-> checkout[c].tier, expires |-> Expires(c)]}
        /\ nextRow' = nextRow + 1
  /\ UNCHANGED <<now, accounts, checkout>>

\* me_delete_submit: the rows cascade; Stripe's sessions stay.
DeleteBuyer(u) ==
  /\ DeleteUser(u)
  /\ rows' = {m \in rows : m.user # u}
  /\ UNCHANGED <<now, checkout, acked, nextRow>>

MembershipNext ==
  \/ Tick
  \/ \E c \in Checkouts :
       \/ Complete(c) \/ Deliver(c)
       \/ \E u \in Users, t \in Tiers : Checkout(u, t, c)
       \/ \E id \in NoId : Foreign(c, id)
  \/ \E u \in Users : DeleteBuyer(u)

MembershipSpec == MembershipInit /\ [][MembershipNext]_membershipVars

\* Stripe retries until it gets its 200, and the handler is up by then.
Redelivery == \A c \in Checkouts : WF_membershipVars(Deliver(c) /\ c \notin acked)

FairSpec == MembershipSpec /\ Redelivery

-----------------------------------------------------------------------------

\* A checkout is completed after it was created, and answered for after it
\* was completed.
EventsInOrder ==
  /\ \A c \in Checkouts : checkout[c] # NoCheckout =>
       checkout[c].created <= checkout[c].completed /\ checkout[c].completed <= now
  /\ \A c \in acked : checkout[c].status = "completed"

\* Types, with a whole period in every row (services/membership.py:55), and
\* the order of Stripe's events.
MembershipInv == MembershipTypeOK /\ EventsInOrder

\* However often an event is delivered, its checkout is granted at most once,
\* to the buyer, and only if it was completed (the savepoint and the UNIQUE
\* constraint, services/membership.py:60-69).
GrantedOnce ==
  /\ \A m, n \in rows : m.session = n.session => m = n
  /\ \A m \in rows : /\ checkout[m.session].status = "completed"
                     /\ checkout[m.session].user = m.user
                     /\ checkout[m.session].tier = m.tier

Terms(m) == [session |-> m.session, user |-> m.user, tier |-> m.tier, expires |-> m.expires]

\* What a checkout of a buyer who is still there is worth: 30 days from the
\* moment its session was created (routes/membership.py:135-142).
Due(c) == [session |-> c, user |-> checkout[c].user, tier |-> checkout[c].tier,
           expires |-> checkout[c].created + Period]

\* The memberships are exactly those due for the checkouts that have been
\* answered for: when their events arrived, in which order and how often makes
\* no difference, and none is longer, shorter or missing
\* (routes/membership.py:130-154, services/membership.py:50-69).
DelayChangesNothing ==
  {Terms(m) : m \in rows} = {Due(c) : c \in {d \in acked : checkout[d].user \in accounts}}

\* Votes carry extra weight only while a completed checkout of a tier of that
\* weight lasts, whatever was delivered, and when
\* (services/membership.py:13-37).
NoUnboughtWeight ==
  \A u \in accounts : \A w \in VoteWeights(u) \ {1} : \E c \in Checkouts :
    /\ checkout[c].status = "completed"
    /\ checkout[c].user = u
    /\ tierWeight[checkout[c].tier] = w
    /\ now < checkout[c].created + Period

\* Buying another tier never shortens the time left (highest-expiry rule,
\* services/membership.py:16, 25).
TimeNeverShrinks ==
  [][\A u \in Users : \A m \in Current(u) :
       u \in accounts' /\ now' = now =>
         \E n \in Current(u)' : n.expires >= m.expires]_membershipVars

\* A completed checkout is granted in the end, unless the buyer has deleted
\* the account (routes/membership.py:130-154).
BoughtIsGranted ==
  \A c \in Checkouts, u \in Users :
    checkout[c].status = "completed" /\ checkout[c].user = u ~>
      (\E m \in rows : m.session = c) \/ u \notin accounts
=============================================================================
