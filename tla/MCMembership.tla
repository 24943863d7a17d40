---------------------------- MODULE MCMembership ----------------------------
(***************************************************************************)
(* Instances of Membership: a cheap and a dear tier.                       *)
(***************************************************************************)
EXTENDS Membership, TLC

CONSTANTS coffee, lunch

TierWeights == coffee :> 2 @@ lunch :> 5
=============================================================================
