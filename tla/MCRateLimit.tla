----------------------------- MODULE MCRateLimit -----------------------------
(***************************************************************************)
(* An instance of RateLimit.  No definition tells one address from         *)
(* another, so the addresses are interchangeable.                          *)
(***************************************************************************)
EXTENDS RateLimit, TLC

Symmetry == Permutations(Keys)
=============================================================================
