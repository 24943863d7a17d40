----------------------------- MODULE MCAccounts -----------------------------
(* Bounds for Accounts.  Writings, notices, admin sessions and keys touch   *)
(* each other only through an account or a request: a behaviour has some   *)
(* of one kind; those of notices and keys are a request shorter.           *)
EXTENDS Accounts, TLC

CONSTANTS r1, r2, b1, b2, s1, s2, w1, k1

Parts == <<\E w \in Writings : writings[w] # Unwritten, arrived # {},
           admin # {} \/ \E k \in Keys : keys[k].minted>>

OnePart ==
  /\ \A i, j \in DOMAIN Parts : Parts[i] /\ Parts[j] => i = j
  /\ Parts[2] \/ Parts[3] => work < MaxWork

Symmetry == Permutations({r1, r2}) \cup Permutations({b1, b2}) \cup Permutations({s1, s2})
=============================================================================
