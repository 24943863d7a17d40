------------------------------ MODULE ApiKeys ------------------------------
(***************************************************************************)
(* Keys of the admin API: minted and revoked on the admin pages, looked up *)
(* by every API call (services/api_key.py, routes/admin.py).               *)
(***************************************************************************)
EXTENDS Sessions

CONSTANT Keys   \* keys that may be minted

VARIABLES
  keys,    \* rows of admin_api_keys
  flash    \* the keys in the mb_key_flash cookie of each browser

keyVars == <<keys, flash>>

Unminted == [minted |-> FALSE, expired |-> FALSE, revoked |-> FALSE, used |-> FALSE]
Live(k) == keys[k].minted /\ ~keys[k].expired /\ ~keys[k].revoked

KeysInit ==
  /\ keys = [k \in Keys |-> Unminted]
  /\ flash = [b \in Browsers |-> {}]

\* Behind admin_gate.  A key is random: no two requests mint the same.
MintBegin(r, b, k) ==
  /\ b \in admin /\ ~keys[k].minted
  /\ \A q \in Requests : req[q].op = "mint" => req[q].key # k
  /\ Begin(r, [op |-> "mint", browser |-> b, key |-> k])
  /\ UNCHANGED <<sessionVars, keyVars>>

MintCommit(r) ==
  /\ req[r].op = "mint"
  /\ keys' = [keys EXCEPT ![req[r].key].minted = TRUE]
  /\ Continue(r, [op |-> "minted", browser |-> req[r].browser, key |-> req[r].key])
  /\ UNCHANGED <<sessionVars, flash>>

\* The plain key travels in a cookie of the redirect and is stored nowhere.
MintAnswer(r) ==
  /\ req[r].op = "minted"
  /\ flash' = [flash EXCEPT ![req[r].browser] = {req[r].key}]
  /\ End(r)
  /\ UNCHANGED <<sessionVars, keys>>

\* api_keys_page shows the key and drops the cookie, which lives 2 minutes.
ShowKeys(b) ==
  /\ b \in admin /\ flash[b] # {}
  /\ flash' = [flash EXCEPT ![b] = {}]
  /\ UNCHANGED <<sessionVars, requestVars, keys>>

Expire(k) ==
  /\ keys[k].minted /\ ~keys[k].expired
  /\ keys' = [keys EXCEPT ![k].expired = TRUE]
  /\ UNCHANGED <<sessionVars, requestVars, flash>>

\* An expired key may be revoked too, a revoked one is left as it is.
RevokeBegin(r, b, k) ==
  /\ b \in admin /\ keys[k].minted /\ ~keys[k].revoked
  /\ Begin(r, [op |-> "revoke", key |-> k])
  /\ UNCHANGED <<sessionVars, keyVars>>

RevokeCommit(r) ==
  /\ req[r].op = "revoke"
  /\ keys' = [keys EXCEPT ![req[r].key].revoked = TRUE]
  /\ End(r)
  /\ UNCHANGED <<sessionVars, flash>>

\* require_api_key: the key counts when it is looked up, not when the route
\* commits.
Authorize(r, k) ==
  /\ Live(k)
  /\ Begin(r, [op |-> "call", key |-> k])
  /\ UNCHANGED <<sessionVars, keyVars>>

\* last_used_at is stored by the commit of the route, if it has one.
CallEnds(r) ==
  /\ req[r].op = "call"
  /\ \E commits \in BOOLEAN :
       keys' = [keys EXCEPT ![req[r].key].used = @ \/ commits]
  /\ End(r)
  /\ UNCHANGED <<sessionVars, flash>>
=============================================================================
