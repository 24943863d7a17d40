---------------------------- MODULE AttemptWindow ----------------------------
(***************************************************************************)
(* What app/services/ratelimit.py promises its callers: an attempt for a   *)
(* key is granted exactly when fewer than MaxAttempts attempts of that key *)
(* were granted in the window that ends now, counting since the key was    *)
(* last forgotten.  Nothing is said about how the grants are stored.       *)
(***************************************************************************)
EXTENDS Integers, FiniteSets

CONSTANTS Keys, MaxAttempts, Window, MaxTime

VARIABLES
  now,      \* the clock, in ticks
  granted,  \* granted[k]: the attempts of k granted since k was forgotten
  answer    \* what the last attempt was told, while nothing else happens

vars == <<now, granted, answer>>

\* Several attempts may be granted in one tick: n tells them apart.
Stamp == [at : 0..MaxTime, n : 1..MaxAttempts]

Recent(stamps) == {e \in stamps : e.at > now - Window}

Init == now = 0 /\ granted = [k \in Keys |-> {}] /\ answer = <<>>

Tick == now < MaxTime /\ now' = now + 1 /\ answer' = <<>> /\ UNCHANGED granted

\* The grants of the keys in lost are forgotten first: memory is bounded.
Attempt(k, lost) ==
  LET kept == [j \in Keys |-> IF j \in lost THEN {} ELSE granted[j]]
  IN
  /\ \/ /\ Cardinality(Recent(kept[k])) < MaxAttempts
        /\ \E e \in Stamp \ kept[k] :
             /\ e.at = now
             /\ granted' = [kept EXCEPT ![k] = kept[k] \cup {e}]
        /\ answer' = <<k, TRUE>>
     \/ /\ Cardinality(Recent(kept[k])) >= MaxAttempts
        /\ granted' = kept
        /\ answer' = <<k, FALSE>>
  /\ UNCHANGED now

Forget(k) ==
  granted' = [granted EXCEPT ![k] = {}] /\ answer' = <<>> /\ UNCHANGED now

Next ==
  \/ Tick
  \/ \E k \in Keys : Forget(k) \/ \E lost \in SUBSET Keys : Attempt(k, lost)

Spec == Init /\ [][Next]_vars
=============================================================================
