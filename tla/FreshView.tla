------------------------------ MODULE FreshView ------------------------------
(***************************************************************************)
(* What a page that goes through the cache may show: for each key a value  *)
(* that the source held at some moment of the last Lag[k] ticks.  Nothing  *)
(* is said about where copies are kept or who refreshes them.              *)
(***************************************************************************)
EXTENDS Integers, Sequences

CONSTANTS Keys, Callers, Values, Lag, Unseen

VARIABLES
  now,      \* the clock, in ticks
  current,  \* what the source says for each key
  past,     \* what it said before, with the time it ended
  shown     \* the key and the value a request was last shown, or Unseen

vars == <<now, current, past, shown>>

Init ==
  /\ now = 0
  /\ current \in [Keys -> Values]
  /\ past = <<>>
  /\ shown = [c \in Callers |-> Unseen]

Tick == now' = now + 1 /\ UNCHANGED <<current, past, shown>>

Change ==
  /\ past' = Append(past, [until |-> now, was |-> current])
  /\ current' \in [Keys -> Values]
  /\ UNCHANGED <<now, shown>>

\* k had the value v at some moment since t.
HeldSince(k, v, t) ==
  \/ current[k] = v
  \/ \E i \in DOMAIN past : past[i].was[k] = v /\ past[i].until >= t

Show(c) ==
  /\ \E k \in Keys, v \in Values :
       HeldSince(k, v, now - Lag[k]) /\ shown' = [shown EXCEPT ![c] = [key |-> k, value |-> v]]
  /\ UNCHANGED <<now, current, past>>

Leave(c) == shown' = [shown EXCEPT ![c] = Unseen] /\ UNCHANGED <<now, current, past>>

Next == Tick \/ Change \/ \E c \in Callers : Show(c) \/ Leave(c)

Spec == Init /\ [][Next]_vars
=============================================================================
