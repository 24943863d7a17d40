------------------------------ MODULE RateLimit ------------------------------
(***************************************************************************)
(* app/services/ratelimit.py: the attempts per client address that guard   *)
(* the admin login, kept in one process in an OrderedDict of lists.        *)
(*                                                                         *)
(* The OrderedDict is the set held of its keys with their access order     *)
(* older.  A list of timestamps is a set of stamps: the entries are        *)
(* distinct, appended in time order, and only ever dropped from the front. *)
(* _lock makes each call one step.  The clock does not run backwards.      *)
(***************************************************************************)
EXTENDS Integers, FiniteSets

CONSTANTS
  Keys,         \* client addresses
  MaxKeys,      \* MAX_KEYS
  MaxAttempts,  \* max_attempts
  Window,       \* window_seconds, in ticks
  MaxTime       \* bound on the clock

ASSUME KeysAssumption == IsFiniteSet(Keys)
ASSUME LimitsAssumption ==
  /\ MaxKeys \in Nat \ {0}
  /\ MaxAttempts \in Nat \ {0}
  /\ Window \in Nat \ {0}
  /\ MaxTime \in Nat

VARIABLES
  now,      \* time.time(), in ticks
  held,     \* the keys of _buckets
  hits,     \* hits[k]: the list of k, empty when k is not held
  older,    \* <<j, k>>: j was last accessed before k
  granted,  \* history: the attempts of k granted since its bucket was last
            \* reset or evicted; the code keeps no such record
  answer    \* the key and the result of the last call, until the clock moves
            \* or a bucket is reset

vars == <<now, held, hits, older, granted, answer>>

Stamp == [at : 0..MaxTime, n : 1..MaxAttempts]

TypeOK ==
  /\ now \in 0..MaxTime
  /\ held \subseteq Keys
  /\ hits \in [Keys -> SUBSET Stamp]
  /\ older \subseteq held \X held
  /\ granted \in [Keys -> SUBSET Stamp]
  /\ answer \in {<<>>} \cup (Keys \X BOOLEAN)

Init ==
  /\ now = 0
  /\ held = {}
  /\ hits = [k \in Keys |-> {}]
  /\ older = {}
  /\ granted = [k \in Keys |-> {}]
  /\ answer = <<>>

Tick ==
  /\ now < MaxTime
  /\ now' = now + 1
  /\ answer' = <<>>
  /\ UNCHANGED <<held, hits, older, granted>>

-----------------------------------------------------------------------------

\* Variant: an entry at the cutoff is still in the window.
InWindowInclusive(stamps) == {e \in stamps : e.at >= now - Window}

\* [t for t in bucket if t > cutoff]
InWindow(stamps) == {e \in stamps : e.at > now - Window}

\* Variant: looks at the oldest entry of the list, ts[0].
ExpiredByOldest(k) == \E e \in hits[k] : e.at < now - Window

\* not ts or ts[-1] < cutoff: the last entry of a list is its latest.
Expired(k) == \A e \in hits[k] : e.at < now - Window

Live == {k \in held : ~Expired(k)}

\* The least recently accessed of a set of keys, which popitem(last=False)
\* removes until MAX_KEYS remain: those with MAX_KEYS younger ones.
Evictable(keys) ==
  {k \in keys : Cardinality({j \in keys : <<k, j>> \in older}) >= MaxKeys}

\* Variant: the LRU eviction is missing.
TrimmedExpiredOnly == Live

\* _trim: the keys it leaves.
Trimmed == Live \ Evictable(Live)

\* The keys in the dict when check_and_record looks its key up, and those
\* the call forgets although they have recent attempts.
Kept == IF Cardinality(held) >= MaxKeys THEN Trimmed ELSE held
Evicted == IF Cardinality(held) >= MaxKeys THEN Evictable(Live) ELSE {}

\* k becomes the most recently accessed of keys.
MoveToEnd(k, keys) ==
  {p \in older : p \in (keys \ {k}) \X (keys \ {k})} \cup ((keys \ {k}) \X {k})

\* An entry for this moment that is not in the list yet.
SameTick(stamps) == {e \in stamps : e.at = now}
NextStamp(stamps) == [at |-> now, n |-> Cardinality(SameTick(stamps)) + 1]

\* Variant: the limit is compared with > instead of >=.
MayProceedOffByOne(bucket) == Cardinality(bucket) <= MaxAttempts

MayProceed(bucket) == Cardinality(bucket) < MaxAttempts

\* The list of k when the limit is compared, its expired entries dropped.
Bucket(k) == IF k \in Kept THEN InWindow(hits[k]) ELSE {}

Recorded(k) == IF MayProceed(Bucket(k)) THEN {NextStamp(Bucket(k))} ELSE {}

Remembered == [j \in Keys |-> IF j \in Evicted THEN {} ELSE granted[j]]

\* check_and_record: trim at the cap, touch or create the bucket, drop its
\* expired entries, then refuse at the limit or record the attempt.
CheckAndRecord(k) ==
  /\ held' = Kept \cup {k}
  /\ hits' = [j \in Keys |-> IF j = k THEN Bucket(k) \cup Recorded(k)
                             ELSE IF j \in Kept THEN hits[j] ELSE {}]
  /\ older' = MoveToEnd(k, Kept)
  /\ granted' = [Remembered EXCEPT ![k] = Remembered[k] \cup Recorded(k)]
  /\ answer' = <<k, MayProceed(Bucket(k))>>
  /\ UNCHANGED now

\* reset: a successful login drops the bucket.
Reset(k) ==
  /\ held' = held \ {k}
  /\ hits' = [hits EXCEPT ![k] = {}]
  /\ older' = {p \in older : p \in (held \ {k}) \X (held \ {k})}
  /\ granted' = [granted EXCEPT ![k] = {}]
  /\ answer' = <<>>
  /\ UNCHANGED now

Next == Tick \/ \E k \in Keys : CheckAndRecord(k) \/ Reset(k)

Spec == Init /\ [][Next]_vars

-----------------------------------------------------------------------------

\* No more than max_attempts attempts of an address are granted in any
\* window of window_seconds, unless its bucket was reset or evicted: trimming
\* expired buckets and pruning lists loses no attempt that still counts
\* (ratelimit.py:39-62).
GrantsPerWindow ==
  \A k \in Keys : Cardinality(InWindow(granted[k])) <= MaxAttempts

\* Memory is bounded however many addresses appear: at most one bucket more
\* than MAX_KEYS, because the trim comes before the insertion
\* (ratelimit.py:50-55).
BoundedMemory == Cardinality(held) <= MaxKeys + 1

\* older is the order of an OrderedDict: one position per key.
AccessOrder ==
  /\ \A j, k \in held : j # k => (<<j, k>> \in older \/ <<k, j>> \in older)
  /\ \A j, k \in held : <<j, k>> \in older => <<k, j>> \notin older
  /\ \A i, j, k \in held :
       <<i, j>> \in older /\ <<j, k>> \in older => <<i, k>> \in older

\* The list of k holds every granted attempt that still counts, nothing that
\* was not granted, and numbers the attempts of one tick without gaps.
StoreIsExact ==
  \A k \in Keys :
    /\ k \notin held => hits[k] = {}
    /\ hits[k] \subseteq granted[k]
    /\ InWindow(granted[k]) \subseteq hits[k]
    /\ Cardinality(hits[k]) <= MaxAttempts
    /\ \A e \in granted[k] : e.at <= now
    /\ \A e \in SameTick(granted[k]) : e.n <= Cardinality(SameTick(hits[k]))

\* The inductive invariant: trimming a store that is exact and in access
\* order keeps it exact and small (ratelimit.py:27-62).
IInv == TypeOK /\ AccessOrder /\ BoundedMemory /\ StoreIsExact

\* The bucket store decides every attempt as a full record of the grants
\* would.
Window_ == INSTANCE AttemptWindow
ImplementsWindow == Window_!Spec
=============================================================================
