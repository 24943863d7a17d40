------------------------------ MODULE TtlCache ------------------------------
(***************************************************************************)
(* app/services/cache.py: the values one process keeps for a while, and    *)
(* the lock per key that lets one caller at a time produce a new one.      *)
(*                                                                         *)
(* The process runs one event loop: what a coroutine does between two      *)
(* awaits is one step.  An asyncio.Lock serves its waiters first come      *)
(* first served; the holder is the head of its key's queue.  What a        *)
(* producer finds is the parameter v of Read: the module that composes     *)
(* the cache with a source says what it is.                                *)
(***************************************************************************)
EXTENDS Integers, Sequences

CONSTANTS
  Keys,      \* cache keys
  Callers,   \* requests that call cached(), one after another
  Values,    \* what producers return
  Ttl,       \* Ttl[k]: ttl_seconds of the callers of k, in ticks
  Slow,      \* longest run of a producer, in ticks
  MaxTime,   \* bound on the clock
  Nothing    \* no entry, no value

ASSUME TtlAssumption ==
  Ttl \in [Keys -> Nat \ {0}] /\ Slow \in Nat /\ MaxTime \in Nat
ASSUME NothingAssumption == \A e \in [at : 0..MaxTime, read : 0..MaxTime, value : Values] : e # Nothing

VARIABLES
  now,     \* time.monotonic(), in ticks
  store,   \* _store: the entry of each key; read is history
  queue,   \* queue[k]: holder and waiters of _locks[k]
  caller   \* where each request is

cacheVars == <<now, store, queue, caller>>

Entry == [at : 0..MaxTime, read : 0..MaxTime, value : Values]

Stages == {"idle", "waiting", "producing", "produced", "done", "failed"}

Request == [stage : Stages, key : Keys, since : 0..MaxTime, read : 0..MaxTime,
            value : Values \cup {Nothing}]

CacheTypeOK ==
  /\ now \in 0..MaxTime
  /\ store \in [Keys -> Entry \cup {Nothing}]
  /\ queue \in [Keys -> Seq(Callers)]
  /\ caller \in [Callers -> Request]

CacheInit ==
  /\ now = 0
  /\ store = [k \in Keys |-> Nothing]
  /\ queue = [k \in Keys |-> <<>>]
  /\ caller \in [Callers -> {[stage |-> "idle", key |-> k, since |-> 0, read |-> 0,
                              value |-> Nothing] : k \in Keys}]

Producing(c) == caller[c].stage \in {"producing", "produced"}

\* Time passes, but no producer runs for longer than Slow.
Tick ==
  /\ now < MaxTime
  /\ \A c \in Callers : Producing(c) => now < caller[c].since + Slow
  /\ now' = now + 1
  /\ UNCHANGED <<store, queue, caller>>

-----------------------------------------------------------------------------

\* Variant: an entry of exactly ttl_seconds still counts.
FreshInclusive(k) == store[k] # Nothing /\ now - store[k].at <= Ttl[k]

\* hit and (now - hit[0]) < ttl_seconds
Fresh(k) == store[k] # Nothing /\ now - store[k].at < Ttl[k]

\* c leaves cached() with the value v, or with an exception.
Left(c, stage, v) ==
  caller' = [caller EXCEPT ![c] =
    [stage |-> stage, key |-> caller[c].key, since |-> 0, read |-> 0, value |-> v]]
Answer(c, v) == Left(c, "done", v)

\* c runs the producer.
Start(c) ==
  caller' = [caller EXCEPT ![c].stage = "producing", ![c].since = now]

\* Variant: whoever finds no fresh entry produces one.
GetWithoutLock(c, k) ==
  /\ caller[c].stage = "idle"
  /\ caller[c].key = k
  /\ \/ Fresh(k) /\ Answer(c, store[k].value) /\ UNCHANGED queue
     \/ ~Fresh(k) /\ Start(c) /\ queue' = [queue EXCEPT ![k] = Append(@, c)]
  /\ UNCHANGED <<now, store>>

\* cached(), until its first await: a fresh entry answers at once, otherwise
\* the lock is asked for, and entered when nobody has it.
Get(c, k) ==
  /\ caller[c].stage = "idle"
  /\ caller[c].key = k
  /\ \/ Fresh(k) /\ Answer(c, store[k].value) /\ UNCHANGED queue
     \/ /\ ~Fresh(k)
        /\ queue' = [queue EXCEPT ![k] = Append(@, c)]
        /\ IF queue[k] = <<>> THEN Start(c)
           ELSE caller' = [caller EXCEPT ![c].stage = "waiting"]
  /\ UNCHANGED <<now, store>>

\* Variant: the entry is not looked at again inside the lock.
EnterWithoutRecheck(c) ==
  LET k == caller[c].key IN
  /\ caller[c].stage = "waiting"
  /\ c = Head(queue[k])
  /\ Start(c) /\ UNCHANGED queue
  /\ UNCHANGED <<now, store>>

\* A waiter gets the lock: another coroutine may have produced the value.
Enter(c) ==
  LET k == caller[c].key IN
  /\ caller[c].stage = "waiting"
  /\ c = Head(queue[k])
  /\ \/ Fresh(k) /\ Answer(c, store[k].value) /\ queue' = [queue EXCEPT ![k] = Tail(@)]
     \/ ~Fresh(k) /\ Start(c) /\ UNCHANGED queue
  /\ UNCHANGED <<now, store>>

\* The producer's SELECT finds v.
Read(c, v) ==
  /\ caller[c].stage = "producing"
  /\ caller' = [caller EXCEPT ![c].stage = "produced", ![c].value = v, ![c].read = now]
  /\ UNCHANGED <<now, store, queue>>

\* The producer returns: the entry is stamped with the time of its return.
Put(c) ==
  LET k == caller[c].key IN
  /\ caller[c].stage = "produced"
  /\ store' = [store EXCEPT ![k] =
       [at |-> now, read |-> caller[c].read, value |-> caller[c].value]]
  /\ queue' = [queue EXCEPT ![k] = Tail(@)]
  /\ Answer(c, caller[c].value)
  /\ UNCHANGED now

\* Variant: the lock is not released.
FailHoldingLock(c) ==
  /\ Producing(c)
  /\ Left(c, "failed", Nothing)
  /\ UNCHANGED <<now, store, queue>>

\* The producer raises: async with gives the lock back, nothing is stored.
Fail(c) ==
  LET k == caller[c].key IN
  /\ Producing(c)
  /\ queue' = [queue EXCEPT ![k] = Tail(@)]
  /\ Left(c, "failed", Nothing)
  /\ UNCHANGED <<now, store>>

\* The next request, for any key.
NextRequest(c) ==
  /\ caller[c].stage \in {"done", "failed"}
  /\ \E k \in Keys :
       caller' = [caller EXCEPT ![c] = [stage |-> "idle", key |-> k, since |-> 0,
                                        read |-> 0, value |-> Nothing]]
  /\ UNCHANGED <<now, store, queue>>

\* invalidate(prefix): the entries of ks go; locks and running producers stay.
Invalidate(ks) ==
  /\ store' = [k \in Keys |-> IF k \in ks THEN Nothing ELSE store[k]]
  /\ UNCHANGED <<now, queue, caller>>

-----------------------------------------------------------------------------
(* The parts of the inductive invariant that speak of the cache alone.     *)

InQueue(c) == caller[c].stage = "waiting" \/ Producing(c)

\* A queue holds the requests for its key that wait or produce, each once.
QueuesMatch ==
  \A k \in Keys :
    /\ \A i \in DOMAIN queue[k] : caller[queue[k][i]].key = k /\ InQueue(queue[k][i])
    /\ \A i, j \in DOMAIN queue[k] : queue[k][i] = queue[k][j] => i = j

\* Only the holder of the lock produces (cache.py:32-39).
HolderProduces ==
  \A c \in Callers : InQueue(c) =>
    \E i \in DOMAIN queue[caller[c].key] :
      queue[caller[c].key][i] = c /\ (Producing(c) => i = 1)

\* Stamps and read times follow the clock, and a producer takes at most Slow.
StampsInOrder ==
  /\ \A k \in Keys : store[k] # Nothing =>
       /\ store[k].read <= store[k].at
       /\ store[k].at <= now
       /\ store[k].at - store[k].read <= Slow
  /\ \A c \in Callers : Producing(c) =>
       /\ caller[c].since <= now
       /\ now - caller[c].since <= Slow
       /\ caller[c].stage = "produced" =>
            /\ caller[c].value # Nothing
            /\ caller[c].since <= caller[c].read
            /\ caller[c].read <= now
=============================================================================
