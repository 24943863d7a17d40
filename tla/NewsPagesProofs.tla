-------------------------- MODULE NewsPagesProofs --------------------------
(***************************************************************************)
(* The cache keeps its lock discipline and the truth of what it stores,    *)
(* and the pages that go through it show nothing older than they promise,  *)
(* for any number of keys' callers, posts and commits.                     *)
(***************************************************************************)
EXTENDS NewsPages, TLAPS

LEMMA ViewType == View \in [Keys -> Values]
BY ValuesAssumption DEF View, Banner, Feed, Ids

LEMMA AppendFacts ==
  ASSUME NEW S, NEW s \in Seq(S), NEW e \in S
  PROVE  /\ Append(s, e) \in Seq(S)
         /\ Len(Append(s, e)) = Len(s) + 1
         /\ \A i \in 1..Len(s) : Append(s, e)[i] = s[i]
         /\ Append(s, e)[Len(s) + 1] = e
OBVIOUS

LEMMA TailFacts ==
  ASSUME NEW S, NEW s \in Seq(S), s # <<>>
  PROVE  /\ Tail(s) \in Seq(S)
         /\ Len(s) \in Nat \ {0}
         /\ Len(Tail(s)) = Len(s) - 1
         /\ \A i \in 1..(Len(s) - 1) : Tail(s)[i] = s[i + 1]
         /\ Head(s) = s[1]
OBVIOUS

LEMMA ElementFact ==
  ASSUME NEW S, NEW s \in Seq(S), NEW i \in DOMAIN s
  PROVE  s[i] \in S
OBVIOUS

LEMMA InitInv == Init => IInv
<1> SUFFICES ASSUME Init PROVE IInv
  OBVIOUS
<1> USE TtlAssumption, PostsAssumption DEF Init, CacheInit
<1>1. CacheTypeOK
  BY DEF CacheTypeOK, Request, Stages
<1>2. NewsTypeOK
  BY DEF NewsTypeOK, Exists, NoRow
<1>3. \A c \in Callers : caller[c].stage = "idle"
  OBVIOUS
<1>4. QueuesMatch /\ HolderProduces /\ StampsInOrder /\ CopiesWereTrue
  BY <1>3 DEF QueuesMatch, HolderProduces, StampsInOrder, CopiesWereTrue, InQueue, Producing
<1> QED BY <1>1, <1>2, <1>4 DEF IInv

-----------------------------------------------------------------------------
(* The queues of the locks.                                                *)

\* Steps that move nobody into a queue, out of one, or to its producer.
LEMMA QueuesStay ==
  ASSUME QueuesMatch, HolderProduces, queue' = queue,
         \A c \in Callers : InQueue(c)' = InQueue(c) /\ Producing(c)' = Producing(c),
         \A c \in Callers : InQueue(c) => caller'[c].key = caller[c].key,
         CacheTypeOK
  PROVE  QueuesMatch' /\ HolderProduces'
<1>1. \A k \in Keys : \A i \in DOMAIN queue[k] : queue[k][i] \in Callers
  BY DEF CacheTypeOK
<1>2. QueuesMatch'
  BY <1>1 DEF QueuesMatch
<1>3. HolderProduces'
  BY DEF HolderProduces
<1> QED BY <1>2, <1>3

\* The holder leaves and the next waiter, if any, is at the head.
LEMMA Released ==
  ASSUME CacheTypeOK, QueuesMatch, HolderProduces, NEW c \in Callers,
         queue[caller[c].key] # <<>>, Head(queue[caller[c].key]) = c,
         queue' = [queue EXCEPT ![caller[c].key] = Tail(@)],
         \A d \in Callers \ {c} : caller'[d] = caller[d],
         caller'[c].stage \in {"done", "failed"}
  PROVE  QueuesMatch' /\ HolderProduces'
<1> DEFINE k == caller[c].key
           q == queue[k]
<1>1. k \in Keys /\ q \in Seq(Callers) /\ queue \in [Keys -> Seq(Callers)]
  BY DEF CacheTypeOK, Request
<1>2. /\ queue'[k] = Tail(q) /\ \A j \in Keys \ {k} : queue'[j] = queue[j]
  BY <1>1
<1>3. /\ Len(q) \in Nat \ {0} /\ DOMAIN q = 1..Len(q) /\ q[1] = c
      /\ DOMAIN Tail(q) = 1..(Len(q) - 1)
      /\ \A i \in 1..(Len(q) - 1) : Tail(q)[i] = q[i + 1]
  BY <1>1, TailFacts
<1>4. \A j \in Keys : \A i \in DOMAIN queue[j] : queue[j][i] \in Callers
  BY <1>1
<1>5. ASSUME NEW j \in Keys, NEW i \in DOMAIN queue[j], ~(j = k /\ i = 1)
      PROVE queue[j][i] # c
  BY <1>1, <1>3, <1>5 DEF QueuesMatch
<1>6. \A d \in Callers \ {c} : /\ caller'[d].key = caller[d].key
                               /\ InQueue(d) => InQueue(d)'
                               /\ Producing(d)' => Producing(d)
  BY DEF InQueue, Producing
<1> DEFINE Shift(j) == IF j = k THEN 1 ELSE 0
<1>7. ASSUME NEW j \in Keys, NEW i \in DOMAIN queue'[j]
      PROVE  /\ i \in Nat /\ i + Shift(j) \in DOMAIN queue[j]
             /\ ~(j = k /\ i + Shift(j) = 1)
             /\ queue'[j][i] = queue[j][i + Shift(j)]
  <2>1. CASE j = k
    <3>1. i \in 1..(Len(q) - 1) /\ queue'[j][i] = Tail(q)[i] /\ Shift(j) = 1
      BY <1>2, <1>3, <1>7, <2>1
    <3> HIDE DEF Shift
    <3>2. i + 1 \in 1..Len(q) /\ i + 1 # 1 /\ i \in Nat
      BY <1>3, <3>1
    <3> QED BY <1>3, <2>1, <3>1, <3>2
  <2>2. CASE j # k
    <3>1. DOMAIN queue[j] = 1..Len(queue[j]) /\ Len(queue[j]) \in Nat
      BY <1>1
    <3> QED BY <1>2, <1>7, <2>2, <3>1
  <2> QED BY <2>1, <2>2
<1> HIDE DEF k, q
<1>8. QueuesMatch'
  <2> SUFFICES ASSUME NEW j \in Keys
               PROVE  /\ \A i \in DOMAIN queue'[j] :
                           caller'[queue'[j][i]].key = j /\ InQueue(queue[j][i])'
                      /\ \A i, n \in DOMAIN queue'[j] : queue'[j][i] = queue'[j][n] => i = n
    BY DEF QueuesMatch
  <2>1. ASSUME NEW i \in DOMAIN queue'[j]
        PROVE  caller'[queue'[j][i]].key = j /\ InQueue(queue[j][i])'
    <3>1. PICK d \in Callers \ {c} : d = queue[j][i + Shift(j)] /\ queue'[j][i] = d
      BY <1>4, <1>5, <1>7
    <3>2. caller[d].key = j /\ InQueue(d)
      BY <1>7, <3>1 DEF QueuesMatch
    <3>3. caller'[d].key = j /\ InQueue(d)'
      BY <1>6, <3>2
    <3> QED BY <3>1, <3>3
  <2>2. ASSUME NEW i \in DOMAIN queue'[j], NEW n \in DOMAIN queue'[j],
               queue'[j][i] = queue'[j][n]
        PROVE  i = n
    <3>1. i + Shift(j) = n + Shift(j)
      BY <1>7, <2>2 DEF QueuesMatch
    <3>2. i \in Nat /\ n \in Nat /\ Shift(j) \in {0, 1}
      BY <1>7
    <3> QED BY <3>1, <3>2
  <2> QED BY <2>1, <2>2
<1>9. HolderProduces'
  <2> SUFFICES ASSUME NEW d \in Callers, InQueue(d)'
               PROVE  \E i \in DOMAIN queue'[caller'[d].key] :
                        queue'[caller'[d].key][i] = d /\ (Producing(d)' => i = 1)
    BY DEF HolderProduces
  <2>1. d # c /\ caller'[d] = caller[d]
    BY DEF InQueue, Producing
  <2>2. InQueue(d) /\ (Producing(d)' => Producing(d))
    BY <2>1 DEF InQueue, Producing
  <2>3. PICK i \in DOMAIN queue[caller[d].key] :
          queue[caller[d].key][i] = d /\ (Producing(d) => i = 1)
    BY <2>2 DEF HolderProduces
  <2>4. caller[d].key \in Keys
    BY DEF CacheTypeOK, Request
  <2>5. CASE caller[d].key = k
    <3>1. i # 1 /\ i \in 1..Len(q) /\ i - 1 \in 1..(Len(q) - 1)
      BY <1>3, <2>1, <2>3, <2>5 DEF q
    <3>2. Tail(q)[i - 1] = q[i] /\ i - 1 \in DOMAIN Tail(q)
      <4>1. Tail(q)[i - 1] = q[(i - 1) + 1] /\ i - 1 \in DOMAIN Tail(q)
        BY <1>3, <3>1
      <4> QED BY <1>3, <3>1, <4>1
    <3>3. queue'[k][i - 1] = d /\ i - 1 \in DOMAIN queue'[k]
      BY <1>2, <2>3, <2>5, <3>2 DEF q
    <3> QED BY <2>1, <2>2, <2>3, <2>5, <3>1, <3>3
  <2>6. CASE caller[d].key # k
    BY <1>2, <2>1, <2>2, <2>3, <2>4, <2>6
  <2> QED BY <2>5, <2>6
<1> QED BY <1>8, <1>9

\* A request that comes is the last of its queue.
LEMMA Joined ==
  ASSUME CacheTypeOK, QueuesMatch, HolderProduces, NEW c \in Callers,
         caller[c].stage = "idle",
         queue' = [queue EXCEPT ![caller[c].key] = Append(@, c)],
         \A d \in Callers \ {c} : caller'[d] = caller[d],
         caller'[c].key = caller[c].key,
         InQueue(c)', Producing(c)' => queue[caller[c].key] = <<>>
  PROVE  QueuesMatch' /\ HolderProduces'
<1> DEFINE k == caller[c].key
           q == queue[k]
<1>1. k \in Keys /\ q \in Seq(Callers) /\ queue \in [Keys -> Seq(Callers)]
  BY DEF CacheTypeOK, Request
<1>2. /\ queue'[k] = Append(q, c) /\ \A j \in Keys \ {k} : queue'[j] = queue[j]
  BY <1>1
<1>3. /\ Len(q) \in Nat /\ DOMAIN q = 1..Len(q)
      /\ DOMAIN Append(q, c) = 1..(Len(q) + 1)
      /\ \A i \in 1..Len(q) : Append(q, c)[i] = q[i]
      /\ Append(q, c)[Len(q) + 1] = c
  BY <1>1, AppendFacts
<1>4. ~InQueue(c)
  BY DEF InQueue, Producing
<1>5. ASSUME NEW j \in Keys, NEW i \in DOMAIN queue[j]
      PROVE  queue[j][i] \in Callers \ {c}
  BY <1>1, <1>4 DEF QueuesMatch
<1>6. \A d \in Callers \ {c} : /\ caller'[d].key = caller[d].key
                               /\ InQueue(d) => InQueue(d)'
                               /\ InQueue(d)' => InQueue(d)
                               /\ Producing(d)' => Producing(d)
  BY DEF InQueue, Producing
<1>7. ASSUME NEW j \in Keys, NEW i \in DOMAIN queue'[j]
      PROVE  \/ j = k /\ i = Len(q) + 1 /\ queue'[j][i] = c
             \/ i \in DOMAIN queue[j] /\ queue'[j][i] = queue[j][i]
  <2>1. CASE j = k
    <3>1. i \in 1..(Len(q) + 1) /\ queue'[j][i] = Append(q, c)[i]
      BY <1>2, <1>3, <1>7, <2>1
    <3>2. CASE i = Len(q) + 1
      BY <1>3, <2>1, <3>1, <3>2
    <3>3. CASE i # Len(q) + 1
      BY <1>3, <2>1, <3>1, <3>3
    <3> QED BY <3>2, <3>3
  <2>2. CASE j # k
    BY <1>2, <1>7, <2>2
  <2> QED BY <2>1, <2>2
<1> HIDE DEF q
<1>8. QueuesMatch'
  <2> SUFFICES ASSUME NEW j \in Keys
               PROVE  /\ \A i \in DOMAIN queue'[j] :
                           caller'[queue'[j][i]].key = j /\ InQueue(queue[j][i])'
                      /\ \A i, n \in DOMAIN queue'[j] : queue'[j][i] = queue'[j][n] => i = n
    BY DEF QueuesMatch
  <2>1. ASSUME NEW i \in DOMAIN queue'[j]
        PROVE  caller'[queue'[j][i]].key = j /\ InQueue(queue[j][i])'
    <3>1. CASE j = k /\ queue'[j][i] = c
      BY <3>1
    <3>2. CASE i \in DOMAIN queue[j] /\ queue'[j][i] = queue[j][i]
      <4>1. PICK d \in Callers \ {c} : d = queue[j][i] /\ queue'[j][i] = d
        BY <1>5, <3>2
      <4>2. caller[d].key = j /\ InQueue(d)
        BY <3>2, <4>1 DEF QueuesMatch
      <4>3. caller'[d].key = j /\ InQueue(d)'
        BY <1>6, <4>2
      <4> QED BY <4>1, <4>3
    <3> QED BY <1>7, <3>1, <3>2
  <2>2. ASSUME NEW i \in DOMAIN queue'[j], NEW n \in DOMAIN queue'[j],
               queue'[j][i] = queue'[j][n]
        PROVE  i = n
    BY <1>5, <1>7, <2>2 DEF QueuesMatch
  <2> QED BY <2>1, <2>2
<1>9. HolderProduces'
  <2> SUFFICES ASSUME NEW d \in Callers, InQueue(d)'
               PROVE  \E i \in DOMAIN queue'[caller'[d].key] :
                        queue'[caller'[d].key][i] = d /\ (Producing(d)' => i = 1)
    BY DEF HolderProduces
  <2>1. CASE d = c
    <3>1. Len(q) + 1 \in DOMAIN queue'[k] /\ queue'[k][Len(q) + 1] = c
      BY <1>2, <1>3
    <3>2. Producing(c)' => Len(q) + 1 = 1
      BY DEF q
    <3> QED BY <2>1, <3>1, <3>2
  <2>2. CASE d # c
    <3>1. caller'[d].key = caller[d].key /\ InQueue(d) /\ (Producing(d)' => Producing(d))
      BY <1>6, <2>2
    <3>2. PICK i \in DOMAIN queue[caller[d].key] :
            queue[caller[d].key][i] = d /\ (Producing(d) => i = 1)
      BY <3>1 DEF HolderProduces
    <3>3. caller[d].key \in Keys
      BY DEF CacheTypeOK, Request
    <3>4. i \in DOMAIN queue'[caller[d].key] /\ queue'[caller[d].key][i] = d
      <4>1. CASE caller[d].key = k
        <5>1. i \in 1..Len(q) /\ q[i] = d
          BY <1>3, <3>2, <4>1 DEF q
        <5> QED BY <1>2, <1>3, <4>1, <5>1
      <4>2. CASE caller[d].key # k
        BY <1>2, <3>2, <3>3, <4>2
      <4> QED BY <4>1, <4>2
    <3> QED BY <3>1, <3>2, <3>4
  <2> QED BY <2>1, <2>2
<1> QED BY <1>8, <1>9

\* A commit leaves the cache alone.
NewsStep ==
  \/ AdminNewsCreate \/ CreateNews
  \/ \E p \in Ids : AdminNewsUpdate(p) \/ UpdateNews(p) \/ DeleteNews(p)

LEMMA NewsKeepsCache == NewsStep => UNCHANGED cacheVars
BY DEF NewsStep, AdminNewsCreate, CreateNews, AdminNewsUpdate, UpdateNews, DeleteNews,
   AddPost, SetPost, Commit

LEMMA QueueStep == IInv /\ [Next]_vars => QueuesMatch' /\ HolderProduces'
<1> SUFFICES ASSUME IInv, [Next]_vars PROVE QueuesMatch' /\ HolderProduces'
  OBVIOUS
<1> USE DEF IInv
<1>1. caller \in [Callers -> Request] /\ queue \in [Keys -> Seq(Callers)]
  BY DEF CacheTypeOK
<1>2. \A c \in Callers : caller[c].key \in Keys
  BY <1>1 DEF Request
<1>3. CASE UNCHANGED <<queue, caller>>
  <2>1. \A c \in Callers : InQueue(c)' = InQueue(c) /\ Producing(c)' = Producing(c)
    BY <1>3 DEF InQueue, Producing
  <2> QED BY <1>3, <2>1, QueuesStay
<1>4. ASSUME NEW c \in Callers, NEW k \in Keys, Get(c, k) PROVE QueuesMatch' /\ HolderProduces'
  <2>1. caller[c].stage = "idle" /\ caller[c].key = k /\ ~InQueue(c)
    BY <1>4 DEF Get, InQueue, Producing
  <2>2. \A d \in Callers \ {c} : caller'[d] = caller[d]
    BY <1>1, <1>4 DEF Get, Answer, Left, Start
  <2>3. CASE Answer(c, store[k].value) /\ UNCHANGED queue
    <3>1. caller'[c].stage = "done"
      BY <1>1, <2>3 DEF Answer, Left
    <3>2. \A d \in Callers : InQueue(d)' = InQueue(d) /\ Producing(d)' = Producing(d)
      BY <2>1, <2>2, <3>1 DEF InQueue, Producing
    <3>3. \A d \in Callers : InQueue(d) => caller'[d].key = caller[d].key
      BY <2>1, <2>2
    <3> QED BY <2>3, <3>2, <3>3, QueuesStay
  <2>4. CASE /\ queue' = [queue EXCEPT ![k] = Append(@, c)]
             /\ IF queue[k] = <<>> THEN Start(c)
                ELSE caller' = [caller EXCEPT ![c].stage = "waiting"]
    <3>1. caller'[c].key = caller[c].key
      BY <1>1, <2>4 DEF Start, Request
    <3>2. caller'[c].stage = IF queue[k] = <<>> THEN "producing" ELSE "waiting"
      BY <1>1, <2>4 DEF Start, Request
    <3>3. InQueue(c)' /\ (Producing(c)' => queue[caller[c].key] = <<>>)
      BY <2>1, <3>2 DEF InQueue, Producing
    <3> QED BY <2>1, <2>2, <2>4, <3>1, <3>3, Joined
  <2> QED BY <1>4, <2>3, <2>4 DEF Get
<1>5. ASSUME NEW c \in Callers, InQueue(c),
             Producing(c) \/ c = Head(queue[caller[c].key])
      PROVE  /\ queue[caller[c].key] # <<>> /\ Head(queue[caller[c].key]) = c
             /\ queue[caller[c].key][1] = c
  <2>1. PICK i \in DOMAIN queue[caller[c].key] :
          queue[caller[c].key][i] = c /\ (Producing(c) => i = 1)
    BY <1>5 DEF HolderProduces
  <2>2. queue[caller[c].key] \in Seq(Callers)
    BY <1>1, <1>2
  <2>3. queue[caller[c].key] # <<>>
    BY <2>1, <2>2
  <2> QED BY <1>5, <2>1, <2>2, <2>3, TailFacts
<1>6. ASSUME NEW c \in Callers, InQueue(c), Producing(c) \/ c = Head(queue[caller[c].key]),
             queue' = [queue EXCEPT ![caller[c].key] = Tail(@)],
             NEW stage \in {"done", "failed"}, NEW v, Left(c, stage, v)
      PROVE  QueuesMatch' /\ HolderProduces'
  <2>1. queue[caller[c].key] # <<>> /\ Head(queue[caller[c].key]) = c
    BY <1>5, <1>6
  <2>2. \A d \in Callers \ {c} : caller'[d] = caller[d]
    BY <1>1, <1>6 DEF Left
  <2>3. caller'[c].stage \in {"done", "failed"}
    BY <1>1, <1>6 DEF Left
  <2> QED BY <1>6, <2>1, <2>2, <2>3, Released
<1>7. ASSUME NEW c \in Callers, Enter(c) PROVE QueuesMatch' /\ HolderProduces'
  <2>1. caller[c].stage = "waiting" /\ InQueue(c) /\ c = Head(queue[caller[c].key])
    BY <1>7 DEF Enter, InQueue
  <2>2. CASE /\ Answer(c, store[caller[c].key].value)
             /\ queue' = [queue EXCEPT ![caller[c].key] = Tail(@)]
    BY <1>6, <2>1, <2>2 DEF Answer
  <2>3. CASE Start(c) /\ UNCHANGED queue
    <3>1. \A d \in Callers \ {c} : caller'[d] = caller[d]
      BY <1>1, <2>3 DEF Start
    <3>2. caller'[c].stage = "producing" /\ caller'[c].key = caller[c].key
      BY <1>1, <2>3 DEF Start, Request
    <3>3. \A d \in Callers : (InQueue(d) => InQueue(d)') /\ (InQueue(d)' => InQueue(d))
                             /\ caller'[d].key = caller[d].key
      BY <2>1, <3>1, <3>2 DEF InQueue, Producing
    <3>4. \A d \in Callers \ {c} : Producing(d)' => Producing(d)
      BY <3>1 DEF Producing
    <3>5. \A k \in Keys : \A i \in DOMAIN queue[k] : queue[k][i] \in Callers
      BY <1>1
    <3>6. QueuesMatch'
      BY <2>3, <3>3, <3>5 DEF QueuesMatch
    <3>7. queue[caller[c].key][1] = c /\ queue[caller[c].key] # <<>>
      BY <1>5, <2>1
    <3>8. 1 \in DOMAIN queue[caller[c].key]
      <4>1. queue[caller[c].key] \in Seq(Callers)
        BY <1>1, <1>2
      <4> QED BY <3>7, <4>1
    <3>9. HolderProduces'
      BY <2>3, <3>3, <3>4, <3>7, <3>8 DEF HolderProduces
    <3> QED BY <3>6, <3>9
  <2> QED BY <1>7, <2>2, <2>3 DEF Enter
<1>8. ASSUME NEW c \in Callers, NEW v, Read(c, v) PROVE QueuesMatch' /\ HolderProduces'
  <2>1. \A d \in Callers \ {c} : caller'[d] = caller[d]
    BY <1>1, <1>8 DEF Read
  <2>2. caller[c].stage = "producing" /\ caller'[c].stage = "produced"
        /\ caller'[c].key = caller[c].key
    BY <1>1, <1>8 DEF Read, Request
  <2>3. \A d \in Callers : InQueue(d)' = InQueue(d) /\ Producing(d)' = Producing(d)
    BY <2>1, <2>2 DEF InQueue, Producing
  <2>4. \A d \in Callers : caller'[d].key = caller[d].key
    BY <2>1, <2>2
  <2> QED BY <1>8, <2>3, <2>4, QueuesStay DEF Read
<1>9. ASSUME NEW c \in Callers, Put(c) PROVE QueuesMatch' /\ HolderProduces'
  <2>1. InQueue(c) /\ Producing(c)
    BY <1>9 DEF Put, InQueue, Producing
  <2> QED BY <1>6, <1>9, <2>1 DEF Put, Answer
<1>10. ASSUME NEW c \in Callers, Fail(c) PROVE QueuesMatch' /\ HolderProduces'
  <2>1. InQueue(c) /\ Producing(c)
    BY <1>10 DEF Fail, InQueue
  <2> QED BY <1>6, <1>10, <2>1 DEF Fail
<1>11. ASSUME NEW c \in Callers, NextRequest(c) PROVE QueuesMatch' /\ HolderProduces'
  <2>1. \A d \in Callers \ {c} : caller'[d] = caller[d]
    BY <1>1, <1>11 DEF NextRequest
  <2>2. caller'[c].stage = "idle" /\ caller[c].stage \in {"done", "failed"}
    BY <1>1, <1>11 DEF NextRequest
  <2>3. \A d \in Callers : InQueue(d)' = InQueue(d) /\ Producing(d)' = Producing(d)
    BY <2>1, <2>2 DEF InQueue, Producing
  <2>4. \A d \in Callers : InQueue(d) => caller'[d].key = caller[d].key
    BY <2>1, <2>2 DEF InQueue, Producing
  <2> QED BY <1>11, <2>3, <2>4, QueuesStay DEF NextRequest
<1>12. CASE CacheStep
  BY <1>3, <1>4, <1>7, <1>8, <1>9, <1>10, <1>11, <1>12 DEF CacheStep, Tick, Invalidate
<1> QED BY <1>3, <1>12, NewsKeepsCache DEF Next, NewsStep, vars, cacheVars

-----------------------------------------------------------------------------
(* Types.                                                                  *)

LEMMA CacheTypeStep == IInv /\ [Next]_vars => CacheTypeOK'
<1> SUFFICES ASSUME IInv, [Next]_vars PROVE CacheTypeOK'
  OBVIOUS
<1> USE TtlAssumption DEF IInv
<1>1. /\ caller \in [Callers -> Request] /\ queue \in [Keys -> Seq(Callers)]
      /\ store \in [Keys -> Entry \cup {Nothing}] /\ now \in 0..MaxTime
  BY DEF CacheTypeOK
<1>2. \A c \in Callers : caller[c].key \in Keys /\ caller[c].value \in Values \cup {Nothing}
  BY <1>1 DEF Request
<1>3. \A k \in Keys : store[k] # Nothing => store[k].value \in Values
  BY <1>1 DEF Entry
<1>4. ASSUME NEW c \in Callers, NEW stage \in Stages, NEW v \in Values \cup {Nothing},
             Left(c, stage, v)
      PROVE  caller' \in [Callers -> Request]
  <2>1. [stage |-> stage, key |-> caller[c].key, since |-> 0, read |-> 0, value |-> v] \in Request
    BY <1>2 DEF Request
  <2> QED BY <1>1, <1>4, <2>1 DEF Left
<1>5. ASSUME NEW c \in Callers, Start(c) PROVE caller' \in [Callers -> Request]
  <2>1. [caller[c] EXCEPT !.stage = "producing", !.since = now] \in Request
    BY <1>1 DEF Request, Stages
  <2>2. caller' = [caller EXCEPT ![c] = [caller[c] EXCEPT !.stage = "producing", !.since = now]]
    BY <1>1, <1>5 DEF Start
  <2> QED BY <1>1, <2>1, <2>2
<1>6. ASSUME NEW k \in Keys, NEW c \in Callers, queue' = [queue EXCEPT ![k] = Append(@, c)]
      PROVE  queue' \in [Keys -> Seq(Callers)]
  BY <1>1, <1>6
<1>7. ASSUME NEW c \in Callers, InQueue(c), queue' = [queue EXCEPT ![caller[c].key] = Tail(@)]
      PROVE  queue' \in [Keys -> Seq(Callers)]
  <2>1. queue[caller[c].key] \in Seq(Callers)
    BY <1>1, <1>2
  <2>2. queue[caller[c].key] # <<>>
    BY <1>7, <2>1 DEF HolderProduces
  <2>3. Tail(queue[caller[c].key]) \in Seq(Callers)
    BY <2>1, <2>2, TailFacts
  <2> QED BY <1>1, <1>7, <2>3
<1>8. CASE Tick
  BY <1>1, <1>8 DEF Tick, CacheTypeOK
<1>9. ASSUME NEW c \in Callers, NEW k \in Keys, Get(c, k) PROVE CacheTypeOK'
  <2>1. UNCHANGED <<now, store>>
    BY <1>9 DEF Get
  <2>2. CASE Fresh(k) /\ Answer(c, store[k].value) /\ UNCHANGED queue
    <3>1. store[k].value \in Values
      BY <1>3, <2>2 DEF Fresh
    <3> QED BY <1>1, <1>4, <2>1, <2>2, <3>1 DEF Answer, CacheTypeOK, Stages
  <2>3. CASE /\ queue' = [queue EXCEPT ![k] = Append(@, c)]
             /\ IF queue[k] = <<>> THEN Start(c)
                ELSE caller' = [caller EXCEPT ![c].stage = "waiting"]
    <3>1. caller' \in [Callers -> Request]
      <4>1. CASE Start(c)
        BY <1>5, <4>1
      <4>2. CASE caller' = [caller EXCEPT ![c].stage = "waiting"]
        <5>1. [caller[c] EXCEPT !.stage = "waiting"] \in Request
          BY <1>1 DEF Request, Stages
        <5> QED BY <1>1, <4>2, <5>1
      <4> QED BY <2>3, <4>1, <4>2
    <3> QED BY <1>1, <1>6, <2>1, <2>3, <3>1 DEF CacheTypeOK
  <2> QED BY <1>9, <2>2, <2>3 DEF Get
<1>10. ASSUME NEW c \in Callers, Enter(c) PROVE CacheTypeOK'
  <2>1. UNCHANGED <<now, store>> /\ InQueue(c)
    BY <1>10 DEF Enter, InQueue
  <2>2. CASE /\ Fresh(caller[c].key) /\ Answer(c, store[caller[c].key].value)
             /\ queue' = [queue EXCEPT ![caller[c].key] = Tail(@)]
    <3>1. store[caller[c].key].value \in Values
      BY <1>2, <1>3, <2>2 DEF Fresh
    <3> QED BY <1>1, <1>4, <1>7, <2>1, <2>2, <3>1 DEF Answer, CacheTypeOK, Stages
  <2>3. CASE Start(c) /\ UNCHANGED queue
    BY <1>1, <1>5, <2>1, <2>3 DEF CacheTypeOK
  <2> QED BY <1>10, <2>2, <2>3 DEF Enter
<1>11. ASSUME NEW c \in Callers, Read(c, View[caller[c].key]) PROVE CacheTypeOK'
  <2>1. View[caller[c].key] \in Values
    BY <1>2, ViewType
  <2>2. caller' \in [Callers -> Request]
    <3> DEFINE result == [caller[c] EXCEPT !.stage = "produced", !.read = now,
                                           !.value = View[caller[c].key]]
    <3>1. result \in Request
      BY <1>1, <2>1 DEF Request, Stages
    <3>2. caller' = [caller EXCEPT ![c] = result]
      BY <1>1, <1>11 DEF Read, Request
    <3> QED BY <1>1, <3>1, <3>2
  <2> QED BY <1>1, <1>11, <2>2 DEF Read, CacheTypeOK
<1>12. ASSUME NEW c \in Callers, Put(c) PROVE CacheTypeOK'
  <2>1. InQueue(c) /\ caller[c].value \in Values
    BY <1>2, <1>12 DEF Put, InQueue, Producing, StampsInOrder
  <2>2. store' \in [Keys -> Entry \cup {Nothing}]
    <3>1. [at |-> now, read |-> caller[c].read, value |-> caller[c].value] \in Entry
      BY <1>1, <2>1 DEF Entry, Request
    <3> QED BY <1>1, <1>12, <3>1 DEF Put
  <2> QED BY <1>1, <1>4, <1>7, <1>12, <2>1, <2>2 DEF Put, Answer, CacheTypeOK, Stages
<1>13. ASSUME NEW c \in Callers, Fail(c) PROVE CacheTypeOK'
  <2>1. InQueue(c)
    BY <1>13 DEF Fail, InQueue
  <2> QED BY <1>1, <1>4, <1>7, <1>13, <2>1 DEF Fail, CacheTypeOK, Stages
<1>14. ASSUME NEW c \in Callers, NextRequest(c) PROVE CacheTypeOK'
  <2>1. PICK k \in Keys : caller' = [caller EXCEPT ![c] =
          [stage |-> "idle", key |-> k, since |-> 0, read |-> 0, value |-> Nothing]]
    BY <1>14 DEF NextRequest
  <2>2. [stage |-> "idle", key |-> k, since |-> 0, read |-> 0, value |-> Nothing] \in Request
    BY DEF Request, Stages
  <2> QED BY <1>1, <1>14, <2>1, <2>2 DEF NextRequest, CacheTypeOK
<1>15. ASSUME NEW ks, Invalidate(ks) PROVE CacheTypeOK'
  BY <1>1, <1>15 DEF Invalidate, CacheTypeOK
<1>16. CASE CacheStep
  BY <1>8, <1>9, <1>10, <1>11, <1>12, <1>13, <1>14, <1>15, <1>16 DEF CacheStep
<1>17. CASE UNCHANGED cacheVars
  BY <1>1, <1>17 DEF cacheVars, CacheTypeOK
<1> QED BY <1>16, <1>17, NewsKeepsCache DEF Next, NewsStep, vars

LEMMA RowStep ==
  ASSUME NewsTypeOK, NEW p \in Ids, UpdateNews(p)
  PROVE  \E row \in Row : SetPost(p, row)
<1>1. PICK flag \in {"active", "banner"}, v \in BOOLEAN : SetPost(p, [posts[p] EXCEPT ![flag] = v])
  BY DEF UpdateNews
<1>2. posts[p] \in Row
  BY <1>1 DEF SetPost, Exists, NewsTypeOK
<1>3. CASE flag = "active"
  <2>1. [posts[p] EXCEPT !["active"] = v] \in Row
    BY <1>2 DEF Row
  <2> QED BY <1>1, <1>3, <2>1
<1>4. CASE flag = "banner"
  <2>1. [posts[p] EXCEPT !["banner"] = v] \in Row
    BY <1>2 DEF Row
  <2> QED BY <1>1, <1>4, <2>1
<1> QED BY <1>3, <1>4

LEMMA NewsTypeStep == IInv /\ [Next]_vars => NewsTypeOK'
<1> SUFFICES ASSUME IInv, [Next]_vars PROVE NewsTypeOK'
  OBVIOUS
<1> USE TtlAssumption, PostsAssumption DEF IInv
<1>1. /\ posts \in [Ids -> Row \cup {NoRow}] /\ made \in 0..MaxPosts
      /\ past \in Seq([until : 0..MaxTime, was : [Keys -> Values]])
      /\ Len(past) <= MaxChanges /\ now \in 0..MaxTime
      /\ \A p \in Ids : posts[p] # NoRow => p <= made
  BY DEF CacheTypeOK, NewsTypeOK, Exists
<1>2. ASSUME Commit
      PROVE  /\ past' \in Seq([until : 0..MaxTime, was : [Keys -> Values]])
             /\ Len(past') <= MaxChanges
  <2>1. [until |-> now, was |-> View] \in [until : 0..MaxTime, was : [Keys -> Values]]
    BY <1>1, ViewType
  <2> QED BY <1>1, <1>2, <2>1, AppendFacts DEF Commit
<1>3. ASSUME NEW row \in Row, AddPost(row) PROVE NewsTypeOK'
  <2>1. /\ posts' = [posts EXCEPT ![made + 1] = row] /\ made' = made + 1
        /\ made' \in 0..MaxPosts
    BY <1>1, <1>3 DEF AddPost
  <2>2. posts' \in [Ids -> Row \cup {NoRow}]
    BY <1>1, <2>1
  <2>3. \A p \in Ids : posts'[p] # NoRow => p <= made'
    BY <1>1, <2>1 DEF Ids
  <2> QED BY <1>2, <1>3, <2>1, <2>2, <2>3 DEF AddPost, NewsTypeOK, Exists
<1>4. ASSUME NEW p \in Ids, NEW row \in Row, SetPost(p, row) PROVE NewsTypeOK'
  <2>1. posts' = [posts EXCEPT ![p] = row] /\ made' = made /\ posts[p] # NoRow
    BY <1>4 DEF SetPost, Exists
  <2> QED BY <1>1, <1>2, <1>4, <2>1 DEF SetPost, NewsTypeOK, Exists
<1>5. ASSUME NEW p \in Ids, DeleteNews(p) PROVE NewsTypeOK'
  <2>1. posts' = [posts EXCEPT ![p] = NoRow] /\ made' = made
    BY <1>5 DEF DeleteNews
  <2> QED BY <1>1, <1>2, <1>5, <2>1 DEF DeleteNews, NewsTypeOK, Exists
<1>6. CASE NewsStep
  BY <1>3, <1>4, <1>5, <1>6, RowStep
     DEF NewsStep, AdminNewsCreate, CreateNews, AdminNewsUpdate
<1>7. CASE UNCHANGED newsVars
  BY <1>1, <1>7 DEF newsVars, NewsTypeOK, Exists
<1> QED BY <1>6, <1>7 DEF Next, NewsStep, CacheStep, vars

-----------------------------------------------------------------------------
(* Stamps, and the truth of what is kept.                                  *)

LEMMA StampStep == IInv /\ CacheTypeOK' /\ [Next]_vars => StampsInOrder'
<1> SUFFICES ASSUME IInv, CacheTypeOK', [Next]_vars PROVE StampsInOrder'
  OBVIOUS
<1> USE TtlAssumption DEF IInv
<1>1. /\ caller \in [Callers -> Request] /\ store \in [Keys -> Entry \cup {Nothing}]
      /\ now \in 0..MaxTime
  BY DEF CacheTypeOK
<1>2. \A c \in Callers : /\ caller[c].key \in Keys
                         /\ caller[c].since \in Int /\ caller[c].read \in Int
  BY <1>1 DEF Request
<1>3. ASSUME UNCHANGED <<now, store>>, NEW c \in Callers,
             \A d \in Callers \ {c} : caller'[d] = caller[d], ~Producing(c)'
      PROVE  StampsInOrder'
  BY <1>3 DEF StampsInOrder, Producing
<1>4. ASSUME NEW c \in Callers, NEW stage, NEW v, Left(c, stage, v), stage \in {"done", "failed"}
      PROVE  ~Producing(c)' /\ \A d \in Callers \ {c} : caller'[d] = caller[d]
  BY <1>1, <1>4 DEF Left, Producing
<1>5. ASSUME UNCHANGED <<now, store>>, NEW c \in Callers, Start(c) PROVE StampsInOrder'
  <2>1. \A d \in Callers \ {c} : caller'[d] = caller[d]
    BY <1>1, <1>5 DEF Start
  <2>2. caller'[c].since = now /\ caller'[c].stage = "producing"
    BY <1>1, <1>5 DEF Start, Request
  <2> QED BY <1>1, <1>5, <2>1, <2>2 DEF StampsInOrder, Producing
<1>6. CASE Tick
  <2>1. now' = now + 1 /\ store' = store /\ caller' = caller
    BY <1>6 DEF Tick
  <2>2. \A k \in Keys : store[k] # Nothing => store[k].at \in Int
    BY <1>1 DEF Entry
  <2>3. \A c \in Callers : Producing(c) => now < caller[c].since + Slow
    BY <1>6 DEF Tick
  <2> QED BY <1>1, <1>2, <2>1, <2>2, <2>3 DEF StampsInOrder, Producing
<1>7. ASSUME NEW c \in Callers, NEW k \in Keys, Get(c, k) PROVE StampsInOrder'
  <2>1. CASE Answer(c, store[k].value)
    BY <1>3, <1>4, <1>7, <2>1 DEF Get, Answer
  <2>2. CASE Start(c)
    BY <1>5, <1>7, <2>2 DEF Get
  <2>3. CASE caller' = [caller EXCEPT ![c].stage = "waiting"]
    <3>1. ~Producing(c)' /\ \A d \in Callers \ {c} : caller'[d] = caller[d]
      BY <1>1, <2>3 DEF Producing, Request
    <3> QED BY <1>3, <1>7, <3>1 DEF Get
  <2> QED BY <1>7, <2>1, <2>2, <2>3 DEF Get
<1>8. ASSUME NEW c \in Callers, Enter(c) PROVE StampsInOrder'
  BY <1>3, <1>4, <1>5, <1>8 DEF Enter, Answer
<1>9. ASSUME NEW c \in Callers, NEW v \in Values, Read(c, v) PROVE StampsInOrder'
  <2>1. \A d \in Callers \ {c} : caller'[d] = caller[d]
    BY <1>1, <1>9 DEF Read
  <2>2. /\ caller'[c].since = caller[c].since /\ caller'[c].read = now
        /\ caller'[c].value = v /\ Producing(c) /\ v # Nothing
    BY <1>1, <1>9, ValuesAssumption DEF Read, Request, Producing
  <2>3. now' = now /\ store' = store
    BY <1>9 DEF Read
  <2> QED BY <1>1, <2>1, <2>2, <2>3 DEF StampsInOrder, Producing
<1>10. ASSUME NEW c \in Callers, Put(c) PROVE StampsInOrder'
  <2>1. \A d \in Callers : Producing(d)' => d # c /\ caller'[d] = caller[d]
    BY <1>4, <1>10 DEF Put, Answer
  <2>2. now' = now /\ caller[c].stage = "produced"
    BY <1>10 DEF Put
  <2>3. /\ caller[c].since <= caller[c].read /\ caller[c].read <= now
        /\ now - caller[c].since <= Slow
    BY <2>2 DEF StampsInOrder, Producing
  <2>4. ASSUME NEW k \in Keys, store'[k] # Nothing
        PROVE  /\ store'[k].read <= store'[k].at /\ store'[k].at <= now
               /\ store'[k].at - store'[k].read <= Slow
    <3>1. CASE k = caller[c].key
      <4>1. store'[k].at = now /\ store'[k].read = caller[c].read
        BY <1>1, <1>10, <3>1 DEF Put
      <4> QED BY <1>1, <1>2, <2>3, <4>1
    <3>2. CASE k # caller[c].key
      <4>1. store'[k] = store[k]
        BY <1>1, <1>10, <3>2 DEF Put
      <4> QED BY <2>4, <4>1 DEF StampsInOrder
    <3> QED BY <3>1, <3>2
  <2>5. \A d \in Callers : Producing(d)' => Producing(d)
    BY <2>1 DEF Producing
  <2> QED BY <2>1, <2>2, <2>4, <2>5 DEF StampsInOrder
<1>11. ASSUME NEW c \in Callers, Fail(c) PROVE StampsInOrder'
  BY <1>3, <1>4, <1>11 DEF Fail
<1>12. ASSUME NEW c \in Callers, NextRequest(c) PROVE StampsInOrder'
  <2>1. caller'[c].stage = "idle" /\ \A d \in Callers \ {c} : caller'[d] = caller[d]
    BY <1>1, <1>12 DEF NextRequest
  <2> QED BY <1>3, <1>12, <2>1 DEF NextRequest, Producing
<1>13. ASSUME NEW ks, Invalidate(ks) PROVE StampsInOrder'
  <2>1. \A k \in Keys : store'[k] # Nothing => store'[k] = store[k]
    BY <1>13 DEF Invalidate
  <2>2. now' = now /\ caller' = caller
    BY <1>13 DEF Invalidate
  <2> QED BY <2>1, <2>2 DEF StampsInOrder, Producing
<1>14. CASE CacheStep
  <2>1. \A c \in Callers : View[caller[c].key] \in Values
    BY <1>2, ViewType
  <2> QED BY <1>6, <1>7, <1>8, <1>9, <1>10, <1>11, <1>12, <1>13, <1>14, <2>1 DEF CacheStep
<1>15. CASE UNCHANGED cacheVars
  BY <1>15 DEF cacheVars, StampsInOrder, Producing
<1> QED BY <1>14, <1>15, NewsKeepsCache DEF Next, NewsStep, vars

\* What a commit does to the history.
LEMMA NewsCommits == NewsStep => Commit
BY DEF NewsStep, AdminNewsCreate, CreateNews, AdminNewsUpdate, UpdateNews, DeleteNews,
   AddPost, SetPost

\* A commit ends what was true, and leaves it in the history.
LEMMA HeldStays ==
  ASSUME NewsTypeOK, now \in 0..MaxTime, Commit \/ UNCHANGED newsVars,
         NEW k \in Keys, NEW v, NEW t \in Int, t <= now, HeldSince(k, v, t)
  PROVE  HeldSince(k, v, t)'
<1>1. CASE UNCHANGED newsVars
  BY <1>1 DEF HeldSince, newsVars, View, Banner, Feed, Exists
<1>2. CASE Commit
  <2> DEFINE ended == [until |-> now, was |-> View]
             Ends == [until : 0..MaxTime, was : [Keys -> Values]]
  <2>1. past \in Seq(Ends) /\ past' = Append(past, ended) /\ ended \in Ends
    BY <1>2, ViewType DEF Commit, NewsTypeOK
  <2>2. /\ Len(past) \in Nat /\ DOMAIN past = 1..Len(past)
        /\ DOMAIN past' = 1..(Len(past) + 1)
        /\ \A i \in 1..Len(past) : past'[i] = past[i]
        /\ past'[Len(past) + 1] = ended
    BY <2>1, AppendFacts
  <2>3. CASE View[k] = v
    <3>1. ended.was[k] = v /\ ended.until >= t
      BY <2>3
    <3>2. Len(past) + 1 \in DOMAIN past'
      BY <2>2
    <3> QED BY <2>2, <3>1, <3>2 DEF HeldSince
  <2>4. ASSUME NEW i \in DOMAIN past, past[i].was[k] = v /\ past[i].until >= t
        PROVE  HeldSince(k, v, t)'
    <3>1. i \in DOMAIN past' /\ past'[i] = past[i]
      BY <2>2, <2>4
    <3> QED BY <2>4, <3>1 DEF HeldSince
  <2> QED BY <2>3, <2>4 DEF HeldSince
<1> QED BY <1>1, <1>2

LEMMA CopyStep == IInv /\ CacheTypeOK' /\ [Next]_vars => CopiesWereTrue'
<1> SUFFICES ASSUME IInv, CacheTypeOK', [Next]_vars PROVE CopiesWereTrue'
  OBVIOUS
<1> USE TtlAssumption DEF IInv
<1>1. /\ caller \in [Callers -> Request] /\ store \in [Keys -> Entry \cup {Nothing}]
      /\ now \in 0..MaxTime
  BY DEF CacheTypeOK
<1>2. \A c \in Callers : caller[c].key \in Keys /\ caller[c].read \in Int
  BY <1>1 DEF Request
<1>3. \A k \in Keys : store[k] # Nothing => store[k].read \in Int /\ store[k].read <= now
  BY <1>1 DEF StampsInOrder, Entry
<1>4. Commit \/ UNCHANGED newsVars
  BY NewsCommits DEF Next, NewsStep, CacheStep, vars
<1>5. ASSUME NEW k \in Keys, store[k] # Nothing
      PROVE  HeldSince(k, store[k].value, store[k].read)'
             \/ store'[k] # store[k]
  <2>1. SUFFICES ASSUME store'[k] = store[k]
                 PROVE  HeldSince(k, store[k].value, store[k].read)'
    OBVIOUS
  <2>2. PICK v, t : v = store[k].value /\ t = store[k].read
    OBVIOUS
  <2>3. t \in Int /\ t <= now /\ HeldSince(k, v, t)
    BY <1>3, <1>5, <2>2 DEF CopiesWereTrue
  <2>4. HeldSince(k, v, t)'
    BY <1>1, <1>4, <2>3, HeldStays
  <2> QED BY <2>1, <2>2, <2>4
<1>6. ASSUME NEW c \in Callers, caller[c].stage = "produced", caller'[c] = caller[c]
      PROVE  HeldSince(caller[c].key, caller[c].value, caller[c].read)'
  <2>1. PICK k, v, t : k \in Keys /\ k = caller[c].key /\ v = caller[c].value /\ t = caller[c].read
    BY <1>2
  <2>2. t \in Int /\ t <= now /\ HeldSince(k, v, t)
    BY <1>2, <1>6, <2>1 DEF CopiesWereTrue, StampsInOrder, Producing
  <2>3. HeldSince(k, v, t)'
    BY <1>1, <1>4, <2>1, <2>2, HeldStays
  <2> QED BY <1>6, <2>1, <2>3
<1>7. ASSUME NEW c \in Callers, Read(c, View[caller[c].key]), UNCHANGED newsVars
      PROVE  HeldSince(caller[c].key, caller[c].value, caller[c].read)'
  <2>1. caller'[c].key = caller[c].key /\ caller'[c].value = View[caller[c].key]
    BY <1>1, <1>7 DEF Read, Request
  <2>2. View' = View
    BY <1>7 DEF newsVars, View, Banner, Feed, Exists
  <2> QED BY <2>1, <2>2 DEF HeldSince
<1>8. ASSUME NEW c \in Callers, Put(c), UNCHANGED newsVars
      PROVE  HeldSince(caller[c].key, store[caller[c].key].value, store[caller[c].key].read)'
  <2>1. PICK k, v, t : k \in Keys /\ k = caller[c].key /\ v = caller[c].value /\ t = caller[c].read
    BY <1>2
  <2>2. HeldSince(k, v, t) /\ t \in Int /\ t <= now
    BY <1>2, <1>8, <2>1 DEF Put, CopiesWereTrue, StampsInOrder, Producing
  <2>3. HeldSince(k, v, t)'
    BY <1>1, <1>4, <2>1, <2>2, HeldStays
  <2>4. store'[k].value = v /\ store'[k].read = t /\ caller'[c].key = k
    BY <1>1, <1>8, <2>1 DEF Put, Answer, Left
  <2> QED BY <2>3, <2>4
<1>9. ASSUME NEW k \in Keys, store'[k] # Nothing
      PROVE  HeldSince(k, store[k].value, store[k].read)'
  <2>1. CASE store'[k] = store[k]
    BY <1>5, <1>9, <2>1
  <2>2. CASE store'[k] # store[k]
    <3>1. PICK c \in Callers : Put(c) /\ k = caller[c].key /\ UNCHANGED newsVars
      <4>1. CacheStep
        BY <2>2, NewsKeepsCache DEF Next, NewsStep, vars, cacheVars
      <4>2. ASSUME NEW ks, Invalidate(ks) PROVE FALSE
        BY <1>9, <2>2, <4>2 DEF Invalidate
      <4>3. PICK c \in Callers : Put(c)
        BY <2>2, <4>1, <4>2 DEF CacheStep, Tick, Get, Enter, Read, Fail, NextRequest
      <4>4. k = caller[c].key
        BY <1>1, <2>2, <4>3 DEF Put
      <4> QED BY <4>1, <4>3, <4>4 DEF CacheStep
    <3>2. caller'[c].key = caller[c].key
      BY <1>1, <3>1 DEF Put, Answer, Left
    <3> QED BY <1>8, <3>1, <3>2
  <2> QED BY <2>1, <2>2
<1>10. ASSUME NEW c \in Callers, caller'[c].stage = "produced"
       PROVE  HeldSince(caller[c].key, caller[c].value, caller[c].read)'
  <2>1. CASE caller'[c] = caller[c]
    BY <1>6, <1>10, <2>1
  <2>2. CASE caller'[c] # caller[c]
    <3>1. CacheStep
      BY <2>2, NewsKeepsCache DEF Next, NewsStep, vars, cacheVars
    <3>2. ASSUME NEW d \in Callers, NEW stage \in {"done", "failed"}, NEW v, Left(d, stage, v)
          PROVE  FALSE
      BY <1>1, <1>10, <2>2, <3>2 DEF Left
    <3>3. ASSUME NEW d \in Callers, Start(d) PROVE FALSE
      BY <1>1, <1>10, <2>2, <3>3 DEF Start, Request
    <3>4. ASSUME NEW d \in Callers, caller' = [caller EXCEPT ![d].stage = "waiting"]
          PROVE  FALSE
      BY <1>1, <1>10, <2>2, <3>4 DEF Request
    <3>5. ASSUME NEW d \in Callers, NextRequest(d) PROVE FALSE
      BY <1>1, <1>10, <2>2, <3>5 DEF NextRequest
    <3>6. PICK d \in Callers : Read(d, View[caller[d].key])
      BY <2>2, <3>1, <3>2, <3>3, <3>4, <3>5
         DEF CacheStep, Tick, Get, Enter, Put, Fail, Invalidate, Answer
    <3>7. d = c
      BY <1>1, <2>2, <3>6 DEF Read
    <3> QED BY <1>7, <3>1, <3>6, <3>7 DEF CacheStep
  <2> QED BY <2>1, <2>2
<1> QED BY <1>9, <1>10 DEF CopiesWereTrue

LEMMA InvStep == IInv /\ [Next]_vars => IInv'
BY QueueStep, CacheTypeStep, NewsTypeStep, StampStep, CopyStep DEF IInv

\* cache.py:22-39: see IInv.
THEOREM Invariance == Spec => []IInv
BY InitInv, InvStep, PTL DEF Spec

-----------------------------------------------------------------------------

\* A fresh value appears only when its producer returns, and no other
\* producer of the key runs then.
LEMMA WasteStep == IInv /\ IInv' /\ NoWastedFetch /\ [Next]_vars => NoWastedFetch'
<1> SUFFICES ASSUME IInv, IInv', NoWastedFetch, [Next]_vars, NEW d \in Callers,
                    Producing(d)', Fresh(caller[d].key)'
             PROVE  FALSE
  BY DEF NoWastedFetch
<1> USE TtlAssumption DEF IInv
<1>1. /\ caller \in [Callers -> Request] /\ store \in [Keys -> Entry \cup {Nothing}]
      /\ now \in Int
  BY DEF CacheTypeOK
<1>2. \A c \in Callers : caller[c].key \in Keys
  BY <1>1 DEF Request
<1>3. PICK k \in Keys : k = caller'[d].key
  BY DEF CacheTypeOK, Request
<1>4. /\ store'[k] # Nothing /\ now' - store'[k].at < Ttl[k]
  BY <1>3 DEF Fresh
<1>5. ASSUME NEW c \in Callers, Put(c) PROVE FALSE
  <2>1. caller'[c].stage = "done" /\ \A e \in Callers \ {c} : caller'[e] = caller[e]
    BY <1>1, <1>5 DEF Put, Answer, Left
  <2>2. d # c /\ caller'[d] = caller[d] /\ Producing(d)
    BY <2>1 DEF Producing
  <2>3. Producing(c)
    BY <1>5 DEF Put, Producing
  <2>4. CASE caller[c].key = k
    BY <1>3, <2>2, <2>3, <2>4 DEF HolderProduces, InQueue
  <2>5. CASE caller[c].key # k
    <3>1. store'[k] = store[k] /\ now' = now
      BY <1>1, <1>5, <2>5 DEF Put
    <3> QED BY <1>3, <1>4, <2>2, <3>1 DEF NoWastedFetch, Fresh
  <2> QED BY <2>4, <2>5
<1>6. ASSUME store'[k] = store[k], now' \in {now, now + 1} PROVE Fresh(k)
  <2>1. store[k].at \in Int /\ Ttl[k] \in Int
    BY <1>1, <1>4, <1>6 DEF Entry
  <2> QED BY <1>1, <1>4, <1>6, <2>1 DEF Fresh
<1>7. ASSUME store'[k] = store[k], now' \in {now, now + 1}, caller'[d] = caller[d] PROVE FALSE
  <2>1. Producing(d) /\ caller[d].key = k
    BY <1>3, <1>7 DEF Producing
  <2> QED BY <1>6, <1>7, <2>1 DEF NoWastedFetch
<1>8. ASSUME NEW c \in Callers, NEW stage \in {"done", "failed"}, NEW v, Left(c, stage, v),
             UNCHANGED <<now, store>>
      PROVE  FALSE
  <2>1. caller'[c].stage = stage /\ \A e \in Callers \ {c} : caller'[e] = caller[e]
    BY <1>1, <1>8 DEF Left
  <2>2. d # c
    BY <2>1 DEF Producing
  <2> QED BY <1>7, <1>8, <2>1, <2>2
<1>9. ASSUME NEW c \in Callers, Start(c), ~Fresh(caller[c].key), UNCHANGED <<now, store>>
      PROVE  FALSE
  <2>1. caller'[c].key = caller[c].key /\ \A e \in Callers \ {c} : caller'[e] = caller[e]
    BY <1>1, <1>9 DEF Start, Request
  <2>2. CASE d = c
    BY <1>3, <1>6, <1>9, <2>1, <2>2
  <2>3. CASE d # c
    BY <1>7, <1>9, <2>1, <2>3
  <2> QED BY <2>2, <2>3
<1>10. ASSUME NEW c \in Callers, NEW j \in Keys, Get(c, j) PROVE FALSE
  <2>1. UNCHANGED <<now, store>> /\ caller[c].key = j
    BY <1>10 DEF Get
  <2>2. CASE Answer(c, store[j].value)
    BY <1>8, <2>1, <2>2 DEF Answer
  <2>3. CASE Start(c) /\ ~Fresh(j)
    BY <1>9, <2>1, <2>3
  <2>4. CASE caller' = [caller EXCEPT ![c].stage = "waiting"]
    <3>1. caller'[c].stage = "waiting" /\ \A e \in Callers \ {c} : caller'[e] = caller[e]
      BY <1>1, <2>4 DEF Request
    <3>2. d # c
      BY <3>1 DEF Producing
    <3> QED BY <1>7, <2>1, <3>1, <3>2
  <2> QED BY <1>10, <2>2, <2>3, <2>4 DEF Get
<1>11. ASSUME NEW c \in Callers, Enter(c) PROVE FALSE
  BY <1>8, <1>9, <1>11 DEF Enter, Answer
<1>12. ASSUME NEW c \in Callers, NEW v, Read(c, v) PROVE FALSE
  <2>1. /\ caller'[c].key = caller[c].key /\ \A e \in Callers \ {c} : caller'[e] = caller[e]
        /\ Producing(c) /\ UNCHANGED <<now, store>>
    BY <1>1, <1>12 DEF Read, Request, Producing
  <2>2. CASE d = c
    BY <1>3, <1>6, <2>1, <2>2 DEF NoWastedFetch
  <2>3. CASE d # c
    BY <1>7, <2>1, <2>3
  <2> QED BY <2>2, <2>3
<1>13. ASSUME NEW c \in Callers, NextRequest(c) PROVE FALSE
  <2>1. /\ caller'[c].stage = "idle" /\ \A e \in Callers \ {c} : caller'[e] = caller[e]
        /\ UNCHANGED <<now, store>>
    BY <1>1, <1>13 DEF NextRequest
  <2>2. d # c
    BY <2>1 DEF Producing
  <2> QED BY <1>7, <2>1, <2>2
<1>14. ASSUME NEW ks, Invalidate(ks) PROVE FALSE
  <2>1. store'[k] = store[k] /\ now' = now /\ caller' = caller
    BY <1>4, <1>14 DEF Invalidate
  <2> QED BY <1>7, <2>1
<1>15. CASE Tick
  BY <1>7, <1>15 DEF Tick
<1>16. ASSUME NEW c \in Callers, Fail(c) PROVE FALSE
  BY <1>8, <1>16 DEF Fail
<1>17. CASE CacheStep
  BY <1>5, <1>10, <1>11, <1>12, <1>13, <1>14, <1>15, <1>16, <1>17 DEF CacheStep
<1>18. CASE UNCHANGED cacheVars
  BY <1>7, <1>18 DEF cacheVars
<1> QED BY <1>17, <1>18, NewsKeepsCache DEF Next, NewsStep, vars

\* cache.py:24-25, 33-36: see NoWastedFetch.
THEOREM FetchesAreShared == Spec => []NoWastedFetch
<1>1. Init => NoWastedFetch
  BY DEF Init, CacheInit, NoWastedFetch, Producing
<1> QED BY <1>1, Invariance, WasteStep, PTL DEF Spec

-----------------------------------------------------------------------------
(* The refinement of FreshView.                                            *)

LEMMA InitView == Init => Promise!Init
<1> SUFFICES ASSUME Init PROVE Promise!Init
  OBVIOUS
<1>1. \A c \in Callers : Shown[c] = Nothing
  BY DEF Init, CacheInit, Shown
<1>2. Shown = [c \in Callers |-> Nothing]
  BY <1>1 DEF Shown
<1> QED BY <1>2, ViewType DEF Init, CacheInit, Promise!Init

\* What c is shown, when the others see no change.
LEMMA ShownStep ==
  ASSUME NEW c \in Callers, \A d \in Callers \ {c} : caller'[d] = caller[d]
  PROVE  Shown' = [Shown EXCEPT ![c] =
                    IF caller'[c].stage = "done"
                    THEN [key |-> caller'[c].key, value |-> caller'[c].value] ELSE Nothing]
BY DEF Shown

\* A value that was true when it was read, lately enough.
LEMMA ShowStep ==
  ASSUME IInv, NEW c \in Callers, NEW k \in Keys, NEW v \in Values, NEW t \in Int,
         HeldSince(k, v, t), now - t <= Ttl[k] + Slow - 1,
         k = caller[c].key, Answer(c, v), now' = now, UNCHANGED newsVars
  PROVE  Promise!Show(c)
<1> USE TtlAssumption
<1>1. caller \in [Callers -> Request] /\ now \in Int
  BY DEF IInv, CacheTypeOK
<1>2. \A d \in Callers \ {c} : caller'[d] = caller[d]
  BY <1>1 DEF Answer, Left
<1>3. caller'[c].stage = "done" /\ caller'[c].key = k /\ caller'[c].value = v
  BY <1>1 DEF Answer, Left
<1>4. Shown' = [Shown EXCEPT ![c] = [key |-> k, value |-> v]]
  BY <1>2, <1>3, ShownStep
<1>5. past \in Seq([until : 0..MaxTime, was : [Keys -> Values]])
  BY DEF IInv, NewsTypeOK
<1>6. Promise!HeldSince(k, v, now - (Ttl[k] + Slow - 1))
  <2>1. CASE View[k] = v
    BY <2>1 DEF Promise!HeldSince
  <2>2. ASSUME NEW i \in DOMAIN past, past[i].was[k] = v, past[i].until >= t
        PROVE  past[i].until >= now - (Ttl[k] + Slow - 1)
    <3>1. past[i].until \in Int
      <4>1. past[i] \in [until : 0..MaxTime, was : [Keys -> Values]]
        BY <1>5, ElementFact
      <4> QED BY <4>1
    <3>2. Ttl[k] \in Int /\ Slow \in Int
      BY TtlAssumption
    <3> QED BY <1>1, <2>2, <3>1, <3>2
  <2> QED BY <2>1, <2>2 DEF HeldSince, Promise!HeldSince
<1>7. View' = View
  BY DEF newsVars, View, Banner, Feed, Exists
<1> QED BY <1>4, <1>6, <1>7 DEF Promise!Show, newsVars

\* Steps of c that show nothing.
LEMMA LeaveStep ==
  ASSUME NEW c \in Callers, \A d \in Callers \ {c} : caller'[d] = caller[d],
         caller'[c].stage # "done", now' = now, UNCHANGED newsVars
  PROVE  Promise!Leave(c)
<1>1. Shown' = [Shown EXCEPT ![c] = Nothing]
  BY ShownStep
<1>2. View' = View
  BY DEF newsVars, View, Banner, Feed, Exists
<1> QED BY <1>1, <1>2 DEF Promise!Leave, newsVars

\* A fresh entry is young enough.
LEMMA FreshIsLate ==
  ASSUME IInv, NEW k \in Keys, Fresh(k)
  PROVE  /\ store[k].value \in Values /\ store[k].read \in Int
         /\ HeldSince(k, store[k].value, store[k].read)
         /\ now - store[k].read <= Ttl[k] + Slow - 1
<1> USE TtlAssumption
<1>1. store[k] \in Entry /\ store[k] # Nothing /\ now \in Int
  BY DEF IInv, CacheTypeOK, Fresh
<1>2. store[k].at \in Int /\ store[k].read \in Int /\ store[k].value \in Values
  BY <1>1 DEF Entry
<1>3. now - store[k].at < Ttl[k] /\ store[k].at - store[k].read <= Slow
  BY <1>1 DEF Fresh, IInv, StampsInOrder
<1>4. Ttl[k] \in Int /\ Slow \in Int
  OBVIOUS
<1> QED BY <1>1, <1>2, <1>3, <1>4 DEF IInv, CopiesWereTrue

LEMMA ViewStep == IInv /\ IInv' /\ [Next]_vars => [Promise!Next]_Promise!vars
<1> SUFFICES ASSUME IInv, IInv', [Next]_vars PROVE [Promise!Next]_Promise!vars
  OBVIOUS
<1> USE TtlAssumption
<1>1. /\ caller \in [Callers -> Request] /\ now \in Int
      /\ \A c \in Callers : caller[c].key \in Keys /\ caller[c].read \in Int
                            /\ caller[c].since \in Int /\ caller[c].value \in Values \cup {Nothing}
  BY DEF IInv, CacheTypeOK, Request
<1>2. CASE NewsStep
  <2>1. Commit /\ UNCHANGED cacheVars
    BY <1>2, NewsCommits, NewsKeepsCache
  <2>2. Shown' = Shown
    BY <2>1 DEF cacheVars, Shown
  <2>3. View' \in [Keys -> Values]
    BY ValuesAssumption DEF View, Banner, Feed, Ids
  <2> QED BY <2>1, <2>2, <2>3 DEF Commit, cacheVars, Promise!Change, Promise!Next
<1>3. CASE UNCHANGED vars
  BY <1>3 DEF vars, cacheVars, newsVars, Promise!vars, Shown, View, Banner, Feed, Exists
<1>4. CASE Tick /\ UNCHANGED newsVars
  BY <1>4 DEF Tick, newsVars, Shown, View, Banner, Feed, Exists, Promise!Tick, Promise!Next
<1>5. ASSUME NEW c \in Callers, NEW k \in Keys, Get(c, k), UNCHANGED newsVars
      PROVE  Promise!Show(c) \/ Promise!Leave(c)
  <2>1. caller[c].key = k /\ now' = now
    BY <1>5 DEF Get
  <2>2. CASE Fresh(k) /\ Answer(c, store[k].value)
    BY <1>5, <2>1, <2>2, FreshIsLate, ShowStep
  <2>3. CASE Start(c)
    BY <1>1, <1>5, <2>1, <2>3, LeaveStep DEF Start, Request
  <2>4. CASE caller' = [caller EXCEPT ![c].stage = "waiting"]
    BY <1>1, <1>5, <2>1, <2>4, LeaveStep DEF Request
  <2> QED BY <1>5, <2>2, <2>3, <2>4 DEF Get
<1>6. ASSUME NEW c \in Callers, Enter(c), UNCHANGED newsVars
      PROVE  Promise!Show(c) \/ Promise!Leave(c)
  <2>1. now' = now /\ caller[c].key \in Keys
    BY <1>1, <1>6 DEF Enter
  <2>2. CASE Fresh(caller[c].key) /\ Answer(c, store[caller[c].key].value)
    BY <1>6, <2>1, <2>2, FreshIsLate, ShowStep
  <2>3. CASE Start(c)
    BY <1>1, <1>6, <2>1, <2>3, LeaveStep DEF Start, Request
  <2> QED BY <1>6, <2>2, <2>3 DEF Enter
<1>7. ASSUME NEW c \in Callers, NEW v, Read(c, v), UNCHANGED newsVars PROVE Promise!Leave(c)
  BY <1>1, <1>7, LeaveStep DEF Read, Request
<1>8. ASSUME NEW c \in Callers, Put(c), UNCHANGED newsVars PROVE Promise!Show(c)
  <2>1. Producing(c) /\ caller[c].stage = "produced" /\ now' = now /\ Answer(c, caller[c].value)
    BY <1>8 DEF Put, Producing
  <2>2. /\ caller[c].value # Nothing /\ caller[c].since <= caller[c].read
        /\ now - caller[c].since <= Slow
        /\ HeldSince(caller[c].key, caller[c].value, caller[c].read)
    BY <2>1 DEF IInv, StampsInOrder, CopiesWereTrue
  <2>3. Ttl[caller[c].key] \in Nat \ {0} /\ Slow \in Int
    BY <1>1
  <2>4. now - caller[c].read <= Ttl[caller[c].key] + Slow - 1
    BY <1>1, <2>2, <2>3
  <2> QED BY <1>1, <1>8, <2>1, <2>2, <2>4, ShowStep
<1>9. ASSUME NEW c \in Callers, Fail(c), UNCHANGED newsVars PROVE Promise!Leave(c)
  BY <1>1, <1>9, LeaveStep DEF Fail, Left
<1>10. ASSUME NEW c \in Callers, NextRequest(c), UNCHANGED newsVars PROVE Promise!Leave(c)
  BY <1>1, <1>10, LeaveStep DEF NextRequest
<1>11. ASSUME NEW ks, Invalidate(ks), UNCHANGED newsVars PROVE UNCHANGED Promise!vars
  BY <1>11 DEF Invalidate, newsVars, Promise!vars, Shown, View, Banner, Feed, Exists
<1>12. CASE CacheStep
  BY <1>4, <1>5, <1>6, <1>7, <1>8, <1>9, <1>10, <1>11, <1>12 DEF CacheStep, Promise!Next
<1> QED BY <1>2, <1>3, <1>12 DEF Next, NewsStep

\* main.py:285-299, feeds.py:101-119, cache.py:58-67: see ImplementsFreshView.
THEOREM PagesAreFresh == Spec => ImplementsFreshView
BY InitView, Invariance, ViewStep, PTL DEF Spec, ImplementsFreshView, Promise!Spec
=============================================================================
