--------------------------- MODULE RateLimitProofs ---------------------------
(***************************************************************************)
(* Proofs about RateLimit, for any finite set of addresses and any limits. *)
(*                                                                         *)
(* The heart is the trim: the keys in the dict are totally ordered by      *)
(* their last access, so among more than MaxKeys of them the oldest is     *)
(* evicted (OldestExists, TrimFits).  With the store exact (StoreIsExact), *)
(* the decision taken on a list is the one a full record would give.       *)
(***************************************************************************)
EXTENDS RateLimit, TLAPS, FiniteSetTheorems, WellFoundedInduction

\* There are finitely many stamps, so every list has a length.
LEMMA StampFinite == IsFiniteSet(Stamp)
<1> DEFINE Pairs == (0..MaxTime) \X (1..MaxAttempts)
           f == [e \in Stamp |-> <<e.at, e.n>>]
<1>1. IsFiniteSet(Pairs)
  <2>1. IsFiniteSet(0..MaxTime) /\ IsFiniteSet(1..MaxAttempts)
    BY FS_Interval, LimitsAssumption
  <2> QED BY <2>1, FS_Product
<1>2. f \in [Stamp -> Pairs]
  BY DEF Stamp
<1>3. \A a, b \in Stamp : f[a] = f[b] => a = b
  BY DEF Stamp
<1>4. f \in Injection(Stamp, Pairs)
  BY <1>2, <1>3 DEF Injection, IsInjective
<1> HIDE DEF f, Pairs
<1> QED BY <1>1, <1>4, FS_Injection

\* A nonempty set of keys has one that was accessed before all the others.
LEMMA OldestExists ==
  ASSUME NEW L \in SUBSET held, IsFiniteSet(held), AccessOrder, L # {}
  PROVE  \E k \in L : \A j \in L \ {k} : <<k, j>> \in older
<1> DEFINE D(k) == {j \in L : <<j, k>> \in older}
           Family == {D(k) : k \in L}
<1>1. IsFiniteSet(L)
  BY FS_Subset
<1>2. IsWellFoundedOn(StrictSubsetOrdering(L), SUBSET L)
  BY <1>1, FS_FiniteSubsetsOfFinite, FS_StrictSubsetOrderingWellFounded
<1>3. Family \subseteq SUBSET L /\ Family # {}
  OBVIOUS
<1>4. PICK d \in Family : \A e \in Family : <<e, d>> \notin StrictSubsetOrdering(L)
  <2> HIDE DEF Family
  <2> QED BY <1>2, <1>3, WFMin
<1>5. PICK k \in L : d = D(k)
  BY <1>4
<1>6. ASSUME NEW j \in L \ {k}, <<k, j>> \notin older
      PROVE  FALSE
  <2>1. <<j, k>> \in older
    BY <1>6 DEF AccessOrder
  <2>2. D(j) \subseteq D(k)
    BY <2>1 DEF AccessOrder
  <2>3. j \in D(k) /\ j \notin D(j)
    BY <2>1 DEF AccessOrder
  <2>4. <<D(j), D(k)>> \in StrictSubsetOrdering(L)
    BY <2>2, <2>3 DEF StrictSubsetOrdering
  <2>5. D(j) \in Family
    OBVIOUS
  <2> QED BY <2>4, <2>5, <1>4, <1>5
<1> QED BY <1>6

\* popitem(last=False) brings a dict with one key too many down to MAX_KEYS.
LEMMA TrimFits ==
  ASSUME NEW L \in SUBSET held, IsFiniteSet(held), AccessOrder,
         Cardinality(L) <= MaxKeys + 1
  PROVE  Cardinality(L \ Evictable(L)) <= MaxKeys
<1>1. IsFiniteSet(L) /\ Cardinality(L) \in Nat
  BY FS_Subset, FS_CardinalityType
<1>2. CASE Cardinality(L) <= MaxKeys
  BY <1>1, <1>2, FS_Difference, FS_Subset, FS_CardinalityType, LimitsAssumption
<1>3. CASE Cardinality(L) = MaxKeys + 1
  <2>1. L # {}
    BY <1>3, FS_EmptySet, LimitsAssumption
  <2>2. PICK k \in L : \A j \in L \ {k} : <<k, j>> \in older
    BY <2>1, OldestExists
  <2>3. {j \in L : <<k, j>> \in older} = L \ {k}
    BY <2>2 DEF AccessOrder
  <2>4. IsFiniteSet(L \ {k}) /\ Cardinality(L \ {k}) = Cardinality(L) - 1
    BY <1>1, FS_RemoveElement, Zenon
  <2>5. Cardinality(L \ {k}) = MaxKeys
    BY <2>4, <1>3, LimitsAssumption
  <2>7. k \in Evictable(L)
    <3>1. Cardinality({j \in L : <<k, j>> \in older}) = MaxKeys
      BY <2>3, <2>5, Zenon
    <3> QED BY <3>1, LimitsAssumption DEF Evictable
  <2>6. L \ Evictable(L) \in SUBSET (L \ {k})
    BY <2>7
  <2> QED BY <2>4, <2>5, <2>6, FS_Subset
<1> QED BY <1>1, <1>2, <1>3, LimitsAssumption

\* What check_and_record finds in the dict after its trim.
LEMMA KeptFits ==
  ASSUME IInv
  PROVE  /\ Kept \in SUBSET held
         /\ IsFiniteSet(Kept)
         /\ Cardinality(Kept) <= MaxKeys
<1>1. IsFiniteSet(held) /\ Cardinality(held) \in Nat
  BY KeysAssumption, FS_Subset, FS_CardinalityType DEF IInv, TypeOK
<1>2. Kept \in SUBSET held
  BY DEF Kept, Trimmed, Live
<1>3. CASE Cardinality(held) >= MaxKeys
  <2>1. Live \in SUBSET held
    BY DEF Live
  <2>2. IsFiniteSet(Live) /\ Cardinality(Live) <= MaxKeys + 1
    BY <1>1, <2>1, FS_Subset, FS_CardinalityType, LimitsAssumption
       DEF IInv, BoundedMemory
  <2>3. Cardinality(Live \ Evictable(Live)) <= MaxKeys
    BY <1>1, <2>1, <2>2, TrimFits DEF IInv
  <2> QED BY <1>1, <1>2, <1>3, <2>3, FS_Subset DEF Kept, Trimmed
<1>4. CASE ~(Cardinality(held) >= MaxKeys)
  BY <1>1, <1>4, LimitsAssumption DEF Kept
<1> QED BY <1>3, <1>4, <1>2, <1>1, FS_Subset

\* The lists are finite, and so are their parts.
LEMMA StampsAreFinite ==
  ASSUME NEW S \in SUBSET Stamp
  PROVE  /\ IsFiniteSet(S) /\ Cardinality(S) \in Nat
         /\ \A T \in SUBSET S : /\ IsFiniteSet(T) /\ Cardinality(T) \in Nat
                               /\ Cardinality(T) <= Cardinality(S)
  BY StampFinite, FS_Subset, FS_CardinalityType

\* The comparison with the limit has an outcome.
LEMMA MayProceedIsBoolean ==
  ASSUME NEW bucket
  PROVE  MayProceed(bucket) \in BOOLEAN
  BY DEF MayProceed

LEMMA InitHolds == Init => IInv
<1> SUFFICES ASSUME Init PROVE IInv
  OBVIOUS
<1>1. TypeOK /\ AccessOrder
  BY LimitsAssumption DEF Init, TypeOK, AccessOrder
<1>2. BoundedMemory
  BY FS_EmptySet, LimitsAssumption DEF Init, BoundedMemory
<1>3. StoreIsExact
  BY FS_EmptySet, LimitsAssumption DEF Init, StoreIsExact, InWindow, SameTick
<1> QED BY <1>1, <1>2, <1>3 DEF IInv

LEMMA TickPreserves == IInv /\ Tick => IInv'
<1> SUFFICES ASSUME IInv, Tick PROVE IInv'
  OBVIOUS
<1>1. TypeOK'
  BY LimitsAssumption DEF IInv, Tick, TypeOK
<1>2. AccessOrder' /\ BoundedMemory'
  BY DEF IInv, Tick, AccessOrder, BoundedMemory
<1>3. StoreIsExact'
  <2> SUFFICES ASSUME NEW k \in Keys
               PROVE  /\ k \notin held' => hits'[k] = {}
                      /\ hits'[k] \subseteq granted'[k]
                      /\ InWindow(granted[k])' \subseteq hits'[k]
                      /\ Cardinality(hits'[k]) <= MaxAttempts
                      /\ \A e \in granted'[k] : e.at <= now'
                      /\ \A e \in SameTick(granted[k])' :
                           e.n <= Cardinality(SameTick(hits[k])')
    BY DEF StoreIsExact, InWindow, SameTick
  <2>1. granted[k] \subseteq Stamp /\ now \in Nat /\ now' = now + 1
    BY LimitsAssumption DEF IInv, TypeOK, Tick
  <2>2. \A e \in granted[k] : e.at \in Nat /\ e.at <= now
    BY <2>1 DEF IInv, StoreIsExact, Stamp
  <2>3. hits' = hits /\ granted' = granted /\ held' = held
    BY DEF Tick
  <2>4. SameTick(granted[k])' = {}
    BY <2>1, <2>2, <2>3 DEF SameTick
  <2>5. InWindow(granted[k])' \subseteq InWindow(granted[k])
    BY <2>1, <2>2, <2>3, LimitsAssumption DEF InWindow
  <2>6. \A e \in granted'[k] : e.at <= now'
    BY <2>1, <2>2, <2>3
  <2> QED BY <2>3, <2>4, <2>5, <2>6 DEF IInv, StoreIsExact
<1> QED BY <1>1, <1>2, <1>3 DEF IInv

LEMMA ResetPreserves ==
  ASSUME IInv, NEW k \in Keys, Reset(k)
  PROVE  IInv'
<1>1. TypeOK'
  BY DEF IInv, Reset, TypeOK
<1>2. AccessOrder'
  BY DEF IInv, Reset, AccessOrder
<1>3. BoundedMemory'
  <2>1. IsFiniteSet(held) /\ Cardinality(held) \in Nat
    BY KeysAssumption, FS_Subset, FS_CardinalityType DEF IInv, TypeOK
  <2>2. Cardinality(held \ {k}) <= Cardinality(held) /\ Cardinality(held \ {k}) \in Nat
    BY <2>1, FS_Subset, FS_CardinalityType
  <2> QED BY <2>1, <2>2, LimitsAssumption DEF IInv, Reset, BoundedMemory
<1>4. StoreIsExact'
  <2> SUFFICES ASSUME NEW j \in Keys
               PROVE  /\ j \notin held' => hits'[j] = {}
                      /\ hits'[j] \subseteq granted'[j]
                      /\ InWindow(granted[j])' \subseteq hits'[j]
                      /\ Cardinality(hits'[j]) <= MaxAttempts
                      /\ \A e \in granted'[j] : e.at <= now'
                      /\ \A e \in SameTick(granted[j])' :
                           e.n <= Cardinality(SameTick(hits[j])')
    BY DEF StoreIsExact, InWindow, SameTick
  <2>1. CASE j = k
    <3>1. hits'[j] = {} /\ granted'[j] = {}
      BY <2>1 DEF Reset, IInv, TypeOK
    <3> QED BY <3>1, FS_EmptySet, LimitsAssumption DEF InWindow, SameTick
  <2>2. CASE j # k
    <3>1. hits'[j] = hits[j] /\ granted'[j] = granted[j] /\ now' = now
          /\ (j \in held' <=> j \in held)
      BY <2>2 DEF Reset, IInv, TypeOK
    <3>2. InWindow(granted[j])' = InWindow(granted[j])
          /\ SameTick(granted[j])' = SameTick(granted[j])
          /\ SameTick(hits[j])' = SameTick(hits[j])
      BY <3>1 DEF InWindow, SameTick
    <3> QED BY <3>1, <3>2 DEF IInv, StoreIsExact
  <2> QED BY <2>1, <2>2
<1> QED BY <1>1, <1>2, <1>3, <1>4 DEF IInv

\* The pruned list of k is the record of its grants that still count: what
\* the trim dropped was expired, or is forgotten in the record as well.
LEMMA BucketIsExact ==
  ASSUME IInv, NEW k \in Keys
  PROVE  Bucket(k) = InWindow(Remembered[k])
<1> DEFINE kept == Remembered[k]
<1>1. now \in Nat /\ hits[k] \subseteq Stamp /\ granted[k] \subseteq Stamp
  BY LimitsAssumption DEF IInv, TypeOK
<1>2. hits[k] \subseteq granted[k] /\ InWindow(granted[k]) \subseteq hits[k]
  BY DEF IInv, StoreIsExact
<1>3. kept = IF k \in Evicted THEN {} ELSE granted[k]
  BY DEF Remembered
<1>4. CASE k \in Kept
  <2>1. k \notin Evicted
    BY <1>4 DEF Kept, Evicted, Trimmed
  <2> QED BY <1>2, <1>3, <1>4, <2>1 DEF Bucket, InWindow
<1>5. CASE k \notin Kept /\ k \in Evicted
  BY <1>3, <1>5 DEF Bucket, InWindow
<1>6. CASE k \notin Kept /\ k \notin Evicted
  <2>1. InWindow(hits[k]) = {}
    <3>1. CASE k \notin held
      BY <3>1 DEF IInv, StoreIsExact, InWindow
    <3>2. CASE k \in held
      <4>1. Expired(k)
        BY <1>6, <3>2 DEF Kept, Evicted, Trimmed, Live, Evictable
      <4>2. \A e \in hits[k] : e.at \in Int /\ now - Window \in Int
        BY <1>1, LimitsAssumption DEF Stamp
      <4> QED BY <4>1, <4>2 DEF Expired, InWindow
    <3> QED BY <3>1, <3>2
  <2>2. InWindow(granted[k]) = {}
    BY <1>2, <2>1 DEF InWindow
  <2> QED BY <1>3, <1>6, <2>2 DEF Bucket
<1> QED BY <1>4, <1>5, <1>6

\* An attempt that is recorded is a new stamp of this tick.
LEMMA RecordedIsNew ==
  ASSUME IInv, NEW k \in Keys
  PROVE  /\ Bucket(k) \subseteq Stamp /\ Recorded(k) \subseteq Stamp
         /\ Remembered[k] \subseteq granted[k]
         /\ \A e \in Recorded(k) : e \notin Remembered[k] /\ e.at = now
         /\ \A e \in SameTick(Remembered[k]) :
              e.n <= Cardinality(SameTick(Bucket(k)))
<1>1. now \in 0..MaxTime /\ hits[k] \subseteq Stamp /\ granted[k] \subseteq Stamp
  BY DEF IInv, TypeOK
<1>2. Bucket(k) \subseteq hits[k] /\ Remembered[k] \subseteq granted[k]
  BY DEF Bucket, InWindow, Remembered
<1>3. \A e \in SameTick(Remembered[k]) : e \in Bucket(k)
  BY <1>1, BucketIsExact, LimitsAssumption DEF SameTick, InWindow
<1>4. \A e \in SameTick(Remembered[k]) : e.n <= Cardinality(SameTick(Bucket(k)))
  <2>1. CASE Bucket(k) = {}
    BY <1>3, <2>1
  <2>2. CASE Bucket(k) # {}
    <3>1. Bucket(k) = InWindow(hits[k])
      BY <2>2 DEF Bucket
    <3>2. SameTick(Bucket(k)) = SameTick(hits[k])
      BY <1>1, <3>1, LimitsAssumption DEF SameTick, InWindow
    <3> QED BY <1>2, <3>2 DEF IInv, StoreIsExact, SameTick
  <2> QED BY <2>1, <2>2
<1>5. Recorded(k) \subseteq Stamp
  <2>1. SameTick(Bucket(k)) \in SUBSET Bucket(k)
    BY DEF SameTick
  <2>2. /\ Cardinality(SameTick(Bucket(k))) \in Nat /\ Cardinality(Bucket(k)) \in Nat
        /\ Cardinality(SameTick(Bucket(k))) <= Cardinality(Bucket(k))
    BY <1>1, <1>2, <2>1, StampsAreFinite
  <2>3. ASSUME MayProceed(Bucket(k))
        PROVE  NextStamp(Bucket(k)) \in Stamp
    BY <1>1, <2>2, <2>3, LimitsAssumption DEF MayProceed, NextStamp, Stamp
  <2> QED BY <2>3 DEF Recorded
<1>6. \A e \in Recorded(k) : e \notin Remembered[k] /\ e.at = now
  <2> SUFFICES ASSUME NEW e \in Recorded(k)
               PROVE  e \notin Remembered[k] /\ e.at = now
    OBVIOUS
  <2>1. e = NextStamp(Bucket(k))
    BY DEF Recorded
  <2>2. e.at = now /\ e.n = Cardinality(SameTick(Bucket(k))) + 1
    BY <2>1 DEF NextStamp
  <2>3. Cardinality(SameTick(Bucket(k))) \in Nat
    BY <1>1, <1>2, StampsAreFinite DEF SameTick
  <2> QED BY <1>4, <2>2, <2>3 DEF SameTick
<1> QED BY <1>1, <1>2, <1>3, <1>4, <1>5, <1>6

\* A call puts at most one stamp on a list that has room for it.
LEMMA ListFits ==
  ASSUME IInv, NEW k \in Keys
  PROVE  Cardinality(Bucket(k) \cup Recorded(k)) <= MaxAttempts
<1>1. hits[k] \in SUBSET Stamp /\ Bucket(k) \in SUBSET hits[k]
  BY DEF IInv, TypeOK, Bucket, InWindow
<1>2. /\ IsFiniteSet(Bucket(k)) /\ Cardinality(Bucket(k)) \in Nat
      /\ Cardinality(Bucket(k)) <= Cardinality(hits[k]) /\ Cardinality(hits[k]) \in Nat
  BY <1>1, StampsAreFinite
<1>3. Cardinality(hits[k]) <= MaxAttempts
  BY DEF IInv, StoreIsExact
<1>4. CASE ~MayProceed(Bucket(k))
  <2>1. Bucket(k) \cup Recorded(k) = Bucket(k)
    BY <1>4 DEF Recorded
  <2> QED BY <1>2, <1>3, <2>1, LimitsAssumption
<1>5. CASE MayProceed(Bucket(k))
  <2> DEFINE e == NextStamp(Bucket(k))
  <2>1. Recorded(k) = {e}
    BY <1>5 DEF Recorded
  <2>2. Cardinality(Bucket(k) \cup {e}) =
          IF e \in Bucket(k) THEN Cardinality(Bucket(k)) ELSE Cardinality(Bucket(k)) + 1
    BY <1>2, FS_AddElement, Zenon
  <2>3. Cardinality(Bucket(k)) < MaxAttempts
    BY <1>5 DEF MayProceed
  <2> HIDE DEF e
  <2> QED BY <1>2, <2>1, <2>2, <2>3, LimitsAssumption
<1> QED BY <1>4, <1>5

LEMMA CheckPreserves ==
  ASSUME IInv, NEW k \in Keys, CheckAndRecord(k)
  PROVE  IInv'
<1>1. /\ Bucket(k) \subseteq Stamp /\ Recorded(k) \subseteq Stamp
      /\ Remembered[k] \subseteq granted[k]
      /\ \A e \in Recorded(k) : e \notin Remembered[k] /\ e.at = now
      /\ \A e \in SameTick(Remembered[k]) : e.n <= Cardinality(SameTick(Bucket(k)))
  BY RecordedIsNew
<1>2. /\ Kept \subseteq held /\ IsFiniteSet(Kept) /\ Cardinality(Kept) <= MaxKeys
  BY KeptFits
<1>3. /\ now' = now /\ held' = Kept \cup {k}
      /\ hits'[k] = Bucket(k) \cup Recorded(k)
      /\ granted'[k] = Remembered[k] \cup Recorded(k)
  BY DEF CheckAndRecord, Remembered
<1>4. \A j \in Keys \ {k} :
        /\ hits'[j] = IF j \in Kept THEN hits[j] ELSE {}
        /\ granted'[j] = IF j \in Evicted THEN {} ELSE granted[j]
  BY DEF CheckAndRecord, Remembered
<1>5. TypeOK'
  <2>1. held' \subseteq Keys /\ now' \in 0..MaxTime
    BY <1>2, <1>3 DEF IInv, TypeOK
  <2>2. older' \subseteq held' \X held'
    BY <1>3 DEF CheckAndRecord, MoveToEnd
  <2>3. hits' \in [Keys -> SUBSET Stamp]
    BY <1>1 DEF CheckAndRecord, IInv, TypeOK
  <2>6. answer' \in {<<>>} \cup (Keys \X BOOLEAN)
    <3>1. MayProceed(Bucket(k)) \in BOOLEAN
      BY MayProceedIsBoolean
    <3> HIDE DEF MayProceed
    <3>2. <<k, MayProceed(Bucket(k))>> \in Keys \X BOOLEAN
      BY <3>1, Zenon
    <3>3. answer' = <<k, MayProceed(Bucket(k))>>
      BY DEF CheckAndRecord
    <3> QED BY <3>2, <3>3, Zenon
  <2>4. Remembered \in [Keys -> SUBSET Stamp]
    BY DEF Remembered, IInv, TypeOK
  <2>5. granted' \in [Keys -> SUBSET Stamp]
    BY <1>1, <2>4 DEF CheckAndRecord
  <2> QED BY <2>1, <2>2, <2>3, <2>5, <2>6 DEF TypeOK, Stamp
<1>6. AccessOrder'
  <2>1. older' = {p \in older : p \in (Kept \ {k}) \X (Kept \ {k})}
                   \cup ((Kept \ {k}) \X {k})
    BY DEF CheckAndRecord, MoveToEnd
  <2>2. \A i, j : <<i, j>> \in older' <=>
                  \/ i \in Kept \ {k} /\ j \in Kept \ {k} /\ <<i, j>> \in older
                  \/ i \in Kept \ {k} /\ j = k
    BY <2>1
  <2> QED BY <1>2, <1>3, <2>2 DEF IInv, AccessOrder
<1>7. BoundedMemory'
  <2>1. Cardinality(Kept) \in Nat
    BY <1>2, FS_CardinalityType
  <2>2. Cardinality(Kept \cup {k}) =
          IF k \in Kept THEN Cardinality(Kept) ELSE Cardinality(Kept) + 1
    BY <1>2, FS_AddElement, Zenon
  <2> QED BY <1>2, <1>3, <2>1, <2>2, LimitsAssumption DEF BoundedMemory
<1>8. StoreIsExact'
  <2> SUFFICES ASSUME NEW j \in Keys
               PROVE  /\ j \notin held' => hits'[j] = {}
                      /\ hits'[j] \subseteq granted'[j]
                      /\ InWindow(granted[j])' \subseteq hits'[j]
                      /\ Cardinality(hits'[j]) <= MaxAttempts
                      /\ \A e \in granted'[j] : e.at <= now'
                      /\ \A e \in SameTick(granted[j])' :
                           e.n <= Cardinality(SameTick(hits[j])')
    BY DEF StoreIsExact, InWindow, SameTick
  <2>1. now \in Nat /\ hits[j] \subseteq Stamp /\ granted[j] \subseteq Stamp
    BY LimitsAssumption DEF IInv, TypeOK
  <2>2. CASE j = k
    <3>1. Bucket(k) = InWindow(Remembered[k])
      BY BucketIsExact
    <3>2. j \in held' /\ hits'[j] \subseteq granted'[j]
      BY <1>3, <2>2, <3>1 DEF InWindow
    <3>3. InWindow(granted[j])' \subseteq hits'[j]
      BY <1>3, <2>2, <3>1 DEF InWindow
    <3>4. Cardinality(hits'[j]) <= MaxAttempts
      BY <1>3, <2>2, ListFits
    <3>5. \A e \in granted'[j] : e.at <= now'
      BY <1>1, <1>3, <2>1, <2>2 DEF IInv, StoreIsExact
    <3>6. ASSUME NEW e \in SameTick(granted[j])'
          PROVE  e.n <= Cardinality(SameTick(hits[j])')
      <4>1. SameTick(hits[j])' = SameTick(Bucket(k)) \cup Recorded(k)
        BY <1>1, <1>3, <2>2 DEF SameTick
      <4>2. IsFiniteSet(SameTick(Bucket(k))) /\ Cardinality(SameTick(Bucket(k))) \in Nat
        BY <1>1, StampsAreFinite DEF SameTick
      <4>3. CASE Recorded(k) = {}
        BY <1>1, <1>3, <2>2, <3>6, <4>1, <4>3 DEF SameTick
      <4>4. CASE Recorded(k) # {}
        <5> DEFINE new == NextStamp(Bucket(k))
        <5>1. Recorded(k) = {new}
          BY <4>4 DEF Recorded
        <5>2. new.n = Cardinality(SameTick(Bucket(k))) + 1
          BY DEF NextStamp
        <5>3. new \notin SameTick(Bucket(k))
          BY <1>1, <3>1, <5>1 DEF SameTick, InWindow
        <5>4. Cardinality(SameTick(Bucket(k)) \cup {new})
                = Cardinality(SameTick(Bucket(k))) + 1
          BY <4>2, <5>3, FS_AddElement, Zenon
        <5>5. e \in SameTick(Remembered[k]) \/ e = new
          BY <1>3, <2>2, <3>6, <5>1 DEF SameTick
        <5>6. e \in Stamp
          BY <1>5, <3>6 DEF SameTick, TypeOK, Stamp
        <5> HIDE DEF new
        <5> QED BY <1>1, <4>1, <4>2, <5>1, <5>2, <5>4, <5>5, <5>6 DEF Stamp
      <4> QED BY <4>3, <4>4
    <3> QED BY <3>2, <3>3, <3>4, <3>5, <3>6
  <2>3. CASE j # k /\ j \in Kept
    <3>1. j \notin Evicted
      BY <2>3 DEF Kept, Evicted, Trimmed
    <3>2. hits'[j] = hits[j] /\ granted'[j] = granted[j] /\ j \in held /\ j \in held'
      BY <1>2, <1>3, <1>4, <2>3, <3>1
    <3> QED BY <1>3, <3>2 DEF IInv, StoreIsExact, InWindow, SameTick
  <2>4. CASE j # k /\ j \notin Kept
    <3>1. hits'[j] = {} /\ granted'[j] = Remembered[j] /\ j \notin held'
      BY <1>3, <1>4, <2>4 DEF Remembered
    <3>2. InWindow(Remembered[j]) = {}
      BY <2>4, BucketIsExact DEF Bucket
    <3>3. Remembered[j] \subseteq granted[j]
      BY DEF Remembered
    <3>4. InWindow(granted[j])' = {} /\ SameTick(granted[j])' = {}
      BY <1>3, <2>1, <3>1, <3>2, <3>3, LimitsAssumption DEF InWindow, SameTick
    <3>5. \A e \in granted'[j] : e.at <= now'
      BY <1>3, <3>1, <3>3 DEF IInv, StoreIsExact
    <3> QED BY <3>1, <3>4, <3>5, FS_EmptySet, LimitsAssumption
  <2> QED BY <2>2, <2>3, <2>4
<1> QED BY <1>5, <1>6, <1>7, <1>8 DEF IInv

LEMMA StutterPreserves == IInv /\ UNCHANGED vars => IInv'
  BY DEF vars, IInv, TypeOK, AccessOrder, BoundedMemory, StoreIsExact, InWindow, SameTick

\* The store is exact, ordered and small after every sequence of calls
\* (check_and_record, _trim and reset, ratelimit.py:27-69).
THEOREM Invariance == Spec => []IInv
<1>1. IInv /\ [Next]_vars => IInv'
  BY TickPreserves, CheckPreserves, ResetPreserves, StutterPreserves DEF Next
<1> QED BY InitHolds, <1>1, PTL DEF Spec

\* However many addresses appear, at most MAX_KEYS + 1 have a list
\* (ratelimit.py:50-55).
THEOREM MemoryIsBounded == Spec => []BoundedMemory
<1>1. IInv => BoundedMemory
  BY DEF IInv
<1> QED BY <1>1, Invariance, PTL

\* No address is granted more than max_attempts attempts in any window,
\* unless it was reset or evicted (ratelimit.py:58-62).
THEOREM GrantsAreLimited == Spec => []GrantsPerWindow
<1>1. IInv => GrantsPerWindow
  <2> SUFFICES ASSUME IInv, NEW k \in Keys
               PROVE  Cardinality(InWindow(granted[k])) <= MaxAttempts
    BY DEF GrantsPerWindow
  <2>1. hits[k] \in SUBSET Stamp /\ InWindow(granted[k]) \in SUBSET hits[k]
        /\ Cardinality(hits[k]) <= MaxAttempts
    BY DEF IInv, TypeOK, StoreIsExact
  <2>2. /\ Cardinality(InWindow(granted[k])) \in Nat /\ Cardinality(hits[k]) \in Nat
        /\ Cardinality(InWindow(granted[k])) <= Cardinality(hits[k])
    BY <2>1, StampsAreFinite
  <2> QED BY <2>1, <2>2, LimitsAssumption
<1> QED BY <1>1, Invariance, PTL

\* A call is an attempt of AttemptWindow that forgets the evicted keys.
LEMMA CheckIsAttempt ==
  ASSUME IInv, NEW k \in Keys, CheckAndRecord(k)
  PROVE  Evicted \in SUBSET Keys /\ Window_!Attempt(k, Evicted)
<1>1. Evicted \in SUBSET Keys
  BY DEF Evicted, Evictable, Live, IInv, TypeOK
<1>2. \A S : Window_!Cardinality(S) = Cardinality(S)
  BY DEF Window_!Cardinality, Cardinality
<1>3. Window_!Recent(Remembered[k]) = Bucket(k)
  BY BucketIsExact DEF Window_!Recent, InWindow
<1>4. /\ Bucket(k) \in SUBSET Stamp /\ Cardinality(Bucket(k)) \in Nat
      /\ \A e \in Recorded(k) : e \in Stamp \ Remembered[k] /\ e.at = now
  BY RecordedIsNew, StampsAreFinite
<1>5. Remembered \in [Keys -> SUBSET Stamp]
  BY DEF Remembered, IInv, TypeOK
<1>6. now' = now /\ granted' = [Remembered EXCEPT ![k] = Remembered[k] \cup Recorded(k)]
  BY DEF CheckAndRecord
<1>9. answer' = <<k, MayProceed(Bucket(k))>>
  BY DEF CheckAndRecord
<1>7. CASE MayProceed(Bucket(k))
  <2>0. answer' = <<k, TRUE>>
    BY <1>7, <1>9
  <2>1. PICK e \in Stamp \ Remembered[k] : Recorded(k) = {e} /\ e.at = now
    BY <1>4, <1>7 DEF Recorded
  <2>2. e \in Window_!Stamp \ Remembered[k]
    BY <2>1 DEF Stamp, Window_!Stamp
  <2>3. Window_!Cardinality(Window_!Recent(Remembered[k])) < MaxAttempts
    BY <1>2, <1>3, <1>7 DEF MayProceed
  <2> QED BY <1>1, <1>6, <2>0, <2>1, <2>2, <2>3 DEF Window_!Attempt, Remembered
<1>8. CASE ~MayProceed(Bucket(k))
  <2>0. answer' = <<k, FALSE>>
    <3>1. MayProceed(Bucket(k)) = FALSE
      BY <1>8, MayProceedIsBoolean
    <3> QED BY <3>1, <1>9, Zenon
  <2>1. granted' = Remembered
    BY <1>5, <1>6, <1>8 DEF Recorded
  <2>2. Window_!Cardinality(Window_!Recent(Remembered[k])) >= MaxAttempts
    BY <1>2, <1>3, <1>4, <1>8, LimitsAssumption DEF MayProceed
  <2> QED BY <1>1, <1>6, <2>0, <2>1, <2>2 DEF Window_!Attempt, Remembered
<1> QED BY <1>7, <1>8

\* Every call decides as the full record of the grants would: the bounded
\* store of lists implements the sliding window of AttemptWindow.
THEOREM Refinement == Spec => ImplementsWindow
<1>1. Init => Window_!Init
  BY DEF Init, Window_!Init
<1>2. IInv /\ [Next]_vars => [Window_!Next]_Window_!vars
  <2> SUFFICES ASSUME IInv, [Next]_vars
               PROVE  [Window_!Next]_Window_!vars
    OBVIOUS
  <2>1. CASE Tick
    BY <2>1 DEF Tick, Window_!Next, Window_!Tick
  <2>2. ASSUME NEW k \in Keys, Reset(k)
        PROVE  Window_!Next
    BY <2>2 DEF Reset, Window_!Next, Window_!Forget
  <2>3. ASSUME NEW k \in Keys, CheckAndRecord(k)
        PROVE  Window_!Next
    BY <2>3, CheckIsAttempt DEF Window_!Next
  <2>4. CASE UNCHANGED vars
    BY <2>4 DEF vars, Window_!vars
  <2> QED BY <2>1, <2>2, <2>3, <2>4 DEF Next
<1> QED BY <1>1, <1>2, Invariance, PTL DEF Spec, ImplementsWindow, Window_!Spec

=============================================================================
