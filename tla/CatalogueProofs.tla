--------------------------- MODULE CatalogueProofs ---------------------------
(***************************************************************************)
(* Proofs about Catalogue, for any number of requests, mods, versions and  *)
(* items.                                                                  *)
(***************************************************************************)
EXTENDS Catalogue, FiniteSetTheorems, TLAPS

LEMMA ModIdsArePositive == ModIds \subseteq Nat \ {0} /\ Table \notin ModIds /\ -1 \notin ModIds
  BY BoundsAssumption, SteamIdsAssumption DEF ModIds, ManualIds, Table

\* What the records of requests hold, by their operation.
LEMMA Kinds ==
  ASSUME NEW d \in Request
  PROVE  /\ d.op = "idle" <=> d = Idle
         /\ d.op = "add" => d \in AddRequest
         /\ d.op \in {"upload", "choose", "remove"} => d \in FileRequest
         /\ d.op \in {"view", "download"} => d \in CountRequest
         /\ d.op \in {"append", "move"} => d \in RoadmapRequest
         /\ d.op \in {"idle", "add", "upload", "choose", "remove", "view", "download",
                      "append", "move"}
         /\ d # Idle => d.mod \in ModIds \cup {Table}
         /\ d.op \notin {"idle", "add"} => d.mod \in ModIds
<1>1. CASE d = Idle
  BY <1>1 DEF Idle
<1>2. CASE d \in AddRequest
  BY <1>2 DEF AddRequest, Idle
<1>3. CASE d \in FileRequest
  BY <1>3 DEF FileRequest, Idle
<1>4. CASE d \in CountRequest
  BY <1>4 DEF CountRequest, Idle
<1>5. CASE d \in RoadmapRequest
  BY <1>5 DEF RoadmapRequest, Idle
<1> QED BY <1>1, <1>2, <1>3, <1>4, <1>5 DEF Request

LEMMA FileKinds ==
  ASSUME NEW d \in FileRequest
  PROVE  /\ d.op \in {"upload", "choose", "remove"} /\ d.mod \in ModIds /\ d.file \in FileIds
         /\ d.op = "upload" => d.stage \in {"stream", "saved"}
         /\ d.op = "upload" /\ d.stage = "saved" => d.seen \subseteq FileIds
         /\ d.op = "choose" => d.stage \in {"loaded", "read"} /\ d.was \in BOOLEAN
         /\ d.op = "choose" /\ d.stage = "read" => d.seen \subseteq FileIds
  BY DEF FileRequest

LEMMA CountKinds ==
  ASSUME NEW d \in CountRequest
  PROVE  /\ d.op \in {"view", "download"} /\ d.mod \in ModIds /\ d.home \in Replicas
         /\ d.op = "view" => d.count \in Nat
         /\ d.op = "download" => d.stage \in {"mod", "file"} /\ d.total \in Nat
         /\ d.op = "download" /\ d.stage = "file" => d.count \in Nat /\ d.file \in FileIds
  BY DEF CountRequest

LEMMA RoadmapKinds ==
  ASSUME NEW d \in RoadmapRequest
  PROVE  /\ d.op \in {"append", "move"} /\ d.mod \in ModIds
         /\ d.op = "append" => d.position \in Nat
         /\ d.op = "move" => /\ d.stage \in {"loaded", "found"} /\ d.item \in ItemIds
                             /\ d.up \in BOOLEAN /\ d.at \in Nat
         /\ d.op = "move" /\ d.stage = "found" => d.neighbour \in ItemIds /\ d.to \in Nat
  BY DEF RoadmapRequest

-----------------------------------------------------------------------------
(* The parts of the invariant, by the variables they are about.            *)

RequestsOK ==
  /\ req \in [Requests -> Request]
  /\ work \in 0..MaxWork
  /\ crossed \subseteq ModIds \cup {Table}
  /\ Alone

TableOK ==
  /\ mods \in [ModIds -> {"absent", "hidden", "public"}]
  /\ sequence \in 0..MaxManual
  /\ LoneBatchFits

FileTypes ==
  /\ files \in [FileIds -> Version \cup {NoFile}]
  /\ disk \in [FileIds -> {"none", "partial", "whole"}]
  /\ uploads \in 0..MaxFiles
  /\ left \subseteq FileIds
  /\ removed \subseteq ModIds

DiskOK == RequestsMatch /\ DiskAndRows
CurrentOK == SoloReads /\ OverlapBound /\ CurrentFiles

CountsOK ==
  /\ views \in [ModIds -> Nat] /\ downloads \in [ModIds -> Nat]
  /\ marks \in [Replicas -> SUBSET ({"view"} \X ModIds \cup {"file"} \X FileIds)]
  /\ restarts \in 0..MaxRestarts
  /\ CountsMatch

PlanOK ==
  /\ items \in [ItemIds -> Item \cup {NoItem}]
  /\ added \in 0..MaxItems
  /\ given \subseteq ModIds
  /\ ItemsMatch /\ SoloMoves /\ PositionsApart

LEMMA Parts ==
  IInv <=> RequestsOK /\ TableOK /\ FileTypes /\ DiskOK /\ CurrentOK /\ CountsOK /\ PlanOK
  BY DEF IInv, TypeOK, RequestsOK, TableOK, FileTypes, DiskOK, CurrentOK, CountsOK, PlanOK

LEMMA PartsAfter ==
  ASSUME RequestsOK', TableOK', FileTypes', DiskOK', CurrentOK', CountsOK', PlanOK'
  PROVE  IInv'
  BY DEF IInv, TypeOK, RequestsOK, TableOK, FileTypes, DiskOK, CurrentOK, CountsOK, PlanOK

-----------------------------------------------------------------------------
(* Requests begin, go on and end.                                          *)

LEMMA Begins ==
  ASSUME RequestsOK, NEW r \in Requests, NEW d \in Request \ {Idle}, Begin(r, d)
  PROVE  /\ RequestsOK' /\ crossed \subseteq crossed'
         /\ req[r] = Idle /\ req'[r] = d /\ \A s \in Requests \ {r} : req'[s] = req[s]
         /\ d.mod \notin crossed' => \A s \in Requests : req[s].mod # d.mod
<1>1. /\ req[r] = Idle /\ req' = [req EXCEPT ![r] = d] /\ work' = work + 1 /\ work < MaxWork
      /\ crossed' = IF \E s \in Requests : req[s].mod = d.mod THEN crossed \cup {d.mod} ELSE crossed
  BY DEF Begin, Busy, Cross
<1>2. req'[r] = d /\ \A s \in Requests \ {r} : req'[s] = req[s]
  BY <1>1 DEF RequestsOK
<1>3. d.mod \in ModIds \cup {Table}
  BY Kinds
<1>4. /\ req' \in [Requests -> Request]
      /\ work' \in 0..MaxWork
      /\ crossed' \subseteq ModIds \cup {Table}
  BY <1>1, <1>3, BoundsAssumption DEF RequestsOK
<1>5. Alone'
  <2> SUFFICES ASSUME NEW p \in Requests, NEW q \in Requests, p # q, req'[p] # Idle,
                      req'[p].mod = req'[q].mod
               PROVE  req'[p].mod \in crossed'
    BY DEF Alone, Busy
  <2>1. CASE p = r \/ q = r
    BY <1>1, <1>2, <2>1
  <2>2. CASE p # r /\ q # r
    BY <1>1, <1>2, <2>2 DEF RequestsOK, Alone, Busy
  <2> QED BY <2>1, <2>2
<1> QED BY <1>1, <1>2, <1>4, <1>5 DEF RequestsOK

LEMMA Continues ==
  ASSUME RequestsOK, NEW r \in Requests, NEW d \in Request, Continue(r, d),
         d = Idle \/ (Busy(r) /\ d.mod = req[r].mod)
  PROVE  /\ RequestsOK' /\ UNCHANGED crossed
         /\ req'[r] = d /\ \A s \in Requests \ {r} : req'[s] = req[s]
<1>1. req' = [req EXCEPT ![r] = d] /\ UNCHANGED <<work, crossed>>
  BY DEF Continue
<1>2. req'[r] = d /\ \A s \in Requests \ {r} : req'[s] = req[s]
  BY <1>1 DEF RequestsOK
<1>3. Alone'
  <2> SUFFICES ASSUME NEW p \in Requests, NEW q \in Requests, p # q, req'[p] # Idle,
                      req'[p].mod = req'[q].mod
               PROVE  req'[p].mod \in crossed
    BY <1>1 DEF Alone, Busy
  <2>1. req'[q] # Idle
    <3>1. req'[p] \in Request
      BY <1>2 DEF RequestsOK
    <3>2. req'[p].mod # -1
      BY <3>1, Kinds, ModIdsArePositive DEF Table
    <3> QED BY <3>2 DEF Idle
  <2>2. req[p] # Idle /\ req[p].mod = req[q].mod /\ req[p].mod = req'[p].mod
    BY <1>2, <2>1 DEF Busy
  <2> QED BY <2>2 DEF RequestsOK, Alone, Busy
<1> QED BY <1>1, <1>2, <1>3 DEF RequestsOK

LEMMA Ends ==
  ASSUME RequestsOK, NEW r \in Requests, End(r)
  PROVE  /\ RequestsOK' /\ UNCHANGED crossed
         /\ req'[r] = Idle /\ \A s \in Requests \ {r} : req'[s] = req[s]
<1>1. Idle \in Request /\ Continue(r, Idle)
  BY DEF End, Request
<1> QED BY <1>1, Continues

LEMMA HappensAtOnce ==
  ASSUME RequestsOK, NEW m \in ModIds, AtOnce(m)
  PROVE  /\ RequestsOK' /\ crossed \subseteq crossed' /\ UNCHANGED req
         /\ m \notin crossed' => \A s \in Requests : req[s].mod # m
<1>1. /\ UNCHANGED <<req, work>>
      /\ crossed' = IF \E s \in Requests : req[s].mod = m THEN crossed \cup {m} ELSE crossed
  BY DEF AtOnce, Cross
<1>2. Alone'
  BY <1>1 DEF RequestsOK, Alone, Busy
<1> QED BY <1>1, <1>2 DEF RequestsOK

-----------------------------------------------------------------------------
(* What a step leaves alone.  A step is quiet about some operations if     *)
(* requests of these operations stay as they are or are forgotten.         *)

Quiet(ops) ==
  \A r \in Requests :
    \/ req'[r] = req[r]
    \/ req'[r] = Idle
    \/ req[r].op \notin ops /\ req'[r].op \notin ops

LEMMA TableFrame ==
  ASSUME TableOK, Quiet({"add"}), crossed \subseteq crossed',
         mods' \in [ModIds -> {"absent", "hidden", "public"}], sequence' \in 0..MaxManual,
         \A m \in ModIds : Present(m)' => Present(m), RequestsOK
  PROVE  TableOK'
<1>1. LoneBatchFits'
  <2> SUFFICES ASSUME NEW r \in Requests, req'[r].op = "add", req'[r].looks, Table \notin crossed',
                      NEW m \in req'[r].adding
               PROVE  ~Present(m)' /\ m \notin req'[r].made
    BY DEF LoneBatchFits
  <2>1. req'[r] = req[r]
    BY DEF Quiet, Idle
  <2>2. m \in ModIds
    BY <2>1, Kinds DEF RequestsOK, AddRequest
  <2> QED BY <2>1, <2>2 DEF TableOK, LoneBatchFits
<1> QED BY <1>1 DEF TableOK

\* What requests know of the file they work on, and of those they have seen.
FilesMatch ==
  /\ \A f \in FileIds : f > uploads => ~Stored(f) /\ disk[f] = "none"
  /\ \A r \in Requests, f \in FileIds : f > uploads =>
       ~Open(r, "upload", f) /\ ~Open(r, "remove", f) /\ ~Open(r, "choose", f)
  /\ \A r \in Requests, f \in FileIds : Open(r, "upload", f) =>
       /\ ~Stored(f)
       /\ req[r].stage = "saved" => disk[f] = "whole"
       /\ \A s \in Requests \ {r} :
            ~Open(s, "upload", f) /\ ~Open(s, "remove", f) /\ ~Open(s, "choose", f)
  /\ \A r \in Requests, f \in FileIds : Open(r, "remove", f) => disk[f] = "none"
  /\ \A r \in Requests, f \in FileIds :
       (Open(r, "choose", f) \/ Open(r, "remove", f)) /\ Stored(f) => files[f].mod = req[r].mod
SeenMatch ==
  \A m \in ModIds : \A r \in Seeing(m) : \A f \in req[r].seen :
    /\ f <= uploads
    /\ Stored(f) => files[f].mod = m
    /\ \A s \in Requests : ~Open(s, "upload", f)

LEMMA MatchParts == DiskOK <=> FilesMatch /\ SeenMatch /\ DiskAndRows
  BY DEF DiskOK, RequestsMatch, FilesMatch, SeenMatch

LEMMA MatchPartsAfter == ASSUME FilesMatch', SeenMatch', DiskAndRows' PROVE DiskOK'
  BY DEF DiskOK, RequestsMatch, FilesMatch, SeenMatch

LEMMA SeeingKinds ==
  ASSUME RequestsOK, NEW m, NEW r \in Seeing(m)
  PROVE  r \in Requests /\ req[r] \in FileRequest /\ req[r].mod = m /\ req[r].seen \subseteq FileIds
<1>1. /\ r \in Requests /\ req[r].mod = m /\ req[r].op \in {"upload", "choose"}
      /\ \/ req[r].op = "upload" /\ req[r].stage = "saved"
         \/ req[r].op = "choose" /\ req[r].stage = "read"
  BY DEF Seeing
<1>2. req[r] \in FileRequest
  BY <1>1, Kinds DEF RequestsOK
<1> QED BY <1>1, <1>2, FileKinds

LEMMA DiskFrame ==
  ASSUME RequestsOK, DiskOK, Quiet({"upload", "choose", "remove"}), left \subseteq left',
         UNCHANGED <<disk, uploads>>,
         \A f \in FileIds : files'[f].mod = files[f].mod /\ (Stored(f)' <=> Stored(f)),
         \A r \in Requests, f \in FileIds :
           (Open(r, "upload", f) \/ Open(r, "remove", f)) /\ req'[r] = Idle => f \in left'
  PROVE  DiskOK'
<1>1. \A r \in Requests : req'[r].op \in {"upload", "choose", "remove"} => req'[r] = req[r]
  BY DEF Quiet, Idle
<1>2. FilesMatch'
  BY <1>1, MatchParts DEF FilesMatch, Open
<1>4. SeenMatch'
  <2>1. \A m \in ModIds : \A r \in Seeing(m)' : r \in Seeing(m) /\ req'[r] = req[r]
    BY <1>1 DEF Seeing
  <2>2. \A m \in ModIds : \A r \in Seeing(m) : req[r].seen \subseteq FileIds
    BY SeeingKinds
  <2>3. \A f \in FileIds : \A s \in Requests : Open(s, "upload", f)' => Open(s, "upload", f)
    BY <1>1 DEF Open
  <2> QED BY <2>1, <2>2, <2>3, MatchParts DEF SeenMatch
<1>3. DiskAndRows'
  <2> SUFFICES ASSUME NEW f \in FileIds, OpenOn(f), ~OpenOn(f)'
               PROVE  f \in left'
    BY DEF DiskOK, DiskAndRows
  <2>1. PICK r \in Requests : Open(r, "upload", f) \/ Open(r, "remove", f)
    BY DEF OpenOn
  <2>2. req'[r] # req[r] /\ req[r].op \in {"upload", "remove"}
    BY <2>1 DEF OpenOn, Open
  <2>3. req'[r] = Idle
    BY <2>2 DEF Quiet
  <2> QED BY <2>1, <2>3
<1> QED BY <1>2, <1>3, <1>4, MatchPartsAfter

LEMMA SoloReadsFrame ==
  ASSUME RequestsOK, RequestsOK', SoloReads, crossed \subseteq crossed',
         Quiet({"upload", "choose"}),
         \A m \in ModIds : CurrentOf(m)' = CurrentOf(m),
         \A f \in FileIds : files'[f].current = files[f].current /\ (Stored(f)' <=> Stored(f)),
         \A r \in Requests :
           /\ req'[r] = req[r] /\ req[r].op = "upload" /\ req[r].mod \notin crossed'
           /\ Present(req[r].mod)
           => Present(req[r].mod)'
  PROVE  SoloReads'
<1> SUFFICES ASSUME NEW r \in Requests, req'[r].mod \notin crossed',
                    req'[r].op \in {"upload", "choose"}
             PROVE  /\ \/ req'[r].op = "upload" /\ req'[r].stage = "saved"
                       \/ req'[r].op = "choose" /\ req'[r].stage = "read"
                       => req'[r].seen = CurrentOf(req[r].mod)'
                    /\ req'[r].op = "upload" => Present(req[r].mod)'
                    /\ req'[r].op = "choose" =>
                         Stored(req[r].file)' /\ req'[r].was = files'[req'[r].file].current
  <2>1. \A r \in Requests : (r \in Seeing(req[r].mod))' =>
          \/ req'[r].op = "upload" /\ req'[r].stage = "saved"
          \/ req'[r].op = "choose" /\ req'[r].stage = "read"
    BY DEF Seeing
  <2> QED BY <2>1 DEF SoloReads
<1>1. req'[r] = req[r] /\ req[r].mod \notin crossed
  BY DEF Quiet, Idle
<1>2. req[r].mod \in ModIds /\ req[r].file \in FileIds
  BY <1>1, Kinds, FileKinds DEF RequestsOK
<1>3. CurrentOf(req[r].mod)' = CurrentOf(req[r].mod)
  <2>1. \A m \in ModIds : m = req'[r].mod => CurrentOf(req[r].mod)' = CurrentOf(m)'
    BY DEF CurrentOf, FilesOf
  <2> QED BY <1>1, <1>2, <2>1
<1>4. /\ \/ req[r].op = "upload" /\ req[r].stage = "saved"
         \/ req[r].op = "choose" /\ req[r].stage = "read"
         => req[r].seen = CurrentOf(req[r].mod)
      /\ req[r].op = "upload" => Present(req[r].mod)
      /\ req[r].op = "choose" => Stored(req[r].file) /\ req[r].was = files[req[r].file].current
  BY <1>1 DEF SoloReads, Seeing
<1>5. /\ (req[r].op = "upload" => Present(req[r].mod)')
      /\ (Stored(req[r].file)' <=> Stored(req[r].file))
  BY <1>1, <1>2, <1>4 DEF Present, Stored
<1> QED BY <1>1, <1>2, <1>3, <1>4, <1>5

\* No request reads which versions are current.
NoReader == \A m \in ModIds : \A r \in Seeing(m)' : r \in Seeing(m) /\ req'[r] = req[r]

LEMMA CurrentFrame ==
  ASSUME CurrentOK, SoloReads', NoReader, crossed \subseteq crossed', removed' = removed,
         \A m \in ModIds : FilesOf(m)' = FilesOf(m) /\ CurrentOf(m)' = CurrentOf(m)
  PROVE  CurrentOK'
<1>1. OverlapBound'
  <2> SUFFICES ASSUME NEW m \in ModIds, NEW rs \in SUBSET (Seeing(m)')
               PROVE  Cardinality(CurrentOf(m)' \ SeenBy(rs)') + Cardinality(rs)
                        <= Cardinality(Requests)
    BY DEF OverlapBound
  <2>1. rs \subseteq Seeing(m) /\ SeenBy(rs)' = SeenBy(rs)
    BY DEF NoReader, SeenBy
  <2> QED BY <2>1 DEF CurrentOK, OverlapBound
<1>2. CurrentFiles'
  BY DEF CurrentOK, CurrentFiles
<1> QED BY <1>1, <1>2 DEF CurrentOK

LEMMA CountingIsFinite ==
  ASSUME NEW what
  PROVE  IsFiniteSet(Counting(what)) /\ Cardinality(Counting(what)) \in Nat
<1>1. Counting(what) \subseteq Requests
  BY DEF Counting
<1> QED BY <1>1, RequestsAssumption, FS_Subset, FS_CardinalityType

LEMMA MarkedIsFinite ==
  ASSUME NEW what
  PROVE  /\ IsFiniteSet(Marked(what)) /\ Cardinality(Marked(what)) \in Nat
         /\ Cardinality(Marked(what)) <= Cardinality(Replicas)
<1>1. Marked(what) \subseteq Replicas
  BY DEF Marked
<1> QED BY <1>1, ReplicasAssumption, FS_Subset, FS_CardinalityType

\* Fewer requests that count leave no less room, as long as their processes
\* remember as much or restart.
LEMMA RoomFrame ==
  ASSUME NEW what, NEW n \in Nat, NEW n2 \in Nat, n2 <= n, restarts \in Nat, restarts' \in Nat,
         RoomToCount(what, n),
         Cardinality(Marked(what)) + restarts <= Cardinality(Marked(what)') + restarts',
         Cardinality(Marked(what)') \in Nat,
         \A r \in Counting(what)' : r \in Counting(what) /\ req'[r].count = req[r].count,
         \A r \in Counting(what) : req[r].count \in Nat
  PROVE  \A k \in {n2} \cup {req'[r].count : r \in Counting(what)'} :
           k + Cardinality(Counting(what)') <= Cardinality(Marked(what)') + restarts'
<1>1. /\ Cardinality(Counting(what)') \in Nat /\ Cardinality(Counting(what)) \in Nat
      /\ Cardinality(Counting(what)') <= Cardinality(Counting(what))
  <2>1. Counting(what)' \subseteq Counting(what)
    OBVIOUS
  <2> QED BY <2>1, CountingIsFinite, FS_Subset, FS_CardinalityType
<1>2. Cardinality(Marked(what)) \in Nat
  BY MarkedIsFinite
<1>3. ASSUME NEW k \in {n} \cup {req[r].count : r \in Counting(what)}
      PROVE  k \in Nat /\ k + Cardinality(Counting(what)) <= Cardinality(Marked(what)) + restarts
  BY DEF RoomToCount
<1>4. n2 + Cardinality(Counting(what)') <= Cardinality(Marked(what)') + restarts'
  BY <1>1, <1>2, <1>3
<1>5. \A r \in Counting(what)' :
        req'[r].count + Cardinality(Counting(what)') <= Cardinality(Marked(what)') + restarts'
  BY <1>1, <1>2, <1>3
<1> QED BY <1>4, <1>5

\* A request comes to count, and its process to remember.
LEMMA RoomToJoin ==
  ASSUME NEW what, NEW n \in Nat, restarts \in Nat, UNCHANGED restarts, RoomToCount(what, n),
         NEW r \in Requests, NEW p, r \notin Counting(what), p \notin Marked(what),
         Counting(what)' = Counting(what) \cup {r}, Marked(what)' = Marked(what) \cup {p},
         req'[r].count = n,
         \A s \in Counting(what) : req'[s].count = req[s].count /\ req[s].count \in Nat
  PROVE  \A k \in {n} \cup {req'[s].count : s \in Counting(what)'} :
           k + Cardinality(Counting(what)') <= Cardinality(Marked(what)') + restarts'
<1>1. /\ Cardinality(Counting(what)) \in Nat /\ Cardinality(Marked(what)) \in Nat
      /\ Cardinality(Counting(what)') = Cardinality(Counting(what)) + 1
      /\ Cardinality(Marked(what)') = Cardinality(Marked(what)) + 1
  BY CountingIsFinite, MarkedIsFinite, FS_AddElement
<1>2. ASSUME NEW k \in {n} \cup {req[s].count : s \in Counting(what)}
      PROVE  k \in Nat /\ k + Cardinality(Counting(what)) <= Cardinality(Marked(what)) + restarts
  BY DEF RoomToCount
<1>3. {n} \cup {req'[s].count : s \in Counting(what)'}
        = {n} \cup {req[s].count : s \in Counting(what)}
  OBVIOUS
<1> QED BY <1>1, <1>2, <1>3

\* A request counts and is done.
LEMMA RoomToLeave ==
  ASSUME NEW what, NEW n, restarts \in Nat, UNCHANGED restarts, RoomToCount(what, n),
         NEW r \in Counting(what),
         Counting(what)' = Counting(what) \ {r}, Marked(what)' = Marked(what),
         \A s \in Counting(what) \ {r} : req'[s].count = req[s].count,
         \A s \in Counting(what) : req[s].count \in Nat
  PROVE  \A k \in {req[r].count + 1} \cup {req'[s].count : s \in Counting(what)'} :
           k + Cardinality(Counting(what)') <= Cardinality(Marked(what)') + restarts'
<1>1. /\ Cardinality(Counting(what)) \in Nat /\ Cardinality(Marked(what)) \in Nat
      /\ Cardinality(Counting(what)') = Cardinality(Counting(what)) - 1
  BY CountingIsFinite, MarkedIsFinite, FS_RemoveElement
<1>2. ASSUME NEW s \in Counting(what)
      PROVE  /\ req[s].count \in Nat
             /\ req[s].count + Cardinality(Counting(what)) <= Cardinality(Marked(what)) + restarts
  BY DEF RoomToCount
<1>3. req[r].count + 1 + Cardinality(Counting(what)') <= Cardinality(Marked(what)') + restarts'
  BY <1>1, <1>2
<1>4. \A s \in Counting(what) \ {r} :
        req[s].count + Cardinality(Counting(what)') <= Cardinality(Marked(what)') + restarts'
  BY <1>1, <1>2
<1> QED BY <1>3, <1>4

LEMMA CountsAreNat ==
  ASSUME RequestsOK, NEW what, NEW r \in Counting(what)
  PROVE  r \in Requests /\ req[r].count \in Nat
  BY Kinds, CountKinds DEF RequestsOK, Counting

\* No request comes to count.
NoCounter ==
  \A what : \A r \in Counting(what)' : r \in Counting(what) /\ req'[r].count = req[r].count

LEMMA CountsKept ==
  ASSUME RequestsOK, FileTypes, FileTypes', CountsOK, NoCounter,
         marks' \in [Replicas -> SUBSET ({"view"} \X ModIds \cup {"file"} \X FileIds)],
         restarts' \in 0..MaxRestarts,
         \A what : Cardinality(Marked(what)) + restarts <= Cardinality(Marked(what)') + restarts',
         views' \in [ModIds -> Nat], downloads' \in [ModIds -> Nat],
         \A m \in ModIds : views'[m] <= views[m],
         \A f \in FileIds : files'[f].count <= files[f].count
  PROVE  CountsOK'
<1>1. \A what : \A r \in Counting(what)' : r \in Counting(what) /\ req'[r].count = req[r].count
  BY DEF NoCounter
<1>2. ASSUME NEW what PROVE Cardinality(Marked(what)') \in Nat
  <2>1. Marked(what)' \subseteq Replicas
    BY DEF Marked
  <2> QED BY <2>1, ReplicasAssumption, FS_Subset, FS_CardinalityType
<1>3. restarts \in Nat /\ restarts' \in Nat
  BY FilesAssumption DEF CountsOK
<1>4. ASSUME NEW m \in ModIds PROVE RoomToCount(<<"view", m>>, views[m])'
  <2>1. views[m] \in Nat /\ views'[m] \in Nat /\ views'[m] <= views[m]
    BY DEF CountsOK
  <2>2. RoomToCount(<<"view", m>>, views[m])
    BY DEF CountsOK, CountsMatch
  <2> QED BY <1>1, <1>2, <1>3, <2>1, <2>2, CountsAreNat, RoomFrame DEF RoomToCount
<1>5. ASSUME NEW f \in FileIds PROVE RoomToCount(<<"file", f>>, files[f].count)'
  <2>1. files[f].count \in Nat /\ files'[f].count \in Nat /\ files'[f].count <= files[f].count
    BY DEF FileTypes, Version, NoFile
  <2>2. RoomToCount(<<"file", f>>, files[f].count)
    BY DEF CountsOK, CountsMatch
  <2> QED BY <1>1, <1>2, <1>3, <2>1, <2>2, CountsAreNat, RoomFrame DEF RoomToCount
<1>6. CountsMatch'
  BY <1>4, <1>5 DEF CountsMatch
<1> QED BY <1>6 DEF CountsOK

LEMMA CountsFrame ==
  ASSUME RequestsOK, FileTypes, FileTypes', CountsOK, Quiet({"view", "download"}),
         UNCHANGED <<marks, restarts>>,
         views' \in [ModIds -> Nat], downloads' \in [ModIds -> Nat],
         \A m \in ModIds : views'[m] <= views[m],
         \A f \in FileIds : files'[f].count <= files[f].count
  PROVE  CountsOK'
<1>1. NoCounter
  BY DEF NoCounter, Quiet, Counting, Counted, Idle
<1>2. ASSUME NEW what
      PROVE  Cardinality(Marked(what)) + restarts <= Cardinality(Marked(what)') + restarts'
  <2>1. Marked(what)' = Marked(what) /\ restarts \in Nat
    BY FilesAssumption DEF Marked, CountsOK
  <2> QED BY <2>1, MarkedIsFinite
<1>3. /\ marks' \in [Replicas -> SUBSET ({"view"} \X ModIds \cup {"file"} \X FileIds)]
      /\ restarts' \in 0..MaxRestarts
  BY DEF CountsOK
<1> QED BY <1>1, <1>2, <1>3, CountsKept

LEMMA PlanFrame ==
  ASSUME PlanOK, Quiet({"append", "move"}), crossed \subseteq crossed', UNCHANGED itemVars
  PROVE  PlanOK'
<1>1. \A r \in Requests : req'[r].op \in {"append", "move"} => req'[r] = req[r]
  BY DEF Quiet, Idle
<1>2. ItemsMatch'
  BY <1>1 DEF PlanOK, ItemsMatch, itemVars, Listed
<1>3. SoloMoves'
  <2>1. items' = items
    BY DEF itemVars
  <2> SUFFICES ASSUME NEW r \in Requests, req'[r].mod \notin crossed',
                      req'[r].op \in {"append", "move"}
               PROVE  /\ req'[r].op = "append" =>
                           \A i \in ItemsOf(req[r].mod)' : items'[i].position <= req'[r].position
                      /\ req'[r].op = "move" =>
                           Listed(req[r].item)' /\ items'[req'[r].item].position = req'[r].at
                      /\ req'[r].op = "move" /\ req'[r].stage = "found" =>
                           /\ req'[r].neighbour \in Neighbours(r)'
                           /\ items'[req'[r].neighbour].position = req'[r].to
    BY DEF SoloMoves
  <2>2. req'[r] = req[r] /\ req[r].mod \notin crossed
    BY <1>1
  <2>3. ItemsOf(req[r].mod)' = ItemsOf(req[r].mod)
    BY <2>1, <2>2 DEF ItemsOf, Listed
  <2>4. Listed(req[r].item)' = Listed(req[r].item)
    BY <2>1, <2>2 DEF Listed
  <2>5. Neighbours(r)' = Neighbours(r)
    BY <2>1, <2>2, <2>3 DEF Neighbours, Above, Below, ItemsOf, Listed
  <2> QED BY <2>1, <2>2, <2>3, <2>4, <2>5 DEF PlanOK, SoloMoves
<1>4. PositionsApart'
  BY DEF PlanOK, PositionsApart, Apart, itemVars, ItemsOf, Listed
<1> QED BY <1>2, <1>3, <1>4 DEF PlanOK, itemVars

-----------------------------------------------------------------------------
(* The initial states.                                                     *)

LEMMA Initially ==
  ASSUME Init
  PROVE  IInv
<1>1. \A r \in Requests : req[r] = Idle /\ req[r].op = "idle" /\ req[r].mod = -1
  BY DEF Init, TableInit, Idle
<1>2. RequestsOK
  BY <1>1, BoundsAssumption DEF Init, TableInit, RequestsOK, Request, Alone, Busy
<1>3. TableOK
  BY <1>1, BoundsAssumption DEF Init, TableInit, TableOK, LoneBatchFits
<1>4. /\ FileTypes
      /\ \A f \in FileIds : files[f] = NoFile /\ disk[f] = "none" /\ ~Stored(f)
  BY FilesAssumption DEF Init, FilesInit, FileTypes, Stored
<1>5. DiskOK
  BY <1>1, <1>4 DEF DiskOK, RequestsMatch, DiskAndRows, Open, Seeing
<1>6. \A m \in ModIds : FilesOf(m) = {} /\ CurrentOf(m) = {}
  BY <1>4, ModIdsArePositive DEF FilesOf, CurrentOf, NoFile
<1>7. CurrentOK
  <2>1. SoloReads
    BY <1>1 DEF SoloReads, Seeing
  <2>2. Cardinality(Requests) \in Nat /\ Cardinality({}) = 0
    BY RequestsAssumption, FS_CardinalityType, FS_EmptySet
  <2>3. ASSUME NEW m \in ModIds, NEW rs \in SUBSET Seeing(m)
        PROVE  Cardinality(CurrentOf(m) \ SeenBy(rs)) + Cardinality(rs) <= Cardinality(Requests)
    <3>1. rs = {} /\ CurrentOf(m) \ SeenBy(rs) = {}
      BY <1>1, <1>6 DEF Seeing
    <3> QED BY <2>2, <3>1
  <2>4. OverlapBound
    BY <2>3 DEF OverlapBound
  <2>5. CurrentFiles
    BY <1>6, <2>2 DEF CurrentFiles
  <2> QED BY <2>1, <2>4, <2>5 DEF CurrentOK
<1>8. CountsOK
  <2>1. \A what : Counting(what) = {}
    BY <1>1 DEF Counting
  <2>2. ASSUME NEW what PROVE RoomToCount(what, 0)
    <3>1. Cardinality(Counting(what)) = 0
      BY <2>1, FS_EmptySet
    <3>2. Cardinality(Marked(what)) \in Nat /\ restarts = 0
      BY MarkedIsFinite DEF Init, FilesInit
    <3> QED BY <2>1, <3>1, <3>2 DEF RoomToCount
  <2>3. CountsMatch
    BY <1>4, <2>2 DEF CountsMatch, Init, FilesInit, NoFile
  <2> QED BY <2>3, FilesAssumption DEF CountsOK, Init, FilesInit
<1>9. PlanOK
  <2>1. /\ added \in 0..MaxItems /\ given = {}
        /\ \A i \in ItemIds : i > added => items[i] = NoItem
        /\ \A i \in ItemIds : Listed(i) => i <= added /\ items[i].position = i
        /\ items \in [ItemIds -> Item \cup {NoItem}]
    BY ItemsAssumption DEF Init, RoadmapInit, Listed, Item, ItemIds
  <2>2. ItemsMatch
    BY <1>1, <2>1 DEF ItemsMatch, Listed
  <2>3. SoloMoves
    BY <1>1 DEF SoloMoves
  <2>4. PositionsApart
    BY <2>1, ItemsAssumption DEF PositionsApart, Apart, ItemsOf, ItemIds
  <2> QED BY <2>1, <2>2, <2>3, <2>4 DEF PlanOK
<1> QED BY <1>2, <1>3, <1>4, <1>5, <1>7, <1>8, <1>9, Parts

-----------------------------------------------------------------------------
(* Steps on the table of mods.                                             *)

\* What does not touch versions and counters leaves them alone, unless a mod
\* goes by it.
LEMMA FilesAndCountsKept ==
  ASSUME IInv, RequestsOK', crossed \subseteq crossed',
         \A r \in Requests : \/ req'[r] = req[r]
                             \/ /\ req[r].op \in {"idle", "add", "append", "move"}
                                /\ req'[r].op \in {"idle", "add", "append", "move"},
         \A m \in ModIds : Present(m) => Present(m)',
         UNCHANGED <<fileVars, countVars>>
  PROVE  FileTypes' /\ DiskOK' /\ CurrentOK' /\ CountsOK'
<1>1. RequestsOK /\ FileTypes /\ DiskOK /\ CurrentOK /\ CountsOK
  BY Parts
<1>2. UNCHANGED <<files, disk, uploads, left, removed, views, downloads, marks, restarts>>
  BY DEF fileVars, countVars
<1>3. FileTypes'
  BY <1>1, <1>2 DEF FileTypes
<1>4. DiskOK'
  <2>1. \A f \in FileIds : files'[f].mod = files[f].mod /\ (Stored(f)' <=> Stored(f))
    BY <1>2 DEF Stored
  <2>2. \A r \in Requests, f \in FileIds :
          (Open(r, "upload", f) \/ Open(r, "remove", f)) => req'[r] # Idle
    BY DEF Open, Idle
  <2>3. Quiet({"upload", "choose", "remove"})
    BY DEF Quiet
  <2> QED BY <1>1, <1>2, <2>1, <2>2, <2>3, DiskFrame
<1>5. \A m \in ModIds : FilesOf(m)' = FilesOf(m) /\ CurrentOf(m)' = CurrentOf(m)
  BY <1>2 DEF FilesOf, CurrentOf
<1>6. SoloReads'
  <2>1. \A f \in FileIds : files'[f].current = files[f].current /\ (Stored(f)' <=> Stored(f))
    BY <1>2 DEF Stored
  <2>2. Quiet({"upload", "choose"})
    BY DEF Quiet
  <2>3. \A r \in Requests : req[r].op = "upload" => req[r].mod \in ModIds
    BY <1>1, Kinds DEF RequestsOK
  <2> QED BY <1>1, <1>5, <2>1, <2>2, <2>3, SoloReadsFrame DEF CurrentOK
<1>7. NoReader
  BY DEF NoReader, Seeing
<1>8. CurrentOK'
  BY <1>1, <1>2, <1>5, <1>6, <1>7, CurrentFrame
<1>9. CountsOK'
  <2>1. Quiet({"view", "download"})
    BY DEF Quiet
  <2>2. /\ \A m \in ModIds : views'[m] <= views[m]
        /\ \A f \in FileIds : files'[f].count <= files[f].count
    BY <1>1, <1>2 DEF FileTypes, Version, NoFile, CountsOK
  <2>3. views' \in [ModIds -> Nat] /\ downloads' \in [ModIds -> Nat]
    BY <1>1, <1>2 DEF CountsOK
  <2> QED BY <1>1, <1>2, <1>3, <2>1, <2>2, <2>3, CountsFrame
<1> QED BY <1>3, <1>4, <1>8, <1>9

LEMMA TableStepsRest ==
  ASSUME IInv, RequestsOK', crossed \subseteq crossed',
         \A r \in Requests : \/ req'[r] = req[r]
                             \/ /\ req[r].op \in {"idle", "add"}
                                /\ req'[r].op \in {"idle", "add"},
         \A m \in ModIds : Present(m) => Present(m)',
         UNCHANGED <<fileVars, countVars, itemVars>>
  PROVE  FileTypes' /\ DiskOK' /\ CurrentOK' /\ CountsOK' /\ PlanOK'
<1>1. PlanOK'
  <2>1. Quiet({"append", "move"})
    BY DEF Quiet
  <2> QED BY <2>1, Parts, PlanFrame
<1>2. \A r \in Requests : \/ req'[r] = req[r]
                          \/ /\ req[r].op \in {"idle", "add", "append", "move"}
                             /\ req'[r].op \in {"idle", "add", "append", "move"}
  OBVIOUS
<1> QED BY <1>1, <1>2, FilesAndCountsKept

LEMMA TableSteps ==
  ASSUME IInv, NEW r \in Requests, TableStep(r)
  PROVE  IInv'
<1>1. RequestsOK /\ TableOK
  BY Parts
<1>2. \A s \in Requests : req[s].op \in {"idle", "add"} => req[s] = Idle \/ req[s] \in AddRequest
  BY <1>1, Kinds DEF RequestsOK
<1> DEFINE Adds == \A s \in Requests : \/ req'[s] = req[s]
                                       \/ /\ req[s].op \in {"idle", "add"}
                                          /\ req'[s].op \in {"idle", "add"}
           Stay == \A m \in ModIds : Present(m) => Present(m)'
           Goal == RequestsOK' /\ TableOK' /\ crossed \subseteq crossed' /\ Adds /\ Stay
\* A request that begins to add ids, with none of its own to look at.
<1>3. ASSUME NEW todo \in Seq(SteamIds), NEW ids \in SUBSET ModIds, todo # <<>> => ids = {},
             Begin(r, Adding(todo, ids)), UNCHANGED mods, sequence' \in 0..MaxManual
      PROVE  Goal
  <2>1. /\ Adding(todo, ids) \in Request \ {Idle} /\ Adding(todo, ids).op = "add"
        /\ Adding(todo, ids).looks => Adding(todo, ids).adding = {}
    BY <1>3 DEF Adding, Idle, Request, AddRequest
  <2>2. /\ RequestsOK' /\ crossed \subseteq crossed' /\ req[r] = Idle
        /\ req'[r] = Adding(todo, ids) /\ \A s \in Requests \ {r} : req'[s] = req[s]
    BY <1>1, <1>3, <2>1, Begins
  <2>3. LoneBatchFits'
    BY <1>1, <1>3, <2>1, <2>2 DEF TableOK, LoneBatchFits, Present
  <2> QED BY <1>1, <1>3, <2>1, <2>2, <2>3 DEF TableOK, Present, Idle
\* A request that goes on with rows it may insert, or ends.
<1>4. ASSUME req[r].op = "add", NEW d \in AddRequest \cup {Idle}, Continue(r, d),
             d \in AddRequest => \A m \in d.adding : ~Present(m) /\ m \notin d.made,
             UNCHANGED tableVars
      PROVE  Goal
  <2>1. d \in Request /\ (d = Idle \/ (Busy(r) /\ d.mod = req[r].mod))
    BY <1>2, <1>4 DEF Request, Busy, AddRequest, Idle
  <2>2. /\ RequestsOK' /\ UNCHANGED crossed
        /\ req'[r] = d /\ \A s \in Requests \ {r} : req'[s] = req[s]
    BY <1>1, <1>4, <2>1, Continues
  <2>3. d.op \in {"idle", "add"} /\ (d.op = "add" => d \in AddRequest)
    BY <1>4 DEF AddRequest, Idle
  <2>4. LoneBatchFits'
    BY <1>1, <1>4, <2>2, <2>3 DEF TableOK, LoneBatchFits, Present, tableVars
  <2> QED BY <1>1, <1>4, <2>2, <2>3, <2>4 DEF TableOK, Present, tableVars
<1>5. ASSUME AddMod(r) PROVE Goal
  <2>1. PICK m \in SteamIds : Begin(r, Adding(<<>>, {m}))
    BY <1>5 DEF AddMod
  <2>2. {m} \in SUBSET ModIds /\ <<>> \in Seq(SteamIds)
    BY DEF ModIds
  <2> QED BY <1>1, <1>3, <1>5, <2>1, <2>2 DEF AddMod, tableVars, TableOK
<1>6. ASSUME BulkCreate(r) PROVE Goal
  <2>1. PICK n \in 1..MaxBatch : \E ids \in [1..n -> SteamIds] : Begin(r, Adding(ids, {}))
    BY <1>6 DEF BulkCreate
  <2>2. PICK ids \in [1..n -> SteamIds] : Begin(r, Adding(ids, {}))
    BY <2>1
  <2>3. ids \in Seq(SteamIds)
    BY BoundsAssumption
  <2> QED BY <1>1, <1>3, <1>6, <2>2, <2>3 DEF BulkCreate, tableVars, TableOK
<1>7. ASSUME AddManual(r) PROVE Goal
  <2>1. sequence' = sequence + 1 /\ sequence < MaxManual /\ sequence \in 0..MaxManual
    BY <1>1, <1>7 DEF AddManual, TableOK
  <2>2. sequence' \in 0..MaxManual /\ {sequence + 1} \in SUBSET ModIds /\ <<>> \in Seq(SteamIds)
    BY <2>1, BoundsAssumption DEF ModIds, ManualIds
  <2> QED BY <1>3, <1>7, <2>2 DEF AddManual
<1>8. ASSUME Look(r) PROVE Goal
  <2> DEFINE m == Head(req[r].todo)
             d == [req[r] EXCEPT !.todo = Tail(@),
                    !.adding = IF Present(m) \/ m \in req[r].made THEN {} ELSE {m}]
  <2>1. req[r].op = "add" /\ req[r].todo # <<>> /\ Continue(r, d) /\ UNCHANGED tableVars
    BY <1>8 DEF Look
  <2>2. req[r] \in AddRequest
    BY <1>2, <2>1 DEF Idle
  <2>3. m \in ModIds /\ Tail(req[r].todo) \in Seq(SteamIds)
    BY <2>1, <2>2 DEF AddRequest, ModIds
  <2>4. /\ d \in AddRequest /\ d.made = req[r].made
        /\ d.adding = IF Present(m) \/ m \in req[r].made THEN {} ELSE {m}
    BY <2>2, <2>3 DEF AddRequest
  <2> HIDE DEF d
  <2> QED BY <1>4, <2>1, <2>4
<1>9. ASSUME Insert(r) PROVE Goal
  <2>1. CASE End(r)
    <3>1. Idle \notin AddRequest
      BY DEF Idle, AddRequest
    <3> QED BY <1>4, <1>9, <2>1, <3>1 DEF Insert, End
  <2>2. CASE Continue(r, [req[r] EXCEPT !.adding = {}, !.made = @ \cup req[r].adding])
    <3> DEFINE d == [req[r] EXCEPT !.adding = {}, !.made = @ \cup req[r].adding]
    <3>1. req[r] \in AddRequest
      BY <1>2, <1>9 DEF Insert, Idle
    <3>2. d \in AddRequest /\ d.adding = {}
      BY <3>1 DEF AddRequest
    <3> HIDE DEF d
    <3>3. Continue(r, d)
      BY <2>2 DEF d
    <3> QED BY <1>4, <1>9, <3>2, <3>3 DEF Insert
  <2> QED BY <1>9, <2>1, <2>2 DEF Insert
<1>10. ASSUME CommitAdditions(r) PROVE Goal
  <2>1. req[r].op = "add" /\ End(r)
    BY <1>10 DEF CommitAdditions
  <2>2. /\ RequestsOK' /\ UNCHANGED crossed
        /\ req'[r] = Idle /\ \A s \in Requests \ {r} : req'[s] = req[s]
    BY <1>1, <2>1, Ends
  <2>3. /\ mods' \in [ModIds -> {"absent", "hidden", "public"}]
        /\ \A m \in ModIds : mods[m] # "absent" => mods'[m] # "absent"
    <3>1. PICK as \in {"hidden", "public"} :
            mods' = [m \in ModIds |-> IF m \in req[r].made THEN as ELSE mods[m]]
      BY <1>10 DEF CommitAdditions
    <3> QED BY <1>1, <3>1 DEF TableOK
  <2>4. LoneBatchFits'
    <3> SUFFICES ASSUME NEW s \in Requests, req'[s].op = "add", Table \notin crossed'
                 PROVE  FALSE
      BY DEF LoneBatchFits
    <3>1. s # r /\ req[s].op = "add"
      BY <2>2 DEF Idle
    <3>2. req[s].mod = Table /\ req[r].mod = Table /\ Busy(s)
      BY <1>2, <2>1, <3>1 DEF AddRequest, Busy, Idle
    <3> QED BY <1>1, <2>2, <3>1, <3>2 DEF RequestsOK, Alone
  <2>5. TableOK'
    BY <1>1, <1>10, <2>3, <2>4 DEF CommitAdditions, TableOK
  <2>6. Stay
    BY <2>3 DEF Present
  <2>7. Adds
    BY <2>1, <2>2 DEF Idle
  <2> QED BY <2>2, <2>5, <2>6, <2>7
<1>11. ASSUME Deadlocked(r) PROVE Goal
  <2>1. req[r].op = "add" /\ Continue(r, Idle) /\ UNCHANGED tableVars
    BY <1>11 DEF Deadlocked, WaitsFor, End
  <2>2. Idle \notin AddRequest
    BY DEF Idle, AddRequest
  <2> QED BY <1>4, <2>1, <2>2
<1>12. ASSUME NEW m \in ModIds, UpdateMod(m) PROVE Goal
  <2>1. /\ mods' \in [ModIds -> {"absent", "hidden", "public"}]
        /\ \A n \in ModIds : mods[n] # "absent" <=> mods'[n] # "absent"
    BY <1>1, <1>12 DEF UpdateMod, TableOK, Present
  <2>2. UNCHANGED <<req, work, crossed, sequence>>
    BY <1>12 DEF UpdateMod, requestVars
  <2>3. \A s \in Requests : req[s].op = "add" => req[s].adding \subseteq ModIds
    BY <1>2 DEF AddRequest, Idle
  <2>4. LoneBatchFits'
    BY <1>1, <2>1, <2>2, <2>3 DEF TableOK, LoneBatchFits, Present
  <2>5. RequestsOK'
    BY <1>1, <2>2 DEF RequestsOK, Alone, Busy
  <2> QED BY <1>1, <2>1, <2>2, <2>4, <2>5 DEF TableOK, Present
<1>13. Goal
  BY <1>5, <1>6, <1>7, <1>8, <1>9, <1>10, <1>11, <1>12 DEF TableStep
<1>14. UNCHANGED <<fileVars, countVars, itemVars>>
  BY DEF TableStep
<1> QED BY <1>13, <1>14, TableStepsRest, PartsAfter

-----------------------------------------------------------------------------
(* Views and downloads.                                                    *)

LEMMA CountStepsRest ==
  ASSUME IInv, RequestsOK', crossed \subseteq crossed',
         \A r \in Requests : \/ req'[r] = req[r]
                             \/ /\ req[r].op \in {"idle", "view", "download"}
                                /\ req'[r].op \in {"idle", "view", "download"},
         UNCHANGED <<mods, sequence, disk, uploads, left, removed, itemVars>>,
         files' \in [FileIds -> Version \cup {NoFile}],
         \A f \in FileIds : /\ files'[f].mod = files[f].mod /\ files'[f].current = files[f].current
                            /\ Stored(f)' <=> Stored(f)
  PROVE  TableOK' /\ FileTypes' /\ DiskOK' /\ CurrentOK' /\ PlanOK'
<1>1. RequestsOK /\ TableOK /\ FileTypes /\ DiskOK /\ CurrentOK /\ PlanOK
  BY Parts
<1>2. TableOK'
  <2>1. Quiet({"add"})
    BY DEF Quiet
  <2>2. /\ mods' \in [ModIds -> {"absent", "hidden", "public"}] /\ sequence' \in 0..MaxManual
        /\ \A m \in ModIds : Present(m)' => Present(m)
    BY <1>1 DEF TableOK, Present
  <2> QED BY <1>1, <2>1, <2>2, TableFrame
<1>3. FileTypes'
  BY <1>1 DEF FileTypes
<1>4. DiskOK'
  <2>1. Quiet({"upload", "choose", "remove"})
    BY DEF Quiet
  <2>2. \A r \in Requests, f \in FileIds :
          (Open(r, "upload", f) \/ Open(r, "remove", f)) => req'[r] # Idle
    BY DEF Open, Idle
  <2> QED BY <1>1, <2>1, <2>2, DiskFrame
<1>5. \A m \in ModIds : FilesOf(m)' = FilesOf(m) /\ CurrentOf(m)' = CurrentOf(m)
  BY DEF FilesOf, CurrentOf
<1>6. SoloReads'
  <2>1. Quiet({"upload", "choose"})
    BY DEF Quiet
  <2>2. \A r \in Requests : req'[r] = req[r] /\ Present(req[r].mod) => Present(req[r].mod)'
    BY DEF Present
  <2> QED BY <1>1, <1>5, <2>1, <2>2, SoloReadsFrame DEF CurrentOK
<1>7. NoReader
  BY DEF NoReader, Seeing
<1>8. CurrentOK'
  BY <1>1, <1>5, <1>6, <1>7, CurrentFrame
<1>9. PlanOK'
  <2>1. Quiet({"append", "move"})
    BY DEF Quiet
  <2> QED BY <1>1, <2>1, PlanFrame
<1> QED BY <1>2, <1>3, <1>4, <1>8, <1>9

\* One request moves; the others count what they counted.
LEMMA CountingOthers ==
  ASSUME NEW r \in Requests, \A s \in Requests \ {r} : req'[s] = req[s], NEW what
  PROVE  Counting(what)' \ {r} = Counting(what) \ {r}
  BY DEF Counting, Counted

LEMMA SameWithout ==
  ASSUME NEW S, NEW T, NEW r, r \notin S, r \notin T, S \ {r} = T \ {r}
  PROVE  S = T
  OBVIOUS

\* Request r comes to count what, and nothing else; it read that count.
Comes(r, what) ==
  /\ \A s \in Requests \ {r} : req'[s] = req[s]
  /\ \A x : r \notin Counting(x) /\ (r \in Counting(x)' <=> x = what)
  /\ \A m \in ModIds : what = <<"view", m>> => req'[r].count = views[m]
  /\ \A f \in FileIds : what = <<"file", f>> => req'[r].count = files[f].count

SameCounts == /\ UNCHANGED <<views, downloads, restarts>>
              /\ \A f \in FileIds : files'[f].count = files[f].count

\* Request r of process p marks what it read the count of and will count.
LEMMA Joins ==
  ASSUME RequestsOK, CountsOK, FileTypes, FileTypes',
         NEW r \in Requests, NEW p \in Replicas,
         NEW what \in {"view"} \X ModIds \cup {"file"} \X FileIds,
         what \notin marks[p], marks' = [marks EXCEPT ![p] = @ \cup {what}],
         Comes(r, what), SameCounts
  PROVE  CountsOK'
<1>0. /\ \A s \in Requests \ {r} : req'[s] = req[s]
      /\ \A x : r \notin Counting(x) /\ (r \in Counting(x)' <=> x = what)
      /\ UNCHANGED <<views, downloads, restarts>>
      /\ \A f \in FileIds : files'[f].count = files[f].count
      /\ \A m \in ModIds : what = <<"view", m>> => req'[r].count = views[m]
      /\ \A f \in FileIds : what = <<"file", f>> => req'[r].count = files[f].count
  BY DEF Comes, SameCounts
<1>1. /\ marks' \in [Replicas -> SUBSET ({"view"} \X ModIds \cup {"file"} \X FileIds)]
      /\ restarts \in Nat
  BY <1>0, FilesAssumption DEF CountsOK
<1>2. p \notin Marked(what) /\ Marked(what)' = Marked(what) \cup {p}
  BY <1>1 DEF Marked, CountsOK
<1>3. \A x : x # what => Marked(x)' = Marked(x)
  BY <1>1 DEF Marked, CountsOK
<1>4. Counting(what)' = Counting(what) \cup {r} /\ \A x : x # what => Counting(x)' = Counting(x)
  <2>1. ASSUME NEW x PROVE Counting(x)' \ {r} = Counting(x) \ {r}
    BY <1>0, CountingOthers
  <2>2. ASSUME NEW x, x # what PROVE Counting(x)' = Counting(x)
    <3>1. r \notin Counting(x) /\ r \notin Counting(x)'
      BY <1>0, <2>2
    <3>2. Counting(x)' \ {r} = Counting(x) \ {r}
      BY <2>1
    <3> QED BY <3>1, <3>2, SameWithout
  <2>3. Counting(what)' = Counting(what) \cup {r}
    <3>1. r \notin Counting(what) /\ r \in Counting(what)'
      BY <1>0
    <3>2. Counting(what)' \ {r} = Counting(what) \ {r}
      BY <2>1
    <3> QED BY <3>1, <3>2
  <2> QED BY <2>2, <2>3
<1>5. ASSUME NEW x, NEW n \in Nat, RoomToCount(x, n), x = what => req'[r].count = n
      PROVE  \A k \in {n} \cup {req'[s].count : s \in Counting(x)'} :
               k + Cardinality(Counting(x)') <= Cardinality(Marked(x)') + restarts'
  <2>1. \A s \in Counting(x) : /\ s \in Requests /\ s # r /\ req[s].count \in Nat
                               /\ req'[s].count = req[s].count
    BY <1>0, CountsAreNat
  <2>2. CASE x = what
    BY <1>0, <1>1, <1>2, <1>4, <1>5, <2>1, <2>2, RoomToJoin
  <2>3. CASE x # what
    <3>1. Cardinality(Marked(x)) \in Nat /\ Marked(x)' = Marked(x) /\ Counting(x)' = Counting(x)
      BY <1>3, <1>4, <2>3, MarkedIsFinite
    <3> QED BY <1>0, <1>1, <1>5, <2>1, <3>1, RoomFrame
  <2> QED BY <2>2, <2>3
<1>6. ASSUME NEW m \in ModIds PROVE RoomToCount(<<"view", m>>, views[m])'
  <2>1. views[m] \in Nat /\ RoomToCount(<<"view", m>>, views[m])
    BY DEF CountsOK, CountsMatch
  <2> QED BY <1>0, <1>5, <2>1 DEF RoomToCount
<1>7. ASSUME NEW f \in FileIds PROVE RoomToCount(<<"file", f>>, files[f].count)'
  <2>1. files[f].count \in Nat /\ RoomToCount(<<"file", f>>, files[f].count)
    BY DEF CountsOK, CountsMatch, FileTypes, Version, NoFile
  <2> QED BY <1>0, <1>5, <2>1 DEF RoomToCount
<1>8. CountsMatch'
  BY <1>6, <1>7 DEF CountsMatch
<1>9. views' \in [ModIds -> Nat] /\ downloads' \in [ModIds -> Nat] /\ restarts' \in 0..MaxRestarts
  BY <1>0 DEF CountsOK
<1> QED BY <1>1, <1>8, <1>9 DEF CountsOK

\* Request r counts what it marked.
LEMMA Leaves ==
  ASSUME RequestsOK, CountsOK, FileTypes, FileTypes',
         NEW r \in Requests, NEW what, r \in Counting(what), req'[r] = Idle,
         \A s \in Requests \ {r} : req'[s] = req[s],
         UNCHANGED <<marks, restarts>>,
         views' \in [ModIds -> Nat], downloads' \in [ModIds -> Nat],
         \A m \in ModIds : \/ views'[m] = views[m]
                           \/ what = <<"view", m>> /\ views'[m] = req[r].count + 1,
         \A f \in FileIds : \/ files'[f].count = files[f].count
                            \/ what = <<"file", f>> /\ files'[f].count = req[r].count + 1
  PROVE  CountsOK'
<1>1. restarts \in Nat /\ \A x : Marked(x)' = Marked(x)
  BY FilesAssumption DEF Marked, CountsOK
<1>2. \A x : r \notin Counting(x)'
  BY DEF Counting, Idle
<1>3. Counting(what)' = Counting(what) \ {r}
  BY <1>2, CountingOthers
<1>4. ASSUME NEW x, NEW n \in Nat, NEW n2 \in Nat, RoomToCount(x, n),
             n2 = n \/ (x = what /\ n2 = req[r].count + 1)
      PROVE  \A k \in {n2} \cup {req'[s].count : s \in Counting(x)'} :
               k + Cardinality(Counting(x)') <= Cardinality(Marked(x)') + restarts'
  <2>1. \A s \in Counting(x) : s \in Requests /\ req[s].count \in Nat
    BY CountsAreNat
  <2>2. \A s \in Counting(x)' : s # r /\ s \in Counting(x)
    BY <1>2, CountingOthers
  <2>3. CASE n2 = n
    <3>1. Cardinality(Marked(x)) \in Nat /\ \A s \in Counting(x)' : req'[s].count = req[s].count
      BY <2>1, <2>2, MarkedIsFinite
    <3> QED BY <1>1, <1>4, <2>1, <2>2, <2>3, <3>1, RoomFrame
  <2>4. CASE x = what /\ n2 = req[r].count + 1
    BY <1>1, <1>3, <1>4, <2>1, <2>4, RoomToLeave
  <2> QED BY <1>4, <2>3, <2>4
<1>5. ASSUME NEW m \in ModIds PROVE RoomToCount(<<"view", m>>, views[m])'
  <2>1. views[m] \in Nat /\ views'[m] \in Nat /\ RoomToCount(<<"view", m>>, views[m])
    BY DEF CountsOK, CountsMatch
  <2> QED BY <1>4, <2>1 DEF RoomToCount
<1>6. ASSUME NEW f \in FileIds PROVE RoomToCount(<<"file", f>>, files[f].count)'
  <2>1. /\ files[f].count \in Nat /\ files'[f].count \in Nat
        /\ RoomToCount(<<"file", f>>, files[f].count)
    BY DEF CountsOK, CountsMatch, FileTypes, Version, NoFile
  <2> QED BY <1>4, <2>1 DEF RoomToCount
<1>7. CountsMatch'
  BY <1>5, <1>6 DEF CountsMatch
<1> QED BY <1>7 DEF CountsOK

LEMMA CountSteps ==
  ASSUME IInv, NEW r \in Requests, CountStep(r)
  PROVE  IInv'
<1>1. RequestsOK /\ FileTypes /\ CountsOK
  BY Parts
<1>2. \A s \in Requests : req[s].op \in {"view", "download"} => req[s] \in CountRequest
  BY <1>1, Kinds DEF RequestsOK
<1> DEFINE Counts == \A s \in Requests : \/ req'[s] = req[s]
                                         \/ /\ req[s].op \in {"idle", "view", "download"}
                                            /\ req'[s].op \in {"idle", "view", "download"}
           Same == /\ files' \in [FileIds -> Version \cup {NoFile}]
                   /\ \A f \in FileIds : /\ files'[f].mod = files[f].mod
                                         /\ files'[f].current = files[f].current
                                         /\ Stored(f)' <=> Stored(f)
           Goal == RequestsOK' /\ CountsOK' /\ crossed \subseteq crossed' /\ Counts /\ Same
<1>4. ASSUME UNCHANGED fileVars PROVE Same /\ FileTypes'
                                           /\ UNCHANGED <<files, disk, uploads, left, removed>>
  BY <1>1, <1>4 DEF fileVars, FileTypes, Stored
<1>5. ASSUME UNCHANGED countVars PROVE UNCHANGED <<views, downloads, marks, restarts>>
  BY <1>5 DEF countVars
\* No request comes to count, no counter moves.
<1>6. ASSUME NoCounter, UNCHANGED <<fileVars, countVars>>
      PROVE  CountsOK'
  <2>1. /\ marks' \in [Replicas -> SUBSET ({"view"} \X ModIds \cup {"file"} \X FileIds)]
        /\ restarts' \in 0..MaxRestarts /\ restarts \in Nat
        /\ views' \in [ModIds -> Nat] /\ downloads' \in [ModIds -> Nat]
        /\ \A m \in ModIds : views'[m] <= views[m]
        /\ \A f \in FileIds : files'[f].count <= files[f].count
    BY <1>1, <1>4, <1>5, <1>6, FilesAssumption DEF CountsOK, FileTypes, Version, NoFile
  <2>2. ASSUME NEW what
        PROVE  Cardinality(Marked(what)) + restarts <= Cardinality(Marked(what)') + restarts'
    <3>1. Marked(what)' = Marked(what) /\ restarts' = restarts
      BY <1>5, <1>6 DEF Marked
    <3> QED BY <2>1, <3>1, MarkedIsFinite
  <2> QED BY <1>1, <1>4, <1>6, <2>1, <2>2, CountsKept
<1>7. ASSUME NEW p \in Replicas, NEW m \in ModIds, View(r, p, m) PROVE Goal
  <2> DEFINE d == [op |-> "view", mod |-> m, home |-> p, count |-> views[m]]
  <2>1. /\ <<"view", m>> \notin marks[p] /\ marks' = [marks EXCEPT ![p] = @ \cup {<<"view", m>>}]
        /\ Begin(r, d) /\ UNCHANGED <<views, downloads, restarts, fileVars>>
    BY <1>7 DEF View, FirstSeen
  <2>2. d \in Request \ {Idle} /\ d.op = "view" /\ d.mod = m /\ d.count = views[m]
    BY <1>1 DEF CountsOK, Request, CountRequest, Idle
  <2> HIDE DEF d
  <2>3. /\ RequestsOK' /\ crossed \subseteq crossed' /\ req[r] = Idle /\ req'[r] = d
        /\ \A s \in Requests \ {r} : req'[s] = req[s]
    BY <1>1, <2>1, <2>2, Begins
  <2>4. /\ \A x : r \notin Counting(x)
        /\ \A x : r \in Counting(x)' <=> x = <<"view", m>>
    BY <2>2, <2>3 DEF Counting, Counted, Idle
  <2>5. \A n \in ModIds : <<"view", m>> = <<"view", n>> => req'[r].count = views[n]
    BY <2>2, <2>3
  <2>6. \A f \in FileIds : files'[f].count = files[f].count /\ <<"view", m>> # <<"file", f>>
    BY <1>4, <2>1
  <2>7. FileTypes' /\ Same
    BY <1>4, <2>1
  <2>8. CountsOK'
    <3> DEFINE w == <<"view", m>>
    <3>1. w \in {"view"} \X ModIds \cup {"file"} \X FileIds
      OBVIOUS
    <3>2. Comes(r, w)
      BY <2>3, <2>4, <2>5, <2>6 DEF Comes
    <3>3. SameCounts
      BY <2>1, <2>6 DEF SameCounts
    <3>4. w \notin marks[p] /\ marks' = [marks EXCEPT ![p] = @ \cup {w}]
      BY <2>1
    <3> HIDE DEF w
    <3> QED BY <1>1, <2>3, <2>7, <3>1, <3>2, <3>3, <3>4, Joins
  <2> QED BY <2>2, <2>3, <2>7, <2>8 DEF Idle
<1>8. ASSUME NEW p \in Replicas, NEW m \in ModIds, Download(r, p, m) PROVE Goal
  <2> DEFINE d == [op |-> "download", mod |-> m, home |-> p, stage |-> "mod",
                   total |-> downloads[m]]
  <2>1. Begin(r, d) /\ UNCHANGED <<fileVars, countVars>>
    BY <1>8 DEF Download
  <2>2. d \in Request \ {Idle} /\ d.op = "download" /\ d.mod = m /\ d.stage = "mod"
    BY <1>1 DEF CountsOK, Request, CountRequest, Idle
  <2> HIDE DEF d
  <2>3. /\ RequestsOK' /\ crossed \subseteq crossed' /\ req[r] = Idle /\ req'[r] = d
        /\ \A s \in Requests \ {r} : req'[s] = req[s]
    BY <1>1, <2>1, <2>2, Begins
  <2>4. NoCounter
    BY <2>2, <2>3 DEF NoCounter, Counting, Counted
  <2>5. CountsOK' /\ Same
    BY <1>4, <1>6, <2>1, <2>4
  <2> QED BY <2>2, <2>3, <2>5 DEF Idle
\* A request ends without counting.
<1>9. ASSUME req[r].op \in {"view", "download"}, End(r), UNCHANGED <<fileVars, countVars>>
      PROVE  Goal
  <2>1. /\ RequestsOK' /\ UNCHANGED crossed
        /\ req'[r] = Idle /\ \A s \in Requests \ {r} : req'[s] = req[s]
    BY <1>1, <1>9, Ends
  <2>2. NoCounter
    BY <2>1 DEF NoCounter, Counting, Counted, Idle
  <2>3. CountsOK' /\ Same
    BY <1>4, <1>6, <1>9, <2>2
  <2> QED BY <1>9, <2>1, <2>3 DEF Idle
<1>10. ASSUME ViewCommit(r) PROVE Goal
  <2>1. /\ req[r].op = "view" /\ End(r) /\ UNCHANGED <<downloads, marks, restarts, fileVars>>
        /\ views' = [views EXCEPT ![req[r].mod] =
             IF Present(req[r].mod) THEN req[r].count + 1 ELSE @]
    BY <1>10 DEF ViewCommit
  <2>2. /\ RequestsOK' /\ UNCHANGED crossed
        /\ req'[r] = Idle /\ \A s \in Requests \ {r} : req'[s] = req[s]
    BY <1>1, <2>1, Ends
  <2>3. req[r].mod \in ModIds /\ req[r].count \in Nat
    BY <1>2, <2>1, CountKinds
  <2>4. r \in Counting(<<"view", req[r].mod>>)
    BY <2>1 DEF Counting, Counted
  <2>5. /\ views' \in [ModIds -> Nat] /\ downloads' \in [ModIds -> Nat]
        /\ \A m \in ModIds : \/ views'[m] = views[m]
                             \/ m = req[r].mod /\ views'[m] = req[r].count + 1
    BY <1>1, <2>1, <2>3 DEF CountsOK
  <2>6. Same /\ FileTypes' /\ \A f \in FileIds : files'[f].count = files[f].count
    BY <1>4, <2>1
  <2>7. CountsOK'
    BY <1>1, <2>1, <2>2, <2>4, <2>5, <2>6, Leaves
  <2> QED BY <2>1, <2>2, <2>6, <2>7 DEF Idle
<1>11. ASSUME NEW f \in FileIds, Serve(r, f) PROVE Goal
  <2>1. req[r].op = "download" /\ req[r].stage = "mod" /\ UNCHANGED fileVars
    BY <1>11 DEF Serve
  <2>2. CASE End(r) /\ UNCHANGED marks
    BY <1>9, <1>11, <2>1, <2>2 DEF Serve, countVars
  <2> DEFINE d == [op |-> "download", mod |-> req[r].mod, home |-> req[r].home, stage |-> "file",
                   total |-> req[r].total, file |-> f, count |-> files[f].count]
  <2>3. CASE FirstSeen(req[r].home, <<"file", f>>) /\ Continue(r, d)
    <3>1. /\ req[r].mod \in ModIds /\ req[r].home \in Replicas /\ req[r].total \in Nat
          /\ files[f].count \in Nat
      BY <1>1, <1>2, <2>1, CountKinds DEF FileTypes, Version, NoFile
    <3>2. /\ d \in Request /\ d.op = "download" /\ d.mod = req[r].mod /\ d.stage = "file"
          /\ d.file = f /\ d.count = files[f].count
      BY <3>1 DEF Request, CountRequest
    <3> HIDE DEF d
    <3>3. Busy(r)
      BY <2>1 DEF Busy, Idle
    <3>4. /\ RequestsOK' /\ UNCHANGED crossed /\ req'[r] = d
          /\ \A s \in Requests \ {r} : req'[s] = req[s]
      BY <1>1, <2>3, <3>2, <3>3, Continues
    <3> DEFINE w == <<"file", f>>
    <3>5. PICK p \in Replicas : p = req[r].home
      BY <3>1
    <3>6. Comes(r, w) /\ w \in {"view"} \X ModIds \cup {"file"} \X FileIds
      <4>1. \A x : r \notin Counting(x) /\ (r \in Counting(x)' <=> x = w)
        BY <2>1, <3>2, <3>4 DEF Counting, Counted
      <4>2. /\ \A m \in ModIds : w = <<"view", m>> => req'[r].count = views[m]
            /\ \A g \in FileIds : w = <<"file", g>> => req'[r].count = files[g].count
            /\ w \in {"view"} \X ModIds \cup {"file"} \X FileIds
        BY <3>2, <3>4
      <4> HIDE DEF w
      <4> QED BY <3>4, <4>1, <4>2 DEF Comes
    <3>7. Same /\ FileTypes' /\ \A g \in FileIds : files'[g].count = files[g].count
      BY <1>4, <2>1
    <3>8. /\ UNCHANGED <<views, downloads, restarts>> /\ w \notin marks[p]
          /\ marks' = [marks EXCEPT ![p] = @ \cup {w}]
      BY <1>11, <2>3, <3>5 DEF Serve, FirstSeen
    <3>9. CountsOK'
      <4>1. SameCounts
        BY <3>7, <3>8 DEF SameCounts
      <4> HIDE DEF w
      <4> QED BY <1>1, <3>4, <3>5, <3>6, <3>7, <3>8, <4>1, Joins
    <3> QED BY <2>1, <3>2, <3>4, <3>7, <3>9
  <2> QED BY <1>11, <2>2, <2>3 DEF Serve
<1>12. ASSUME ServeNothing(r) PROVE Goal
  BY <1>9, <1>12 DEF ServeNothing
<1>13. ASSUME DownloadCommit(r) PROVE Goal
  <2>1. /\ req[r].op = "download" /\ req[r].stage = "file" /\ End(r)
        /\ UNCHANGED <<views, marks, restarts>>
    BY <1>13 DEF DownloadCommit
  <2>2. /\ RequestsOK' /\ UNCHANGED crossed
        /\ req'[r] = Idle /\ \A s \in Requests \ {r} : req'[s] = req[s]
    BY <1>1, <2>1, Ends
  <2>3. /\ req[r].mod \in ModIds /\ req[r].count \in Nat /\ req[r].file \in FileIds
        /\ req[r].total \in Nat
    BY <1>2, <2>1, CountKinds
  <2>4. r \in Counting(<<"file", req[r].file>>)
    BY <2>1 DEF Counting, Counted
  <2>5. \/ UNCHANGED <<files, downloads>>
        \/ /\ Stored(req[r].file)
           /\ files' = [files EXCEPT ![req[r].file].count = req[r].count + 1]
           /\ downloads' = [downloads EXCEPT ![req[r].mod] = req[r].total + 1]
    BY <1>13 DEF DownloadCommit
  <2>6. /\ Same
        /\ \A f \in FileIds : \/ files'[f].count = files[f].count
                              \/ f = req[r].file /\ files'[f].count = req[r].count + 1
    <3>1. CASE UNCHANGED files
      BY <1>1, <3>1 DEF FileTypes, Stored
    <3>2. CASE /\ Stored(req[r].file)
               /\ files' = [files EXCEPT ![req[r].file].count = req[r].count + 1]
      <4> DEFINE f == req[r].file
                 v == [files[f] EXCEPT !.count = req[r].count + 1]
      <4>1. files[f] \in Version
        BY <1>1, <2>3, <3>2 DEF FileTypes, Stored
      <4>2. /\ v \in Version /\ v.mod = files[f].mod /\ v.current = files[f].current
            /\ v.count = req[r].count + 1 /\ v # NoFile
        BY <2>3, <4>1, ModIdsArePositive DEF Version, NoFile
      <4>3. files' = [files EXCEPT ![f] = v]
        BY <3>2
      <4> HIDE DEF v
      <4>4. files'[f] = v /\ \A g \in FileIds \ {f} : files'[g] = files[g]
        BY <1>1, <2>3, <4>3 DEF FileTypes
      <4>5. files' \in [FileIds -> Version \cup {NoFile}]
        BY <1>1, <2>3, <4>2, <4>3 DEF FileTypes
      <4> QED BY <3>2, <4>2, <4>4, <4>5 DEF Stored
    <3> QED BY <2>5, <3>1, <3>2
  <2>7. downloads' \in [ModIds -> Nat] /\ views' \in [ModIds -> Nat] /\ views' = views
    BY <1>1, <2>1, <2>3, <2>5 DEF CountsOK
  <2>8. FileTypes'
    BY <1>1, <1>13, <2>6 DEF FileTypes, DownloadCommit
  <2>9. CountsOK'
    BY <1>1, <2>1, <2>2, <2>4, <2>6, <2>7, <2>8, Leaves
  <2> QED BY <2>1, <2>2, <2>6, <2>9 DEF Idle
<1>14. ASSUME NEW p \in Replicas, Restart(p) PROVE Goal
  <2>1. /\ restarts < MaxRestarts /\ restarts' = restarts + 1 /\ marks' = [marks EXCEPT ![p] = {}]
        /\ UNCHANGED <<work, crossed, views, downloads, fileVars>>
        /\ \A s \in Requests : \/ req'[s] = req[s]
                               \/ req[s].op \in {"view", "download"} /\ req'[s] = Idle
        /\ req' \in [Requests -> Request]
    BY <1>1, <1>14 DEF Restart, RequestsOK, Request
  <2>2. Alone'
    <3> SUFFICES ASSUME NEW s \in Requests, NEW q \in Requests, s # q, req'[s] # Idle,
                        req'[s].mod = req'[q].mod
                 PROVE  req'[s].mod \in crossed
      BY <2>1 DEF Alone, Busy
    <3>1. req'[s] = req[s] /\ req[s].mod # -1
      BY <1>1, <2>1, Kinds, ModIdsArePositive DEF RequestsOK, Table
    <3>2. req'[q] = req[q]
      BY <2>1, <3>1 DEF Idle
    <3> QED BY <1>1, <3>1, <3>2 DEF RequestsOK, Alone, Busy
  <2>3. RequestsOK'
    BY <1>1, <2>1, <2>2 DEF RequestsOK
  <2>4. NoCounter
    BY <2>1 DEF NoCounter, Counting, Counted, Idle
  <2>5. /\ marks' \in [Replicas -> SUBSET ({"view"} \X ModIds \cup {"file"} \X FileIds)]
        /\ restarts' \in 0..MaxRestarts /\ restarts \in Nat /\ restarts' = restarts + 1
        /\ views' \in [ModIds -> Nat] /\ downloads' \in [ModIds -> Nat]
        /\ \A m \in ModIds : views'[m] <= views[m]
    BY <1>1, <2>1, FilesAssumption DEF CountsOK
  <2>6. ASSUME NEW what
        PROVE  Cardinality(Marked(what)) + restarts <= Cardinality(Marked(what)') + restarts'
    <3>1. Marked(what)' = Marked(what) \ {p}
      BY <1>1, <2>1 DEF Marked, CountsOK
    <3>2. /\ Cardinality(Marked(what)) \in Nat
          /\ Cardinality(Marked(what) \ {p}) \in
               {Cardinality(Marked(what)), Cardinality(Marked(what)) - 1}
      BY MarkedIsFinite, FS_RemoveElement
    <3> QED BY <2>5, <3>1, <3>2
  <2>7. Same /\ FileTypes' /\ \A f \in FileIds : files'[f].count <= files[f].count
    BY <1>1, <1>4, <2>1 DEF FileTypes, Version, NoFile
  <2>8. CountsOK'
    BY <1>1, <2>4, <2>5, <2>6, <2>7, CountsKept
  <2> QED BY <2>1, <2>3, <2>7, <2>8 DEF Idle
<1>15. Goal
  BY <1>7, <1>8, <1>10, <1>11, <1>12, <1>13, <1>14 DEF CountStep
<1>16. UNCHANGED <<mods, sequence, disk, uploads, left, removed, itemVars>>
  <2>1. UNCHANGED <<tableVars, disk, uploads, left, removed, itemVars>>
    BY <1>4 DEF CountStep, View, Download, ViewCommit, Serve, ServeNothing, DownloadCommit, Restart
  <2> QED BY <2>1 DEF tableVars
<1> QED BY <1>15, <1>16, CountStepsRest, PartsAfter

-----------------------------------------------------------------------------
(* Roadmaps.                                                               *)

\* What request r knows of its items, and what it knows when it is alone.
Matches(r) ==
  /\ req[r].op = "append" => req[r].mod \in given \/ req[r].position <= added
  /\ req[r].op = "move" =>
       /\ req[r].item <= added
       /\ Listed(req[r].item) => items[req[r].item].mod = req[r].mod
       /\ req[r].mod \in given \/ req[r].at \in 1..added
  /\ req[r].op = "move" /\ req[r].stage = "found" =>
       /\ req[r].neighbour <= added
       /\ Listed(req[r].neighbour) => items[req[r].neighbour].mod = req[r].mod
       /\ req[r].mod \in given \/ req[r].to \in 1..added
SoloPlan(r) ==
  /\ req[r].op = "append" =>
       \A i \in ItemsOf(req[r].mod) : items[i].position <= req[r].position
  /\ req[r].op = "move" =>
       Listed(req[r].item) /\ items[req[r].item].position = req[r].at
  /\ req[r].op = "move" /\ req[r].stage = "found" =>
       req[r].neighbour \in Neighbours(r) /\ items[req[r].neighbour].position = req[r].to

LEMMA PlanParts ==
  /\ ItemsMatch <=> (/\ \A i \in ItemIds : i > added => ~Listed(i)
                     /\ \A r \in Requests : Matches(r))
  /\ SoloMoves <=> \A r \in Requests : req[r].mod \notin crossed => SoloPlan(r)
  BY DEF ItemsMatch, SoloMoves, Matches, SoloPlan

LEMMA PlanPartsAfter ==
  /\ ItemsMatch' <=> (/\ \A i \in ItemIds : i > added' => ~Listed(i)'
                      /\ \A r \in Requests : Matches(r)')
  /\ SoloMoves' <=> \A r \in Requests : req'[r].mod \notin crossed' => SoloPlan(r)'
  BY DEF ItemsMatch, SoloMoves, Matches, SoloPlan

\* The roadmap of mod n stays as it is.
KeptFor(n) ==
  \A j \in ItemIds : items'[j] = items[j] \/ (items[j].mod # n /\ items'[j].mod # n)

LEMMA PlanKept ==
  ASSUME NEW n \in ModIds, KeptFor(n), PlanOK
  PROVE  /\ ItemsOf(n)' = ItemsOf(n)
         /\ \A j \in ItemsOf(n) : items'[j] = items[j]
         /\ Apart(n)' <=> Apart(n)
<1>1. n # 0
  BY ModIdsArePositive DEF Table
<1>2. ItemsOf(n)' = ItemsOf(n)
  BY <1>1 DEF KeptFor, ItemsOf, Listed
<1>3. \A j \in ItemsOf(n) : items'[j] = items[j]
  BY DEF KeptFor, ItemsOf
<1> QED BY <1>2, <1>3 DEF Apart

LEMMA SoloPlanKept ==
  ASSUME PlanOK, RequestsOK, NEW s \in Requests, req'[s] = req[s], SoloPlan(s),
         req[s].op \in {"append", "move"} => KeptFor(req[s].mod)
  PROVE  SoloPlan(s)'
<1>1. Matches(s) /\ req[s] \in Request
  BY PlanParts DEF PlanOK, RequestsOK
<1>2. ASSUME req[s].op = "append" PROVE SoloPlan(s)'
  <2> DEFINE n == req[s].mod
  <2>1. n \in ModIds /\ KeptFor(n)
    BY <1>1, <1>2, Kinds, RoadmapKinds
  <2>2. {i \in ItemIds : Listed(i)' /\ items'[i].mod = n} = ItemsOf(n)
    BY <2>1, PlanKept DEF ItemsOf
  <2>3. \A i \in ItemsOf(n) : items'[i] = items[i]
    BY <2>1, PlanKept
  <2> QED BY <1>2, <2>2, <2>3 DEF SoloPlan, ItemsOf
<1>3. ASSUME req[s].op = "move" PROVE SoloPlan(s)'
  <2> DEFINE n == req[s].mod
  <2>1. n \in ModIds /\ KeptFor(n) /\ req[s].item \in ItemIds
    BY <1>1, <1>3, Kinds, RoadmapKinds
  <2>2. ItemsOf(n)' = ItemsOf(n) /\ \A i \in ItemsOf(n) : items'[i] = items[i]
    <3> HIDE DEF n
    <3>1. /\ {i \in ItemIds : Listed(i)' /\ items'[i].mod = n} = ItemsOf(n)
          /\ \A i \in ItemsOf(n) : items'[i] = items[i]
      BY <2>1, PlanKept DEF ItemsOf
    <3>2. n' = n
      BY DEF n
    <3> QED BY <3>1, <3>2 DEF ItemsOf
  <2>3. /\ Listed(req[s].item) /\ items[req[s].item].position = req[s].at
        /\ items[req[s].item].mod = n
    BY <1>1, <1>3 DEF Matches, SoloPlan
  <2>4. items'[req[s].item] = items[req[s].item]
    BY <2>1, <2>2, <2>3 DEF ItemsOf
  <2>5. Neighbours(s)' = Neighbours(s)
    BY <2>2 DEF Neighbours, Above, Below
  <2>6. \A j \in Neighbours(s) : j \in ItemsOf(n)
    BY DEF Neighbours, Above, Below
  <2>7. Listed(req[s].item)' /\ items'[req[s].item].position = req[s].at
    BY <2>3, <2>4 DEF Listed
  <2> QED BY <1>3, <2>2, <2>5, <2>6, <2>7 DEF SoloPlan
<1>4. ASSUME req[s].op \notin {"append", "move"} PROVE SoloPlan(s)'
  BY <1>4 DEF SoloPlan
<1> QED BY <1>2, <1>3, <1>4

\* A request reads the roadmap.
LEMMA PlanReads ==
  ASSUME PlanOK, RequestsOK, NEW r \in Requests, crossed \subseteq crossed', UNCHANGED itemVars,
         \A s \in Requests \ {r} : req'[s] = req[s],
         Matches(r)', req'[r].mod \notin crossed' => SoloPlan(r)'
  PROVE  PlanOK'
<1>1. UNCHANGED <<items, added, given>>
  BY DEF itemVars
<1>2. ASSUME NEW s \in Requests \ {r}
      PROVE  Matches(s)' /\ (req'[s].mod \notin crossed' => SoloPlan(s)')
  <2>1. Matches(s)'
    BY <1>1, PlanParts DEF PlanOK, Matches, Listed
  <2>2. ASSUME req'[s].mod \notin crossed' PROVE SoloPlan(s)'
    <3>1. SoloPlan(s)
      BY <2>2, PlanParts DEF PlanOK
    <3>2. KeptFor(req[s].mod)
      BY <1>1 DEF KeptFor
    <3> QED BY <3>1, <3>2, SoloPlanKept
  <2> QED BY <2>1, <2>2
<1>3. \A i \in ItemIds : i > added' => ~Listed(i)'
  BY <1>1, PlanParts DEF PlanOK, Listed
<1>4. ItemsMatch' /\ SoloMoves'
  BY <1>2, <1>3, PlanPartsAfter
<1>5. PositionsApart'
  BY <1>1 DEF PlanOK, PositionsApart, Apart, ItemsOf, Listed
<1> QED BY <1>1, <1>4, <1>5 DEF PlanOK

\* The roadmap of m changes, and no request alone on m sees it happen.
LEMMA PlanChanges ==
  ASSUME PlanOK, RequestsOK, NEW m \in ModIds, crossed \subseteq crossed',
         items' \in [ItemIds -> Item \cup {NoItem}], added' \in 0..MaxItems, added <= added',
         given \subseteq given', given' \subseteq ModIds,
         \A n \in ModIds \ {m} : KeptFor(n),
         \A j \in ItemIds : j > added' => ~Listed(j)',
         \A j \in ItemIds : j <= added /\ Listed(j)' => Listed(j) /\ items'[j].mod = items[j].mod,
         \A s \in Requests : req'[s] = req[s] \/ req'[s] = Idle,
         \A s \in Requests : req'[s] = req[s] /\ req[s].mod = m => m \in crossed',
         m \notin crossed' /\ m \notin given' => Apart(m)',
         m \notin given' => \A i \in ItemsOf(m)' : items'[i].position \in 1..added'
  PROVE  PlanOK'
<1>1. added \in Nat /\ added' \in Nat /\ added <= added'
  BY ItemsAssumption DEF PlanOK
<1>2. ASSUME NEW s \in Requests, req'[s] = req[s] PROVE Matches(s)'
  <2>1. Matches(s) /\ req[s] \in Request
    BY PlanParts DEF PlanOK, RequestsOK
  <2>2. CASE req[s].op = "append"
    <3>1. req[s].position \in Nat
      BY <2>1, <2>2, Kinds, RoadmapKinds
    <3> QED BY <1>1, <1>2, <2>1, <2>2, <3>1 DEF Matches
  <2>3. CASE req[s].op = "move" /\ req[s].stage # "found"
    <3>1. req[s].item \in ItemIds /\ req[s].at \in Nat
      BY <2>1, <2>3, Kinds, RoadmapKinds
    <3>2. req[s].item <= added' /\ (req[s].mod \in given' \/ req[s].at \in 1..added')
      BY <1>1, <2>1, <2>3, <3>1 DEF Matches, ItemIds
    <3>3. Listed(req[s].item)' => items'[req[s].item].mod = req[s].mod
      <4> DEFINE i == req[s].item
      <4>1. \A j \in ItemIds : j = i /\ items'[j] # NoItem => items'[j].mod = req[s].mod
        BY <2>1, <2>3 DEF Matches, Listed
      <4> QED BY <1>2, <3>1, <4>1 DEF Listed
    <3> QED BY <1>2, <2>3, <3>2, <3>3 DEF Matches
  <2>4. CASE req[s].op = "move" /\ req[s].stage = "found"
    <3>1. /\ req[s].item \in ItemIds /\ req[s].at \in Nat
          /\ req[s].neighbour \in ItemIds /\ req[s].to \in Nat
      BY <2>1, <2>4, Kinds, RoadmapKinds
    <3>2. /\ req[s].item <= added' /\ (req[s].mod \in given' \/ req[s].at \in 1..added')
          /\ req[s].neighbour <= added' /\ (req[s].mod \in given' \/ req[s].to \in 1..added')
      BY <1>1, <2>1, <2>4, <3>1 DEF Matches, ItemIds
    <3>3. \A j \in ItemIds : (j = req[s].item \/ j = req[s].neighbour) /\ items'[j] # NoItem
                             => items'[j].mod = req[s].mod
      BY <2>1, <2>4 DEF Matches, Listed
    <3>4. /\ Listed(req[s].item)' => items'[req[s].item].mod = req[s].mod
          /\ Listed(req[s].neighbour)' => items'[req[s].neighbour].mod = req[s].mod
      BY <1>2, <3>1, <3>3 DEF Listed
    <3> QED BY <1>2, <2>4, <3>2, <3>4 DEF Matches
  <2>5. CASE req[s].op \notin {"append", "move"}
    BY <1>2, <2>5 DEF Matches
  <2> QED BY <2>2, <2>3, <2>4, <2>5
<1>3. ASSUME NEW s \in Requests, req'[s] = req[s], req'[s].mod \notin crossed'
      PROVE  SoloPlan(s)'
  <2>1. SoloPlan(s) /\ req[s].mod # m
    BY <1>3, PlanParts DEF PlanOK
  <2>2. req[s].op \in {"append", "move"} => KeptFor(req[s].mod)
    <3>1. req[s].op \in {"append", "move"} => req[s].mod \in ModIds
      BY Kinds DEF RequestsOK
    <3> QED BY <2>1, <3>1
  <2> QED BY <1>3, <2>1, <2>2, SoloPlanKept
<1>4. ASSUME NEW s \in Requests, req'[s] = Idle PROVE Matches(s)' /\ SoloPlan(s)'
  BY <1>4 DEF Matches, SoloPlan, Idle
<1>5. ItemsMatch' /\ SoloMoves'
  BY <1>2, <1>3, <1>4, PlanPartsAfter
<1>6. PositionsApart'
  <2> SUFFICES ASSUME NEW n \in ModIds, n \notin given', n # m
               PROVE  /\ n \notin crossed' => Apart(n)'
                      /\ \A i \in ItemsOf(n)' : items'[i].position \in 1..added'
    BY DEF PositionsApart
  <2>1. /\ n \notin crossed => Apart(n)
        /\ \A i \in ItemsOf(n) : items[i].position \in 1..added
    BY DEF PlanOK, PositionsApart
  <2>2. /\ ItemsOf(n)' = ItemsOf(n)
        /\ (Apart(n)' <=> Apart(n)) /\ \A i \in ItemsOf(n) : items'[i] = items[i]
    BY PlanKept
  <2> QED BY <1>1, <2>1, <2>2
<1> QED BY <1>5, <1>6 DEF PlanOK

\* An item is added to the roadmap of m, at p.
LEMMA ItemInserted ==
  ASSUME PlanOK, NEW m \in ModIds, NEW p \in Nat, InsertItem(m, p)
  PROVE  /\ items' \in [ItemIds -> Item \cup {NoItem}]
         /\ added + 1 \in ItemIds /\ added' = added + 1 /\ added' \in 0..MaxItems /\ added <= added'
         /\ items'[added + 1] = [mod |-> m, position |-> p]
         /\ \A j \in ItemIds : j # added + 1 => items'[j] = items[j]
         /\ \A n \in ModIds \ {m} : KeptFor(n)
         /\ \A j \in ItemIds : j > added' => ~Listed(j)'
         /\ \A j \in ItemIds : j <= added /\ Listed(j)' => Listed(j) /\ items'[j].mod = items[j].mod
<1>1. /\ items' = [items EXCEPT ![added + 1] = [mod |-> m, position |-> p]]
      /\ added' = added + 1 /\ added \in 0..MaxItems /\ added < MaxItems
  BY DEF InsertItem, PlanOK
<1>2. added + 1 \in ItemIds /\ added' \in 0..MaxItems /\ added <= added'
  BY <1>1, ItemsAssumption DEF ItemIds
<1>3. [mod |-> m, position |-> p] \in Item
  BY DEF Item
<1>4. /\ items' \in [ItemIds -> Item \cup {NoItem}]
      /\ items'[added + 1] = [mod |-> m, position |-> p]
      /\ \A j \in ItemIds : j # added + 1 => items'[j] = items[j]
  BY <1>1, <1>2, <1>3 DEF PlanOK
<1>5. ~Listed(added + 1) /\ \A j \in ItemIds : j > added => ~Listed(j)
  BY <1>1, <1>2, PlanParts DEF PlanOK, ItemIds
<1>6. \A n \in ModIds \ {m} : KeptFor(n)
  <2>1. items[added + 1].mod = 0
    BY <1>5 DEF Listed, NoItem
  <2> QED BY <1>4, <2>1, ModIdsArePositive DEF KeptFor, Table
<1>7. \A j \in ItemIds : j > added' => ~Listed(j)'
  BY <1>1, <1>2, <1>4, <1>5, ItemsAssumption DEF Listed, ItemIds
<1>8. \A j \in ItemIds : j <= added /\ Listed(j)' => Listed(j) /\ items'[j].mod = items[j].mod
  BY <1>1, <1>4, ItemsAssumption DEF Listed, ItemIds
<1> QED BY <1>1, <1>2, <1>4, <1>6, <1>7, <1>8

\* Item i of the roadmap of m is written or removed.
LEMMA ItemWritten ==
  ASSUME PlanOK, NEW i \in ItemIds, Listed(i), NEW v \in Item \cup {NoItem},
         v = NoItem \/ v.mod = items[i].mod, items' = [items EXCEPT ![i] = v], UNCHANGED added
  PROVE  /\ items' \in [ItemIds -> Item \cup {NoItem}] /\ items[i].mod \in ModIds /\ i <= added
         /\ items'[i] = v /\ \A j \in ItemIds \ {i} : items'[j] = items[j]
         /\ \A n \in ModIds \ {items[i].mod} : KeptFor(n)
         /\ \A j \in ItemIds : j > added' => ~Listed(j)'
         /\ \A j \in ItemIds : j <= added /\ Listed(j)' => Listed(j) /\ items'[j].mod = items[j].mod
<1>1. items' \in [ItemIds -> Item \cup {NoItem}] /\ items[i].mod \in ModIds
  BY DEF PlanOK, Listed, Item
<1>2. items'[i] = v /\ \A j \in ItemIds \ {i} : items'[j] = items[j]
  BY DEF PlanOK
<1>3. (\A j \in ItemIds : j > added => ~Listed(j)) /\ i <= added
  BY PlanParts, ItemsAssumption DEF PlanOK, ItemIds
<1>4. \A n \in ModIds \ {items[i].mod} : KeptFor(n)
  <2>1. v = NoItem => v.mod = 0
    BY DEF NoItem
  <2> QED BY <1>2, <2>1, ModIdsArePositive DEF KeptFor, Table
<1>5. \A j \in ItemIds : j > added' => ~Listed(j)'
  BY <1>2, <1>3, ItemsAssumption DEF Listed, PlanOK, ItemIds
<1>6. \A j \in ItemIds : j <= added /\ Listed(j)' => Listed(j) /\ items'[j].mod = items[j].mod
  BY <1>2 DEF Listed
<1> QED BY <1>1, <1>2, <1>3, <1>4, <1>5, <1>6

LEMMA PositionsAreNat ==
  ASSUME PlanOK, NEW i \in ItemIds
  PROVE  items[i].position \in Nat /\ (Listed(i) => items[i].mod \in ModIds /\ i <= added)
<1>1. items[i] \in Item \cup {NoItem}
  BY DEF PlanOK
<1>2. Listed(i) => i <= added
  BY PlanParts, ItemsAssumption DEF PlanOK, ItemIds
<1> QED BY <1>1, <1>2 DEF Item, NoItem, Listed

LEMMA RoadmapSteps ==
  ASSUME IInv, NEW r \in Requests, RoadmapStep(r)
  PROVE  IInv'
<1>1. RequestsOK /\ TableOK /\ PlanOK
  BY Parts
<1>2. /\ \A s \in Requests : req[s].op \in {"append", "move"} => req[s] \in RoadmapRequest
      /\ \A s \in Requests : Matches(s) /\ (req[s].mod \notin crossed => SoloPlan(s))
      /\ \A i \in ItemIds : i > added => ~Listed(i)
  BY <1>1, Kinds, PlanParts DEF RequestsOK, PlanOK
<1> DEFINE Plans == \A s \in Requests : \/ req'[s] = req[s]
                                        \/ /\ req[s].op \in {"idle", "append", "move"}
                                           /\ req'[s].op \in {"idle", "append", "move"}
           Goal == RequestsOK' /\ PlanOK' /\ crossed \subseteq crossed' /\ Plans
\* A request begins with what it read.
<1>3. ASSUME NEW d \in RoadmapRequest, Begin(r, d), UNCHANGED itemVars,
             req'[r] = d => Matches(r)' /\ SoloPlan(r)'
      PROVE  Goal
  <2>1. d \in Request \ {Idle} /\ d.op \in {"append", "move"}
    BY RoadmapKinds DEF Request, Idle
  <2>2. /\ RequestsOK' /\ crossed \subseteq crossed' /\ req[r] = Idle /\ req'[r] = d
        /\ \A s \in Requests \ {r} : req'[s] = req[s]
    BY <1>1, <1>3, <2>1, Begins
  <2>3. PlanOK'
    BY <1>1, <1>3, <2>2, PlanReads
  <2> QED BY <2>1, <2>2, <2>3 DEF Idle
\* Those who are alone on a mod see nothing of what happens at once on it.
<1>4. ASSUME NEW m \in ModIds, AtOnce(m)
      PROVE  /\ RequestsOK' /\ crossed \subseteq crossed' /\ UNCHANGED req
             /\ \A s \in Requests : req'[s] = req[s] /\ req[s].mod = m => m \in crossed'
  BY <1>1, <1>4, HappensAtOnce
\* Nor of what a request on it does that ends.
<1>5. ASSUME req[r].op \in {"append", "move"}, End(r)
      PROVE  /\ RequestsOK' /\ UNCHANGED crossed /\ crossed \subseteq crossed' /\ req'[r] = Idle
             /\ Plans /\ req[r].mod \in ModIds
             /\ \A s \in Requests : req'[s] = req[s] \/ req'[s] = Idle
             /\ \A s \in Requests : req'[s] = req[s] /\ req[s].mod = req[r].mod
                                    => req[r].mod \in crossed'
  <2>1. /\ RequestsOK' /\ UNCHANGED crossed
        /\ req'[r] = Idle /\ \A s \in Requests \ {r} : req'[s] = req[s]
    BY <1>1, <1>5, Ends
  <2>2. req[r].mod \in ModIds /\ Busy(r)
    BY <1>2, <1>5, RoadmapKinds DEF Busy, Idle
  <2>3. ASSUME NEW s \in Requests, req'[s] = req[s], req[s].mod = req[r].mod
        PROVE  req[r].mod \in crossed
    <3>1. s # r
      BY <2>1, <2>2, <2>3 DEF Busy
    <3> QED BY <1>1, <2>2, <2>3, <3>1 DEF RequestsOK, Alone
  <2> QED BY <1>5, <2>1, <2>2, <2>3 DEF Idle
<1>6. ASSUME NEW m \in ModIds, AddItemBegin(r, m) PROVE Goal
  <2>1. PICK p \in Highest(m) : /\ Begin(r, [op |-> "append", mod |-> m, position |-> p])
                                /\ UNCHANGED itemVars
    BY <1>6 DEF AddItemBegin
  <2>2. /\ p = 0 \/ \E i \in ItemsOf(m) : p = items[i].position
        /\ \A i \in ItemsOf(m) : items[i].position <= p
    BY <2>1 DEF Highest
  <2>3. p \in Nat
    BY <1>1, <2>2, PositionsAreNat DEF ItemsOf
  <2>4. m \in given \/ p <= added
    BY <1>1, <2>2, ItemsAssumption DEF PlanOK, PositionsApart
  <2> DEFINE d == [op |-> "append", mod |-> m, position |-> p]
  <2>5. d \in RoadmapRequest /\ d.op = "append" /\ d.mod = m /\ d.position = p
    BY <2>3 DEF RoadmapRequest
  <2>6. UNCHANGED <<items, added, given>>
    BY <2>1 DEF itemVars
  <2> HIDE DEF d
  <2>7. ASSUME req'[r] = d PROVE Matches(r)' /\ SoloPlan(r)'
    <3>1. \A i \in ItemIds : Listed(i)' /\ items'[i].mod = m => items'[i].position <= p
      BY <2>2, <2>6 DEF ItemsOf, Listed
    <3> QED BY <2>4, <2>5, <2>6, <2>7, <3>1 DEF Matches, SoloPlan, ItemsOf
  <2> QED BY <1>3, <2>1, <2>5, <2>7 DEF d
<1>7. ASSUME AddItemCommit(r) PROVE Goal
  <2>1. req[r].op = "append" /\ End(r) /\ UNCHANGED given
    BY <1>7 DEF AddItemCommit
  <2>2. req[r].mod \in ModIds /\ req[r].position \in Nat
    BY <1>2, <2>1, RoadmapKinds
  <2> DEFINE p == req[r].position + 1
  <2>3. PICK m \in ModIds : m = req[r].mod
    BY <2>2
  <2>4. CASE UNCHANGED <<items, added>>
    <3>1. Quiet({"append", "move"})
      BY <1>5, <2>1 DEF Quiet
    <3>2. PlanOK'
      BY <1>1, <1>5, <2>1, <2>4, <3>1, PlanFrame DEF itemVars
    <3> QED BY <1>5, <2>1, <3>2
  <2>5. CASE InsertItem(m, p)
    <3>1. p \in Nat /\ (m \in given \/ p <= added + 1)
      <4>1. added \in Nat
        BY <1>1, ItemsAssumption DEF PlanOK
      <4>2. m \in given \/ req[r].position <= added
        BY <1>2, <2>1, <2>3 DEF Matches
      <4> QED BY <2>2, <4>1, <4>2
    <3> HIDE DEF p
    <3>2. /\ items' \in [ItemIds -> Item \cup {NoItem}]
          /\ added + 1 \in ItemIds /\ added' = added + 1 /\ added' \in 0..MaxItems
          /\ added <= added'
          /\ items'[added + 1] = [mod |-> m, position |-> p]
          /\ \A j \in ItemIds : j # added + 1 => items'[j] = items[j]
          /\ \A n \in ModIds \ {m} : KeptFor(n)
          /\ \A j \in ItemIds : j > added' => ~Listed(j)'
          /\ \A j \in ItemIds : j <= added /\ Listed(j)'
                                => Listed(j) /\ items'[j].mod = items[j].mod
      BY <1>1, <2>5, <3>1, ItemInserted
    <3>3. \A j \in ItemsOf(m)' : j = added + 1 \/ (j \in ItemsOf(m) /\ items'[j] = items[j])
      BY <3>2 DEF ItemsOf, Listed
    <3>4. ASSUME m \notin crossed', m \notin given' PROVE Apart(m)'
      <4>1. Apart(m) /\ SoloPlan(r)
        BY <1>1, <1>2, <1>5, <2>1, <2>3, <3>4 DEF PlanOK, PositionsApart
      <4>2. \A i \in ItemsOf(m) : items[i].position <= req[r].position
        BY <2>1, <2>3, <4>1 DEF SoloPlan
      <4>3. \A i \in ItemsOf(m) : items[i].position < p
        <5>1. \A i \in ItemsOf(m) : items[i].position \in Nat
          BY <1>1, PositionsAreNat DEF ItemsOf
        <5> QED BY <2>2, <4>2, <5>1 DEF p
      <4>4. items'[added + 1].position = p
        BY <3>2
      <4>5. \A i, j \in ItemsOf(m)' : items'[i].position = items'[j].position => i = j
        <5>1. ASSUME NEW i \in ItemsOf(m)', NEW j \in ItemsOf(m)',
                     items'[i].position = items'[j].position
              PROVE  i = j
          <6>1. \A k \in ItemsOf(m)' : k # added + 1 => items'[k].position # p
            <7>1. \A k \in ItemsOf(m) : items[k].position \in Nat
              BY <1>1, PositionsAreNat DEF ItemsOf
            <7> QED BY <3>1, <3>3, <4>3, <7>1
          <6>2. CASE i = added + 1 \/ j = added + 1
            BY <4>4, <5>1, <6>1, <6>2
          <6>3. CASE i # added + 1 /\ j # added + 1
            BY <3>3, <4>1, <5>1, <6>3 DEF Apart
          <6> QED BY <6>2, <6>3
        <5> QED BY <5>1
      <4> QED BY <4>5 DEF Apart
    <3>5. m \notin given' => \A i \in ItemsOf(m)' : items'[i].position \in 1..added'
      <4>1. m \notin given => \A i \in ItemsOf(m) : items[i].position \in 1..added
        BY <1>1 DEF PlanOK, PositionsApart
      <4>2. p >= 1
        BY <2>2 DEF p
      <4>3. added \in Nat
        BY <1>1 DEF PlanOK
      <4> QED BY <2>1, <3>1, <3>2, <3>3, <4>1, <4>2, <4>3
    <3>6. given \subseteq given' /\ given' \subseteq ModIds
      BY <1>1, <2>1 DEF PlanOK
    <3>7. PlanOK'
      BY <1>1, <1>5, <2>1, <2>3, <3>2, <3>4, <3>5, <3>6, PlanChanges
    <3> QED BY <1>5, <2>1, <3>7
  <2> QED BY <1>7, <2>3, <2>4, <2>5 DEF AddItemCommit
<1>8. ASSUME NEW m \in ModIds, CreateItem(m) PROVE Goal
  <2>1. PICK p \in Chosen : InsertItem(m, p)
    BY <1>8 DEF CreateItem
  <2>2. p \in Nat /\ AtOnce(m) /\ given' = given \cup {m}
    BY <1>8, ItemsAssumption DEF CreateItem
  <2>3. /\ items' \in [ItemIds -> Item \cup {NoItem}]
        /\ added' \in 0..MaxItems /\ added <= added'
        /\ \A n \in ModIds \ {m} : KeptFor(n)
        /\ \A j \in ItemIds : j > added' => ~Listed(j)'
        /\ \A j \in ItemIds : j <= added /\ Listed(j)' => Listed(j) /\ items'[j].mod = items[j].mod
    BY <1>1, <2>1, <2>2, ItemInserted
  <2>4. given \subseteq given' /\ given' \subseteq ModIds /\ m \in given'
    BY <1>1, <2>2 DEF PlanOK
  <2>5. PlanOK'
    BY <1>1, <1>4, <2>2, <2>3, <2>4, PlanChanges
  <2> QED BY <1>4, <2>2, <2>5
<1>9. ASSUME NEW i \in ItemIds, UpdateItem(i) PROVE Goal
  <2>1. PICK p \in Chosen : items' = [items EXCEPT ![i].position = p]
    BY <1>9 DEF UpdateItem
  <2>2. PICK m \in ModIds : m = items[i].mod
    BY <1>1, <1>9, PositionsAreNat DEF UpdateItem
  <2>3. p \in Nat /\ Listed(i) /\ AtOnce(m) /\ given' = given \cup {m} /\ UNCHANGED added
    BY <1>9, <2>2, ItemsAssumption DEF UpdateItem
  <2> DEFINE v == [items[i] EXCEPT !.position = p]
  <2>4. v \in Item /\ v.mod = items[i].mod /\ items' = [items EXCEPT ![i] = v]
    BY <1>1, <2>1, <2>3 DEF PlanOK, Listed, Item
  <2> HIDE DEF v
  <2>5. /\ items' \in [ItemIds -> Item \cup {NoItem}]
        /\ \A n \in ModIds \ {m} : KeptFor(n)
        /\ \A j \in ItemIds : j > added' => ~Listed(j)'
        /\ \A j \in ItemIds : j <= added /\ Listed(j)' => Listed(j) /\ items'[j].mod = items[j].mod
    BY <1>1, <2>2, <2>3, <2>4, ItemWritten
  <2>6. /\ given \subseteq given' /\ given' \subseteq ModIds /\ m \in given'
        /\ added' \in 0..MaxItems /\ added <= added'
    BY <1>1, <2>3, ItemsAssumption DEF PlanOK
  <2>7. PlanOK'
    BY <1>1, <1>4, <2>3, <2>5, <2>6, PlanChanges
  <2> QED BY <1>4, <2>3, <2>7
<1>10. ASSUME NEW i \in ItemIds, DeleteItem(i) PROVE Goal
  <2>1. PICK m \in ModIds : m = items[i].mod
    BY <1>1, <1>10, PositionsAreNat DEF DeleteItem
  <2>2. /\ Listed(i) /\ AtOnce(m) /\ UNCHANGED <<added, given>>
        /\ items' = [items EXCEPT ![i] = NoItem]
    BY <1>10, <2>1 DEF DeleteItem
  <2>3. /\ items' \in [ItemIds -> Item \cup {NoItem}]
        /\ items'[i] = NoItem /\ \A j \in ItemIds \ {i} : items'[j] = items[j]
        /\ \A n \in ModIds \ {m} : KeptFor(n)
        /\ \A j \in ItemIds : j > added' => ~Listed(j)'
        /\ \A j \in ItemIds : j <= added /\ Listed(j)' => Listed(j) /\ items'[j].mod = items[j].mod
    BY <1>1, <2>1, <2>2, ItemWritten
  <2>4. \A j \in ItemsOf(m)' : j \in ItemsOf(m) /\ items'[j] = items[j]
    BY <2>3 DEF ItemsOf, Listed
  <2>5. m \notin crossed' /\ m \notin given' => Apart(m)'
    BY <1>1, <1>4, <2>2, <2>4 DEF PlanOK, PositionsApart, Apart
  <2>6. m \notin given' => \A j \in ItemsOf(m)' : items'[j].position \in 1..added'
    BY <1>1, <2>2, <2>4 DEF PlanOK, PositionsApart
  <2>7. /\ given \subseteq given' /\ given' \subseteq ModIds
        /\ added' \in 0..MaxItems /\ added <= added'
    BY <1>1, <2>2, ItemsAssumption DEF PlanOK
  <2>8. PlanOK'
    BY <1>1, <1>4, <2>2, <2>3, <2>5, <2>6, <2>7, PlanChanges
  <2> QED BY <1>4, <2>2, <2>8
<1>11. ASSUME NEW i \in ItemIds, NEW up \in BOOLEAN, MoveBegin(r, i, up) PROVE Goal
  <2> DEFINE d == [op |-> "move", mod |-> items[i].mod, stage |-> "loaded", item |-> i,
                   up |-> up, at |-> items[i].position]
  <2>1. Listed(i) /\ Begin(r, d) /\ UNCHANGED <<items, added, given>>
    BY <1>11 DEF MoveBegin, itemVars
  <2>2. items[i].position \in Nat /\ items[i].mod \in ModIds /\ i <= added
    BY <1>1, <2>1, PositionsAreNat
  <2>3. /\ d \in RoadmapRequest /\ d.op = "move" /\ d.mod = items[i].mod /\ d.stage = "loaded"
        /\ d.item = i /\ d.at = items[i].position
    BY <2>2 DEF RoadmapRequest
  <2>4. items[i].mod \in given \/ items[i].position \in 1..added
    BY <1>1, <2>1, <2>2 DEF PlanOK, PositionsApart, ItemsOf
  <2> HIDE DEF d
  <2>5. ASSUME req'[r] = d PROVE Matches(r)' /\ SoloPlan(r)'
    BY <2>1, <2>2, <2>3, <2>4, <2>5 DEF Matches, SoloPlan, Listed
  <2> QED BY <1>3, <2>1, <2>3, <2>5 DEF itemVars
<1>12. ASSUME MoveFind(r) PROVE Goal
  <2>1. req[r].op = "move" /\ req[r].stage = "loaded" /\ UNCHANGED <<items, added, given>>
    BY <1>12 DEF MoveFind, itemVars
  <2>2. CASE End(r)
    <3>1. Quiet({"append", "move"})
      BY <1>5, <2>1, <2>2 DEF Quiet
    <3>2. PlanOK'
      BY <1>1, <1>5, <2>1, <2>2, <3>1, PlanFrame DEF itemVars
    <3> QED BY <1>5, <2>1, <2>2, <3>2
  <2>3. ASSUME NEW n \in Neighbours(r),
               Continue(r, [op |-> "move", mod |-> req[r].mod, stage |-> "found",
                            item |-> req[r].item, up |-> req[r].up, at |-> req[r].at,
                            neighbour |-> n, to |-> items[n].position])
        PROVE  Goal
    <3> DEFINE d == [op |-> "move", mod |-> req[r].mod, stage |-> "found",
                     item |-> req[r].item, up |-> req[r].up, at |-> req[r].at,
                     neighbour |-> n, to |-> items[n].position]
    <3>1. /\ req[r].mod \in ModIds /\ req[r].item \in ItemIds /\ req[r].up \in BOOLEAN
          /\ req[r].at \in Nat
      BY <1>2, <2>1, RoadmapKinds
    <3>2. n \in ItemIds /\ Listed(n) /\ items[n].mod = req[r].mod
      BY <2>3 DEF Neighbours, Above, Below, ItemsOf
    <3>3. items[n].position \in Nat /\ n <= added
      BY <1>1, <3>2, PositionsAreNat
    <3>4. /\ d \in RoadmapRequest /\ d.op = "move" /\ d.mod = req[r].mod /\ d.stage = "found"
          /\ d.item = req[r].item /\ d.at = req[r].at /\ d.up = req[r].up
          /\ d.neighbour = n /\ d.to = items[n].position
      BY <3>1, <3>2, <3>3 DEF RoadmapRequest
    <3>5. Continue(r, d) /\ Busy(r) /\ d \in Request
      BY <2>1, <2>3, <3>4 DEF Busy, Idle, Request
    <3> HIDE DEF d
    <3>6. /\ RequestsOK' /\ UNCHANGED crossed /\ req'[r] = d
          /\ \A s \in Requests \ {r} : req'[s] = req[s]
      BY <1>1, <3>4, <3>5, Continues
    <3>7. items[n].mod \in given \/ items[n].position \in 1..added
      BY <1>1, <3>1, <3>2 DEF PlanOK, PositionsApart, ItemsOf
    <3>8. Matches(r)'
      BY <1>2, <2>1, <3>2, <3>3, <3>4, <3>6, <3>7 DEF Matches, Listed
    <3>9. ASSUME req'[r].mod \notin crossed' PROVE SoloPlan(r)'
      <4>1. Listed(req[r].item) /\ items[req[r].item].position = req[r].at
        BY <1>2, <2>1, <3>4, <3>6, <3>9 DEF SoloPlan
      <4>2. n \in Neighbours(r)'
        BY <2>1, <2>3, <3>4, <3>6 DEF Neighbours, Above, Below, ItemsOf, Listed
      <4> QED BY <2>1, <3>4, <3>6, <4>1, <4>2 DEF SoloPlan, Listed
    <3>10. PlanOK'
      BY <1>1, <2>1, <3>6, <3>8, <3>9, PlanReads DEF itemVars
    <3> QED BY <2>1, <3>4, <3>6, <3>10
  <2> QED BY <1>12, <2>2, <2>3 DEF MoveFind
<1>13. ASSUME MoveCommit(r) PROVE Goal
  <2>1. req[r].op = "move" /\ req[r].stage = "found" /\ End(r) /\ UNCHANGED <<added, given>>
    BY <1>13 DEF MoveCommit
  <2>2. /\ req[r].mod \in ModIds /\ req[r].at \in Nat /\ req[r].to \in Nat
        /\ req[r].item \in ItemIds /\ req[r].neighbour \in ItemIds
    BY <1>2, <2>1, RoadmapKinds
  <2>3. PICK m \in ModIds, i \in ItemIds, n \in ItemIds, at \in Nat, to \in Nat :
          /\ m = req[r].mod /\ i = req[r].item /\ n = req[r].neighbour
          /\ at = req[r].at /\ to = req[r].to
    BY <2>2
  <2>4. items' = IF i = n THEN items
                 ELSE [j \in ItemIds |->
                        IF j = i /\ Listed(i) THEN [items[i] EXCEPT !.position = to]
                        ELSE IF j = n /\ Listed(n) THEN [items[n] EXCEPT !.position = at]
                        ELSE items[j]]
    BY <1>13, <2>3 DEF MoveCommit
  <2>5. CASE i = n
    <3>1. Quiet({"append", "move"})
      BY <1>5, <2>1 DEF Quiet
    <3>2. PlanOK'
      BY <1>1, <1>5, <2>1, <2>4, <2>5, <3>1, PlanFrame DEF itemVars
    <3> QED BY <1>5, <2>1, <3>2
  <2>6. CASE i # n
    <3>1. /\ Listed(i) => items[i] \in Item /\ items[i].mod = m
          /\ Listed(n) => items[n] \in Item /\ items[n].mod = m
          /\ m \in given \/ (at \in 1..added /\ to \in 1..added)
      BY <1>1, <1>2, <2>1, <2>3 DEF Matches, PlanOK, Listed
    \* What becomes of each item.
    <3>2. ASSUME NEW j \in ItemIds
          PROVE  /\ items'[j] \in Item \cup {NoItem}
                 /\ Listed(j)' <=> Listed(j)
                 /\ items'[j].mod = items[j].mod
                 /\ items'[j] # items[j] => items[j].mod = m /\ j \in {i, n}
                 /\ Listed(j) /\ j = i => items'[j].position = to
                 /\ Listed(j) /\ j = n => items'[j].position = at
      <4>1. CASE j = i /\ Listed(i)
        <5>1. items'[j] = [items[i] EXCEPT !.position = to]
          BY <2>4, <2>6, <4>1
        <5>2. /\ items'[j] \in Item /\ items'[j].mod = items[i].mod /\ items'[j].position = to
              /\ items[i].mod # 0
          BY <3>1, <4>1, <5>1, ModIdsArePositive DEF Item
        <5> QED BY <2>6, <3>1, <4>1, <5>2 DEF Listed, NoItem
      <4>2. CASE j = n /\ Listed(n)
        <5>1. items'[j] = [items[n] EXCEPT !.position = at]
          BY <2>4, <2>6, <4>2
        <5>2. /\ items'[j] \in Item /\ items'[j].mod = items[n].mod /\ items'[j].position = at
              /\ items[n].mod # 0
          BY <3>1, <4>2, <5>1, ModIdsArePositive DEF Item
        <5> QED BY <2>6, <3>1, <4>2, <5>2 DEF Listed, NoItem
      <4>3. CASE ~(j = i /\ Listed(i)) /\ ~(j = n /\ Listed(n))
        <5>1. items'[j] = items[j]
          BY <2>4, <2>6, <4>3
        <5> QED BY <1>1, <4>3, <5>1 DEF Listed, PlanOK
      <4> QED BY <4>1, <4>2, <4>3
    <3>3. items' \in [ItemIds -> Item \cup {NoItem}]
      <4>1. items' = [j \in ItemIds |-> items'[j]]
        BY <2>4, <2>6
      <4> QED BY <3>2, <4>1
    <3>4. \A k \in ModIds \ {m} : KeptFor(k)
      BY <3>2 DEF KeptFor
    <3>5. \A j \in ItemIds : j > added' => ~Listed(j)'
      BY <1>2, <2>1, <3>2
    <3>6. \A j \in ItemIds : j <= added /\ Listed(j)' => Listed(j) /\ items'[j].mod = items[j].mod
      BY <3>2
    <3>7. \A j \in ItemsOf(m)' : /\ j \in ItemsOf(m)
                                 /\ \/ items'[j] = items[j] /\ j \notin {i, n}
                                    \/ j = i /\ items'[j].position = to
                                    \/ j = n /\ items'[j].position = at
      <4>1. \A j \in ItemsOf(m)' : j \in ItemsOf(m)
        BY <3>2 DEF ItemsOf
      <4>2. \A j \in ItemsOf(m)' : j \in ItemIds /\ Listed(j)
        BY <4>1 DEF ItemsOf
      <4> QED BY <3>2, <4>1, <4>2
    <3>8. ASSUME m \notin crossed', m \notin given' PROVE Apart(m)'
      <4>1. Apart(m) /\ SoloPlan(r)
        BY <1>1, <1>2, <1>5, <2>1, <2>3, <3>8 DEF PlanOK, PositionsApart
      <4>2. /\ Listed(i) /\ items[i].position = at /\ items[n].position = to
            /\ n \in Neighbours(r)
        BY <2>1, <2>3, <4>1 DEF SoloPlan
      <4>3. i \in ItemsOf(m) /\ n \in ItemsOf(m)
        BY <2>3, <3>1, <4>2 DEF Neighbours, Above, Below, ItemsOf
      <4>4. \A j, k \in ItemsOf(m) : items[j].position = items[k].position => j = k
        BY <4>1 DEF Apart
      <4>5. \A j, k \in ItemsOf(m)' : items'[j].position = items'[k].position => j = k
        BY <3>7, <4>2, <4>3, <4>4
      <4> QED BY <4>5 DEF Apart
    <3>9. m \notin given' => \A j \in ItemsOf(m)' : items'[j].position \in 1..added'
      <4>1. m \notin given => \A j \in ItemsOf(m) : items[j].position \in 1..added
        BY <1>1 DEF PlanOK, PositionsApart
      <4> QED BY <2>1, <3>1, <3>7, <4>1
    <3>10. /\ given \subseteq given' /\ given' \subseteq ModIds
           /\ added' \in 0..MaxItems /\ added <= added'
      BY <1>1, <2>1, ItemsAssumption DEF PlanOK
    <3>11. PlanOK'
      BY <1>1, <1>5, <2>1, <2>3, <3>3, <3>4, <3>5, <3>6, <3>8, <3>9, <3>10, PlanChanges
    <3> QED BY <1>5, <2>1, <3>11
  <2> QED BY <2>5, <2>6
<1>14. Goal
  BY <1>6, <1>7, <1>8, <1>9, <1>10, <1>11, <1>12, <1>13 DEF RoadmapStep
<1>15. UNCHANGED <<mods, sequence, fileVars, countVars>>
  <2>1. UNCHANGED tableVars
    BY DEF RoadmapStep, AddItemBegin, CreateItem, AddItemCommit, UpdateItem, DeleteItem,
           MoveBegin, MoveFind, MoveCommit
  <2> QED BY <2>1 DEF RoadmapStep, tableVars
<1>16. TableOK'
  <2>1. Quiet({"add"})
    BY <1>14 DEF Quiet
  <2>2. /\ mods' \in [ModIds -> {"absent", "hidden", "public"}] /\ sequence' \in 0..MaxManual
        /\ \A m \in ModIds : Present(m)' => Present(m)
    BY <1>1, <1>15 DEF TableOK, Present
  <2> QED BY <1>1, <1>14, <2>1, <2>2, TableFrame
<1>17. FileTypes' /\ DiskOK' /\ CurrentOK' /\ CountsOK'
  <2>1. \A m \in ModIds : Present(m) => Present(m)'
    BY <1>15 DEF Present
  <2>2. \A s \in Requests : \/ req'[s] = req[s]
                            \/ /\ req[s].op \in {"idle", "add", "append", "move"}
                               /\ req'[s].op \in {"idle", "add", "append", "move"}
    BY <1>14
  <2> QED BY <1>14, <1>15, <2>1, <2>2, FilesAndCountsKept
<1> QED BY <1>14, <1>16, <1>17, PartsAfter

-----------------------------------------------------------------------------
(* Versions and their files.                                               *)

\* Who works on versions leaves the other parts alone, and counts nothing.
LEMMA FileStepsRest ==
  ASSUME IInv, RequestsOK', FileTypes', crossed \subseteq crossed',
         \A r \in Requests : \/ req'[r] = req[r]
                             \/ /\ req[r].op \in {"idle", "upload", "choose", "remove"}
                                /\ req'[r].op \in {"idle", "upload", "choose", "remove"},
         UNCHANGED <<tableVars, countVars, itemVars>>,
         \A f \in FileIds : files'[f].count <= files[f].count
  PROVE  TableOK' /\ CountsOK' /\ PlanOK'
<1>1. RequestsOK /\ TableOK /\ FileTypes /\ CountsOK /\ PlanOK
  BY Parts
<1>2. UNCHANGED <<mods, sequence, views, downloads, marks, restarts>>
  BY DEF tableVars, countVars
<1>3. TableOK'
  <2>1. Quiet({"add"})
    BY DEF Quiet
  <2>2. /\ mods' \in [ModIds -> {"absent", "hidden", "public"}] /\ sequence' \in 0..MaxManual
        /\ \A m \in ModIds : Present(m)' => Present(m)
    BY <1>1, <1>2 DEF TableOK, Present
  <2> QED BY <1>1, <2>1, <2>2, TableFrame
<1>4. CountsOK'
  <2>1. Quiet({"view", "download"})
    BY DEF Quiet
  <2>2. /\ views' \in [ModIds -> Nat] /\ downloads' \in [ModIds -> Nat]
        /\ \A m \in ModIds : views'[m] <= views[m]
    BY <1>1, <1>2 DEF CountsOK
  <2> QED BY <1>1, <1>2, <2>1, <2>2, CountsFrame
<1>5. PlanOK'
  <2>1. Quiet({"append", "move"})
    BY DEF Quiet
  <2> QED BY <1>1, <2>1, PlanFrame
<1> QED BY <1>3, <1>4, <1>5

\* Request r does something to version f and its file, and to no other.
LEMMA DiskChanges ==
  ASSUME RequestsOK, RequestsOK', DiskOK, NEW r \in Requests, NEW f \in FileIds,
         \A s \in Requests \ {r} : req'[s] = req[s],
         req'[r].op \in {"upload", "choose", "remove"} => req'[r].file = f,
         \A g \in FileIds : Open(r, "upload", g) \/ Open(r, "remove", g) => g = f,
         uploads \in Nat, uploads' \in Nat, uploads <= uploads', f <= uploads',
         left \subseteq left',
         \A g \in FileIds \ {f} :
           disk'[g] = disk[g] /\ (Stored(g)' <=> Stored(g)) /\ files'[g].mod = files[g].mod,
         Stored(f)' => \/ Stored(f) /\ files'[f].mod = files[f].mod
                       \/ Open(r, "upload", f) /\ ~Stored(f),
         \A s \in Requests \ {r} :
           ~Open(s, "upload", f) /\ (Open(s, "remove", f) => disk'[f] = "none"),
         Open(r, "upload", f)' =>
           /\ ~Stored(f)' /\ (req'[r].stage = "saved" => disk'[f] = "whole")
           /\ Open(r, "upload", f) \/ f > uploads,
         Open(r, "remove", f)' => disk'[f] = "none",
         (Open(r, "choose", f)' \/ Open(r, "remove", f)') /\ Stored(f)' =>
           files'[f].mod = req'[r].mod,
         \A m \in ModIds : r \in Seeing(m)' => \A g \in req'[r].seen :
           g <= uploads' /\ (Stored(g)' => files'[g].mod = m)
           /\ \A s \in Requests : ~Open(s, "upload", g)',
         \/ IF Stored(f)' THEN disk'[f] = "whole" ELSE disk'[f] = "none"
         \/ OpenOn(f)'
         \/ f \in left'
  PROVE  DiskOK'
<1>1. FilesMatch /\ SeenMatch /\ DiskAndRows
  BY MatchParts
<1>2. \A s \in Requests \ {r} : \A g, op : Open(s, op, g)' <=> Open(s, op, g)
  BY DEF Open
<1>3. \A g \in FileIds, op \in {"upload", "choose", "remove"} : Open(r, op, g)' => g = f
  BY DEF Open
<1>4. \A g \in FileIds : g > uploads' => g > uploads /\ g # f
  BY FilesAssumption DEF FileIds
\* A new upload is of a path nobody works on.
<1>5. ASSUME Open(r, "upload", f)', NEW s \in Requests \ {r}
      PROVE  ~Open(s, "upload", f) /\ ~Open(s, "remove", f) /\ ~Open(s, "choose", f)
  BY <1>1, <1>5 DEF FilesMatch
<1>6. FilesMatch'
  <2>1. \A g \in FileIds : g > uploads' => ~Stored(g)' /\ disk'[g] = "none"
    BY <1>1, <1>4 DEF FilesMatch
  <2>2. \A s \in Requests, g \in FileIds : g > uploads' =>
          ~Open(s, "upload", g)' /\ ~Open(s, "remove", g)' /\ ~Open(s, "choose", g)'
    BY <1>1, <1>2, <1>3, <1>4 DEF FilesMatch
  <2>3. ASSUME NEW s \in Requests, NEW g \in FileIds, Open(s, "upload", g)'
        PROVE  /\ ~Stored(g)'
               /\ req'[s].stage = "saved" => disk'[g] = "whole"
               /\ \A q \in Requests \ {s} :
                    ~Open(q, "upload", g)' /\ ~Open(q, "remove", g)' /\ ~Open(q, "choose", g)'
    <3>1. CASE s = r
      BY <1>2, <1>3, <1>5, <2>3, <3>1
    <3>2. CASE s # r
      <4>1. Open(s, "upload", g) /\ g # f
        BY <1>2, <2>3, <3>2
      <4> QED BY <1>1, <1>2, <1>3, <3>2, <4>1 DEF FilesMatch
    <3> QED BY <3>1, <3>2
  <2>4. \A s \in Requests, g \in FileIds : Open(s, "remove", g)' => disk'[g] = "none"
    BY <1>1, <1>2, <1>3 DEF FilesMatch
  <2>5. ASSUME NEW s \in Requests, NEW g \in FileIds,
               Open(s, "choose", g)' \/ Open(s, "remove", g)', Stored(g)'
        PROVE  files'[g].mod = req'[s].mod
    <3>1. CASE s = r
      BY <1>3, <2>5, <3>1
    <3>2. CASE s # r /\ g # f
      BY <1>1, <1>2, <2>5, <3>2 DEF FilesMatch
    <3>3. CASE s # r /\ g = f
      BY <1>1, <1>2, <2>5, <3>3 DEF FilesMatch
    <3> QED BY <3>1, <3>2, <3>3
  <2> QED BY <2>1, <2>2, <2>3, <2>4, <2>5 DEF FilesMatch
<1>7. SeenMatch'
  <2> SUFFICES ASSUME NEW m \in ModIds, NEW q \in Seeing(m)', NEW g \in req'[q].seen
               PROVE  /\ g <= uploads'
                      /\ Stored(g)' => files'[g].mod = m
                      /\ \A s \in Requests : ~Open(s, "upload", g)'
    BY DEF SeenMatch
  <2>1. CASE q = r
    BY <2>1
  <2>2. CASE q # r
    <3>1. q \in Requests /\ q \in Seeing(m) /\ req'[q] = req[q]
      BY <2>2 DEF Seeing
    <3>2. g \in FileIds /\ g <= uploads /\ (Stored(g) => files[g].mod = m)
          /\ \A s \in Requests : ~Open(s, "upload", g)
      BY <1>1, <3>1, SeeingKinds DEF SeenMatch
    <3>3. g <= uploads'
      BY <3>2, FilesAssumption DEF FileIds
    <3>4. Stored(g)' => files'[g].mod = m
      BY <3>2
    <3>5. \A s \in Requests : ~Open(s, "upload", g)'
      <4>1. ~(g > uploads)
        BY <3>2, FilesAssumption DEF FileIds
      <4> QED BY <1>2, <1>3, <3>2, <4>1
    <3> QED BY <3>3, <3>4, <3>5
  <2> QED BY <2>1, <2>2
<1>8. DiskAndRows'
  <2> SUFFICES ASSUME NEW g \in FileIds, g # f
               PROVE  \/ IF Stored(g)' THEN disk'[g] = "whole" ELSE disk'[g] = "none"
                      \/ OpenOn(g)'
                      \/ g \in left'
    BY DEF DiskAndRows
  <2>1. OpenOn(g) => OpenOn(g)'
    BY <1>2 DEF OpenOn
  <2> QED BY <1>1, <2>1 DEF DiskAndRows
<1> QED BY <1>6, <1>7, <1>8, MatchPartsAfter

\* What request r knows of versions when it is alone.
Reads(r) ==
  \/ req[r].op = "upload" /\ req[r].stage = "saved"
  \/ req[r].op = "choose" /\ req[r].stage = "read"
SoloRead(r) ==
  /\ Reads(r) => req[r].seen = CurrentOf(req[r].mod)
  /\ req[r].op = "upload" => Present(req[r].mod)
  /\ req[r].op = "choose" => Stored(req[r].file) /\ req[r].was = files[req[r].file].current

LEMMA SoloReadsParts ==
  SoloReads <=> \A r \in Requests : req[r].mod \notin crossed => SoloRead(r)
  BY DEF SoloReads, SoloRead, Seeing, Reads

LEMMA SoloReadsPartsAfter ==
  ASSUME \A r \in Requests : req'[r].mod \notin crossed' => SoloRead(r)'
  PROVE  SoloReads'
  BY DEF SoloReads, SoloRead, Seeing, Reads

\* The versions of mod n stay as they are.
FilesKeptFor(n) ==
  \A g \in FileIds : files'[g] = files[g] \/ (files[g].mod # n /\ files'[g].mod # n)

LEMMA FilesKept ==
  ASSUME NEW n, FilesKeptFor(n)
  PROVE  /\ FilesOf(n)' = FilesOf(n) /\ CurrentOf(n)' = CurrentOf(n)
         /\ \A g \in FilesOf(n) : files'[g] = files[g]
  BY DEF FilesKeptFor, FilesOf, CurrentOf

LEMMA SoloReadKept ==
  ASSUME RequestsOK, DiskOK, NEW s \in Requests, req'[s] = req[s], SoloRead(s),
         NEW n, n = req[s].mod, FilesKeptFor(n), Present(n) => Present(n)'
  PROVE  SoloRead(s)'
<1>1. req[s].op \in {"upload", "choose"} => req[s] \in FileRequest
  BY Kinds DEF RequestsOK
<1>2. Reads(s)' => req'[s].seen = CurrentOf(req[s].mod)'
  <2>1. CurrentOf(req[s].mod)' = CurrentOf(n)
    BY FilesKept DEF CurrentOf, FilesOf
  <2> QED BY <2>1 DEF SoloRead, Reads
<1>3. req'[s].op = "upload" => Present(req[s].mod)'
  BY DEF SoloRead, Present
<1>4. ASSUME req[s].op = "choose"
      PROVE  Stored(req[s].file)' /\ req'[s].was = files'[req'[s].file].current
  <2>1. req[s].file \in FileIds /\ Stored(req[s].file) /\ req[s].was = files[req[s].file].current
    BY <1>1, <1>4, FileKinds DEF SoloRead
  <2>2. files[req[s].file].mod = n
    BY <1>4, <2>1, MatchParts DEF FilesMatch, Open
  <2>3. files'[req[s].file] = files[req[s].file]
    BY <2>1, <2>2 DEF FilesKeptFor
  <2> QED BY <2>1, <2>3 DEF Stored
<1> QED BY <1>2, <1>3, <1>4 DEF SoloRead

LEMMA FileIdsAreFinite == IsFiniteSet(FileIds)
  BY FilesAssumption, FS_Interval DEF FileIds

LEMMA SeeingIsFinite ==
  ASSUME RequestsOK, NEW m, NEW rs \in SUBSET Seeing(m)
  PROVE  /\ IsFiniteSet(rs) /\ Cardinality(rs) \in Nat /\ Cardinality(rs) <= Cardinality(Requests)
         /\ IsFiniteSet(CurrentOf(m)) /\ Cardinality(CurrentOf(m)) \in Nat
         /\ Cardinality(Requests) \in Nat
<1>1. rs \subseteq Requests
  BY DEF Seeing
<1>2. IsFiniteSet(FileIds) /\ CurrentOf(m) \subseteq FileIds
  BY FileIdsAreFinite DEF CurrentOf, FilesOf
<1> QED BY <1>1, <1>2, RequestsAssumption, FS_Subset, FS_CardinalityType

\* Request r begins on its mod, or reads which versions are current.
LEMMA CurrentReads ==
  ASSUME RequestsOK, RequestsOK', DiskOK, CurrentOK, NEW r \in Requests, crossed \subseteq crossed',
         UNCHANGED <<files, removed, mods>>,
         \A s \in Requests \ {r} : req'[s] = req[s],
         req'[r].mod \notin crossed' => SoloRead(r)',
         \A m \in ModIds : r \in Seeing(m)' => req'[r].seen = CurrentOf(m)
  PROVE  CurrentOK'
<1>1. \A m : CurrentOf(m)' = CurrentOf(m) /\ FilesOf(m)' = FilesOf(m)
  BY DEF CurrentOf, FilesOf
<1>2. SoloReads'
  <2> SUFFICES ASSUME NEW s \in Requests, s # r, req'[s].mod \notin crossed' PROVE SoloRead(s)'
    BY SoloReadsPartsAfter
  <2>1. SoloRead(s)
    BY SoloReadsParts DEF CurrentOK
  <2>2. PICK n : n = req[s].mod
    OBVIOUS
  <2>3. FilesKeptFor(n) /\ (Present(n) => Present(n)')
    BY DEF FilesKeptFor, Present
  <2> QED BY <2>1, <2>2, <2>3, SoloReadKept
<1>3. OverlapBound'
  <2> SUFFICES ASSUME NEW m \in ModIds, NEW rs \in SUBSET (Seeing(m)')
               PROVE  Cardinality(CurrentOf(m) \ SeenBy(rs)') + Cardinality(rs)
                        <= Cardinality(Requests)
    BY <1>1 DEF OverlapBound
  <2>1. CASE r \in rs
    <3>1. CurrentOf(m) \ SeenBy(rs)' = {}
      BY <2>1 DEF SeenBy
    <3>2. rs \subseteq Requests
      BY DEF Seeing
    <3>3. Cardinality(rs) \in Nat /\ Cardinality(rs) <= Cardinality(Requests)
      BY <3>2, RequestsAssumption, FS_Subset, FS_CardinalityType
    <3>4. Cardinality(CurrentOf(m) \ SeenBy(rs)') = 0
      BY <3>1, FS_EmptySet
    <3> QED BY <3>3, <3>4
  <2>2. CASE r \notin rs
    <3>1. rs \subseteq Seeing(m) /\ SeenBy(rs)' = SeenBy(rs)
      BY <2>2 DEF Seeing, SeenBy
    <3> QED BY <3>1 DEF CurrentOK, OverlapBound
  <2> QED BY <2>1, <2>2
<1>4. CurrentFiles'
  BY <1>1 DEF CurrentOK, CurrentFiles
<1> QED BY <1>2, <1>3, <1>4 DEF CurrentOK

\* The versions of m change, and no request alone on m sees it happen.
LEMMA CurrentChanges ==
  ASSUME RequestsOK, RequestsOK', DiskOK, CurrentOK, NEW m \in ModIds, crossed \subseteq crossed',
         \A n \in ModIds \ {m} :
           /\ FilesKeptFor(n) /\ (Present(n) => Present(n)')
           /\ n \in removed => n \in removed',
         \A s \in Requests : req'[s] = req[s] \/ req'[s] = Idle,
         \A s \in Requests : req'[s] = req[s] /\ req[s].mod = m => m \in crossed',
         \A rs \in SUBSET (Seeing(m)') :
           Cardinality(CurrentOf(m)' \ SeenBy(rs)') + Cardinality(rs) <= Cardinality(Requests),
         m \notin crossed' =>
           /\ Cardinality(CurrentOf(m)') <= 1
           /\ FilesOf(m)' # {} /\ m \notin removed' => CurrentOf(m)' # {}
  PROVE  CurrentOK'
<1>1. \A n \in ModIds \ {m} : CurrentOf(n)' = CurrentOf(n) /\ FilesOf(n)' = FilesOf(n)
  BY FilesKept
<1>2. SoloReads'
  <2> SUFFICES ASSUME NEW s \in Requests, req'[s].mod \notin crossed' PROVE SoloRead(s)'
    BY SoloReadsPartsAfter
  <2>1. CASE req'[s].op \notin {"upload", "choose"}
    BY <2>1 DEF SoloRead, Reads
  <2>2. CASE req'[s].op \in {"upload", "choose"}
    <3>1. req'[s] = req[s]
      BY <2>2 DEF Idle
    <3>2. SoloRead(s) /\ req[s].mod # m
      BY <3>1, SoloReadsParts DEF CurrentOK
    <3>3. PICK n \in ModIds \ {m} : n = req[s].mod
      BY <2>2, <3>1, <3>2, Kinds DEF RequestsOK
    <3> QED BY <3>1, <3>2, <3>3, SoloReadKept
  <2> QED BY <2>1, <2>2
<1>3. OverlapBound'
  <2> SUFFICES ASSUME NEW n \in ModIds \ {m}, NEW rs \in SUBSET (Seeing(n)')
               PROVE  Cardinality(CurrentOf(n) \ SeenBy(rs)') + Cardinality(rs)
                        <= Cardinality(Requests)
    BY <1>1 DEF OverlapBound
  <2>1. rs \subseteq Seeing(n) /\ SeenBy(rs)' = SeenBy(rs)
    <3>1. \A s \in rs : s \in Requests /\ req'[s] = req[s]
      BY DEF Seeing, Idle
    <3> QED BY <3>1 DEF Seeing, SeenBy
  <2> QED BY <2>1 DEF CurrentOK, OverlapBound
<1>4. CurrentFiles'
  <2>1. \A n \in ModIds \ {m} :
          /\ Cardinality(CurrentOf(n)') <= Cardinality(Requests)
          /\ n \notin crossed' =>
               /\ Cardinality(CurrentOf(n)') <= 1
               /\ FilesOf(n)' # {} /\ n \notin removed' => CurrentOf(n)' # {}
    BY <1>1 DEF CurrentOK, CurrentFiles
  <2>2. Cardinality(CurrentOf(m)') <= Cardinality(Requests)
    <3>1. {} \in SUBSET (Seeing(m)') /\ CurrentOf(m)' \ SeenBy({})' = CurrentOf(m)'
      BY DEF SeenBy
    <3>2. CurrentOf(m)' \subseteq FileIds
      BY DEF CurrentOf, FilesOf
    <3>3. Cardinality(CurrentOf(m)') \in Nat
      BY <3>2, FileIdsAreFinite, FS_Subset, FS_CardinalityType
    <3>4. Cardinality({}) = 0 /\ Cardinality(Requests) \in Nat
      BY FS_EmptySet, RequestsAssumption, FS_CardinalityType
    <3> QED BY <3>1, <3>3, <3>4
  <2> QED BY <2>1, <2>2 DEF CurrentFiles
<1> QED BY <1>2, <1>3, <1>4 DEF CurrentOK

LEMMA CurrentUntouched ==
  ASSUME RequestsOK, RequestsOK', CurrentOK, crossed \subseteq crossed',
         UNCHANGED <<files, removed, mods>>, Quiet({"upload", "choose"})
  PROVE  CurrentOK'
<1>1. \A m \in ModIds : FilesOf(m)' = FilesOf(m) /\ CurrentOf(m)' = CurrentOf(m)
  BY DEF FilesOf, CurrentOf
<1>2. /\ \A f \in FileIds : files'[f].current = files[f].current /\ (Stored(f)' <=> Stored(f))
      /\ \A r \in Requests : req'[r] = req[r] /\ Present(req[r].mod) => Present(req[r].mod)'
  BY DEF Stored, Present
<1>3. SoloReads'
  BY <1>1, <1>2, SoloReadsFrame DEF CurrentOK
<1>4. NoReader
  BY DEF NoReader, Quiet, Seeing, Idle
<1> QED BY <1>1, <1>3, <1>4, CurrentFrame

\* Request r makes f current instead of what it has seen.
LEMMA CommitOverlap ==
  ASSUME RequestsOK, CurrentOK, NEW m \in ModIds, NEW r \in Seeing(m), NEW f, req'[r] = Idle,
         \A s \in Requests \ {r} : req'[s] = req[s],
         CurrentOf(m)' \subseteq (CurrentOf(m) \ req[r].seen) \cup {f}
  PROVE  \A rs \in SUBSET (Seeing(m)') :
           Cardinality(CurrentOf(m)' \ SeenBy(rs)') + Cardinality(rs) <= Cardinality(Requests)
<1> SUFFICES ASSUME NEW rs \in SUBSET (Seeing(m)')
             PROVE  Cardinality(CurrentOf(m)' \ SeenBy(rs)') + Cardinality(rs)
                      <= Cardinality(Requests)
  OBVIOUS
<1> DEFINE all == rs \cup {r}
           old == CurrentOf(m) \ SeenBy(all)
           new == CurrentOf(m)' \ SeenBy(rs)'
<1>1. r \notin rs /\ rs \subseteq Seeing(m) /\ \A s \in rs : req'[s] = req[s]
  BY DEF Seeing, Idle
<1>2. all \in SUBSET Seeing(m)
  BY <1>1
<1>3. Cardinality(old) + Cardinality(all) <= Cardinality(Requests)
  BY <1>2 DEF CurrentOK, OverlapBound
<1>4. new \subseteq old \cup {f}
  BY <1>1 DEF SeenBy
<1>5. old \subseteq CurrentOf(m)
  OBVIOUS
<1> HIDE DEF all, old, new
<1>6. IsFiniteSet(rs) /\ Cardinality(rs) \in Nat /\ Cardinality(all) = Cardinality(rs) + 1
  BY <1>1, SeeingIsFinite, FS_AddElement DEF all
<1>7. /\ IsFiniteSet(CurrentOf(m)) /\ Cardinality(Requests) \in Nat
      /\ IsFiniteSet(old) /\ Cardinality(old) \in Nat
  BY <1>1, <1>5, SeeingIsFinite, FS_Subset, FS_CardinalityType
<1>8. IsFiniteSet(old \cup {f}) /\ Cardinality(old \cup {f}) <= Cardinality(old) + 1
      /\ Cardinality(old \cup {f}) \in Nat
  <2>1. CASE f \in old
    <3>1. old \cup {f} = old
      BY <2>1
    <3> QED BY <1>7, <3>1
  <2>2. CASE f \notin old
    <3>1. IsFiniteSet(old \cup {f}) /\ Cardinality(old \cup {f}) = Cardinality(old) + 1
      BY <1>7, <2>2, FS_AddElement
    <3> QED BY <1>7, <3>1
  <2> QED BY <2>1, <2>2
<1>9. Cardinality(new) \in Nat /\ Cardinality(new) <= Cardinality(old \cup {f})
  BY <1>4, <1>8, FS_Subset, FS_CardinalityType
<1>10. Cardinality(new) + Cardinality(rs) <= Cardinality(Requests)
  BY <1>3, <1>6, <1>7, <1>8, <1>9
<1> QED BY <1>10 DEF new

\* Versions go, and no request reads which are current.
LEMMA RemovalOverlap ==
  ASSUME RequestsOK, CurrentOK, NEW m \in ModIds, CurrentOf(m)' \subseteq CurrentOf(m),
         \A s \in Requests : req'[s] = req[s] \/ req'[s] = Idle
  PROVE  \A rs \in SUBSET (Seeing(m)') :
           Cardinality(CurrentOf(m)' \ SeenBy(rs)') + Cardinality(rs) <= Cardinality(Requests)
<1> SUFFICES ASSUME NEW rs \in SUBSET (Seeing(m)')
             PROVE  Cardinality(CurrentOf(m)' \ SeenBy(rs)') + Cardinality(rs)
                      <= Cardinality(Requests)
  OBVIOUS
<1> DEFINE old == CurrentOf(m) \ SeenBy(rs)
           new == CurrentOf(m)' \ SeenBy(rs)'
<1>1. rs \subseteq Seeing(m) /\ \A s \in rs : req'[s] = req[s]
  BY DEF Seeing, Idle
<1>2. Cardinality(old) + Cardinality(rs) <= Cardinality(Requests)
  BY <1>1 DEF CurrentOK, OverlapBound
<1>3. new \subseteq old /\ old \subseteq CurrentOf(m)
  BY <1>1 DEF SeenBy
<1> HIDE DEF old, new
<1>4. /\ Cardinality(rs) \in Nat /\ Cardinality(Requests) \in Nat
      /\ IsFiniteSet(old) /\ Cardinality(old) \in Nat
  BY <1>1, <1>3, SeeingIsFinite, FS_Subset, FS_CardinalityType
<1>5. Cardinality(new) \in Nat /\ Cardinality(new) <= Cardinality(old)
  BY <1>3, <1>4, FS_Subset, FS_CardinalityType
<1>6. Cardinality(new) + Cardinality(rs) <= Cardinality(Requests)
  BY <1>2, <1>4, <1>5
<1> QED BY <1>6 DEF new

LEMMA DemotedFacts ==
  ASSUME FileTypes, NEW fs, NEW g \in FileIds
  PROVE  /\ Demoted(fs)[g] \in Version \cup {NoFile}
         /\ Demoted(fs)[g].mod = files[g].mod /\ Demoted(fs)[g].count = files[g].count
         /\ Demoted(fs)[g].current => files[g].current /\ g \notin fs
         /\ Demoted(fs)[g] # NoFile <=> Stored(g)
         /\ g \notin fs \/ ~Stored(g) => Demoted(fs)[g] = files[g]
         /\ Demoted(fs) \in [FileIds -> Version \cup {NoFile}]
<1>1. \A h \in FileIds : Stored(h) => files[h] \in Version
  BY DEF FileTypes, Stored
<1>2. \A h \in FileIds : Stored(h) => [files[h] EXCEPT !.current = FALSE] \in Version
  BY <1>1 DEF Version
<1>3. Demoted(fs) \in [FileIds -> Version \cup {NoFile}]
  BY <1>2 DEF Demoted, FileTypes
<1>4. CASE g \in fs /\ Stored(g)
  <2>1. Demoted(fs)[g] = [files[g] EXCEPT !.current = FALSE] /\ files[g] \in Version
    BY <1>1, <1>4 DEF Demoted
  <2>2. /\ Demoted(fs)[g].mod = files[g].mod /\ Demoted(fs)[g].count = files[g].count
        /\ Demoted(fs)[g].current = FALSE /\ files[g].mod # 0
    BY <2>1, ModIdsArePositive DEF Version
  <2>3. Demoted(fs)[g] # NoFile
    BY <2>2 DEF NoFile
  <2> QED BY <1>3, <1>4, <2>2, <2>3
<1>5. CASE ~(g \in fs /\ Stored(g))
  <2>1. Demoted(fs)[g] = files[g]
    BY <1>5 DEF Demoted
  <2>2. Demoted(fs)[g].current => g \notin fs
    BY <1>5, <2>1 DEF Stored, NoFile
  <2> QED BY <1>3, <2>1, <2>2 DEF Stored, FileTypes
<1> QED BY <1>4, <1>5

LEMMA FileSteps ==
  ASSUME IInv, NEW r \in Requests, FileStep(r)
  PROVE  IInv'
<1>1. RequestsOK /\ FileTypes /\ DiskOK /\ CurrentOK /\ FilesMatch /\ SeenMatch /\ DiskAndRows
  BY Parts, MatchParts
<1>2. /\ \A s \in Requests : req[s].op \in {"upload", "choose", "remove"} => req[s] \in FileRequest
      /\ \A s \in Requests : req[s].mod \notin crossed => SoloRead(s)
      /\ uploads \in Nat /\ uploads <= MaxFiles
  BY <1>1, Kinds, SoloReadsParts, FilesAssumption DEF RequestsOK, CurrentOK, FileTypes
<1> DEFINE Works == \A s \in Requests : \/ req'[s] = req[s]
                                        \/ /\ req[s].op \in {"idle", "upload", "choose", "remove"}
                                           /\ req'[s].op \in {"idle", "upload", "choose", "remove"}
           Lower == \A f \in FileIds : files'[f].count <= files[f].count
           Goal == /\ RequestsOK' /\ FileTypes' /\ DiskOK' /\ CurrentOK'
                   /\ crossed \subseteq crossed' /\ Works /\ Lower
                   /\ UNCHANGED <<tableVars, countVars>>
<1>3. UNCHANGED files => Lower
  BY <1>1 DEF FileTypes, Version, NoFile
<1>4. UNCHANGED tableVars => UNCHANGED mods
  BY DEF tableVars
\* A request that ends has no one else on its mod, unless requests crossed.
<1>5. ASSUME req[r].op \in {"upload", "choose", "remove"}, End(r)
      PROVE  /\ RequestsOK' /\ UNCHANGED crossed /\ crossed \subseteq crossed' /\ Works
             /\ req'[r] = Idle /\ \A s \in Requests \ {r} : req'[s] = req[s]
             /\ \A s \in Requests : req'[s] = req[s] \/ req'[s] = Idle
             /\ \A s \in Requests : req'[s] = req[s] /\ req[s].mod = req[r].mod
                                    => req[r].mod \in crossed'
  <2>1. /\ RequestsOK' /\ UNCHANGED crossed
        /\ req'[r] = Idle /\ \A s \in Requests \ {r} : req'[s] = req[s]
    BY <1>1, <1>5, Ends
  <2>2. req[r].mod \in ModIds /\ Busy(r)
    BY <1>2, <1>5, FileKinds DEF Busy, Idle
  <2>3. ASSUME NEW s \in Requests, req'[s] = req[s], req[s].mod = req[r].mod
        PROVE  req[r].mod \in crossed
    <3>1. s # r
      BY <2>1, <2>2, <2>3 DEF Busy
    <3> QED BY <1>1, <2>2, <2>3, <3>1 DEF RequestsOK, Alone
  <2> QED BY <1>5, <2>1, <2>2, <2>3 DEF Idle
<1>6. ASSUME NEW m \in ModIds, UploadBegin(r, m) PROVE Goal
  <2> DEFINE d == [op |-> "upload", mod |-> m, file |-> uploads + 1, stage |-> "stream"]
  <2>1. /\ Present(m) /\ uploads < MaxFiles /\ uploads' = uploads + 1 /\ Begin(r, d)
        /\ disk' = [disk EXCEPT ![uploads + 1] = "partial"]
        /\ UNCHANGED <<files, left, removed, tableVars, countVars>>
    BY <1>6 DEF UploadBegin
  <2> PICK f \in FileIds : f = uploads + 1
    BY <1>2, <2>1, FilesAssumption DEF FileIds
  <2>2. f > uploads /\ uploads' = f /\ uploads' \in Nat /\ uploads <= uploads' /\ f <= uploads'
    BY <1>2, <2>1
  <2>3. /\ d \in Request \ {Idle} /\ d.op = "upload" /\ d.mod = m /\ d.file = f
        /\ d.stage = "stream"
    BY <2>2 DEF Request, FileRequest, Idle
  <2> HIDE DEF d
  <2>4. /\ RequestsOK' /\ crossed \subseteq crossed' /\ req[r] = Idle /\ req'[r] = d
        /\ \A s \in Requests \ {r} : req'[s] = req[s]
    BY <1>1, <2>1, <2>3, Begins
  <2>5. /\ disk' \in [FileIds -> {"none", "partial", "whole"}]
        /\ \A g \in FileIds \ {f} : disk'[g] = disk[g]
    BY <1>1, <2>1 DEF FileTypes
  <2>6. FileTypes'
    BY <1>1, <1>2, <2>1, <2>2, <2>5, FilesAssumption DEF FileTypes
  <2>7. DiskOK'
    <3>1. \A s \in Requests : ~Open(s, "upload", f) /\ ~Open(s, "remove", f)
      BY <1>1, <2>2 DEF FilesMatch
    <3>2. ~Stored(f) /\ ~Stored(f)'
      BY <1>1, <2>1, <2>2 DEF FilesMatch, Stored
    <3>3. \A g \in FileIds : ~Open(r, "upload", g) /\ ~Open(r, "remove", g)
      BY <2>4 DEF Open, Idle
    <3>4. ~Open(r, "remove", f)' /\ ~Open(r, "choose", f)' /\ OpenOn(f)'
      BY <2>3, <2>4 DEF Open, OpenOn
    <3>5. \A m2 \in ModIds : r \notin Seeing(m2)'
      BY <2>3, <2>4 DEF Seeing
    <3>6. \A g \in FileIds : (Stored(g)' <=> Stored(g)) /\ files'[g].mod = files[g].mod
      BY <2>1 DEF Stored
    <3> QED BY <1>1, <1>2, <2>1, <2>2, <2>3, <2>4, <2>5, <3>1, <3>2, <3>3, <3>4, <3>5, <3>6,
               DiskChanges
  <2>8. CurrentOK'
    <3>1. SoloRead(r)'
      BY <1>4, <2>1, <2>3, <2>4 DEF SoloRead, Reads, Present
    <3>2. \A m2 \in ModIds : r \notin Seeing(m2)'
      BY <2>3, <2>4 DEF Seeing
    <3> QED BY <1>1, <1>4, <2>1, <2>4, <3>1, <3>2, CurrentReads
  <2> QED BY <1>3, <2>1, <2>3, <2>4, <2>6, <2>7, <2>8 DEF Idle
<1>7. ASSUME UploadStops(r) PROVE Goal
  <2>1. /\ req[r].op = "upload" /\ req[r].stage = "stream" /\ End(r)
        /\ disk' = [disk EXCEPT ![req[r].file] = "none"]
        /\ UNCHANGED <<files, uploads, removed, left, tableVars, countVars>>
    BY <1>7 DEF UploadStops
  <2>2. PICK f \in FileIds : f = req[r].file
    BY <1>2, <2>1, FileKinds
  <2>3. /\ disk' \in [FileIds -> {"none", "partial", "whole"}]
        /\ disk'[f] = "none" /\ \A g \in FileIds \ {f} : disk'[g] = disk[g]
    BY <1>1, <2>1, <2>2 DEF FileTypes
  <2>4. FileTypes'
    BY <1>1, <2>1, <2>3 DEF FileTypes
  <2>5. Open(r, "upload", f)
    BY <2>1, <2>2 DEF Open
  <2>6. ~Stored(f) /\ f <= uploads /\ \A s \in Requests \ {r} : ~Open(s, "upload", f)
    <3>1. ~(f > uploads)
      BY <1>1, <2>5 DEF FilesMatch
    <3> QED BY <1>1, <1>2, <2>5, <3>1, FilesAssumption DEF FilesMatch, FileIds
  <2>7. DiskOK'
    <3>1. \A g \in FileIds : (Stored(g)' <=> Stored(g)) /\ files'[g].mod = files[g].mod
      BY <2>1 DEF Stored
    <3>2. /\ \A op \in {"upload", "remove", "choose"} : ~Open(r, op, f)'
          /\ \A m \in ModIds : r \notin Seeing(m)'
      BY <1>5, <2>1 DEF Open, Seeing, Idle
    <3>3. \A g \in FileIds : Open(r, "upload", g) \/ Open(r, "remove", g) => g = f
      BY <2>2 DEF Open
    <3>4. req'[r].op \notin {"upload", "choose", "remove"}
      BY <1>5, <2>1 DEF Idle
    <3> QED BY <1>1, <1>2, <1>5, <2>1, <2>3, <2>6, <3>1, <3>2, <3>3, <3>4, DiskChanges
  <2>8. CurrentOK'
    <3>1. Quiet({"upload", "choose"})
      BY <1>5, <2>1 DEF Quiet
    <3> QED BY <1>1, <1>4, <1>5, <2>1, <3>1, CurrentUntouched
  <2> QED BY <1>3, <1>5, <2>1, <2>4, <2>7, <2>8
<1>8. ASSUME UploadSaved(r) PROVE Goal
  <2> DEFINE d == [op |-> "upload", mod |-> req[r].mod, file |-> req[r].file,
                   stage |-> "saved", seen |-> CurrentOf(req[r].mod)]
  <2>1. /\ req[r].op = "upload" /\ req[r].stage = "stream" /\ Continue(r, d)
        /\ disk' = [disk EXCEPT ![req[r].file] = "whole"]
        /\ UNCHANGED <<files, uploads, removed, left, tableVars, countVars>>
    BY <1>8 DEF UploadSaved
  <2>2. PICK f \in FileIds, m \in ModIds : f = req[r].file /\ m = req[r].mod
    BY <1>2, <2>1, FileKinds
  <2>3. /\ d \in Request /\ d.op = "upload" /\ d.mod = m /\ d.file = f
        /\ d.stage = "saved" /\ d.seen = CurrentOf(m)
    BY <2>2 DEF Request, FileRequest, CurrentOf, FilesOf
  <2> HIDE DEF d
  <2>4. Busy(r) /\ d.mod = req[r].mod
    BY <2>1, <2>2, <2>3 DEF Busy, Idle
  <2>5. /\ RequestsOK' /\ UNCHANGED crossed /\ req'[r] = d
        /\ \A s \in Requests \ {r} : req'[s] = req[s]
    BY <1>1, <2>1, <2>3, <2>4, Continues
  <2>6. /\ disk' \in [FileIds -> {"none", "partial", "whole"}]
        /\ disk'[f] = "whole" /\ \A g \in FileIds \ {f} : disk'[g] = disk[g]
    BY <1>1, <2>1, <2>2 DEF FileTypes
  <2>7. FileTypes'
    BY <1>1, <2>1, <2>6 DEF FileTypes
  <2>8. Open(r, "upload", f)
    BY <2>1, <2>2 DEF Open
  <2>9. /\ ~Stored(f) /\ f <= uploads
        /\ \A s \in Requests \ {r} : ~Open(s, "upload", f) /\ ~Open(s, "remove", f)
    <3>1. ~(f > uploads)
      BY <1>1, <2>8 DEF FilesMatch
    <3> QED BY <1>1, <1>2, <2>8, <3>1, FilesAssumption DEF FilesMatch, FileIds
  <2>10. \A g \in FileIds : (Stored(g)' <=> Stored(g)) /\ files'[g].mod = files[g].mod
    BY <2>1 DEF Stored
  <2>11. DiskOK'
    <3>1. ~Open(r, "remove", f)' /\ ~Open(r, "choose", f)' /\ OpenOn(f)'
      BY <2>3, <2>5 DEF Open, OpenOn
    <3>2. \A g \in FileIds : Open(r, "upload", g) \/ Open(r, "remove", g) => g = f
      BY <2>2 DEF Open
    <3>3. ASSUME NEW m2 \in ModIds, r \in Seeing(m2)', NEW g \in req'[r].seen
          PROVE  /\ g <= uploads' /\ (Stored(g)' => files'[g].mod = m2)
                 /\ \A s \in Requests : ~Open(s, "upload", g)'
      <4>1. m2 = m /\ g \in FileIds /\ files[g].mod = m
        BY <2>3, <2>5, <3>3 DEF Seeing, CurrentOf, FilesOf
      <4>2. Stored(g)
        BY <4>1, ModIdsArePositive DEF Stored, NoFile, Table
      <4>3. ~(g > uploads) /\ \A s \in Requests : ~Open(s, "upload", g)
        BY <1>1, <4>1, <4>2 DEF FilesMatch
      <4>4. g # f
        BY <2>9, <4>2
      <4>5. \A s \in Requests : ~Open(s, "upload", g)'
        BY <2>3, <2>5, <4>3, <4>4 DEF Open
      <4>6. g <= uploads'
        BY <1>2, <2>1, <4>1, <4>3, FilesAssumption DEF FileIds
      <4> QED BY <2>10, <4>1, <4>5, <4>6
    <3> QED BY <1>1, <1>2, <2>1, <2>3, <2>5, <2>6, <2>8, <2>9, <2>10, <3>1, <3>2, <3>3, DiskChanges
  <2>12. CurrentOK'
    <3>1. ASSUME NEW m2 \in ModIds, r \in Seeing(m2)' PROVE req'[r].seen = CurrentOf(m2)
      BY <2>3, <2>5, <3>1 DEF Seeing
    <3>2. CurrentOf(req[r].mod)' = CurrentOf(m)
      BY <2>1, <2>3, <2>5 DEF CurrentOf, FilesOf
    <3>3. m \notin crossed => Present(m)
      BY <1>2, <2>1, <2>2 DEF SoloRead
    <3>4. req'[r].mod \notin crossed' => SoloRead(r)'
      BY <1>4, <2>1, <2>3, <2>5, <3>2, <3>3 DEF SoloRead, Reads, Present
    <3> QED BY <1>1, <1>4, <2>1, <2>5, <3>1, <3>4, CurrentReads
  <2> QED BY <1>3, <2>1, <2>3, <2>5, <2>7, <2>11, <2>12 DEF Idle
<1>9. ASSUME UploadCommit(r) PROVE Goal
  <2>1. /\ req[r].op = "upload" /\ req[r].stage = "saved" /\ End(r)
        /\ UNCHANGED <<disk, uploads, removed, tableVars, countVars>>
    BY <1>9 DEF UploadCommit
  <2>2. PICK f \in FileIds, m \in ModIds, seen \in SUBSET FileIds :
          f = req[r].file /\ m = req[r].mod /\ seen = req[r].seen
    BY <1>2, <2>1, FileKinds
  <2>3. Open(r, "upload", f) /\ r \in Seeing(m)
    BY <2>1, <2>2 DEF Open, Seeing
  <2>4. /\ ~Stored(f) /\ disk[f] = "whole" /\ f <= uploads
        /\ \A s \in Requests \ {r} : ~Open(s, "upload", f) /\ ~Open(s, "remove", f)
    <3>1. ~(f > uploads)
      BY <1>1, <2>3 DEF FilesMatch
    <3> QED BY <1>1, <1>2, <2>1, <2>3, <3>1, FilesAssumption DEF FilesMatch, FileIds
  <2>5. \A op, g : ~Open(r, op, g)' \/ op = "idle"
    BY <1>5, <2>1 DEF Open, Idle
  <2>6. CASE UNCHANGED files /\ left' = left \cup {f}
    <3>1. FileTypes'
      BY <1>1, <2>1, <2>6 DEF FileTypes
    <3>2. DiskOK'
      <4>1. Quiet({"upload", "choose", "remove"})
        BY <1>5, <2>1 DEF Quiet
      <4>2. \A g \in FileIds : files'[g].mod = files[g].mod /\ (Stored(g)' <=> Stored(g))
        BY <2>6 DEF Stored
      <4>3. \A s \in Requests, g \in FileIds :
              (Open(s, "upload", g) \/ Open(s, "remove", g)) /\ req'[s] = Idle => g \in left'
        BY <1>5, <2>1, <2>2, <2>6 DEF Open, Idle
      <4> QED BY <1>1, <2>1, <2>6, <4>1, <4>2, <4>3, DiskFrame
    <3>3. CurrentOK'
      <4>1. Quiet({"upload", "choose"})
        BY <1>5, <2>1 DEF Quiet
      <4> QED BY <1>1, <1>4, <1>5, <2>1, <2>6, <4>1, CurrentUntouched
    <3> QED BY <1>3, <1>5, <2>1, <2>6, <3>1, <3>2, <3>3
  <2>7. CASE /\ files' = [Demoted(seen) EXCEPT ![f] = NewVersion(m)]
             /\ UNCHANGED left
    <3>1. NewVersion(m) \in Version /\ NewVersion(m).mod = m /\ NewVersion(m).current
          /\ NewVersion(m).count = 0 /\ NewVersion(m) # NoFile
      BY ModIdsArePositive DEF NewVersion, Version, NoFile, Table
    <3>2. /\ files'[f] = NewVersion(m)
          /\ \A g \in FileIds \ {f} : files'[g] = Demoted(seen)[g]
          /\ files' \in [FileIds -> Version \cup {NoFile}]
      BY <1>1, <2>7, <3>1, DemotedFacts
    <3>3. \A g \in FileIds \ {f} :
            /\ files'[g].mod = files[g].mod /\ (Stored(g)' <=> Stored(g))
            /\ files'[g].current => files[g].current /\ g \notin seen
            /\ files'[g] # files[g] => g \in seen /\ Stored(g)
      BY <1>1, <3>2, DemotedFacts DEF Stored
    <3>4. Lower
      <4>1. \A g \in FileIds : files[g].count \in Nat
        BY <1>1 DEF FileTypes, Version, NoFile
      <4> QED BY <1>1, <3>1, <3>2, <4>1, DemotedFacts
    <3>5. FileTypes'
      BY <1>1, <2>1, <2>7, <3>2 DEF FileTypes
    <3>6. DiskOK'
      <4>1. Stored(f)'
        BY <3>1, <3>2 DEF Stored
      <4>2. \A m2 \in ModIds : r \notin Seeing(m2)'
        BY <1>5, <2>1 DEF Seeing, Idle
      <4>3. \A g \in FileIds : Open(r, "upload", g) \/ Open(r, "remove", g) => g = f
        BY <2>2 DEF Open
      <4>4. req'[r].op \notin {"upload", "choose", "remove"}
        BY <1>5, <2>1 DEF Idle
      <4> QED BY <1>1, <1>2, <1>5, <2>1, <2>3, <2>4, <2>5, <2>7, <3>3, <4>1, <4>2, <4>3, <4>4,
                 DiskChanges
    <3>7. CurrentOK'
      <4>1. \A n \in ModIds \ {m} : FilesKeptFor(n) /\ (Present(n) => Present(n)')
                                    /\ (n \in removed => n \in removed')
        <5>1. \A g \in seen : Stored(g) => files[g].mod = m
          BY <1>1, <2>2, <2>3 DEF SeenMatch
        <5>2. files[f].mod = 0
          BY <2>4 DEF Stored, NoFile
        <5>3. \A n \in ModIds \ {m} : FilesKeptFor(n)
          BY <3>1, <3>2, <3>3, <5>1, <5>2, ModIdsArePositive DEF FilesKeptFor, Table
        <5> QED BY <1>4, <2>1, <5>3 DEF Present
      <4>2. CurrentOf(m)' \subseteq (CurrentOf(m) \ seen) \cup {f}
        BY <3>3 DEF CurrentOf, FilesOf
      <4>3. f \in CurrentOf(m)'
        BY <3>1, <3>2 DEF CurrentOf, FilesOf
      <4>4. \A rs \in SUBSET (Seeing(m)') :
              Cardinality(CurrentOf(m)' \ SeenBy(rs)') + Cardinality(rs) <= Cardinality(Requests)
        BY <1>1, <1>5, <2>1, <2>2, <2>3, <4>2, CommitOverlap
      <4>5. m \notin crossed' => Cardinality(CurrentOf(m)') <= 1 /\ CurrentOf(m)' # {}
        <5>1. m \notin crossed' => seen = CurrentOf(m)
          BY <1>2, <1>5, <2>1, <2>2 DEF SoloRead, Reads
        <5>2. m \notin crossed' => CurrentOf(m)' = {f}
          BY <4>2, <4>3, <5>1
        <5>3. Cardinality({f}) = 1
          BY FS_Singleton
        <5> QED BY <4>3, <5>2, <5>3
      <4>6. \A s \in Requests : req'[s] = req[s] /\ req[s].mod = m => m \in crossed'
        BY <1>5, <2>1, <2>2
      <4> QED BY <1>1, <1>5, <2>1, <4>1, <4>4, <4>5, <4>6, CurrentChanges
    <3> QED BY <1>5, <2>1, <3>4, <3>5, <3>6, <3>7
  <2> QED BY <1>9, <2>2, <2>6, <2>7 DEF UploadCommit
<1>10. ASSUME NEW f \in FileIds, SetCurrentBegin(r, f) PROVE Goal
  <2> DEFINE d == [op |-> "choose", mod |-> files[f].mod, file |-> f, stage |-> "loaded",
                   was |-> files[f].current]
  <2>1. Stored(f) /\ Begin(r, d) /\ UNCHANGED <<tableVars, fileVars, countVars>>
    BY <1>10 DEF SetCurrentBegin
  <2>2. UNCHANGED <<files, disk, uploads, left, removed>>
    BY <2>1 DEF fileVars
  <2>3. PICK m \in ModIds : m = files[f].mod
    BY <1>1, <2>1 DEF FileTypes, Stored, Version
  <2>4. /\ d \in Request \ {Idle} /\ d.op = "choose" /\ d.mod = m /\ d.file = f
        /\ d.stage = "loaded" /\ d.was = files[f].current
    BY <1>1, <2>1, <2>3 DEF Request, FileRequest, Idle, FileTypes, Stored, Version
  <2> HIDE DEF d
  <2>5. /\ RequestsOK' /\ crossed \subseteq crossed' /\ req[r] = Idle /\ req'[r] = d
        /\ \A s \in Requests \ {r} : req'[s] = req[s]
    BY <1>1, <2>1, <2>4, Begins
  <2>6. FileTypes'
    BY <1>1, <2>2 DEF FileTypes
  <2>7. /\ \A g \in FileIds : (Stored(g)' <=> Stored(g)) /\ files'[g].mod = files[g].mod
        /\ \A m2 \in ModIds : r \notin Seeing(m2)'
    BY <2>2, <2>4, <2>5 DEF Stored, Seeing
  <2>8. DiskOK'
    <3>1. f <= uploads /\ \A s \in Requests : ~Open(s, "upload", f)
      <4>1. ~(f > uploads) /\ \A s \in Requests : ~Open(s, "upload", f)
        BY <1>1, <2>1 DEF FilesMatch
      <4> QED BY <1>2, <4>1, FilesAssumption DEF FileIds
    <3>2. \A s \in Requests : Open(s, "remove", f) => disk'[f] = "none"
      BY <1>1, <2>2 DEF FilesMatch
    <3>3. \A g \in FileIds : ~Open(r, "upload", g) /\ ~Open(r, "remove", g)
      BY <2>5 DEF Open, Idle
    <3>4. ~Open(r, "upload", f)' /\ ~Open(r, "remove", f)'
      BY <2>4, <2>5 DEF Open
    <3>5. OpenOn(f) => OpenOn(f)'
      BY <2>5, <3>3 DEF OpenOn, Open
    <3>6. \/ IF Stored(f)' THEN disk'[f] = "whole" ELSE disk'[f] = "none"
          \/ OpenOn(f)'
          \/ f \in left'
      BY <1>1, <2>2, <2>7, <3>5 DEF DiskAndRows
    <3> QED BY <1>1, <1>2, <2>1, <2>2, <2>3, <2>4, <2>5, <2>7, <3>1, <3>2, <3>3, <3>4, <3>6,
               DiskChanges
  <2>9. CurrentOK'
    <3>1. SoloRead(r)'
      BY <2>1, <2>2, <2>4, <2>5 DEF SoloRead, Reads, Stored
    <3> QED BY <1>1, <1>4, <2>1, <2>2, <2>5, <2>7, <3>1, CurrentReads
  <2> QED BY <1>3, <2>1, <2>2, <2>4, <2>5, <2>6, <2>8, <2>9 DEF Idle
<1>11. ASSUME SetCurrentRead(r) PROVE Goal
  <2> DEFINE d == [op |-> "choose", mod |-> req[r].mod, file |-> req[r].file, stage |-> "read",
                   was |-> req[r].was, seen |-> CurrentOf(req[r].mod)]
  <2>1. /\ req[r].op = "choose" /\ req[r].stage = "loaded" /\ Continue(r, d)
        /\ UNCHANGED <<tableVars, fileVars, countVars>>
    BY <1>11 DEF SetCurrentRead
  <2>2. UNCHANGED <<files, disk, uploads, left, removed>>
    BY <2>1 DEF fileVars
  <2>3. PICK f \in FileIds, m \in ModIds, was \in BOOLEAN :
          f = req[r].file /\ m = req[r].mod /\ was = req[r].was
    BY <1>2, <2>1, FileKinds
  <2>4. /\ d \in Request /\ d.op = "choose" /\ d.mod = m /\ d.file = f
        /\ d.stage = "read" /\ d.was = was /\ d.seen = CurrentOf(m)
    BY <2>3 DEF Request, FileRequest, CurrentOf, FilesOf
  <2> HIDE DEF d
  <2>5. Busy(r) /\ d.mod = req[r].mod
    BY <2>1, <2>3, <2>4 DEF Busy, Idle
  <2>6. /\ RequestsOK' /\ UNCHANGED crossed /\ req'[r] = d
        /\ \A s \in Requests \ {r} : req'[s] = req[s]
    BY <1>1, <2>1, <2>4, <2>5, Continues
  <2>7. FileTypes'
    BY <1>1, <2>2 DEF FileTypes
  <2>8. Open(r, "choose", f) /\ ~Open(r, "upload", f)' /\ ~Open(r, "remove", f)'
        /\ \A g \in FileIds : ~Open(r, "upload", g) /\ ~Open(r, "remove", g)
    BY <2>1, <2>3, <2>4, <2>6 DEF Open
  <2>9. \A g \in FileIds : (Stored(g)' <=> Stored(g)) /\ files'[g].mod = files[g].mod
    BY <2>2 DEF Stored
  <2>10. DiskOK'
    <3>1. f <= uploads /\ \A s \in Requests \ {r} : ~Open(s, "upload", f)
      <4>1. ~(f > uploads) /\ \A s \in Requests \ {r} : ~Open(s, "upload", f)
        BY <1>1, <2>8 DEF FilesMatch
      <4> QED BY <1>2, <4>1, FilesAssumption DEF FileIds
    <3>2. \A s \in Requests : Open(s, "remove", f) => disk'[f] = "none"
      BY <1>1, <2>2 DEF FilesMatch
    <3>3. Stored(f)' => files'[f].mod = req'[r].mod
      BY <1>1, <2>3, <2>4, <2>6, <2>8, <2>9 DEF FilesMatch
    <3>4. OpenOn(f) => OpenOn(f)'
      BY <2>6, <2>8 DEF OpenOn, Open
    <3>5. \/ IF Stored(f)' THEN disk'[f] = "whole" ELSE disk'[f] = "none"
          \/ OpenOn(f)'
          \/ f \in left'
      BY <1>1, <2>2, <2>9, <3>4 DEF DiskAndRows
    <3>6. ASSUME NEW m2 \in ModIds, r \in Seeing(m2)', NEW g \in req'[r].seen
          PROVE  /\ g <= uploads' /\ (Stored(g)' => files'[g].mod = m2)
                 /\ \A s \in Requests : ~Open(s, "upload", g)'
      <4>1. m2 = m /\ g \in FileIds /\ files[g].mod = m
        BY <2>4, <2>6, <3>6 DEF Seeing, CurrentOf, FilesOf
      <4>2. Stored(g)
        BY <4>1, ModIdsArePositive DEF Stored, NoFile, Table
      <4>3. ~(g > uploads) /\ \A s \in Requests : ~Open(s, "upload", g)
        BY <1>1, <4>1, <4>2 DEF FilesMatch
      <4>4. \A s \in Requests : ~Open(s, "upload", g)'
        BY <2>4, <2>6, <4>3 DEF Open
      <4>5. g <= uploads'
        BY <1>2, <2>2, <4>1, <4>3, FilesAssumption DEF FileIds
      <4> QED BY <2>9, <4>1, <4>4, <4>5
    <3> QED BY <1>1, <1>2, <2>2, <2>4, <2>6, <2>8, <2>9, <3>1, <3>2, <3>3, <3>5, <3>6, DiskChanges
  <2>11. CurrentOK'
    <3>1. ASSUME NEW m2 \in ModIds, r \in Seeing(m2)' PROVE req'[r].seen = CurrentOf(m2)
      BY <2>4, <2>6, <3>1 DEF Seeing
    <3>2. CurrentOf(req[r].mod)' = CurrentOf(m)
      BY <2>2, <2>4, <2>6 DEF CurrentOf, FilesOf
    <3>3. m \notin crossed => Stored(f) /\ was = files[f].current
      BY <1>2, <2>1, <2>3 DEF SoloRead
    <3>4. req'[r].mod \notin crossed' => SoloRead(r)'
      BY <2>2, <2>4, <2>6, <3>2, <3>3 DEF SoloRead, Reads, Stored
    <3> QED BY <1>1, <1>4, <2>1, <2>2, <2>6, <3>1, <3>4, CurrentReads
  <2> QED BY <1>3, <2>1, <2>2, <2>4, <2>6, <2>7, <2>10, <2>11 DEF Idle
<1>12. ASSUME SetCurrentCommit(r) PROVE Goal
  <2>1. /\ req[r].op = "choose" /\ req[r].stage = "read" /\ End(r)
        /\ UNCHANGED <<disk, uploads, removed, left, tableVars, countVars>>
    BY <1>12 DEF SetCurrentCommit
  <2>2. PICK f \in FileIds, m \in ModIds, seen \in SUBSET FileIds, was \in BOOLEAN :
          f = req[r].file /\ m = req[r].mod /\ seen = req[r].seen /\ was = req[r].was
    BY <1>2, <2>1, FileKinds
  <2> DEFINE others == seen \ {f}
             risen == IF was THEN {} ELSE {f}
  <2>3. \/ UNCHANGED files
        \/ files' = [g \in FileIds |-> IF g \in risen /\ Stored(g)
                                       THEN [files[g] EXCEPT !.current = TRUE]
                                       ELSE Demoted(others)[g]]
    BY <1>12, <2>2 DEF SetCurrentCommit
  <2>4. Open(r, "choose", f) /\ r \in Seeing(m)
    BY <2>1, <2>2 DEF Open, Seeing
  <2>5. CASE UNCHANGED files
    <3>1. FileTypes'
      BY <1>1, <2>1, <2>5 DEF FileTypes
    <3>2. DiskOK'
      <4>1. Quiet({"upload", "choose", "remove"})
        BY <1>5, <2>1 DEF Quiet
      <4>2. \A g \in FileIds : files'[g].mod = files[g].mod /\ (Stored(g)' <=> Stored(g))
        BY <2>5 DEF Stored
      <4>3. \A s \in Requests, g \in FileIds :
              (Open(s, "upload", g) \/ Open(s, "remove", g)) /\ req'[s] = Idle => g \in left'
        BY <1>5, <2>1, <2>2 DEF Open, Idle
      <4> QED BY <1>1, <2>1, <4>1, <4>2, <4>3, DiskFrame
    <3>3. CurrentOK'
      <4>1. Quiet({"upload", "choose"})
        BY <1>5, <2>1 DEF Quiet
      <4> QED BY <1>1, <1>4, <1>5, <2>1, <2>5, <4>1, CurrentUntouched
    <3> QED BY <1>3, <1>5, <2>1, <2>5, <3>1, <3>2, <3>3
  <2>6. CASE files' = [g \in FileIds |-> IF g \in risen /\ Stored(g)
                                         THEN [files[g] EXCEPT !.current = TRUE]
                                         ELSE Demoted(others)[g]]
    <3>1. ASSUME NEW g \in FileIds
          PROVE  /\ files'[g] \in Version \cup {NoFile}
                 /\ files'[g].mod = files[g].mod /\ files'[g].count = files[g].count
                 /\ Stored(g)' <=> Stored(g)
                 /\ g # f => (files'[g].current => files[g].current /\ g \notin seen)
                 /\ files'[g] # files[g] => Stored(g) /\ g \in seen \cup {f}
                 /\ g = f /\ Stored(g) /\ (was => files[g].current) => files'[g].current
      <4>1. CASE g \in risen /\ Stored(g)
        <5>1. files'[g] = [files[g] EXCEPT !.current = TRUE] /\ files[g] \in Version /\ g = f
          BY <1>1, <2>6, <4>1 DEF FileTypes, Stored
        <5>2. /\ files'[g] \in Version /\ files'[g].mod = files[g].mod
              /\ files'[g].count = files[g].count /\ files'[g].current /\ files[g].mod # 0
          BY <5>1, ModIdsArePositive DEF Version, Table
        <5>3. files'[g] # NoFile
          BY <5>2 DEF NoFile
        <5> QED BY <4>1, <5>1, <5>2, <5>3 DEF Stored
      <4>2. CASE ~(g \in risen /\ Stored(g))
        <5>1. files'[g] = Demoted(others)[g]
          BY <2>6, <4>2
        <5>2. /\ files'[g] \in Version \cup {NoFile}
              /\ files'[g].mod = files[g].mod /\ files'[g].count = files[g].count
              /\ files'[g].current => files[g].current /\ g \notin others
              /\ files'[g] # NoFile <=> Stored(g)
              /\ g \notin others \/ ~Stored(g) => files'[g] = files[g]
          BY <1>1, <5>1, DemotedFacts
        <5> QED BY <4>2, <5>2 DEF Stored
      <4> QED BY <4>1, <4>2
    <3>2. FileTypes'
      <4>1. files' \in [FileIds -> Version \cup {NoFile}]
        <5>1. files' = [g \in FileIds |-> files'[g]]
          BY <2>6
        <5> QED BY <3>1, <5>1
      <4> QED BY <1>1, <2>1, <4>1 DEF FileTypes
    <3>3. Lower
      BY <1>1, <3>1 DEF FileTypes, Version, NoFile
    <3>4. DiskOK'
      <4>1. Quiet({"upload", "choose", "remove"})
        BY <1>5, <2>1 DEF Quiet
      <4>2. \A s \in Requests, g \in FileIds :
              (Open(s, "upload", g) \/ Open(s, "remove", g)) /\ req'[s] = Idle => g \in left'
        BY <1>5, <2>1, <2>2 DEF Open, Idle
      <4> QED BY <1>1, <2>1, <3>1, <4>1, <4>2, DiskFrame
    <3>5. CurrentOK'
      <4>1. Stored(f) => files[f].mod = m
        BY <1>1, <2>2, <2>4 DEF FilesMatch
      <4>2. \A n \in ModIds \ {m} : FilesKeptFor(n) /\ (Present(n) => Present(n)')
                                    /\ (n \in removed => n \in removed')
        <5>1. \A g \in seen : Stored(g) => files[g].mod = m
          BY <1>1, <2>2, <2>4 DEF SeenMatch
        <5>2. \A n \in ModIds \ {m} : FilesKeptFor(n)
          BY <3>1, <4>1, <5>1 DEF FilesKeptFor
        <5> QED BY <1>4, <2>1, <5>2 DEF Present
      <4>3. CurrentOf(m)' \subseteq (CurrentOf(m) \ seen) \cup {f}
        BY <3>1 DEF CurrentOf, FilesOf
      <4>4. \A rs \in SUBSET (Seeing(m)') :
              Cardinality(CurrentOf(m)' \ SeenBy(rs)') + Cardinality(rs) <= Cardinality(Requests)
        BY <1>1, <1>5, <2>1, <2>2, <2>4, <4>3, CommitOverlap
      <4>5. m \notin crossed' => Cardinality(CurrentOf(m)') <= 1 /\ CurrentOf(m)' # {}
        <5> SUFFICES ASSUME m \notin crossed'
                     PROVE  Cardinality(CurrentOf(m)') <= 1 /\ CurrentOf(m)' # {}
          OBVIOUS
        <5>1. seen = CurrentOf(m) /\ Stored(f) /\ was = files[f].current
          BY <1>2, <1>5, <2>1, <2>2 DEF SoloRead, Reads
        <5>2. f \in CurrentOf(m)'
          BY <3>1, <4>1, <5>1 DEF CurrentOf, FilesOf
        <5>3. CurrentOf(m)' = {f} /\ Cardinality({f}) = 1
          BY <4>3, <5>1, <5>2, FS_Singleton
        <5> QED BY <5>2, <5>3
      <4>6. \A s \in Requests : req'[s] = req[s] /\ req[s].mod = m => m \in crossed'
        BY <1>5, <2>1, <2>2
      <4> QED BY <1>1, <1>5, <2>1, <4>2, <4>4, <4>5, <4>6, CurrentChanges
    <3> QED BY <1>5, <2>1, <3>2, <3>3, <3>4, <3>5
  <2> QED BY <2>3, <2>5, <2>6
<1>13. ASSUME NEW f \in FileIds, DeleteFileBegin(r, f) PROVE Goal
  <2> DEFINE d == [op |-> "remove", mod |-> files[f].mod, file |-> f]
  <2>1. /\ Stored(f) /\ Begin(r, d) /\ disk' = [disk EXCEPT ![f] = "none"]
        /\ UNCHANGED <<files, uploads, removed, left, tableVars, countVars>>
    BY <1>13 DEF DeleteFileBegin
  <2>2. PICK m \in ModIds : m = files[f].mod
    BY <1>1, <2>1 DEF FileTypes, Stored, Version
  <2>3. d \in Request \ {Idle} /\ d.op = "remove" /\ d.mod = m /\ d.file = f
    BY <2>2 DEF Request, FileRequest, Idle
  <2> HIDE DEF d
  <2>4. /\ RequestsOK' /\ crossed \subseteq crossed' /\ req[r] = Idle /\ req'[r] = d
        /\ \A s \in Requests \ {r} : req'[s] = req[s]
    BY <1>1, <2>1, <2>3, Begins
  <2>5. /\ disk' \in [FileIds -> {"none", "partial", "whole"}]
        /\ disk'[f] = "none" /\ \A g \in FileIds \ {f} : disk'[g] = disk[g]
    BY <1>1, <2>1 DEF FileTypes
  <2>6. FileTypes'
    BY <1>1, <2>1, <2>5 DEF FileTypes
  <2>7. DiskOK'
    <3>1. f <= uploads /\ \A s \in Requests : ~Open(s, "upload", f)
      <4>1. ~(f > uploads) /\ \A s \in Requests : ~Open(s, "upload", f)
        BY <1>1, <2>1 DEF FilesMatch
      <4> QED BY <1>2, <4>1, FilesAssumption DEF FileIds
    <3>2. \A g \in FileIds : (Stored(g)' <=> Stored(g)) /\ files'[g].mod = files[g].mod
      BY <2>1 DEF Stored
    <3>3. \A g \in FileIds : ~Open(r, "upload", g) /\ ~Open(r, "remove", g)
      BY <2>4 DEF Open, Idle
    <3>4. /\ ~Open(r, "upload", f)' /\ OpenOn(f)' /\ req'[r].mod = files'[f].mod
          /\ \A m2 \in ModIds : r \notin Seeing(m2)'
      BY <2>1, <2>2, <2>3, <2>4 DEF Open, OpenOn, Seeing
    <3> QED BY <1>1, <1>2, <2>1, <2>3, <2>4, <2>5, <3>1, <3>2, <3>3, <3>4, DiskChanges
  <2>8. CurrentOK'
    <3>1. Quiet({"upload", "choose"})
      BY <2>3, <2>4 DEF Quiet, Idle
    <3> QED BY <1>1, <1>4, <2>1, <2>4, <3>1, CurrentUntouched
  <2> QED BY <1>3, <2>1, <2>3, <2>4, <2>6, <2>7, <2>8 DEF Idle
<1>14. ASSUME DeleteFileCommit(r) PROVE Goal
  <2>1. /\ req[r].op = "remove" /\ End(r) /\ files' = [files EXCEPT ![req[r].file] = NoFile]
        /\ removed' = removed \cup {req[r].mod}
        /\ UNCHANGED <<disk, uploads, left, tableVars, countVars>>
    BY <1>14 DEF DeleteFileCommit
  <2>2. PICK f \in FileIds, m \in ModIds : f = req[r].file /\ m = req[r].mod
    BY <1>2, <2>1, FileKinds
  <2>3. /\ files' \in [FileIds -> Version \cup {NoFile}]
        /\ files'[f] = NoFile /\ \A g \in FileIds \ {f} : files'[g] = files[g]
    BY <1>1, <2>1, <2>2 DEF FileTypes
  <2>4. FileTypes'
    BY <1>1, <2>1, <2>2, <2>3 DEF FileTypes
  <2>5. Lower
    <3>1. \A g \in FileIds : files[g].count \in Nat
      BY <1>1 DEF FileTypes, Version, NoFile
    <3> QED BY <2>3, <3>1 DEF NoFile
  <2>6. Open(r, "remove", f)
    BY <2>1, <2>2 DEF Open
  <2>7. DiskOK'
    <3>1. /\ disk[f] = "none" /\ f <= uploads
          /\ \A s \in Requests \ {r} : ~Open(s, "upload", f)
      <4>1. ~(f > uploads)
        BY <1>1, <2>6 DEF FilesMatch
      <4> QED BY <1>1, <1>2, <2>6, <4>1, FilesAssumption DEF FilesMatch, FileIds
    <3>2. ~Stored(f)' /\ \A g \in FileIds \ {f} : Stored(g)' <=> Stored(g)
      BY <2>3 DEF Stored
    <3>3. /\ \A op \in {"upload", "remove", "choose"} : ~Open(r, op, f)'
          /\ \A m2 \in ModIds : r \notin Seeing(m2)'
      BY <1>5, <2>1 DEF Open, Seeing, Idle
    <3>4. \A g \in FileIds : Open(r, "upload", g) \/ Open(r, "remove", g) => g = f
      BY <2>2 DEF Open
    <3>5. req'[r].op \notin {"upload", "choose", "remove"}
      BY <1>5, <2>1 DEF Idle
    <3> QED BY <1>1, <1>2, <1>5, <2>1, <2>3, <3>1, <3>2, <3>3, <3>4, <3>5, DiskChanges
  <2>8. CurrentOK'
    <3>1. Stored(f) => files[f].mod = m
      BY <1>1, <2>2, <2>6 DEF FilesMatch
    <3>2. \A n \in ModIds \ {m} : FilesKeptFor(n) /\ (Present(n) => Present(n)')
                                  /\ (n \in removed => n \in removed')
      <4>1. \A n \in ModIds \ {m} : FilesKeptFor(n)
        BY <2>3, <3>1, ModIdsArePositive DEF FilesKeptFor, Stored, NoFile, Table
      <4> QED BY <1>4, <2>1, <4>1 DEF Present
    <3>3. CurrentOf(m)' \subseteq CurrentOf(m)
      BY <2>3, ModIdsArePositive DEF CurrentOf, FilesOf, NoFile
    <3>4. \A rs \in SUBSET (Seeing(m)') :
            Cardinality(CurrentOf(m)' \ SeenBy(rs)') + Cardinality(rs) <= Cardinality(Requests)
      BY <1>1, <1>5, <2>1, <3>3, RemovalOverlap
    <3>5. m \in removed' /\ (m \notin crossed' => Cardinality(CurrentOf(m)') <= 1)
      <4>1. m \notin crossed => Cardinality(CurrentOf(m)) <= 1
        BY <1>1 DEF CurrentOK, CurrentFiles
      <4>2. IsFiniteSet(CurrentOf(m)) /\ Cardinality(CurrentOf(m)) \in Nat
        BY <1>1, SeeingIsFinite
      <4>3. /\ Cardinality(CurrentOf(m)') \in Nat
            /\ Cardinality(CurrentOf(m)') <= Cardinality(CurrentOf(m))
        BY <3>3, <4>2, FS_Subset, FS_CardinalityType
      <4> QED BY <1>5, <2>1, <2>2, <4>1, <4>2, <4>3
    <3>6. \A s \in Requests : req'[s] = req[s] /\ req[s].mod = m => m \in crossed'
      BY <1>5, <2>1, <2>2
    <3> QED BY <1>1, <1>5, <2>1, <3>2, <3>4, <3>5, <3>6, CurrentChanges
  <2> QED BY <1>5, <2>1, <2>4, <2>5, <2>7, <2>8
<1>15. Goal
  BY <1>6, <1>7, <1>8, <1>9, <1>10, <1>11, <1>12, <1>13, <1>14 DEF FileStep
<1>16. TableOK' /\ CountsOK' /\ PlanOK'
  BY <1>15, FileStepsRest DEF FileStep
<1> QED BY <1>15, <1>16, PartsAfter

-----------------------------------------------------------------------------
(* Requests that fail, and deleted mods.                                   *)

LEMMA FailSteps ==
  ASSUME IInv, NEW r \in Requests, Fail(r), UNCHANGED itemVars
  PROVE  IInv'
<1>1. /\ RequestsOK /\ TableOK /\ FileTypes /\ DiskOK /\ CurrentOK /\ CountsOK /\ PlanOK
      /\ UNCHANGED <<mods, sequence, files, disk, uploads, removed,
                     views, downloads, marks, restarts>>
      /\ left' = left \cup (IF req[r].op \in {"upload", "remove"} THEN {req[r].file} ELSE {})
  BY Parts DEF Fail, tableVars, countVars
<1>2. /\ RequestsOK' /\ UNCHANGED crossed
      /\ req'[r] = Idle /\ \A s \in Requests \ {r} : req'[s] = req[s]
  BY <1>1, Ends DEF Fail
<1>3. \A ops : Quiet(ops)
  BY <1>2 DEF Quiet
<1>4. TableOK'
  <2>1. /\ mods' \in [ModIds -> {"absent", "hidden", "public"}] /\ sequence' \in 0..MaxManual
        /\ \A m \in ModIds : Present(m)' => Present(m)
    BY <1>1 DEF TableOK, Present
  <2> QED BY <1>1, <1>2, <1>3, <2>1, TableFrame
<1>5. FileTypes'
  <2>1. req[r].op \in {"upload", "remove"} => req[r].file \in FileIds
    BY <1>1, Kinds, FileKinds DEF RequestsOK
  <2> QED BY <1>1, <2>1 DEF FileTypes
<1>6. DiskOK'
  <2>1. \A f \in FileIds : files'[f].mod = files[f].mod /\ (Stored(f)' <=> Stored(f))
    BY <1>1 DEF Stored
  <2>2. \A s \in Requests, f \in FileIds :
          (Open(s, "upload", f) \/ Open(s, "remove", f)) /\ req'[s] = Idle => f \in left'
    BY <1>1, <1>2 DEF Open, Idle
  <2> QED BY <1>1, <1>3, <2>1, <2>2, DiskFrame
<1>7. CurrentOK'
  BY <1>1, <1>2, <1>3, CurrentUntouched
<1>8. CountsOK'
  <2>1. /\ views' \in [ModIds -> Nat] /\ downloads' \in [ModIds -> Nat]
        /\ \A m \in ModIds : views'[m] <= views[m]
        /\ \A f \in FileIds : files'[f].count <= files[f].count
    BY <1>1 DEF CountsOK, FileTypes, Version, NoFile
  <2> QED BY <1>1, <1>3, <1>5, <2>1, CountsFrame
<1>9. PlanOK'
  BY <1>1, <1>2, <1>3, PlanFrame
<1> QED BY <1>2, <1>4, <1>5, <1>6, <1>7, <1>8, <1>9, PartsAfter

LEMMA DeleteModSteps ==
  ASSUME IInv, NEW m \in ModIds, DeleteMod(m)
  PROVE  IInv'
<1>1. /\ RequestsOK /\ TableOK /\ FileTypes /\ DiskOK /\ CurrentOK /\ CountsOK /\ PlanOK
      /\ FilesMatch /\ SeenMatch /\ DiskAndRows
  BY Parts, MatchParts
<1>2. /\ AtOnce(m) /\ UNCHANGED <<sequence, disk, uploads, marks, restarts, added, given>>
      /\ mods' = [mods EXCEPT ![m] = "absent"]
      /\ files' = [f \in FileIds |-> IF files[f].mod = m THEN NoFile ELSE files[f]]
      /\ left' = left \cup FilesOf(m) /\ removed' = removed \ {m}
      /\ views' = [views EXCEPT ![m] = 0] /\ downloads' = [downloads EXCEPT ![m] = 0]
      /\ items' = [i \in ItemIds |-> IF items[i].mod = m THEN NoItem ELSE items[i]]
  BY DEF DeleteMod, DropMod, DropFiles, DropItems
<1>3. /\ RequestsOK' /\ crossed \subseteq crossed' /\ req' = req
      /\ m \notin crossed' => \A s \in Requests : req[s].mod # m
  BY <1>1, <1>2, HappensAtOnce
<1>4. m # 0 /\ NoFile.mod = 0 /\ NoItem.mod = 0 /\ NoFile.count = 0
  BY ModIdsArePositive DEF NoFile, NoItem, Table
<1>5. /\ mods' \in [ModIds -> {"absent", "hidden", "public"}]
      /\ \A n \in ModIds : (Present(n)' => Present(n)) /\ (n # m => (Present(n) => Present(n)'))
  BY <1>1, <1>2 DEF TableOK, Present
<1>6. TableOK'
  <2>1. Quiet({"add"}) /\ sequence' \in 0..MaxManual
    BY <1>1, <1>2, <1>3 DEF Quiet, TableOK
  <2> QED BY <1>1, <1>3, <1>5, <2>1, TableFrame
<1>7. \A f \in FileIds :
        /\ files'[f] = IF files[f].mod = m THEN NoFile ELSE files[f]
        /\ Stored(f)' => Stored(f) /\ files'[f] = files[f]
        /\ Stored(f) /\ ~Stored(f)' => f \in left'
        /\ files'[f].count <= files[f].count
  <2>1. \A f \in FileIds : files[f].count \in Nat /\ 0 <= files[f].count
    BY <1>1 DEF FileTypes, Version, NoFile
  <2>2. \A f \in FileIds : files'[f] = IF files[f].mod = m THEN NoFile ELSE files[f]
    BY <1>2
  <2>3. \A f \in FileIds : Stored(f)' => Stored(f) /\ files'[f] = files[f]
    BY <2>2 DEF Stored
  <2>4. \A f \in FileIds : Stored(f) /\ ~Stored(f)' => f \in left'
    BY <1>2, <2>2 DEF Stored, FilesOf
  <2> QED BY <1>1, <1>4, <2>1, <2>2, <2>3, <2>4 DEF FileTypes
<1>8. FileTypes'
  <2>1. files' \in [FileIds -> Version \cup {NoFile}]
    BY <1>1, <1>2 DEF FileTypes
  <2>2. left' \subseteq FileIds /\ removed' \subseteq ModIds
    BY <1>1, <1>2 DEF FileTypes, FilesOf
  <2> QED BY <1>1, <1>2, <2>1, <2>2 DEF FileTypes
<1>9. DiskOK'
  <2>1. FilesMatch'
    BY <1>1, <1>2, <1>3, <1>7 DEF FilesMatch, Open
  <2>2. SeenMatch'
    <3>1. \A n \in ModIds : Seeing(n)' = Seeing(n)
      BY <1>3 DEF Seeing
    <3>2. \A n \in ModIds : \A r \in Seeing(n) : req[r].seen \subseteq FileIds
      BY <1>1, SeeingKinds
    <3>3. \A f \in FileIds : \A s \in Requests : Open(s, "upload", f)' <=> Open(s, "upload", f)
      BY <1>3 DEF Open
    <3> QED BY <1>1, <1>2, <1>3, <1>7, <3>1, <3>2, <3>3 DEF SeenMatch
  <2>3. DiskAndRows'
    <3>1. \A f \in FileIds : OpenOn(f)' <=> OpenOn(f)
      BY <1>3 DEF OpenOn, Open
    <3>2. left \subseteq left'
      BY <1>2
    <3> QED BY <1>1, <1>2, <1>7, <3>1, <3>2 DEF DiskAndRows
  <2> QED BY <2>1, <2>2, <2>3, MatchPartsAfter
<1>10. CurrentOK'
  <2>1. FilesOf(m)' = {} /\ CurrentOf(m)' = {}
    BY <1>4, <1>7 DEF FilesOf, CurrentOf
  <2>2. \A n \in ModIds \ {m} : FilesKeptFor(n) /\ (Present(n) => Present(n)')
                                /\ (n \in removed => n \in removed')
    <3>1. \A n \in ModIds \ {m} : n # 0
      BY ModIdsArePositive DEF Table
    <3>2. \A n \in ModIds \ {m} : FilesKeptFor(n)
      BY <1>4, <1>7, <3>1 DEF FilesKeptFor
    <3> QED BY <1>2, <1>5, <3>2
  <2>3. \A s \in Requests : req'[s] = req[s] \/ req'[s] = Idle
    BY <1>3
  <2>4. \A rs \in SUBSET (Seeing(m)') :
          Cardinality(CurrentOf(m)' \ SeenBy(rs)') + Cardinality(rs) <= Cardinality(Requests)
    BY <1>1, <2>1, <2>3, RemovalOverlap
  <2>5. Cardinality(CurrentOf(m)') <= 1 /\ (FilesOf(m)' # {} => CurrentOf(m)' # {})
    BY <2>1, FS_EmptySet
  <2>6. \A s \in Requests : req'[s] = req[s] /\ req[s].mod = m => m \in crossed'
    BY <1>3
  <2> QED BY <1>1, <1>3, <2>2, <2>3, <2>4, <2>5, <2>6, CurrentChanges
<1>11. CountsOK'
  <2>1. Quiet({"view", "download"})
    BY <1>3 DEF Quiet
  <2>2. /\ views' \in [ModIds -> Nat] /\ downloads' \in [ModIds -> Nat]
        /\ \A n \in ModIds : views'[n] <= views[n]
    BY <1>1, <1>2 DEF CountsOK
  <2> QED BY <1>1, <1>2, <1>7, <1>8, <2>1, <2>2, CountsFrame
<1>12. PlanOK'
  <2>1. \A i \in ItemIds : items'[i] = IF items[i].mod = m THEN NoItem ELSE items[i]
    BY <1>2
  <2>2. items' \in [ItemIds -> Item \cup {NoItem}]
    BY <1>1, <1>2 DEF PlanOK
  <2>3. \A n \in ModIds \ {m} : KeptFor(n)
    <3>1. \A n \in ModIds \ {m} : n # 0
      BY ModIdsArePositive DEF Table
    <3> QED BY <1>4, <2>1, <3>1 DEF KeptFor
  <2>4. \A j \in ItemIds : Listed(j)' => Listed(j) /\ items'[j].mod = items[j].mod
    BY <2>1 DEF Listed
  <2>5. \A j \in ItemIds : j > added' => ~Listed(j)'
    BY <1>1, <1>2, <2>4, PlanParts DEF PlanOK
  <2>6. ItemsOf(m)' = {}
    BY <1>4, <2>1 DEF ItemsOf, Listed
  <2>7. Apart(m)' /\ \A i \in ItemsOf(m)' : items'[i].position \in 1..added'
    BY <2>6 DEF Apart
  <2>8. /\ added' \in 0..MaxItems /\ added <= added'
        /\ given \subseteq given' /\ given' \subseteq ModIds
    BY <1>1, <1>2, ItemsAssumption DEF PlanOK
  <2>9. /\ \A s \in Requests : req'[s] = req[s] \/ req'[s] = Idle
        /\ \A s \in Requests : req'[s] = req[s] /\ req[s].mod = m => m \in crossed'
    BY <1>3
  <2> QED BY <1>1, <1>3, <2>2, <2>3, <2>4, <2>5, <2>7, <2>8, <2>9, PlanChanges
<1> QED BY <1>3, <1>6, <1>8, <1>9, <1>10, <1>11, <1>12, PartsAfter

LEMMA StutterSteps ==
  ASSUME IInv, UNCHANGED vars
  PROVE  IInv'
<1>1. /\ UNCHANGED <<mods, sequence, req, work, crossed, files, disk, uploads, left, removed,
                     views, downloads, marks, restarts, items, added, given>>
  BY DEF vars, tableVars, requestVars, fileVars, countVars, itemVars
<1>2. RequestsOK /\ TableOK
  BY Parts
<1>3. RequestsOK'
  BY <1>1, <1>2 DEF RequestsOK, Alone, Busy
<1>4. TableOK'
  <2>1. Quiet({"add"}) /\ \A m \in ModIds : Present(m)' => Present(m)
    BY <1>1 DEF Quiet, Present
  <2>2. mods' \in [ModIds -> {"absent", "hidden", "public"}] /\ sequence' \in 0..MaxManual
    BY <1>1, <1>2 DEF TableOK
  <2> QED BY <1>1, <1>2, <2>1, <2>2, TableFrame
<1>5. \A m \in ModIds : Present(m) => Present(m)'
  BY <1>1 DEF Present
<1>6. FileTypes' /\ DiskOK' /\ CurrentOK' /\ CountsOK' /\ PlanOK'
  BY <1>1, <1>3, <1>5, TableStepsRest DEF fileVars, countVars, itemVars
<1> QED BY <1>3, <1>4, <1>6, PartsAfter

LEMMA InvStep == IInv /\ [Next]_vars => IInv'
  BY TableSteps, FileSteps, CountSteps, RoadmapSteps, FailSteps, DeleteModSteps, StutterSteps
     DEF Next

-----------------------------------------------------------------------------
(* Moves: two items change places.                                         *)

\* The items of S shown before i, by the positions p and then by id.
Earlier(S, p, i) == {j \in S : p[j] < p[i] \/ (p[j] = p[i] /\ j < i)}

LEMMA EarlierIsFinite ==
  ASSUME NEW S, IsFiniteSet(S), NEW p, NEW i
  PROVE  IsFiniteSet(Earlier(S, p, i)) /\ Cardinality(Earlier(S, p, i)) \in Nat
<1>1. Earlier(S, p, i) \subseteq S
  BY DEF Earlier
<1> QED BY <1>1, FS_Subset, FS_CardinalityType

\* No two items of S have one position.
Different(S, p) == \A j, k \in S : p[j] = p[k] => j = k

\* i and n, d places apart, change places if positions are apart.
Exchanged(S, p, q, i, n, d) ==
  Different(S, p) =>
    /\ Cardinality(Earlier(S, q, i)) = Cardinality(Earlier(S, p, n))
    /\ Cardinality(Earlier(S, q, n)) = Cardinality(Earlier(S, p, i))
    /\ Cardinality(Earlier(S, p, i)) - Cardinality(Earlier(S, p, n)) = d

\* i takes the position of n, the last one before it, and n takes the position
\* of i: i comes earlier, and if positions are apart, by one place.
LEMMA ChangePlaces ==
  ASSUME NEW S, IsFiniteSet(S), S \subseteq Nat, NEW p \in [S -> Nat], NEW q \in [S -> Nat],
         NEW i \in S, NEW n \in S, p[n] < p[i], \A j \in S : p[j] < p[i] => p[j] <= p[n],
         q[i] = p[n], q[n] = p[i], \A j \in S \ {i, n} : q[j] = p[j]
  PROVE  /\ Cardinality(Earlier(S, q, i)) < Cardinality(Earlier(S, p, i))
         /\ Exchanged(S, p, q, i, n, 1)
<1>0. i \in Nat /\ \A j \in S : j \in Nat /\ p[j] \in Nat /\ q[j] \in Nat
  OBVIOUS
<1>1. Cardinality(Earlier(S, q, i)) < Cardinality(Earlier(S, p, i))
  <2>1. Earlier(S, q, i) \subseteq Earlier(S, p, i)
    <3> SUFFICES ASSUME NEW j \in S, q[j] < q[i] \/ (q[j] = q[i] /\ j < i)
                 PROVE  p[j] < p[i]
      BY DEF Earlier
    <3>1. j # n /\ j # i
      BY <1>0
    <3> QED BY <1>0, <3>1
  <2>2. n \in Earlier(S, p, i) /\ n \notin Earlier(S, q, i)
    BY <1>0 DEF Earlier
  <2>3. IsFiniteSet(Earlier(S, p, i)) /\ Cardinality(Earlier(S, p, i)) \in Nat
    BY EarlierIsFinite
  <2>4. IsFiniteSet(Earlier(S, q, i)) /\ Cardinality(Earlier(S, q, i)) \in Nat
    BY EarlierIsFinite
  <2>5. /\ Cardinality(Earlier(S, q, i)) <= Cardinality(Earlier(S, p, i))
        /\ Cardinality(Earlier(S, q, i)) = Cardinality(Earlier(S, p, i))
           => Earlier(S, q, i) = Earlier(S, p, i)
    BY <2>1, <2>3, FS_Subset
  <2> QED BY <2>2, <2>3, <2>4, <2>5
<1>2. ASSUME Different(S, p)
      PROVE  /\ Cardinality(Earlier(S, q, i)) = Cardinality(Earlier(S, p, n))
             /\ Cardinality(Earlier(S, q, n)) = Cardinality(Earlier(S, p, i))
             /\ Cardinality(Earlier(S, p, i)) - Cardinality(Earlier(S, p, n)) = 1
  <2>1. ASSUME NEW j \in S
        PROVE  /\ (j \in Earlier(S, p, n)) <=> (p[j] < p[n])
               /\ (j \in Earlier(S, p, i)) <=> (p[j] < p[n] \/ j = n)
               /\ (j \in Earlier(S, q, i)) <=> (p[j] < p[n])
               /\ (j \in Earlier(S, q, n)) <=> (p[j] < p[n] \/ j = i)
    <3> SUFFICES
          /\ (p[j] < p[n] \/ (p[j] = p[n] /\ j < n)) <=> (p[j] < p[n])
          /\ (p[j] < p[i] \/ (p[j] = p[i] /\ j < i)) <=> (p[j] < p[n] \/ j = n)
          /\ (q[j] < q[i] \/ (q[j] = q[i] /\ j < i)) <=> (p[j] < p[n])
          /\ (q[j] < q[n] \/ (q[j] = q[n] /\ j < n)) <=> (p[j] < p[n] \/ j = i)
      BY DEF Earlier
    <3>1. CASE j = i
      BY <1>0, <3>1
    <3>2. CASE j = n
      BY <1>0, <3>2
    <3>3. CASE j # i /\ j # n
      <4>1. q[j] = p[j] /\ p[j] # p[i] /\ p[j] # p[n]
        BY <1>2, <3>3 DEF Different
      <4> QED BY <1>0, <3>3, <4>1
    <3> QED BY <3>1, <3>2, <3>3
  <2>2. /\ Earlier(S, p, n) \subseteq S /\ Earlier(S, p, i) \subseteq S
        /\ Earlier(S, q, i) \subseteq S /\ Earlier(S, q, n) \subseteq S
    BY DEF Earlier
  <2>3. /\ Earlier(S, q, i) = Earlier(S, p, n)
        /\ Earlier(S, p, i) = Earlier(S, p, n) \cup {n}
        /\ Earlier(S, q, n) = Earlier(S, p, n) \cup {i}
    BY <2>1, <2>2
  <2>4. i \notin Earlier(S, p, n) /\ n \notin Earlier(S, p, n)
    BY <1>0 DEF Earlier
  <2>5. IsFiniteSet(Earlier(S, p, n)) /\ Cardinality(Earlier(S, p, n)) \in Nat
    BY EarlierIsFinite
  <2>6. Cardinality(Earlier(S, p, i)) = Cardinality(Earlier(S, p, n)) + 1
    BY <2>3, <2>4, <2>5, FS_AddElement
  <2>7. Cardinality(Earlier(S, q, n)) = Cardinality(Earlier(S, p, n)) + 1
    BY <2>3, <2>4, <2>5, FS_AddElement
  <2> QED BY <2>3, <2>5, <2>6, <2>7
<1> QED BY <1>1, <1>2 DEF Exchanged

\* i takes the position of n, the first one after it: the same, backwards.
LEMMA ChangePlacesDown ==
  ASSUME NEW S, IsFiniteSet(S), S \subseteq Nat, NEW p \in [S -> Nat], NEW q \in [S -> Nat],
         NEW i \in S, NEW n \in S, p[n] > p[i], \A j \in S : p[j] > p[i] => p[j] >= p[n],
         q[i] = p[n], q[n] = p[i], \A j \in S \ {i, n} : q[j] = p[j]
  PROVE  /\ Cardinality(Earlier(S, q, i)) > Cardinality(Earlier(S, p, i))
         /\ Exchanged(S, p, q, i, n, -1)
<1>0. /\ p[i] = q[n] /\ p[n] = q[i] /\ q[n] < q[i] /\ \A j \in S \ {i, n} : p[j] = q[j]
      /\ \A j \in S : p[j] \in Nat /\ q[j] \in Nat
  OBVIOUS
<1>1. \A j \in S : q[j] < q[i] => q[j] <= q[n]
  <2> SUFFICES ASSUME NEW j \in S, q[j] < q[i] PROVE q[j] <= q[n]
    OBVIOUS
  <2>1. CASE j = i \/ j = n
    BY <1>0, <2>1
  <2>2. CASE j # i /\ j # n
    <3>1. q[j] = p[j] /\ p[j] < p[n]
      BY <1>0, <2>2
    <3> QED BY <1>0, <3>1
  <2> QED BY <2>1, <2>2
<1>2. Different(S, p) => Different(S, q)
  <2> SUFFICES ASSUME Different(S, p),
                      NEW j \in S, NEW k \in S, q[j] = q[k]
               PROVE  j = k
    BY DEF Different
  <2>1. CASE j \in {i, n} /\ k \in {i, n}
    BY <1>0, <2>1 DEF Different
  <2>2. CASE j \in {i, n} /\ k \notin {i, n}
    BY <1>0, <2>2 DEF Different
  <2>3. CASE j \notin {i, n}
    BY <1>0, <2>3 DEF Different
  <2> QED BY <2>1, <2>2, <2>3
<1>3. /\ Cardinality(Earlier(S, p, i)) < Cardinality(Earlier(S, q, i))
      /\ Exchanged(S, q, p, i, n, 1)
  BY <1>0, <1>1, ChangePlaces
<1>4. /\ Cardinality(Earlier(S, p, i)) \in Nat /\ Cardinality(Earlier(S, p, n)) \in Nat
      /\ Cardinality(Earlier(S, q, i)) \in Nat /\ Cardinality(Earlier(S, q, n)) \in Nat
  BY EarlierIsFinite
<1> QED BY <1>2, <1>3, <1>4 DEF Exchanged

LEMMA ItemIdsAreFinite == IsFiniteSet(ItemIds)
  BY ItemsAssumption, FS_Interval DEF ItemIds

\* Only the commit of a move ends it with the roadmap changed.
LEMMA MoveEnds ==
  ASSUME IInv, Next, NEW r \in Requests, req[r].op = "move", req'[r] = Idle, items' # items
  PROVE  MoveCommit(r)
<1>1. req'[r] # req[r] /\ req \in [Requests -> Request]
  BY Parts DEF Idle, RequestsOK
<1>2. UNCHANGED itemVars => items' = items
  BY DEF itemVars
<1>3. PICK s \in Requests : RoadmapStep(s)
  <2>1. ASSUME NEW m \in ModIds, DeleteMod(m) PROVE FALSE
    BY <1>1, <2>1 DEF DeleteMod, DropMod, AtOnce
  <2>2. ASSUME NEW s \in Requests,
               TableStep(s) \/ FileStep(s) \/ CountStep(s) \/ (Fail(s) /\ UNCHANGED itemVars)
        PROVE  FALSE
    BY <1>2, <2>2 DEF TableStep, FileStep, CountStep
  <2> QED BY <2>1, <2>2 DEF Next
<1>4. ASSUME s # r, End(s) PROVE FALSE
  BY <1>1, <1>4 DEF End, Continue
<1>5. ASSUME NEW m, AtOnce(m) PROVE FALSE
  BY <1>1, <1>5 DEF AtOnce
<1>6. ~AddItemCommit(s)
  BY <1>4 DEF AddItemCommit
<1>7. \A m \in ModIds : ~AddItemBegin(s, m) /\ ~CreateItem(m)
  BY <1>2, <1>5 DEF AddItemBegin, CreateItem
<1>8. \A i \in ItemIds : /\ ~UpdateItem(i) /\ ~DeleteItem(i)
                          /\ \A up \in BOOLEAN : ~MoveBegin(s, i, up)
  BY <1>2, <1>5 DEF UpdateItem, DeleteItem, MoveBegin
<1>9. ~MoveFind(s)
  BY <1>2 DEF MoveFind
<1>10. MoveCommit(s)
  BY <1>3, <1>6, <1>7, <1>8, <1>9 DEF RoadmapStep
<1> QED BY <1>4, <1>10 DEF MoveCommit

\* A move alone writes the two items it has read, and they are neighbours.
LEMMA MoveWrites ==
  ASSUME IInv, NEW r \in Requests, MoveCommit(r), items' # items, req[r].mod \notin crossed,
         NEW i \in ItemIds, NEW n \in ItemIds, NEW m \in ModIds,
         i = req[r].item, n = req[r].neighbour, m = req[r].mod
  PROVE  /\ i # n /\ i \in ItemsOf(m) /\ n \in ItemsOf(m)
         /\ IF req[r].up
            THEN /\ items[n].position < items[i].position
                 /\ \A j \in ItemsOf(m) : items[j].position < items[i].position
                                          => items[j].position <= items[n].position
            ELSE /\ items[n].position > items[i].position
                 /\ \A j \in ItemsOf(m) : items[j].position > items[i].position
                                          => items[j].position >= items[n].position
         /\ items'[i].position = items[n].position /\ items'[n].position = items[i].position
         /\ items'[i].mod = m /\ items'[n].mod = m
         /\ \A j \in ItemIds \ {i, n} : items'[j] = items[j]
         /\ ItemsOf(m)' = ItemsOf(m)
<1>1. PlanOK /\ RequestsOK /\ SoloPlan(r) /\ Matches(r)
  BY Parts, PlanParts DEF PlanOK
<1>2. /\ req[r].op = "move" /\ req[r].stage = "found"
      /\ items' = IF i = n THEN items
                  ELSE [j \in ItemIds |->
                         IF j = i /\ Listed(i) THEN [items[i] EXCEPT !.position = req[r].to]
                         ELSE IF j = n /\ Listed(n) THEN [items[n] EXCEPT !.position = req[r].at]
                         ELSE items[j]]
  BY DEF MoveCommit
<1>3. /\ Listed(i) /\ items[i].position = req[r].at /\ n \in Neighbours(r)
      /\ items[n].position = req[r].to /\ items[i].mod = m
  BY <1>1, <1>2 DEF SoloPlan, Matches
<1>4. n \in ItemsOf(m) /\ Listed(n) /\ items[n].mod = m /\ i \in ItemsOf(m)
  BY <1>3 DEF Neighbours, Above, Below, ItemsOf
<1>5. i # n
  BY <1>2
<1>6. IF req[r].up
      THEN /\ items[n].position < items[i].position
           /\ \A j \in ItemsOf(m) : items[j].position < items[i].position
                                    => items[j].position <= items[n].position
      ELSE /\ items[n].position > items[i].position
           /\ \A j \in ItemsOf(m) : items[j].position > items[i].position
                                    => items[j].position >= items[n].position
  BY <1>3 DEF Neighbours, Above, Below
<1>7. items[i] \in Item /\ items[n] \in Item /\ req[r].at \in Nat /\ req[r].to \in Nat
  BY <1>1, <1>3, <1>4, PositionsAreNat DEF PlanOK, Listed
<1>8. /\ items'[i] = [items[i] EXCEPT !.position = req[r].to]
      /\ items'[n] = [items[n] EXCEPT !.position = req[r].at]
      /\ \A j \in ItemIds \ {i, n} : items'[j] = items[j]
  BY <1>2, <1>3, <1>4, <1>5
<1>9. /\ items'[i].position = items[n].position /\ items'[n].position = items[i].position
      /\ items'[i].mod = m /\ items'[n].mod = m
  BY <1>3, <1>4, <1>7, <1>8 DEF Item
<1>10. ItemsOf(m)' = ItemsOf(m)
  <2>1. Listed(i)' /\ Listed(n)'
    BY <1>9, ModIdsArePositive DEF Listed, NoItem, Table
  <2> SUFFICES ASSUME NEW j \in ItemIds
               PROVE  Listed(j)' /\ items'[j].mod = m <=> Listed(j) /\ items[j].mod = m
    BY DEF ItemsOf
  <2>2. CASE j \in {i, n}
    BY <1>3, <1>4, <1>9, <2>1, <2>2
  <2>3. CASE j \notin {i, n}
    BY <1>8, <2>3 DEF Listed
  <2> QED BY <2>2, <2>3
<1> QED BY <1>4, <1>5, <1>6, <1>8, <1>9, <1>10

-----------------------------------------------------------------------------
(* What follows for every behaviour.                                       *)

\* The disk, current versions, counters, positions and bulk calls stay as
\* requests in progress know them (mod_files.py:34-59, admin.py:465-531,
\* 572-650, admin_api.py:122-216, 284-344, public.py:192-196, 261-282).
THEOREM Invariance == Spec => []IInv
  BY Initially, InvStep, PTL DEF Spec

\* A mod with versions has one current version, unless requests overlapped or
\* a version was deleted, and never more than requests (admin.py:469-492,
\* 506-512, admin_api.py:291-308, 322-328).
THEOREM CurrentVersions == Spec => []CurrentFiles
<1>1. IInv => CurrentFiles
  BY DEF IInv
<1> QED BY <1>1, Invariance, PTL

LEMMA HonestCounts == IInv => CountsAreHonest
<1> SUFFICES ASSUME IInv PROVE CountsAreHonest
  OBVIOUS
<1>1. FileTypes /\ CountsOK /\ restarts \in Nat
  BY Parts, FilesAssumption DEF CountsOK
<1>2. ASSUME NEW what, NEW n \in Nat, RoomToCount(what, n)
      PROVE  n <= Cardinality(Replicas) + restarts
  <2>1. n + Cardinality(Counting(what)) <= Cardinality(Marked(what)) + restarts
    BY <1>2 DEF RoomToCount
  <2>2. Cardinality(Counting(what)) \in Nat
    BY CountingIsFinite
  <2>3. Cardinality(Marked(what)) \in Nat /\ Cardinality(Marked(what)) <= Cardinality(Replicas)
    BY MarkedIsFinite
  <2>4. Cardinality(Replicas) \in Nat
    BY ReplicasAssumption, FS_CardinalityType
  <2> QED BY <1>1, <1>2, <2>1, <2>2, <2>3, <2>4
<1>3. \A m \in ModIds : views[m] \in Nat /\ RoomToCount(<<"view", m>>, views[m])
  BY <1>1 DEF CountsOK, CountsMatch
<1>4. \A f \in FileIds : files[f].count \in Nat /\ RoomToCount(<<"file", f>>, files[f].count)
  <2>1. \A f \in FileIds : files[f].count \in Nat
    BY <1>1 DEF FileTypes, Version, NoFile
  <2>2. \A f \in FileIds : RoomToCount(<<"file", f>>, files[f].count)
    BY <1>1 DEF CountsOK, CountsMatch
  <2> QED BY <2>1, <2>2
<1> QED BY <1>2, <1>3, <1>4 DEF CountsAreHonest

\* Each visitor of a mod, or of a version, is counted at most once by each
\* process in each of its lives (cache.py:42-55, public.py:192-196, 272-275).
THEOREM HonestCounters == Spec => []CountsAreHonest
  BY HonestCounts, Invariance, PTL

\* The form's items have positions of their own, and none beyond the number of
\* items (admin.py:572-584, 624-650).
THEOREM PositionsOfTheirOwn == Spec => []PositionsApart
<1>1. IInv => PositionsApart
  BY DEF IInv
<1> QED BY <1>1, Invariance, PTL

\* A bulk call that is alone never inserts a row that is there
\* (admin_api.py:184-214).
THEOREM LoneBatches == Spec => []LoneBatchFits
<1>1. IInv => LoneBatchFits
  BY DEF IInv
<1> QED BY <1>1, Invariance, PTL

LEMMA MoveStep ==
  ASSUME IInv, [Next]_vars, NEW r \in Requests, NEW i \in ItemIds, NEW n \in ItemIds,
         req[r].op = "move", req[r].stage = "found", req'[r] = Idle, items' # items,
         req[r].item = i, req[r].neighbour = n, req[r].mod \notin crossed
  PROVE  /\ IF req[r].up THEN Rank(i)' < Rank(i) ELSE Rank(i)' > Rank(i)
         /\ Apart(req[r].mod) =>
              /\ Rank(i)' = Rank(n) /\ Rank(n)' = Rank(i)
              /\ Rank(i) - Rank(n) = IF req[r].up THEN 1 ELSE -1
              /\ \A j \in ItemIds \ {i, n} : items'[j] = items[j]
<1>1. MoveCommit(r)
  BY MoveEnds DEF vars, itemVars
<1>2. RequestsOK /\ PlanOK
  BY Parts
<1>3. PICK m \in ModIds : m = req[r].mod
  BY <1>2, Kinds DEF RequestsOK
<1>4. PICK up \in BOOLEAN : up = req[r].up
  BY <1>2, Kinds, RoadmapKinds DEF RequestsOK
<1>5. PICK S : S = ItemsOf(m)
  OBVIOUS
<1>6. PICK p : p = [j \in S |-> items[j].position]
  OBVIOUS
<1>7. PICK q : q = [j \in S |-> items'[j].position]
  OBVIOUS
<1>8. /\ i # n /\ i \in S /\ n \in S
      /\ IF up
         THEN /\ items[n].position < items[i].position
              /\ \A j \in S : items[j].position < items[i].position
                              => items[j].position <= items[n].position
         ELSE /\ items[n].position > items[i].position
              /\ \A j \in S : items[j].position > items[i].position
                              => items[j].position >= items[n].position
      /\ items'[i].position = items[n].position /\ items'[n].position = items[i].position
      /\ items'[i].mod = m /\ items'[n].mod = m
      /\ \A j \in ItemIds \ {i, n} : items'[j] = items[j]
      /\ ItemsOf(m)' = S
  BY <1>1, <1>3, <1>4, <1>5, MoveWrites
<1>9. /\ IsFiniteSet(S) /\ S \subseteq Nat /\ S \subseteq ItemIds
      /\ items[i].mod = m /\ items[n].mod = m
  <2>1. S \subseteq ItemIds /\ \A j \in S : items[j].mod = m
    BY <1>5 DEF ItemsOf
  <2>2. IsFiniteSet(S)
    BY <2>1, ItemIdsAreFinite, FS_Subset
  <2>3. S \subseteq Nat
    BY <2>1 DEF ItemIds
  <2> QED BY <1>8, <2>1, <2>2, <2>3
<1>10. p \in [S -> Nat] /\ \A j \in S : p[j] = items[j].position
  BY <1>2, <1>6, <1>9, PositionsAreNat
<1>11. /\ q[i] = p[n] /\ q[n] = p[i] /\ \A j \in S \ {i, n} : q[j] = p[j]
       /\ \A j \in S : q[j] = items'[j].position
  BY <1>6, <1>7, <1>8, <1>9
<1>12. q \in [S -> Nat]
  <2>1. \A j \in S : q[j] \in Nat
    BY <1>8, <1>10, <1>11
  <2> QED BY <1>7, <2>1
<1>13. /\ Rank(i) = Cardinality(Earlier(S, p, i)) /\ Rank(n) = Cardinality(Earlier(S, p, n))
       /\ Rank(i)' = Cardinality(Earlier(S, q, i)) /\ Rank(n)' = Cardinality(Earlier(S, q, n))
  <2>1. ASSUME NEW k \in S
        PROVE  /\ {j \in S : Before(j, k)} = Earlier(S, p, k)
               /\ {j \in S : Before(j, k)'} = Earlier(S, q, k)
    BY <1>10, <1>11 DEF Before, Earlier
  <2>2. ItemsOf(items[i].mod) = S /\ ItemsOf(items[n].mod) = S
    BY <1>5, <1>9
  <2>3. ItemsOf(items[i].mod)' = S /\ ItemsOf(items[n].mod)' = S
    BY <1>8 DEF ItemsOf
  <2> QED BY <1>8, <2>1, <2>2, <2>3 DEF Rank
<1>14. Apart(m) => Different(S, p)
  BY <1>5, <1>10 DEF Apart, Different
<1>15. \A k \in S : /\ Cardinality(Earlier(S, p, k)) \in Nat
                    /\ Cardinality(Earlier(S, q, k)) \in Nat
  BY <1>9, EarlierIsFinite
<1>16. CASE up
  <2>1. p[n] < p[i] /\ \A j \in S : p[j] < p[i] => p[j] <= p[n]
    BY <1>8, <1>10, <1>16
  <2>2. /\ Cardinality(Earlier(S, q, i)) < Cardinality(Earlier(S, p, i))
        /\ Apart(m) => /\ Cardinality(Earlier(S, q, i)) = Cardinality(Earlier(S, p, n))
                       /\ Cardinality(Earlier(S, q, n)) = Cardinality(Earlier(S, p, i))
                       /\ Cardinality(Earlier(S, p, i)) - Cardinality(Earlier(S, p, n)) = 1
    <3>1. /\ IsFiniteSet(S) /\ S \subseteq Nat /\ i \in S /\ n \in S
          /\ p \in [S -> Nat] /\ q \in [S -> Nat]
          /\ q[i] = p[n] /\ q[n] = p[i] /\ \A j \in S \ {i, n} : q[j] = p[j]
      BY <1>8, <1>9, <1>10, <1>11, <1>12
    <3>2. Exchanged(S, p, q, i, n, 1)
      BY <2>1, <3>1, ChangePlaces
    <3>3. Cardinality(Earlier(S, q, i)) < Cardinality(Earlier(S, p, i))
      BY <2>1, <3>1, ChangePlaces
    <3> QED BY <1>14, <3>2, <3>3 DEF Exchanged
  <2> QED BY <1>3, <1>4, <1>8, <1>13, <1>16, <2>2
<1>17. CASE ~up
  <2>1. p[n] > p[i] /\ \A j \in S : p[j] > p[i] => p[j] >= p[n]
    BY <1>8, <1>10, <1>17
  <2>2. /\ Cardinality(Earlier(S, q, i)) > Cardinality(Earlier(S, p, i))
        /\ Apart(m) => /\ Cardinality(Earlier(S, q, i)) = Cardinality(Earlier(S, p, n))
                       /\ Cardinality(Earlier(S, q, n)) = Cardinality(Earlier(S, p, i))
                       /\ Cardinality(Earlier(S, p, i)) - Cardinality(Earlier(S, p, n)) = -1
    <3>1. /\ IsFiniteSet(S) /\ S \subseteq Nat /\ i \in S /\ n \in S
          /\ p \in [S -> Nat] /\ q \in [S -> Nat]
          /\ q[i] = p[n] /\ q[n] = p[i] /\ \A j \in S \ {i, n} : q[j] = p[j]
      BY <1>8, <1>9, <1>10, <1>11, <1>12
    <3>2. Exchanged(S, p, q, i, n, -1)
      BY <2>1, <3>1, ChangePlacesDown
    <3>3. Cardinality(Earlier(S, q, i)) > Cardinality(Earlier(S, p, i))
      BY <2>1, <3>1, ChangePlacesDown
    <3> QED BY <1>14, <3>2, <3>3 DEF Exchanged
  <2> QED BY <1>3, <1>4, <1>8, <1>13, <1>17, <2>2
<1> QED BY <1>16, <1>17

\* A move alone takes the item the way it was asked to; when positions are
\* apart it changes places with the item next to it and with no other
\* (admin.py:624-650).
THEOREM MovesSwapNeighbours == Spec => MovesAreSwaps
<1>1. ASSUME IInv, [Next]_vars
      PROVE  \A r \in Requests, i, n \in ItemIds :
               /\ req[r].op = "move" /\ req[r].stage = "found" /\ req'[r] = Idle /\ items' # items
               /\ req[r].item = i /\ req[r].neighbour = n
               /\ req[r].mod \notin crossed
               => /\ IF req[r].up THEN Rank(i)' < Rank(i) ELSE Rank(i)' > Rank(i)
                  /\ Apart(req[r].mod) =>
                       /\ Rank(i)' = Rank(n) /\ Rank(n)' = Rank(i)
                       /\ Rank(i) - Rank(n) = IF req[r].up THEN 1 ELSE -1
                       /\ \A j \in ItemIds \ {i, n} : items'[j] = items[j]
  BY <1>1, MoveStep
<1> QED BY <1>1, Invariance, PTL DEF Spec, MovesAreSwaps
=============================================================================
