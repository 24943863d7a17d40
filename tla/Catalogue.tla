----------------------------- MODULE Catalogue -----------------------------
(***************************************************************************)
(* The catalogue: mods, their file versions, their counters and their      *)
(* roadmaps, worked on by overlapping requests.  A deleted mod takes its   *)
(* versions' rows and its roadmap with it.                                 *)
(***************************************************************************)
EXTENDS ModFiles, Roadmap

vars == <<tableVars, requestVars, fileVars, countVars, itemVars>>

Request == {Idle} \cup AddRequest \cup FileRequest \cup CountRequest \cup RoadmapRequest

TypeOK ==
  /\ mods \in [ModIds -> {"absent", "hidden", "public"}]
  /\ sequence \in 0..MaxManual
  /\ req \in [Requests -> Request]
  /\ work \in 0..MaxWork
  /\ crossed \subseteq ModIds \cup {Table}
  /\ files \in [FileIds -> Version \cup {NoFile}]
  /\ disk \in [FileIds -> {"none", "partial", "whole"}]
  /\ uploads \in 0..MaxFiles
  /\ left \subseteq FileIds
  /\ removed \subseteq ModIds
  /\ views \in [ModIds -> Nat] /\ downloads \in [ModIds -> Nat]
  /\ marks \in [Replicas -> SUBSET ({"view"} \X ModIds \cup {"file"} \X FileIds)]
  /\ restarts \in 0..MaxRestarts
  /\ items \in [ItemIds -> Item \cup {NoItem}]
  /\ added \in 0..MaxItems
  /\ given \subseteq ModIds

Init == TableInit /\ FilesInit /\ RoadmapInit

\* delete_mod, by form and by API key.
DeleteMod(m) == DropMod(m) /\ DropFiles(m) /\ DropItems(m)

TableStep(r) ==
  /\ \/ AddMod(r) \/ BulkCreate(r) \/ AddManual(r)
     \/ Look(r) \/ Insert(r) \/ CommitAdditions(r) \/ Deadlocked(r)
     \/ \E m \in ModIds : UpdateMod(m)
  /\ UNCHANGED <<fileVars, countVars, itemVars>>

FileStep(r) ==
  /\ \/ \E m \in ModIds : UploadBegin(r, m)
     \/ UploadStops(r) \/ UploadSaved(r) \/ UploadCommit(r)
     \/ \E f \in FileIds : SetCurrentBegin(r, f)
     \/ SetCurrentRead(r) \/ SetCurrentCommit(r)
     \/ \E f \in FileIds : DeleteFileBegin(r, f)
     \/ DeleteFileCommit(r)
  /\ UNCHANGED itemVars

CountStep(r) ==
  /\ \/ \E p \in Replicas, m \in ModIds : View(r, p, m) \/ Download(r, p, m)
     \/ ViewCommit(r)
     \/ \E f \in FileIds : Serve(r, f)
     \/ ServeNothing(r) \/ DownloadCommit(r)
     \/ \E p \in Replicas : Restart(p)
  /\ UNCHANGED itemVars

RoadmapStep(r) ==
  /\ \/ \E m \in ModIds : AddItemBegin(r, m) \/ CreateItem(m)
     \/ AddItemCommit(r)
     \/ \E i \in ItemIds : UpdateItem(i) \/ DeleteItem(i)
     \/ \E i \in ItemIds, up \in BOOLEAN : MoveBegin(r, i, up)
     \/ MoveFind(r) \/ MoveCommit(r)
  /\ UNCHANGED <<fileVars, countVars>>

Next ==
  \/ \E r \in Requests : TableStep(r) \/ FileStep(r) \/ CountStep(r) \/ RoadmapStep(r)
  \/ \E r \in Requests : Fail(r) /\ UNCHANGED itemVars
  \/ \E m \in ModIds : DeleteMod(m)

\* A request goes on until it ends; PostgreSQL ends deadlocks.
Fairness ==
  \A r \in Requests :
    WF_vars((Look(r) \/ Insert(r) \/ CommitAdditions(r) \/ Deadlocked(r))
            /\ UNCHANGED <<fileVars, countVars, itemVars>>)

Spec == Init /\ [][Next]_vars /\ Fairness

-----------------------------------------------------------------------------

\* A call that looks before it adds meets a row of its own or of another only
\* when additions overlapped.
LoneBatchFits ==
  \A r \in Requests :
    (req[r].op = "add" /\ req[r].looks /\ Table \notin crossed)
    => \A m \in req[r].adding : ~Present(m) /\ m \notin req[r].made

\* Alone a bulk call never fails, and calls that wait for each other's rows
\* all end (admin_api.py:122-216).
BatchesEnd ==
  /\ []LoneBatchFits
  /\ \A r \in Requests : req[r].op = "add" ~> req[r].op # "add"

\* Requests that did not overlap leave a mod with versions one current one,
\* unless a version was deleted; those that did leave as many as overlapped
\* (admin.py:469-492, 506-512, admin_api.py:291-308, 322-328).
CurrentFiles ==
  \A m \in ModIds :
    /\ Cardinality(CurrentOf(m)) <= Cardinality(Requests)
    /\ m \notin crossed =>
         /\ Cardinality(CurrentOf(m)) <= 1
         /\ FilesOf(m) # {} /\ m \notin removed => CurrentOf(m) # {}

Open(r, op, f) == req[r].op = op /\ req[r].file = f
OpenOn(f) == \E r \in Requests : Open(r, "upload", f) \/ Open(r, "remove", f)

\* A version has its whole file and a file has its version, except while an
\* upload or a deletion is going on, or after one ended in between, or after
\* the mod was deleted.
DiskAndRows ==
  \A f \in FileIds :
    \/ IF Stored(f) THEN disk[f] = "whole" ELSE disk[f] = "none"
    \/ OpenOn(f)
    \/ f \in left

\* Requests that have read which versions are current.
Seeing(m) ==
  {r \in Requests :
     /\ req[r].mod = m
     /\ \/ req[r].op = "upload" /\ req[r].stage = "saved"
        \/ req[r].op = "choose" /\ req[r].stage = "read"}
SeenBy(rs) == UNION {req[r].seen : r \in rs}

\* What requests know of the file they work on and of those they have seen.
RequestsMatch ==
  /\ \A f \in FileIds : f > uploads => ~Stored(f) /\ disk[f] = "none"
  /\ \A r \in Requests, f \in FileIds : f > uploads =>
       ~Open(r, "upload", f) /\ ~Open(r, "remove", f) /\ ~Open(r, "choose", f)
  /\ \A r \in Requests, f \in FileIds : Open(r, "upload", f) =>
       /\ ~Stored(f)
       /\ req[r].stage = "saved" => disk[f] = "whole"
       /\ \A s \in Requests \ {r} :
            ~Open(s, "upload", f) /\ ~Open(s, "remove", f) /\ ~Open(s, "choose", f)
  /\ \A r \in Requests, f \in FileIds : Open(r, "remove", f) => disk[f] = "none"
  /\ \A r \in Requests, f \in FileIds :
       (Open(r, "choose", f) \/ Open(r, "remove", f)) /\ Stored(f) => files[f].mod = req[r].mod
  /\ \A m \in ModIds : \A r \in Seeing(m) : \A f \in req[r].seen :
       /\ f <= uploads
       /\ Stored(f) => files[f].mod = m
       /\ \A s \in Requests : ~Open(s, "upload", f)

\* Requests of one mod overlap only where the history says so.
Alone ==
  \A r, s \in Requests :
    r # s /\ Busy(r) /\ req[r].mod = req[s].mod => req[r].mod \in crossed

\* What a request alone on its mod has read is still so.
SoloReads ==
  \A r \in Requests : req[r].mod \notin crossed =>
    /\ r \in Seeing(req[r].mod) => req[r].seen = CurrentOf(req[r].mod)
    /\ req[r].op = "upload" => Present(req[r].mod)
    /\ req[r].op = "choose" => Stored(req[r].file) /\ req[r].was = files[req[r].file].current

\* Of the versions that some requests have not seen, there are no more than
\* there are other requests to have chosen them.
OverlapBound ==
  \A m \in ModIds : \A rs \in SUBSET Seeing(m) :
    Cardinality(CurrentOf(m) \ SeenBy(rs)) + Cardinality(rs) <= Cardinality(Requests)

\* Of one visitor, the views of a mod and the downloads of a version are no
\* more than the processes that could count them, each once in its life: with
\* two replicas and no restart the "at most twice" of cache.py:46-48
\* (public.py:192-196, 272-274).  The total of a mod is not bounded here.
CountsAreHonest ==
  /\ \A m \in ModIds : views[m] <= Cardinality(Replicas) + restarts
  /\ \A f \in FileIds : files[f].count <= Cardinality(Replicas) + restarts

\* The requests that will count what they marked, and the processes that
\* remember the mark.
Counted(r) == IF req[r].op = "view" THEN <<"view", req[r].mod>> ELSE <<"file", req[r].file>>
Counting(what) ==
  {r \in Requests :
     /\ req[r].op = "view" \/ (req[r].op = "download" /\ req[r].stage = "file")
     /\ Counted(r) = what}
Marked(what) == {p \in Replicas : what \in marks[p]}

\* n, and what any request is about to add to, leave room for all who count.
RoomToCount(what, n) ==
  \A k \in {n} \cup {req[r].count : r \in Counting(what)} :
    k + Cardinality(Counting(what)) <= Cardinality(Marked(what)) + restarts
CountsMatch ==
  /\ \A m \in ModIds : RoomToCount(<<"view", m>>, views[m])
  /\ \A f \in FileIds : RoomToCount(<<"file", f>>, files[f].count)

-----------------------------------------------------------------------------

Apart(m) ==
  \A i, j \in ItemsOf(m) : items[i].position = items[j].position => i = j

\* Items added at the end by one request at a time have positions of their
\* own, whatever is moved and deleted; overlapping requests give items one
\* position, but none beyond the number of items (admin.py:572-584, 624-650).
PositionsApart ==
  \A m \in ModIds \ given :
    /\ m \notin crossed => Apart(m)
    /\ \A i \in ItemsOf(m) : items[i].position \in 1..added

\* Items keep their mod, and requests hold positions that were given to items.
ItemsMatch ==
  /\ \A i \in ItemIds : i > added => ~Listed(i)
  /\ \A r \in Requests : req[r].op = "append" =>
       req[r].mod \in given \/ req[r].position <= added
  /\ \A r \in Requests : req[r].op = "move" =>
       /\ req[r].item <= added
       /\ Listed(req[r].item) => items[req[r].item].mod = req[r].mod
       /\ req[r].mod \in given \/ req[r].at \in 1..added
  /\ \A r \in Requests : req[r].op = "move" /\ req[r].stage = "found" =>
       /\ req[r].neighbour <= added
       /\ Listed(req[r].neighbour) => items[req[r].neighbour].mod = req[r].mod
       /\ req[r].mod \in given \/ req[r].to \in 1..added

\* What a request alone on its roadmap has read is still so.
SoloMoves ==
  \A r \in Requests : req[r].mod \notin crossed =>
    /\ req[r].op = "append" =>
         \A i \in ItemsOf(req[r].mod) : items[i].position <= req[r].position
    /\ req[r].op = "move" =>
         Listed(req[r].item) /\ items[req[r].item].position = req[r].at
    /\ req[r].op = "move" /\ req[r].stage = "found" =>
         req[r].neighbour \in Neighbours(r) /\ items[req[r].neighbour].position = req[r].to

\* The inductive invariant: the disk, current versions, counters, positions
\* and bulk calls, with what requests in progress know of each
\* (mod_files.py:34-59, admin.py:465-531, 572-650, admin_api.py:122-216,
\* 284-344, public.py:192-196, 261-282).
IInv ==
  /\ TypeOK /\ Alone /\ LoneBatchFits
  /\ RequestsMatch /\ DiskAndRows
  /\ SoloReads /\ OverlapBound /\ CurrentFiles
  /\ CountsMatch
  /\ ItemsMatch /\ SoloMoves /\ PositionsApart

Before(i, j) ==
  \/ items[i].position < items[j].position
  \/ items[i].position = items[j].position /\ i < j
Rank(i) == Cardinality({j \in ItemsOf(items[i].mod) : Before(j, i)})

\* A move alone takes the item the way it was asked to, whatever positions the
\* API gave; when positions are apart it changes places with the item shown
\* next to it and with no other (admin.py:635-649).
MovesAreSwaps ==
  [][\A r \in Requests, i, n \in ItemIds :
       /\ req[r].op = "move" /\ req[r].stage = "found" /\ req'[r] = Idle /\ items' # items
       /\ req[r].item = i /\ req[r].neighbour = n
       /\ req[r].mod \notin crossed
       => /\ IF req[r].up THEN Rank(i)' < Rank(i) ELSE Rank(i)' > Rank(i)
          /\ Apart(req[r].mod) =>
               /\ Rank(i)' = Rank(n) /\ Rank(n)' = Rank(i)
               /\ Rank(i) - Rank(n) = IF req[r].up THEN 1 ELSE -1
               /\ \A j \in ItemIds \ {i, n} : items'[j] = items[j]]_vars
=============================================================================
