------------------------------ MODULE NewsPages ------------------------------
(***************************************************************************)
(* The announcements of routes/admin.py and routes/admin_api.py, and the   *)
(* two places that show them through the cache of one process: the banner  *)
(* that main.py puts on every page, and the news feed of routes/feeds.py.  *)
(* Nobody invalidates the cache when a post changes.                       *)
(*                                                                         *)
(* A post is reduced to its two flags; fewer posts than the feed's limit   *)
(* of 50 exist.  An update loads its row and writes, at its commit, the    *)
(* columns its form changed: whatever another update committed in between, *)
(* the row then has some pair of flags, so one step stands for both.       *)
(***************************************************************************)
EXTENDS TtlCache, FiniteSets

CONSTANTS
  MaxPosts,    \* bound on the ids of news_posts
  MaxChanges   \* bound on the commits that touch news_posts

ASSUME PostsAssumption == MaxPosts \in Nat /\ MaxChanges \in Nat
ASSUME KeysAssumption == Keys = {"site:banner", "rss:news"}
ASSUME ValuesAssumption == Values = SUBSET (1..MaxPosts) /\ \A v \in Values : v # Nothing

VARIABLES
  posts,   \* rows of news_posts by id; ids follow created_at
  made,    \* ids given so far
  past     \* history: what the source said before each commit, and until when

newsVars == <<posts, made, past>>
vars == <<cacheVars, newsVars>>

Ids == 1..MaxPosts
Row == [active : BOOLEAN, banner : BOOLEAN]
NoRow == [active |-> FALSE, banner |-> FALSE, gone |-> TRUE]

Exists(p) == posts[p] # NoRow

\* _fetch_banner: the newest active post flagged show_banner, if any.
Banner ==
  LET flagged == {p \in Ids : Exists(p) /\ posts[p].active /\ posts[p].banner}
  IN {p \in flagged : \A q \in flagged : q <= p}

\* news_rss: the active posts.
Feed == {p \in Ids : Exists(p) /\ posts[p].active}

View == [k \in Keys |-> IF k = "site:banner" THEN Banner ELSE Feed]

NewsTypeOK ==
  /\ posts \in [Ids -> Row \cup {NoRow}]
  /\ made \in 0..MaxPosts
  /\ \A p \in Ids : Exists(p) => p <= made
  /\ past \in Seq([until : 0..MaxTime, was : [Keys -> Values]])
  /\ Len(past) <= MaxChanges

Init ==
  /\ CacheInit
  /\ posts = [p \in Ids |-> NoRow]
  /\ made = 0
  /\ past = <<>>

-----------------------------------------------------------------------------

\* A commit that touches the table: the history remembers what it ended.
Commit ==
  /\ Len(past) < MaxChanges
  /\ past' = Append(past, [until |-> now, was |-> View])
  /\ UNCHANGED cacheVars

AddPost(row) ==
  /\ made < MaxPosts
  /\ made' = made + 1
  /\ posts' = [posts EXCEPT ![made + 1] = row]
  /\ Commit

\* The form makes active posts, the API any.
AdminNewsCreate == \E row \in Row : row.active /\ AddPost(row)
CreateNews == \E row \in Row : ~row.active /\ AddPost(row)

SetPost(p, row) ==
  /\ Exists(p)
  /\ posts' = [posts EXCEPT ![p] = row]
  /\ Commit
  /\ UNCHANGED made

\* The form sets both flags, the API those it names; they fail when the row
\* is gone.
AdminNewsUpdate(p) == \E row \in Row : SetPost(p, row)
UpdateNews(p) == \E flag \in {"active", "banner"}, v \in BOOLEAN : SetPost(p, [posts[p] EXCEPT ![flag] = v])

\* admin_news_delete and delete_news.
DeleteNews(p) ==
  /\ Exists(p)
  /\ posts' = [posts EXCEPT ![p] = NoRow]
  /\ Commit
  /\ UNCHANGED made

-----------------------------------------------------------------------------

CacheStep ==
  /\ \/ Tick
     \/ \E c \in Callers, k \in Keys : Get(c, k)
     \/ \E c \in Callers :
          Enter(c) \/ Read(c, View[caller[c].key]) \/ Put(c) \/ Fail(c) \/ NextRequest(c)
     \/ \E ks \in (SUBSET Keys) \ {{}} : Invalidate(ks)
  /\ UNCHANGED newsVars

Next ==
  \/ CacheStep
  \/ AdminNewsCreate \/ CreateNews
  \/ \E p \in Ids : AdminNewsUpdate(p) \/ UpdateNews(p) \/ DeleteNews(p)

\* A request that has the lock goes on: producers return or raise.
Fairness ==
  \A c \in Callers :
    WF_vars(UNCHANGED newsVars /\ (Enter(c) \/ Read(c, View[caller[c].key]) \/ Put(c)))

Spec == Init /\ [][Next]_vars /\ Fairness

-----------------------------------------------------------------------------

\* k had the value v at some moment since t.
HeldSince(k, v, t) ==
  \/ View[k] = v
  \/ \E i \in DOMAIN past : past[i].was[k] = v /\ past[i].until >= t

\* What is stored, and what a producer has in hand, was true when it was read.
CopiesWereTrue ==
  /\ \A k \in Keys : store[k] # Nothing => HeldSince(k, store[k].value, store[k].read)
  /\ \A c \in Callers : caller[c].stage = "produced" =>
       HeldSince(caller[c].key, caller[c].value, caller[c].read)

\* The inductive invariant: types, the lock discipline of cache.py:31-39,
\* the order of its stamps, and the truth of what it keeps.
IInv ==
  /\ CacheTypeOK /\ NewsTypeOK
  /\ QueuesMatch /\ HolderProduces
  /\ StampsInOrder /\ CopiesWereTrue

\* No producer runs while a fresh value of its key is at hand: callers that
\* queued behind a fetch share its result (cache.py:24-25, 33-36), even when
\* fetches fail and entries are invalidated in between.
NoWastedFetch ==
  \A c \in Callers : Producing(c) => ~Fresh(caller[c].key)

\* What a reader is shown for a key.
Shown == [c \in Callers |->
  IF caller[c].stage = "done" THEN [key |-> caller[c].key, value |-> caller[c].value]
  ELSE Nothing]

\* An entry is stamped when its producer returns, not when it read: a page
\* may be older than its ttl by the run of the producer, and by no more.
Promise == INSTANCE FreshView WITH
  current <- View,
  shown <- Shown,
  Lag <- [k \in Keys |-> Ttl[k] + Slow - 1],
  Unseen <- Nothing

\* Banner and feed never show what was taken down longer ago than the ttl and
\* one fetch (main.py:285-299, feeds.py:101-119), whatever an invalidation
\* during a fetch leaves behind (cache.py:37-38, 58-67).
ImplementsFreshView == Promise!Spec

\* A request that waits for another's fetch gets an answer or an error.
WaitersAreServed ==
  \A c \in Callers : caller[c].stage = "waiting" ~> caller[c].stage \in {"done", "failed"}
=============================================================================
