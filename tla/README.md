# ModBoard in TLA+

This directory specifies the parts of ModBoard (a FastAPI application over PostgreSQL, run as two
replicas behind a load balancer, with a background poller of the Steam Workshop) whose correctness
depends on what happens between two awaits, two requests, two processes or two deliveries of one
event. TLC checks each specification on small instances; TLAPS proves the invariants, the action
properties and the refinements for every value of the constants. `PROJECT.json` lists the components,
runs, theorems, hazards and findings, and maps every definition that models code to the lines it
stands for.

## 1. Inventory

The program is one process image started twice (`app1` with `RUN_POLLER=true`, `app2` without), each
an asyncio event loop: a handler runs until an `await`, then any other handler may run, and the other
replica runs all the time. All durable state is in PostgreSQL under READ COMMITTED; a request is one
transaction that commits at the end of the handler. In-process state (rate-limit buckets, the response
cache, the poll locks) is per replica and is lost on restart.

| Component | State | Operations | Hard behaviour | What makes it correct |
|---|---|---|---|---|
| Forum voting (`routes/forum.py`, `models/forum.py`) | `forum_upvotes`, `forum_threads.vote_score` | toggle vote; account and thread deletion reach it | read, await, write; double clicks; SET NULL under a NULLS NOT DISTINCT index | score = sum of standing votes; one vote per user; nobody removes another's vote |
| Membership (`routes/membership.py`, `services/membership.py`) | `user_memberships`, Stripe's sessions | checkout, webhook, active tier, vote weight | late, repeated, reordered events; expiry | each completed checkout granted once, for the time it bought whenever the event comes; no weight that was not bought; granted in the end |
| Steam poller (`services/poller.py`) | scraped rows, notices, locks | scheduled cycle, "Poll now", `POST /poll` | overlapping cycles, crash before commit, followers deleted mid-cycle | no notice without row, none lost, none twice from callers that share a lock |
| Login rate limiter (`services/ratelimit.py`) | buckets per address | check and record, reset | cap, expiry, LRU eviction | never more grants per window than allowed; bounded memory |
| Response cache (`services/cache.py`) | entries, one lock per key | cached read, invalidate, mark seen | a producer that runs across an invalidation | one producer per key at a time; no answer older than its time to live |
| Forum threads and replies (`routes/forum.py`, `routes/admin.py`) | threads, posts, `reply_count`, notices, lock flag | new thread, reply, edit, delete, lock, pin, status | lost update of `reply_count`; reply racing a lock or a deletion; fan-out | count = replies; a locked thread does not change; those concerned are told once |
| Reactions (`routes/forum.py` 620-669) | `forum_reactions` | toggle | check then act; partial unique indexes | one reaction of a kind per user and target |
| Accounts and sessions (`routes/auth.py`, `services/session.py`) | `users`, `session_jti`, cookies | login, logout, delete, export | two logins at once; logout elsewhere; deletion while requests run | a logged-out cookie never works again |
| Inbox (`routes/auth.py` 375-434) | `notifications.read_at` | view, clear | view shows, and marks, the newest 100 only; notices arrive meanwhile | nothing is marked read unseen |
| Mod catalogue (`routes/admin.py`, `routes/admin_api.py`) | `mods`, `mod_files`, `roadmap_items`, `news_posts`, files on disk | create, upload, set current, move, delete | disk and database are two stores; positions by max + 1 | at most one current file; every row has its file |
| API keys (`services/api_key.py`) | `admin_api_keys` | mint, use, revoke | expiry; `last_used_at` saved by whoever commits | a revoked or expired key is refused |
| Deployment (`deploy.sh`, `rollback.sh`) | image tags, two containers | build, roll, smoke, promote, roll back | a failure between two steps; repeated failures | one replica always serves; `:previous` is covered by the schema, and an image that worked unless somebody deployed over one that did not |
| Middleware (`app/main.py`, `services/csrf.py`) | none of its own | headers, size limit, CSRF, gate, page cache | | |
| Scraping and text (`workshop_scrape.py`, `steam_api.py`, `bbcode.py`, `textfmt.py`, `sanitize.py`) | none | parsing, formatting | | |
| Pages, feeds, styles (`templates`, `static`, `feeds.py`, `seo.py`) | none | rendering | | |

How they interact: a vote asks the membership for its weight; deleting an account reaches votes
(SET NULL), memberships, follows and notices (CASCADE) and threads and replies (anonymised) in one
transaction; the poller writes the notices the inbox shows; the banner and list pages read through the
response cache; the admin login asks the rate limiter before it looks at the password.

The hazards of each component, at the line where they bite and with the property that would catch
them, are in `PROJECT.json`.

## 2. Modules

| Module | Models | Role |
|---|---|---|
| `ForumVotes` | the vote toggle of one thread, its constraints, the deletions that reach votes | detailed |
| `ForumThreads` | one thread: posting, replying, editing, deleting, moderation, notices, anonymisation | detailed |
| `Membership` | checkout, its completion, sessions of other origin, event delivery, grant, expiry | detailed; Stripe is the environment |
| `UserRows` | the table of users and the DELETE of one, under `ForumVotes` and `Membership` | part |
| `ItemFeed` | each finder finds an item once and tells its followers in that step | abstract |
| `Poller` | poll cycles with their locks, pages, fan-out, flush, commit and crash | detailed; implements `ItemFeed`, a lock or a caller without one being a finder |
| `AttemptWindow` | an attempt is granted iff fewer than the maximum were in the window | abstract |
| `RateLimit` | buckets, expiry, access order, trimming, reset | detailed; implements `AttemptWindow` |
| `FreshView` | a reader is shown what the source held at some moment of the last `Lag` ticks | abstract |
| `TtlCache` | the response cache: entries, a lock with its queue per key, failing producers, invalidation | detailed, over any source |
| `NewsPages` | news posts from both doors; composes them with `TtlCache` as the source of banner and feed | detailed; implements `FreshView` |
| `ModTable`, `ModFiles`, `Roadmap` | rows of `mods` and their additions; versions, the disk and the counters; roadmap items | parts |
| `Catalogue` | composes the three: a deleted mod takes what hangs on it | detailed |
| `Sessions`, `Inbox`, `ApiKeys` | accounts, cookies, writings; notices of an account; keys of the admin API | parts |
| `Accounts` | composes the three: a deleted account takes its notices, a logout ends the admin session | detailed |
| `Deploy` | image tags, migrations, the two replicas, through deploys and rollbacks | detailed |
| `MC*` | instances for TLC: sets, functions given as constants, symmetry, search bounds | |
| `*Proofs` | theorems about the module of the same name; `VotingProofs`: about `ForumVotes` and `Membership` | |

**How a request becomes actions.** A handler is cut where another transaction can commit: a read and
what it decides is one action that stores what was read in a record of the request (`req`, `cycle`);
the last flush and the commit, which hold the row locks, are one action. Everything in between may be
interleaved with every other action. A request that is refused, fails or is disconnected leaves no
rows (`Abort`).

**ForumVotes.** `votes`, `score` and `accounts` are the rows of `forum_upvotes`,
`forum_threads.vote_score` and `users`; `req[r]` is what an invocation of `forum_upvote` has read.
`Select` is forum.py:561-596, `Vote` the INSERT and UPDATE (595-614), `Unvote` the DELETE and the guarded
UPDATE (587-594), `WeightChanges` a membership that begins or ends, `DeleteAccount` the SET NULL that
auth.py:492 causes. `InsertConflicts` and `SetNullConflicts` are the unique constraints. The variable
`serial` is history: no user had two requests at once.

**ForumThreads.** `thread`, `posts`, `notices` and `accounts` are rows; `purge[u]` is a running
`me_delete_submit`, which between its UPDATEs and its DELETE holds the locks of the rows it has
anonymised and of nothing else. `BeginReply`/`FinishReply`, `BeginEdit`/`FinishEdit` and
`BeginDelete`/`ReadCount`/`FinishDelete` are the reads and the commits of the handlers; moderation is
one step each. `reply_count` is written as the value read plus or minus one, as SQLAlchemy sends it.
`NewThread` also stands for a thread whose author has a session and is an administrator (an account
under a label). Lock, pin and status are written as they followed from a row read a moment before, so
each of these actions writes either value whatever the row holds. The history fields `open` (the thread
was unlocked at a moment since the request began) and `from` (the first reply id after a deletion began)
exist for the properties only.

**Membership.** `checkout` is Stripe's session, `rows` the table `user_memberships`, `acked` the
sessions whose event was answered 200. `Checkout` is the buyer's request; `Complete`, sessions that the
board did not open (`Foreign`) and redelivery are Stripe's. `Deliver` is the handling of
`checkout.session.completed`: an event without user or tier is skipped and answered 200, one whose ids
are no numbers is answered 400 and comes again, one for an account that is gone or for a session that
has its row already (the savepoint around the INSERT) is answered 200, and any other inserts a row.
The code never reads `payment_status`, so the model has none: the board knows that a checkout was
completed. `expires_at` counts from the creation of the session, as routes/membership.py:137 does. Left
out, because they change nothing, are events of other types, which are answered 200, and requests
with a wrong signature. One tick is a fraction of the 30-day period.

**Poller.** `cycle[p]` is the transaction of one `poll_once`: its page, the ids found new, the rows and
the notices flushed and pending. `Begin`, `Scrape`, `Upsert`, `FanOut`, `Commit` and `Crash` follow
poller.py; `lockOf` says which `asyncio.Lock` a caller takes, because the scheduler takes none, the two
HTTP callers take two different ones, and every replica has its own. `Slot` is what can have one cycle
at a time: a lock, or a caller that takes none. `listed` are the items on the first page of their feed
(fifty comments, or the first page of discussions or change notes): items come (`Publish`) and leave
when newer ones push them off (`Leave`), and a scrape sees what is listed then, or a part of it.
The histories `new` and `foundBy` say which items a cycle took for new and which slots
committed them as such.

**RateLimit.** `held` with `older` is the OrderedDict, `hits` the lists of timestamps, `granted` the
history of grants since the last reset or eviction of the bucket, `answer` the last result.

**TtlCache and NewsPages.** `store` is `_store`, `queue[k]` the waiters of `_locks[k]` with the holder
first, `caller[c]` a request in `cached()`: *waiting* at the lock, *producing* in the caller's
function, *produced* when its SELECT has been answered. `Get`, `Enter`, `Read`, `Put` and `Fail` are
the stretches of cache.py:19-39 between two awaits; `Invalidate` drops entries and touches neither
locks nor running producers. What a producer reads is a parameter of `Read`: `NewsPages` gives it
`View`, the banner of main.py:285-299 and the feed of feeds.py:101-119 over the rows of `news_posts`.
`past` is history: what the source said before each commit.

**Catalogue.** A request of the catalogue is a record with what it has read: `todo`, `adding`, `made`
of a bulk call, `was` and `file` of a version, `item` and `neighbour` of a move. Bulk creation flushes
each row at the next look, so two calls hold rows the other waits for; `Deadlocked` is what
PostgreSQL does then. `disk` is the upload directory: a file is written before the row commits
(`UploadSaved`, `UploadCommit`) and removed before the row's deletion commits (`DeleteFileBegin`,
`DeleteFileCommit`); `left` remembers the versions a request left in between. `marks` is the memory of
`mark_seen`, one per process. An UPDATE of one missing row fails the request, one of several does not,
as SQLAlchemy counts rows. The history `crossed` names the mods on which two requests overlapped.

**Accounts.** `users[s]` is the row of a Google account with its `id` and `session_jti`, `cookie[b]`
what `mb_session` says, `writings` the author token and owner of threads and replies. A login is
`LoginFind`, `LoginCreate` (the unique constraint lets one of two first logins in), `LoginAgain` for the
loser, `LoginRefresh`, `LoginRotate`; its response is a step of its own (`Answer`) and may be lost
(`Fail`), so cookies arrive in any order. `LogoutBegin` trusts the signature alone, as auth.py:325-335
does. `EraseBegin`/`EraseCommit` are the reads and the commit of `me_delete_submit`: writings adopted in
between lose their owner by the foreign key only, and `missed` remembers them. The inbox loads a page,
then marks it (`LookBegin`, `LookCommit`); the API key is looked up at the start of a call and its
`last_used_at` is saved by the route's commit, if there is one. A cookie's end by age is not a step of
its own: a browser that lost its cookie is one that does nothing further.

**Deploy.** Image *i* is the i-th build and brings the i-th migration. `script` is the next command of
the script that runs; `GivenUp` is `wait_healthy` returning 1, `CutOff` anything that stops the shell.
`Probe` is docker's health check, which asks `/health`, which asks the database. A replica whose image
is not `sound` never becomes healthy. `proven` and `passedOver` are history: the images that passed a
smoke test, and those that a deploy was begun over although they had not. `Serving` is docker's
health of a replica, which the scripts wait for; what Caddy makes of it is left out (section 7).

## 3. What the runs show

| Run | Expectation | Question |
|---|---|---|
| `forum_votes` | pass | Serial clicks keep score = sum of weights through membership changes, refusals and deletions; overlapping ones keep one vote per user and touch nobody else's vote |
| `forum_threads` | pass | Links and names agree, and the count while requests that change it do not overlap; notices are few and reach every participant; a locked thread changes only by requests that met it unlocked, or administrators; earlier writings of a deleted account are anonymous |
| `membership` | pass, with fairness | One grant per completed checkout; the expiry is that of its session, whenever and however often the event comes; no weight without a purchase in force; a purchase takes no time from another; granted in the end |
| `poller_overlap` | pass | The scheduler overlaps two clicks on one lock: rows and notices together, no steady follower missed, at most one notice per slot, and the abstract feed is implemented |
| `poller_learns` | pass, with fairness | Items come and leave the page: one that stays is learned in the end |
| `rate_limit` | pass | The store decides as a full record would; bounded memory; bounded grants |
| `news_pages` | pass, with fairness | One fetch at a time and shared; nothing shown is older than the ttl and one fetch (refinement of `FreshView`); every waiter is answered or fails |
| `catalogue` | pass, with fairness | Files and rows agree but for requests in progress or cut off; one current version unless requests overlapped; positions apart and moves that are swaps; honest counters; bulk calls end |
| `accounts` | pass | An ended session never comes back and no two browsers share one; nothing written changes hands; the inbox leaves unread only what a page of newer notices hid |
| `deploy` | pass | Provided the script began with two replicas healthy for docker, one of them is throughout; a rollback finds an image that the schema covers and, unless a deploy was begun over an unproven one, one that was proven |
| `forum_votes_second_voter` | violation | "Every logged-in user can vote" (donate.html:53): the second voter meets `uq_upvote_thread_voter` |
| `poller_replicas` | violation | "Single shared lock" against duplicate notifications (admin.py:161-163): one lock per process, two processes |

The findings in `PROJECT.json` quote both sides of each disagreement.

Further disagreements, met while modelling, that no run checks, because one look at the line settles
them or the modules already do what the code does. Each is a place where a property had to be stated
with a condition.

- *Voting*: two overlapping clicks of one user make the score and the votes drift apart (forum.py:590,
  against donate.html:54). `SerialScoreIsSum` speaks of serial requests.
- *Threads*: two overlapping replies or deletions lose an update of `reply_count` (forum.py:498, 818);
  the count in `IInv` speaks of serial requests. A request that read the thread before a lock commits
  after it (forum.py:465, 556), which `LockedIsFrozen` grants. `forum_react` fails on every call
  (forum.py:140, 640).
  The hourly limit of anonymous authors counts by the cookie `mb_token`, which is set on a response that
  is never sent (anon.py:24-37), so it never applies to an ordinary browser.
- *Deletion*: "permanently deletes" (privacy.html:50) fails for a voter whose thread already has a vote
  without voter (`SetNullConflicts` in `ForumVotes`); "removes everything else" leaves the name in other
  people's notices (`actor_name`); a writing that a running deletion did not see keeps its token and may
  be adopted by another account from the same browser (`missed` in `Sessions`).
- *Sessions*: a logout with an old, signed cookie ends the newer session of the account (auth.py:331).
  csrf.py promises to refresh the cookie's life on every response and sets it only when it is missing
  (csrf.py:102).
- *Inbox*: "Marks everything read" marks the newest 100; clearing deletes what was never shown.
- *API keys*: `last_used_at` is saved only by a route that commits (docs/admin-api.md:50 says each
  use); the key page is said to read a query parameter and reads the flash cookie.
- *Membership*: the checkout guard sees one membership only (routes/membership.py:45-47); donate.html:23
  speaks of the heavier tier, services/membership.py:25 takes the one that ends last;
  routes/membership.py:135 speaks of the charge, line 137 uses the creation of the session.
- *Poller*: "a single broken row shouldn't kill the whole poll" (poller.py:33-34), but a notice for a
  user deleted since fails the whole transaction; admin_api.py:361-362 promises a no-op while a poll is in
  progress, but the scheduler and the admin page take other locks. An item that leaves the first page
  before a scrape of it succeeds is never learned (poller.py:78-80), so `EventuallyKnown` speaks of
  items that stay.
- *Rate limit*: ratelimit.py:46 says an attempt is always recorded, line 60 records granted ones.
- *Cache*: `_store` never shrinks; a failed lookup of an app's name is kept for a day
  (steam_api.py:147-155); `mark_seen` counts again after a restart and in the other process.
- *Catalogue*: "best-effort; never block the download" (public.py), but the counter's UPDATE of a version
  deleted since fails the request (public.py:269). Overlapping uploads leave two current versions or
  none (admin.py:506), overlapping additions or moves one position twice (admin.py:647); a deletion
  whose commit fails leaves a row without its file (admin.py:527). `CurrentFiles`, `PositionsApart`,
  `MovesAreSwaps` and `IInv` are stated for what is left (`crossed`, `left`).
- *Deployment*: a deploy pins whatever `:latest` names, and the build moves `:latest` before anything is
  proven. After a deploy that failed or was cut off, the next one therefore pins the image that failed
  and tags it `:previous` when it fails in turn or succeeds, against deploy.sh:47-50 and 134-137. Four
  steps show it: build 2 fails its smoke test, nobody rolls back (the prompt of deploy.sh:108 is
  printed for a replica that stays unhealthy, not for a failed build, migration or smoke test), the next
  deploy pins image 2, and its end makes image 2 the target. `IInv` grants exactly this, by the history
  `passedOver`: any other unproven target violates it. "Old version of the OTHER replica is still
  serving" is untrue when app1 fails: app2 then runs the new image. A rollback after such a failure
  recreates the only healthy replica first, against rollback.sh:2-4; `AlwaysServing` speaks of scripts
  that begin with two healthy replicas. After several failed deploys the schema may be more than one
  migration ahead of what runs.

**Deadlock.** Runs say `CHECK_DEADLOCK FALSE`, for every behaviour ends when the bounds (ids, clock,
requests, items) are used up.

## 4. Bounds

| Module | Bound | Why it is enough |
|---|---|---|
| ForumVotes | 2 accounts, 3 requests (two of one account), `MaxId` 3, weights 1 and 2 | a double click, another voter, one re-vote; two weights tell the weight read from the weight now |
| ForumThreads | 2 accounts, 3 requests used once, 3 replies, fan-out 1 | two earlier repliers exceed the fan-out with the third reply; two requests overlap in every pair of kinds |
| ForumThreads | `Modest` (a search constraint in `MCForumThreads`): pins, statuses and mentions in the opening before the first request, at most one mention and one deleted account, two requests in flight, edits before the second reply, administrators without an account | what it cuts off combines steps that touch disjoint rows; the theorems hold without it |
| Membership | 2 buyers, 2 checkouts, a cheap and a dear tier, period 2, a checkout open for 1, clock to 3 | delivery after the period, overlap of two tiers, expiry of one, a session without ids beside one with them |
| Poller, `poller_overlap` | the scheduler and 2 clicks on one lock, 1 mod, 2 feeds of one item, 1 crash | an item found by cycles of two slots, a click that finds the lock taken, a crash of one cycle, a failed flush between two feeds |
| Poller, `poller_learns` | the scheduler and a click, 1 feed of 2 items that come and leave, 1 crash | an item missed by a partial scrape, one that leaves before it is read and comes back |
| Poller, `poller_replicas` | 2 clicks with a lock each | the two replicas |
| RateLimit | 4 addresses over a cap of 2, 2 attempts, window 3, clock to 4 | the cap is exceeded, expired and live buckets are trimmed, a window is passed |
| NewsPages | 2 requests, the two keys with ttls 1 and 2, producers of at most 1 tick, clock to 3, 2 posts, 2 commits | an entry expires, a commit falls into a fetch, a waiter finds an expired entry. `OneKey`: both requests ask for one key, as locks and entries are per key |
| Catalogue | 2 requests at a time, 4 in a behaviour, 2 Steam ids, 1 manual mod, 3 versions, 3 items, 2 processes, 1 restart | opposite batches, a double upload after a first, two moves over three items. `OnePart`: additions, versions and counters, or the roadmap; they meet only in the deletion of a mod. Where visibility plays no role mods are public; counters and third versions go with three requests in a behaviour; restarts follow something counted |
| Accounts | 2 requests at a time, 4 in a behaviour, 2 browsers, 2 Google accounts, 1 writing, 2 notices with a page of 1, 1 key | two logins and their late responses, a login beside a deletion, one notice hidden by another. `OnePart`: writings, notices, or admin and keys; behaviours with notices or keys have one request less |
| Deploy | 4 images | a failing build, one that meets what it left, and one after that |

One thread, not several: votes, replies and notices of different threads are different rows.

## 5. Fairness

*Membership*: a delivery that has not been answered 200 is repeated (`WF` of `Deliver` until
acknowledged): Stripe retries, and the bounded retry period is taken to outlast an outage.
*Poller*: the scheduler (the caller without a lock) starts a cycle again and again
(poller.py:269-276), a started cycle goes on, and of the first pages that the scheduler asks for
infinitely often some are read whole. That is fairness of Steam's answers only: what a first page shows is
`listed`, which items leave without any fairness, so nothing is assumed about older ones. Nobody has
to click, and what a click reads may always be a part.
The upsert needs `SF`: an account deletion can disable it for a moment. The number of crashes is
bounded, so `EventuallyKnown` says nothing about a program that crashes for ever.
*NewsPages*: a request that may go on goes on (the event loop), and a producer returns or raises:
every producer is a bounded query, and the requests to Steam have timeouts. Clock, commits and
invalidations are not fair. *Catalogue*: the steps of a bulk call go on, and PostgreSQL ends one of two
transactions that wait for each other; a client that goes away ends its request by `Fail`.

## 6. Proofs

Assumptions are those named in the modules (finite sets of keys and users, natural bounds, NULL is
no account, a period is positive, tiers have weights). Every invariant is proved by `Init => IInv`,
`IInv /\ [Next]_vars => IInv'` (a lemma per action) and `IInv => Inv`; `IInv` is also checked by
TLC.

- **VotingProofs**, on `ForumVotes`: `OneVotePerUser`, `OnlyOwnVoteRemoved` and `SerialScoreIsSum`.
  Needed beside them: ids are keys and grow (`IdsAreKeys`, `SeenIsPast`), so an id read earlier can
  never name a later vote, and the vote read is still the reader's or has lost its voter
  (`SeenIsOwn`). For the score: only requests of one account hold the same vote (`SeenApart`), and
  while users wait for answers the vote a request has read is still there (`SerialReads`), so the
  UPDATE takes back what the DELETE removed. `SerialScoreIsSum` sums the weights as the cardinality
  of a set of points, one per unit of weight of each vote (`Points`), because facts about a fold
  over a set need induction over data; votes bring disjoint points, so a sum changes by a disjoint
  union. On `Membership`, which works on the same table of users: at most one grant per checkout;
  `DelayChangesNothing`, that the rows, but for their ids, are exactly the terms due for the sessions
  answered for, so that no delay, order or repetition of deliveries lengthens or shortens anything; no
  weight that was not bought; no lost time. These are inductive together (`BoughtInv`), with the fact that
  a session has both ids of the board or neither (`IdsTogether`); a delivery adds the one row that is
  owing, or none (`DeliverAddsOne`), and every other step leaves alone what sessions already answered
  for are worth (`OtherSessionsKeepRows`, `DeleteBuyerTakesRows`).
- **ForumThreadsProofs**: `IInv` with the count; `EarlierWritingsAnonymous`, `TellsParticipants`,
  `LockedIsFrozen`, `NoticesAreFew`. The count needs `SerialReads`: a lone request still knows the
  true count, and the reply it deletes still exists. Anonymity needs `NamesFollow`: what a running
  deletion did not reach got a later id. `TellsParticipants` needs `MetThread`: the author read at
  the start is the author still, or gone. Cardinalities come from adding and removing one id.
  `NoticesAreFew` is carried with the finiteness of what it counts (`FewAndFinite`): only a reply
  writes notices about a reply, all of them under its own, new id (`FewAfterReply`), and every other
  step takes notices, replies or authors away, or tells of the thread (`FewAfterOther`).
- **PollerProofs**: whatever locks the callers take, `ToldIsKnown` and `LearnedIsTold` (via
  `SteadyAreTold`: whoever follows since the cycle began has a notice in the making for every row in
  the making), `NoticesPerSlot` and the refinement of `ItemFeed` with the slots as finders. Needed:
  cycles that run at once have a slot each, and none takes for new what its slot has committed before
  (`SlotsApart`); notices in the making are about what is new to the cycle (`NewIsPending`); an item is
  known because somebody found it, and no follower was told oftener than it was found
  (`FoundIsKnown`). With one lock for all callers the bound is one notice; the program has several.
- **RateLimitProofs**: bounded memory, bounded grants, and the refinement of `AttemptWindow`, via
  `StoreIsExact`: the list holds exactly the grants that can still count.
- **NewsPagesProofs**: `IInv`, `NoWastedFetch`, and the refinement of `FreshView`. Needed: the queue
  of a key holds its waiters and its producer once each (`QueuesMatch`), only the head produces
  (`HolderProduces`), stamps follow the clock (`StampsInOrder`), and what is stored or in hand was
  true when it was read (`CopiesWereTrue`), which every commit preserves by remembering what it
  ended.
- **DeployProofs**: `IInv` and `AlwaysServing`. Needed: where a script stands tells which replica is
  up (`CalmPhases`), a healthy replica runs a sound image, and what is pinned was proven or is one of
  those a deploy was begun over unproven (`TargetProven`). That a deploy begins over a proven image
  only is not assumed, and it is not so (section 3).
- **AccountsProofs**: `IInv`, `OwnersStay` and `InboxSettles`, over sessions, inbox and keys
  together. Needed: a jti is in one cookie or one response only, and new numbers are above all given
  so far (`MintedApart`, `OneSession`), so a response on its way can name no other account's
  session; the owner of a writing is the only one it has had (`OwnersKnown`); what a look at the
  inbox shows was there, and what it leaves unread was behind a full page (`LooksMatch`); keys named
  by running requests are minted (`KeysMatch`). Frame lemmas say which few actions change each group
  of variables.
- **CatalogueProofs**: `IInv`, `CurrentFiles`, `CountsAreHonest`, `PositionsApart`, `MovesAreSwaps`
  and the first half of `BatchesEnd` (`LoneBatchFits`). The invariant falls into parts that read few
  variables (table, files and disk, counters, roadmap); a frame lemma per part says that a step
  which leaves those variables and the requests that count in it leaves the part, so each action is
  proved for the part it works on. `CurrentFiles` needs that an undisturbed request still knows the
  current versions (`SoloReads`) and, for requests that overlap, that the current versions some of
  them have not seen are no more than the other requests, which chose them (`OverlapBound`).
  `CountsAreHonest` needs that every value of a counter, in the row or in a request, leaves room for
  whoever is still to write one (`RoomToCount`). `MovesAreSwaps` needs `SoloMoves`, and a lemma on
  ranks: exchanging two neighbouring positions exchanges two ranks and no other (`ChangePlaces`).
  Two strengthenings were found while proving: `PositionsApart` did not hold for a mod deleted and
  added again while the form was still appending to it, so the history `given`, the mods where the
  API ever chose a position, now outlives the mod; and `RequestsMatch` says that the version a
  request has chosen or is about to remove is of the mod it was asked about.

Only model-checked: the liveness properties `BoughtIsGranted`, `EventuallyKnown`, `WaitersAreServed`
and the second half of `BatchesEnd` (TLAPS has no rule for fairness or ENABLED). Every invariant,
action property and refinement that a run checks is also a theorem.

## 7. Not modelled, and what is left

Not modelled for good: middleware and CSRF checks (stateless checks of one request), scraping and text
conversion (pure functions on texts; what a scrape returns is an input of `Poller`), pages, feeds,
search, templates and configuration, which keep no state; the export of an account, which only reads;
the audit log, to which rows are only added, in the transaction of what they record; reactions, until
their handler can run.

In `Deploy`, a replica serves when docker calls it healthy. Where Caddy sends a request is decided by its
own probe every three seconds and by the thirty seconds it avoids a replica that failed twice
(Caddyfile:57-68); between a replica's recreation and Caddy's noticing it, requests may be retried or
fail, which no property here is about. Replicas that die by themselves, and scripts begun with a replica
down, are outside `AlwaysServing`.

In `Poller`, feeds are visited in one order and the rows of one upsert are taken at once: that two
overlapping upserts may deadlock in PostgreSQL appears as a crash of one of them, and two entries of one
id in a page as a page that fails.

Left to do: theorems about the parts of `Accounts` that stand alone (keys), and a specification of what
a vote promises that `ForumVotes` implements while users wait for answers.
