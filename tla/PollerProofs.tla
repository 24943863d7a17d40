---------------------------- MODULE PollerProofs ----------------------------
(***************************************************************************)
(* Proofs about Poller for any callers, users, mods, feeds and items.      *)
(*                                                                         *)
(* Whatever locks the callers take, notices appear with the rows they are  *)
(* about, the commit that makes an item known tells everyone who followed  *)
(* since the cycle began, and the cycles of a slot (a lock, or a caller    *)
(* without one) tell of an item once: the poller implements ItemFeed.      *)
(***************************************************************************)
EXTENDS Poller, FiniteSetTheorems, TLAPS

LEMMA InitHolds == Init => IInv
<1> SUFFICES ASSUME Init PROVE IInv
  OBVIOUS
<1>1. Idle \in Cycle
  BY FeedsAssumption DEF Idle, Cycle
<1>2. TypeOK
  BY <1>1, CrashesAssumption DEF Init, TypeOK
<1>3. PageIsOfFeed /\ PendingHasRow /\ SteadyAreTold
  BY DEF Init, PageIsOfFeed, PendingHasRow, SteadyAreTold, Idle, Running
<1>4. NewIsPending /\ SlotsApart
  BY DEF Init, NewIsPending, SlotsApart, Idle, Running
<1>5. FoundIsKnown
  BY FS_EmptySet DEF Init, FoundIsKnown
<1> QED BY <1>2, <1>3, <1>4, <1>5 DEF IInv

\* The slots are finitely many, and so are those that found an item.
LEMMA SlotsAreFinite ==
  /\ IsFiniteSet(Slots)
  /\ \A S \in SUBSET Slots : IsFiniteSet(S) /\ Cardinality(S) \in Nat
                            /\ Cardinality(S) <= Cardinality(Slots)
<1>1. IsFiniteSet(Slots)
  <2> DEFINE slot == [p \in Pollers |-> Slot(p)]
  <2>1. slot \in Surjection(Pollers, Slots)
    BY DEF Surjection, Slots
  <2> QED
    BY <2>1, CallersAssumption, FS_Surjection
<1> QED
  BY <1>1, FS_Subset, FS_CardinalityType

\* A step that moves one cycle and nothing else preserves IInv when the new
\* state of that cycle is in order.
LEMMA CycleStep ==
  ASSUME IInv, NEW p \in Pollers, NEW c \in Cycle,
         cycle' = [cycle EXCEPT ![p] = c],
         UNCHANGED <<accounts, follows, listed, known, told, foundBy>>,
         crashes' \in 0..MaxCrashes,
         c.pc \in {"upserting", "telling"} =>
           /\ c.feed <= NFeeds
           /\ \A i \in c.page : feedOf[i] = c.feed
           /\ c.fresh \subseteq c.page
           /\ c.page \ c.fresh \subseteq known \cup c.rows,
         c.pc = "idle" => c = Idle,
         \A n \in c.flushed \cup c.added : n[2] \in c.rows,
         c.pc = "telling" => c.fresh \subseteq c.rows,
         c.steady \subseteq follows,
         \A i \in c.rows \ known : \A u \in Users :
           <<u, modOf[feedOf[i]]>> \in c.steady =>
             \/ <<u, i>> \in c.flushed \cup c.added
             \/ c.pc = "telling" /\ i \in c.fresh,
         c.rows \subseteq known \cup c.new,
         c.new \subseteq c.rows \cup (IF c.pc = "upserting" THEN c.fresh ELSE {}),
         c.pc \in {"upserting", "telling"} => c.fresh \subseteq c.new,
         \A n \in c.flushed \cup c.added : n[2] \in c.new,
         c.pc # "idle" => \A q \in Pollers \ {p} : Running(q) => Slot(q) # Slot(p),
         \A i \in c.new : Slot(p) \notin foundBy[i]
  PROVE  IInv'
<1>1. cycle'[p] = c /\ \A q \in Pollers \ {p} : cycle'[q] = cycle[q]
  BY DEF IInv, TypeOK
<1>2. TypeOK'
  BY DEF IInv, TypeOK
<1>3. PageIsOfFeed'
  BY <1>1 DEF IInv, PageIsOfFeed
<1>4. PendingHasRow'
  BY <1>1 DEF IInv, PendingHasRow, Running
<1>5. SteadyAreTold'
  BY <1>1 DEF IInv, SteadyAreTold
<1>6. NewIsPending'
  BY <1>1 DEF IInv, NewIsPending
<1>7. SlotsApart'
  BY <1>1 DEF IInv, SlotsApart, Running, Slot
<1>8. FoundIsKnown'
  BY DEF IInv, FoundIsKnown
<1> QED BY <1>2, <1>3, <1>4, <1>5, <1>6, <1>7, <1>8 DEF IInv

\* A cycle that fails leaves nothing.
LEMMA FailPreserves ==
  ASSUME IInv, NEW p \in Pollers, Fail(p), UNCHANGED <<accounts, follows, listed>>,
         crashes' \in 0..MaxCrashes
  PROVE  IInv'
<1>1. Idle \in Cycle
  BY FeedsAssumption DEF Idle, Cycle
<1>2. cycle' = [cycle EXCEPT ![p] = Idle] /\ UNCHANGED <<known, told, foundBy>>
  BY DEF Fail
<1> QED BY <1>1, <1>2, CycleStep DEF Idle

LEMMA BeginPreserves ==
  ASSUME IInv, NEW p \in Pollers, Begin(p)
  PROVE  IInv'
<1> DEFINE c == [Idle EXCEPT !.pc = "fetching", !.steady = follows]
<1>1. c \in Cycle
  <2>1. follows \in SUBSET (Users \X Mods)
    BY DEF IInv, TypeOK
  <2>2. 1 \in 1..(NFeeds + 1)
    BY FeedsAssumption
  <2> QED BY <2>1, <2>2 DEF Idle, Cycle
<1>2. /\ c.pc = "fetching" /\ c.steady = follows /\ c.rows = {}
      /\ c.new = {} /\ c.flushed = {} /\ c.added = {}
  BY DEF Idle
<1>3. /\ cycle' = [cycle EXCEPT ![p] = c]
      /\ UNCHANGED <<accounts, follows, listed, known, told, foundBy, crashes>>
  BY DEF Begin
<1>4. crashes' \in 0..MaxCrashes
  BY <1>3 DEF IInv, TypeOK
<1>5. \A q \in Pollers \ {p} : Running(q) => Slot(q) # Slot(p)
  BY DEF Begin, LockFree, Slot
<1> HIDE DEF c
<1> QED BY <1>1, <1>2, <1>3, <1>4, <1>5, CycleStep

\* What IInv says of the running cycle of p.
RunningInOrder(p) ==
  /\ cycle[p].rows \subseteq known \cup cycle[p].new
  /\ \A n \in cycle[p].flushed \cup cycle[p].added : n[2] \in cycle[p].new
  /\ \A q \in Pollers \ {p} : Running(q) => Slot(q) # Slot(p)
  /\ \A i \in cycle[p].new : Slot(p) \notin foundBy[i]
  /\ cycle[p].pc # "upserting" => cycle[p].new \subseteq cycle[p].rows

LEMMA RunningIsInOrder ==
  ASSUME IInv, NEW p \in Pollers, Running(p)
  PROVE  RunningInOrder(p)
  BY DEF IInv, RunningInOrder, NewIsPending, SlotsApart

LEMMA ScrapePreserves ==
  ASSUME IInv, NEW p \in Pollers, NEW page \in SUBSET Items, Scrape(p, page)
  PROVE  IInv'
<1> DEFINE c == cycle[p]
<1>1. /\ c \in Cycle /\ c.pc = "fetching" /\ c.feed \in 1..NFeeds
      /\ \A i \in page : feedOf[i] = c.feed
      /\ UNCHANGED <<accounts, follows, listed, crashes>>
  BY FeedsAssumption DEF Scrape, OnPage, IInv, TypeOK, Cycle
<1>2. crashes' \in 0..MaxCrashes
  BY <1>1 DEF IInv, TypeOK
<1>3. /\ \A n \in c.flushed \cup c.added : n[2] \in c.rows
      /\ c.steady \subseteq follows
      /\ \A i \in c.rows \ known : \A u \in Users :
           <<u, modOf[feedOf[i]]>> \in c.steady => <<u, i>> \in c.flushed \cup c.added
      /\ RunningInOrder(p)
  BY <1>1, RunningIsInOrder DEF IInv, PendingHasRow, SteadyAreTold, Running
<1>4. CASE page # {} /\ BrokenRow(p)
  BY <1>1, <1>2, <1>4, FailPreserves DEF Scrape
<1>5. CASE page = {}
  <2> DEFINE d == [c EXCEPT !.feed = c.feed + 1]
  <2>1. d \in Cycle
    BY <1>1, FeedsAssumption DEF Cycle
  <2>2. /\ d.pc = "fetching" /\ d.rows = c.rows /\ d.steady = c.steady
        /\ d.flushed = c.flushed /\ d.added = c.added /\ d.new = c.new
    BY <1>1 DEF Cycle
  <2>3. cycle' = [cycle EXCEPT ![p] = d] /\ UNCHANGED <<known, told, foundBy>>
    BY <1>5 DEF Scrape
  <2>4. /\ c.rows \subseteq known \cup c.new /\ c.new \subseteq c.rows
        /\ \A n \in c.flushed \cup c.added : n[2] \in c.new
        /\ \A q \in Pollers \ {p} : Running(q) => Slot(q) # Slot(p)
        /\ \A i \in c.new : Slot(p) \notin foundBy[i]
    BY <1>1, <1>3 DEF RunningInOrder
  <2> HIDE DEF c, d
  <2> QED BY <1>1, <1>2, <1>3, <2>1, <2>2, <2>3, <2>4, CycleStep
<1>6. CASE page # {} /\ ~BrokenRow(p)
  <2> DEFINE d == [c EXCEPT !.pc = "upserting", !.page = page, !.fresh = Fresh(p, page),
                            !.new = c.new \cup Fresh(p, page),
                            !.flushed = c.flushed \cup c.added, !.added = {}]
  <2>1. d \in Cycle
    BY <1>1 DEF Cycle, Fresh
  <2>2. /\ d.pc = "upserting" /\ d.rows = c.rows /\ d.steady = c.steady
        /\ d.flushed = c.flushed \cup c.added /\ d.added = {} /\ d.feed = c.feed
        /\ d.page = page /\ d.fresh = page \ (known \cup c.rows)
        /\ d.new = c.new \cup d.fresh
    BY <1>1 DEF Cycle, Fresh
  <2>3. cycle' = [cycle EXCEPT ![p] = d] /\ UNCHANGED <<known, told, foundBy>>
    BY <1>6 DEF Scrape
  <2>4. c.feed <= NFeeds
    BY <1>1, FeedsAssumption
  <2>5. /\ d.rows \subseteq known \cup d.new /\ d.new \subseteq d.rows \cup d.fresh
        /\ \A n \in d.flushed \cup d.added : n[2] \in d.new
        /\ \A q \in Pollers \ {p} : Running(q) => Slot(q) # Slot(p)
    BY <1>1, <1>3, <2>2 DEF RunningInOrder
  <2>6. \A i \in d.new : Slot(p) \notin foundBy[i]
    <3>1. \A i \in page \ known : i \in Items /\ foundBy[i] = {}
      BY DEF IInv, FoundIsKnown
    <3> QED
      BY <1>3, <2>2, <3>1 DEF RunningInOrder
  <2> HIDE DEF c, d
  <2> QED BY <1>1, <1>2, <1>3, <2>1, <2>2, <2>3, <2>4, <2>5, <2>6, CycleStep
<1> QED BY <1>4, <1>5, <1>6

LEMMA UpsertPreserves ==
  ASSUME IInv, NEW p \in Pollers, Upsert(p)
  PROVE  IInv'
<1> DEFINE c == cycle[p]
<1>1. /\ c \in Cycle /\ c.pc = "upserting" /\ c.feed \in 1..NFeeds
      /\ UNCHANGED <<accounts, follows, listed, known, told, foundBy, crashes>>
      /\ \A i \in c.page : feedOf[i] = c.feed
      /\ c.fresh \subseteq c.page /\ c.page \ c.fresh \subseteq known \cup c.rows
  BY FeedsAssumption DEF Upsert, IInv, TypeOK, Cycle, PageIsOfFeed
<1>2. crashes' \in 0..MaxCrashes
  BY <1>1 DEF IInv, TypeOK
<1>3. /\ \A n \in c.flushed \cup c.added : n[2] \in c.rows
      /\ c.steady \subseteq follows
      /\ \A i \in c.rows \ known : \A u \in Users :
           <<u, modOf[feedOf[i]]>> \in c.steady => <<u, i>> \in c.flushed \cup c.added
      /\ RunningInOrder(p)
  BY <1>1, RunningIsInOrder DEF IInv, PendingHasRow, SteadyAreTold, Running
<1>0. /\ c.new \subseteq c.rows \cup c.page /\ c.fresh \subseteq c.new
      /\ c.rows \cup c.page \subseteq known \cup c.new
      /\ \A n \in c.flushed \cup c.added : n[2] \in c.new
      /\ \A q \in Pollers \ {p} : Running(q) => Slot(q) # Slot(p)
      /\ \A i \in c.new : Slot(p) \notin foundBy[i]
  BY <1>1, <1>3 DEF RunningInOrder, IInv, NewIsPending
<1>4. CASE c.fresh = {}
  <2> DEFINE d == [c EXCEPT !.pc = "fetching", !.feed = c.feed + 1, !.rows = c.rows \cup c.page]
  <2>1. d \in Cycle
    <3>1. c.feed + 1 \in 1..(NFeeds + 1)
      BY <1>1, FeedsAssumption
    <3> QED BY <1>1, <3>1 DEF Cycle
  <2>2. /\ d.pc = "fetching" /\ d.rows = c.rows \cup c.page /\ d.steady = c.steady
        /\ d.flushed = c.flushed /\ d.added = c.added /\ d.new = c.new
    BY <1>1 DEF Cycle
  <2>3. cycle' = [cycle EXCEPT ![p] = d]
    BY <1>4 DEF Upsert
  <2> HIDE DEF c, d
  <2> QED BY <1>0, <1>1, <1>2, <1>3, <1>4, <2>1, <2>2, <2>3, CycleStep
<1>5. CASE c.fresh # {}
  <2> DEFINE d == [c EXCEPT !.pc = "telling", !.rows = c.rows \cup c.page]
  <2>1. d \in Cycle
    BY <1>1 DEF Cycle
  <2>2. /\ d.pc = "telling" /\ d.rows = c.rows \cup c.page /\ d.steady = c.steady
        /\ d.flushed = c.flushed /\ d.added = c.added /\ d.feed = c.feed
        /\ d.page = c.page /\ d.fresh = c.fresh /\ d.new = c.new
    BY <1>1 DEF Cycle
  <2>3. cycle' = [cycle EXCEPT ![p] = d]
    BY <1>5 DEF Upsert
  <2>4. c.feed <= NFeeds
    BY <1>1, FeedsAssumption
  <2> HIDE DEF c, d
  <2> QED BY <1>0, <1>1, <1>2, <1>3, <2>1, <2>2, <2>3, <2>4, CycleStep
<1> QED BY <1>4, <1>5

LEMMA FanOutPreserves ==
  ASSUME IInv, NEW p \in Pollers, FanOut(p)
  PROVE  IInv'
<1> DEFINE c == cycle[p]
           followers == {u \in Users : <<u, modOf[c.feed]>> \in follows}
           d == [c EXCEPT !.pc = "fetching", !.feed = c.feed + 1,
                          !.added = c.added \cup (followers \X c.fresh)]
<1>1. /\ c \in Cycle /\ c.pc = "telling" /\ c.feed \in 1..NFeeds
      /\ UNCHANGED <<accounts, follows, listed, known, told, foundBy, crashes>>
      /\ \A i \in c.page : feedOf[i] = c.feed
      /\ c.fresh \subseteq c.page /\ c.fresh \subseteq c.rows
  BY FeedsAssumption DEF FanOut, IInv, TypeOK, Cycle, PageIsOfFeed, PendingHasRow
<1>2. crashes' \in 0..MaxCrashes
  BY <1>1 DEF IInv, TypeOK
<1>3. /\ \A n \in c.flushed \cup c.added : n[2] \in c.rows
      /\ c.steady \subseteq follows
      /\ \A i \in c.rows \ known : \A u \in Users :
           <<u, modOf[feedOf[i]]>> \in c.steady =>
             <<u, i>> \in c.flushed \cup c.added \/ i \in c.fresh
  BY <1>1 DEF IInv, PendingHasRow, SteadyAreTold
<1>0. /\ c.rows \subseteq known \cup c.new /\ c.new \subseteq c.rows
      /\ c.fresh \subseteq c.new
      /\ \A n \in c.flushed \cup c.added : n[2] \in c.new
      /\ \A q \in Pollers \ {p} : Running(q) => Slot(q) # Slot(p)
      /\ \A i \in c.new : Slot(p) \notin foundBy[i]
  BY <1>1, RunningIsInOrder DEF RunningInOrder, Running, IInv, NewIsPending
<1>4. d \in Cycle
  <2>1. c.feed + 1 \in 1..(NFeeds + 1)
    BY <1>1, FeedsAssumption
  <2>2. c.added \cup (followers \X c.fresh) \in SUBSET (Users \X Items)
    BY <1>1 DEF Cycle
  <2> HIDE DEF followers
  <2> QED BY <1>1, <2>1, <2>2 DEF Cycle
<1>5. /\ d.pc = "fetching" /\ d.rows = c.rows /\ d.steady = c.steady
      /\ d.flushed = c.flushed /\ d.added = c.added \cup (followers \X c.fresh)
      /\ d.new = c.new
  BY <1>1 DEF Cycle
<1>6. cycle' = [cycle EXCEPT ![p] = d]
  BY DEF FanOut
<1>7. \A i \in c.fresh : \A u \in Users :
        <<u, modOf[feedOf[i]]>> \in c.steady => <<u, i>> \in followers \X c.fresh
  BY <1>1, <1>3
<1>8. \A n \in d.flushed \cup d.added : n[2] \in d.rows
  BY <1>1, <1>3, <1>5
<1>9. \A i \in d.rows \ known : \A u \in Users :
        <<u, modOf[feedOf[i]]>> \in d.steady => <<u, i>> \in d.flushed \cup d.added
  BY <1>3, <1>5, <1>7
<1>10. \A n \in d.flushed \cup d.added : n[2] \in d.new
  BY <1>0, <1>5
<1> HIDE DEF c, d, followers
<1> QED BY <1>0, <1>1, <1>2, <1>3, <1>4, <1>5, <1>6, <1>8, <1>9, <1>10, CycleStep

\* Rows and notices of a cycle become visible together.
LEMMA CommitPreserves ==
  ASSUME IInv, NEW p \in Pollers, Commit(p)
  PROVE  IInv'
<1>1. UNCHANGED <<accounts, follows, listed, crashes>> /\ Running(p)
  BY DEF Commit, Running
<1>2. CASE BrokenRow(p)
  <2>1. crashes' \in 0..MaxCrashes
    BY <1>1 DEF IInv, TypeOK
  <2> QED BY <1>1, <1>2, <2>1, FailPreserves DEF Commit
<1>3. CASE ~BrokenRow(p)
  <2>1. /\ known' = known \cup cycle[p].rows
        /\ told' = [n \in Users \X Items |->
             IF n \in cycle[p].flushed \cup cycle[p].added THEN told[n] + 1 ELSE told[n]]
        /\ cycle' = [cycle EXCEPT ![p] = Idle]
        /\ foundBy' = [i \in Items |->
             IF i \in cycle[p].new THEN foundBy[i] \cup {Slot(p)} ELSE foundBy[i]]
        /\ cycle[p].pc = "fetching"
    BY <1>3 DEF Commit, CommittedRows, CommittedNotices
  <2>0. RunningInOrder(p) /\ cycle[p].new \subseteq cycle[p].rows /\ cycle[p] \in Cycle
    BY <1>1, <2>1, RunningIsInOrder DEF RunningInOrder, IInv, TypeOK
  <2>2. cycle'[p] = Idle /\ \A q \in Pollers \ {p} : cycle'[q] = cycle[q]
    BY <2>1 DEF IInv, TypeOK
  <2>3. TypeOK'
    <3>1. Idle \in Cycle
      BY FeedsAssumption DEF Idle, Cycle
    <3>2. cycle' \in [Pollers -> Cycle]
      BY <2>1, <3>1 DEF IInv, TypeOK
    <3>3. known' \subseteq Items
      BY <2>1 DEF IInv, TypeOK, Cycle
    <3>4. told' \in [Users \X Items -> Nat]
      BY <2>1 DEF IInv, TypeOK
    <3>5. foundBy' \in [Items -> SUBSET Slots]
      BY <2>1 DEF IInv, TypeOK, Slots
    <3> QED BY <1>1, <3>2, <3>3, <3>4, <3>5 DEF IInv, TypeOK
  <2>4. PageIsOfFeed'
    BY <2>1, <2>2 DEF IInv, PageIsOfFeed, Idle
  <2>5. PendingHasRow'
    BY <2>2 DEF IInv, PendingHasRow, Running, Idle
  <2>6. SteadyAreTold'
    BY <1>1, <2>1, <2>2 DEF IInv, SteadyAreTold, Idle
  <2>7. NewIsPending'
    BY <2>1, <2>2 DEF IInv, NewIsPending, Idle
  <2>8. SlotsApart'
    <3>1. \A q, r \in Pollers : Running(q)' /\ Running(r)' /\ q # r => Slot(q) # Slot(r)
      BY <2>2 DEF IInv, SlotsApart, Running, Idle
    <3>2. ASSUME NEW q \in Pollers, NEW i \in cycle'[q].new
          PROVE  Slot(q) \notin foundBy'[i]
      <4>1. q # p /\ cycle'[q] = cycle[q] /\ Running(q) /\ i \in Items
        BY <2>2, <3>2 DEF Idle, IInv, PendingHasRow, TypeOK, Cycle
      <4>2. Slot(q) # Slot(p) /\ Slot(q) \notin foundBy[i]
        BY <2>0, <3>2, <4>1 DEF RunningInOrder, IInv, SlotsApart
      <4> QED
        BY <2>1, <4>1, <4>2
    <3>3. \A q \in Pollers : Slot(q)' = Slot(q)
      BY DEF Slot
    <3> QED
      BY <3>1, <3>2, <3>3 DEF SlotsApart
  <2>9. FoundIsKnown'
    <3>1. ASSUME NEW i \in Items PROVE foundBy'[i] # {} <=> i \in known'
      BY <2>0, <2>1, <3>1 DEF RunningInOrder, IInv, FoundIsKnown
    <3>2. ASSUME NEW n \in Users \X Items PROVE told'[n] <= Cardinality(foundBy'[n[2]])
      <4> DEFINE S == foundBy[n[2]]
      <4>1. S \in SUBSET Slots /\ told[n] \in Nat /\ told[n] <= Cardinality(S)
        BY DEF IInv, TypeOK, FoundIsKnown
      <4>2. IsFiniteSet(S) /\ Cardinality(S) \in Nat
        BY <4>1, SlotsAreFinite
      <4>3. CASE n[2] \in cycle[p].new
        <5>1. foundBy'[n[2]] = S \cup {Slot(p)} /\ Slot(p) \notin S
          BY <2>0, <2>1, <4>3 DEF RunningInOrder
        <5>2. Cardinality(S \cup {Slot(p)}) = Cardinality(S) + 1
          BY <4>2, <5>1, FS_AddElement
        <5>3. told'[n] <= told[n] + 1
          BY <2>1, <4>1
        <5>4. told'[n] \in Nat
          BY <2>3 DEF TypeOK
        <5> HIDE DEF S
        <5> QED
          BY <4>1, <4>2, <5>1, <5>2, <5>3, <5>4
      <4>4. CASE n[2] \notin cycle[p].new
        <5>1. foundBy'[n[2]] = S /\ n \notin cycle[p].flushed \cup cycle[p].added
          BY <2>0, <2>1, <4>4 DEF RunningInOrder
        <5> QED
          BY <2>1, <4>1, <5>1
      <4> QED
        BY <4>3, <4>4
    <3> QED
      BY <3>1, <3>2 DEF FoundIsKnown
  <2> QED BY <2>3, <2>4, <2>5, <2>6, <2>7, <2>8, <2>9 DEF IInv
<1> QED BY <1>2, <1>3

\* Unfollowing, or leaving, also ends being a steady follower.
LEMMA FollowsStep ==
  ASSUME IInv, cycle' = StillSteady(follows'), follows' \subseteq Users \X Mods,
         accounts' \subseteq Users, UNCHANGED <<listed, known, foundBy, crashes>>,
         told' \in [Users \X Items -> Nat],
         \A n \in Users \X Items : told'[n] \in {0, told[n]}
  PROVE  IInv'
<1>1. \A p \in Pollers :
        /\ cycle'[p] = [cycle[p] EXCEPT !.steady = cycle[p].steady \cap follows']
        /\ cycle[p] \in Cycle
  BY DEF StillSteady, IInv, TypeOK
<1>2. \A p \in Pollers :
        /\ cycle'[p] \in Cycle
        /\ cycle'[p].pc = cycle[p].pc /\ cycle'[p].feed = cycle[p].feed
        /\ cycle'[p].page = cycle[p].page /\ cycle'[p].fresh = cycle[p].fresh
        /\ cycle'[p].rows = cycle[p].rows /\ cycle'[p].flushed = cycle[p].flushed
        /\ cycle'[p].new = cycle[p].new
        /\ cycle'[p].added = cycle[p].added
        /\ cycle'[p].steady = cycle[p].steady \cap follows'
  <2> TAKE p \in Pollers
  <2> DEFINE s == cycle[p].steady \cap follows'
  <2>1. cycle[p] \in Cycle /\ cycle'[p] = [cycle[p] EXCEPT !.steady = s]
    BY <1>1
  <2>2. s \in SUBSET (Users \X Mods)
    OBVIOUS
  <2> HIDE DEF s
  <2>3. /\ cycle'[p] \in Cycle
        /\ cycle'[p].pc = cycle[p].pc /\ cycle'[p].feed = cycle[p].feed
        /\ cycle'[p].page = cycle[p].page /\ cycle'[p].fresh = cycle[p].fresh
        /\ cycle'[p].rows = cycle[p].rows /\ cycle'[p].flushed = cycle[p].flushed
        /\ cycle'[p].new = cycle[p].new
        /\ cycle'[p].added = cycle[p].added /\ cycle'[p].steady = s
    BY <2>1, <2>2 DEF Cycle
  <2> QED BY <2>3 DEF s
<1>3. TypeOK'
  <2>1. cycle' \in [Pollers -> Cycle]
    BY <1>2 DEF StillSteady
  <2> QED BY <2>1 DEF IInv, TypeOK
<1>4. PageIsOfFeed'
  BY <1>2 DEF IInv, PageIsOfFeed
<1>5. PendingHasRow'
  <2>1. \A p \in Pollers : cycle[p] = Idle => cycle'[p] = Idle
    BY <1>1 DEF Idle
  <2> QED BY <1>2, <2>1 DEF IInv, PendingHasRow, Running
<1>6. SteadyAreTold'
  BY <1>2 DEF IInv, SteadyAreTold
<1>7. NewIsPending'
  BY <1>2 DEF IInv, NewIsPending
<1>8. SlotsApart'
  BY <1>2 DEF IInv, SlotsApart, Running, Slot
<1>9. FoundIsKnown'
  <2>1. ASSUME NEW n \in Users \X Items PROVE told'[n] <= Cardinality(foundBy[n[2]])
    <3>1. /\ told'[n] \in {0, told[n]} /\ told[n] <= Cardinality(foundBy[n[2]])
          /\ foundBy[n[2]] \in SUBSET Slots
      BY DEF IInv, TypeOK, FoundIsKnown
    <3>2. Cardinality(foundBy[n[2]]) \in Nat
      BY <3>1, SlotsAreFinite
    <3> QED
      BY <3>1, <3>2
  <2> QED
    BY <2>1 DEF IInv, FoundIsKnown
<1> QED BY <1>3, <1>4, <1>5, <1>6, <1>7, <1>8, <1>9 DEF IInv

LEMMA ToggleFollowPreserves ==
  ASSUME IInv, NEW u \in Users, NEW m \in Mods, ToggleFollow(u, m)
  PROVE  IInv'
<1>1. follows' \subseteq Users \X Mods
  BY DEF ToggleFollow, IInv, TypeOK
<1>2. told' = told /\ told \in [Users \X Items -> Nat] /\ accounts' \subseteq Users
  BY DEF ToggleFollow, IInv, TypeOK
<1> QED BY <1>1, <1>2, FollowsStep DEF ToggleFollow

LEMMA DeleteAccountPreserves ==
  ASSUME IInv, NEW u \in Users, DeleteAccount(u)
  PROVE  IInv'
<1>1. follows' \subseteq Users \X Mods /\ accounts' \subseteq Users
  BY DEF DeleteAccount, IInv, TypeOK
<1>2. told' = [n \in Users \X Items |-> IF n[1] = u THEN 0 ELSE told[n]]
      /\ told \in [Users \X Items -> Nat]
  BY DEF DeleteAccount, IInv, TypeOK
<1>3. told' \in [Users \X Items -> Nat]
      /\ \A n \in Users \X Items : told'[n] \in {0, told[n]}
  BY <1>2
<1> QED BY <1>1, <1>3, FollowsStep DEF DeleteAccount

LEMMA CrashPreserves ==
  ASSUME IInv, NEW p \in Pollers, Crash(p)
  PROVE  IInv'
<1>1. crashes' \in 0..MaxCrashes
  BY CrashesAssumption DEF Crash, IInv, TypeOK
<1> QED BY <1>1, FailPreserves DEF Crash

\* What happens on Steam alone changes no cycle.
LEMMA PublishPreserves ==
  ASSUME IInv, NEW i \in Items, Publish(i) \/ Leave(i)
  PROVE  IInv'
  BY DEF Publish, Leave, IInv, TypeOK, PageIsOfFeed, PendingHasRow, SteadyAreTold,
         NewIsPending, SlotsApart, FoundIsKnown, Running, Slot, Slots

LEMMA StutterPreserves == IInv /\ UNCHANGED vars => IInv'
  BY DEF vars, IInv, TypeOK, PageIsOfFeed, PendingHasRow, SteadyAreTold,
         NewIsPending, SlotsApart, FoundIsKnown, Running, Slot, Slots

LEMMA StepPreserves == IInv /\ [Next]_vars => IInv'
  BY BeginPreserves, ScrapePreserves, UpsertPreserves, FanOutPreserves, CommitPreserves,
     CrashPreserves, PublishPreserves, ToggleFollowPreserves, DeleteAccountPreserves,
     StutterPreserves DEF Next

\* Whatever cycles overlap, fail or crash, the pages, rows and notices of
\* every cycle stay in order (poll_once, poller.py:55-266).
THEOREM Invariance == Spec => []IInv
  BY InitHolds, StepPreserves, PTL DEF Spec

\* Notices are never visible without the rows they are about, whatever locks
\* the callers take (the one commit, poller.py:265).
THEOREM NoticesHaveRows == Spec => []ToldIsKnown
<1>1. IInv => ToldIsKnown
  <2> SUFFICES ASSUME IInv, NEW n \in Users \X Items, told[n] > 0
               PROVE  n[2] \in known
    BY DEF ToldIsKnown
  <2>1. told[n] \in Nat /\ told[n] <= Cardinality(foundBy[n[2]])
    BY DEF IInv, TypeOK, FoundIsKnown
  <2>2. foundBy[n[2]] # {}
    BY <2>1, FS_EmptySet
  <2> QED
    BY <2>2 DEF IInv, FoundIsKnown
<1> QED BY <1>1, Invariance, PTL

\* The commit that first makes an item known tells everyone who followed its
\* mod since the cycle began, whatever locks the callers take
\* (poller.py:93, 119-127, 265).
THEOREM SteadyFollowersAreTold == Spec => LearnedIsTold
<1> DEFINE Told == \A i \in known' \ known : \A p \in Pollers :
       Running(p) /\ ~Running(p)' =>
         \A u \in Users : <<u, modOf[feedOf[i]]>> \in cycle[p].steady =>
           told'[<<u, i>>] > 0
<1>1. IInv /\ [Next]_vars => [Told]_vars
  <2> SUFFICES ASSUME IInv, Next, NEW i \in known' \ known, NEW p \in Pollers,
                      Running(p), ~Running(p)', NEW u \in Users,
                      <<u, modOf[feedOf[i]]>> \in cycle[p].steady
               PROVE  told'[<<u, i>>] > 0
    <3>1. known' = known => Told
      OBVIOUS
    <3> QED BY <3>1 DEF vars
  <2>1. PICK q \in Pollers : Commit(q) /\ ~BrokenRow(q)
    <3>1. known' # known
      OBVIOUS
    <3> QED BY <3>1 DEF Next, Begin, Scrape, Upsert, FanOut, Commit, Crash, Fail, Publish,
                        Leave, ToggleFollow, DeleteAccount
  <2>2. /\ cycle' = [cycle EXCEPT ![q] = Idle]
        /\ known' = known \cup cycle[q].rows
        /\ told' = [n \in Users \X Items |->
             IF n \in cycle[q].flushed \cup cycle[q].added THEN told[n] + 1 ELSE told[n]]
        /\ cycle[q].pc = "fetching"
    BY <2>1 DEF Commit, CommittedRows, CommittedNotices
  <2>3. p = q
    BY <2>2 DEF Running, IInv, TypeOK
  <2>4. i \in Items /\ i \in cycle[q].rows \ known
    BY <2>2 DEF IInv, TypeOK, Cycle
  <2>5. <<u, i>> \in cycle[q].flushed \cup cycle[q].added
    BY <2>2, <2>3, <2>4 DEF IInv, SteadyAreTold
  <2>6. told[<<u, i>>] \in Nat
    BY <2>4 DEF IInv, TypeOK
  <2> QED BY <2>2, <2>4, <2>5, <2>6
<1> QED BY <1>1, Invariance, PTL DEF Spec, LearnedIsTold

\* A follower is told of an item at most once by every slot, however the
\* cycles of the slots overlap: never twice when all callers take one lock,
\* at most three times of a scheduler and two replicas that are clicked
\* (poller.py:88-93, admin.py:161-171).
THEOREM OncePerSlot == Spec => []NoticesPerSlot
<1>1. IInv => NoticesPerSlot
  <2> SUFFICES ASSUME IInv, NEW n \in Users \X Items PROVE told[n] <= Cardinality(Slots)
    BY DEF NoticesPerSlot
  <2>1. /\ told[n] \in Nat /\ told[n] <= Cardinality(foundBy[n[2]])
        /\ foundBy[n[2]] \in SUBSET Slots
    BY DEF IInv, TypeOK, FoundIsKnown
  <2> QED
    BY <2>1, SlotsAreFinite
<1> QED
  BY <1>1, Invariance, PTL

\* The poller, with all its steps, overlaps, failures and restarts, implements
\* ItemFeed with the slots for finders: a commit finds and tells, an account
\* deletion forgets, and every other step is invisible.
THEOREM ImplementsItemFeed == Spec => ImplementsFeed
<1>1. Init => Feed!Init
  BY DEF Init, Feed!Init
<1>2. IInv /\ [Next]_vars => [Feed!Next]_Feed!vars
  <2> SUFFICES ASSUME IInv, Next, ~(UNCHANGED <<known, foundBy, told>>)
               PROVE  Feed!Next
    BY DEF vars, Feed!vars
  <2>1. CASE \E p \in Pollers : Commit(p) /\ ~BrokenRow(p)
    <3>1. PICK p \in Pollers : Commit(p) /\ ~BrokenRow(p)
      BY <2>1
    <3> DEFINE new == cycle[p].new
               notices == cycle[p].flushed \cup cycle[p].added
    <3>2. /\ cycle[p] \in Cycle /\ cycle[p].pc = "fetching" /\ Running(p)
          /\ known' = known \cup cycle[p].rows
          /\ foundBy' = [i \in Items |->
               IF i \in new THEN foundBy[i] \cup {Slot(p)} ELSE foundBy[i]]
          /\ told' = [n \in Users \X Items |->
               IF n \in notices THEN told[n] + 1 ELSE told[n]]
      BY <3>1 DEF Commit, CommittedRows, CommittedNotices, IInv, TypeOK, Running
    <3>3. /\ \A i \in new : Slot(p) \notin foundBy[i]
          /\ cycle[p].rows \subseteq known \cup new /\ new \subseteq cycle[p].rows
          /\ \A n \in notices : n[2] \in new
      BY <3>2, RunningIsInOrder DEF RunningInOrder
    <3>4. new \in SUBSET Items /\ notices \in SUBSET (Users \X Items) /\ Slot(p) \in Slots
      BY <3>2 DEF Cycle, Slots
    <3>5. notices \in SUBSET (Users \X new)
      <4> HIDE DEF notices, new
      <4> QED BY <3>3, <3>4
    <3>6. Feed!Find(Slot(p), new, notices)
      <4>1. known' = known \cup new
        BY <3>2, <3>3
      <4> QED
        BY <3>2, <3>3, <4>1 DEF Feed!Find
    <3> QED BY <3>4, <3>5, <3>6 DEF Feed!Next
  <2>2. CASE \E u \in Users : DeleteAccount(u)
    BY <2>2 DEF DeleteAccount, Feed!Next, Feed!Forget
  <2> QED BY <2>1, <2>2 DEF Next, Begin, Scrape, Upsert, FanOut, Commit, Crash, Fail,
                            Publish, Leave, ToggleFollow
<1> QED
  BY <1>1, <1>2, Invariance, PTL DEF Spec, ImplementsFeed, Feed!Spec

=============================================================================
