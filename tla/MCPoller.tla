------------------------------ MODULE MCPoller ------------------------------
(***************************************************************************)
(* Instances of Poller.  The scheduler takes no lock; the admin page and   *)
(* the admin API have a lock each, in each replica.                        *)
(***************************************************************************)
EXTENDS Poller, TLC

CONSTANTS scheduler, click, click2, adminLock, adminLock2, m1, i1, i2

OneReplicaClicks == click :> adminLock @@ click2 :> adminLock
TwoReplicaClicks == click :> adminLock @@ click2 :> adminLock2
SchedulerAndClicks == scheduler :> NoLock @@ OneReplicaClicks
SchedulerAndAdmin == scheduler :> NoLock @@ click :> adminLock

\* Comments and releases of one mod.
OneModTwoFeeds == 1 :> m1 @@ 2 :> m1
TwoItems == i1 :> 1 @@ i2 :> 2
OneFeed == 1 :> m1
TwoOnOneFeed == i1 :> 1 @@ i2 :> 1
=============================================================================
