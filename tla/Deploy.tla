------------------------------- MODULE Deploy -------------------------------
(***************************************************************************)
(* deploy.sh and rollback.sh: image tags, migrations and the two replicas  *)
(* that are recreated one after the other.                                 *)
(*                                                                         *)
(* Image i is the i-th build, and brings the i-th migration.  One script   *)
(* runs at a time; it may be cut off between any two of its commands.      *)
(***************************************************************************)
EXTENDS Integers

CONSTANT MaxImages   \* bound on the images that are built

ASSUME ImagesAssumption == MaxImages \in Nat \ {0}

VARIABLES
  built,      \* images built so far
  sound,      \* those that start and answer /health while the database is up
  latest,     \* modboard-app:latest
  previous,   \* modboard-app:previous, 0 when there is none
  pending,    \* modboard-app:_rollback_pending, 0 when there is none
  schema,     \* the newest migration applied
  db,         \* whether the database answers
  replica,    \* image and docker health of app1 and app2
  script,     \* what runs, and its next command
  calm,       \* history: both replicas were healthy when the script began,
              \* and the database has answered since
  proven,     \* history: images that got through the smoke test of a script
  passedOver  \* history: images that a deploy was begun over, unproven

tags == <<latest, previous, pending>>
history == <<calm, proven, passedOver>>
vars == <<built, sound, tags, schema, db, replica, script, history>>

Apps == {"app1", "app2"}
Images == 1..MaxImages
Resting == [op |-> "none", at |-> "end"]

Healthy(a) == replica[a].health = "healthy"

\* A replica that docker holds for healthy.  Caddy asks /health for itself,
\* every three seconds, and avoids for thirty a replica that has failed twice:
\* that delay, and replicas that die by themselves, are left out.
Serving == \E a \in Apps : Healthy(a)

Init ==
  /\ built = 1 /\ sound = {1}
  /\ latest = 1 /\ previous = 0 /\ pending = 0
  /\ schema = 1 /\ db = TRUE
  /\ replica = [a \in Apps |-> [image |-> 1, health |-> "healthy"]]
  /\ script = Resting
  /\ calm = TRUE /\ proven = {1} /\ passedOver = {}

At(step) == script.at = step
Go(step) == script' = [script EXCEPT !.at = step]
Stop == script' = Resting
Start(op, step) ==
  /\ script = Resting
  /\ script' = [op |-> op, at |-> step]
  /\ calm' = (db /\ \A a \in Apps : Healthy(a))

-----------------------------------------------------------------------------

\* The image that :latest names, running or not, is kept for a rollback.
Pin ==
  /\ Start("deploy", "build")
  /\ pending' = latest
  /\ passedOver' = IF latest \in proven THEN passedOver ELSE passedOver \cup {latest}
  /\ UNCHANGED <<built, sound, latest, previous, schema, db, replica, proven>>

Build ==
  /\ At("build")
  /\ \/ Stop /\ UNCHANGED <<built, sound, latest>>
     \/ /\ built < MaxImages
        /\ built' = built + 1
        /\ latest' = built + 1
        /\ sound' \in {sound, sound \cup {built + 1}}
        /\ Go("migrate")
  /\ UNCHANGED <<previous, pending, schema, db, replica, history>>

\* alembic upgrade head in a container of the new image.
Migrate ==
  /\ At("migrate")
  /\ \/ Stop /\ UNCHANGED schema
     \/ db /\ schema' = latest /\ Go("app2")
  /\ UNCHANGED <<built, sound, tags, db, replica, history>>

Recreate(a) ==
  /\ At(a)
  /\ replica' = [replica EXCEPT ![a] = [image |-> latest, health |-> "starting"]]
  /\ Go(IF a = "app2" THEN "wait app2" ELSE "wait app1")
  /\ UNCHANGED <<built, sound, tags, schema, db, history>>

Waiting(a) == At(IF a = "app2" THEN "wait app2" ELSE "wait app1")

\* Variant: what has not become healthy is left behind and the next is rolled.
WaitedAnyhow(a) ==
  /\ Waiting(a)
  /\ Go(IF a = "app2" THEN "app1" ELSE "smoke")
  /\ UNCHANGED <<built, sound, tags, schema, db, replica, history>>

Waited(a) ==
  /\ Waiting(a) /\ Healthy(a)
  /\ Go(IF a = "app2" THEN "app1" ELSE "smoke")
  /\ UNCHANGED <<built, sound, tags, schema, db, replica, history>>

\* Variant: the image that has failed is tagged.
GivenUpOnNew(a) ==
  /\ Waiting(a) /\ ~Healthy(a)
  /\ previous' = latest
  /\ Stop
  /\ UNCHANGED <<built, sound, latest, pending, schema, db, replica, history>>

\* Unhealthy, or 60 seconds are over.  A deploy promotes what it has pinned.
GivenUp(a) ==
  /\ Waiting(a) /\ ~Healthy(a)
  /\ IF script.op = "deploy"
     THEN previous' = pending /\ pending' = 0
     ELSE UNCHANGED <<previous, pending>>
  /\ Stop
  /\ UNCHANGED <<built, sound, latest, schema, db, replica, history>>

\* curl goes to whichever replica Caddy finds healthy.
Smoke ==
  /\ At("smoke")
  /\ \/ ~Serving /\ Stop /\ UNCHANGED proven
     \/ /\ Serving /\ proven' = proven \cup {latest}
        /\ IF script.op = "deploy" THEN Go("promote") ELSE Stop
  /\ UNCHANGED <<built, sound, tags, schema, db, replica, calm, passedOver>>

Promote ==
  /\ At("promote")
  /\ previous' = pending /\ pending' = 0
  /\ Stop
  /\ UNCHANGED <<built, sound, latest, schema, db, replica, history>>

Rollback ==
  /\ previous # 0
  /\ Start("rollback", "app2")
  /\ latest' = previous
  /\ UNCHANGED <<built, sound, previous, pending, schema, db, replica, proven, passedOver>>

\* A lost terminal, a full disk: set -e leaves everything as it is.
CutOff ==
  /\ script # Resting /\ Stop
  /\ UNCHANGED <<built, sound, tags, schema, db, replica, history>>

-----------------------------------------------------------------------------

\* The health check of docker asks /health, which asks the database.
Probe(a) ==
  /\ replica' = [replica EXCEPT ![a].health =
       IF db /\ replica[a].image \in sound THEN "healthy" ELSE "unhealthy"]
  /\ UNCHANGED <<built, sound, tags, schema, db, script, history>>

DatabaseFails ==
  /\ db /\ db' = FALSE
  /\ calm' = FALSE
  /\ UNCHANGED <<built, sound, tags, schema, replica, script, proven, passedOver>>

DatabaseReturns ==
  /\ ~db /\ db' = TRUE
  /\ UNCHANGED <<built, sound, tags, schema, replica, script, history>>

Next ==
  \/ Pin \/ Build \/ Migrate \/ Smoke \/ Promote \/ Rollback \/ CutOff
  \/ \E a \in Apps : Recreate(a) \/ Waited(a) \/ GivenUp(a) \/ Probe(a)
  \/ DatabaseFails \/ DatabaseReturns

Spec == Init /\ [][Next]_vars

-----------------------------------------------------------------------------

Steps == {"build", "migrate", "app2", "wait app2", "app1", "wait app1", "smoke", "promote"}

TypeOK ==
  /\ built \in Images /\ sound \subseteq 1..built /\ proven \subseteq 1..built
  /\ latest \in 1..built /\ previous \in 0..built /\ pending \in 0..built
  /\ schema \in 1..built
  /\ db \in BOOLEAN /\ calm \in BOOLEAN /\ passedOver \subseteq 1..built
  /\ replica \in [Apps -> [image : 1..built, health : {"starting", "healthy", "unhealthy"}]]
  /\ script = Resting \/ script \in [op : {"deploy", "rollback"}, at : Steps]

Upgraded == script.at \in Steps \ {"build", "migrate"}

\* No container is ever started from an image whose migration is missing,
\* neither by a deploy nor by a rollback.
SchemaCovers ==
  /\ \A a \in Apps : replica[a].image <= schema
  /\ previous <= schema
  /\ script.at = "migrate" => latest = built
  /\ script.at = "promote" => script.op = "deploy"
  /\ Upgraded => latest <= schema /\ (script.op = "deploy" => pending <= schema)

\* What a rollback would start has been through a smoke test, or is an image
\* that somebody began a deploy over although it had not.
TargetProven ==
  /\ previous \in proven \cup passedOver \cup {0}
  /\ script.op = "deploy" => pending \in proven \cup passedOver

\* Where a script stands tells which replica is up.
CalmPhases ==
  /\ \A a \in Apps : Healthy(a) => replica[a].image \in sound
  /\ calm => /\ db
             /\ script.at \in {"build", "migrate", "app2", "wait app2"} => Healthy("app1")
             /\ script.at \in {"app1", "wait app1", "smoke", "promote"} => Healthy("app2")
             /\ Serving

\* The rollback target is an image that the schema covers, and one that was
\* proven unless a deploy was begun over it unproven (deploy.sh:53-59,
\* 102-107, 134-137); app1, then app2, is up while the other is recreated.
IInv == TypeOK /\ SchemaCovers /\ TargetProven /\ CalmPhases

\* deploy.sh:2, 94-115 and rollback.sh:2-4: a script that began with two
\* replicas healthy for docker leaves one healthy at every moment, whatever
\* fails or is cut off, while the database answers.
AlwaysServing == calm => Serving
=============================================================================
