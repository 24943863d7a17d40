---------------------------- MODULE DeployProofs ----------------------------
(***************************************************************************)
(* Deploys and rollbacks keep a replica serving, and an image to roll back *)
(* to that the schema covers and that was proven, or deployed over though  *)
(* it was not, for any number of images.  Each part of IInv has its *)
(* own lemma, with one step per action.                                    *)
(***************************************************************************)
EXTENDS Deploy, TLAPS

LEMMA InitInv == Init => IInv
BY ImagesAssumption DEF Init, IInv, TypeOK, SchemaCovers, TargetProven, CalmPhases,
   Images, Apps, Resting, Steps, Upgraded, Healthy, Serving

Scripts == [op : {"deploy", "rollback"}, at : Steps]

\* A script at a command is a script, and going on keeps its kind.
LEMMA AtStep ==
  ASSUME TypeOK, NEW step \in Steps, At(step)
  PROVE  script \in Scripts
<1>1. CASE script = Resting
  <2>1. script.at = "end"
    BY <1>1 DEF Resting
  <2> QED BY <2>1 DEF At, Steps
<1>2. CASE script \in [op : {"deploy", "rollback"}, at : Steps]
  BY <1>2 DEF Scripts
<1> QED BY <1>1, <1>2 DEF TypeOK

LEMMA GoStep ==
  ASSUME TypeOK, script \in Scripts, NEW step \in Steps, Go(step)
  PROVE  script' \in Scripts /\ script'.at = step /\ script'.op = script.op
BY DEF Go, Scripts

LEMMA StartStep ==
  ASSUME NEW op \in {"deploy", "rollback"}, NEW step \in Steps, Start(op, step)
  PROVE  script = Resting /\ script' \in Scripts /\ script'.at = step /\ script'.op = op
BY DEF Start, Scripts

\* Whatever a command does, the state keeps its shape.
LEMMA TypeStep == IInv /\ [Next]_vars => TypeOK'
<1> SUFFICES ASSUME IInv, [Next]_vars PROVE TypeOK'
  OBVIOUS
<1> USE DEF IInv, TypeOK, Scripts, Resting, tags, history
<1>1. CASE Pin
  <2>1. script = Resting /\ script' \in Scripts /\ script'.at = "build" /\ script'.op = "deploy"
    BY <1>1, StartStep DEF Pin, Steps
  <2> QED BY <1>1, <2>1 DEF Pin, Start, Images, Apps
<1>2. CASE Build
  <2>1. script \in Scripts /\ script.at = "build"
    BY <1>2, AtStep DEF Build, Steps, At, IInv
  <2>2. CASE Stop /\ UNCHANGED <<built, sound, latest>>
    BY <1>2, <2>2 DEF Build, Stop, Images, Apps
  <2>3. CASE /\ built < MaxImages /\ built' = built + 1 /\ latest' = built + 1
            /\ sound' \in {sound, sound \cup {built + 1}}
            /\ Go("migrate")
    <3>1. script' \in Scripts /\ script'.at = "migrate" /\ script'.op = script.op
      BY <2>1, <2>3, GoStep DEF Steps, IInv
    <3>2. built' \in Images /\ built \in Nat /\ built' = built + 1
      BY <2>3, ImagesAssumption DEF Images
    <3>3. 1..built \subseteq 1..built' /\ 0..built \subseteq 0..built'
      BY <3>2
    <3>4. sound' \subseteq 1..built'
      BY <2>3, <3>2, <3>3
    <3>5. proven' \subseteq 1..built' /\ latest' \in 1..built' /\ schema' \in 1..built'
      BY <1>2, <2>3, <3>2, <3>3 DEF Build
    <3>6. previous' \in 0..built' /\ pending' \in 0..built'
      BY <1>2, <3>3 DEF Build
    <3>7. db' \in BOOLEAN /\ calm' \in BOOLEAN /\ passedOver' \subseteq 1..built'
      BY <1>2, <3>3 DEF Build
    <3>8. replica' \in [Apps -> [image : 1..built', health : {"starting", "healthy", "unhealthy"}]]
      BY <1>2, <3>3 DEF Build
    <3> QED BY <3>1, <3>2, <3>4, <3>5, <3>6, <3>7, <3>8
  <2> QED BY <1>2, <2>2, <2>3 DEF Build
<1>3. CASE Migrate
  <2>1. script \in Scripts /\ script.at = "migrate"
    BY <1>3, AtStep DEF Migrate, Steps, At, IInv
  <2>2. CASE Stop /\ UNCHANGED schema
    BY <1>3, <2>1, <2>2 DEF Migrate, Stop, Images, Apps
  <2>3. CASE db /\ schema' = latest /\ Go("app2")
    <3>1. script' \in Scripts /\ script'.at = "app2" /\ script'.op = script.op
      BY <2>1, <2>3, GoStep DEF Steps, IInv
    <3> QED BY <1>3, <2>1, <3>1 DEF Migrate, Stop, Resting, Images, Apps
  <2> QED BY <1>3, <2>2, <2>3 DEF Migrate
<1>4. CASE Smoke
  <2>1. script \in Scripts /\ script.at = "smoke"
    BY <1>4, AtStep DEF Smoke, Steps, At, IInv
  <2>2. CASE Stop
    BY <1>4, <2>1, <2>2 DEF Smoke, Stop, Images, Apps
  <2>3. CASE Go("promote")
    <3>1. script' \in Scripts /\ script'.at = "promote" /\ script'.op = script.op
      BY <2>1, <2>3, GoStep DEF Steps, IInv
    <3> QED BY <1>4, <2>1, <3>1 DEF Smoke, Images, Apps
  <2> QED BY <1>4, <2>2, <2>3 DEF Smoke
<1>5. CASE Promote
  <2>1. script \in Scripts /\ script.at = "promote"
    BY <1>5, AtStep DEF Promote, Steps, At, IInv
  <2> QED BY <1>5, <2>1 DEF Promote, Stop, Images, Apps
<1>6. CASE Rollback
  <2>1. script = Resting /\ script' \in Scripts /\ script'.at = "app2" /\ script'.op = "rollback"
    BY <1>6, StartStep DEF Rollback, Steps
  <2> QED BY <1>6, <2>1 DEF Rollback, Start, Images, Apps
<1>7. CASE CutOff
  BY <1>7 DEF CutOff, Stop, Images, Apps
<1>8. ASSUME NEW a \in Apps, Recreate(a) PROVE TypeOK'
  <2>1. script \in Scripts /\ script.at = a
    BY <1>8, AtStep DEF Recreate, Steps, At, Apps, IInv
  <2>2. CASE a = "app2"
    <3>1. script' \in Scripts /\ script'.at = "wait app2" /\ script'.op = script.op
      BY <1>8, <2>1, <2>2, GoStep DEF Recreate, Steps, IInv
    <3> QED BY <1>8, <2>1, <2>2, <3>1 DEF Recreate, Images, Apps
  <2>3. CASE a = "app1"
    <3>1. script' \in Scripts /\ script'.at = "wait app1" /\ script'.op = script.op
      BY <1>8, <2>1, <2>3, GoStep DEF Recreate, Steps, IInv
    <3> QED BY <1>8, <2>1, <2>3, <3>1 DEF Recreate, Images, Apps
  <2> QED BY <2>2, <2>3 DEF Apps
<1>9. ASSUME NEW a \in Apps, Waited(a) PROVE TypeOK'
  <2>2. CASE a = "app2"
    <3>1. script \in Scripts /\ script.at = "wait app2"
      BY <1>9, <2>2, AtStep DEF Waited, Waiting, Steps, At, IInv
    <3>2. script' \in Scripts /\ script'.at = "app1" /\ script'.op = script.op
      BY <1>9, <2>2, <3>1, GoStep DEF Waited, Steps, IInv
    <3> QED BY <1>9, <2>2, <3>1, <3>2 DEF Waited, Images, Apps
  <2>3. CASE a = "app1"
    <3>1. script \in Scripts /\ script.at = "wait app1"
      BY <1>9, <2>3, AtStep DEF Waited, Waiting, Steps, At, IInv
    <3>2. script' \in Scripts /\ script'.at = "smoke" /\ script'.op = script.op
      BY <1>9, <2>3, <3>1, GoStep DEF Waited, Steps, IInv
    <3> QED BY <1>9, <2>3, <3>1, <3>2 DEF Waited, Images, Apps
  <2> QED BY <2>2, <2>3 DEF Apps
<1>10. ASSUME NEW a \in Apps, GivenUp(a) PROVE TypeOK'
  <2>3. script' = Resting
    BY <1>10 DEF GivenUp, Stop
  <2>4. previous' \in 0..built /\ pending' \in 0..built
    BY <1>10 DEF GivenUp, Images
  <2>5. UNCHANGED <<built, sound, latest, schema, db, replica, history>>
    BY <1>10 DEF GivenUp
  <2> QED BY <2>3, <2>4, <2>5
<1>11. ASSUME NEW a \in Apps, Probe(a) PROVE TypeOK'
  BY <1>11 DEF Probe, Images, Apps
<1>12. CASE DatabaseFails \/ DatabaseReturns
  BY <1>12 DEF DatabaseFails, DatabaseReturns, Images, Apps
<1>13. CASE UNCHANGED vars
  BY <1>13 DEF vars, Images, Apps
<1> QED BY <1>1, <1>2, <1>3, <1>4, <1>5, <1>6, <1>7, <1>8, <1>9, <1>10, <1>11, <1>12, <1>13 DEF Next

\* Code is never started ahead of its migration: images are only started
\* after Migrate has passed, or were started before.
LEMMA SchemaStep == IInv /\ TypeOK' /\ [Next]_vars => SchemaCovers'
<1> SUFFICES ASSUME IInv, TypeOK', [Next]_vars PROVE SchemaCovers'
  OBVIOUS
<1> USE DEF IInv, TypeOK, SchemaCovers, Upgraded, Scripts, Resting, tags, history
<1>1. CASE Pin
  <2>1. script = Resting /\ script' \in Scripts /\ script'.at = "build" /\ script'.op = "deploy"
    BY <1>1, StartStep DEF Pin, Steps
  <2> QED BY <1>1, <2>1 DEF Pin, Start, Images, Apps, Steps
<1>2. CASE Build
  <2>1. script \in Scripts /\ script.at = "build"
    BY <1>2, AtStep DEF Build, Steps, At, IInv
  <2>2. CASE Stop /\ UNCHANGED <<built, sound, latest>>
    BY <1>2, <2>2 DEF Build, Stop, Steps
  <2>3. CASE /\ built < MaxImages /\ built' = built + 1 /\ latest' = built + 1
            /\ sound' \in {sound, sound \cup {built + 1}}
            /\ Go("migrate")
    <3>1. script' \in Scripts /\ script'.at = "migrate" /\ script'.op = script.op
      BY <2>1, <2>3, GoStep DEF Steps, IInv
    <3> QED BY <1>2, <2>3, <3>1 DEF Build, Steps
  <2> QED BY <1>2, <2>2, <2>3 DEF Build
<1>3. CASE Migrate
  <2>1. script \in Scripts /\ script.at = "migrate"
    BY <1>3, AtStep DEF Migrate, Steps, At, IInv
  <2>2. CASE Stop /\ UNCHANGED schema
    BY <1>3, <2>2 DEF Migrate, Stop, Steps
  <2>3. CASE db /\ schema' = latest /\ Go("app2")
    <3>1. script' \in Scripts /\ script'.at = "app2" /\ script'.op = script.op
      BY <2>1, <2>3, GoStep DEF Steps, IInv
    <3>2. schema' = built /\ latest' = built
      BY <1>3, <2>1, <2>3 DEF Migrate
    <3>3. previous' <= built /\ pending' <= built /\ built \in Nat
      BY <1>3 DEF Migrate, Images
    <3>4. \A a \in Apps : replica'[a].image <= built
      BY <1>3 DEF Migrate
    <3> QED BY <3>1, <3>2, <3>3, <3>4
  <2> QED BY <1>3, <2>2, <2>3 DEF Migrate
<1>4. CASE Smoke
  <2>1. script \in Scripts /\ script.at = "smoke"
    BY <1>4, AtStep DEF Smoke, Steps, At, IInv
  <2>2. CASE Stop
    BY <1>4, <2>1, <2>2 DEF Smoke, Stop, Images, Apps, Steps
  <2>3. CASE Go("promote")
    <3>1. script' \in Scripts /\ script'.at = "promote" /\ script'.op = script.op
      BY <2>1, <2>3, GoStep DEF Steps, IInv
    <3>2. script.op = "deploy"
      BY <1>4, <2>1, <3>1 DEF Smoke, Stop
    <3> QED BY <1>4, <2>1, <3>1, <3>2 DEF Smoke, Images, Apps, Steps
  <2> QED BY <1>4, <2>2, <2>3 DEF Smoke
<1>5. CASE Promote
  <2>1. script \in Scripts /\ script.at = "promote"
    BY <1>5, AtStep DEF Promote, Steps, At, IInv
  <2> QED BY <1>5, <2>1 DEF Promote, Stop, Images, Apps, Steps
<1>6. CASE Rollback
  <2>1. script = Resting /\ script' \in Scripts /\ script'.at = "app2" /\ script'.op = "rollback"
    BY <1>6, StartStep DEF Rollback, Steps
  <2> QED BY <1>6, <2>1 DEF Rollback, Start, Images, Apps, Steps
<1>7. CASE CutOff
  BY <1>7 DEF CutOff, Stop, Images, Apps, Steps
<1>8. ASSUME NEW a \in Apps, Recreate(a) PROVE SchemaCovers'
  <2>1. script \in Scripts /\ script.at = a
    BY <1>8, AtStep DEF Recreate, Steps, At, Apps, IInv
  <2>2. CASE a = "app2"
    <3>1. script' \in Scripts /\ script'.at = "wait app2" /\ script'.op = script.op
      BY <1>8, <2>1, <2>2, GoStep DEF Recreate, Steps, IInv
    <3> QED BY <1>8, <2>1, <2>2, <3>1 DEF Recreate, Images, Apps, Steps
  <2>3. CASE a = "app1"
    <3>1. script' \in Scripts /\ script'.at = "wait app1" /\ script'.op = script.op
      BY <1>8, <2>1, <2>3, GoStep DEF Recreate, Steps, IInv
    <3> QED BY <1>8, <2>1, <2>3, <3>1 DEF Recreate, Images, Apps, Steps
  <2> QED BY <2>2, <2>3 DEF Apps
<1>9. ASSUME NEW a \in Apps, Waited(a) PROVE SchemaCovers'
  <2>2. CASE a = "app2"
    <3>1. script \in Scripts /\ script.at = "wait app2"
      BY <1>9, <2>2, AtStep DEF Waited, Waiting, Steps, At, IInv
    <3>2. script' \in Scripts /\ script'.at = "app1" /\ script'.op = script.op
      BY <1>9, <2>2, <3>1, GoStep DEF Waited, Steps, IInv
    <3> QED BY <1>9, <2>2, <3>1, <3>2 DEF Waited, Images, Apps, Steps
  <2>3. CASE a = "app1"
    <3>1. script \in Scripts /\ script.at = "wait app1"
      BY <1>9, <2>3, AtStep DEF Waited, Waiting, Steps, At, IInv
    <3>2. script' \in Scripts /\ script'.at = "smoke" /\ script'.op = script.op
      BY <1>9, <2>3, <3>1, GoStep DEF Waited, Steps, IInv
    <3> QED BY <1>9, <2>3, <3>1, <3>2 DEF Waited, Images, Apps, Steps
  <2> QED BY <2>2, <2>3 DEF Apps
<1>10. ASSUME NEW a \in Apps, GivenUp(a) PROVE SchemaCovers'
  <2>1. script \in Scripts /\ script.at \in {"wait app1", "wait app2"}
    BY <1>10, AtStep DEF GivenUp, Waiting, Steps, At, IInv
  <2>2. script.at = (IF a = "app2" THEN "wait app2" ELSE "wait app1")
    BY <1>10 DEF GivenUp, Waiting, At
  <2> QED BY <1>10, <2>1, <2>2 DEF GivenUp, Stop, Images, Apps, Steps
<1>11. ASSUME NEW a \in Apps, Probe(a) PROVE SchemaCovers'
  BY <1>11 DEF Probe, Images, Apps, Steps
<1>12. CASE DatabaseFails \/ DatabaseReturns
  BY <1>12 DEF DatabaseFails, DatabaseReturns, Images, Apps, Steps
<1>13. CASE UNCHANGED vars
  BY <1>13 DEF vars, Images, Apps, Steps
<1> QED BY <1>1, <1>2, <1>3, <1>4, <1>5, <1>6, <1>7, <1>8, <1>9, <1>10, <1>11, <1>12, <1>13 DEF Next

\* The rollback target changes only to what was :latest when a deploy began.
LEMMA TargetStep == IInv /\ TypeOK' /\ [Next]_vars => TargetProven'
<1> SUFFICES ASSUME IInv, TypeOK', [Next]_vars PROVE TargetProven'
  OBVIOUS
<1> USE DEF IInv, TypeOK, TargetProven, Scripts, Resting, tags, history
<1>1. CASE Pin
  <2>1. script = Resting /\ script' \in Scripts /\ script'.at = "build" /\ script'.op = "deploy"
    BY <1>1, StartStep DEF Pin, Steps
  <2> QED BY <1>1, <2>1 DEF Pin, Start
<1>2. CASE Build
  <2>1. script \in Scripts /\ script.at = "build"
    BY <1>2, AtStep DEF Build, Steps, At, IInv
  <2>2. CASE Stop /\ UNCHANGED <<built, sound, latest>>
    BY <1>2, <2>1, <2>2, ImagesAssumption DEF Build, Stop
  <2>3. CASE /\ built < MaxImages /\ built' = built + 1 /\ latest' = built + 1
            /\ sound' \in {sound, sound \cup {built + 1}}
            /\ Go("migrate")
    <3>1. script' \in Scripts /\ script'.at = "migrate" /\ script'.op = script.op
      BY <2>1, <2>3, GoStep DEF Steps, IInv
    <3> QED BY <1>2, <2>1, <3>1, ImagesAssumption DEF Build, Stop, Resting
  <2> QED BY <1>2, <2>2, <2>3 DEF Build
<1>3. CASE Migrate
  <2>1. script \in Scripts /\ script.at = "migrate"
    BY <1>3, AtStep DEF Migrate, Steps, At, IInv
  <2>2. CASE Stop /\ UNCHANGED schema
    BY <1>3, <2>1, <2>2 DEF Migrate, Stop
  <2>3. CASE db /\ schema' = latest /\ Go("app2")
    <3>1. script' \in Scripts /\ script'.at = "app2" /\ script'.op = script.op
      BY <2>1, <2>3, GoStep DEF Steps, IInv
    <3> QED BY <1>3, <2>1, <3>1 DEF Migrate, Stop, Resting
  <2> QED BY <1>3, <2>2, <2>3 DEF Migrate
<1>4. CASE Smoke
  <2>1. script \in Scripts /\ script.at = "smoke"
    BY <1>4, AtStep DEF Smoke, Steps, At, IInv
  <2>2. CASE Stop
    BY <1>4, <2>1, <2>2 DEF Smoke, Stop
  <2>3. CASE Go("promote")
    <3>1. script' \in Scripts /\ script'.at = "promote" /\ script'.op = script.op
      BY <2>1, <2>3, GoStep DEF Steps, IInv
    <3> QED BY <1>4, <2>1, <3>1 DEF Smoke
  <2> QED BY <1>4, <2>2, <2>3 DEF Smoke
<1>5. CASE Promote
  <2>1. script \in Scripts /\ script.at = "promote"
    BY <1>5, AtStep DEF Promote, Steps, At, IInv
  <2>2. previous' = pending /\ passedOver' = passedOver /\ proven' = proven /\ script' = Resting
    BY <1>5 DEF Promote, Stop
  <2>3. script.op = "deploy"
    BY <2>1 DEF SchemaCovers
  <2> QED BY <2>1, <2>2, <2>3
<1>6. CASE Rollback
  <2>1. script = Resting /\ script' \in Scripts /\ script'.at = "app2" /\ script'.op = "rollback"
    BY <1>6, StartStep DEF Rollback, Steps
  <2> QED BY <1>6, <2>1 DEF Rollback, Start
<1>7. CASE CutOff
  BY <1>7 DEF CutOff, Stop
<1>8. ASSUME NEW a \in Apps, Recreate(a) PROVE TargetProven'
  <2>1. script \in Scripts /\ script.at = a
    BY <1>8, AtStep DEF Recreate, Steps, At, Apps, IInv
  <2>2. CASE a = "app2"
    <3>1. script' \in Scripts /\ script'.at = "wait app2" /\ script'.op = script.op
      BY <1>8, <2>1, <2>2, GoStep DEF Recreate, Steps, IInv
    <3> QED BY <1>8, <2>1, <2>2, <3>1 DEF Recreate
  <2>3. CASE a = "app1"
    <3>1. script' \in Scripts /\ script'.at = "wait app1" /\ script'.op = script.op
      BY <1>8, <2>1, <2>3, GoStep DEF Recreate, Steps, IInv
    <3> QED BY <1>8, <2>1, <2>3, <3>1 DEF Recreate
  <2> QED BY <2>2, <2>3 DEF Apps
<1>9. ASSUME NEW a \in Apps, Waited(a) PROVE TargetProven'
  <2>2. CASE a = "app2"
    <3>1. script \in Scripts /\ script.at = "wait app2"
      BY <1>9, <2>2, AtStep DEF Waited, Waiting, Steps, At, IInv
    <3>2. script' \in Scripts /\ script'.at = "app1" /\ script'.op = script.op
      BY <1>9, <2>2, <3>1, GoStep DEF Waited, Steps, IInv
    <3> QED BY <1>9, <2>2, <3>1, <3>2 DEF Waited
  <2>3. CASE a = "app1"
    <3>1. script \in Scripts /\ script.at = "wait app1"
      BY <1>9, <2>3, AtStep DEF Waited, Waiting, Steps, At, IInv
    <3>2. script' \in Scripts /\ script'.at = "smoke" /\ script'.op = script.op
      BY <1>9, <2>3, <3>1, GoStep DEF Waited, Steps, IInv
    <3> QED BY <1>9, <2>3, <3>1, <3>2 DEF Waited
  <2> QED BY <2>2, <2>3 DEF Apps
<1>10. ASSUME NEW a \in Apps, GivenUp(a) PROVE TargetProven'
  <2>1. script \in Scripts /\ script.at \in {"wait app1", "wait app2"}
    BY <1>10, AtStep DEF GivenUp, Waiting, Steps, At, IInv
  <2>2. script.at = (IF a = "app2" THEN "wait app2" ELSE "wait app1")
    BY <1>10 DEF GivenUp, Waiting, At
  <2> QED BY <1>10, <2>1, <2>2 DEF GivenUp, Stop
<1>11. ASSUME NEW a \in Apps, Probe(a) PROVE TargetProven'
  BY <1>11 DEF Probe
<1>12. CASE DatabaseFails \/ DatabaseReturns
  <2>1. passedOver' = passedOver /\ previous' = previous /\ pending' = pending
        /\ proven' = proven /\ script' = script
    BY <1>12 DEF DatabaseFails, DatabaseReturns
  <2> QED BY <2>1
<1>13. CASE UNCHANGED vars
  BY <1>13 DEF vars
<1> QED BY <1>1, <1>2, <1>3, <1>4, <1>5, <1>6, <1>7, <1>8, <1>9, <1>10, <1>11, <1>12, <1>13 DEF Next

\* app1 is healthy until app2 has been waited for, and app2 from then on.
LEMMA CalmStep == IInv /\ TypeOK' /\ [Next]_vars => CalmPhases'
<1> SUFFICES ASSUME IInv, TypeOK', [Next]_vars PROVE CalmPhases'
  OBVIOUS
<1> USE DEF IInv, TypeOK, CalmPhases, Healthy, Serving, Scripts, Resting, tags, history
<1>1. CASE Pin
  <2>1. script = Resting /\ script' \in Scripts /\ script'.at = "build" /\ script'.op = "deploy"
    BY <1>1, StartStep DEF Pin, Steps
  <2> QED BY <1>1, <2>1 DEF Pin, Start, Apps, Steps
<1>2. CASE Build
  <2>1. script \in Scripts /\ script.at = "build"
    BY <1>2, AtStep DEF Build, Steps, At, IInv
  <2>2. CASE Stop /\ UNCHANGED <<built, sound, latest>>
    BY <1>2, <2>1, <2>2, ImagesAssumption DEF Build, Stop, Apps, Steps
  <2>3. CASE /\ built < MaxImages /\ built' = built + 1 /\ latest' = built + 1
            /\ sound' \in {sound, sound \cup {built + 1}}
            /\ Go("migrate")
    <3>1. script' \in Scripts /\ script'.at = "migrate" /\ script'.op = script.op
      BY <2>1, <2>3, GoStep DEF Steps, IInv
    <3> QED BY <1>2, <2>1, <3>1, ImagesAssumption DEF Build, Stop, Resting, Apps, Steps
  <2> QED BY <1>2, <2>2, <2>3 DEF Build
<1>3. CASE Migrate
  <2>1. script \in Scripts /\ script.at = "migrate"
    BY <1>3, AtStep DEF Migrate, Steps, At, IInv
  <2>2. CASE Stop /\ UNCHANGED schema
    BY <1>3, <2>1, <2>2 DEF Migrate, Stop, Apps, Steps
  <2>3. CASE db /\ schema' = latest /\ Go("app2")
    <3>1. script' \in Scripts /\ script'.at = "app2" /\ script'.op = script.op
      BY <2>1, <2>3, GoStep DEF Steps, IInv
    <3> QED BY <1>3, <2>1, <3>1 DEF Migrate, Stop, Resting, Apps, Steps
  <2> QED BY <1>3, <2>2, <2>3 DEF Migrate
<1>4. CASE Smoke
  <2>1. script \in Scripts /\ script.at = "smoke"
    BY <1>4, AtStep DEF Smoke, Steps, At, IInv
  <2>2. CASE Stop
    BY <1>4, <2>1, <2>2 DEF Smoke, Stop, Apps, Steps
  <2>3. CASE Go("promote")
    <3>1. script' \in Scripts /\ script'.at = "promote" /\ script'.op = script.op
      BY <2>1, <2>3, GoStep DEF Steps, IInv
    <3> QED BY <1>4, <2>1, <3>1 DEF Smoke, Apps, Steps
  <2> QED BY <1>4, <2>2, <2>3 DEF Smoke
<1>5. CASE Promote
  <2>1. script \in Scripts /\ script.at = "promote"
    BY <1>5, AtStep DEF Promote, Steps, At, IInv
  <2> QED BY <1>5, <2>1 DEF Promote, Stop, Apps, Steps
<1>6. CASE Rollback
  <2>1. script = Resting /\ script' \in Scripts /\ script'.at = "app2" /\ script'.op = "rollback"
    BY <1>6, StartStep DEF Rollback, Steps
  <2> QED BY <1>6, <2>1 DEF Rollback, Start, Apps, Steps
<1>7. CASE CutOff
  BY <1>7 DEF CutOff, Stop, Apps, Steps
<1>8. ASSUME NEW a \in Apps, Recreate(a) PROVE CalmPhases'
  <2>1. script \in Scripts /\ script.at = a
    BY <1>8, AtStep DEF Recreate, Steps, At, Apps, IInv
  <2>2. CASE a = "app2"
    <3>1. script' \in Scripts /\ script'.at = "wait app2" /\ script'.op = script.op
      BY <1>8, <2>1, <2>2, GoStep DEF Recreate, Steps, IInv
    <3> QED BY <1>8, <2>1, <2>2, <3>1 DEF Recreate, Apps, Steps
  <2>3. CASE a = "app1"
    <3>1. script' \in Scripts /\ script'.at = "wait app1" /\ script'.op = script.op
      BY <1>8, <2>1, <2>3, GoStep DEF Recreate, Steps, IInv
    <3> QED BY <1>8, <2>1, <2>3, <3>1 DEF Recreate, Apps, Steps
  <2> QED BY <2>2, <2>3 DEF Apps
<1>9. ASSUME NEW a \in Apps, Waited(a) PROVE CalmPhases'
  <2>2. CASE a = "app2"
    <3>1. script \in Scripts /\ script.at = "wait app2"
      BY <1>9, <2>2, AtStep DEF Waited, Waiting, Steps, At, IInv
    <3>2. script' \in Scripts /\ script'.at = "app1" /\ script'.op = script.op
      BY <1>9, <2>2, <3>1, GoStep DEF Waited, Steps, IInv
    <3> QED BY <1>9, <2>2, <3>1, <3>2 DEF Waited, Apps, Steps
  <2>3. CASE a = "app1"
    <3>1. script \in Scripts /\ script.at = "wait app1"
      BY <1>9, <2>3, AtStep DEF Waited, Waiting, Steps, At, IInv
    <3>2. script' \in Scripts /\ script'.at = "smoke" /\ script'.op = script.op
      BY <1>9, <2>3, <3>1, GoStep DEF Waited, Steps, IInv
    <3> QED BY <1>9, <2>3, <3>1, <3>2 DEF Waited, Apps, Steps
  <2> QED BY <2>2, <2>3 DEF Apps
<1>10. ASSUME NEW a \in Apps, GivenUp(a) PROVE CalmPhases'
  <2>1. script \in Scripts /\ script.at \in {"wait app1", "wait app2"}
    BY <1>10, AtStep DEF GivenUp, Waiting, Steps, At, IInv
  <2>2. script.at = (IF a = "app2" THEN "wait app2" ELSE "wait app1")
    BY <1>10 DEF GivenUp, Waiting, At
  <2> QED BY <1>10, <2>1, <2>2 DEF GivenUp, Stop, Apps, Steps
<1>11. ASSUME NEW a \in Apps, Probe(a) PROVE CalmPhases'
  <2>0. ASSUME NEW b \in Apps
        PROVE  /\ replica'[b].image = replica[b].image
               /\ b # a => replica'[b].health = replica[b].health
               /\ b = a => replica'[b].health =
                    IF db /\ replica[b].image \in sound THEN "healthy" ELSE "unhealthy"
    <3> DEFINE seen == IF db /\ replica[a].image \in sound THEN "healthy" ELSE "unhealthy"
    <3>1. replica' = [replica EXCEPT ![a].health = seen]
      BY <1>11 DEF Probe
    <3>2. replica \in [Apps -> [image : 1..built, health : {"starting", "healthy", "unhealthy"}]]
      BY DEF IInv, TypeOK
    <3> HIDE DEF seen
    <3>3. replica'[b] = IF b = a THEN [replica[b] EXCEPT !.health = seen] ELSE replica[b]
      BY <3>1, <3>2
    <3> QED BY <3>2, <3>3 DEF seen
  <2>1. ASSUME NEW b \in Apps, Healthy(b)' PROVE replica'[b].image \in sound'
    <3>1. sound' = sound
      BY <1>11 DEF Probe
    <3>2. b # a => replica[b].image \in sound
      BY <2>0, <2>1 DEF IInv, CalmPhases, Healthy
    <3>3. b = a => replica[b].image \in sound
      BY <2>0, <2>1 DEF Healthy
    <3> QED BY <2>0, <3>1, <3>2, <3>3
  <2>2. ASSUME NEW b \in Apps, calm', Healthy(b) PROVE Healthy(b)'
    <3>1. calm
      BY <1>11, <2>2 DEF Probe
    <3>2. db /\ replica[b].image \in sound
      BY <2>2, <3>1 DEF IInv, CalmPhases
    <3> QED BY <2>0, <2>2, <3>2 DEF Healthy
  <2>3. script' = script /\ calm' = calm
    BY <1>11 DEF Probe
  <2>4. calm' => Serving'
    BY <2>2, <2>3
  <2> HIDE DEF Healthy, Serving
  <2>5. calm' /\ script'.at \in {"build", "migrate", "app2", "wait app2"} => Healthy("app1")'
    BY <2>2, <2>3 DEF Apps
  <2>6. calm' /\ script'.at \in {"app1", "wait app1", "smoke", "promote"} => Healthy("app2")'
    BY <2>2, <2>3 DEF Apps
  <2>7. calm' => db'
    BY <1>11 DEF Probe
  <2>8. \A b \in Apps : Healthy(b)' => replica'[b].image \in sound'
    BY <2>1
  <2>9. sound' = sound
    BY <1>11 DEF Probe
  <2> QED BY <2>4, <2>5, <2>6, <2>7, <2>8, <2>9
<1>12. CASE DatabaseFails \/ DatabaseReturns
  BY <1>12 DEF DatabaseFails, DatabaseReturns, Apps, Steps
<1>13. CASE UNCHANGED vars
  BY <1>13 DEF vars, Apps, Steps
<1> QED BY <1>1, <1>2, <1>3, <1>4, <1>5, <1>6, <1>7, <1>8, <1>9, <1>10, <1>11, <1>12, <1>13 DEF Next

LEMMA InvStep == IInv /\ [Next]_vars => IInv'
BY TypeStep, SchemaStep, TargetStep, CalmStep DEF IInv

\* A rollback starts an image that the schema covers, and one that was proven
\* unless a deploy was begun over it unproven (deploy.sh:53-59, 102-107,
\* 134-137).
THEOREM RollbackTarget == Spec => []IInv
BY InitInv, InvStep, PTL DEF Spec

\* A script that began with two healthy replicas keeps one healthy, for any
\* number of images (deploy.sh:94-115, rollback.sh:2-4).
THEOREM NoDowntime == Spec => []AlwaysServing
<1>1. IInv => AlwaysServing
  BY DEF IInv, CalmPhases, AlwaysServing
<1> QED BY <1>1, RollbackTarget, PTL
=============================================================================
