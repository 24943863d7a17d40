\* Two requests at a time, one manual mod, two Steam ids, three versions.
CONSTANTS
  Requests = {r1, r2}
  SteamIds = {7, 8}
  MaxManual = 1
  MaxBatch = 2
  MaxWork = 4
  MaxFiles = 3
  Replicas = {app1, app2}
  MaxRestarts = 1
  MaxItems = 3
  MaxPosition = 3
  Chosen = {0, 2}
SPECIFICATION Spec
INVARIANTS IInv CurrentFiles CountsAreHonest PositionsApart
PROPERTIES BatchesEnd MovesAreSwaps
CHECK_DEADLOCK FALSE
CONSTRAINT OnePart
