CONSTANTS
    w1 = w1  w2 = w2  r1 = r1  r2 = r2  nopod = nopod
    Pods = {w1, w2}
    Requests = {r1, r2}
    Routes = {"visit", "metrics"}
    MaxSetbacks = 1
    NoPod = nopod
SPECIFICATION FairSpec
CHECK_DEADLOCK FALSE
INVARIANTS RepliesMatchCommands DistinctNumbers
PROPERTIES ImplementsCounterSpec NobodyWaitsForever
