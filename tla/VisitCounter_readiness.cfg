CONSTANTS
    w1 = w1  r1 = r1  nopod = nopod
    Pods = {w1}
    Requests = {r1}
    Routes = {"visit", "metrics"}
    MaxSetbacks = 1
    NoPod = nopod
SPECIFICATION Spec
CHECK_DEADLOCK FALSE
INVARIANT ReadyOnlyWithRedis
