CONSTANTS
    s1 = s1  s2 = s2  r1 = r1  r2 = r2  r3 = r3  a1 = a1  m1 = m1  k1 = k1  k2 = k2  none = none
    Sends = {s1, s2}
    Calls = {r1, r2}
    Aborts = {a1}
    Managers = {m1}
    Keys = {k1, k2}
    Shards = 2
    NoManager = none
SPECIFICATION Spec
SYMMETRY Symmetric
CHECK_DEADLOCK FALSE
INVARIANTS
    TypeOK
    NoOvertaking
    NoMessageIsLost
    CalledBackOnce
    ReferencesAreExact
    FreedIsUnused
    OnlyRacersSurviveAnAbort
    NobodyIsForgotten
