CONSTANTS
    c1 = c1  c2 = c2  c3 = c3  m1 = m1  m2 = m2  free = free
    Calls = {c1, c2}
    Managers = {m1}
    Capacity = 1
    Sizes = {1}
    Kinds = {"enqueue", "dequeue"}
    Free = free
SPECIFICATION FairSpec
CHECK_DEADLOCK FALSE
PROPERTY CallbackIsGuaranteed
