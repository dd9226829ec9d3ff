CONSTANTS
    c1 = c1  c2 = c2  c3 = c3  m1 = m1  m2 = m2  free = free
    Calls = {c1, c2, c3}
    Managers = {m1}
    Capacity = 2
    Sizes = {0, 1, 3}
    Kinds = {"enqueue_many", "dequeue_many", "dequeue_up_to", "close", "close_cancel"}
    Free = free
SPECIFICATION Spec
SYMMETRY Symmetric
CHECK_DEADLOCK FALSE
INVARIANTS
    TypeOK
    FirstInFirstOut
    CalledBackOnce
    NobodyWaitsWithoutReason
    NeverYields
    StandstillNeedsACanceller
PROPERTY
    ImplementsQueueSpec
