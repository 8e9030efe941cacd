SPECIFICATION Spec
CHECK_DEADLOCK FALSE
INVARIANTS
    ArenaSafe
    DequeRight
    TreeRight
    PacketsRight
    ReplaceAtomic
    ReferenceAgrees
PROPERTIES
    EventsRight
    MetricsRight
