\* A queue of two and four events: the queue fills up before, during and after
\* close(). Everything may stop once the events are published.
CONSTANTS
    QueueSize = 2
    MaxEvents = 4
    Sentinel = Sentinel
SPECIFICATION QueueFairSpec
CHECK_DEADLOCK FALSE
INVARIANTS
    EventsKeepOrder
    EventsAccountedFor
PROPERTY CloseStopsWorker
