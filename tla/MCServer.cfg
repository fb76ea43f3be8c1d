SPECIFICATION Spec
CONSTANTS
    Requests = {q1, q2}
INVARIANTS
    TypeOK
    EventsOfCommitted
PROPERTIES
    GracefulExitServesWhoWaits
    ShutdownEnds
    CommittedAnswered
    EventsHandled
