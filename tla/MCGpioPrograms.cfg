\* The queues in full, and ten rising edges for the counter.
SPECIFICATION Spec
CONSTANTS
    QueueSize = 10
    MaxEdges = 10
INVARIANTS
    TypeOK
    QuietTruth
    EachEdgeOnce
