SPECIFICATION Spec
CONSTANTS
    Null = Null
    BitsPerByte = 2
    CountBase = 2
    CountTop = 3
    Workloads <- Tables
    MaxChunk = 2
    MaxWant = 3
INVARIANTS ReadsBack IndexExact CorruptionReported
PROPERTIES MovesAsColumnIterator
CHECK_DEADLOCK FALSE
