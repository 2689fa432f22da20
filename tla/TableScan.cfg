SPECIFICATION ScanSpec
CONSTANTS
    MaxOutput = 3
    NoBound = NoBound
    NoSize = NoSize
    Scans <- AllScans
INVARIANTS ConcatCorrect MergeCorrect BatchAdvances BatchWithinBlock
CHECK_DEADLOCK FALSE
