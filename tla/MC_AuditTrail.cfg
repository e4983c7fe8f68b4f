SPECIFICATION Spec
CONSTANTS
    MaxRequests = 4
    MaxStarts = 3
    None = None
INVARIANTS SeenIsDurable JournalReplays
CHECK_DEADLOCK FALSE
