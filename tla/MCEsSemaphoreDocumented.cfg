CONSTANTS
    Threads = {t1, t2}
    InitialCount = 0
    MaxCount = 0
    SemValueMax = 3
    MaxInterrupts = 0
SPECIFICATION Spec
PROPERTIES
    ImplementsDocumentedSemaphore
CHECK_DEADLOCK FALSE
