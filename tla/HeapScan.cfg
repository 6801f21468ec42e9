SPECIFICATION ScanSpec
CONSTANTS
    Word = 2
    Page = 2
    Window = 4
    Aligns = {1, 2, 3}
    Longest = 7
INVARIANT
    HeapScanComplete
CHECK_DEADLOCK FALSE
