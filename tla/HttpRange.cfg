SPECIFICATION FairRangeSpec
CONSTANTS
    Bound = 4
    Chunk = 2
INVARIANTS Resumable Complete
PROPERTIES NoHang
