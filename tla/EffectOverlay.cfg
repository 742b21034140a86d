CONSTANTS
    a = a
    b = b
    c = c
    None = None
    Effects = {a, b, c}
    Bytes = {0, 1}
    Files <- MCFiles
    Blobs <- MCBlobs
    Payloads <- MCPayloads
SPECIFICATION Spec
CHECK_DEADLOCK FALSE
INVARIANTS Layered Undoable Confined LoneVerifies
