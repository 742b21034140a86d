CONSTANTS
    Offsets <- MCOffsets
    Streams <- MCStreams
    Entry = 2
    Sprite = 3
    SpriteCap = 1
SPECIFICATION Spec
CHECK_DEADLOCK FALSE
INVARIANT InstructionsAreRecords
