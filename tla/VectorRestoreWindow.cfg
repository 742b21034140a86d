CONSTANTS
    c1 = c1
    v1 = v1
    v2 = v2
    A = A
    B = B
    NoFile = NoFile
    Torn = Torn
    Cells <- MCCells
    Values = {0, 1}
    Original <- MCOriginal
    CProcs = {c1}
    CSites = {A}
    CRecord <- MCCRecord
    CPayload <- MCCPayload
    Owned <- MCOwned
    VProcs = {v1}
    VSites = {B}
    VRecord <- MCVRecord
    VPayload <- MCVPayload
    OtherCells = {}
SPECIFICATION SerialSpec
PROPERTY VectorWritesConfined
