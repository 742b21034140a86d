CONSTANTS
    Offsets <- MCOffsets
    Sources <- MCSources
    RootHead = 8
    SecHead = 4
    ProgHead = 4
    SlotSize = 4
    EntrySize = 4
    RecHead = 1
    Width = 2
    OperandOffset = 1
    OperandWidth = 1
    Align = 2
    Radix = 64
    MaxPrimary = 2
    MaxAux = 2
    MaxTable = 8
    MaxSlots = 2
    MaxHandler = 7
    Family = 5
    Written = {12, 60}
    MaxEdits = 2
SPECIFICATION InventorySpec
CHECK_DEADLOCK FALSE
INVARIANTS YieldsChecked NeverAstray YieldsAll InventoryKept
PROPERTY InventoryEnds
