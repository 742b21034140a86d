CONSTANTS
    Sources <- MCSources
    Containers <- MCContainers
    WD3 = 99
    Radix = 16
    MaxStreams = 3
SPECIFICATION TripSpec
CHECK_DEADLOCK FALSE
INVARIANTS Serializable CellsKept SecondTripSame CountedOnce OwnersExact OrphanIsReal RefusedForCause MapFitsBlob
