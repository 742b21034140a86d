CONSTANTS
    p1 = p1
    p2 = p2
    A = A
    B = B
    C = C
    D = D
    NoFile = NoFile
    Torn = Torn
    Procs = {p1, p2}
    Cells <- MCCells
    Values = {0, 1}
    Sites <- MCSites
    Record <- MCRecord
    Payload <- MCPayload
    Original <- MCOriginal
    Owned <- MCOwned
SPECIFICATION Spec
SYMMETRY Perms
INVARIANTS TypeOK BackupPristine AtMostOneEdit Recoverable
PROPERTIES LitterOnlyWhenAborted ImplementsPromise
