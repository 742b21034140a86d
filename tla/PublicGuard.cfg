CONSTANTS
    None = None
    Gone = None
    Paths = {1, 2, 3, 4, 5}
    Skipped = {2}
    Banned = {3}
    Inside = {4}
    Allowlisted = {4, 5}
    Contents <- MCContents
    Trees <- MCTrees
    MaxEdits = 1
SPECIFICATION Spec
CHECK_DEADLOCK FALSE
INVARIANTS ReportExact AlarmIsReal
