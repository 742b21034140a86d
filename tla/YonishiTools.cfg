CONSTANTS
    Scenes <- MCScenes
    ParDrafts <- MCParDrafts
    HDrafts <- MCHDrafts
    Rebuilds = {r1, r2}
    Gone = gone
    Slots = 2
    MaxEdits = 2
    MaxRecords = 2
SPECIFICATION Spec
CHECK_DEADLOCK FALSE
INVARIANTS ReadersExact RowsExact RecordsTrue ManifestKept
