\* Three clicks on a list of two pages, two batches of three models in rounds of
\* two, one failing answer.
CONSTANTS
    Pages = {1, 2}
    Filters = {"all", "on"}
    Keywords = {"", "k"}
    NModels = 3
    Limit = 2
    MaxClicks = 3
    MaxBatches = 2
    MaxErrors = 1
SPECIFICATION FairSpec
INVARIANTS NewestWins NoStuckSpinner BatchCoversAll
PROPERTIES BatchEnds
CHECK_DEADLOCK FALSE
