\* Two requests of up to three chunks, one reload.
CONSTANTS
    MaxRequests = 2
    Scripts <- Providers
    MaxMounts = 1
SPECIFICATION FairSpec
INVARIANTS FaithfulAnswer NeverStuck
PROPERTIES AnswerSettles
CHECK_DEADLOCK FALSE
