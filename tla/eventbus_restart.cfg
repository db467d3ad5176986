\* Three messages or one post, one failed commit, shutdown or restart.
CONSTANTS
    Last = 3
    Posted = {1}
    Poison = {}
    Cap = 1
    MaxFaults = 1
SPECIFICATION FairSpec
PROPERTIES
    SurvivesBroker
CHECK_DEADLOCK FALSE
