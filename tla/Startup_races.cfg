\* Two instances, up to three outages, crashes or failing calls.
SPECIFICATION FairSpec
CONSTANTS
    Instances <- MCInstances
    Direct = {"api"}
    DependsOn <- MCDependsOn
    MaxFaults = 3
\* All listen, or the migration has failed.
CHECK_DEADLOCK FALSE
INVARIANTS
    TypeOK
    ListeningMeansReady
PROPERTY StartedListens
