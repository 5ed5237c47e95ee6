CONSTANTS
    Probe = {p1, p2}
    Workers = 1
    MaxChanges = 2
SPECIFICATION FairSpec
INVARIANTS
    TypeOK
    UpLeavesNoProbe
    ProbeFilesAreTemporary
    BootFailsOnConfigurationOnly
    StoppedMeansReleased
PROPERTIES
    HealthzAnswers
    LifespanProgresses
CHECK_DEADLOCK FALSE
