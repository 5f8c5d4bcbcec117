SPECIFICATION FairSpec
CONSTANTS
    Workflows = {"plan", "patch", "plan_build", "plan_build_document", "plan_build_review", "plan_build_test", "plan_build_test_review", "sdlc", "sdlc_zte"}
    Flags = {{}, {"skip-e2e", "skip-resolution"}}
    MaxRetries = 3
    MaxFailing = 2
INVARIANTS
    TypeOK
    MergedMeansGated
    CleanExitSucceeds
    CleanExitPublishes
PROPERTIES
    StateNeverShrinks
    ImplementsOutline
    LeadEnds
CHECK_DEADLOCK FALSE
