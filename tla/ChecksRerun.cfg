SPECIFICATION FairSpec
CONSTANTS
    c1 = c1
    r1 = r1
    r2 = r2
    Checks <- OneCheck
    RunIds <- OneCheckRuns
    Origin <- Origins
    Home = "home"
    Workflow <- OneCheckOf
    Wait = 1
    Poll = 1
    MaxClock = 2
    MaxReruns = 1
PROPERTY RefusesOnlyBad
CHECK_DEADLOCK FALSE
