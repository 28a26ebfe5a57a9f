SPECIFICATION FairSpec
CONSTANTS
    c1 = c1
    r1 = r1
    r2 = r2
    Checks <- OneCheck
    RunIds <- OneCheckRuns
    Origin <- Origins
    Home = "home"
    Workflow <- OneCheckOf
    Wait = 2
    Poll = 3
    MaxClock = 3
    MaxReruns = 1

PROPERTIES NoPassOverFailure GateEnds GreenIsSeen
CHECK_DEADLOCK FALSE
