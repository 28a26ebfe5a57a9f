SPECIFICATION AuditSpec
CONSTANTS
    GatePaths <- MCGatePaths
    GateContents <- MCGateContents
    Tagged <- MCTagged
    SourceDirectory <- MCSource
    Caller <- MCCaller
    Limit = 2
    Gates = 2
    Families <- MCFamilies
    ReleaseFamilies <- MCReleaseFamilies
    PrefixedFamilies <- MCReleaseFamilies
    Spaces <- MCSpaces
    PolicyCommits <- MCPolicyCommits
    PolicyTags <- MCPolicyTags
    History <- MCHistory
    Tree <- MCTree
    RulesetStates <- MCRulesetStates
    Manifests <- MCManifests
    Policies <- MCPolicies
    Calls <- MCCalls
    Estates <- MCEstates
    StartTimes = {3, 5}
    RetentionDays = 2
    ExpiryMargin = 1
    MaxRunPages = 2
    MaxHistoryPages = 2
    PageSize = 2
    MaxChanges = 2
    o1 = o1
    o2 = o2
    n1 = n1
    n2 = n2
    x = x
    p = p
    q = q
    T1 = T1
    T2 = T2
    Main = Main
    Plain = Plain
    NONE = NONE
    Off = Off
INVARIANTS
    PassedUnchanged RefusedForCause
     NoPassOverFailedRead EvidenceHolds AdmittedPinStaysReachable
CHECK_DEADLOCK FALSE
