SPECIFICATION MCSpec
CONSTANTS
    None = None
    Claims = {"c1"}
    Specs <- MCSpecs
    CloudStates <- MCCloudStates
    Subnets <- MCSubnets
    VPCOf <- MCVPCOf
    ZoneOf <- MCZoneOf
    TotalIPs <- MCTotalIPs
    RegionOf <- MCRegionOf
    OlderNodes <- MCOlderNodes
    GroupVPC <- MCGroupVPC
    DefaultGroup <- MCDefaultGroup
    Meant <- MCMeant
    Atoi <- MCAtoi
    Letters <- MCLetters
    Regions <- MCRegions
    Profiles = {"p1", "p2"}
    Refreshing = TRUE
    MaxStamps = 1
    MaxEdits = 1
    MaxChanges = 1
INVARIANTS ClassIsConsistent
PROPERTIES ClassFollows
CHECK_DEADLOCK FALSE
