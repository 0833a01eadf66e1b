CONSTANTS
    None = None
    Names = {0, 1, 2}
    Mids = {1, 2, 3}
    MinReplicas = 1
    MaxReplicas = 2
    OnDemandMin = 0
    RouterApis = {TRUE, FALSE}
    Tunnels = FALSE
    SlowBoots = FALSE
    MaxFaults = 1
SPECIFICATION FairSpec
PROPERTIES StepsAreSafe FleetRecovers
