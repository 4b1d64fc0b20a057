SPECIFICATION GatewayFairSpec
CONSTANTS
    MaxRetries = 3
    Profiles = {"none", "halogen"}
PROPERTY CallEnds
CHECK_DEADLOCK FALSE
