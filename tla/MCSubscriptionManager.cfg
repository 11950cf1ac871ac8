CONSTANTS
    Tokens = {a, b, c}
    BatchSizes = {0, 2}
    MaxChanges = 3
    MaxInFlight = 1
SPECIFICATION ManagerFairSpec
INVARIANTS ManagerTypeOK ActiveFollowsServer
PROPERTIES BatchesPartitionNeed Converges
