SPECIFICATION NetSpec
CONSTANTS
    telemetry = telemetry
    commands = commands
    api = api
    Kind <- MCKind
    Capacity = 2
    IdModulus = 4
    MaxDropped = 1
    Resource = {telemetry, commands, api}
    Policy <- MCPolicy
    Text = {"short"}
    Allowed = {"GET", "POST"}
    NetPayloadMax = 1
    RequestModulus = 3
    MaxRequests = 3
INVARIANTS TypeOK LinkIsTold RequestIdsDistinct RecordsTellTaken
PROPERTY ImplementsFifo
