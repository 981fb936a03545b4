SPECIFICATION Spec
CONSTANTS
    Uuids = {u1, u2}
    Types = {"bin"}
    Payloads = {b1, b2}
    Available = {b1, b2}
    NoName = ""
    Names <- MCNames
    Nodes <- MCNodes
    Storage <- MCStorage
    Capacity <- MCCapacity
    TypeOf <- MCTypeOf
    StartAt <- MCStartAt
    Requests <- RetrieveAndMove
    Waybills <- NoWaybills
    NewDests = {}
    Inputs = {"request", "cancel", "receipt"}
    FleetStates = {"RUNNING", "FINISHED", "FAILED"}
    Faults = {"create_rejected"}
    MaxInputs = 4
SYMMETRY Interchangeable
INVARIANT OneRobotPerPayload
PROPERTY BookedWhereDelivered
INVARIANT OnlyFleetFailureLeaks
CHECK_DEADLOCK FALSE
