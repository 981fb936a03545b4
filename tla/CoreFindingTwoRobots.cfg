SPECIFICATION Spec
CONSTANTS
    Uuids = {u1, u2}
    Types = {"bin"}
    Payloads = {b1, b2}
    Available = {b1, b2}
    NoName = ""
    Names <- MCNames
    Nodes <- MCNodes
    Storage <- MCStorage
    Capacity <- MCCapacity
    TypeOf <- MCTypeOf
    StartAt <- MCStartAt
    Requests <- RetrieveAndMove
    Waybills <- NoWaybills
    NewDests = {}
    Inputs = {"request", "repeat", "receipt"}
    FleetStates = {"RUNNING", "FINISHED"}
    Faults = {}
    MaxInputs = 4
SYMMETRY Interchangeable
INVARIANT OneRobotPerPayload
CHECK_DEADLOCK FALSE
