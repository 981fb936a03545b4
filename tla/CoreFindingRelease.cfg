SPECIFICATION Spec
CONSTANTS
    Uuids = {u1}
    Types = {"bin"}
    Payloads = {b1, b2}
    Available = {b1, b2}
    NoName = ""
    Names <- MCNames
    Nodes <- MCNodes
    Storage <- MCStorage
    Capacity <- MCCapacity
    TypeOf <- MCTypeOf
    StartAt <- MCStartAt
    Requests <- RetrieveRequests
    Waybills <- NoWaybills
    NewDests = {}
    Inputs = {"request"}
    FleetStates = {"RUNNING", "STOPPED"}
    Faults = {}
    MaxInputs = 1
INVARIANT ClaimReleased
CHECK_DEADLOCK FALSE
