SPECIFICATION Spec
CONSTANTS
    Uuids = {u1}
    Types = {"bin"}
    Payloads = {b1, b2}
    Available = {b1, b2}
    NoName = ""
    Names <- MCNames
    Nodes <- MCNodes
    Storage <- MCStorage
    Capacity <- MCCapacity
    TypeOf <- MCTypeOf
    StartAt <- MCStartAt
    Requests <- RetrieveRequests
    Waybills <- NoWaybills
    NewDests = {"store2"}
    Inputs = {"request", "receipt", "redirect"}
    FleetStates = {"RUNNING", "FINISHED"}
    Faults = {}
    MaxInputs = 3
PROPERTY BookedWhereDelivered
CHECK_DEADLOCK FALSE
