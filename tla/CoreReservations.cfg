SPECIFICATION Spec
CONSTANTS
    Uuids = {u1, u2}
    Types = {"bin"}
    Payloads = {b1, b2}
    Available = {b1, b2}
    NoName = ""
    Names <- MCNames
    Nodes <- MCNodes
    Storage <- MCStorage
    Capacity <- MCCapacity
    TypeOf <- MCTypeOf
    StartAt <- MCStartAt
    Requests <- RetrieveAndMove
    Waybills <- NoWaybills
    NewDests = {"store2"}
    Inputs = {"request", "repeat", "cancel", "receipt", "redirect"}
    FleetStates = {"RUNNING", "FINISHED"}
    Faults = {}
    MaxInputs = 3
SYMMETRY Interchangeable
INVARIANT TypeOK
INVARIANT OneClaimPerOrder
PROPERTY ClaimNotStolen
CHECK_DEADLOCK FALSE
