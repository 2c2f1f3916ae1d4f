SPECIFICATION Spec
CONSTANTS
    Client = {c1, c2}
    Slot <- ApiSlot
    Request <- ApiRequest
    Fields <- ApiFields
    CreateOf <- ApiCreateOf
    UpdateOf <- ApiUpdateOf
    DeleteOf <- ApiDeleteOf
    Copied <- ApiCopied
    Protected <- ApiProtected
    Focus <- MCFocus
SYMMETRY Clients
CHECK_DEADLOCK FALSE
INVARIANTS RefsResolve
PROPERTY DeletesOnlyTerminated
