CONSTANTS
    Opener = {opencon, addcon}
    MaxOutbound = 1
    MaxInbound = 1
    MaxNodes = 3
    None = None
SPECIFICATION Spec
INVARIANTS
    HeldNodesExist
    OutboundWithinSlots
PROPERTY LostNodeIsDeleted
