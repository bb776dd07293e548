SPECIFICATION Spec
CONSTANTS
    Node = Node
    None = None
    Bad = Bad
    Default = Default
    Inherit = Inherit
    Fields = {"attempts"}
    AxisOrder <- MCAxes
    Tasks = {s, t}
    Apps <- MCTwoRetries
    MaxDepth = 2
INVARIANT LinksHaveOwnSettings
CHECK_DEADLOCK FALSE
