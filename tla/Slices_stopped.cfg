SPECIFICATION Spec
CONSTANTS
    Node = Node
    None = None
    Bad = Bad
    Default = Default
    Inherit = Inherit
    Fields = {"attempts"}
    AxisOrder <- MCAxes
    Tasks = {s, t}
    Apps <- MCSame
    MaxDepth = 2
INVARIANT DependenciesAreLive
CHECK_DEADLOCK FALSE
