SPECIFICATION Spec
CONSTANTS
    Node = Node
    None = None
    Bad = Bad
    Default = Default
    Inherit = Inherit
    Fields = {"attempts"}
    AxisOrder <- MCAxes
    Tasks = {s, t}
    Apps <- MCApps
    MaxDepth = 2
SYMMETRY Symmetry
INVARIANTS
    FieldByField
    SlicesTuneThemselves
    ExplainIsTrue
    EndpointsApart
    WatchIsExact
CHECK_DEADLOCK FALSE
