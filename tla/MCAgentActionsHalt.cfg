SPECIFICATION Spec
CONSTANTS
    p1 = p1
    p2 = p2
    a1 = a1
    a2 = a2
    Plans = {p1, p2}
    Actions = {a1, a2}
    PlanOf <- MCPlanOf
    Needs <- MCNeeds
    Sources = {"dashboard", "slack"}
    Handled = {a1}
    Ops = {o1, o2}
    MaxRequests = 4
    MayFail = TRUE
    None = None
PROPERTIES
    HaltStops
CHECK_DEADLOCK FALSE
