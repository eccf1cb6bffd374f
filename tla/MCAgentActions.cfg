SPECIFICATION FairSpec
CONSTANTS
    p1 = p1
    p2 = p2
    a1 = a1
    a2 = a2
    Plans = {p1, p2}
    Actions = {a1, a2}
    PlanOf <- MCPlanOf
    Needs <- MCNeeds
    Sources = {"dashboard", "slack"}
    Handled = {a1}
    Ops = {o1, o2}
    MaxRequests = 3
    MayFail = TRUE
    None = None
INVARIANTS
    ExecutedHasApproval
    OutcomeIsLogged
    CompletedIsCharged
    DecidedPlanIsSettled
PROPERTIES
    ExecutingEnds
CHECK_DEADLOCK FALSE
