SPECIFICATION Spec
CONSTANTS
    Documents <- MCDocuments
    Valid <- MCValid
    Torn <- MCTorn
    Shipped = shipped
    MaxEdits = 0
    None = None
    Requests = {r1}
    Inputs <- MCInputs
    Users = {u1}
    Rules <- MCRules
    Limit <- MCLimit
    u1 = u1
    shipped = shipped
    frozen = frozen
    broken = broken
    prefix = prefix
INVARIANT HighValueScoped
CHECK_DEADLOCK FALSE
