SPECIFICATION FairSpec
CONSTANTS
    Documents <- MCDocuments
    Valid <- MCValid
    Torn <- MCTorn
    Shipped = shipped
    MaxEdits = 2
    None = None
    Requests = {r1}
    Inputs <- MCInputs
    Users = {u1}
    Rules <- MCRules
    Limit <- MCLimit
    u1 = u1
    shipped = shipped
    frozen = frozen
    broken = broken
    prefix = prefix
INVARIANTS TypeOK EffectsVouchedFor NeverOlderPolicy SwapUnderstood LimitLeavesNoGap
    FormDecidedFirst NothingMissed
PROPERTY Converges
CHECK_DEADLOCK FALSE
