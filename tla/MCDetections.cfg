SPECIFICATION Spec
CONSTANTS
    q1 = q1  q2 = q2
    Request = {q1, q2}
    Proba = {1, 3}
    Top = 4
    Default <- MCDefault
    MaxScans = 2
    MaxOps = 4
SYMMETRY Interchangeable
INVARIANTS
    ModelVerdictIsKept
    LastDecisionStands
    DecidedLeavesTheQueue
    PolicyIsOrdered
    VerdictUsesOnePolicy
    ReportHasItsFile
PROPERTIES
    PurgeIsOneWay
CHECK_DEADLOCK FALSE
