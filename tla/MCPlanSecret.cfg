SPECIFICATION Spec
CONSTANTS
    Plans = {p1, p2}
    NoPlan = NoPlan
    Limits <- OneLimit
    MaxFailureCount = 2
INVARIANTS TypeOK InSyncPlanRan ProbesPassedForThisPlan
PROPERTIES ImplementsDelivery FailedPlanStaysFailed PlanConcludes ConditionFollowsSecret
