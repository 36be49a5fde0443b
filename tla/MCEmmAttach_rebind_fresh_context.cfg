CONSTANTS
    NoIdentity = NoIdentity
    UeIds <- MC_TwoUes
    CtxIds <- MC_CtxIds
    DataIds <- MC_DataIds
    UeGutis <- MC_Gutis
    Imsis <- MC_Imsis
    Imeis <- MC_NoImeis
    Caps <- MC_Caps1
    AttachTypes <- MC_EPS
    ATTACH_COUNTER_MAX <- MC_ATTACH_COUNTER_MAX
    EmergencyAttach = FALSE
    UnauthenticatedImsi = FALSE
    Failures <- MC_NoFailures
    EsmResults <- MC_EsmTwo
    MaxRequests = 1
SPECIFICATION Spec
INVARIANT StoreConsistent
CHECK_DEADLOCK FALSE
