CONSTANTS
    NoIdentity = NoIdentity
    UeIds <- MC_UeIds
    CtxIds <- MC_CtxIds
    DataIds <- MC_DataIds
    UeGutis <- MC_NoGutis
    Imsis <- MC_Imsis
    Imeis <- MC_Imeis
    Caps <- MC_Caps1
    AttachTypes <- MC_Emergency
    ATTACH_COUNTER_MAX <- MC_ATTACH_COUNTER_MAX
    EmergencyAttach = TRUE
    UnauthenticatedImsi = TRUE
    Failures <- MC_EmergencyFailures
    EsmResults <- MC_EsmTwo
    MaxRequests = 1
SPECIFICATION Spec
INVARIANT TypeOK StoreConsistent NoNullDeref
PROPERTY AttachConcludes NoAcceptAfterReject
CHECK_DEADLOCK FALSE
