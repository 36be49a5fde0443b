CONSTANTS
    NoIdentity = NoIdentity
    UeIds <- MC_TwoUes
    CtxIds <- MC_OneCtx
    DataIds <- MC_DataIds
    UeGutis <- MC_NoGutis
    Imsis <- MC_Imsis
    Imeis <- MC_NoImeis
    Caps <- MC_Caps
    AttachTypes <- MC_EPS
    ATTACH_COUNTER_MAX <- MC_ATTACH_COUNTER_MAX
    EmergencyAttach = FALSE
    UnauthenticatedImsi = FALSE
    Failures <- MC_SmcFailure
    EsmResults <- MC_EsmOk
    MaxRequests = 1
SPECIFICATION Spec
INVARIANT TypeOK StoreConsistent ChangeDetectionChecked
CHECK_DEADLOCK FALSE
