CONSTANTS
    NoIdentity = NoIdentity
    UeIds <- MC_UeIds
    CtxIds <- MC_CtxIds
    DataIds <- MC_DataIds
    UeGutis <- MC_NoGutis
    Imsis <- MC_NoImsis
    Imeis <- MC_Imeis
    Caps <- MC_Caps1
    AttachTypes <- MC_Emergency
    ATTACH_COUNTER_MAX <- MC_ATTACH_COUNTER_MAX
    EmergencyAttach = TRUE
    UnauthenticatedImsi = TRUE
    Failures <- MC_NoFailures
    EsmResults <- MC_EsmTwo
    MaxRequests = 1
SPECIFICATION Spec
PROPERTY ImeiOnlyEmergencyKept
CHECK_DEADLOCK FALSE
