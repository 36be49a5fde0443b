CONSTANTS
    NoIdentity = NoIdentity
    UeIds <- MC_UeIds
    CtxIds <- MC_CtxIds
    DataIds <- MC_DataIds
    UeGutis <- MC_NoGutis
    Imsis <- MC_Imsis
    Imeis <- MC_NoImeis
    Caps <- MC_Caps
    AttachTypes <- MC_EPS
    ATTACH_COUNTER_MAX <- MC_ATTACH_COUNTER_MAX
    EmergencyAttach = FALSE
    UnauthenticatedImsi = FALSE
    Failures <- MC_NoFailures
    EsmResults <- MC_EsmAll
    MaxRequests = 1
SPECIFICATION Spec
PROPERTY AttachConcludes
CHECK_DEADLOCK FALSE
