---------------------------- MODULE MCEmmAttach ----------------------------
(* Model-checking instance of EmmAttach: constants for the configurations *)
(* in the MCEmmAttach_*.cfg files.                                         *)
EXTENDS EmmAttach

(* One UE that identifies itself by IMSI, with the real retry limit. UE   *)
(* ids and heap addresses are drawn from disjoint ranges, as they are.   *)
MC_UeIds    == {5}
MC_CtxIds   == {1, 2, 3}
MC_DataIds  == {1, 2, 3}
MC_NoGutis  == {}
MC_Imsis    == {1}
MC_NoImsis  == {}
MC_NoImeis  == {}
MC_Caps     == {1, 2}
MC_EPS      == {"EPS"}
MC_ATTACH_COUNTER_MAX == 5
MC_NoFailures == {}
MC_EsmOk    == {"SUCCESS"}

(* ESM may answer a failure without a reject PDU. *)
MC_EsmPduFailure == {"esm_pdu"}

(* Every identity, both attach types and every external failure.          *)
MC_Gutis    == {1}
MC_TwoUes   == {5, 6}
MC_Imeis    == {1}
MC_Caps1    == {1}
MC_AllTypes == {"EPS", "EMERGENCY"}
MC_EsmAll   == {"SUCCESS", "FAILURE", "DISCARDED"}
MC_EsmTwo   == {"SUCCESS", "FAILURE"}
MC_GutiFailures == {"identification", "new_guti", "esm_pdu"}
MC_Emergency == {"EMERGENCY"}
MC_EmergencyFailures == {"identify_imei", "security_mode_control", "esm_pdu", "security_malloc"}

(* A heap that holds one context: the second UE's calloc fails. *)
MC_OneCtx   == {1}
MC_SmcFailure == {"security_mode_control"}

(* Inputs of the change detector with the real fields: two values per    *)
(* capability field; GUTIs that differ in the M-TMSI or in one GUMMEI     *)
(* digit; two IMSIs and two IMEIs.                                        *)
CONSTANT NoIdentity   \* model value

MC_Gummei(d) == [f \in {"MMEcode", "MMEgid", "MCCdigit1", "MCCdigit2", "MCCdigit3",
                         "MNCdigit1", "MNCdigit2", "MNCdigit3"} |-> IF f = "MNCdigit3" THEN d ELSE 0]
MC_HcGutis == {[m_tmsi |-> 1, gummei |-> MC_Gummei(0)], [m_tmsi |-> 2, gummei |-> MC_Gummei(0)],
               [m_tmsi |-> 1, gummei |-> MC_Gummei(1)]}

HC == INSTANCE HaveChanged WITH Vals <- {0, 1}, Gutis <- MC_HcGutis, Imsis <- {1, 2},
                                Imeis <- {1, 2}, NULL <- NoIdentity

(* The change detector of emm_proc_attach_request agrees with spec 4.3 and *)
(* with the posture the model of the context keeps (HaveChanged).          *)
ChangeDetectionChecked == HC!HaveChangedIsPostureChange
=============================================================================
