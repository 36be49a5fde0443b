----------------------------- MODULE EmmAttach -----------------------------
(***************************************************************************)
(* The MME side of the EPS Attach procedure (src/NAS/EMM/Attach.c), in the *)
(* build the MME uses: NAS_BUILT_IN_EPC set, ORIGINAL_CODE unset.          *)
(*                                                                         *)
(* Every entry point of Attach.c runs to completion in one step: an        *)
(* ATTACH REQUEST, an ATTACH COMPLETE, a T3450 expiry, the continuation of *)
(* a common procedure (identification, authentication, security mode      *)
(* control) and the EMM-CN call that sends the first ATTACH ACCEPT. The    *)
(* C call chain of a handler is a chain of state transformers: every       *)
(* procedure of Attach.c is an operator from a state record to a state     *)
(* record, and an action commits the record its handler produces.          *)
(*                                                                         *)
(* Contexts and retransmission buffers are heap objects drawn from the     *)
(* pools CtxIds and DataIds and never reused, so a pointer kept after the  *)
(* object was freed stays recognisable: the set "fault" records whether a  *)
(* read, write or free of freed memory or a NULL dereference happened.    *)
(***************************************************************************)
EXTENDS Integers, FiniteSets, Bags, BagsExt

CONSTANTS
    UeIds,              \* lower-layer UE identifiers (positive integers)
    CtxIds,             \* heap addresses available to calloc for EMM contexts
    DataIds,            \* heap addresses available for attach_data_t buffers
    UeGutis,            \* GUTIs a UE may present in an ATTACH REQUEST
    Imsis,              \* IMSIs a UE may present (or return on identification)
    Imeis,              \* IMEIs a UE may present
    Caps,               \* abstract values of (ksi, eea, eia, ucs2, uea, uia, gea, ...)
    AttachTypes,        \* subset of {"EPS", "EMERGENCY"} the UEs request
    ATTACH_COUNTER_MAX, \* #define ATTACH_COUNTER_MAX 5
    EmergencyAttach,    \* MME_API_EMERGENCY_ATTACH feature bit
    UnauthenticatedImsi,\* MME_API_UNAUTHENTICATED_IMSI feature bit
    Failures,           \* external calls that may fail in this model
    EsmResults,         \* answers the ESM sublayer may give
    MaxRequests         \* bound on the ATTACH REQUESTs the UEs send

NULL == 0

ASSUME UeIds \subseteq Nat \ {0} /\ CtxIds \subseteq 1..99 /\ DataIds \subseteq Nat \ {0}
ASSUME UeGutis \subseteq 1..98 /\ Imsis \subseteq Nat \ {0} /\ Imeis \subseteq Nat \ {0}
ASSUME Caps \subseteq Nat \ {0}           \* calloc leaves the capability fields 0
ASSUME AttachTypes \subseteq {"EPS", "EMERGENCY"}
ASSUME ATTACH_COUNTER_MAX \in Nat \ {0} /\ MaxRequests \in Nat
ASSUME Failures \subseteq {"identify_imsi", "identify_imei", "new_guti", "mnc_length",
                           "identification", "security_mode_control", "esm_pdu",
                           "esm_msg_malloc", "common_initialize", "security_malloc"}
ASSUME EsmResults \subseteq {"SUCCESS", "FAILURE", "DISCARDED"} /\ EsmResults # {}

(* GUTI values. A GUTI synthesised by _emm_attach_update takes its m_tmsi  *)
(* from the context's address, one assigned by mme_api_new_guti is fresh;  *)
(* a GUTI calloc'd and never filled in is all zero.                        *)
SynthGuti(c) == 100 + c
NewGuti(c)   == 200 + c
ZERO_GUTI    == 99
AllGutis == UeGutis \cup {SynthGuti(c) : c \in CtxIds} \cup {NewGuti(c) : c \in CtxIds}
            \cup {ZERO_GUTI}

FsmStates == {"INVALID", "DEREGISTERED", "COMMON_PROCEDURE_INITIATED",
              "REGISTERED_INITIATED", "REGISTERED"}
Causes == {"SUCCESS", "ILLEGAL_UE", "IMEI_NOT_ACCEPTED", "ESM_FAILURE", "PROTOCOL_ERROR"}
SubProcs == {"identification", "authentication", "security_mode_control", "auth_info"}

(* An ATTACH REQUEST as decoded by the lower layer; the ESM container is   *)
(* mandatory in the message and always present.                           *)
Requests == [type : AttachTypes, guti : UeGutis \cup {NULL}, imsi : Imsis \cup {NULL},
             imei : Imeis \cup {NULL}, caps : Caps]

(* The outcome of every external call a handler may make, chosen up front *)
(* for one handler run. esm_pdu is FALSE when ESM answers a failure with  *)
(* no reject PDU (esm_sap.send.length = 0; malloc(0) then returns a        *)
(* unique pointer, as glibc's does); esm_msg_malloc is FALSE when the     *)
(* malloc of the context's ESM message returns NULL.                      *)
Outcome(f) == IF f \in Failures THEN BOOLEAN ELSE {TRUE}
Envs == [identify_imsi : Outcome("identify_imsi"), identify_imei : Outcome("identify_imei"),
         new_guti : Outcome("new_guti"), mnc_length : Outcome("mnc_length"),
         identification : Outcome("identification"),
         security_mode_control : Outcome("security_mode_control"), esm : EsmResults,
         esm_pdu : Outcome("esm_pdu"), esm_msg_malloc : Outcome("esm_msg_malloc"),
         common_initialize : Outcome("common_initialize"),
         security_malloc : Outcome("security_malloc")]

VARIABLES
    ctx,        \* ctx[c]: the emm_data_context_t at address c
    mem,        \* mem[c] \in {"free", "live", "freed"}: heap state of address c
    data,       \* data[d]: the attach_data_t at address d
    dmem,       \* heap state of attach_data_t address d
    store,      \* _emm_data ctx_coll_ue_id: ueid -> context address (or NULL)
    gidx,       \* _emm_data ctx_coll_guti: GUTI -> ueid (or NULL)
    commonArgs, \* args registered by emm_proc_common_initialize, per ueid
    pending,    \* common procedures and HSS requests in flight
    pdn,        \* bag of ueids: one copy per PDN connectivity (S11) answer outstanding
    inbox,      \* inbox[u]: ATTACH ACCEPTs delivered to UE u and not yet answered
    sent,       \* sent[d]: ATTACH ACCEPTs sent carrying the container of buffer d
    reqs,       \* reqs[u]: ATTACH REQUESTs UE u has sent
    lastReq,    \* lastReq[u]: the last ATTACH REQUEST UE u sent
    rejects,    \* rejects[u]: ATTACH REJECTs (EMMAS_ESTABLISH_REJ) sent to UE u
    rejected,   \* rejected[u]: the attach of u's last ATTACH REQUEST was rejected
    fault       \* the kinds of invalid memory access that have happened

vars == <<ctx, mem, data, dmem, store, gidx, commonArgs, pending, pdn, inbox,
          sent, reqs, lastReq, rejects, rejected, fault>>

NoCtx == [ueid |-> NULL, guti |-> NULL, oldGuti |-> NULL, gutiNew |-> FALSE,
          imsi |-> NULL, imei |-> NULL, emerg |-> FALSE, caps |-> 0, sec |-> FALSE,
          fsm |-> "INVALID", cause |-> "SUCCESS", esm |-> 0, attached |-> FALSE,
          tOn |-> FALSE, tArmed |-> FALSE, tArg |-> NULL]
NoData == [ueid |-> NULL, count |-> 0]
NoReq == [type |-> "EPS", guti |-> NULL, imsi |-> NULL, imei |-> NULL, caps |-> 0]

(* The whole state as one record, so that a C call chain can be written   *)
(* as a composition of operators on it.                                   *)
S == [ctx |-> ctx, mem |-> mem, data |-> data, dmem |-> dmem, store |-> store,
      gidx |-> gidx, commonArgs |-> commonArgs, pending |-> pending, pdn |-> pdn,
      inbox |-> inbox, sent |-> sent, rejects |-> rejects, rejected |-> rejected,
      fault |-> fault]

Commit(s) ==
    \E t \in {s} :   \* evaluates the handler's result once
        /\ ctx' = t.ctx /\ mem' = t.mem /\ data' = t.data /\ dmem' = t.dmem
        /\ store' = t.store /\ gidx' = t.gidx /\ commonArgs' = t.commonArgs
        /\ pending' = t.pending /\ pdn' = t.pdn /\ inbox' = t.inbox /\ sent' = t.sent
        /\ rejects' = t.rejects /\ rejected' = t.rejected
        /\ fault' = t.fault

-----------------------------------------------------------------------------
(* Heap. calloc returns the lowest never-used address, NULL when the pool *)
(* is exhausted; a read or free of a freed object, or a dereference of    *)
(* NULL, is recorded in fault.                                            *)
Fault(s, k) == [s EXCEPT !.fault = @ \cup {k}]
CallocCtx(s) == IF \E c \in CtxIds : s.mem[c] = "free"
                THEN CHOOSE c \in CtxIds : s.mem[c] = "free" /\ \A b \in CtxIds : s.mem[b] = "free" => c <= b
                ELSE NULL
CallocData(s) == IF \E d \in DataIds : s.dmem[d] = "free"
                 THEN CHOOSE d \in DataIds : s.dmem[d] = "free" /\ \A b \in DataIds : s.dmem[b] = "free" => d <= b
                 ELSE NULL
Deref(s, c)     == IF s.mem[c] = "live" THEN s ELSE Fault(s, "use_after_free")
DerefData(s, d) == IF d = NULL THEN Fault(s, "null_deref")
                   ELSE IF s.dmem[d] = "live" THEN s ELSE Fault(s, "use_after_free")
FreeData(s, d)  == [DerefData(s, d) EXCEPT !.dmem[d] = "freed"]

(* The context store (emmData.c, not part of this source tree): the       *)
(* contract of spec section 4.1. add is a no-op when the ueid is taken;   *)
(* remove destroys the context and drops the ueid entry and the GUTI      *)
(* entries that lead to it.                                               *)
emm_data_context_get(s, u) == s.store[u]
emm_data_context_get_by_guti(s, g) == IF s.gidx[g] = NULL THEN NULL ELSE s.store[s.gidx[g]]
emm_data_context_add(s, c) ==
    LET u == s.ctx[c].ueid  g == s.ctx[c].guti IN
    IF s.store[u] # NULL THEN s
    ELSE [s EXCEPT !.store[u] = c,
                   !.gidx = IF g = NULL THEN @ ELSE [@ EXCEPT ![g] = u]]
emm_data_context_remove(s, c) ==
    LET u == s.ctx[c].ueid IN
    [s EXCEPT !.store[u] = NULL, !.mem[c] = "freed",
              !.gidx = [g \in AllGutis |-> IF @[g] = u THEN NULL ELSE @[g]]]

(* An EMMREG primitive that moves the EMM FSM (emm_reg, outside this tree) *)
(* of a context that is still allocated.                                  *)
SetFsm(s, c, st) == IF c # NULL /\ s.mem[c] = "live" THEN [s EXCEPT !.ctx[c].fsm = st] ELSE s

(* EMMREG_PROC_ABORT: the common procedures in flight for the UE are      *)
(* cancelled (the S6a request is not a common procedure) and the context, *)
(* if still allocated, enters EMM-DEREGISTERED (spec 4.4, 5).             *)
(* When the attach procedure has a buffer registered for the UE, the     *)
(* abort calls the registered _emm_attach_abort with it (spec 4.4: "a     *)
(* future abort calls _emm_attach_abort with this buffer"); the           *)
(* registration is consumed by the call.                                  *)
RECURSIVE EmmRegProcAbort(_, _, _), _emm_attach_abort(_, _)
EmmRegProcAbort(s, u, c) ==
    LET d  == s.commonArgs[u]
        s1 == [SetFsm(s, c, "DEREGISTERED") EXCEPT
                  !.pending = {p \in @ : p.ue # u \/ p.proc = "auth_info"}]
    IN IF d = NULL THEN s1 ELSE _emm_attach_abort([s1 EXCEPT !.commonArgs[u] = NULL], d)
-----------------------------------------------------------------------------
(* Abnormal cases. _emm_attach_release frees the identities, the ESM      *)
(* message and the security context, stops T3450 (T3460 and T3470 are     *)
(* never started by this procedure), removes the context from the store   *)
(* and notifies EMMREG_PROC_ABORT. All contexts it sees are dynamic.      *)
(* Seeded fault: the context is freed but its store entry is kept, as    *)
(* free (_emm_data.ctx[ueid]) would be without the NULL assignment.        *)
_emm_attach_release_keeps_store(s, c) ==
    IF c = NULL THEN s
    ELSE LET u  == s.ctx[c].ueid
             s1 == [Deref(s, c) EXCEPT !.ctx[c] = [@ EXCEPT !.guti = NULL, !.imsi = NULL,
                        !.imei = NULL, !.esm = 0, !.sec = FALSE, !.tOn = FALSE, !.tArmed = FALSE]]
         IN EmmRegProcAbort([s1 EXCEPT !.mem[c] = "freed"], u, c)

_emm_attach_release(s, c) ==
    IF c = NULL THEN s
    ELSE LET u  == s.ctx[c].ueid
             s1 == [Deref(s, c) EXCEPT !.ctx[c] = [@ EXCEPT !.guti = NULL, !.imsi = NULL,
                        !.imei = NULL, !.esm = 0, !.sec = FALSE, !.tOn = FALSE, !.tArmed = FALSE]]
         IN EmmRegProcAbort(emm_data_context_remove(s1, c), u, c)

(* _emm_attach_reject returns RETURNerror, having sent and freed nothing, *)
(* for an ESM_FAILURE reject without an ESM message.                      *)
RejectFails(s, c) == s.ctx[c].cause = "ESM_FAILURE" /\ s.ctx[c].esm = 0

(* EMMAS_ESTABLISH_REJ: the ATTACH REJECT reaches UE u and answers the   *)
(* attach its last request started.                                       *)
SendReject(s, u) == [s EXCEPT !.rejects[u] = @ + 1, !.rejected[u] = TRUE]

(* ATTACH REJECT: the cause defaults to ILLEGAL_UE, the reject is sent,   *)
(* then the (dynamic) context is released, unless the reject fails.       *)
(* Seeded fault: the context is not released after the reject.           *)
_emm_attach_reject_no_release(s, c) ==
    LET cause == IF s.ctx[c].cause = "SUCCESS" THEN "ILLEGAL_UE" ELSE s.ctx[c].cause
        s1    == [Deref(s, c) EXCEPT !.ctx[c].cause = cause]
    IN IF RejectFails(s1, c) THEN s1 ELSE SendReject(s1, s.ctx[c].ueid)

_emm_attach_reject(s, c) ==
    LET cause == IF s.ctx[c].cause = "SUCCESS" THEN "ILLEGAL_UE" ELSE s.ctx[c].cause
        s1    == [Deref(s, c) EXCEPT !.ctx[c].cause = cause]
    IN IF RejectFails(s1, c) THEN s1
       ELSE _emm_attach_release(SendReject(s1, s.ctx[c].ueid), c)

(* emm_proc_attach_reject: the lower layer rejects an ATTACH REQUEST with *)
(* a protocol error through _emm_attach_reject on a zeroed, non-dynamic   *)
(* stack context. Nothing is released; with ESM_FAILURE the empty ESM     *)
(* message makes the reject fail. It rejects the malformed message, not   *)
(* the attach the UE has in progress.                                     *)
emm_proc_attach_reject(s, u, cause) ==
    IF cause = "ESM_FAILURE" THEN s ELSE [s EXCEPT !.rejects[u] = @ + 1]

RejectWith(s, c, cause) == _emm_attach_reject([s EXCEPT !.ctx[c].cause = cause], c)

(* EMMAS_ESTABLISH_CNF as the EMM FSM sees it (emm_as and emm_fsm,       *)
(* outside this tree): the context enters REGISTERED_INITIATED as the     *)
(* ATTACH ACCEPT goes out (spec 4.4).                                     *)
EmmAsEstablishCnf(s, c) == [s EXCEPT !.ctx[c].fsm = "REGISTERED_INITIATED"]

(* ATTACH ACCEPT (EMMAS_ESTABLISH_CNF) carrying the buffer's ESM          *)
(* container and the context's selected algorithms, read through          *)
(* emm_ctx->security; then T3450 is restarted if its id is set (the       *)
(* handler keeps its original argument) or started with this buffer.      *)
_emm_attach_accept(s, c, d) ==
    IF c = NULL THEN s
    ELSE LET x  == s.ctx[c]
             s1 == DerefData(Deref(s, c), d)
             s2 == IF x.sec THEN s1 ELSE Fault(s1, "null_deref")
         IN [EmmAsEstablishCnf(s2, c) EXCEPT
                !.sent = IF d = NULL THEN @ ELSE [@ EXCEPT ![d] = @ + 1],
                !.inbox[x.ueid] = @ + 1,
                !.ctx[c] = [@ EXCEPT !.tOn = TRUE, !.tArmed = TRUE,
                                     !.tArg = IF x.tOn THEN @ ELSE d]]

emm_cn_wrapper_attach_accept(s, c, d) == _emm_attach_accept(s, c, d)

(* _emm_attach_abort: stop the T3450 of the context found by the buffer's *)
(* ueid, free the buffer, send ESM_PDN_CONNECTIVITY_REJ and               *)
(* EMMREG_ATTACH_REJ (the FSM enters DEREGISTERED), release the context.  *)
_emm_attach_abort(s, d) ==
    IF d = NULL THEN s
    ELSE LET s0 == DerefData(s, d)
             c  == emm_data_context_get(s0, s.data[d].ueid)
             s1 == IF c = NULL THEN s0
                   ELSE IF s0.ctx[c].tOn
                        THEN [Deref(s0, c) EXCEPT !.ctx[c].tOn = FALSE, !.ctx[c].tArmed = FALSE]
                        ELSE Deref(s0, c)
         IN _emm_attach_release(SetFsm(FreeData(s1, d), c, "DEREGISTERED"), c)

(* T3450 expiry: count the retransmission, then retransmit to the context *)
(* found by the buffer's ueid or, on the ATTACH_COUNTER_MAX-th expiry,    *)
(* abort the procedure. Started with a NULL buffer, the handler's first  *)
(* statement dereferences it.                                             *)
_emm_attach_t3450_handler(s, d) ==
    IF d = NULL THEN Fault(s, "null_deref") ELSE
    LET s1 == [DerefData(s, d) EXCEPT !.data[d].count = @ + 1]
        c  == emm_data_context_get(s1, s.data[d].ueid)
    IN IF s1.data[d].count < ATTACH_COUNTER_MAX THEN _emm_attach_accept(s1, c, d)
       ELSE _emm_attach_abort(s1, d)

-----------------------------------------------------------------------------
(* _emm_attach sends ESM_PDN_CONNECTIVITY_REQ. On success ESM has sent   *)
(* the S11 request, and a zeroed buffer is calloc'd and registered for    *)
(* the ueid with emm_proc_common_initialize. A failed calloc registers    *)
(* nothing and returns RETURNok; a failed registration frees the buffer   *)
(* and returns RETURNerror at once, with no reject. EMM-CN sends the      *)
(* ACCEPT with whatever buffer is registered for the ueid.                *)
PdnRequested(s, c, k, env) ==
    LET u  == s.ctx[c].ueid
        d  == CallocData(s)
        s1 == [s EXCEPT !.pdn = BagAdd(@, u)]
    IN IF d = NULL THEN s1
       ELSE IF env.common_initialize
            THEN [s1 EXCEPT !.dmem[d] = "live", !.data[d] = [NoData EXCEPT !.ueid = k],
                            !.commonArgs[u] = d]
            ELSE [s1 EXCEPT !.dmem[d] = "freed"]

(* On an ESM failure the ESM reject PDU replaces the context's ESM        *)
(* message and the attach is rejected. When the malloc of the copy fails  *)
(* nothing more is done and RETURNok stands. When the reject fails (no    *)
(* PDU), rc is RETURNerror and the attach is rejected again with          *)
(* PROTOCOL_ERROR, which sends no PDU and releases the context.           *)
(* Seeded fault: the rc check after the reject is left out.              *)
PdnRejected_no_fallback(s, c, env) ==
    LET failed == [s EXCEPT !.ctx[c].cause = "ESM_FAILURE", !.ctx[c].esm = IF env.esm_pdu THEN 1 ELSE 0]
    IN IF ~env.esm_msg_malloc THEN [failed EXCEPT !.ctx[c].esm = 0]
       ELSE _emm_attach_reject(failed, c)

PdnRejected(s, c, env) ==
    LET failed == [s EXCEPT !.ctx[c].cause = "ESM_FAILURE", !.ctx[c].esm = IF env.esm_pdu THEN 1 ELSE 0]
    IN IF ~env.esm_msg_malloc THEN [failed EXCEPT !.ctx[c].esm = 0]
       ELSE IF RejectFails(failed, c) THEN RejectWith(failed, c, "PROTOCOL_ERROR")
       ELSE _emm_attach_reject(failed, c)

(* _emm_attach; a discarded ESM message is ignored.                       *)
(* Seeded fault: the buffer keyed by the context pointer, not the ueid.  *)
_emm_attach_ctx_key(s, c, env) ==
    LET s0 == Deref(s, c) IN
    CASE env.esm = "SUCCESS" -> PdnRequested(s0, c, c, env)
      [] env.esm = "FAILURE" -> PdnRejected(s0, c, env)
      [] OTHER -> s0

_emm_attach(s, c, env) ==
    LET s0 == Deref(s, c) IN
    CASE env.esm = "SUCCESS" -> PdnRequested(s0, c, s.ctx[c].ueid, env)
      [] env.esm = "FAILURE" -> PdnRejected(s0, c, env)
      [] OTHER -> s0

Start(s, c, p) ==
    [s EXCEPT !.pending = @ \cup {[proc |-> p, ue |-> s.ctx[c].ueid, ctx |-> c]},
              !.ctx[c].fsm = IF p = "auth_info" THEN @ ELSE "COMMON_PROCEDURE_INITIATED"]

(* _emm_attach_security: a fresh security context (EEA0/EIA0), malloc'd  *)
(* unless the context has one, then the security mode control procedure *)
(* with _emm_attach as continuation. Either failing rejects the UE.       *)
(* Seeded fault: the security context is not installed.                 *)
_emm_attach_security_no_ctx(s, c, env) ==
    LET s0 == Deref(s, c) IN
    IF ~s.ctx[c].sec /\ ~env.security_malloc THEN RejectWith(s0, c, "ILLEGAL_UE")
    ELSE IF env.security_mode_control THEN Start(s0, c, "security_mode_control")
    ELSE RejectWith(s0, c, "ILLEGAL_UE")

_emm_attach_security(s, c, env) ==
    LET s0 == Deref(s, c) IN
    IF ~s.ctx[c].sec /\ ~env.security_malloc THEN RejectWith(s0, c, "ILLEGAL_UE")
    ELSE IF env.security_mode_control
         THEN Start([s0 EXCEPT !.ctx[c].sec = TRUE], c, "security_mode_control")
    ELSE RejectWith([s0 EXCEPT !.ctx[c].sec = TRUE], c, "ILLEGAL_UE")

emm_attach_security(s, c, env) == _emm_attach_security(s, c, env)

-----------------------------------------------------------------------------
(* The rc _emm_attach returns: RETURNerror, with nothing rejected, when    *)
(* emm_proc_common_initialize fails; RETURNok otherwise (the reject paths *)
(* return the RETURNok of the release, and the fallback reject follows a  *)
(* reject that failed).                                                   *)
AttachFails(s, c, env) == env.esm = "SUCCESS" /\ CallocData(s) # NULL /\ ~env.common_initialize

(* The authentication block of _emm_attach_identify: with a security      *)
(* context go on to _emm_attach; an emergency UE may skip authentication  *)
(* when MME_API_UNAUTHENTICATED_IMSI is set; otherwise (built-in EPC) the *)
(* pending auth_info request carries the procedure on. An rc other than   *)
(* RETURNok rejects the UE (1168-1173); _emm_attach_security always       *)
(* returns RETURNok here, its own reject having released the context.     *)
AttachAuthenticate(s, c, env) ==
    IF s.ctx[c].sec
    THEN IF AttachFails(Deref(s, c), c, env) THEN _emm_attach_reject(_emm_attach(s, c, env), c)
         ELSE _emm_attach(s, c, env)
    ELSE IF s.ctx[c].emerg /\ UnauthenticatedImsi THEN _emm_attach_security(s, c, env)
    ELSE s

(* GUTI reallocation after an IMSI identification: the current GUTI      *)
(* becomes old_guti and mme_api_new_guti assigns the new one; the GUTI    *)
(* index is not touched.                                                  *)
ReallocateGuti(s, c, env) ==
    LET s1 == [s EXCEPT !.ctx[c].oldGuti = s.ctx[c].guti, !.ctx[c].guti = NewGuti(c)] IN
    IF env.new_guti THEN AttachAuthenticate([s1 EXCEPT !.ctx[c].gutiNew = TRUE], c, env)
    ELSE RejectWith(s1, c, "ILLEGAL_UE")

(* _emm_attach_identify: IMSI (fetch a vector from the HSS, or identify   *)
(* and reallocate the GUTI when a security context exists), else GUTI     *)
(* (identification is always forced), else IMEI for an emergency attach, *)
(* else reject.                                                           *)
_emm_attach_identify(s, c, env) ==
    LET x  == s.ctx[c]
        s0 == Deref(s, c)
    IN IF x.imsi # NULL /\ ~x.sec THEN AttachAuthenticate(Start(s0, c, "auth_info"), c, env)
       ELSE IF x.imsi # NULL THEN
            IF env.identify_imsi THEN ReallocateGuti(s0, c, env) ELSE RejectWith(s0, c, "ILLEGAL_UE")
       ELSE IF x.guti # NULL THEN
            IF env.identification THEN Start(s0, c, "identification")
            ELSE RejectWith(s0, c, "ILLEGAL_UE")
       ELSE IF x.imei # NULL /\ x.emerg THEN
            IF env.identify_imei THEN AttachAuthenticate(s0, c, env)
            ELSE RejectWith(s0, c, "IMEI_NOT_ACCEPTED")
       ELSE RejectWith(s0, c, "ILLEGAL_UE")

(* _emm_attach_have_changed: the request differs from the context in the  *)
(* emergency indicator, the capabilities, or in the presence or value of  *)
(* the GUTI, IMSI or IMEI. The checks run in that order.                  *)
_emm_attach_have_changed(x, r) ==
    \/ (r.type = "EMERGENCY") # x.emerg
    \/ r.caps # x.caps
    \/ r.guti # x.guti
    \/ r.imsi # x.imsi
    \/ r.imei # x.imei

(* _emm_attach_update, as [s |-> new state, ok |-> returned RETURNok]. A  *)
(* UE-provided GUTI is indexed only when the context had none; without    *)
(* one the stored GUTI is unindexed and, given an IMSI, replaced by one   *)
(* synthesised from the configuration and indexed again.                  *)
_emm_attach_update(s, c, u, r, env) ==
    LET x    == s.ctx[c]
        base == [x EXCEPT !.ueid = u, !.emerg = (r.type = "EMERGENCY"), !.caps = r.caps]
        Done(s1, y) == [s |-> [s1 EXCEPT !.ctx[c] = [y EXCEPT
                                  !.imsi = IF r.imsi # NULL THEN r.imsi ELSE @,
                                  !.imei = IF r.imei # NULL THEN r.imei ELSE @,
                                  !.esm = 1, !.attached = FALSE]],
                        ok |-> TRUE]
        Failed(s1, g) == [s |-> [s1 EXCEPT !.ctx[c] = [base EXCEPT !.guti = g]], ok |-> FALSE]
        unindexed == IF x.guti = NULL THEN s ELSE [s EXCEPT !.gidx[x.guti] = NULL]
    IN IF r.guti # NULL
       THEN Done(IF x.guti = NULL THEN [s EXCEPT !.gidx[r.guti] = u] ELSE s,
                 [base EXCEPT !.guti = r.guti])
       ELSE IF r.imsi = NULL THEN Failed(unindexed, IF x.guti = NULL THEN ZERO_GUTI ELSE x.guti)
       ELSE IF ~env.mnc_length THEN Failed(unindexed, SynthGuti(c))
       ELSE Done([unindexed EXCEPT !.gidx[SynthGuti(c)] = u],
                 [base EXCEPT !.guti = SynthGuti(c), !.gutiNew = TRUE])

(* The check of a GUTI present in the context but absent from the request *)
(* formats the request's GUTI, a NULL pointer, with GUTI2STR; it is       *)
(* reached when the emergency indicator and capabilities agree.           *)
GutiLogDerefsNull(x, r) ==
    /\ (r.type = "EMERGENCY") = x.emerg /\ r.caps = x.caps
    /\ r.guti = NULL /\ x.guti # NULL

(* The tail of emm_proc_attach_request: update the context, then identify *)
(* the UE or reject it.                                                   *)
AttachUpdateIdentify(s, c, u, r, env) ==
    LET res == _emm_attach_update(s, c, u, r, env) IN
    IF res.ok THEN _emm_attach_identify(res.s, c, env)
    ELSE RejectWith(res.s, c, "ILLEGAL_UE")

(* GUTI re-attach on a new ueid: notify, remove the found context, set   *)
(* its ueid and add it back under the new key.                            *)
RebindUeid(s, t, u) ==
    LET s1 == emm_data_context_remove(s, t) IN
    emm_data_context_add([Deref(s1, t) EXCEPT !.ctx[t].ueid = u], t)

(* emm_proc_attach_request. An emergency attach the MME does not support *)
(* and a failed calloc are rejected from a temporary context: the UE gets *)
(* an ATTACH REJECT and nothing else changes. A context past DEREGISTERED is either kept (duplicate)*)
(* or, when the parameters changed, aborted with EMMREG_PROC_ABORT and    *)
(* the request processed again. Otherwise a found context is reused, or a *)
(* new one is calloc'd and added (after a GUTI rebind, too).              *)
RECURSIVE emm_proc_attach_request(_, _, _, _)
emm_proc_attach_request(s, u, r, env) ==
    LET c == emm_data_context_get(s, u) IN
    IF r.type = "EMERGENCY" /\ ~EmergencyAttach THEN SendReject(s, u)
    ELSE IF c # NULL /\ s.ctx[c].fsm \notin {"INVALID", "DEREGISTERED"} THEN
         IF _emm_attach_have_changed(s.ctx[c], r)
         THEN LET s1 == IF GutiLogDerefsNull(s.ctx[c], r) THEN Fault(s, "null_deref") ELSE s
              IN emm_proc_attach_request(EmmRegProcAbort(s1, u, c), u, r, env)
         ELSE Deref(s, c)
    ELSE IF c # NULL THEN AttachUpdateIdentify(Deref(s, c), c, u, r, env)
    ELSE LET t  == IF r.guti = NULL THEN NULL ELSE emm_data_context_get_by_guti(s, r.guti)
             s1 == IF t = NULL THEN s ELSE RebindUeid(s, t, u)
             n  == CallocCtx(s1)
         IN IF n = NULL THEN SendReject(s1, u)
            ELSE AttachUpdateIdentify(
                   emm_data_context_add([s1 EXCEPT !.mem[n] = "live",
                       !.ctx[n] = [NoCtx EXCEPT !.ueid = u, !.fsm = "DEREGISTERED"]], n),
                   n, u, r, env)

(* emm_proc_attach_complete: free the buffer registered for the ueid (the *)
(* registration stays), then for the context of the ueid stop T3450,      *)
(* validate the new GUTI and pass the ESM accept on: ATTACH_CNF makes it  *)
(* REGISTERED, an ESM failure ATTACH_REJ makes it DEREGISTERED.           *)
emm_proc_attach_complete(s, u, esm) ==
    LET d  == s.commonArgs[u]
        s1 == IF d = NULL THEN s ELSE FreeData(s, d)
        c  == emm_data_context_get(s1, u)
        s2 == IF c = NULL THEN s1
              ELSE [Deref(s1, c) EXCEPT !.ctx[c] = [@ EXCEPT !.tOn = FALSE, !.tArmed = FALSE,
                                                   !.gutiNew = FALSE, !.oldGuti = NULL]]
    IN IF c = NULL THEN s1
       ELSE CASE esm = "SUCCESS" -> [s2 EXCEPT !.ctx[c].attached = TRUE, !.ctx[c].fsm = "REGISTERED"]
              [] esm = "FAILURE" -> [s2 EXCEPT !.ctx[c].fsm = "DEREGISTERED"]
              [] OTHER -> s2
-----------------------------------------------------------------------------
(* Entry points. Each action runs one handler to completion (spec 5: the *)
(* core is single-threaded per UE and handlers do not interleave).        *)

(* The UE sends an ATTACH REQUEST; the lower layer calls                 *)
(* emm_proc_attach_request.                                               *)
AttachRequest(u) ==
    /\ reqs[u] < MaxRequests
    /\ \E r \in Requests, env \in Envs :
          /\ Commit(emm_proc_attach_request([S EXCEPT !.rejected[u] = FALSE], u, r, env))
          /\ lastReq' = [lastReq EXCEPT ![u] = r]
    /\ reqs' = [reqs EXCEPT ![u] = @ + 1]

(* The UE answers one ATTACH ACCEPT it received with ATTACH COMPLETE,      *)
(* carrying an ACTIVATE DEFAULT EPS BEARER CONTEXT ACCEPT that ESM judges. *)
AttachComplete(u) ==
    /\ inbox[u] > 0
    /\ \E esm \in EsmResults :
          Commit([emm_proc_attach_complete(S, u, esm) EXCEPT !.inbox[u] = @ - 1])
    /\ UNCHANGED <<reqs, lastReq>>

(* The lower layer receives an ATTACH REQUEST with a protocol error and  *)
(* calls emm_proc_attach_reject with a cause of its choosing. The         *)
(* malformed message counts against the UE's requests.                    *)
ProtocolErrorReject(u) ==
    /\ reqs[u] < MaxRequests
    /\ \E cause \in Causes : Commit(emm_proc_attach_reject(S, u, cause))
    /\ reqs' = [reqs EXCEPT ![u] = @ + 1]
    /\ UNCHANGED lastReq

(* T3450 of context c fires and calls _emm_attach_t3450_handler with the  *)
(* argument it was started with.                                          *)
T3450Expiry(c) ==
    /\ ctx[c].tArmed
    /\ Commit(_emm_attach_t3450_handler([S EXCEPT !.ctx[c].tArmed = FALSE], ctx[c].tArg))
    /\ UNCHANGED <<reqs, lastReq>>

(* A common procedure started by the attach procedure ends. On success   *)
(* identification (which stored the IMSI the UE returned) re-enters       *)
(* _emm_attach_identify, authentication goes on with emm_attach_security  *)
(* and security mode control with _emm_attach. On failure (reject or     *)
(* retransmission exhausted) its callback is _emm_attach_release.          *)
Continuation(s, p, env) ==
    CASE p.proc = "identification" -> _emm_attach_identify(s, p.ctx, env)
      [] p.proc = "authentication" -> emm_attach_security(s, p.ctx, env)
      [] OTHER                     -> _emm_attach(s, p.ctx, env)

CommonProcSuccess(p) ==
    /\ p \in pending /\ p.proc # "auth_info"
    /\ \E env \in Envs, i \in Imsis :
          LET s0 == [S EXCEPT !.pending = @ \ {p}]
              s1 == IF p.proc = "identification"
                    THEN [Deref(s0, p.ctx) EXCEPT !.ctx[p.ctx].imsi = i] ELSE Deref(s0, p.ctx)
          IN Commit(Continuation(s1, p, env))
    /\ UNCHANGED <<reqs, lastReq>>

CommonProcFailure(p) ==
    /\ p \in pending /\ p.proc # "auth_info"
    /\ Commit(_emm_attach_release([S EXCEPT !.pending = @ \ {p}], p.ctx))
    /\ UNCHANGED <<reqs, lastReq>>

(* The S6a authentication information answer reaches EMM-CN, which finds *)
(* the context by ueid and starts authentication with emm_attach_security *)
(* as its continuation.                                                   *)
AuthInfoAnswer(p) ==
    /\ p \in pending /\ p.proc = "auth_info"
    /\ LET s0 == [S EXCEPT !.pending = @ \ {p}]
           c  == emm_data_context_get(s0, p.ue)
       IN Commit(IF c = NULL THEN s0 ELSE Start(Deref(s0, c), c, "authentication"))
    /\ UNCHANGED <<reqs, lastReq>>

(* The PDN connectivity (S11) answer reaches EMM-CN, which sends the first *)
(* ATTACH ACCEPT through emm_cn_wrapper_attach_accept with the context of  *)
(* the ueid and the buffer registered for it.                              *)
PdnConnectivityRes(u) ==
    /\ BagIn(u, pdn)
    /\ LET s0 == [S EXCEPT !.pdn = BagRemove(@, u)] IN
       Commit(emm_cn_wrapper_attach_accept(s0, emm_data_context_get(s0, u), commonArgs[u]))
    /\ UNCHANGED <<reqs, lastReq>>

-----------------------------------------------------------------------------
Init ==
    /\ ctx = [c \in CtxIds |-> NoCtx]
    /\ mem = [c \in CtxIds |-> "free"]
    /\ data = [d \in DataIds |-> NoData]
    /\ dmem = [d \in DataIds |-> "free"]
    /\ store = [u \in UeIds |-> NULL]
    /\ gidx = [g \in AllGutis |-> NULL]
    /\ commonArgs = [u \in UeIds |-> NULL]
    /\ pending = {}
    /\ pdn = EmptyBag
    /\ inbox = [u \in UeIds |-> 0]
    /\ sent = [d \in DataIds |-> 0]
    /\ reqs = [u \in UeIds |-> 0]
    /\ lastReq = [u \in UeIds |-> NoReq]
    /\ rejects = [u \in UeIds |-> 0]
    /\ rejected = [u \in UeIds |-> FALSE]
    /\ fault = {}

Procs == [proc : SubProcs, ue : UeIds, ctx : CtxIds]

(* A NULL dereference kills the MME: no handler runs after it.           *)
Crashed == "null_deref" \in fault

Next ==
  /\ ~Crashed
  /\ \/ \E u \in UeIds : AttachRequest(u)
     \/ \E u \in UeIds : AttachComplete(u)
     \/ \E u \in UeIds : ProtocolErrorReject(u)
     \/ \E c \in CtxIds : T3450Expiry(c)
     \/ \E p \in Procs : CommonProcSuccess(p)
     \/ \E p \in Procs : CommonProcFailure(p)
     \/ \E p \in Procs : AuthInfoAnswer(p)
     \/ \E u \in UeIds : PdnConnectivityRes(u)

(* The network side is fair: an armed timer fires, a common procedure    *)
(* ends one way or the other (its own timer bounds it), the HSS and the   *)
(* S-GW answer, as long as the MME runs. The UE is not: it may stay       *)
(* silent forever. Fairness is asked of each kind of event as a whole,    *)
(* which is weaker than asking it of every timer and every procedure.     *)
(* The timer's weak fairness is written out with its enabling condition:  *)
(* an armed T3450 of a running MME can always fire and every expiry       *)
(* changes the state, so T3450Armed is ENABLED <<T3450Fires>>_vars; this  *)
(* spares TLC computing ENABLED through the handler's whole call chain.   *)
T3450Fires == ~Crashed /\ \E c \in CtxIds : T3450Expiry(c)
T3450Armed == ~Crashed /\ \E c \in CtxIds : ctx[c].tArmed

Fairness ==
    /\ <>[]T3450Armed => []<><<T3450Fires>>_vars
    /\ WF_vars(~Crashed /\ \E p \in pending : CommonProcSuccess(p) \/ CommonProcFailure(p))
    /\ WF_vars(~Crashed /\ \E p \in pending : AuthInfoAnswer(p))
    /\ WF_vars(~Crashed /\ \E u \in UeIds : PdnConnectivityRes(u))

Spec == Init /\ [][Next]_vars /\ Fairness

-----------------------------------------------------------------------------
TypeOK ==
    /\ ctx \in [CtxIds -> [ueid : UeIds \cup {NULL}, guti : AllGutis \cup {NULL},
                           oldGuti : AllGutis \cup {NULL}, gutiNew : BOOLEAN,
                           imsi : Imsis \cup {NULL}, imei : Imeis \cup {NULL},
                           emerg : BOOLEAN, caps : Caps \cup {0}, sec : BOOLEAN,
                           fsm : FsmStates, cause : Causes, esm : {0, 1},
                           attached : BOOLEAN, tOn : BOOLEAN, tArmed : BOOLEAN,
                           tArg : DataIds \cup {NULL}]]
    /\ mem \in [CtxIds -> {"free", "live", "freed"}]
    /\ data \in [DataIds -> [ueid : UeIds \cup {NULL}, count : Nat]]
    /\ dmem \in [DataIds -> {"free", "live", "freed"}]
    /\ store \in [UeIds -> CtxIds \cup {NULL}]
    /\ gidx \in [AllGutis -> UeIds \cup {NULL}]
    /\ commonArgs \in [UeIds -> DataIds \cup {NULL}]
    /\ pending \subseteq Procs
    /\ IsABag(pdn) /\ BagToSet(pdn) \subseteq UeIds
    /\ inbox \in [UeIds -> Nat] /\ sent \in [DataIds -> Nat]
    /\ reqs \in [UeIds -> 0..MaxRequests] /\ lastReq \in [UeIds -> Requests \cup {NoReq}]
    /\ rejects \in [UeIds -> Nat] /\ rejected \in [UeIds -> BOOLEAN]
    /\ fault \subseteq {"use_after_free", "null_deref"}
-----------------------------------------------------------------------------
(* Safety. *)

Live(c) == mem[c] = "live"

(* Memory safety of the attach procedure: no handler of Attach.c reads,  *)
(* writes or frees a context or retransmission buffer after it was freed *)
(* (emm_proc_attach_complete freeing the registered buffer, the T3450     *)
(* handler and abort, the GUTI rebind of emm_proc_attach_request).        *)
NoUseAfterFree == "use_after_free" \notin fault

(* No handler dereferences NULL: not _emm_attach_accept reading          *)
(* emm_ctx->security, not _emm_attach_have_changed formatting the GUTI of *)
(* a request that carries none.                                           *)
NoNullDeref == "null_deref" \notin fault

(* Retry bound (spec 7, 8 scenario 6): the ATTACH ACCEPT carrying one     *)
(* buffer's ESM container is sent at most ATTACH_COUNTER_MAX times, the   *)
(* first send and the retransmissions of _emm_attach_t3450_handler        *)
(* together, although every S11 answer makes emm_cn_wrapper_attach_accept *)
(* send with the buffer registered for the ueid and restart T3450 without *)
(* resetting its counter.                                                 *)
RetryBound == \A d \in DataIds : sent[d] <= ATTACH_COUNTER_MAX

(* Store consistency (spec 4.1): a ueid entry leads to an allocated       *)
(* context that carries that ueid, after every path through              *)
(* emm_proc_attach_request, _emm_attach_release and the rebind.           *)
StoreConsistent ==
    \A u \in UeIds : store[u] # NULL => Live(store[u]) /\ ctx[store[u]].ueid = u

(* GUTI index consistency (spec 3): a GUTI entry leads to the stored      *)
(* context whose GUTI it is, and a stored context's GUTI is indexed.      *)
(* _emm_attach_update, the GUTI reallocation of _emm_attach_identify and   *)
(* the rebind all mutate the GUTI.                                        *)
GutiIndexConsistent ==
    /\ \A g \in AllGutis : gidx[g] # NULL =>
          store[gidx[g]] # NULL /\ ctx[store[gidx[g]]].guti = g
    /\ \A u \in UeIds : store[u] # NULL /\ ctx[store[u]].guti \notin {NULL, ZERO_GUTI} =>
          gidx[ctx[store[u]].guti] = u

(* Progress of the attach (spec 4.4, 7): a context whose procedure has   *)
(* started, COMMON_PROCEDURE_INITIATED or REGISTERED_INITIATED, ends it,  *)
(* REGISTERED or DEREGISTERED, or is released, whatever the UE does. Every *)
(* continuation (_emm_attach, the S11 answer, T3450) has to leave        *)
(* something in flight or reject, and a reject that fails for want of an  *)
(* ESM PDU has to be followed by one that releases; otherwise a resent    *)
(* identical ATTACH REQUEST is ignored as a duplicate and the UE is shut  *)
(* out.                                                                    *)
AttachConcludes ==
    \A c \in CtxIds :
        (Live(c) /\ ctx[c].fsm \in {"COMMON_PROCEDURE_INITIATED", "REGISTERED_INITIATED"})
            ~> (~Live(c) \/ ctx[c].fsm \in {"DEREGISTERED", "REGISTERED"} \/ Crashed)

(* A reject ends the attach (spec 4.6, 7): once the MME has answered the  *)
(* attach of a UE's last ATTACH REQUEST with an ATTACH REJECT, the UE is  *)
(* sent no ATTACH ACCEPT until it sends a new request. _emm_attach_reject *)
(* has to release the context it rejects, and with it stop T3450, cancel  *)
(* the common procedures and make the late HSS or S11 answer, timer       *)
(* expiry or procedure callback find no context to accept.                *)
NoAcceptAfterReject ==
    [][\A u \in UeIds : rejected[u] /\ rejected'[u] => inbox'[u] <= inbox[u]]_vars

(* Emergency attach with an IMEI (spec 5, identification): an emergency  *)
(* ATTACH REQUEST that carries neither GUTI nor IMSI, only an IMEI, is    *)
(* validated with identify_imei and is not refused before that; when the *)
(* validation succeeds the UE keeps a context.                            *)
ImeiOnlyEmergencyKept ==
    [][\A u \in UeIds :
         (/\ reqs'[u] = reqs[u] + 1 /\ lastReq'[u].type = "EMERGENCY"
          /\ lastReq'[u].guti = NULL /\ lastReq'[u].imsi = NULL /\ lastReq'[u].imei # NULL
          /\ "identify_imei" \notin Failures)
         => store'[u] # NULL]_vars
-----------------------------------------------------------------------------
(* Refinement. A UE's abstract phase is the EMM state of the context the  *)
(* store holds for it (none, or one not yet past DEREGISTERED, is         *)
(* DEREGISTERED); it is secured when that context has a security context. *)
StoredCtx(u) == IF store[u] # NULL /\ Live(store[u]) THEN store[u] ELSE NULL
PhaseOf == [u \in UeIds |->
              IF StoredCtx(u) = NULL \/ ctx[StoredCtx(u)].fsm = "INVALID" THEN "DEREGISTERED"
              ELSE ctx[StoredCtx(u)].fsm]
SecuredOf == [u \in UeIds |-> StoredCtx(u) # NULL /\ ctx[StoredCtx(u)].sec]

Lifecycle == INSTANCE AttachLifecycle WITH phase <- PhaseOf, secured <- SecuredOf

(* The attach procedure implements its lifecycle: emm_proc_attach_complete *)
(* registers only a UE whose ATTACH ACCEPT is outstanding, _emm_attach_accept *)
(* only sends to a UE with a security context (via _emm_attach_security or *)
(* an earlier one), only _emm_attach_release drops that context, and T3450 *)
(* ends REGISTERED_INITIATED.                                              *)
LifecycleRefined == Lifecycle!Spec
=============================================================================
