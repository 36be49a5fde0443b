# TLA+ model of the MME EPS Attach procedure

This project models `src/NAS/EMM/Attach.c` for the build the MME uses: `NAS_BUILT_IN_EPC` is set and `ORIGINAL_CODE` is unset. The model is checked with TLC.

## The system

`Attach.c` is the MME side of the EPS Attach procedure (3GPP TS 24.301 §5.5.1). Its entry points are:

| Entry point | Called by | What it does |
|---|---|---|
| `emm_proc_attach_request` (217–430) | EMM-AS, when an ATTACH REQUEST arrives | Finds or creates the UE's `emm_data_context_t`. Aborts (PROC_ABORT) and restarts a running procedure whose parameters changed, and ignores duplicates. Re-keys a context found by GUTI to the new ueid. Then `_emm_attach_update` and `_emm_attach_identify`. |
| `_emm_attach_identify` (995–1176) | the request, and the identification callback | Starts from the IMSI (HSS vector request, or identification plus GUTI reallocation when a security context exists), the GUTI (identification forced) or the IMEI (emergency), or rejects. |
| `emm_attach_security` / `_emm_attach_security` (1194–1252) | the authentication callback | Creates a fresh security context and starts security mode control. |
| `_emm_attach` (1281–1426) | the security mode control callback | Sends `ESM_PDN_CONNECTIVITY_REQ`. On success it allocates an `attach_data_t` buffer and registers it with `emm_proc_common_initialize`. On an ESM failure it rejects. |
| `emm_cn_wrapper_attach_accept` → `_emm_attach_accept` (1429–1534) | EMM-CN, on the S11 answer | Sends ATTACH ACCEPT and starts or restarts T3450 with the buffer. |
| `_emm_attach_t3450_handler` (645–681) | the timer | Retransmits the ACCEPT, or aborts the procedure on the 5th expiry (`_emm_attach_abort`, 902–973). |
| `emm_proc_attach_complete` (512–607) | EMM-AS, when an ATTACH COMPLETE arrives | Frees the registered buffer, stops T3450, and hands the bearer accept to ESM. |
| `_emm_attach_release` / `_emm_attach_reject` (704–885) | failure paths and the common-procedure failure callback | Release the context and send ATTACH REJECT. |

The code works with collaborators that are not in this tree. They are modelled from `spec.md`:

- the context store `emm_data_context_*`, with an index by ueid and an index by GUTI (spec §4.1);
- the EMM FSM and `EMMREG_PROC_ABORT`;
- the common procedures (identification, authentication, SMC) and their registry;
- EMM-CN, which receives the S6a and S11 answers.

## Modules

- **`EmmAttach.tla`** is the whole component, one module.
  - **State:** the contexts (`ctx`) and their heap state (`mem`), the buffers (`data`, `dmem`), the store (`store`, `gidx`) and the common-procedure registry (`commonArgs`).
  - **In flight:** common procedures and the HSS request (`pending`), outstanding S11 answers (`pdn`), and ACCEPTs delivered to the UE (`inbox`).
  - **Counters:** ACCEPTs sent per buffer (`sent`), and the UE's requests (`reqs`, `lastReq`).
  - **Rejects:** ATTACH REJECTs sent to each UE (`rejects`), and whether the attach of its last request was rejected (`rejected`). `SendReject` is the EMMAS_ESTABLISH_REJ of `_emm_attach_reject`, and of the temporary-context rejects in `emm_proc_attach_request`.
  - **`fault`:** records any use after free or NULL dereference.
  - **Procedures:** every C procedure is an operator from a state record to a state record, with the C name kept. A handler is the composition of the operators it calls, committed by `Commit` in one step.
  - **Actions:** `AttachRequest`, `ProtocolErrorReject` (the lower layer calling `emm_proc_attach_reject` for a malformed request), `AttachComplete`, `T3450Expiry`, `CommonProcSuccess`, `CommonProcFailure`, `AuthInfoAnswer`, `PdnConnectivityRes`.
  - **External outcomes:** identify IMSI/IMEI, new GUTI, MNC length, starting identification or SMC, the malloc of the security context, and the ESM answer. Each comes from `Envs`, and only the calls named in `Failures` may fail.
- **`AttachLifecycle.tla`** is the abstract specification of what the procedure promises each UE (spec §4.4).
  - Its phase runs DEREGISTERED / COMMON_PROCEDURE_INITIATED → REGISTERED_INITIATED → REGISTERED.
  - An ACCEPT goes only to a UE holding a security context, and only a completed accept registers a UE.
  - Releasing the context is the only way to lose the security context, and a new request may send the UE back to before the accept at any time.
  - REGISTERED_INITIATED is eventually left (weak fairness on `Conclude`).
- **Refinement:** `EmmAttach` maps each UE to its stored context, with `PhaseOf` from the context's `fsm` and `SecuredOf` from its security context. It instantiates the abstract module (`Lifecycle == INSTANCE AttachLifecycle WITH ...`), and `LifecycleRefined == Lifecycle!Spec` is checked as a PROPERTY.
- **`HaveChanged.tla`** is `_emm_attach_have_changed` (1561–1761) with its real fields: emergency type, `ksi`, `eea`, `eia`, the UMTS fields `ucs2`/`uea`/`uia` and the GPRS `gea` with their presence flags, the GUTI (M-TMSI and each GUMMEI digit), IMSI and IMEI. NULL identities are a model value.
  - `_emm_attach_have_changed` is the code's checks as one disjunction; `GutiChanged` and `IdChanged` are the pointer checks (presence on one side, then the values).
  - `SpecChanged` is the change definition of spec §4.3, and `Posture` is what `EmmAttach` keeps of a request: the capability fields as one value (UMTS and GPRS fields only when present) and the identities.
  - `HaveChangedIsPostureChange` says the code, the spec's definition and the posture inequality agree on every pair of inputs. The checks fall into six groups that read disjoint fields, so the inputs vary one group at a time from a base request (`Groups`, `Inputs`); this covers all pairs in a few hundred comparisons.
  - `MCEmmAttach` instantiates it (`HC`) and states it as `ChangeDetectionChecked`, a constant-level invariant of the `lifecycle` run. It also justifies the abstraction of the capability fields in `EmmAttach`.
- **`MCEmmAttach.tla`** holds the model values used by the `.cfg` files.

How the code's data is represented:

- **Heap and pointers:** addresses come from the small pools `CtxIds` and `DataIds` and are never reused. This makes a dangling pointer recognisable.
- **GUTIs:**
  - UE GUTIs are numbers from `UeGutis`.
  - A GUTI synthesised from the context address (1874) is `SynthGuti(c)`.
  - A GUTI assigned by `mme_api_new_guti` is `NewGuti(c)`.
  - A calloc'd GUTI never filled in is `ZERO_GUTI`.
- **Capabilities:** the capability fields (`ksi`, `eea`, … `gprs_present`) are one abstract value, because `_emm_attach_have_changed` only compares them. `ChangeDetectionChecked` shows that this loses nothing: UMTS or GPRS fields that differ while that system is absent on one side are no change.

`PROJECT.json` `map` gives the lines each definition translates.

## Runs

The `imsi`, `guti` and `emergency` runs each check `TypeOK`, `StoreConsistent`, `AttachConcludes` and `NoAcceptAfterReject`. `NoAcceptAfterReject` is an action property: once an ATTACH REJECT has answered a UE's last request, no ATTACH ACCEPT reaches that UE until it sends a new one. It holds only because `_emm_attach_reject` releases the context, which stops T3450 and cancels the common procedures, so a late HSS answer, S11 answer, timer or callback finds nothing to accept. The `emergency` run also checks `NoNullDeref`. The unauthenticated emergency path skips authentication, and only `_emm_attach_security` installs the security context that `_emm_attach_accept` reads (1500). The `imsi` and `guti` runs cannot check it: there a changed request formats a NULL GUTI (`null_guti_format`), and an S11 answer that arrives after PROC_ABORT consumed the registration builds the ACCEPT from a NULL buffer (1508). `AttachConcludes` is a liveness property: a context in COMMON_PROCEDURE_INITIATED or REGISTERED_INITIATED reaches REGISTERED or DEREGISTERED, or is released, whatever the UE does, unless the MME has crashed on a NULL dereference. It matters because a stalled context is never retried: the UE's resent identical request is dropped as a duplicate. The `lifecycle` run checks `TypeOK`, `StoreConsistent` and `ChangeDetectionChecked`. Every action fires in the passing runs.

| Run | What it explores | Distinct states |
|---|---|---|
| `imsi` | IMSI attaches, two capability values, ESM success or failure, an ESM failure possibly without a reject PDU, two requests | 11,104 |
| `guti` | GUTI or IMSI attaches, with identification, GUTI allocation and the ESM reject PDU allowed to fail | 15,754 |
| `emergency` | Emergency attaches with IMSI or IMEI, unauthenticated IMSI allowed, with identify_imei, SMC, the security-context malloc and the ESM reject PDU allowed to fail; one request | 4,869 |
| `lifecycle` | Two UEs and a heap with room for one context, so the second UE's calloc fails (line 363); EPS IMSI attach, SMC allowed to fail, ESM success, one request per UE | 933 |

The refinement `LifecycleRefined` is not checked by a passing run. `emm_proc_attach_complete` never checks that an ACCEPT is outstanding, so TLC finds the refinement violated by a late COMPLETE of an aborted attempt, and by a second COMPLETE after an ESM failure at COMPLETE. `emergency_hss_race` keeps the clearest of these traces.

The eight violation runs each check one property that the code breaks. `PROJECT.json` `findings` records each one.

| Run | Property | What TLC finds |
|---|---|---|
| `complete_double_free` | `NoUseAfterFree` | Two COMPLETEs, one answering a retransmission, free the same registered buffer. |
| `null_guti_format` | `NoNullDeref` | `GUTI2STR(NULL)` at 1665. |
| `guti_index_stale` | `GutiIndexConsistent` | The GUTI index is not updated by update or reallocation. |
| `accept_resent_per_pdn` | `RetryBound` | A changed request aborts an attempt whose S11 request is outstanding, and the new attempt asks again. Both S11 answers send the ACCEPT with the buffer now registered and only restart T3450, whose counter keeps running, so that ACCEPT goes out six times (spec §7, §8: at most five). |
| `esm_discarded_stalls` | `AttachConcludes` | A DISCARDED ESM answer is ignored. After `ESM_PDN_CONNECTIVITY_REQ` the attach stalls in COMMON_PROCEDURE_INITIATED with nothing in flight; spec §4.4 says DISCARDED is treated as success. This is the trace TLC reports. At COMPLETE, after T3450 was stopped, it stalls in REGISTERED_INITIATED. |
| `rebind_fresh_context` | `StoreConsistent` | The GUTI rebind reuses a destroyed context and orphans the fresh one. |
| `imei_only_emergency` | `ImeiOnlyEmergencyKept` | An IMEI-only emergency request is rejected before identify_imei. |
| `emergency_hss_race` | `LifecycleRefined` | An emergency unauthenticated IMSI attach runs the HSS request and SMC side by side. The late HSS answer restarts authentication after the ACCEPT, and the COMPLETE then registers from COMMON_PROCEDURE_INITIATED. |

The mutants in `PROJECT.json` replace a handler with a plausible faulty version, which `EmmAttach.tla` or `HaveChanged.tla` defines next to the original. Every property of the passing runs is broken by one of them:

- `_emm_attach_have_changed` comparing the UMTS algorithms without the `umts_present` guard (breaks `ChangeDetectionChecked`);
- a release that keeps the store entry (breaks `StoreConsistent`);
- the buffer keyed by the context pointer (breaks `TypeOK`);
- `_emm_attach_security` not installing the security context (breaks `NoNullDeref` in the `emergency` run);
- `_emm_attach_reject` sending the reject without releasing the context (breaks `NoAcceptAfterReject`);
- `_emm_attach` without the `rc != RETURNok` reject (1414–1424) that follows a reject which failed for want of an ESM PDU (breaks `AttachConcludes`).

## Bounds

- **UEs:** one UE (ueid 5), or two (5 and 6) for the `rebind_fresh_context` and `lifecycle` runs. UE ids are kept apart from the heap addresses 1–3 so that confusing the two is a type error.
- **Heap:** three context addresses and three buffer addresses. These are never exhausted within the request bound, except in two runs:
  - `lifecycle` has one context address, so a second UE's calloc fails;
  - with no buffer address at all (`DataIds` empty), TLC finds `NoNullDeref` violated. The failed calloc of the buffer (1322) is not handled: `_emm_attach` returns RETURNok with the S11 request sent, and the ACCEPT is later built from a NULL buffer. `PROJECT.json` lists it as a hazard rather than a run.
- **Requests:** `MaxRequests` of 2, or 1 for the emergency run.
  - Two requests reach everything that needs a second request: duplicates, changed parameters, abort and re-entry, and rebind.
  - Retransmission is bounded by the code itself (`ATTACH_COUNTER_MAX` = 5, kept at its real value), so the ACCEPT/COMPLETE races happen with all five sends.
- **Deadlock:** deadlock checking is off. When the UEs have used their requests and nothing is pending, the MME is idle, which is a legitimate end.

## Fairness

The network side is weakly fair, asked of each kind of event as a whole, for as long as the MME runs (a NULL dereference crashes it and stops every handler):

- an armed T3450 fires;
- a common procedure ends, because it has its own timers;
- the HSS and the S-GW answer.

The fairness of T3450 is written out as `<>[]T3450Armed => []<><<T3450Fires>>_vars`. Every expiry changes the state, so `T3450Armed` equals `ENABLED <<T3450Fires>>_vars`; TLC confirmed the equality as an invariant in all four passing configurations. Written this way, TLC does not compute ENABLED through the recursive abort chain, which made the liveness runs some fifty times slower.

The UE gets no fairness: it may never send COMPLETE or another request. `AttachConcludes` therefore says that the network alone ends an attach: T3450 ends REGISTERED_INITIATED, and the continuations end COMMON_PROCEDURE_INITIATED.

## Assumptions and what is not modelled

- **The C calls:**
  - `emm_sap_send` and `esm_sap_send` return ok.
  - The mallocs of identity copies succeed.
  - ESM may answer a failure without a reject PDU (`esm_pdu` in `Failures`). `malloc(0)` then returns a unique pointer, as glibc's does. The first reject fails at 866, and the PROTOCOL_ERROR reject at 1414–1424 releases the context.
  - `emm_proc_common_initialize` overwrites any earlier registration.
- **Failures TLC was run with but no run keeps:**
  - `esm_msg_malloc` (1393 returns NULL): `AttachConcludes` is violated. `_emm_attach` returns RETURNok without a reject, and the context stalls in COMMON_PROCEDURE_INITIATED.
  - `common_initialize` (1330–1333): `NoNullDeref` is violated. `_emm_attach` frees the buffer and returns RETURNerror without a reject. Run as the continuation of security mode control, nothing acts on that rc, and the S11 answer then builds the ACCEPT from a NULL buffer (1508).
- **PROC_ABORT and the registry:** `EMMREG_PROC_ABORT` moves a still-allocated context to DEREGISTERED and cancels that UE's common procedures. If a buffer is registered for the UE, it calls the registered `_emm_attach_abort` with it (spec §4.4), and the registration is consumed by the call. `EmmRegProcAbort` and `_emm_attach_abort` are therefore mutually recursive; each round consumes a registration, so the recursion ends. COMPLETE and the T3450 handler's own abort free the buffer without unregistering it, which is how a freed buffer reaches the registered abort.
- **EMMAS_ESTABLISH_CNF:** the EMM FSM enters REGISTERED_INITIATED as `_emm_attach_accept` sends the ACCEPT (`EmmAsEstablishCnf`, from spec §4.4).
- **Return codes:** `_emm_attach` returns RETURNerror, with nothing rejected, only when `emm_proc_common_initialize` fails (`AttachFails`); `_emm_attach_identify` then rejects the UE (1168–1173).
- **The store:** `emm_data_context_remove` destroys the context (spec §4.1).
- **The HSS answer:** it starts authentication with `emm_attach_security` as the continuation. spec.md line 132 says the answer re-enters identify, which would loop with no progress.
- **Rejects that do not end the attach.** TLC was run with two variants, and no run keeps either:
  - with `AttachTypes = {EPS, EMERGENCY}` and `EmergencyAttach = FALSE` in the `imsi` configuration, `NoAcceptAfterReject` is violated. The emergency request is rejected from a temporary context (275) while the EPS attach goes on to its ACCEPT;
  - if the protocol-error reject of `emm_proc_attach_reject` also counts as rejecting the attach, the same happens. That reject leaves the context, its procedures and T3450 alone.
- **Uninitialised read:** `esm_sap.err` is read uninitialised at COMPLETE when there is no context (578). Both values leave the modelled state unchanged.
- **Left out:**
  - the TAC setting (400–408), logging and message encoding;
  - T3460 and T3470, which this procedure never starts;
  - the duplicate-idempotence law of spec §8. Spec §4.3 counts a GUTI present on one side only as a change. After an IMSI attach the context holds a synthesised GUTI, so the resent request of scenario 2 is judged changed, and on the way it formats a NULL GUTI (`null_guti_format`). After a GUTI attach, identification has stored the IMSI, so the resent request is judged changed too. Spec §4.3 and §8 disagree here, and the code follows §4.3, so no property claims the law;
  - the branches compiled out of the MME build.

## Plan for later work

- A two-UE run, to look at GUTI collisions between UEs in the index.
