--------------------------- MODULE AttachLifecycle ---------------------------
(***************************************************************************)
(* What the attach procedure promises about one UE, seen from the EMM      *)
(* state of its context (spec 4.4): the UE runs common procedures while    *)
(* DEREGISTERED or COMMON_PROCEDURE_INITIATED, is sent an ATTACH ACCEPT    *)
(* (REGISTERED_INITIATED) only once it holds a NAS security context, and   *)
(* becomes REGISTERED only by completing an accepted attach. Its context   *)
(* may be released, or the procedure abandoned for a new one, at any time; *)
(* a security context is lost only with the context. An accepted attach    *)
(* does not stay pending for ever.                                         *)
(***************************************************************************)
CONSTANT UeIds

VARIABLES
    phase,   \* phase[u]: the EMM state of UE u's attach
    secured  \* secured[u]: UE u's context holds a NAS security context

avars == <<phase, secured>>

Phases == {"DEREGISTERED", "COMMON_PROCEDURE_INITIATED", "REGISTERED_INITIATED", "REGISTERED"}

TypeOK == phase \in [UeIds -> Phases] /\ secured \in [UeIds -> BOOLEAN]

Init == phase = [u \in UeIds |-> "DEREGISTERED"] /\ secured = [u \in UeIds |-> FALSE]

(* A request or a common procedure (re)starts the attach: the UE is back  *)
(* before the accept, and may have gained a security context.             *)
Restart(u) ==
    /\ phase' \in {[phase EXCEPT ![u] = p] : p \in {"DEREGISTERED", "COMMON_PROCEDURE_INITIATED"}}
    /\ secured' \in {secured, [secured EXCEPT ![u] = TRUE]}

(* The context is released: nothing of the UE is left.                    *)
Release(u) ==
    /\ phase' = [phase EXCEPT ![u] = "DEREGISTERED"]
    /\ secured' = [secured EXCEPT ![u] = FALSE]

(* An ATTACH ACCEPT is sent (or resent) to a secured UE not yet registered. *)
Accept(u) ==
    /\ secured[u] /\ phase[u] # "REGISTERED"
    /\ phase' = [phase EXCEPT ![u] = "REGISTERED_INITIATED"]
    /\ UNCHANGED secured

(* The UE completes the accepted attach.                                  *)
Complete(u) ==
    /\ phase[u] = "REGISTERED_INITIATED"
    /\ phase' = [phase EXCEPT ![u] = "REGISTERED"]
    /\ UNCHANGED secured

Next == \E u \in UeIds : Restart(u) \/ Release(u) \/ Accept(u) \/ Complete(u)

(* Leaving REGISTERED_INITIATED, one way or another.                      *)
Conclude(u) == phase[u] = "REGISTERED_INITIATED" /\ (Complete(u) \/ Release(u) \/ Restart(u))

Spec == Init /\ [][Next]_avars /\ \A u \in UeIds : WF_avars(Conclude(u))

(* A registered UE holds a security context.                              *)
RegisteredSecured == \A u \in UeIds : phase[u] = "REGISTERED" => secured[u]
=============================================================================
