---------------------------- MODULE HaveChanged ----------------------------
EXTENDS TLC
(***************************************************************************)
(* _emm_attach_have_changed (Attach.c 1561-1761) with the real fields: the *)
(* detector that tells a resent ATTACH REQUEST from a changed one. It is   *)
(* a pure function of the stored context and the request, so it is        *)
(* checked over every pair of small inputs:                                *)
(*   - against the change definition of spec section 4.3, and             *)
(*   - against the abstraction EmmAttach makes of it, where the           *)
(*     capability fields are one value compared as a whole.                *)
(* Context and request are records of the same shape: "emergency" is      *)
(* ctx->is_emergency, or type == EMERGENCY for the request.               *)
(***************************************************************************)
CONSTANTS
    Vals,     \* values of ksi and of the algorithm bit maps
    Gutis,    \* GUTI_t values: [m_tmsi, gummei] records
    Imsis,    \* IMSI values (imsi_t compared with memcmp)
    Imeis,    \* IMEI values
    NULL      \* a model value: the NULL identity pointer

GummeiFields == {"MMEcode", "MMEgid", "MCCdigit1", "MCCdigit2", "MCCdigit3",
                 "MNCdigit1", "MNCdigit2", "MNCdigit3"}

(* A GUTI_t: the GUMMEI and the M-TMSI. *)
ASSUME \A g \in Gutis : DOMAIN g = {"m_tmsi", "gummei"} /\ DOMAIN g.gummei = GummeiFields
ASSUME NULL \notin Gutis \cup Imsis \cup Imeis

(* An identity pointer compared field by field or with memcmp: presence   *)
(* on one side only is a change, then the values.                          *)
IdChanged(p, q) ==
    \/ p # NULL /\ q = NULL
    \/ p = NULL /\ q # NULL
    \/ p # NULL /\ q # NULL /\ p # q

(* The GUTI check of 1654-1704: presence, M-TMSI, then each GUMMEI field. *)
GutiChanged(g, h) ==
    \/ g # NULL /\ h = NULL
    \/ g = NULL /\ h # NULL
    \/ /\ g # NULL /\ h # NULL
       /\ \/ g.m_tmsi # h.m_tmsi
          \/ \E f \in GummeiFields : g.gummei[f] # h.gummei[f]

(* The code, check by check; the first difference returns TRUE. The UMTS  *)
(* algorithms are compared only when both sides have UMTS, GEA only when  *)
(* both have GPRS.                                                        *)
(* Seeded fault: the UMTS algorithms compared without the umts_present    *)
(* guard.                                                                 *)
_emm_attach_have_changed_no_umts_guard(ctx, r) ==
    \/ r.emergency # ctx.emergency
    \/ r.ksi # ctx.ksi \/ r.eea # ctx.eea \/ r.eia # ctx.eia
    \/ r.umts_present # ctx.umts_present
    \/ r.ucs2 # ctx.ucs2 \/ r.uea # ctx.uea \/ r.uia # ctx.uia
    \/ r.gprs_present # ctx.gprs_present
    \/ ctx.gprs_present /\ r.gprs_present /\ r.gea # ctx.gea
    \/ GutiChanged(r.guti, ctx.guti)
    \/ IdChanged(r.imsi, ctx.imsi)
    \/ IdChanged(r.imei, ctx.imei)

_emm_attach_have_changed(ctx, r) ==
    \/ r.emergency # ctx.emergency
    \/ r.ksi # ctx.ksi \/ r.eea # ctx.eea \/ r.eia # ctx.eia
    \/ r.umts_present # ctx.umts_present
    \/ ctx.umts_present /\ r.umts_present /\ (r.ucs2 # ctx.ucs2 \/ r.uea # ctx.uea \/ r.uia # ctx.uia)
    \/ r.gprs_present # ctx.gprs_present
    \/ ctx.gprs_present /\ r.gprs_present /\ r.gea # ctx.gea
    \/ GutiChanged(r.guti, ctx.guti)
    \/ IdChanged(r.imsi, ctx.imsi)
    \/ IdChanged(r.imei, ctx.imei)

(* Spec 4.3: CHANGED iff the emergency indicator, ksi, eea, eia,           *)
(* umts_present or gprs_present differ, or, when the flag is set on both  *)
(* sides, ucs2/uea/uia or gea differ, or an identity differs in presence  *)
(* or value (a GUTI in its M-TMSI or any GUMMEI digit).                   *)
SpecChanged(x, r) ==
    \/ \E f \in {"emergency", "ksi", "eea", "eia", "umts_present", "gprs_present"} : x[f] # r[f]
    \/ x.umts_present /\ r.umts_present /\ \E f \in {"ucs2", "uea", "uia"} : x[f] # r[f]
    \/ x.gprs_present /\ r.gprs_present /\ x.gea # r.gea
    \/ \E f \in {"guti", "imsi", "imei"} : x[f] # r[f]

(* What EmmAttach keeps of the request: the capability fields the check   *)
(* reads, as one value, and the identities.                               *)
Posture(p) ==
    [emergency |-> p.emergency, ksi |-> p.ksi, eea |-> p.eea, eia |-> p.eia,
     umts |-> IF p.umts_present THEN <<p.ucs2, p.uea, p.uia>> ELSE <<>>,
     gprs |-> IF p.gprs_present THEN <<p.gea>> ELSE <<>>,
     guti |-> p.guti, imsi |-> p.imsi, imei |-> p.imei]

(* The values each parameter takes, and the request both sides start from. *)
Ranges ==
    [emergency |-> BOOLEAN, ksi |-> Vals, eea |-> Vals, eia |-> Vals,
     ucs2 |-> Vals, uea |-> Vals, uia |-> Vals, gea |-> Vals,
     umts_present |-> BOOLEAN, gprs_present |-> BOOLEAN,
     guti |-> Gutis \cup {NULL}, imsi |-> Imsis \cup {NULL}, imei |-> Imeis \cup {NULL}]
Base == [f \in DOMAIN Ranges |-> IF f \in {"guti", "imsi", "imei"} THEN NULL
                                 ELSE CHOOSE v \in Ranges[f] : TRUE]

(* The checks fall into groups that read disjoint fields, and the code,   *)
(* SpecChanged and the posture inequality are each a disjunction over the *)
(* groups. Varying one group at a time from Base therefore covers every   *)
(* pair of inputs over Ranges.                                            *)
Groups == {{"emergency", "ksi", "eea", "eia"}, {"umts_present", "ucs2", "uea", "uia"},
           {"gprs_present", "gea"}, {"guti"}, {"imsi"}, {"imei"}}
(* Every assignment of values from Ranges to the fields fs.               *)
RECURSIVE Choices(_)
Choices(fs) ==
    IF fs = {} THEN {<<>>}
    ELSE LET f == CHOOSE f \in fs : TRUE
         IN {(f :> v) @@ g : v \in Ranges[f], g \in Choices(fs \ {f})}
Inputs(fs) == {[f \in DOMAIN Base |-> IF f \in fs THEN g[f] ELSE Base[f]] : g \in Choices(fs)}

(* Change detection (spec 4.3, and the abstraction of EmmAttach): for     *)
(* every stored context and request, _emm_attach_have_changed reports a   *)
(* change exactly when spec 4.3 defines one, and exactly when the         *)
(* posture EmmAttach compares differs; a resent request whose UMTS or     *)
(* GPRS algorithms differ while that system is absent is a duplicate.     *)
HaveChangedIsPostureChange ==
    \A fs \in Groups : \A x, r \in Inputs(fs) :
        /\ _emm_attach_have_changed(x, r) = SpecChanged(x, r)
        /\ _emm_attach_have_changed(x, r) = (Posture(x) # Posture(r))
=============================================================================
