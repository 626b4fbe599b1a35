----------------------------- MODULE SharedTenant -----------------------------
(***************************************************************************)
(* A tenant of the shared deployment: what the SQL functions of            *)
(* migrations/0004_esig_cloud_tenants.sql make of it, called through       *)
(* infra/provisioning/src/providers/shared.ts.  Each function is one       *)
(* transaction that locks the tenant's rows, so each call is one change.   *)
(*                                                                         *)
(* The rows of organization and provisioning state change together and are *)
(* one status here; billing is the entitlement's subscription_status; key  *)
(* is the active API key, of which there is at most one.  A call gives the *)
(* tenant it leaves and the resources it answers with; prior is what the   *)
(* caller believes the resources to be, fresh the key a call may generate. *)
(***************************************************************************)
EXTENDS Integers

Key   == Int \X Int       \* named after the handoff a key is generated for
NoKey == <<-1, -1>>

TenantStatus == {"absent", "provisioning", "ready", "suspended", "disabled"}
Tenant == [status: TenantStatus, billing: {"active", "past_due", "canceled"}, key: Key]

NoTenant == [status |-> "absent", billing |-> "active", key |-> NoKey]

Answer(t, status, key, minted) ==
  [ok |-> TRUE, tenant |-> t, status |-> status, key |-> key, minted |-> minted]

\* The function raises, or the adapter rejects its arguments or its answer.
Refused(t) == [Answer(t, t.status, t.key, FALSE) EXCEPT !.ok = FALSE]

Running == {"provisioning", "ready"}

\* reissue_esig_tenant_credential: the active key is replaced.
Reissue(t, fresh) ==
  IF t.status \in Running THEN Answer([t EXCEPT !.key = fresh], t.status, fresh, TRUE) ELSE Refused(t)

\* reissueCredential of the adapter, which keeps the status it believes in.
ReissueAs(t, prior, fresh) ==
  IF prior.status \in Running /\ Reissue(t, fresh).ok
  THEN [Reissue(t, fresh) EXCEPT !.status = prior.status]
  ELSE Refused(t)

\* provision_esig_tenant for a caller that knows nothing: a tenant that is
\* there already (the answer was lost) gets another key, if it has one.
ProvisionUnknown(t, fresh) ==
  IF t.status = "absent"
  THEN Answer([status |-> "provisioning", billing |-> "active", key |-> fresh],
              "provisioning", fresh, TRUE)
  ELSE Reissue(t, fresh)

\* The same for a caller that knows the resources and wants no new key.
ProvisionKnown(t, prior) ==
  IF t.status \in Running /\ t.key = prior.key
  THEN Answer([t EXCEPT !.billing = "active"], t.status, t.key, FALSE)
  ELSE Refused(t)

\* mark_esig_tenant_ready, of a tenant that is there and not turned off.
MayBeReady(t) == t.status \in Running

MarkReady(t, prior) ==
  IF prior.status \in Running /\ MayBeReady(t)
  THEN Answer([t EXCEPT !.status = "ready"], "ready", prior.key, FALSE)
  ELSE Refused(t)

\* resume_esig_tenant.
Resumable(t) == t.status = "suspended" /\ t.billing = "past_due"

\* A tenant that is being provisioned already gets another key; the answer for
\* one that is ready is not accepted by the adapter.
Resume(t, prior, fresh) ==
  CASE prior.status # "disabled" /\ Resumable(t) ->
         Answer([status |-> "provisioning", billing |-> "active", key |-> fresh],
                "provisioning", fresh, TRUE)
    [] prior.status # "disabled" /\ t.status = "provisioning" /\ t.billing = "active" ->
         ReissueAs(t, t, fresh)
    [] OTHER -> Refused(t)

\* The tenant after disable_esig_tenant: terminal is terminal.
Off(t, billing) ==
  LET final == t.status = "disabled" \/ "canceled" \in {t.billing, billing}
  IN  [status  |-> IF final THEN "disabled" ELSE "suspended",
       billing |-> IF t.billing = "canceled" THEN "canceled" ELSE billing,
       key     |-> NoKey]

BillingOf(target) == IF target = "suspended" THEN "past_due" ELSE "canceled"

\* suspend and compensate.
TurnOff(t, prior, target) ==
  IF t.status = "absent" \/ (target = "suspended" /\ prior.status = "disabled")
  THEN Refused(t)
  ELSE Answer(Off(t, BillingOf(target)), target, prior.key, FALSE)

\* suspendUnknown and compensateUnknown: no tenant is fine too.
TurnOffUnknown(t, target) ==
  IF t.status = "absent" THEN Answer(t, "absent", NoKey, FALSE)
  ELSE Answer(Off(t, BillingOf(target)), target, NoKey, FALSE)
==============================================================================
