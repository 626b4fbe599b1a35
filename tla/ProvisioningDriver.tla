-------------------------- MODULE ProvisioningDriver --------------------------
(***************************************************************************)
(* infra/provisioning/src/providers/driver.ts: what a step of a job asks   *)
(* of the tenant, given the snapshots earlier steps left in the store.     *)
(*                                                                         *)
(* A snapshot is the resource record of kind provider_state_v1: the status *)
(* and key the provider answered with, the generation that says which      *)
(* snapshot is the latest, the step that left it, and whether it is still  *)
(* "active" or was disposed of by a compensation.  The step that hands out *)
(* the credential and the last one ask something of the tenant, the others *)
(* nothing.                                                                *)
(***************************************************************************)
EXTENDS JobStateMachine, SharedTenant

CONSTANT CredStep    \* the position of api_credential among the steps

ASSUME CredStepAssumption == CredStep \in Step /\ CredStep < LastStep

Snapshot == [g: Nat, status: TenantStatus \ {"absent"}, key: Key, step: Step,
             active: BOOLEAN]

\* #reconstruct: the latest snapshot.
Latest(snaps) == {s \in snaps : \A t \in snaps : t.g <= s.g}
Prior(snaps)  == CHOOSE s \in Latest(snaps) : TRUE

\* "Latest" snapshots that disagree: the driver throws.
Ambiguous(snaps) ==
  \E s, t \in Latest(snaps) : s.status # t.status \/ s.key # t.key

\* nextGeneration.
NextGeneration(snaps, status, key) ==
  CASE snaps = {} -> 0
    [] snaps # {} /\ Prior(snaps).status = status /\ Prior(snaps).key = key ->
         Prior(snaps).g
    [] OTHER -> Prior(snaps).g + 1

\* snapshotResource.
Snap(snaps, step, answer) ==
  [g |-> NextGeneration(snaps, answer.status, answer.key), status |-> answer.status,
   key |-> answer.key, step |-> step, active |-> TRUE]

\* putResource: a record is keyed by everything but its status.
Put(snaps, new) ==
  {s \in snaps : \A t \in new : [s EXCEPT !.active = TRUE] # t} \cup new

\* A driver's answer: the provider's, and the snapshot to be kept of it.
Kept(snaps, step, answer) ==
  [answer |-> answer,
   snap   |-> IF answer.ok THEN {Snap(snaps, step, answer)} ELSE {}]

\* Nothing is asked of the tenant.
Untouched(t) == [answer |-> Answer(t, t.status, t.key, FALSE), snap |-> {}]
Rejected(t)  == [answer |-> Refused(t), snap |-> {}]

\* #provisionOrReissue.
HandOut(j, handedOut, snaps, t, fresh) ==
  CASE snaps = {} -> Kept(snaps, CredStep, ProvisionUnknown(t, fresh))
    [] snaps # {} /\ handedOut /\ j.generation > 0 ->
         IF Prior(snaps).status = "provisioning"
         THEN Kept(snaps, CredStep,
                   Answer(t, Prior(snaps).status, Prior(snaps).key, FALSE))
         ELSE Rejected(t)
    [] snaps # {} /\ handedOut /\ j.generation = 0 ->
         Kept(snaps, CredStep, ProvisionKnown(t, Prior(snaps)))
    [] snaps # {} /\ ~handedOut /\ j.generation > 0 ->
         Kept(snaps, CredStep, Resume(t, Prior(snaps), fresh))
    [] OTHER -> Kept(snaps, CredStep, ReissueAs(t, Prior(snaps), fresh))

\* executeStep, for the next step of the job.
executeStep(j, handedOut, snaps, t, fresh) ==
  LET step == j.completed + 1
  IN  CASE step \notin {CredStep, LastStep} -> Untouched(t)
        [] step \in {CredStep, LastStep} /\ Ambiguous(snaps) -> Rejected(t)
        [] step = CredStep /\ ~Ambiguous(snaps) -> HandOut(j, handedOut, snaps, t, fresh)
        [] OTHER -> IF snaps = {} THEN Rejected(t)
                    ELSE Kept(snaps, LastStep, MarkReady(t, Prior(snaps)))

\* Mutation: every compensation disables.
AlwaysDisables(billing) == "disabled"

Target(billing) == IF billing = "past_due" THEN "suspended" ELSE "disabled"

\* Whether a known tenant is still to be turned off: a snapshot disposed of is
\* taken for the receipt that it was.
StillOn(snaps, target) ==
  /\ Prior(snaps).status # target
  /\ (\E s \in snaps : ~s.active) => Prior(snaps).status = "suspended"

\* compensateStep, for the next step to be compensated.
compensateStep(j, billing, snaps, t) ==
  LET target == Target(billing)
      step   == NextCompensation(j)
  IN  CASE Ambiguous(snaps) -> Rejected(t)
        [] snaps = {} -> [answer |-> TurnOffUnknown(t, target), snap |-> {}]
        [] ~Ambiguous(snaps) /\ snaps # {} /\ StillOn(snaps, target) ->
             Kept(snaps, step, TurnOff(t, Prior(snaps), target))
        [] OTHER -> Untouched(t)

\* applyCompensationDispositions: the step's snapshots that were listed before
\* it was compensated are disposed of.
Disposed(snaps, step, new) ==
  {IF s.step = step /\ s \notin new THEN [s EXCEPT !.active = FALSE] ELSE s :
     s \in snaps}
==============================================================================
