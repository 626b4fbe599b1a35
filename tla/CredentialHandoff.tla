-------------------------- MODULE CredentialHandoff --------------------------
(***************************************************************************)
(* The handoff of one activation's credential under a lease that can be    *)
(* lost: the api_credential step and the revocation of orchestrator.ts     *)
(* against the conditional writes of aws/dynamo-provisioning-store.ts and  *)
(* the immutable secrets of aws/secrets-manager-credential-handoff.ts.     *)
(*                                                                         *)
(* ProvisioningJob lets a worker keep its lease for as long as it lives;   *)
(* here a run may outlive it and go on beside its successor.  It renews    *)
(* the lease before every write of the pointer (fence), and the write is a *)
(* transaction that compares owner and fencing token: the time it compares *)
(* is the one the run has just renewed with, so it never stands in its     *)
(* way.  The provider and the secret store know nothing of the lease.      *)
(***************************************************************************)
EXTENDS Integers

CONSTANTS
  Run,         \* the runs of the job
  MaxFaults    \* bound: runs that die or fail, leases that expire under a run

ASSUME RunAssumption   == Run \subseteq Nat \ {0}
ASSUME FaultAssumption == MaxFaults \in Nat

VARIABLES
  lease,       \* owner (0: released, or never taken), token, and whether it is running
  pointer,     \* the handoff pointer
  secrets,     \* the immutable secrets, by what their names and tags say
  minted,      \* the credentials the provider has generated
  active,      \* the one it accepts, 0 if none
  canceled,    \* the job was moved to compensation
  step,        \* the step of the job: "open", "done" or "undone"
  run,         \* the runs
  outlived,    \* a lease has expired under a run
  faults

cvars == <<lease, pointer, secrets, minted, active, canceled, step, run, outlived, faults>>

\* A publication: secretId, publicationId and credentialId all follow from it.
Publication   == [pub: Nat, fence: Nat, key: Nat \ {0}]
NoPublication == [pub |-> 0, fence |-> 0, key |-> 0]
Pointer == [state: {"none", "pending", "published", "revoked"}, pub: Nat \cup {-1}, fence: Nat,
            bound: Publication \cup {NoPublication}]
NoPointer == [state |-> "none", pub |-> -1, fence |-> 0, bound |-> NoPublication]

Phase == {"claim", "read", "begin", "execute", "bind", "create", "publish",
          "revoke", "turn_off", "save", "end"}

\* fenced: the lease was renewed for the write that comes next; undo: the job it
\* has read is to be compensated.
RunState == [phase: Phase, fenced: BOOLEAN, token: Nat, undo: BOOLEAN, ptr: Pointer,
             publication: Publication \cup {NoPublication}]
NewRun   == [phase |-> "claim", fenced |-> FALSE, token |-> 0, undo |-> FALSE, ptr |-> NoPointer,
             publication |-> NoPublication]

CTypeOK ==
  /\ lease \in [owner: Run \cup {0}, token: Nat, running: BOOLEAN]
  /\ pointer \in Pointer
  /\ secrets \subseteq Publication
  /\ minted \in Nat
  /\ active \in 0..minted
  /\ canceled \in BOOLEAN
  /\ step \in {"open", "done", "undone"}
  /\ run \in [Run -> RunState]
  /\ outlived \in BOOLEAN
  /\ faults \in 0..MaxFaults

CInit ==
  /\ lease = [owner |-> 0, token |-> 0, running |-> FALSE]
  /\ pointer = NoPointer
  /\ secrets = {}
  /\ minted = 0 /\ active = 0
  /\ canceled = FALSE
  /\ step = "open"
  /\ run = [r \in Run |-> NewRun]
  /\ outlived = FALSE
  /\ faults = 0

------------------------------------------------------------------------------
(***************************************************************************)
(* The lease.                                                              *)
(***************************************************************************)
Owns(r)  == lease.owner = r /\ lease.token = run[r].token
Alive(r) == run[r].phase \notin {"claim", "end"}

Become(r, v)    == run' = [run EXCEPT ![r] = v]
Goto(r, phase)  == Become(r, [run[r] EXCEPT !.phase = phase, !.fenced = FALSE])
Provider == <<minted, active>>
Job      == <<canceled, step>>
Outside  == <<secrets, Provider>>

\* acquireJobExecutionLease: a lease that is running belongs to somebody else.
Claim(r) ==
  /\ run[r].phase = "claim"
  /\ IF lease.running
     THEN Goto(r, "end") /\ UNCHANGED lease
     ELSE /\ lease' = [owner |-> r, token |-> lease.token + 1, running |-> TRUE]
          /\ Become(r, [NewRun EXCEPT !.phase = "read", !.token = lease'.token])
  /\ UNCHANGED <<pointer, Outside, Job, outlived, faults>>

\* releaseJobExecutionLease, of the own lease only.
Released(r) == IF Owns(r) THEN [lease EXCEPT !.owner = 0, !.running = FALSE] ELSE lease
End(r) == lease' = Released(r) /\ Goto(r, "end")

\* renewJobExecutionLease, before a write or as a heartbeat: a lease that has
\* expired is renewed all the same if the request was sent in time.
Fence(r) ==
  /\ run[r].phase \in {"begin", "bind", "publish", "revoke"} /\ ~run[r].fenced
  /\ \/ /\ Owns(r)
        /\ lease' = [lease EXCEPT !.running = TRUE]
        /\ Become(r, [run[r] EXCEPT !.fenced = TRUE])
     \/ /\ ~Owns(r) \/ ~lease.running
        /\ End(r)
  /\ UNCHANGED <<pointer, Outside, Job, outlived, faults>>

\* Heartbeats keep the lease of a run alive, unless it is stopped for longer
\* than the lease lasts.
Expire ==
  /\ lease.running
  /\ \E r \in Run :
       /\ lease.owner = r
       /\ IF Alive(r) THEN /\ faults < MaxFaults /\ faults' = faults + 1
                           /\ outlived' = TRUE
          ELSE UNCHANGED <<outlived, faults>>
  /\ lease' = [lease EXCEPT !.running = FALSE]
  /\ UNCHANGED <<pointer, Outside, Job, run>>

\* The run dies, or a step of it fails and it gives the lease back.  What it was
\* doing may have happened all the same: that is the step, and then this.
Stop(r) ==
  /\ Alive(r) /\ faults < MaxFaults /\ faults' = faults + 1
  /\ \/ Goto(r, "end") /\ UNCHANGED lease
     \/ End(r)
  /\ UNCHANGED <<pointer, Outside, Job, outlived>>

------------------------------------------------------------------------------
(***************************************************************************)
(* The pointer.                                                            *)
(***************************************************************************)
\* verifyPublication: the secret the pointer names is there, with its tags.
Verified(p) == p.bound # NoPublication /\ p.bound \in secrets

\* Mutation: the provider is not told that the credential was handed out.
MintsAgain(p) ==
  IF canceled THEN IF p.state \in {"none", "revoked"} THEN "turn_off" ELSE "revoke"
  ELSE IF p.state = "revoked" THEN "end"
  ELSE IF Verified(p) THEN IF p.state = "published" THEN "execute" ELSE "publish"
  ELSE "begin"

\* What prepareCredentialHandoff makes of the pointer, and, for a job that is
\* being compensated, the revocation.
Following(p) ==
  IF canceled THEN IF p.state \in {"none", "revoked"} THEN "turn_off" ELSE "revoke"
  ELSE IF p.state = "revoked" THEN "end"
  ELSE IF Verified(p) THEN IF p.state = "published" THEN "save" ELSE "publish"
  ELSE "begin"

\* Where the step ends up.
Reached(undo) == IF undo THEN "undone" ELSE "done"

Read(r) ==
  /\ run[r].phase = "read"
  /\ IF ~Owns(r) \/ step = Reached(canceled) \/ Following(pointer) = "end"
     THEN End(r)
     ELSE /\ Become(r, [run[r] EXCEPT !.phase = Following(pointer), !.fenced = FALSE,
                          !.undo = canceled, !.ptr = pointer,
                          !.publication = pointer.bound])
          /\ UNCHANGED lease
  /\ UNCHANGED <<pointer, Outside, Job, outlived, faults>>

\* Mutation: the lease is not part of the transaction.
TransactUnfenced(r, condition, next, phase) ==
  /\ run[r].fenced
  /\ IF condition
     THEN /\ pointer' = next
          /\ Become(r, [run[r] EXCEPT !.phase = phase, !.fenced = FALSE, !.ptr = next])
          /\ UNCHANGED lease
     ELSE End(r) /\ UNCHANGED pointer
  /\ UNCHANGED <<Outside, Job, outlived, faults>>

\* #transactPointerPut: the lease, and a condition on the pointer.
Transact(r, condition, next, phase) ==
  /\ run[r].fenced
  /\ IF Owns(r) /\ condition
     THEN /\ pointer' = next
          /\ Become(r, [run[r] EXCEPT !.phase = phase, !.fenced = FALSE, !.ptr = next])
          /\ UNCHANGED lease
     ELSE End(r) /\ UNCHANGED pointer
  /\ UNCHANGED <<Outside, Job, outlived, faults>>

Same(p) == pointer.pub = p.pub /\ pointer.fence = p.fence

BeginHandoff(r) ==
  LET p == run[r].ptr
  IN  /\ run[r].phase = "begin"
      /\ Transact(r, pointer.pub = p.pub /\ pointer.state # "revoked",
                  [state |-> "pending", pub |-> p.pub + 1, fence |-> run[r].token,
                   bound |-> NoPublication], "execute")

BindHandoff(r) ==
  LET p == run[r].ptr
      b == run[r].publication
  IN  /\ run[r].phase = "bind"
      /\ Transact(r, Same(p) /\ pointer.state = "pending"
                     /\ pointer.bound \in {NoPublication, b},
                  [p EXCEPT !.bound = b], "create")

PublishHandoff(r) ==
  LET p == run[r].ptr
  IN  /\ run[r].phase = "publish"
      /\ Transact(r, Same(p) /\ pointer.state \in {"pending", "published"}
                     /\ pointer.bound = p.bound,
                  [p EXCEPT !.state = "published"], "save")

RevokeHandoff(r) ==
  /\ run[r].phase = "revoke"
  /\ Transact(r, Same(run[r].ptr), [run[r].ptr EXCEPT !.state = "revoked"], "turn_off")

------------------------------------------------------------------------------
(***************************************************************************)
(* Provider, secret store and job.                                         *)
(***************************************************************************)
\* executeStep: the provider generates a credential, and no other is accepted.
ExecuteStep(r) ==
  /\ run[r].phase = "execute"
  /\ minted' = minted + 1
  /\ active' = minted'
  /\ Become(r, [run[r] EXCEPT !.phase = "bind",
                  !.publication = [pub |-> run[r].ptr.pub, fence |-> run[r].ptr.fence,
                                   key |-> minted']])
  /\ UNCHANGED <<lease, pointer, secrets, Job, outlived, faults>>

\* createImmutable: a secret of that name is the same secret.
CreateImmutable(r) ==
  /\ run[r].phase = "create"
  /\ secrets' = secrets \cup {run[r].publication}
  /\ Goto(r, "publish")
  /\ UNCHANGED <<lease, pointer, Provider, Job, outlived, faults>>

\* compensateStep: the tenant is turned off.
CompensateJob(r) ==
  /\ run[r].phase = "turn_off"
  /\ active' = 0
  /\ Goto(r, "save")
  /\ UNCHANGED <<lease, pointer, secrets, minted, Job, outlived, faults>>

\* The job is saved under its version: a compensation that was begun meanwhile,
\* or a step somebody else completed, is a conflict.
SaveStep(r) ==
  /\ run[r].phase = "save"
  /\ \/ /\ run[r].undo = canceled /\ step # Reached(canceled)
        /\ step' = Reached(canceled)
        /\ End(r)
     \/ /\ run[r].undo # canceled \/ step = Reached(canceled)
        /\ Goto(r, "read")
        /\ UNCHANGED <<lease, step>>
     \/ /\ ~Owns(r)
        /\ End(r)
        /\ UNCHANGED step
  /\ UNCHANGED <<pointer, Outside, canceled, outlived, faults>>

Cancel ==
  /\ ~canceled
  /\ canceled' = TRUE
  /\ UNCHANGED <<lease, pointer, Outside, step, run, outlived, faults>>

Moves(r) ==
  \/ Claim(r) \/ Fence(r) \/ Read(r)
  \/ BeginHandoff(r) \/ BindHandoff(r) \/ PublishHandoff(r) \/ RevokeHandoff(r)
  \/ ExecuteStep(r) \/ CreateImmutable(r) \/ CompensateJob(r) \/ SaveStep(r)

CNext == Expire \/ Cancel \/ \E r \in Run : Moves(r) \/ Stop(r)

CSpec == CInit /\ [][CNext]_cvars

------------------------------------------------------------------------------
(***************************************************************************)
(* Properties.                                                             *)
(***************************************************************************)
\* One credential per activation is handed out, from a secret that is there, it
\* is not exchanged for another, and a revocation is final: whatever runs die,
\* fail, or go on after their lease.
Handoff == INSTANCE OneTimeHandoff WITH
  NoSecret <- NoPublication,
  offer    <- pointer.state,
  handed   <- IF pointer.state = "published" THEN pointer.bound ELSE NoPublication,
  created  <- secrets
ImplementsHandoff == Handoff!HSpec

\* What was handed out is what the provider accepts, as long as no run outlives
\* its lease: a credential whose answer was lost, or that was never bound, is
\* generated anew, and then the old one is not handed out.
HandedOutWorks ==
  pointer.state = "published" /\ ~canceled /\ ~outlived
    => pointer.bound.key = active
==============================================================================
