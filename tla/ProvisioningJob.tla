--------------------------- MODULE ProvisioningJob ---------------------------
(***************************************************************************)
(* The provisioning saga of one subscription (infra/provisioning/src/      *)
(* orchestrator.ts, run by handlers/worker.ts for every queued Stripe      *)
(* event): an event is reduced into the order, the order moves the job,    *)
(* and the job is run, under a lease, against the tenant.                  *)
(*                                                                         *)
(* One actor per event: the worker that processes it, at each of its       *)
(* deliveries.  Every await that writes is a step; what only the holder of *)
(* the lease writes (snapshots, handoff, tenant) is read where it is       *)
(* used.  A worker holds its lease for as long as it lives: the lease      *)
(* lasts ten minutes and is renewed, a worker is stopped after five.       *)
(*                                                                         *)
(* The queue is a FIFO per subscription (template.yaml): an event is       *)
(* delivered again until it is acknowledged or has been delivered too      *)
(* often, and only then the next one.  The code also provides for workers  *)
(* that meet; "fifo" chooses between the two.  An event is written into    *)
(* the order in one step here: BillingReducer has the reduction.           *)
(***************************************************************************)
EXTENDS ProvisioningDriver

CONSTANTS
  Event,           \* accepted events: numbers, in the order of their times
  Desired,         \* the billing state each of them asks for
  Scene,           \* which events arrive, how they are delivered, and the bound
                   \* on faults: crashes, lost answers, I/O errors
  MaxDeliveries    \* maxReceiveCount of the queue (5 in the code)

ASSUME EventAssumption ==
  /\ IsFiniteSet(Event) /\ Event = 1..Cardinality(Event)
  /\ Desired \in [Event -> {"active", "past_due", "canceled"}]
  /\ Scene \subseteq [fifo: BOOLEAN, events: SUBSET Event, faults: Nat]
ASSUME DeliveriesAssumption == MaxDeliveries \in Nat \ {0}

Generation == 0..Cardinality(Event)    \* bound: the activations

VARIABLES
  scene,        \* the scene that is played
  seen,         \* the events reduced into the order
  job,          \* the job record
  lease,        \* the execution lease
  handoff,      \* the credential handoff pointer of each activation
  secrets,      \* the keys whose immutable secret was created
  snaps,        \* the snapshots among the resource records
  tenant,       \* the tenant at the provider
  w,            \* the workers
  deliveries,   \* how often each event was delivered
  faults        \* the faults so far

stored == <<job, lease, handoff, secrets, snaps, tenant>>
vars   == <<scene, seen, stored, w, deliveries, faults>>

Pointer   == [pub: Int, state: {"none", "pending", "published", "revoked"}, bound: BOOLEAN]
NoPointer == [pub |-> -1, state |-> "none", bound |-> FALSE]

Phase == {"queued", "reduced", "creating", "resuming", "listing", "moving",
          "claiming", "peeking", "loading", "fetching", "deciding", "starting",
          "preparing", "executing", "persisting", "binding", "storing",
          "publishing", "saving", "failing",
          "revoking", "undoing", "keeping", "disposing", "checking",
          "done", "dead"}

\* Where an error is caught and recorded in the job.
Working == {"preparing", "executing", "persisting", "binding", "storing",
            "publishing", "saving", "revoking", "undoing", "keeping",
            "disposing", "checking"}

\* What a worker knows: the job it read, the one it is about to save, the
\* billing state of the order it read, and what the current step came to.
Worker == [phase: Phase, leased: BOOLEAN, job: Job, next: Job,
           billing: {"active", "past_due", "canceled"},
           tries: 1..3, conflicts: 0..2,
           handedOut: BOOLEAN, minted: BOOLEAN, snap: SUBSET Snapshot,
           retryable: BOOLEAN]

NoWorker(p) == [phase |-> p, leased |-> FALSE, job |-> NoJob, next |-> NoJob,
                billing |-> "active", tries |-> 1, conflicts |-> 2,
                handedOut |-> FALSE, minted |-> FALSE, snap |-> {},
                retryable |-> FALSE]

TypeOK ==
  /\ scene \in Scene
  /\ seen \subseteq Event
  /\ job \in Job
  /\ lease \in {"free", "held", "orphaned"}
  /\ handoff \in [Generation -> Pointer]
  /\ secrets \subseteq Key
  /\ snaps \subseteq Snapshot
  /\ tenant \in Tenant
  /\ w \in [Event -> Worker]
  /\ deliveries \in [Event -> 0..MaxDeliveries]
  /\ faults \in 0..scene.faults

Init ==
  /\ scene \in Scene
  /\ seen = {}
  /\ job = NoJob
  /\ lease = "free"
  /\ handoff = [g \in Generation |-> NoPointer]
  /\ secrets = {}
  /\ snaps = {}
  /\ tenant = NoTenant
  /\ w = [e \in Event |-> NoWorker("queued")]
  /\ deliveries = [e \in Event |-> 0]
  /\ faults = 0

\* The billing state of an order (BillingReducer): a cancellation is final,
\* otherwise the latest event decides.
Billing(events) ==
  IF \E e \in events : Desired[e] = "canceled" THEN "canceled"
  ELSE Desired[CHOOSE e \in events : \A f \in events : f <= e]

Active(e)  == w[e].phase \notin {"queued", "done", "dead"}
Settled(e) == w[e].phase \in {"done", "dead"}

Become(e, r)  == w' = [w EXCEPT ![e] = r]
Goto(e, p)    == Become(e, [w[e] EXCEPT !.phase = p])
Acked(e)      == Become(e, NoWorker("done"))
Undelivered(e) ==
  Become(e, NoWorker(IF deliveries[e] = MaxDeliveries THEN "dead" ELSE "queued"))

\* putJob: a compare-and-swap on the version.
Current(j)  == j.version = job.version
Saved(next) == [next EXCEPT !.version = @ + 1]
PutJob(e, next, p) ==
  /\ job' = Saved(next)
  /\ Become(e, [NoWorker(p) EXCEPT !.leased = w[e].leased, !.job = Saved(next),
                  !.billing = w[e].billing, !.conflicts = w[e].conflicts])

\* The run is over: the lease is released, and the event acknowledged if the
\* job is where it should be.
Finish(e, ok) ==
  /\ lease' = "free"
  /\ IF ok THEN Acked(e) ELSE Undelivered(e)

Rest    == UNCHANGED <<scene, seen, deliveries>>
Outside == UNCHANGED <<handoff, secrets, snaps, tenant>>
Quiet   == Rest /\ Outside /\ UNCHANGED faults

------------------------------------------------------------------------------
(***************************************************************************)
(* processClaimedStripeEvent.                                              *)
(***************************************************************************)
\* processRecord, reduceAndStoreOrder.
Receive(e) ==
  /\ e \in scene.events
  /\ w[e].phase = "queued"
  /\ deliveries[e] < MaxDeliveries
  /\ scene.fifo => /\ \A f \in Event \ {e} : deliveries[f] = 0 \/ Settled(f)
                   /\ lease = "free"
  /\ seen' = seen \cup {e}
  /\ deliveries' = [deliveries EXCEPT ![e] = @ + 1]
  /\ Become(e, [NoWorker("reduced") EXCEPT !.billing = Billing(seen')])
  /\ UNCHANGED <<scene, stored, faults>>

FindJob(e) ==
  LET v == w[e]
      r == [v EXCEPT !.job = job]
  IN
  /\ v.phase = "reduced"
  /\ \/ /\ v.billing # "active" /\ job.state = "none"
        /\ Acked(e)
     \/ /\ v.billing # "active" /\ job.state # "none"
        /\ Become(e, [r EXCEPT !.phase = "listing"])
     \/ /\ v.billing = "active" /\ job.state = "none"
        /\ Goto(e, "creating")
     \/ /\ v.billing = "active" /\ job.state # "none" /\ job.operation = "suspension"
        /\ Become(e, [r EXCEPT !.phase = "resuming"])
     \/ /\ v.billing = "active" /\ job.state # "none" /\ job.operation # "suspension"
        /\ Goto(e, "claiming")
  /\ Quiet /\ UNCHANGED <<job, lease>>

\* createProvisioningJob; a job created meanwhile is as good.
Create(e) ==
  /\ w[e].phase = "creating"
  /\ job' = IF job.state = "none" THEN NewJob ELSE job
  /\ Goto(e, "claiming")
  /\ Quiet /\ UNCHANGED lease

\* resumeProvisioningJob; a conflict fails the delivery.
ResumeJob(e) ==
  /\ w[e].phase = "resuming"
  /\ IF Current(w[e].job)
     THEN /\ job.generation + 1 \in Generation
          /\ job' = Saved(Resumed(w[e].job)) /\ Become(e, NoWorker("claiming"))
     ELSE Undelivered(e) /\ UNCHANGED job
  /\ Quiet /\ UNCHANGED lease

------------------------------------------------------------------------------
(***************************************************************************)
(* runProvisioningJob.                                                     *)
(***************************************************************************)
\* acquireJobExecutionLease.
Claim(e) ==
  /\ w[e].phase = "claiming"
  /\ \/ /\ lease = "free"
        /\ lease' = "held"
        /\ Become(e, [NoWorker("loading") EXCEPT !.leased = TRUE])
     \/ /\ lease # "free"
        /\ Become(e, NoWorker("peeking"))
        /\ UNCHANGED lease
  /\ Quiet /\ UNCHANGED job

\* currentRunResult: somebody else is running the job.
Peek(e) ==
  /\ w[e].phase = "peeking"
  /\ IF job.state \in {"ready", "disabled"} THEN Acked(e) ELSE Undelivered(e)
  /\ Quiet /\ UNCHANGED <<job, lease>>

LoadOrder(e) ==
  /\ w[e].phase = "loading"
  /\ Become(e, [w[e] EXCEPT !.billing = Billing(seen), !.phase = "fetching"])
  /\ Quiet /\ UNCHANGED <<job, lease>>

LoadJob(e) ==
  /\ w[e].phase = "fetching"
  /\ Become(e, [w[e] EXCEPT !.job = job, !.tries = 1,
                  !.phase = IF w[e].billing = "active" THEN "deciding" ELSE "listing"])
  /\ Quiet /\ UNCHANGED <<job, lease>>

\* recoverJobConflict: somebody else has moved the job; start over, or settle
\* for what it is now.
Recover(e) ==
  IF w[e].conflicts > 0
  THEN /\ Become(e, [NoWorker("loading") EXCEPT !.leased = TRUE,
                       !.conflicts = w[e].conflicts - 1])
       /\ UNCHANGED lease
  ELSE Finish(e, job.state \in {"ready", "disabled"})

\* A save of the leased run, and what follows it.
SaveOr(e, next, p) ==
  \/ /\ Current(w[e].job)
     /\ IF p \in Phase THEN PutJob(e, next, p) /\ UNCHANGED lease
        ELSE job' = Saved(next) /\ Finish(e, p = "finished")
  \/ /\ ~Current(w[e].job)
     /\ Recover(e)
     /\ UNCHANGED job

\* transitionToCompensation, for an event and again by every run.
OperationOf(billing) == IF billing = "past_due" THEN "suspension" ELSE "compensation"
Observed(j) == {s.step : s \in snaps} \cup InFlight(j)
After(e) == IF w[e].leased THEN "deciding" ELSE "claiming"

ListResources(e) ==
  LET next == Compensating(w[e].job, Observed(w[e].job), OperationOf(w[e].billing))
  IN
  /\ w[e].phase = "listing"
  /\ IF next = w[e].job THEN Goto(e, After(e))
     ELSE Become(e, [w[e] EXCEPT !.next = next, !.phase = "moving"])
  /\ Quiet /\ UNCHANGED <<job, lease>>

MoveJob(e) ==
  /\ w[e].phase = "moving"
  /\ \/ /\ Current(w[e].job)
        /\ PutJob(e, w[e].next, After(e))
        /\ UNCHANGED lease
     \/ /\ ~Current(w[e].job) /\ w[e].tries < 3
        /\ Become(e, [w[e] EXCEPT !.job = job, !.next = NoJob, !.tries = @ + 1,
                                  !.phase = "listing"])
        /\ UNCHANGED <<job, lease>>
     \/ /\ ~Current(w[e].job) /\ w[e].tries = 3
        /\ IF w[e].leased THEN Recover(e) ELSE Undelivered(e) /\ UNCHANGED lease
        /\ UNCHANGED job
  /\ Quiet

Work(j) == IF j.operation = "provisioning" THEN "preparing" ELSE "revoking"

\* A failed job is retried once its time has come; with a FIFO it always has:
\* an event is delivered again after half an hour.
Decide(e) ==
  LET j == w[e].job
  IN
  /\ w[e].phase = "deciding"
  /\ \/ /\ j.state \in {"ready", "disabled"}
        /\ Finish(e, TRUE)
     \/ /\ j.state = "failed" /\ (j.exhausted \/ ~scene.fifo)
        /\ Finish(e, FALSE)
     \/ /\ j.state \notin {"ready", "disabled"} /\ ~j.exhausted
        /\ Goto(e, IF Started(j) = j THEN Work(j) ELSE "starting")
        /\ UNCHANGED lease
  /\ Quiet /\ UNCHANGED job

Start(e) ==
  /\ w[e].phase = "starting"
  /\ SaveOr(e, Started(w[e].job), Work(w[e].job))
  /\ Quiet

\* The step failed: so does the attempt.
Fail(e) ==
  /\ w[e].phase = "failing"
  /\ SaveOr(e, Failed(w[e].job, w[e].retryable), "failed")
  /\ Quiet

Failing(e, retryable) ==
  Become(e, [w[e] EXCEPT !.phase = "failing", !.retryable = retryable])

------------------------------------------------------------------------------
(***************************************************************************)
(* runProvisioningSteps: the next step of an activation.                   *)
(***************************************************************************)
Gen(e)   == w[e].job.generation
Fresh(e) == <<Gen(e), handoff[Gen(e)].pub>>

\* Mutation: a bound pointer is taken for a publication.
AssumedVerified(e) ==
  LET h == handoff[Gen(e)]
  IN  h.state \in {"pending", "published"} /\ h.bound

\* verifyPublication: the pointer names an immutable secret that exists.
Verified(e) ==
  LET h == handoff[Gen(e)]
  IN  h.state \in {"pending", "published"} /\ h.bound /\ Fresh(e) \in secrets

\* prepareCredentialHandoff.
Prepare(e) ==
  LET g == Gen(e)
      h == handoff[g]
      go(done) == Become(e, [w[e] EXCEPT !.phase = "executing", !.handedOut = done])
  IN
  /\ w[e].phase = "preparing"
  /\ \/ /\ w[e].job.completed + 1 # CredStep
        /\ go(FALSE)
        /\ UNCHANGED handoff
     \/ /\ w[e].job.completed + 1 = CredStep /\ Verified(e)
        /\ handoff' = [handoff EXCEPT ![g].state = "published"]
        /\ go(TRUE)
     \/ /\ w[e].job.completed + 1 = CredStep /\ ~Verified(e)
        /\ IF h.state = "revoked"
           THEN Failing(e, FALSE) /\ UNCHANGED handoff
           ELSE /\ handoff' = [handoff EXCEPT ![g] =
                     [pub |-> h.pub + 1, state |-> "pending", bound |-> FALSE]]
                /\ go(FALSE)
  /\ Rest /\ UNCHANGED <<job, lease, secrets, snaps, tenant, faults>>

\* The tenant's answer to the step under way.
Answered(e) ==
  IF w[e].phase = "executing"
  THEN executeStep(w[e].job, w[e].handedOut, snaps, tenant, Fresh(e))
  ELSE compensateStep(w[e].job, w[e].billing, snaps, tenant)

\* The driver's call returns.
CallDriver(e) ==
  LET a == Answered(e)
  IN
  /\ w[e].phase \in {"executing", "undoing"}
  /\ tenant' = a.answer.tenant
  /\ IF a.answer.ok
     THEN Become(e, [w[e] EXCEPT !.snap = a.snap, !.minted = a.answer.minted,
            !.phase = IF w[e].phase = "executing" THEN "persisting" ELSE "keeping"])
     ELSE Failing(e, FALSE)
  /\ Rest /\ UNCHANGED <<job, lease, handoff, secrets, snaps, faults>>

\* persistStepResources.
Persist(e) ==
  /\ w[e].phase \in {"persisting", "keeping"}
  /\ snaps' = Put(snaps, w[e].snap)
  /\ Goto(e, CASE w[e].phase = "keeping" -> "disposing"
               [] w[e].phase = "persisting" /\ w[e].minted -> "binding"
               [] OTHER -> "saving")
  /\ Rest /\ UNCHANGED <<job, lease, handoff, secrets, tenant, faults>>

\* publishCredentialIfNeeded: bind the pointer, create the secret, publish.
Publish(e) ==
  \/ /\ w[e].phase = "binding"
     /\ handoff' = [handoff EXCEPT ![Gen(e)].bound = TRUE]
     /\ Goto(e, "storing")
     /\ Rest /\ UNCHANGED <<job, lease, secrets, snaps, tenant, faults>>
  \/ /\ w[e].phase = "storing"
     /\ secrets' = secrets \cup {Fresh(e)}
     /\ Goto(e, "publishing")
     /\ Rest /\ UNCHANGED <<job, lease, handoff, snaps, tenant, faults>>
  \/ /\ w[e].phase = "publishing"
     /\ handoff' = [handoff EXCEPT ![Gen(e)].state = "published"]
     /\ Goto(e, "saving")
     /\ Rest /\ UNCHANGED <<job, lease, secrets, snaps, tenant, faults>>

\* completeProvisioningStep.
SaveStep(e) ==
  LET next == StepCompleted(w[e].job)
  IN
  /\ w[e].phase = "saving"
  /\ SaveOr(e, next, IF next.state = "ready" THEN "finished" ELSE "preparing")
  /\ Quiet

------------------------------------------------------------------------------
(***************************************************************************)
(* runCompensationSteps: the next step to be undone.                       *)
(***************************************************************************)
\* Mutation: only what was published is revoked.
RevokePublished(e) ==
  LET h == handoff[Gen(e)]
  IN
  /\ w[e].phase = "revoking"
  /\ handoff' = IF h.state # "published" THEN handoff
                ELSE [handoff EXCEPT ![Gen(e)].state = "revoked"]
  /\ Goto(e, "undoing")
  /\ Rest /\ UNCHANGED <<job, lease, secrets, snaps, tenant, faults>>

\* revokeCredentialHandoff, for the activation the job is at.
Revoke(e) ==
  LET h == handoff[Gen(e)]
  IN
  /\ w[e].phase = "revoking"
  /\ handoff' = IF h.state = "none" THEN handoff
                ELSE [handoff EXCEPT ![Gen(e)].state = "revoked"]
  /\ Goto(e, "undoing")
  /\ Rest /\ UNCHANGED <<job, lease, secrets, snaps, tenant, faults>>

\* applyCompensationDispositions.
Dispose(e) ==
  /\ w[e].phase = "disposing"
  /\ snaps' = Disposed(snaps, NextCompensation(w[e].job), w[e].snap)
  /\ Goto(e, "checking")
  /\ Rest /\ UNCHANGED <<job, lease, handoff, secrets, tenant, faults>>

\* completeCompensationStep.
SaveUndone(e) ==
  LET next == StepCompensated(w[e].job)
  IN
  /\ w[e].phase = "checking"
  /\ SaveOr(e, next, IF next.state = "disabled" THEN "finished" ELSE "revoking")
  /\ Quiet

------------------------------------------------------------------------------
(***************************************************************************)
(* Faults.                                                                 *)
(***************************************************************************)
Fault == faults < scene.faults /\ faults' = faults + 1

\* A call of a step throws: to the tenant (whatever became of it) or a store.
StepThrows(e) ==
  /\ w[e].phase \in Working
  /\ Fault
  /\ tenant' \in {tenant} \cup
       (IF w[e].phase \in {"executing", "undoing"} THEN {Answered(e).answer.tenant} ELSE {})
  /\ Failing(e, TRUE)
  /\ Rest /\ UNCHANGED <<job, lease, handoff, secrets, snaps>>

\* The worker dies, and with it everything it held but the lease.
Crash(e) ==
  /\ Active(e)
  /\ Fault
  /\ lease' = IF w[e].leased THEN "orphaned" ELSE lease
  /\ Undelivered(e)
  /\ Rest /\ Outside /\ UNCHANGED job

\* The lease of a dead worker runs out.
Expire ==
  /\ lease = "orphaned"
  /\ lease' = "free"
  /\ Quiet /\ UNCHANGED <<job, w>>

Proceed(e) ==
  \/ FindJob(e) \/ Create(e) \/ ResumeJob(e)
  \/ Claim(e) \/ Peek(e) \/ LoadOrder(e) \/ LoadJob(e)
  \/ ListResources(e) \/ MoveJob(e) \/ Decide(e) \/ Start(e) \/ Fail(e)
  \/ Prepare(e) \/ CallDriver(e) \/ Persist(e) \/ Publish(e) \/ SaveStep(e)
  \/ Revoke(e) \/ Dispose(e) \/ SaveUndone(e)

Next ==
  \/ \E e \in Event : Receive(e) \/ Proceed(e) \/ StepThrows(e) \/ Crash(e)
  \/ Expire

Spec == Init /\ [][Next]_vars
------------------------------------------------------------------------------
(***************************************************************************)
(* Properties.                                                             *)
(***************************************************************************)
Now(b) == Billing(seen) = b

\* A tenant is ready only with a credential that works: the pointer of the
\* current activation is published, its secret exists, and it is the key the
\* tenant accepts - whatever was lost, repeated or started over on the way,
\* also when workers meet.
ReadyBacked ==
  job.state = "ready" =>
    LET h == handoff[job.generation]
    IN  /\ h.state = "published"
        /\ <<job.generation, h.pub>> \in secrets
        /\ tenant.key = <<job.generation, h.pub>>
        /\ tenant.status = "ready"

\* The tenant accepts no calls; after a cancellation for good.
TurnedOff == tenant.status \in
  IF job.operation = "compensation" THEN {"absent", "disabled"}
                                    ELSE {"absent", "suspended", "disabled"}

\* A job is disabled only when the handoff of its activation was revoked,
\* whatever stage it had reached, and the tenant is off, for good after a
\* cancellation, even if the answer of the call that turned it on was lost -
\* the tenant as long as the subscription never recovered from a missed payment.
DisabledIsOff ==
  job.state = "disabled" =>
    /\ handoff[job.generation].state \in {"none", "revoked"}
    /\ job.generation = 0 => TurnedOff

\* "Compensation runs completed steps in reverse.  It revokes credentials,
\* disables new signing": a tenant whose cancellation is through is off.
CompensationTurnsOff ==
  job.state = "disabled" /\ job.operation = "compensation" => TurnedOff

\* A tenant is disabled for good only if the subscription is canceled: a missed
\* payment never destroys one (the queue being a FIFO).
SuspensionReversible ==
  scene.fifo /\ tenant.status = "disabled" => Now("canceled")

\* An event is acknowledged only when the job has caught up with the order.
Acknowledged ==
  \A e \in Event : w[e].phase # "done" /\ w'[e].phase = "done" =>
    \/ Now("active") /\ job'.state = "ready"
    \/ ~Now("active") /\ job'.state = "none"
    \/ ~Now("active") /\ job'.state = "disabled" /\ job'.operation = OperationOf(Billing(seen))

\* "Cancellation and refund remain irreversible terminal paths": no event, of
\* whatever time, takes a job out of its compensation.
StaysCompensated ==
  job.state # "none" /\ job.operation = "compensation" => job'.operation = "compensation"

\* With the events in order, no step of a worker goes against the order: neither
\* acknowledging an event nor reopening a job.
AckMatchesOrder == [][scene.fifo => Acknowledged /\ StaysCompensated]_vars
==============================================================================
