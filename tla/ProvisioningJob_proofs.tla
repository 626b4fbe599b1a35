------------------------ MODULE ProvisioningJob_proofs ------------------------
(***************************************************************************)
(* The provisioning saga, for any number of steps, attempts, events,       *)
(* deliveries and faults, whether its workers meet or not.                 *)
(*                                                                         *)
(* Only the holder of the lease writes pointers, secrets, snapshots and    *)
(* the tenant; the job is also written, under its version, by workers that *)
(* hold nothing.  So what the holder knows of the stores stays true while  *)
(* it works (Handing, First), and what it knows of the job is a copy that  *)
(* may be stale (CopyOf): then the job has been turned to a compensation,  *)
(* or to a later activation of which there is no pointer yet (Aside).      *)
(* What such a holder still does to the tenant is about an activation that *)
(* nothing is claimed of any more (Whole).                                 *)
(***************************************************************************)
EXTENDS ProvisioningJob, FiniteSetTheorems, WellFoundedInduction, TLAPS

\* What is always so of a job record.
Fine(j) ==
  /\ j.operation = "provisioning" =>
       /\ j.state \in {"none", "queued", "running", "failed", "ready"}
       /\ j.completed = LastStep <=> j.state = "ready"
  /\ j.operation # "provisioning" =>
       /\ j.state \in {"compensating", "failed", "disabled"}
       /\ Uncompensated(j) = {} <=> j.state = "disabled"
  /\ j.compensated \subseteq 1..j.completed
  /\ j.state \in {"none", "queued"} => j.attempt = 0 /\ j.completed = 0
  /\ j.state = "failed" /\ ~j.exhausted => j.attempt < MaxAttempts

Setting == {"preparing", "executing", "persisting", "binding", "storing", "publishing", "saving"}
Undoing == {"revoking", "undoing", "keeping", "disposing", "checking"}
Loaded  == Setting \cup Undoing \cup {"deciding", "starting", "failing"}
Read    == Loaded \cup {"resuming", "listing", "moving"}

\* The phases, the lease and the job of a worker v.
Placed(v, j) ==
  /\ v.phase \in Loaded \cup {"loading", "fetching"} => v.leased
  /\ v.leased => v.phase \in (Read \ {"resuming"}) \cup {"loading", "fetching"}
  /\ v.phase \notin {"queued", "reduced", "creating", "done", "dead"} => j.state # "none"

\* The move a worker is about to make.
NextOf(v) ==
  /\ Fine(v.next) /\ v.next.state \in {"compensating", "disabled"}
  /\ v.next.operation = OperationOf(v.billing)
  /\ v.next.version = v.job.version /\ v.next.generation = v.job.generation
  /\ v.next.state = "disabled" =>
       v.next.completed = 0 /\ v.job.completed = 0 /\ v.job.state \in {"queued", "disabled"}

\* What a worker has read, against the job j.
CopyOf(v, j) == v.phase \in Read =>
  /\ Fine(v.job) /\ v.job.state # "none"
  /\ v.job.version <= j.version /\ v.job.generation <= j.generation
  /\ v.job.version = j.version => v.job = j
  /\ v.phase \in Setting \cup Undoing \cup {"failing"} => v.job.state \in {"running", "compensating"}
  /\ v.phase \in Setting => v.job.operation = "provisioning"
  /\ v.phase \in Undoing => v.job.operation # "provisioning"
  /\ v.phase = "starting" =>
       v.job.state \in {"queued", "failed", "compensating"} /\ v.job.attempt < MaxAttempts
  /\ v.phase = "moving" => NextOf(v)
  /\ v.phase \in Loaded /\ v.billing # "active" => v.job.operation = OperationOf(v.billing)

\* What others may have made of the job while a worker holds the lease.
Aside(v, j) == v.leased /\ v.phase \in Read =>
  /\ v.job # j => /\ j.state \in {"queued", "compensating", "disabled"}
                  /\ j.operation = "provisioning" => v.job.generation < j.generation
  /\ v.job.state \notin {"queued", "disabled"} /\ v.job.generation = j.generation =>
       j.state # "disabled"

Backed(g, h, k) == h[g].state = "published" /\ h[g].bound /\ <<g, h[g].pub>> \in k
Turned(g, h, t) == t.key = <<g, h[g].pub>> /\ t.status \in Running

\* What has become of the pointer and the key in the step of a worker.
Handing(v, h, k, t) ==
  LET p    == v.phase
      g    == v.job.generation
      step == v.job.completed + 1
  IN
  /\ p = "executing" /\ step = CredStep => IF v.handedOut THEN Backed(g, h, k) ELSE ~h[g].bound
  /\ p = "persisting" /\ step = CredStep => IF v.minted THEN Turned(g, h, t) ELSE Backed(g, h, k)
  /\ p = "persisting" /\ v.minted => step = CredStep
  /\ p \in Setting \ {"preparing"} /\ step = CredStep => h[g].state # "none"
  /\ p \in {"persisting", "keeping"} => v.snap = {} \/ Latest(v.snap) # {}
  /\ p \in {"binding", "storing", "publishing"} => step = CredStep /\ Turned(g, h, t)
  /\ p \in {"storing", "publishing"} => h[g].bound
  /\ p = "publishing" => <<g, h[g].pub>> \in k
  /\ p = "saving" /\ step = CredStep => Backed(g, h, k)
  /\ p \in {"persisting", "saving"} /\ step = LastStep => t.status = "ready"
  /\ p \in Undoing \ {"revoking"} => h[g].state \in {"none", "revoked"}

\* What the stores say of the job.
Whole(j, h, k, t) ==
  LET g == j.generation
  IN
  /\ Fine(j) /\ g \in Generation /\ (j.state = "none" => j = NoJob)
  /\ \A i \in Generation : i > g => h[i] = NoPointer
  /\ \A i \in Generation : h[i].state = "none" => ~h[i].bound
  /\ j.operation = "provisioning" =>
       /\ h[g].bound => Turned(g, h, t)
       /\ j.completed >= CredStep => Backed(g, h, k)
       /\ h[g].state # "none" =>
            j.completed + 1 >= CredStep /\ j.state \in {"running", "failed", "ready"}
  /\ j.state = "ready" => t.status = "ready"
  /\ j.state = "disabled" => h[g].state \in {"none", "revoked"}

OffStates      == {"suspended", "disabled"}
OffFor(target) == IF target = "suspended" THEN OffStates \cup {"absent"} ELSE {"disabled", "absent"}

\* A snapshot that says the tenant is off is right; so are all the latest.
Right(x, t)   == /\ x.status = "disabled" => t.status = "disabled"
                 /\ x.status = "suspended" => t.status \in OffStates
OffAtLast(s)  == \A x \in Latest(s) : x.status \in OffStates
AllActive(s)  == \A x \in s : x.active

\* The tenant as long as it was activated once only.
First(j, s, t) == j.generation = 0 =>
  /\ j.state \in {"none", "queued"} => t.status = "absent"
  /\ j.state = "disabled" =>
       /\ t.status \in OffFor(IF j.operation = "compensation" THEN "disabled" ELSE "suspended")
       /\ j.completed = 0 => t.status = "absent"
  /\ \A x \in s : Right(x, t)
  /\ ~AllActive(s) => OffAtLast(s)
  /\ j.operation = "provisioning" => AllActive(s)

FirstOf(v, j, s, t) == j.generation = 0 =>
  /\ v.leased /\ v.phase \in Read /\ v.job.operation = "provisioning" => AllActive(s)
  /\ v.phase \in {"persisting", "keeping"} => AllActive(v.snap) /\ \A x \in v.snap : Right(x, t)
  /\ v.phase = "keeping" => OffAtLast(Put(s, v.snap))
  /\ v.phase = "disposing" => OffAtLast(s)
  /\ v.phase \in {"keeping", "disposing", "checking"} => t.status \in OffFor(Target(v.billing))

Stores(j, h, k, s, t) ==
  /\ j \in Job /\ h \in [Generation -> Pointer] /\ k \subseteq Key /\ t \in Tenant
  /\ s \subseteq Snapshot /\ (s # {} => Latest(s) # {})
  /\ Whole(j, h, k, t) /\ First(j, s, t)

Self(v, j, h, k, s, t) ==
  Placed(v, j) /\ CopyOf(v, j) /\ Aside(v, j) /\ Handing(v, h, k, t) /\ FirstOf(v, j, s, t)

Counted == /\ scene \in Scene /\ seen \subseteq Event
           /\ deliveries \in [Event -> 0..MaxDeliveries] /\ faults \in 0..scene.faults

OneHolder == \A e \in Event : w[e].leased =>
  lease = "held" /\ \A f \in Event : w[f].leased => f = e

\* Whoever was delivered an event has put it into the order.
Received == \A e \in Event : w[e].phase # "queued" => seen # {}

JInv ==
  /\ Counted /\ Received /\ w \in [Event -> Worker] /\ lease \in {"free", "held", "orphaned"}
  /\ OneHolder
  /\ Stores(job, handoff, secrets, snaps, tenant)
  /\ \A e \in Event : Self(w[e], job, handoff, secrets, snaps, tenant)

------------------------------------------------------------------------------
(***************************************************************************)
(* The job functions.                                                      *)
(***************************************************************************)
\* Numbers below a bound have a greatest.
LEMMA Greatest ==
  ASSUME NEW n \in Nat, NEW S \in SUBSET (0..n), S # {}
  PROVE  \E m \in S : \A k \in S : k <= m
<1> DEFINE T == {n - s : s \in S}
<1>1. T \in SUBSET Nat /\ T # {}
  <2>1. \A s \in S : s \in 0..n /\ n - s \in Nat
    OBVIOUS
  <2>2. T \subseteq Nat
    BY <2>1
  <2>3. PICK s \in S : TRUE
    OBVIOUS
  <2>4. n - s \in T
    BY <2>3
  <2> QED
    BY <2>2, <2>4
<1>2. PICK t \in T : \A u \in T : ~(<<u, t>> \in OpToRel(<, Nat))
  <2>1. IsWellFoundedOn(OpToRel(<, Nat), Nat)
    BY NatLessThanWellFounded
  <2> QED
    BY <1>1, <2>1, WFMin, Zenon
<1>3. \A u \in T : ~(u < t)
  BY <1>1, <1>2 DEF OpToRel
<1>4. PICK m \in S : t = n - m
  BY <1>2
<1>5. \A k \in S : k <= m
  <2> SUFFICES ASSUME NEW k \in S PROVE k <= m
    OBVIOUS
  <2>1. n - k \in T
    OBVIOUS
  <2>2. ~(n - k < n - m)
    BY <1>3, <1>4, <2>1
  <2> QED
    BY <2>2
<1> QED
  BY <1>5

LEMMA Constants ==
  /\ LastStep \in Nat \ {0} /\ MaxAttempts \in Nat \ {0}
  /\ CredStep \in 1..LastStep /\ CredStep < LastStep
  /\ Step = 1..LastStep /\ 0 \in 0..LastStep /\ 0 \in 0..MaxAttempts
  /\ Cardinality(Event) \in Nat /\ Generation = 0..Cardinality(Event) /\ 0 \in Generation
<1>1. Cardinality(Event) \in Nat
  BY EventAssumption, FS_CardinalityType
<1> QED
  BY <1>1, LastStepAssumption, MaxAttemptsAssumption, CredStepAssumption DEF Step, Generation

LEMMA FurthestStep ==
  ASSUME NEW j \in Job, NEW observed \in SUBSET Step
  PROVE  /\ Furthest(j, observed) \in 0..LastStep
         /\ Furthest(j, observed) >= j.completed
         /\ \A s \in observed : Furthest(j, observed) >= s
<1> DEFINE S == observed \cup {j.completed}
<1>1. S \in SUBSET (0..LastStep) /\ S # {} /\ LastStep \in Nat
  <2>1. j.completed \in 0..LastStep /\ LastStep \in Nat
    BY Constants DEF Job
  <2>2. \A s \in observed : s \in 0..LastStep
    BY <2>1, Constants
  <2> QED
    BY <2>1, <2>2
<1>2. \E m \in S : \A k \in S : k <= m
  BY <1>1, Greatest
<1>3. \E n \in 0..LastStep : n \in S /\ \A m \in S : m <= n
  BY <1>1, <1>2
<1>4. /\ Furthest(j, observed) \in 0..LastStep
      /\ \A m \in S : m <= Furthest(j, observed)
  BY <1>3 DEF Furthest
<1> QED
  BY <1>1, <1>4

\* The next step to be undone is one that was not.
LEMMA NextCompensationStep ==
  ASSUME NEW j \in Job, Uncompensated(j) # {}
  PROVE  NextCompensation(j) \in Uncompensated(j) /\ NextCompensation(j) \in Step
<1>1. Uncompensated(j) \in SUBSET (0..LastStep) /\ LastStep \in Nat /\ Uncompensated(j) \subseteq Step
  BY Constants DEF Job, Uncompensated
<1>2. \E m \in Uncompensated(j) : \A k \in Uncompensated(j) : k <= m
  BY <1>1, Greatest
<1> QED
  BY <1>1, <1>2 DEF NextCompensation

LEMMA StartedJob ==
  ASSUME NEW j \in Job, Fine(j), j.attempt < MaxAttempts, j.state \in {"queued", "failed", "compensating"}
  PROVE  /\ Started(j) \in Job /\ Fine(Started(j))
         /\ Started(j).state \in {"running", "compensating"}
         /\ Started(j).operation = j.operation /\ Started(j).completed = j.completed
         /\ Started(j).generation = j.generation /\ Started(j).version = j.version
<1> DEFINE k == Started(j)
<1>1. CASE j.state = "compensating" /\ j.attempt > 0
  BY <1>1 DEF Started
<1>2. CASE ~(j.state = "compensating" /\ j.attempt > 0)
  <2>1. k = [j EXCEPT !.state = IF j.operation = "provisioning" THEN "running" ELSE "compensating",
                      !.attempt = @ + 1, !.exhausted = FALSE]
    BY <1>2, Zenon DEF Started
  <2>2. j.attempt + 1 \in 0..MaxAttempts
    BY Constants DEF Job
  <2>3. /\ k \in Job
        /\ k.state = IF j.operation = "provisioning" THEN "running" ELSE "compensating"
        /\ k.operation = j.operation /\ k.completed = j.completed
        /\ k.compensated = j.compensated
        /\ k.generation = j.generation /\ k.version = j.version
    BY <2>1, <2>2 DEF Job, JobState
  <2> HIDE DEF k
  <2>4. j.operation = "provisioning" => j.completed # LastStep
    BY DEF Fine
  <2>5. j.operation # "provisioning" => Uncompensated(k) # {}
    BY <2>3 DEF Fine, Uncompensated
  <2>6. Fine(k)
    BY <2>3, <2>4, <2>5 DEF Fine
  <2> QED
    BY <2>3, <2>6 DEF k
<1> QED
  BY <1>1, <1>2

LEMMA FailedJob ==
  ASSUME NEW j \in Job, Fine(j), j.state \in {"running", "compensating"}, NEW retryable \in BOOLEAN
  PROVE  /\ Failed(j, retryable) \in Job /\ Fine(Failed(j, retryable))
         /\ Failed(j, retryable).state = "failed"
         /\ Failed(j, retryable).operation = j.operation /\ Failed(j, retryable).completed = j.completed
         /\ Failed(j, retryable).generation = j.generation /\ Failed(j, retryable).version = j.version
<1> DEFINE k == Failed(j, retryable)
           b == ~(retryable /\ j.attempt < MaxAttempts)
<1>1. k = [j EXCEPT !.state = "failed", !.exhausted = b]
  BY DEF Failed
<1>2. b \in BOOLEAN /\ (~b => j.attempt < MaxAttempts)
  OBVIOUS
<1> HIDE DEF b
<1>3. /\ k \in Job
      /\ k.state = "failed" /\ k.exhausted = b /\ k.attempt = j.attempt
      /\ k.operation = j.operation /\ k.completed = j.completed
      /\ k.compensated = j.compensated
      /\ k.generation = j.generation /\ k.version = j.version
  BY <1>1, <1>2 DEF Job, JobState
<1> HIDE DEF k
<1>4. j.operation = "provisioning" => j.completed # LastStep
  BY DEF Fine
<1>5. j.operation # "provisioning" => Uncompensated(k) # {}
  BY <1>3 DEF Fine, Uncompensated
<1>6. Fine(k)
  BY <1>2, <1>3, <1>4, <1>5 DEF Fine
<1> QED
  BY <1>3, <1>6 DEF k

LEMMA CompletedJob ==
  ASSUME NEW j \in Job, Fine(j), j.state = "running", j.operation = "provisioning"
  PROVE  /\ j.completed + 1 \in Step
         /\ StepCompleted(j) \in Job /\ Fine(StepCompleted(j))
         /\ StepCompleted(j).state = IF j.completed + 1 = LastStep THEN "ready" ELSE "running"
         /\ StepCompleted(j).operation = "provisioning"
         /\ StepCompleted(j).completed = j.completed + 1
         /\ StepCompleted(j).generation = j.generation /\ StepCompleted(j).version = j.version
<1> DEFINE k == StepCompleted(j)
<1>1. j.completed # LastStep /\ j.completed \in 0..LastStep
  BY DEF Fine, Job
<1>2. j.completed + 1 \in 0..LastStep /\ j.completed + 1 \in Step
  BY <1>1, Constants
<1>3. /\ k \in Job
      /\ k.state = (IF j.completed + 1 = LastStep THEN "ready" ELSE "running")
      /\ k.operation = "provisioning" /\ k.completed = j.completed + 1
      /\ k.compensated = j.compensated
      /\ k.generation = j.generation /\ k.version = j.version
  BY <1>2 DEF StepCompleted, Job, JobState
<1> HIDE DEF k
<1>4. Fine(k)
  <2>1. k.compensated \subseteq 1..k.completed
    <3>1. \A i \in 1..j.completed : i \in 1..(j.completed + 1)
      BY <1>1, Constants
    <3> QED
      BY <1>3, <3>1 DEF Fine
  <2> QED
    BY <1>3, <2>1 DEF Fine
<1> QED
  BY <1>2, <1>3, <1>4 DEF k

LEMMA CompensatedJob ==
  ASSUME NEW j \in Job, Fine(j), j.state = "compensating", j.operation # "provisioning"
  PROVE  /\ StepCompensated(j) \in Job /\ Fine(StepCompensated(j))
         /\ StepCompensated(j).state \in {"compensating", "disabled"}
         /\ StepCompensated(j).operation = j.operation
         /\ StepCompensated(j).completed = j.completed /\ j.completed > 0
         /\ StepCompensated(j).generation = j.generation /\ StepCompensated(j).version = j.version
<1> DEFINE i == [j EXCEPT !.compensated = @ \cup {NextCompensation(j)}]
           k == StepCompensated(j)
<1>1. Uncompensated(j) # {}
  BY DEF Fine
<1>2. NextCompensation(j) \in Step /\ NextCompensation(j) \in 1..j.completed
  BY <1>1, NextCompensationStep DEF Uncompensated
<1>3. i \in Job /\ i.completed = j.completed /\ i.operation = j.operation
      /\ i.generation = j.generation /\ i.version = j.version
      /\ i.compensated \subseteq 1..j.completed
  BY <1>2 DEF Job, Fine
<1>4. k = [i EXCEPT !.state = StateOfCompensation(i)]
  BY DEF StepCompensated
<1>5. StateOfCompensation(i) = IF Uncompensated(i) = {} THEN "disabled" ELSE "compensating"
  BY DEF StateOfCompensation
<1> HIDE DEF i
<1>6. /\ k \in Job
      /\ k.state = IF Uncompensated(i) = {} THEN "disabled" ELSE "compensating"
      /\ k.completed = i.completed /\ k.compensated = i.compensated
      /\ k.operation = i.operation
      /\ k.generation = i.generation /\ k.version = i.version
  BY <1>3, <1>4, <1>5 DEF Job, JobState
<1> HIDE DEF k
<1>7. Uncompensated(k) = Uncompensated(i)
  BY <1>6 DEF Uncompensated
<1>8. Fine(k)
  BY <1>3, <1>6, <1>7 DEF Fine
<1>9. j.completed > 0
  BY <1>1, Constants DEF Uncompensated, Job
<1> QED
  BY <1>3, <1>6, <1>8, <1>9 DEF k

\* A save changes nothing of a job but its version.
LEMMA SavedJob ==
  ASSUME NEW j \in Job, Fine(j)
  PROVE  /\ Saved(j) \in Job /\ Fine(Saved(j))
         /\ Saved(j).version = j.version + 1
         /\ Saved(j).state = j.state /\ Saved(j).operation = j.operation
         /\ Saved(j).completed = j.completed /\ Saved(j).generation = j.generation
         /\ Saved(j).attempt = j.attempt /\ Saved(j).exhausted = j.exhausted
<1> DEFINE k == Saved(j)
<1>1. k = [j EXCEPT !.version = @ + 1]
  BY DEF Saved
<1>2. /\ k \in Job
      /\ k.version = j.version + 1 /\ k.state = j.state /\ k.operation = j.operation
      /\ k.completed = j.completed /\ k.generation = j.generation
      /\ k.attempt = j.attempt /\ k.exhausted = j.exhausted /\ k.compensated = j.compensated
  BY <1>1 DEF Job
<1> HIDE DEF k
<1>3. Fine(k)
  BY <1>2 DEF Fine, Uncompensated
<1> QED
  BY <1>2, <1>3 DEF k

LEMMA FirstJobs ==
  /\ NewJob \in Job /\ Fine(NewJob) /\ NoJob \in Job /\ Fine(NoJob)
  /\ NewJob.state = "queued" /\ NoJob.state = "none"
  /\ \A j \in {NewJob, NoJob} : j.generation = 0 /\ j.version = 0 /\ j.operation = "provisioning"
                                /\ j.completed = 0
<1>1. 0 \in 0..LastStep /\ 0 \in 0..MaxAttempts /\ 0 \in Nat /\ {} \in SUBSET Step
  BY Constants
<1>2. NewJob \in Job
  BY <1>1, SMT DEF NewJob, Job, JobState, Operation
<1>3. NoJob \in Job
  BY <1>2 DEF NoJob, Job
<1>4. Fine(NewJob) /\ Fine(NoJob)
  BY Constants DEF NewJob, NoJob, Fine
<1> QED
  BY <1>2, <1>3, <1>4 DEF NewJob, NoJob

LEMMA ResumedJob ==
  ASSUME NEW j \in Job
  PROVE  /\ Resumed(j) \in Job /\ Fine(Resumed(j))
         /\ Resumed(j).state = "queued" /\ Resumed(j).operation = "provisioning"
         /\ Resumed(j).completed = 0
         /\ Resumed(j).version = j.version /\ Resumed(j).generation = j.generation + 1
<1> DEFINE k == Resumed(j)
<1>1. k = [NewJob EXCEPT !.version = j.version, !.generation = j.generation + 1]
  BY DEF Resumed
<1>2. k = [version |-> j.version, generation |-> j.generation + 1, state |-> "queued",
           operation |-> "provisioning", completed |-> 0, compensated |-> {},
           attempt |-> 0, exhausted |-> FALSE]
  BY <1>1 DEF NewJob
<1>3. /\ k.state = "queued" /\ k.operation = "provisioning" /\ k.completed = 0
      /\ k.compensated = {} /\ k.attempt = 0 /\ k.exhausted = FALSE
      /\ k.version = j.version /\ k.generation = j.generation + 1
  BY <1>2
<1>4. j.version \in Nat /\ j.generation + 1 \in Nat
  BY DEF Job
<1>5. k \in Job
  BY <1>2, <1>4, Constants, SMT DEF Job, JobState, Operation
<1> HIDE DEF k
<1>6. Fine(k)
  BY <1>3, Constants DEF Fine
<1> QED
  BY <1>3, <1>5, <1>6 DEF k

\* beginCompensation: the job is compensated now; at once if it has left no trace.
LEMMA CompensatingJob ==
  ASSUME NEW j \in Job, Fine(j), j.state # "none",
         NEW observed \in SUBSET Step, InFlight(j) \subseteq observed,
         NEW operation \in {"suspension", "compensation"}
  PROVE  LET k == Compensating(j, observed, operation) IN
         /\ k.operation = operation
         /\ k \in Job /\ Fine(k) /\ k.version = j.version /\ k.generation = j.generation
         /\ k # j =>
              /\ k.state \in {"compensating", "disabled"}
              /\ k.state = "disabled" =>
                   k.completed = 0 /\ j.completed = 0 /\ j.state \in {"queued", "disabled"}
<1> DEFINE k       == Compensating(j, observed, operation)
           n       == Furthest(j, observed)
           reached == [j EXCEPT !.completed = n]
           again   == IF reached.completed = 0 THEN j.compensated ELSE {}
           begun   == [reached EXCEPT !.operation = operation, !.compensated = again]
<1>1. n \in 0..LastStep /\ n >= j.completed /\ \A s \in observed : n >= s
  BY FurthestStep
<1>2. LastStep \in Nat \ {0} /\ Step = 1..LastStep /\ j.completed \in 0..LastStep
  BY Constants DEF Job
<1>3. j.compensated \subseteq 1..j.completed
  BY DEF Fine
<1>4. \A i : i \in 1..j.completed => i \in 1..n /\ i \in Step
  BY <1>1, <1>2
<1> HIDE DEF n
<1>5. CASE j.operation = operation /\ reached = j
  <2>1. k = j
    BY <1>5 DEF Compensating, n
  <2> QED
    BY <2>1, <1>5, Zenon
<1>6. ASSUME NEW i \in {reached, begun}, k = Rearmed([i EXCEPT !.state = StateOfCompensation(i)]),
             i.operation = operation, i.compensated \subseteq 1..n, i.compensated \subseteq Step
      PROVE  /\ k \in Job /\ Fine(k) /\ k.operation = operation
             /\ k.version = j.version /\ k.generation = j.generation
             /\ k.completed = n /\ k.state \in {"compensating", "disabled"}
             /\ k.state = "disabled" => (1..n) \ i.compensated = {}
  <2>1. /\ i \in Job /\ i.completed = n /\ i.version = j.version /\ i.generation = j.generation
    <3>1. /\ reached \in Job /\ reached.completed = n
          /\ reached.version = j.version /\ reached.generation = j.generation
      BY <1>1 DEF Job
    <3>2. again \in SUBSET Step /\ operation \in Operation
      BY <3>1 DEF Job, Operation
    <3> HIDE DEF reached, again
    <3>3. /\ begun \in Job /\ begun.completed = n
          /\ begun.version = j.version /\ begun.generation = j.generation
      BY <3>1, <3>2 DEF Job
    <3> QED
      BY <1>6, <3>1, <3>3
  <2>2. StateOfCompensation(i) = IF (1..n) \ i.compensated = {} THEN "disabled" ELSE "compensating"
    BY <2>1 DEF StateOfCompensation, Uncompensated
  <2> HIDE DEF reached, begun
  <2> DEFINE c == StateOfCompensation(i)
  <2>3. k = [i EXCEPT !.state = c, !.attempt = 0, !.exhausted = FALSE]
    BY <1>6 DEF Rearmed
  <2>4. c \in {"compensating", "disabled"} /\ (c = "disabled" => (1..n) \ i.compensated = {})
        /\ ((1..n) \ i.compensated = {} => c = "disabled")
    BY <2>2
  <2> HIDE DEF c
  <2>5. /\ k \in Job
        /\ k.operation = operation /\ k.compensated = i.compensated /\ k.completed = n
        /\ k.version = j.version /\ k.generation = j.generation /\ k.state = c
    <3> HIDE DEF k, reached, begun
    <3>1. 0 \in 0..MaxAttempts /\ c \in JobState
      BY <2>4, Constants DEF JobState
    <3> QED
      BY <1>6, <2>1, <2>3, <3>1 DEF Job
  <2> HIDE DEF k
  <2>6. Fine(k)
    BY <2>4, <2>5, <1>6 DEF Fine, Uncompensated
  <2> QED
    BY <2>4, <2>5, <2>6
<1>7. CASE j.operation = operation /\ reached # j
  <2>1. k = Rearmed([reached EXCEPT !.state = StateOfCompensation(reached)])
    BY <1>7 DEF Compensating, n
  <2>2. reached.operation = operation /\ reached.compensated = j.compensated
    BY <1>7 DEF Job
  <2>3. n # j.completed
    BY <1>7 DEF Job
  <2>4. n \in 1..n /\ n \notin j.compensated
    BY <1>1, <1>2, <1>3, <2>3
  <2>5. j.compensated \subseteq 1..n /\ j.compensated \subseteq Step
    BY <1>3, <1>4
  <2>6. /\ k \in Job /\ Fine(k) /\ k.operation = operation
        /\ k.version = j.version /\ k.generation = j.generation
        /\ k.state \in {"compensating", "disabled"}
        /\ k.state = "disabled" => (1..n) \ reached.compensated = {}
    <3> HIDE DEF k, reached
    <3> QED
      BY <2>1, <2>2, <2>5, <1>6
  <2>7. k.state # "disabled"
    <3> HIDE DEF k, reached
    <3> QED
      BY <2>2, <2>4, <2>6
  <2> QED
    BY <2>6, <2>7, Zenon
<1>8. CASE j.operation # operation
  <2>1. k = Rearmed([begun EXCEPT !.state = StateOfCompensation(begun)])
    BY <1>8 DEF Compensating, n
  <2>2. begun.operation = operation /\ begun.compensated = IF n = 0 THEN j.compensated ELSE {}
    BY DEF Job
  <2>3. n = 0 => j.completed = 0 /\ j.compensated = {}
    BY <1>1, <1>2, <1>3
  <2>4. n = 0 => j.state \in {"queued", "disabled"}
    <3>1. SUFFICES ASSUME n = 0, j.state \notin {"queued", "disabled"} PROVE FALSE
      OBVIOUS
    <3>2. j.operation # "provisioning" => Uncompensated(j) = {}
      BY <3>1, <2>3, <1>2 DEF Uncompensated
    <3>3. j.operation = "provisioning" /\ j.state \in {"running", "failed"}
      BY <3>1, <3>2, <2>3, <1>2 DEF Fine
    <3>4. 1 \in InFlight(j)
      BY <3>1, <3>3, <2>3, <1>2 DEF InFlight
    <3> QED
      BY <3>1, <3>4, <1>1
  <2>5. (1..n) \ begun.compensated = {} => n = 0
    <3>1. SUFFICES ASSUME n # 0 PROVE (1..n) \ begun.compensated # {}
      OBVIOUS
    <3>2. 1 \in (1..n) /\ begun.compensated = {}
      BY <3>1, <2>2, <1>1, <1>2
    <3> QED
      BY <3>2
  <2>6. begun.compensated \subseteq 1..n /\ begun.compensated \subseteq Step
    BY <2>2, <2>3
  <2>7. /\ k \in Job /\ Fine(k) /\ k.operation = operation
        /\ k.version = j.version /\ k.generation = j.generation
        /\ k.completed = n /\ k.state \in {"compensating", "disabled"}
        /\ k.state = "disabled" => (1..n) \ begun.compensated = {}
    <3> HIDE DEF k, begun
    <3> QED
      BY <2>1, <2>2, <2>6, <1>6
  <2>8. k.state = "disabled" => k.completed = 0 /\ j.completed = 0 /\ j.state \in {"queued", "disabled"}
    <3> HIDE DEF k, begun
    <3> QED
      BY <2>3, <2>4, <2>5, <2>7
  <2> QED
    BY <2>7, <2>8, Zenon
<1> QED
  BY <1>5, <1>7, <1>8

------------------------------------------------------------------------------
(***************************************************************************)
(* Steps of a worker, and what the others keep.                            *)
(***************************************************************************)
\* The order and the counters, in a step of e.
Onward(e) == Counted' /\ seen \subseteq seen' /\ (w[e].phase # "queued" \/ seen' # {})

LEMMA Became ==
  ASSUME w \in [Event -> Worker], NEW e \in Event, NEW v \in Worker, Become(e, v)
  PROVE  w' \in [Event -> Worker] /\ w'[e] = v /\ \A f \in Event \ {e} : w'[f] = w[f]
  BY DEF Become

\* Who holds nothing knows nothing of the stores but the job.
LEMMA EmptyHanded ==
  ASSUME NEW v \in Worker, ~v.leased,
         NEW j, NEW h, NEW k, NEW s, NEW t,
         Placed(v, j), CopyOf(v, j)
  PROVE  Self(v, j, h, k, s, t)
<1>1. v.phase \notin Loaded
  BY DEF Placed
<1>2. Handing(v, h, k, t)
  BY <1>1 DEF Handing, Loaded, Setting, Undoing
<1>3. FirstOf(v, j, s, t)
  BY <1>1 DEF FirstOf, Loaded, Setting, Undoing
<1>4. Aside(v, j)
  BY DEF Aside
<1> QED
  BY <1>2, <1>3, <1>4 DEF Self

\* A worker that has just been started, or has given up.
LEMMA Fresh0 ==
  ASSUME NEW v \in Worker, ~v.leased, v.phase \notin Read \cup {"loading", "fetching"},
         NEW j, v.phase \in {"queued", "reduced", "creating", "done", "dead"} \/ j.state # "none"
  PROVE  Placed(v, j) /\ CopyOf(v, j)
  BY DEF Placed, CopyOf, Read

\* A step that leaves the stores alone.
LEMMA QuietStep ==
  ASSUME JInv, NEW e \in Event, NEW v \in Worker, Become(e, v),
         UNCHANGED <<job, handoff, secrets, snaps, tenant>>, Onward(e),
         lease' \in {"free", "held", "orphaned"},
         v.leased => lease' = "held" /\ (w[e].leased \/ lease # "held"),
         w[e].leased \/ lease' = lease \/ lease # "held",
         Self(v, job, handoff, secrets, snaps, tenant)
  PROVE  JInv'
<1>1. w' \in [Event -> Worker] /\ w'[e] = v /\ \A f \in Event \ {e} : w'[f] = w[f]
  BY Became DEF JInv
<1>2. \A f \in Event : Self(w'[f], job, handoff, secrets, snaps, tenant)
  BY <1>1 DEF JInv
<1>3. (\A f \in Event : Self(w[f], job, handoff, secrets, snaps, tenant))'
  BY <1>2
<1>4. Stores(job, handoff, secrets, snaps, tenant)'
  BY DEF JInv
<1>5. OneHolder'
  BY <1>1 DEF JInv, OneHolder
<1>6. Received' /\ Counted'
  BY <1>1 DEF JInv, Received, Onward
<1> QED
  BY <1>1, <1>3, <1>4, <1>5, <1>6 DEF JInv

\* A step of the holder upon the stores.
LEMMA HolderStep ==
  ASSUME JInv, NEW e \in Event, w[e].leased, NEW v \in Worker, v.leased, Become(e, v),
         UNCHANGED <<job, lease>>, Onward(e),
         Stores(job, handoff', secrets', snaps', tenant'),
         Self(v, job, handoff', secrets', snaps', tenant')
  PROVE  JInv'
<1>1. w' \in [Event -> Worker] /\ w'[e] = v /\ \A f \in Event \ {e} : w'[f] = w[f]
  BY Became DEF JInv
<1>2. \A f \in Event \ {e} : ~w[f].leased
  BY DEF JInv, OneHolder
<1>3. ASSUME NEW f \in Event \ {e} PROVE Self(w[f], job, handoff', secrets', snaps', tenant')
  <2>1. w[f] \in Worker /\ Placed(w[f], job) /\ CopyOf(w[f], job)
    BY DEF JInv, Self
  <2> QED
    BY <1>2, <2>1, EmptyHanded
<1>4. \A f \in Event : Self(w'[f], job, handoff', secrets', snaps', tenant')
  BY <1>1, <1>3
<1>5. (\A f \in Event : Self(w[f], job, handoff, secrets, snaps, tenant))'
  BY <1>4
<1>6. Stores(job, handoff, secrets, snaps, tenant)'
  OBVIOUS
<1>7. OneHolder'
  BY <1>1, <1>2 DEF JInv, OneHolder
<1>8. Received' /\ Counted'
  BY <1>1 DEF JInv, Received, Onward
<1> QED
  BY <1>1, <1>5, <1>6, <1>7, <1>8 DEF JInv

\* What others have read is of an older version of the job.
LEMMA CopyGrowsOld ==
  ASSUME NEW j \in Job, NEW n \in Job, n.version = j.version + 1, n.generation >= j.generation,
         n.state # "none", NEW v \in Worker, Placed(v, j), CopyOf(v, j)
  PROVE  Placed(v, n) /\ CopyOf(v, n)
<1>1. Placed(v, n)
  BY DEF Placed
<1>2. v.job.version \in Nat /\ v.job.generation \in Nat /\ j.version \in Nat /\ j.generation \in Nat
      /\ n.generation \in Nat
  BY DEF Worker, Job
<1>3. v.job.version <= j.version /\ v.job.generation <= j.generation =>
        v.job.version < n.version /\ v.job.generation <= n.generation
  BY <1>2
<1>4. CopyOf(v, n)
  BY <1>2, <1>3 DEF CopyOf
<1> QED
  BY <1>1, <1>4

\* The holder saves the job.
LEMMA HolderSaves ==
  ASSUME JInv, NEW e \in Event, w[e].leased, NEW v \in Worker, Become(e, v),
         UNCHANGED <<handoff, secrets, snaps, tenant>>, Onward(e),
         NEW n \in Job, job' = n,
         n.version = job.version + 1, n.generation >= job.generation, n.state # "none",
         IF v.leased THEN lease' = lease ELSE lease' \in {"free", "held", "orphaned"},
         Stores(n, handoff, secrets, snaps, tenant),
         Self(v, n, handoff, secrets, snaps, tenant)
  PROVE  JInv'
<1>1. w' \in [Event -> Worker] /\ w'[e] = v /\ \A f \in Event \ {e} : w'[f] = w[f]
  BY Became DEF JInv
<1>2. \A f \in Event \ {e} : ~w[f].leased
  BY DEF JInv, OneHolder
<1>3. ASSUME NEW f \in Event \ {e} PROVE Self(w[f], n, handoff, secrets, snaps, tenant)
  <2>1. job \in Job /\ w[f] \in Worker /\ Placed(w[f], job) /\ CopyOf(w[f], job)
    BY DEF JInv, Self, Stores
  <2>2. Placed(w[f], n) /\ CopyOf(w[f], n)
    BY <2>1, CopyGrowsOld
  <2> QED
    BY <1>2, <2>1, <2>2, EmptyHanded
<1>4. \A f \in Event : Self(w'[f], n, handoff, secrets, snaps, tenant)
  BY <1>1, <1>3
<1>5. (\A f \in Event : Self(w[f], job, handoff, secrets, snaps, tenant))'
  BY <1>4
<1>6. Stores(job, handoff, secrets, snaps, tenant)'
  OBVIOUS
<1>7. OneHolder' /\ lease' \in {"free", "held", "orphaned"}
  BY <1>1, <1>2 DEF JInv, OneHolder
<1>8. Received' /\ Counted'
  BY <1>1 DEF JInv, Received, Onward
<1> QED
  BY <1>1, <1>5, <1>6, <1>7, <1>8 DEF JInv

\* Somebody who holds nothing saves the job: it is queued anew, or compensated, and
\* disabled only if nothing was ever done.
Interferes(j, n) ==
  /\ n.state \in {"queued", "compensating", "disabled"}
  /\ n.operation = "provisioning" => n.generation > j.generation
  /\ n.operation # "provisioning" => n.generation = j.generation
  /\ n.state = "disabled" => j.state \in {"queued", "disabled"}

LEMMA AsideKept ==
  ASSUME NEW j \in Job, Fine(j), NEW n \in Job, n.version = j.version + 1, Interferes(j, n),
         NEW v \in Worker, CopyOf(v, j), Aside(v, j)
  PROVE  Aside(v, n)
<1> SUFFICES ASSUME v.leased, v.phase \in Read PROVE Aside(v, n)
  BY DEF Aside
<1>1. v.job.version \in Nat /\ v.job.generation \in Nat /\ j.version \in Nat /\ j.generation \in Nat
      /\ n.generation \in Nat
  BY DEF Worker, Job
<1>2. v.job.generation <= j.generation
  BY DEF CopyOf
<1>3. n.operation = "provisioning" => v.job.generation < n.generation
  BY <1>1, <1>2 DEF Interferes
<1>4. ASSUME v.job.state \notin {"queued", "disabled"}, v.job.generation = n.generation
      PROVE  n.state # "disabled"
  <2>1. v.job.generation = j.generation
    BY <1>1, <1>2, <1>4 DEF Interferes
  <2>2. j.state # "disabled"
    BY <1>4, <2>1 DEF Aside
  <2>3. CASE v.job = j
    BY <1>4, <2>2, <2>3 DEF Interferes
  <2>4. CASE v.job # j
    <3>1. j.operation # "provisioning"
      BY <2>1, <2>4, <1>1 DEF Aside
    <3> QED
      BY <3>1, <2>2 DEF Interferes, Fine
  <2> QED
    BY <2>3, <2>4
<1>5. n.state \in {"queued", "compensating", "disabled"}
  BY DEF Interferes
<1> QED
  BY <1>3, <1>4, <1>5 DEF Aside

LEMMA OtherSaves ==
  ASSUME JInv, NEW e \in Event, ~w[e].leased, NEW v \in Worker, ~v.leased, Become(e, v),
         UNCHANGED <<lease, handoff, secrets, snaps, tenant>>, Onward(e),
         NEW n \in Job, job' = n, n.version = job.version + 1, n.generation >= job.generation,
         Interferes(job, n),
         Stores(n, handoff, secrets, snaps, tenant),
         Placed(v, n), CopyOf(v, n)
  PROVE  JInv'
<1>1. w' \in [Event -> Worker] /\ w'[e] = v /\ \A f \in Event \ {e} : w'[f] = w[f]
  BY Became DEF JInv
<1>2. job \in Job /\ Fine(job) /\ n.state # "none"
  BY DEF JInv, Stores, Whole, Interferes
<1>3. ASSUME NEW f \in Event \ {e} PROVE Self(w[f], n, handoff, secrets, snaps, tenant)
  <2>1. /\ w[f] \in Worker /\ Placed(w[f], job) /\ CopyOf(w[f], job) /\ Aside(w[f], job)
        /\ Handing(w[f], handoff, secrets, tenant) /\ FirstOf(w[f], job, snaps, tenant)
    BY DEF JInv, Self
  <2>2. Placed(w[f], n) /\ CopyOf(w[f], n) /\ Aside(w[f], n)
    BY <2>1, <1>2, CopyGrowsOld, AsideKept
  <2>3. FirstOf(w[f], n, snaps, tenant)
    <3>1. n.generation = 0 => job.generation = 0
      BY <1>2 DEF Job
    <3> QED
      BY <2>1, <3>1 DEF FirstOf
  <2> QED
    BY <2>1, <2>2, <2>3 DEF Self
<1>4. Self(v, n, handoff, secrets, snaps, tenant)
  BY EmptyHanded
<1>5. \A f \in Event : Self(w'[f], n, handoff, secrets, snaps, tenant)
  BY <1>1, <1>3, <1>4
<1>6. (\A f \in Event : Self(w[f], job, handoff, secrets, snaps, tenant))'
  BY <1>5
<1>7. Stores(job, handoff, secrets, snaps, tenant)'
  OBVIOUS
<1>8. OneHolder'
  BY <1>1 DEF JInv, OneHolder
<1>9. Received' /\ Counted'
  BY <1>1 DEF JInv, Received, Onward
<1> QED
  BY <1>1, <1>6, <1>7, <1>8, <1>9 DEF JInv

LEMMA ScenesCount == \A s \in Scene : s.faults \in Nat
  BY EventAssumption

\* The latest of some events decides what the order says.
LEMMA BillingType ==
  ASSUME NEW E \in SUBSET Event, E # {}
  PROVE  Billing(E) \in {"active", "past_due", "canceled"}
<1>1. /\ Cardinality(Event) \in Nat /\ E \subseteq 1..Cardinality(Event)
      /\ Desired \in [Event -> {"active", "past_due", "canceled"}]
  BY EventAssumption, Constants
<1>2. E \in SUBSET (0..Cardinality(Event))
  <2>1. \A i \in 1..Cardinality(Event) : i \in 0..Cardinality(Event)
    BY <1>1
  <2> QED
    BY <1>1, <2>1
<1>3. \E e \in E : \A f \in E : f <= e
  BY <1>1, <1>2, Greatest
<1> QED
  BY <1>1, <1>3 DEF Billing

LEMMA Gone ==
  ASSUME NEW p \in Phase
  PROVE  /\ NoWorker(p) \in Worker /\ ~NoWorker(p).leased /\ NoWorker(p).phase = p
         /\ NoWorker(p).job = NoJob /\ NoWorker(p).billing = "active"
  BY FirstJobs DEF NoWorker, Worker

\* A worker that failed, and one that has read the order, are workers.
Gave(u, r) == [u EXCEPT !.phase = "failing", !.retryable = r]

LEMMA WorkerFailed ==
  ASSUME NEW u \in Worker, NEW r \in BOOLEAN
  PROVE  LET v == Gave(u, r) IN
         /\ v \in Worker /\ v.phase = "failing"
         /\ v.leased = u.leased /\ v.job = u.job /\ v.billing = u.billing
<1> DEFINE x == [u EXCEPT !.phase = "failing"]
<1>1. /\ x \in Worker /\ x.phase = "failing"
      /\ x.leased = u.leased /\ x.job = u.job /\ x.billing = u.billing
  <2>1. "failing" \in Phase
    BY DEF Phase
  <2> QED
    BY <2>1 DEF Worker
<1> HIDE DEF x
<1>2. /\ [x EXCEPT !.retryable = r] \in Worker
      /\ [x EXCEPT !.retryable = r].phase = x.phase
      /\ [x EXCEPT !.retryable = r].leased = x.leased
      /\ [x EXCEPT !.retryable = r].job = x.job
      /\ [x EXCEPT !.retryable = r].billing = x.billing
  BY <1>1 DEF Worker
<1> QED
  BY <1>1, <1>2 DEF x, Gave

HasRead(u, b) == [u EXCEPT !.billing = b, !.phase = "fetching"]

LEMMA WorkerHasRead ==
  ASSUME NEW u \in Worker, NEW b \in {"active", "past_due", "canceled"}
  PROVE  LET v == HasRead(u, b) IN
         v \in Worker /\ v.billing = b /\ v.phase = "fetching" /\ v.leased = u.leased
<1>1. "fetching" \in Phase
  BY DEF Phase
<1> QED
  BY <1>1 DEF Worker, HasRead

LEMMA Resting ==
  ASSUME JInv, NEW e \in Event, w[e].phase # "queued", Rest, UNCHANGED faults \/ Fault
  PROVE  Onward(e)
<1>1. faults' \in 0..scene.faults
  BY ScenesCount DEF JInv, Counted, Fault, Rest
<1> QED
  BY <1>1 DEF JInv, Counted, Rest, Onward

\* A worker, and what it knows.
LEMMA SelfOf ==
  ASSUME JInv, NEW e \in Event
  PROVE  /\ w[e] \in Worker /\ w[e].job \in Job
         /\ Self(w[e], job, handoff, secrets, snaps, tenant)
         /\ Placed(w[e], job) /\ CopyOf(w[e], job) /\ Aside(w[e], job)
         /\ Handing(w[e], handoff, secrets, tenant) /\ FirstOf(w[e], job, snaps, tenant)
         /\ Stores(job, handoff, secrets, snaps, tenant) /\ job \in Job /\ Fine(job)
         /\ lease \in {"free", "held", "orphaned"} /\ (w[e].leased => lease = "held")
  BY DEF JInv, Self, Worker, Stores, Whole, OneHolder

\* A worker gives up, or is done, and lets go of the lease.
LEMMA GivesUp ==
  ASSUME JInv, NEW e \in Event, Onward(e), NEW p \in {"queued", "done", "dead", "peeking"},
         p = "peeking" => job.state # "none",
         Become(e, NoWorker(p)), UNCHANGED <<job, handoff, secrets, snaps, tenant>>,
         IF w[e].leased THEN lease' \in {"free", "orphaned"} ELSE lease' = lease
  PROVE  JInv'
<1> DEFINE v == NoWorker(p)
<1>1. v \in Worker /\ ~v.leased /\ v.phase = p
  BY Gone DEF Phase
<1> HIDE DEF v
<1>2. Placed(v, job) /\ CopyOf(v, job)
  BY <1>1, Fresh0 DEF Read, Loaded, Setting, Undoing
<1>3. Self(v, job, handoff, secrets, snaps, tenant)
  BY <1>1, <1>2, EmptyHanded
<1> QED
  BY <1>1, <1>3, SelfOf, QuietStep DEF v

------------------------------------------------------------------------------
(***************************************************************************)
(* The steps that leave the stores alone.                                  *)
(***************************************************************************)
LEMMA ReceiveStep == ASSUME JInv, NEW e \in Event, Receive(e) PROVE JInv'
<1> DEFINE v == [NoWorker("reduced") EXCEPT !.billing = Billing(seen')]
<1>1. w[e].phase = "queued" /\ seen' = seen \cup {e} /\ Become(e, v)
      /\ UNCHANGED <<job, handoff, secrets, snaps, tenant, lease>>
  BY DEF Receive, stored
<1>2. ~w[e].leased
  BY <1>1, SelfOf DEF Placed, Read, Loaded, Setting, Undoing
<1>3. Onward(e)
  <2>1. deliveries[e] + 1 \in 0..MaxDeliveries
    BY DeliveriesAssumption DEF JInv, Counted, Receive
  <2> QED
    BY <1>1, <2>1 DEF JInv, Counted, Receive, Onward
<1>4. Billing(seen') \in {"active", "past_due", "canceled"}
  BY <1>1, BillingType DEF JInv, Counted
<1>5. v \in Worker /\ ~v.leased /\ v.phase = "reduced"
  <2>1. "reduced" \in Phase
    BY DEF Phase
  <2>2. NoWorker("reduced") \in Worker /\ ~NoWorker("reduced").leased
        /\ NoWorker("reduced").phase = "reduced"
    BY <2>1, Gone
  <2> QED
    BY <1>4, <2>2 DEF Worker
<1> HIDE DEF v
<1>6. Self(v, job, handoff, secrets, snaps, tenant)
  BY <1>5, Fresh0, EmptyHanded DEF Read, Loaded, Setting, Undoing
<1> QED
  BY <1>1, <1>2, <1>3, <1>5, <1>6, SelfOf, QuietStep

\* A worker without a lease that takes the job as it is, or leaves it alone.
LEMMA TakesUp ==
  ASSUME JInv, NEW e \in Event, ~w[e].leased, Onward(e),
         NEW v \in Worker, ~v.leased, Become(e, v),
         UNCHANGED <<job, handoff, secrets, snaps, tenant, lease>>,
         v.phase \in {"creating", "claiming", "resuming", "listing"},
         v.phase # "creating" => job.state # "none",
         v.phase \in {"resuming", "listing"} => v.job = job
  PROVE  JInv'
<1>1. Placed(v, job)
  BY DEF Placed, Loaded, Setting, Undoing
<1>2. CopyOf(v, job)
  BY SelfOf DEF CopyOf, Read, Loaded, Setting, Undoing, Job
<1>3. Self(v, job, handoff, secrets, snaps, tenant)
  BY <1>1, <1>2, EmptyHanded
<1> QED
  BY <1>3, SelfOf, QuietStep

LEMMA FindJobStep == ASSUME JInv, NEW e \in Event, FindJob(e) PROVE JInv'
<1>1. w[e].phase = "reduced" /\ UNCHANGED <<job, handoff, secrets, snaps, tenant, lease>>
  BY DEF FindJob, Quiet, Outside
<1>2. ~w[e].leased
  BY <1>1, SelfOf DEF Placed, Read, Loaded, Setting, Undoing
<1>3. Onward(e)
  BY <1>1, Resting DEF FindJob, Quiet
<1>4. CASE Acked(e)
  BY <1>1, <1>2, <1>3, <1>4, GivesUp DEF Acked
<1>5. CASE job.state # "none" /\ Become(e, [[w[e] EXCEPT !.job = job] EXCEPT !.phase = "listing"])
  BY <1>1, <1>2, <1>3, <1>5, SelfOf, TakesUp DEF Worker, Phase
<1>6. CASE job.state # "none" /\ Become(e, [[w[e] EXCEPT !.job = job] EXCEPT !.phase = "resuming"])
  BY <1>1, <1>2, <1>3, <1>6, SelfOf, TakesUp DEF Worker, Phase
<1>7. CASE Goto(e, "creating")
  BY <1>1, <1>2, <1>3, <1>7, SelfOf, TakesUp DEF Worker, Phase, Goto
<1>8. CASE job.state # "none" /\ Goto(e, "claiming")
  BY <1>1, <1>2, <1>3, <1>8, SelfOf, TakesUp DEF Worker, Phase, Goto
<1> QED
  BY <1>4, <1>5, <1>6, <1>7, <1>8 DEF FindJob

LEMMA ClaimStep == ASSUME JInv, NEW e \in Event, Claim(e) PROVE JInv'
<1>1. w[e].phase = "claiming" /\ UNCHANGED <<job, handoff, secrets, snaps, tenant>>
  BY DEF Claim, Quiet, Outside
<1>2. ~w[e].leased /\ job.state # "none"
  BY <1>1, SelfOf DEF Placed, Read, Loaded, Setting, Undoing
<1>3. Onward(e)
  BY <1>1, Resting DEF Claim, Quiet
<1>4. CASE Become(e, NoWorker("peeking")) /\ UNCHANGED lease
  BY <1>1, <1>2, <1>3, <1>4, GivesUp
<1>5. CASE lease = "free" /\ lease' = "held" /\ Become(e, [NoWorker("loading") EXCEPT !.leased = TRUE])
  <2> DEFINE n == NoWorker("loading")
             v == [n EXCEPT !.leased = TRUE]
  <2>0. n \in Worker /\ n.phase = "loading"
    BY Gone DEF Phase
  <2>1. v \in Worker /\ v.leased /\ v.phase = "loading"
    <3> HIDE DEF n
    <3> QED
      BY <2>0 DEF Worker
  <2>2. Become(e, v)
    BY <1>5
  <2> HIDE DEF v
  <2>3. Self(v, job, handoff, secrets, snaps, tenant)
    BY <2>1, <1>2 DEF Self, Placed, CopyOf, Aside, Handing, FirstOf, Read, Loaded, Setting, Undoing
  <2> QED
    BY <1>1, <1>3, <1>5, <2>1, <2>2, <2>3, QuietStep
<1> QED
  BY <1>4, <1>5 DEF Claim

LEMMA PeekStep == ASSUME JInv, NEW e \in Event, Peek(e) PROVE JInv'
<1>1. w[e].phase = "peeking" /\ UNCHANGED <<job, handoff, secrets, snaps, tenant, lease>>
  BY DEF Peek, Quiet, Outside
<1>2. ~w[e].leased
  BY <1>1, SelfOf DEF Placed, Read, Loaded, Setting, Undoing
<1>3. Onward(e)
  BY <1>1, Resting DEF Peek, Quiet
<1> QED
  BY <1>1, <1>2, <1>3, GivesUp DEF Peek, Acked, Undelivered

\* The holder loads what it needs, or loads it anew.
LEMMA Reloads ==
  ASSUME JInv, NEW e \in Event, w[e].leased, Onward(e),
         NEW v \in Worker, v.leased, Become(e, v),
         UNCHANGED <<job, handoff, secrets, snaps, tenant, lease>>,
         v.phase \in {"loading", "fetching", "listing", "deciding"},
         v.phase \in {"listing", "deciding"} => v.job = job,
         v.phase = "deciding" => v.billing = "active" \/ job.operation = OperationOf(v.billing)
  PROVE  JInv'
<1>1. job.state # "none"
  BY SelfOf DEF Placed, Read, Loaded, Setting, Undoing
<1>2. Placed(v, job)
  BY <1>1 DEF Placed, Read, Loaded
<1>3. CopyOf(v, job)
  BY <1>1, SelfOf DEF CopyOf, Read, Loaded, Setting, Undoing, Job
<1>4. Aside(v, job)
  BY DEF Aside, Read, Loaded, Setting, Undoing
<1>5. Handing(v, handoff, secrets, tenant)
  BY DEF Handing, Setting, Undoing
<1>6. FirstOf(v, job, snaps, tenant)
  <2>1. First(job, snaps, tenant)
    BY SelfOf DEF Stores
  <2> QED
    BY <2>1 DEF FirstOf, First, Read, Loaded, Setting, Undoing
<1>7. Self(v, job, handoff, secrets, snaps, tenant)
  BY <1>2, <1>3, <1>4, <1>5, <1>6 DEF Self
<1> QED
  BY <1>7, SelfOf, QuietStep

LEMMA LoadOrderStep == ASSUME JInv, NEW e \in Event, LoadOrder(e) PROVE JInv'
<1>1. w[e].phase = "loading" /\ UNCHANGED <<job, handoff, secrets, snaps, tenant, lease>>
      /\ Become(e, HasRead(w[e], Billing(seen)))
  BY DEF LoadOrder, Quiet, Outside, HasRead
<1>2. w[e].leased
  BY <1>1, SelfOf DEF Placed
<1>3. Onward(e)
  BY <1>1, Resting DEF LoadOrder, Quiet
<1>4. Billing(seen) \in {"active", "past_due", "canceled"}
  BY <1>1, BillingType DEF JInv, Counted, Received
<1> DEFINE v == HasRead(w[e], Billing(seen))
<1>5. v \in Worker /\ v.leased /\ v.phase = "fetching" /\ Become(e, v)
  BY <1>1, <1>2, <1>4, SelfOf, WorkerHasRead
<1> HIDE DEF v
<1> QED
  BY <1>1, <1>2, <1>3, <1>5, Reloads

LEMMA LoadJobStep == ASSUME JInv, NEW e \in Event, LoadJob(e) PROVE JInv'
<1> DEFINE p == IF w[e].billing = "active" THEN "deciding" ELSE "listing"
           v == [w[e] EXCEPT !.job = job, !.tries = 1, !.phase = p]
<1>1. w[e].phase = "fetching" /\ UNCHANGED <<job, handoff, secrets, snaps, tenant, lease>>
      /\ Become(e, v)
  BY DEF LoadJob, Quiet, Outside
<1>2. w[e].leased
  BY <1>1, SelfOf DEF Placed
<1>3. Onward(e)
  BY <1>1, Resting DEF LoadJob, Quiet
<1>4. p \in Phase /\ p \in {"deciding", "listing"} /\ (p = "deciding" => w[e].billing = "active")
  BY DEF Phase
<1>5. v \in Worker /\ v.leased /\ v.job = job /\ v.billing = w[e].billing /\ v.phase = p
  <2> HIDE DEF p
  <2>1. 1 \in 1..3
    OBVIOUS
  <2> QED
    BY <1>2, <1>4, <2>1, SelfOf DEF Worker
<1> HIDE DEF v, p
<1> QED
  BY <1>1, <1>2, <1>3, <1>4, <1>5, Reloads

\* recoverJobConflict.
LEMMA RecoverStep ==
  ASSUME JInv, NEW e \in Event, w[e].leased, Onward(e), Recover(e),
         UNCHANGED <<job, handoff, secrets, snaps, tenant>>
  PROVE  JInv'
<1>1. CASE w[e].conflicts > 0
  <2> DEFINE n == NoWorker("loading")
             v == [n EXCEPT !.leased = TRUE, !.conflicts = w[e].conflicts - 1]
  <2>1. Become(e, v) /\ UNCHANGED lease
    BY <1>1 DEF Recover
  <2>2. w[e].conflicts - 1 \in 0..2
    BY <1>1, SelfOf DEF Worker
  <2>0. n \in Worker /\ n.phase = "loading"
    BY Gone DEF Phase
  <2>3. v \in Worker /\ v.leased /\ v.phase = "loading"
    <3> HIDE DEF n
    <3> QED
      BY <2>0, <2>2 DEF Worker
  <2> HIDE DEF v
  <2> QED
    BY <2>1, <2>3, Reloads
<1>2. CASE ~(w[e].conflicts > 0)
  BY <1>2, GivesUp DEF Recover, Finish, Acked, Undelivered
<1> QED
  BY <1>1, <1>2

\* A worker goes on with the job it has read.
LEMMA GoesOn ==
  ASSUME JInv, NEW e \in Event, Onward(e), w[e].phase \in Read,
         NEW v \in Worker, v.leased = w[e].leased, v.job = w[e].job, Become(e, v),
         UNCHANGED <<job, handoff, secrets, snaps, tenant, lease>>,
         v.phase \in {"moving", "deciding", "starting", "preparing", "revoking", "failing"},
         v.phase # "moving" => v.leased,
         CopyOf(v, job)
  PROVE  JInv'
<1>1. Placed(v, job)
  BY SelfOf DEF Placed, Read, Loaded, Setting, Undoing
<1>2. Aside(v, job)
  BY SelfOf DEF Aside, Read, Loaded, Setting, Undoing
<1>3. Handing(v, handoff, secrets, tenant)
  BY DEF Handing, Setting, Undoing
<1>4. FirstOf(v, job, snaps, tenant)
  BY SelfOf DEF FirstOf, Read, Loaded, Setting, Undoing
<1>5. Self(v, job, handoff, secrets, snaps, tenant)
  BY <1>1, <1>2, <1>3, <1>4 DEF Self
<1> QED
  BY <1>5, SelfOf, QuietStep

\* transitionToCompensation finds what is to be undone.
LEMMA ListResourcesStep == ASSUME JInv, NEW e \in Event, ListResources(e) PROVE JInv'
<1> DEFINE j  == w[e].job
           op == OperationOf(w[e].billing)
           k  == Compensating(j, Observed(j), op)
<1>1. w[e].phase = "listing" /\ UNCHANGED <<job, handoff, secrets, snaps, tenant, lease>>
  BY DEF ListResources, Quiet, Outside
<1>2. Onward(e)
  BY <1>1, Resting DEF ListResources, Quiet
<1>3. /\ j \in Job /\ Fine(j) /\ j.state # "none" /\ w[e] \in Worker /\ job.state # "none"
      /\ CopyOf(w[e], job)
  BY <1>1, SelfOf DEF CopyOf, Placed, Read
<1>4. op \in {"suspension", "compensation"}
  BY DEF OperationOf
<1>5. Observed(j) \in SUBSET Step /\ InFlight(j) \subseteq Observed(j)
  BY SelfOf DEF Observed, InFlight, Stores, Snapshot
<1>6. /\ k.operation = op
      /\ k \in Job /\ Fine(k) /\ k.version = j.version /\ k.generation = j.generation
      /\ k # j => /\ k.state \in {"compensating", "disabled"}
                  /\ k.state = "disabled" =>
                       k.completed = 0 /\ j.completed = 0 /\ j.state \in {"queued", "disabled"}
  BY <1>3, <1>4, <1>5, CompensatingJob
<1>7. \/ k = j /\ Goto(e, After(e))
      \/ k # j /\ Become(e, [w[e] EXCEPT !.next = k, !.phase = "moving"])
  BY DEF ListResources
<1> HIDE DEF k, op, j
<1>8. CASE k = j /\ Goto(e, After(e)) /\ ~w[e].leased
  BY <1>1, <1>2, <1>3, <1>8, TakesUp DEF Goto, After, Worker, Phase
<1>9. CASE k = j /\ Goto(e, After(e)) /\ w[e].leased
  <2> DEFINE v == [w[e] EXCEPT !.phase = "deciding"]
  <2>1. /\ Become(e, v) /\ v \in Worker /\ v.leased = w[e].leased /\ v.job = j
        /\ v.phase = "deciding" /\ v.billing = w[e].billing /\ v.leased
    BY <1>3, <1>9 DEF Goto, After, Worker, Phase, j
  <2> HIDE DEF v
  <2>2. CopyOf(v, job)
    BY <1>1, <1>3, <1>6, <1>9, <2>1 DEF CopyOf, Read, Loaded, Setting, Undoing, op, j
  <2> QED
    BY <1>1, <1>2, <2>1, <2>2, GoesOn DEF Read, j
<1>10. CASE k # j /\ Become(e, [w[e] EXCEPT !.next = k, !.phase = "moving"])
  <2> DEFINE v == [w[e] EXCEPT !.next = k, !.phase = "moving"]
  <2>1. /\ Become(e, v) /\ v \in Worker /\ v.leased = w[e].leased /\ v.job = j
        /\ v.phase = "moving" /\ v.next = k /\ v.billing = w[e].billing
    BY <1>3, <1>6, <1>10 DEF Worker, Phase, j
  <2> HIDE DEF v
  <2>2. NextOf(v)
    BY <1>6, <1>10, <2>1 DEF NextOf, op
  <2>3. CopyOf(v, job)
    BY <1>1, <1>3, <2>1, <2>2 DEF CopyOf, Read, Loaded, Setting, Undoing, j
  <2> QED
    BY <1>1, <1>2, <2>1, <2>3, GoesOn DEF Read, j
<1> QED
  BY <1>7, <1>8, <1>9, <1>10

\* A job that is neither done nor given up is worked on, or started first.
LEMMA DecideStep == ASSUME JInv, NEW e \in Event, Decide(e) PROVE JInv'
<1> DEFINE j == w[e].job
<1>1. w[e].phase = "deciding" /\ UNCHANGED <<job, handoff, secrets, snaps, tenant>>
  BY DEF Decide, Quiet, Outside
<1>2. Onward(e)
  BY <1>1, Resting DEF Decide, Quiet
<1>3. /\ w[e].leased /\ w[e] \in Worker /\ CopyOf(w[e], job)
      /\ j \in Job /\ Fine(j) /\ j.state # "none"
  BY <1>1, SelfOf DEF CopyOf, Placed, Read, Loaded
<1>4. CASE \E ok \in BOOLEAN : Finish(e, ok)
  BY <1>1, <1>2, <1>3, <1>4, GivesUp DEF Finish, Acked, Undelivered
<1>5. CASE /\ j.state \notin {"ready", "disabled"} /\ ~j.exhausted
           /\ Goto(e, IF Started(j) = j THEN Work(j) ELSE "starting") /\ UNCHANGED lease
  <2> DEFINE p == IF Started(j) = j THEN Work(j) ELSE "starting"
             v == [w[e] EXCEPT !.phase = p]
  <2>1. p \in {"preparing", "revoking", "starting"}
    BY DEF Work
  <2>2. /\ p = "preparing" => j.operation = "provisioning" /\ j.state = "running"
        /\ p = "revoking" => j.operation # "provisioning" /\ j.state = "compensating"
        /\ p = "starting" => j.state \in {"queued", "failed", "compensating"} /\ j.attempt < MaxAttempts
    <3>1. CASE j.state = "running" \/ (j.state = "compensating" /\ j.attempt > 0)
      <4>1. Started(j) = j
        BY <3>1 DEF Started
      <4> QED
        BY <1>3, <3>1, <4>1 DEF Fine, Work
    <3>2. CASE ~(j.state = "running" \/ (j.state = "compensating" /\ j.attempt > 0))
      <4>1. Started(j).attempt = j.attempt + 1
        BY <1>3, <3>2 DEF Started, Job
      <4>2. Started(j) # j
        BY <1>3, <4>1 DEF Job
      <4>3. j.state \in {"queued", "failed", "compensating"}
        BY <1>3, <1>5, <3>2 DEF Fine
      <4>4. j.attempt < MaxAttempts
        BY <1>3, <1>5, <3>2, <4>3, Constants DEF Fine, Job
      <4> QED
        BY <4>2, <4>3, <4>4
    <3> QED
      BY <3>1, <3>2
  <2>3. Become(e, v)
    BY <1>5 DEF Goto
  <2> HIDE DEF p
  <2>4. v \in Worker /\ v.leased /\ v.job = j /\ v.phase = p /\ v.billing = w[e].billing
    BY <1>3, <2>1 DEF Worker, Phase
  <2> HIDE DEF v
  <2>5. CopyOf(v, job)
    BY <1>1, <1>3, <2>1, <2>2, <2>4 DEF CopyOf, Read, Loaded, Setting, Undoing
  <2> QED
    BY <1>1, <1>2, <1>3, <1>5, <2>1, <2>3, <2>4, <2>5, GoesOn DEF Read, Loaded
<1> QED
  BY <1>4, <1>5 DEF Decide

------------------------------------------------------------------------------
(***************************************************************************)
(* The steps that save the job.                                            *)
(***************************************************************************)
\* The holder moves the job on, within its operation.
LEMMA StoresSaved ==
  ASSUME NEW j, NEW h, NEW k, NEW s, NEW t, Stores(j, h, k, s, t),
         NEW n \in Job, Fine(n), n.generation = j.generation, n.operation = j.operation,
         n.completed >= j.completed, n.state \notin {"none", "queued"},
         n.operation = "provisioning" /\ n.completed >= CredStep => Backed(n.generation, h, k),
         n.state = "ready" => t.status = "ready",
         n.state = "disabled" =>
           /\ h[n.generation].state \in {"none", "revoked"}
           /\ n.generation = 0 =>
                /\ n.completed # 0
                /\ t.status \in OffFor(IF n.operation = "compensation" THEN "disabled" ELSE "suspended")
  PROVE  Stores(n, h, k, s, t)
<1>1. j \in Job /\ Whole(j, h, k, t) /\ First(j, s, t)
  BY DEF Stores
<1>2. n.operation = "provisioning" => n.state \in {"running", "failed", "ready"}
  BY DEF Fine
<1>3. j.completed + 1 >= CredStep => n.completed + 1 >= CredStep
  BY <1>1, Constants, SMTT(40) DEF Job
<1>4. Whole(n, h, k, t)
  BY <1>1, <1>2, <1>3 DEF Whole
<1>5. First(n, s, t)
  BY <1>1 DEF First
<1> QED
  BY <1>1, <1>4, <1>5 DEF Stores

\* The holder saves what it makes of the job it has read, and goes on.
LEMMA HolderPuts ==
  ASSUME JInv, NEW e \in Event, w[e].leased, w[e].phase \in Read, Onward(e),
         UNCHANGED <<lease, handoff, secrets, snaps, tenant>>, Current(w[e].job),
         NEW next \in Job, Fine(next), next.state # "none",
         next.version = w[e].job.version, next.generation = w[e].job.generation,
         Stores(Saved(next), handoff, secrets, snaps, tenant),
         NEW p \in {"preparing", "revoking", "deciding"}, PutJob(e, next, p),
         p = "preparing" => next.state = "running" /\ next.operation = "provisioning",
         p = "revoking" => next.state = "compensating" /\ next.operation # "provisioning",
         w[e].billing = "active" \/ next.operation = OperationOf(w[e].billing),
         next.operation = "provisioning" => w[e].job.operation = "provisioning"
  PROVE  JInv'
<1> DEFINE n == Saved(next)
           c == NoWorker(p)
           v == [c EXCEPT !.leased = w[e].leased, !.job = n, !.billing = w[e].billing,
                          !.conflicts = w[e].conflicts]
<1>1. /\ n \in Job /\ Fine(n) /\ n.version = job.version + 1 /\ n.state # "none"
      /\ n.state = next.state /\ n.operation = next.operation
      /\ n.generation = w[e].job.generation /\ w[e].job = job
  <2>1. w[e].job = job
    BY SelfOf DEF CopyOf, Current
  <2> QED
    BY <2>1, SavedJob
<1>2. job' = n /\ Become(e, v)
  BY DEF PutJob
<1>3. c \in Worker /\ c.phase = p
  BY Gone DEF Phase
<1> HIDE DEF n, c
<1>4. /\ v \in Worker /\ v.leased /\ v.phase = p /\ v.job = n /\ v.billing = w[e].billing
  BY <1>1, <1>3, SelfOf DEF Worker
<1> HIDE DEF v
<1>5. Placed(v, n)
  BY <1>1, <1>4 DEF Placed, Read, Loaded, Setting, Undoing
<1>6. CopyOf(v, n)
  BY <1>1, <1>4 DEF CopyOf, Read, Loaded, Setting, Undoing, Job
<1>7. Aside(v, n)
  BY <1>4 DEF Aside
<1>8. Handing(v, handoff, secrets, tenant)
  BY <1>4 DEF Handing, Setting, Undoing
<1>9. FirstOf(v, n, snaps, tenant)
  BY <1>1, <1>4, SelfOf DEF FirstOf
<1>10. Self(v, n, handoff, secrets, snaps, tenant)
  BY <1>5, <1>6, <1>7, <1>8, <1>9 DEF Self
<1>11. n.generation >= job.generation
  BY <1>1, SelfOf DEF Job
<1> QED
  BY <1>1, <1>2, <1>4, <1>10, <1>11, HolderSaves DEF n

\* The holder saves the job and lets go of the lease.
LEMMA HolderEnds ==
  ASSUME JInv, NEW e \in Event, w[e].leased, w[e].phase \in Read, Onward(e),
         UNCHANGED <<handoff, secrets, snaps, tenant>>, Current(w[e].job),
         NEW next \in Job, Fine(next), next.state # "none",
         next.version = w[e].job.version, next.generation = w[e].job.generation,
         Stores(Saved(next), handoff, secrets, snaps, tenant),
         job' = Saved(next), NEW ok \in BOOLEAN, Finish(e, ok)
  PROVE  JInv'
<1> DEFINE n == Saved(next)
<1>1. /\ n \in Job /\ n.version = job.version + 1 /\ n.state # "none"
      /\ n.generation = w[e].job.generation /\ w[e].job = job
  <2>1. w[e].job = job
    BY SelfOf DEF CopyOf, Current
  <2> QED
    BY <2>1, SavedJob
<1> HIDE DEF n
<1>2. PICK p \in {"done", "dead", "queued"} : Become(e, NoWorker(p))
  BY DEF Finish, Acked, Undelivered
<1> DEFINE v == NoWorker(p)
<1>3. v \in Worker /\ ~v.leased /\ v.phase = p
  BY Gone DEF Phase
<1> HIDE DEF v
<1>4. Self(v, n, handoff, secrets, snaps, tenant)
  BY <1>3, Fresh0, EmptyHanded DEF Read, Loaded, Setting, Undoing
<1>5. n.generation >= job.generation
  BY <1>1, SelfOf DEF Job
<1>6. lease' = "free"
  BY DEF Finish
<1> QED
  BY <1>1, <1>2, <1>3, <1>4, <1>5, <1>6, HolderSaves DEF n, v

\* startProvisioningAttempt.
LEMMA StartStep == ASSUME JInv, NEW e \in Event, Start(e) PROVE JInv'
<1> DEFINE j == w[e].job
           k == Started(j)
           p == Work(j)
<1>1. w[e].phase = "starting" /\ UNCHANGED <<handoff, secrets, snaps, tenant>> /\ SaveOr(e, k, p)
  BY DEF Start, Quiet, Outside
<1>2. Onward(e)
  BY <1>1, Resting DEF Start, Quiet
<1>3. /\ w[e].leased /\ j \in Job /\ Fine(j)
      /\ j.state \in {"queued", "failed", "compensating"} /\ j.attempt < MaxAttempts
      /\ w[e].billing = "active" \/ j.operation = OperationOf(w[e].billing)
      /\ j.version = job.version => j = job
  BY <1>1, SelfOf DEF CopyOf, Placed, Read, Loaded
<1>4. /\ k \in Job /\ Fine(k) /\ k.state \in {"running", "compensating"}
      /\ k.operation = j.operation /\ k.completed = j.completed
      /\ k.generation = j.generation /\ k.version = j.version
  BY <1>3, StartedJob
<1>5. p \in {"preparing", "revoking"} /\ (p = "preparing" <=> k.operation = "provisioning")
  BY <1>4 DEF Work
<1>6. k.operation = "provisioning" <=> k.state = "running"
  BY <1>4 DEF Fine
<1> HIDE DEF k, p
<1>7. CASE ~Current(j)
  BY <1>1, <1>2, <1>3, <1>7, RecoverStep DEF SaveOr
<1>8. CASE Current(j)
  <2>1. j = job
    BY <1>3, <1>8 DEF Current
  <2>2. /\ Saved(k) \in Job /\ Fine(Saved(k)) /\ Saved(k).state = k.state
        /\ Saved(k).operation = j.operation /\ Saved(k).completed = j.completed
        /\ Saved(k).generation = j.generation
    BY <1>4, SavedJob
  <2>3. Stores(Saved(k), handoff, secrets, snaps, tenant)
    <3>1. Stores(j, handoff, secrets, snaps, tenant) /\ Whole(j, handoff, secrets, tenant)
      BY <2>1, SelfOf DEF Stores
    <3>2. Saved(k).completed >= j.completed
      BY <2>2, <1>3 DEF Job
    <3> QED
      BY <3>1, <3>2, <2>2, <1>4, StoresSaved DEF Whole
  <2>4. PutJob(e, k, p) /\ UNCHANGED lease
    BY <1>1, <1>5, <1>8 DEF SaveOr, Phase
  <2> QED
    BY <1>1, <1>2, <1>3, <1>4, <1>5, <1>6, <1>8, <2>3, <2>4, HolderPuts DEF Read, Loaded
<1> QED
  BY <1>7, <1>8

\* failProvisioningAttempt.
LEMMA FailStep == ASSUME JInv, NEW e \in Event, Fail(e) PROVE JInv'
<1> DEFINE j == w[e].job
           k == Failed(j, w[e].retryable)
<1>1. w[e].phase = "failing" /\ UNCHANGED <<handoff, secrets, snaps, tenant>>
      /\ SaveOr(e, k, "failed")
  BY DEF Fail, Quiet, Outside
<1>2. Onward(e)
  BY <1>1, Resting DEF Fail, Quiet
<1>3. /\ w[e].leased /\ j \in Job /\ Fine(j) /\ w[e].retryable \in BOOLEAN
      /\ j.state \in {"running", "compensating"}
      /\ j.version = job.version => j = job
  BY <1>1, SelfOf DEF CopyOf, Placed, Read, Loaded, Worker
<1>4. /\ k \in Job /\ Fine(k) /\ k.state = "failed"
      /\ k.operation = j.operation /\ k.completed = j.completed
      /\ k.generation = j.generation /\ k.version = j.version
  BY <1>3, FailedJob
<1> HIDE DEF k
<1>5. CASE ~Current(j)
  BY <1>1, <1>2, <1>3, <1>5, RecoverStep DEF SaveOr
<1>6. CASE Current(j)
  <2>1. j = job
    BY <1>3, <1>6 DEF Current
  <2>2. /\ Saved(k) \in Job /\ Fine(Saved(k)) /\ Saved(k).state = k.state
        /\ Saved(k).operation = j.operation /\ Saved(k).completed = j.completed
        /\ Saved(k).generation = j.generation
    BY <1>4, SavedJob
  <2>3. Stores(Saved(k), handoff, secrets, snaps, tenant)
    <3>1. Stores(j, handoff, secrets, snaps, tenant) /\ Whole(j, handoff, secrets, tenant)
      BY <2>1, SelfOf DEF Stores
    <3>2. Saved(k).completed >= j.completed
      BY <2>2, <1>3 DEF Job
    <3> QED
      BY <3>1, <3>2, <2>2, <1>4, StoresSaved DEF Whole
  <2>4. job' = Saved(k) /\ Finish(e, FALSE)
    BY <1>1, <1>6 DEF SaveOr, Phase
  <2> QED
    BY <1>1, <1>2, <1>3, <1>4, <1>6, <2>3, <2>4, HolderEnds DEF Read, Loaded
<1> QED
  BY <1>5, <1>6

\* completeProvisioningStep: the credential's step is over only when it was handed out,
\* the last one only when the tenant is ready.
LEMMA SaveStepStep == ASSUME JInv, NEW e \in Event, SaveStep(e) PROVE JInv'
<1> DEFINE j == w[e].job
           k == StepCompleted(j)
           p == IF k.state = "ready" THEN "finished" ELSE "preparing"
<1>1. w[e].phase = "saving" /\ UNCHANGED <<handoff, secrets, snaps, tenant>> /\ SaveOr(e, k, p)
  BY DEF SaveStep, Quiet, Outside
<1>2. Onward(e)
  BY <1>1, Resting DEF SaveStep, Quiet
<1>3. /\ w[e].leased /\ j \in Job /\ Fine(j) /\ j.state = "running" /\ j.operation = "provisioning"
      /\ w[e].billing = "active" \/ j.operation = OperationOf(w[e].billing)
      /\ j.version = job.version => j = job
  BY <1>1, SelfOf DEF CopyOf, Placed, Read, Loaded, Setting, Fine
<1>4. /\ j.completed + 1 = CredStep => Backed(j.generation, handoff, secrets)
      /\ j.completed + 1 = LastStep => tenant.status = "ready"
  BY <1>1, SelfOf DEF Handing
<1>5. /\ k \in Job /\ Fine(k) /\ k.state = IF j.completed + 1 = LastStep THEN "ready" ELSE "running"
      /\ k.operation = "provisioning" /\ k.completed = j.completed + 1
      /\ k.generation = j.generation /\ k.version = j.version
  BY <1>3, CompletedJob
<1> HIDE DEF k
<1>6. CASE ~Current(j)
  BY <1>1, <1>2, <1>3, <1>6, RecoverStep DEF SaveOr
<1>7. CASE Current(j)
  <2>1. j = job
    BY <1>3, <1>7 DEF Current
  <2>2. /\ Saved(k) \in Job /\ Fine(Saved(k)) /\ Saved(k).state = k.state
        /\ Saved(k).operation = j.operation /\ Saved(k).completed = j.completed + 1
        /\ Saved(k).generation = j.generation
    BY <1>3, <1>5, SavedJob
  <2>3. Stores(Saved(k), handoff, secrets, snaps, tenant)
    <3>1. Stores(j, handoff, secrets, snaps, tenant) /\ Whole(j, handoff, secrets, tenant)
      BY <2>1, SelfOf DEF Stores
    <3>2. Saved(k).completed >= j.completed
      BY <2>2, <1>3 DEF Job
    <3>3. Saved(k).completed >= CredStep => Backed(j.generation, handoff, secrets)
      <4>1. j.completed + 1 >= CredStep => j.completed + 1 = CredStep \/ j.completed >= CredStep
        BY <1>3, Constants, SMTT(40) DEF Job
      <4> QED
        BY <4>1, <3>1, <2>2, <1>3, <1>4 DEF Whole
    <3>4. Saved(k).state \in {"running", "ready"} /\ (Saved(k).state = "ready" => tenant.status = "ready")
      BY <2>2, <1>4, <1>5
    <3> QED
      BY <3>1, <3>2, <3>3, <3>4, <2>2, StoresSaved
  <2>4. CASE k.state = "ready"
    <3>1. job' = Saved(k) /\ Finish(e, TRUE)
      BY <1>1, <1>7, <2>4 DEF SaveOr, Phase
    <3> QED
      BY <1>1, <1>2, <1>3, <1>5, <1>7, <2>3, <2>4, <3>1, HolderEnds DEF Read, Loaded, Setting
  <2>5. CASE k.state # "ready"
    <3>1. PutJob(e, k, "preparing") /\ UNCHANGED lease
      BY <1>1, <1>7, <2>5 DEF SaveOr, Phase
    <3>2. k.state = "running"
      BY <1>5, <2>5
    <3> QED
      BY <1>1, <1>2, <1>3, <1>5, <1>7, <2>3, <3>1, <3>2, HolderPuts DEF Read, Loaded, Setting
  <2> QED
    BY <2>4, <2>5
<1> QED
  BY <1>6, <1>7

\* completeCompensationStep: the pointer was revoked and the tenant turned off before.
LEMMA SaveUndoneStep == ASSUME JInv, NEW e \in Event, SaveUndone(e) PROVE JInv'
<1> DEFINE j == w[e].job
           k == StepCompensated(j)
           p == IF k.state = "disabled" THEN "finished" ELSE "revoking"
<1>1. w[e].phase = "checking" /\ UNCHANGED <<handoff, secrets, snaps, tenant>> /\ SaveOr(e, k, p)
  BY DEF SaveUndone, Quiet, Outside
<1>2. Onward(e)
  BY <1>1, Resting DEF SaveUndone, Quiet
<1>3. /\ w[e].leased /\ j \in Job /\ Fine(j) /\ j.state = "compensating" /\ j.operation # "provisioning"
      /\ w[e].billing = "active" \/ j.operation = OperationOf(w[e].billing)
      /\ j.version = job.version => j = job
  BY <1>1, SelfOf DEF CopyOf, Placed, Read, Loaded, Undoing, Setting, Fine
<1>4. /\ handoff[j.generation].state \in {"none", "revoked"}
      /\ job.generation = 0 => tenant.status \in OffFor(Target(w[e].billing))
  BY <1>1, SelfOf DEF Handing, FirstOf, Undoing
<1>5. /\ k \in Job /\ Fine(k) /\ k.state \in {"compensating", "disabled"}
      /\ k.operation = j.operation /\ k.completed = j.completed /\ j.completed > 0
      /\ k.generation = j.generation /\ k.version = j.version
  BY <1>3, CompensatedJob
<1> HIDE DEF k
<1>6. CASE ~Current(j)
  BY <1>1, <1>2, <1>3, <1>6, RecoverStep DEF SaveOr
<1>7. CASE Current(j)
  <2>1. j = job
    BY <1>3, <1>7 DEF Current
  <2>2. /\ Saved(k) \in Job /\ Fine(Saved(k)) /\ Saved(k).state = k.state
        /\ Saved(k).operation = j.operation /\ Saved(k).completed = j.completed
        /\ Saved(k).generation = j.generation
    BY <1>3, <1>5, SavedJob
  <2>3. Stores(Saved(k), handoff, secrets, snaps, tenant)
    <3>1. Stores(j, handoff, secrets, snaps, tenant)
      BY <2>1, SelfOf
    <3>2. Saved(k).completed >= j.completed /\ Saved(k).completed # 0
      BY <2>2, <1>3, <1>5 DEF Job
    <3>3. Saved(k).generation = 0 =>
            tenant.status \in OffFor(IF Saved(k).operation = "compensation" THEN "disabled" ELSE "suspended")
      BY <1>3, <1>4, <2>1, <2>2 DEF OffFor, Target, OperationOf, OffStates
    <3> QED
      BY <3>1, <3>2, <3>3, <2>2, <1>3, <1>4, <1>5, StoresSaved
  <2>4. CASE k.state = "disabled"
    <3>1. job' = Saved(k) /\ Finish(e, TRUE)
      BY <1>1, <1>7, <2>4 DEF SaveOr, Phase
    <3> QED
      BY <1>1, <1>2, <1>3, <1>5, <1>7, <2>3, <2>4, <3>1, HolderEnds DEF Read, Loaded, Undoing
  <2>5. CASE k.state # "disabled"
    <3>1. PutJob(e, k, "revoking") /\ UNCHANGED lease
      BY <1>1, <1>7, <2>5 DEF SaveOr, Phase
    <3>2. k.state = "compensating"
      BY <1>5, <2>5
    <3> QED
      BY <1>1, <1>2, <1>3, <1>5, <1>7, <2>3, <3>1, <3>2, HolderPuts DEF Read, Loaded, Undoing
  <2> QED
    BY <2>4, <2>5
<1> QED
  BY <1>6, <1>7

\* A move to a compensation, or to a later activation, as the stores see it.
LEMMA StoresMoved ==
  ASSUME NEW j, NEW h, NEW k, NEW s, NEW t, Stores(j, h, k, s, t), j.state # "none",
         NEW n \in Job, Fine(n), n.generation = j.generation, n.operation # "provisioning",
         n.state \in {"compensating", "disabled"},
         n.state = "disabled" =>
           n.completed = 0 /\ j.completed = 0 /\ j.state \in {"queued", "disabled"}
  PROVE  Stores(n, h, k, s, t)
<1>1. j \in Job /\ Whole(j, h, k, t) /\ First(j, s, t) /\ Fine(j)
  BY DEF Stores, Whole
<1>2. n.state = "disabled" => h[n.generation].state \in {"none", "revoked"}
  <2>1. j.state = "queued" => j.operation = "provisioning"
    BY <1>1 DEF Fine
  <2> QED
    BY <1>1, <2>1 DEF Whole
<1>3. Whole(n, h, k, t)
  BY <1>1, <1>2 DEF Whole
<1>4. First(n, s, t)
  <2>1. n.generation = 0 /\ n.state = "disabled" => t.status = "absent"
    BY <1>1 DEF First
  <2> QED
    BY <1>1, <2>1 DEF First, OffFor
<1> QED
  BY <1>1, <1>3, <1>4 DEF Stores

LEMMA StoresResumed ==
  ASSUME NEW j, NEW h, NEW k, NEW s, NEW t, Stores(j, h, k, s, t),
         NEW n \in Job, Fine(n), n.generation = j.generation + 1, n.generation \in Generation,
         n.state = "queued"
  PROVE  Stores(n, h, k, s, t)
<1>1. j \in Job /\ Whole(j, h, k, t) /\ j.generation \in Nat
  BY DEF Stores, Job
<1>2. \A i \in Generation : i > n.generation => i > j.generation
  BY <1>1, Constants
<1>3. h[n.generation] = NoPointer
  BY <1>1 DEF Whole
<1>4. n.completed = 0 /\ 0 < CredStep
  BY Constants DEF Fine
<1>5. Whole(n, h, k, t)
  BY <1>1, <1>2, <1>3, <1>4, Constants DEF Whole, NoPointer
<1>6. First(n, s, t)
  BY <1>1 DEF First
<1> QED
  BY <1>1, <1>5, <1>6 DEF Stores

\* createProvisioningJob.
LEMMA CreateStep == ASSUME JInv, NEW e \in Event, Create(e) PROVE JInv'
<1>1. /\ w[e].phase = "creating" /\ UNCHANGED <<handoff, secrets, snaps, tenant, lease>>
      /\ Goto(e, "claiming")
  BY DEF Create, Quiet, Outside
<1>2. ~w[e].leased
  BY <1>1, SelfOf DEF Placed, Read, Loaded, Setting, Undoing
<1>3. Onward(e)
  BY <1>1, Resting DEF Create, Quiet
<1> DEFINE v == [w[e] EXCEPT !.phase = "claiming"]
<1>4. Become(e, v) /\ v \in Worker /\ ~v.leased /\ v.phase = "claiming"
  BY <1>1, <1>2, SelfOf DEF Goto, Worker, Phase
<1> HIDE DEF v
<1>5. CASE job.state # "none"
  <2>1. UNCHANGED job
    BY <1>5 DEF Create
  <2> QED
    BY <1>1, <1>2, <1>3, <1>4, <1>5, <2>1, TakesUp
<1>6. CASE job.state = "none"
  <2>1. job' = NewJob
    BY <1>6 DEF Create
  <2>2. w' \in [Event -> Worker] /\ w'[e] = v /\ \A f \in Event \ {e} : w'[f] = w[f]
    BY <1>4, Became DEF JInv
  <2>3. ASSUME NEW f \in Event PROVE ~w'[f].leased /\ w'[f].phase \notin Read
                                     /\ Self(w'[f], NewJob, handoff, secrets, snaps, tenant)
    <3>1. ~w'[f].leased /\ w'[f].phase \notin Read \cup {"loading", "fetching"} /\ w'[f] \in Worker
      <4>1. CASE f = e
        BY <1>4, <2>2, <4>1 DEF Read, Loaded, Setting, Undoing
      <4>2. CASE f # e
        <5>1. w'[f] = w[f] /\ Placed(w[f], job) /\ w[f] \in Worker
          BY <2>2, <4>2, SelfOf
        <5> QED
          BY <5>1, <1>6 DEF Placed, Read, Loaded, Setting, Undoing
      <4> QED
        BY <4>1, <4>2
    <3>2. NewJob.state # "none"
      BY FirstJobs
    <3>3. Placed(w'[f], NewJob) /\ CopyOf(w'[f], NewJob)
      BY <3>1, <3>2 DEF Placed, CopyOf, Read
    <3> QED
      BY <3>1, <3>3, EmptyHanded
  <2>4. Stores(NewJob, handoff, secrets, snaps, tenant)
    <3>1. job = NoJob /\ Stores(NoJob, handoff, secrets, snaps, tenant)
      BY <1>6, SelfOf DEF Stores, Whole
    <3>2. Whole(NewJob, handoff, secrets, tenant)
      BY <3>1, FirstJobs, Constants DEF Stores, Whole
    <3>3. First(NewJob, snaps, tenant)
      BY <3>1, FirstJobs DEF Stores, First
    <3> QED
      BY <3>1, <3>2, <3>3, FirstJobs DEF Stores
  <2>5. (\A f \in Event : Self(w[f], job, handoff, secrets, snaps, tenant))'
    BY <1>1, <2>1, <2>3
  <2>6. Stores(job, handoff, secrets, snaps, tenant)'
    BY <1>1, <2>1, <2>4
  <2>7. OneHolder'
    BY <2>3 DEF OneHolder
  <2>8. Received' /\ Counted' /\ lease' \in {"free", "held", "orphaned"}
    BY <1>1, <1>3, <2>2 DEF JInv, Received, Onward
  <2> QED
    BY <2>2, <2>5, <2>6, <2>7, <2>8 DEF JInv
<1> QED
  BY <1>5, <1>6

\* resumeProvisioningJob.
LEMMA ResumeJobStep == ASSUME JInv, NEW e \in Event, ResumeJob(e) PROVE JInv'
<1> DEFINE v == NoWorker("claiming")
           n == Saved(Resumed(w[e].job))
<1>1. w[e].phase = "resuming" /\ UNCHANGED <<handoff, secrets, snaps, tenant, lease>>
  BY DEF ResumeJob, Quiet, Outside
<1>2. ~w[e].leased /\ job.state # "none" /\ w[e].job \in Job
  BY <1>1, SelfOf DEF Placed, Read, Loaded, Setting, Undoing
<1>3. Onward(e)
  BY <1>1, Resting DEF ResumeJob, Quiet
<1>4. CASE ~Current(w[e].job)
  BY <1>1, <1>2, <1>3, <1>4, GivesUp DEF ResumeJob, Undelivered
<1>5. CASE Current(w[e].job)
  <2>1. w[e].job = job /\ job' = n /\ Become(e, v) /\ job.generation + 1 \in Generation
    BY <1>1, <1>5, SelfOf DEF ResumeJob, CopyOf, Current, Read
  <2>2. /\ n \in Job /\ Fine(n) /\ n.state = "queued" /\ n.operation = "provisioning"
        /\ n.version = job.version + 1 /\ n.generation = job.generation + 1
    BY <1>2, <2>1, ResumedJob, SavedJob
  <2>3. v \in Worker /\ ~v.leased /\ v.phase = "claiming"
    BY Gone DEF Phase
  <2> HIDE DEF v, n
  <2>4. Stores(n, handoff, secrets, snaps, tenant)
    BY <2>1, <2>2, SelfOf, StoresResumed
  <2>5. n.generation > job.generation
    BY <2>2, SelfOf DEF Job
  <2>6. Interferes(job, n)
    BY <2>2, <2>5 DEF Interferes
  <2>7. Placed(v, n) /\ CopyOf(v, n)
    BY <2>2, <2>3, Fresh0 DEF Read, Loaded, Setting, Undoing
  <2>8. n.generation >= job.generation
    BY <2>2, SelfOf DEF Job
  <2> QED
    BY <1>1, <1>2, <1>3, <2>1, <2>2, <2>3, <2>4, <2>6, <2>7, <2>8, OtherSaves
<1> QED
  BY <1>4, <1>5

\* transitionToCompensation saves, or starts over with the job as it is.
LEMMA MoveJobStep == ASSUME JInv, NEW e \in Event, MoveJob(e) PROVE JInv'
<1> DEFINE j == w[e].job
           k == w[e].next
           n == Saved(k)
<1>1. w[e].phase = "moving" /\ UNCHANGED <<handoff, secrets, snaps, tenant>>
  BY DEF MoveJob, Quiet, Outside
<1>2. Onward(e)
  BY <1>1, Resting DEF MoveJob, Quiet
<1>3. /\ job.state # "none" /\ j \in Job /\ k \in Job /\ w[e] \in Worker /\ NextOf(w[e])
      /\ j.version = job.version => j = job
  BY <1>1, SelfOf DEF Placed, CopyOf, Read, Worker
<1>4. CASE Current(j)
  <2>1. j = job /\ PutJob(e, k, After(e)) /\ UNCHANGED lease
    BY <1>3, <1>4 DEF MoveJob, Current
  <2>2. /\ k \in Job /\ Fine(k) /\ k.state \in {"compensating", "disabled"}
        /\ k.operation = OperationOf(w[e].billing) /\ k.operation # "provisioning"
        /\ k.version = j.version /\ k.generation = j.generation
        /\ k.state = "disabled" =>
             k.completed = 0 /\ j.completed = 0 /\ j.state \in {"queued", "disabled"}
    BY <1>3 DEF NextOf, OperationOf
  <2>3. /\ n \in Job /\ Fine(n) /\ n.version = job.version + 1 /\ n.state = k.state
        /\ n.operation = k.operation /\ n.generation = job.generation /\ n.completed = k.completed
    BY <2>1, <2>2, SavedJob
  <2>4. Stores(n, handoff, secrets, snaps, tenant)
    <3> HIDE DEF n, k
    <3> QED
      BY <1>3, <2>1, <2>2, <2>3, SelfOf, StoresMoved
  <2>5. CASE w[e].leased
    <3>1. PutJob(e, k, "deciding")
      BY <2>1, <2>5 DEF After
    <3> QED
      BY <1>1, <1>2, <1>4, <2>1, <2>2, <2>4, <2>5, <3>1, HolderPuts DEF Read
  <2>6. CASE ~w[e].leased
    <3> DEFINE c == NoWorker("claiming")
               v == [c EXCEPT !.leased = w[e].leased, !.job = n, !.billing = w[e].billing,
                              !.conflicts = w[e].conflicts]
    <3>1. job' = n /\ Become(e, v)
      BY <2>1, <2>6 DEF PutJob, After
    <3>2. c \in Worker /\ c.phase = "claiming"
      BY Gone DEF Phase
    <3> HIDE DEF c, n
    <3>3. v \in Worker /\ ~v.leased /\ v.phase = "claiming"
      BY <1>3, <2>3, <2>6, <3>2 DEF Worker
    <3> HIDE DEF v
    <3>4. Placed(v, n) /\ CopyOf(v, n)
      BY <2>2, <2>3, <3>3, Fresh0 DEF Read, Loaded, Setting, Undoing
    <3>5. Interferes(job, n)
      BY <2>1, <2>2, <2>3 DEF Interferes
    <3>6. n.generation >= job.generation
      BY <2>3, SelfOf DEF Job
    <3> QED
      BY <1>1, <1>2, <2>1, <2>3, <2>4, <2>6, <3>1, <3>3, <3>4, <3>5, <3>6, OtherSaves
  <2> QED
    BY <2>5, <2>6
<1>5. CASE ~Current(j) /\ w[e].tries < 3
  <2> DEFINE v == [w[e] EXCEPT !.job = job, !.next = NoJob, !.tries = @ + 1, !.phase = "listing"]
  <2>1. Become(e, v) /\ UNCHANGED <<job, lease>>
    BY <1>5 DEF MoveJob
  <2>2. w[e].tries + 1 \in 1..3
    BY <1>3, <1>5 DEF Worker
  <2>3. v \in Worker /\ v.leased = w[e].leased /\ v.job = job /\ v.phase = "listing"
    BY <1>3, <2>2, SelfOf, FirstJobs, ZenonT(60) DEF Worker, Phase
  <2> HIDE DEF v
  <2> QED
    BY <1>1, <1>2, <1>3, <2>1, <2>3, Reloads, TakesUp
<1>6. CASE ~Current(j) /\ w[e].tries = 3
  <2>1. UNCHANGED job /\ IF w[e].leased THEN Recover(e) ELSE Undelivered(e) /\ UNCHANGED lease
    BY <1>6 DEF MoveJob
  <2> QED
    BY <1>1, <1>2, <2>1, RecoverStep, GivesUp DEF Undelivered
<1> QED
  BY <1>4, <1>5, <1>6 DEF MoveJob

------------------------------------------------------------------------------
(***************************************************************************)
(* The tenant's answers, and the snapshots of them.                        *)
(***************************************************************************)
LEMMA LatestIs ==
  ASSUME NEW s \in SUBSET Snapshot, s # {} => Latest(s) # {}, s # {}
  PROVE  Prior(s) \in s /\ Prior(s) \in Snapshot /\ Prior(s) \in Latest(s)
         /\ \A x \in s : x.g <= Prior(s).g
<1>1. \E x \in Latest(s) : TRUE
  OBVIOUS
<1>2. Prior(s) \in Latest(s)
  BY <1>1 DEF Prior
<1> QED
  BY <1>2 DEF Latest

LEMMA AloneIsLatest ==
  ASSUME NEW x \in Snapshot
  PROVE  Latest({x}) = {x}
<1>1. x.g \in Nat
  BY DEF Snapshot
<1> QED
  BY <1>1 DEF Latest

\* An answer of the tenant: what it may be.
AnswerType == [ok: BOOLEAN, tenant: Tenant, status: TenantStatus, key: Key, minted: BOOLEAN]

LEMMA SnapIs ==
  ASSUME NEW s \in SUBSET Snapshot, s # {} => Latest(s) # {},
         NEW step \in Step, NEW a \in AnswerType, a.status # "absent"
  PROVE  /\ Snap(s, step, a) \in Snapshot /\ Snap(s, step, a).active
         /\ Snap(s, step, a).status = a.status
<1>1. NextGeneration(s, a.status, a.key) \in Nat
  BY LatestIs DEF NextGeneration, Snapshot
<1> DEFINE g == NextGeneration(s, a.status, a.key)
<1>2. Snap(s, step, a) = [g |-> g, status |-> a.status, key |-> a.key, step |-> step, active |-> TRUE]
  BY DEF Snap
<1> HIDE DEF g
<1> QED
  BY <1>1, <1>2 DEF Snapshot, AnswerType, g

\* A snapshot is kept of every accepted answer, and of no other.
LEMMA KeptIs ==
  ASSUME NEW s \in SUBSET Snapshot, s # {} => Latest(s) # {},
         NEW step \in Step, NEW a \in AnswerType, a.ok => a.status # "absent"
  PROVE  LET r == Kept(s, step, a) IN
         /\ r.answer = a /\ r.snap \subseteq Snapshot /\ (r.snap = {} \/ Latest(r.snap) # {})
         /\ \A x \in r.snap : a.ok /\ x.active /\ x.status = a.status /\ x = Snap(s, step, a)
         /\ a.ok => r.snap = {Snap(s, step, a)}
<1> DEFINE x == Snap(s, step, a)
           r == Kept(s, step, a)
<1>1. r.answer = a /\ r.snap = IF a.ok THEN {x} ELSE {}
  BY DEF Kept
<1>2. a.ok => x \in Snapshot /\ x.active /\ x.status = a.status
  BY SnapIs
<1> HIDE DEF x, r
<1>3. a.ok => Latest({x}) # {}
  BY <1>2, AloneIsLatest
<1> QED
  BY <1>1, <1>2, <1>3 DEF x, r

\* What a step of an activation may get from the tenant: it has the key it had, or the
\* minted one; a tenant that runs goes on running, one that is off stays so in the first
\* activation; no credential comes without being minted or handed out already.
Served(a, j, handedOut, t, fresh) ==
  LET step == j.completed + 1
  IN
  /\ a \in AnswerType
  /\ a.tenant.key \in {t.key, fresh}
  /\ t.status \in Running => a.tenant.status \in Running
  /\ a.minted => a.tenant.key = fresh /\ a.tenant.status \in Running /\ step = CredStep
  /\ a.ok /\ ~a.minted /\ step = CredStep => handedOut
  /\ a.ok /\ step = LastStep => a.tenant.status = "ready"
  /\ j.generation = 0 /\ t.status \in OffStates => a.tenant.status = t.status

\* What a snapshot is kept of.
Keepable(a, j) == a.ok => a.status # "absent" /\ (j.generation = 0 => a.status \in Running)

Executed(r, j, handedOut, t, fresh) ==
  /\ Served(r.answer, j, handedOut, t, fresh)
  /\ r.snap \subseteq Snapshot /\ (r.snap = {} \/ Latest(r.snap) # {})
  /\ \A x \in r.snap : x.active /\ (j.generation = 0 => x.status \in Running)

LEMMA TenantAnswers ==
  ASSUME NEW t \in Tenant
  PROVE  /\ Refused(t) = [ok |-> FALSE, tenant |-> t, status |-> t.status, key |-> t.key, minted |-> FALSE]
         /\ Refused(t) \in AnswerType
         /\ t.status \in TenantStatus /\ t.key \in Key
<1>1. t.status \in TenantStatus /\ t.key \in Key
  BY DEF Tenant
<1>2. Refused(t) = [ok |-> FALSE, tenant |-> t, status |-> t.status, key |-> t.key, minted |-> FALSE]
  <2> DEFINE r == Answer(t, t.status, t.key, FALSE)
  <2>1. r = [ok |-> TRUE, tenant |-> t, status |-> t.status, key |-> t.key, minted |-> FALSE]
    BY DEF Answer
  <2>2. Refused(t) = [r EXCEPT !.ok = FALSE]
    BY DEF Refused
  <2> HIDE DEF r
  <2> QED
    BY <2>1, <2>2
<1>3. Refused(t) \in AnswerType
  BY <1>1, <1>2 DEF AnswerType
<1> QED
  BY <1>1, <1>2, <1>3

LEMMA ReissueIs ==
  ASSUME NEW t \in Tenant, NEW fresh \in Key
  PROVE  LET a == Reissue(t, fresh) IN
         \/ a = Refused(t) /\ t.status \notin Running
         \/ /\ t.status \in Running /\ a.tenant = [t EXCEPT !.key = fresh] /\ a \in AnswerType
            /\ a.tenant.status = t.status /\ a.tenant.key = fresh
            /\ a.ok /\ a.minted /\ a.status = t.status
  BY DEF Reissue, Answer, AnswerType, Tenant, TenantStatus, Running

\* What answers a request for a key.
Mints(a, t, fresh) ==
  \/ a = Refused(t)
  \/ /\ a \in AnswerType /\ a.ok /\ a.minted
     /\ a.tenant.key = fresh /\ a.tenant.status \in Running /\ a.status \in Running

LEMMA ReissueAsIs ==
  ASSUME NEW t \in Tenant, NEW fresh \in Key, NEW p, p.status \in TenantStatus
  PROVE  LET a == ReissueAs(t, p, fresh) IN
         Mints(a, t, fresh) /\ (a.ok => t.status \in Running)
<1> DEFINE r == Reissue(t, fresh)
<1>1. CASE p.status \in Running /\ r.ok
  <2>1. /\ r.tenant = [t EXCEPT !.key = fresh] /\ r \in AnswerType /\ r.tenant.status = t.status
        /\ r.tenant.key = fresh /\ r.ok /\ r.minted /\ t.status \in Running
    BY <1>1, ReissueIs, TenantAnswers
  <2>2. ReissueAs(t, p, fresh) = [r EXCEPT !.status = p.status]
    BY <1>1 DEF ReissueAs
  <2> HIDE DEF r
  <2> QED
    BY <1>1, <2>1, <2>2 DEF Mints, AnswerType
<1>2. CASE ~(p.status \in Running /\ r.ok)
  <2>1. ReissueAs(t, p, fresh) = Refused(t)
    BY <1>2 DEF ReissueAs
  <2> QED
    BY <2>1, TenantAnswers DEF Mints
<1> QED
  BY <1>1, <1>2

LEMMA RefusedServes ==
  ASSUME NEW j \in Job, NEW t \in Tenant, NEW fresh \in Key, NEW handedOut \in BOOLEAN
  PROVE  Served(Refused(t), j, handedOut, t, fresh) /\ Keepable(Refused(t), j)
  BY TenantAnswers DEF Served, Keepable

LEMMA MintsServes ==
  ASSUME NEW j \in Job, NEW t \in Tenant, NEW fresh \in Key, NEW handedOut \in BOOLEAN,
         j.completed + 1 = CredStep, NEW a, Mints(a, t, fresh),
         j.generation = 0 /\ a.ok => t.status \notin OffStates
  PROVE  Served(a, j, handedOut, t, fresh) /\ Keepable(a, j)
<1>1. CASE a = Refused(t)
  BY <1>1, RefusedServes
<1>2. CASE a # Refused(t)
  <2>1. CredStep # LastStep
    BY Constants
  <2> QED
    BY <1>2, <2>1 DEF Mints, Served, Keepable, Running
<1> QED
  BY <1>1, <1>2

\* An answer of which a snapshot is kept.
LEMMA KeptExecutes ==
  ASSUME NEW j \in Job, NEW t \in Tenant, NEW fresh \in Key, NEW handedOut \in BOOLEAN,
         NEW s \in SUBSET Snapshot, s # {} => Latest(s) # {}, NEW step \in Step,
         NEW a, Served(a, j, handedOut, t, fresh), Keepable(a, j)
  PROVE  Executed(Kept(s, step, a), j, handedOut, t, fresh)
<1>1. a \in AnswerType
  BY DEF Served
<1> QED
  BY <1>1, KeptIs DEF Executed, Keepable

LEMMA HandOutIs ==
  ASSUME NEW j \in Job, NEW t \in Tenant, NEW fresh \in Key, NEW handedOut \in BOOLEAN,
         NEW s \in SUBSET Snapshot, s # {} => Latest(s) # {}, j.completed + 1 = CredStep
  PROVE  Executed(HandOut(j, handedOut, s, t, fresh), j, handedOut, t, fresh)
<1> DEFINE q == HandOut(j, handedOut, s, t, fresh)
           p == Prior(s)
<1>1. CredStep \in Step /\ CredStep # LastStep
  BY Constants
<1>2. s # {} => p \in Snapshot /\ p.status \in TenantStatus /\ p.status # "absent" /\ p.key \in Key
  BY LatestIs DEF Snapshot
<1>3. j.generation \in Nat
  BY DEF Job
<1>4. CASE s = {}
  <2> DEFINE a == ProvisionUnknown(t, fresh)
  <2>1. q = Kept(s, CredStep, a)
    BY <1>4 DEF HandOut
  <2>2. Mints(a, t, fresh) /\ (a.ok => t.status \notin OffStates)
    <3>1. CASE t.status = "absent"
      <4> DEFINE u == [status |-> "provisioning", billing |-> "active", key |-> fresh]
      <4>1. a = [ok |-> TRUE, tenant |-> u, status |-> "provisioning", key |-> fresh, minted |-> TRUE]
        BY <3>1 DEF ProvisionUnknown, Answer
      <4>2. u \in Tenant /\ u.key = fresh /\ u.status = "provisioning"
        BY DEF Tenant, TenantStatus
      <4> HIDE DEF u
      <4> QED
        BY <3>1, <4>1, <4>2 DEF Mints, AnswerType, TenantStatus, Running, OffStates
    <3>2. CASE t.status # "absent"
      <4>1. a = Reissue(t, fresh)
        BY <3>2 DEF ProvisionUnknown
      <4> HIDE DEF a
      <4>2. \/ a = Refused(t) /\ t.status \notin Running
            \/ /\ t.status \in Running /\ a \in AnswerType
               /\ a.tenant.status = t.status /\ a.tenant.key = fresh
               /\ a.ok /\ a.minted /\ a.status = t.status
        BY <4>1, ReissueIs, Zenon
      <4> QED
        BY <4>2, TenantAnswers DEF Mints, Running, OffStates
    <3> QED
      BY <3>1, <3>2
  <2> HIDE DEF a
  <2> QED
    BY <2>1, <2>2, <1>1, MintsServes, KeptExecutes
<1>5. CASE s # {} /\ handedOut /\ j.generation > 0 /\ p.status = "provisioning"
  <2> DEFINE a == Answer(t, p.status, p.key, FALSE)
  <2>0. j.generation # 0
    BY <1>5, <1>3
  <2>1. q = Kept(s, CredStep, a)
    BY <1>5, <2>0, Zenon DEF HandOut
  <2>2. a = [ok |-> TRUE, tenant |-> t, status |-> "provisioning", key |-> p.key, minted |-> FALSE]
    BY <1>5 DEF Answer
  <2> HIDE DEF a
  <2>3. Served(a, j, handedOut, t, fresh) /\ Keepable(a, j)
    BY <1>1, <1>2, <1>5, <2>2, TenantAnswers DEF Served, Keepable, AnswerType, TenantStatus, Running
  <2> QED
    BY <2>1, <2>3, <1>1, KeptExecutes
<1>6. CASE s # {} /\ handedOut /\ j.generation > 0 /\ p.status # "provisioning"
  <2>1. q = Rejected(t)
    BY <1>6, <1>3 DEF HandOut
  <2>2. q.answer = Refused(t) /\ q.snap = {}
    BY <2>1 DEF Rejected
  <2> QED
    BY <2>2, RefusedServes DEF Executed
<1>7. CASE s # {} /\ handedOut /\ j.generation = 0
  <2> DEFINE a == ProvisionKnown(t, p)
  <2>1. q = Kept(s, CredStep, a)
    BY <1>7, <1>3 DEF HandOut
  <2>2. Served(a, j, handedOut, t, fresh) /\ Keepable(a, j)
    <3>1. CASE t.status \in Running /\ t.key = p.key
      <4> DEFINE u == [t EXCEPT !.billing = "active"]
      <4>1. a = [ok |-> TRUE, tenant |-> u, status |-> t.status, key |-> t.key, minted |-> FALSE]
        BY <3>1 DEF ProvisionKnown, Answer
      <4>2. u \in Tenant /\ u.key = t.key /\ u.status = t.status
        BY DEF Tenant
      <4> HIDE DEF u, a
      <4> QED
        BY <1>1, <1>7, <3>1, <4>1, <4>2, TenantAnswers DEF Served, Keepable, AnswerType, Running
    <3>2. CASE ~(t.status \in Running /\ t.key = p.key)
      BY <3>2, RefusedServes DEF ProvisionKnown
    <3> QED
      BY <3>1, <3>2
  <2> HIDE DEF a
  <2> QED
    BY <2>1, <2>2, <1>1, KeptExecutes
<1>8. CASE s # {} /\ ~handedOut /\ j.generation > 0
  <2> DEFINE a == Resume(t, p, fresh)
  <2>1. q = Kept(s, CredStep, a)
    BY <1>8, <1>3 DEF HandOut
  <2>2. Mints(a, t, fresh)
    <3>1. CASE p.status # "disabled" /\ Resumable(t)
      <4> DEFINE u == [status |-> "provisioning", billing |-> "active", key |-> fresh]
      <4>1. a = [ok |-> TRUE, tenant |-> u, status |-> "provisioning", key |-> fresh, minted |-> TRUE]
        BY <3>1 DEF Resume, Resumable, Answer
      <4>2. u \in Tenant /\ u.key = fresh /\ u.status = "provisioning"
        BY DEF Tenant, TenantStatus
      <4> HIDE DEF u
      <4> QED
        BY <4>1, <4>2 DEF Mints, AnswerType, TenantStatus, Running
    <3>2. CASE /\ ~(p.status # "disabled" /\ Resumable(t))
               /\ p.status # "disabled" /\ t.status = "provisioning" /\ t.billing = "active"
      <4>1. a = ReissueAs(t, t, fresh)
        BY <3>2 DEF Resume
      <4> QED
        BY <4>1, ReissueAsIs, TenantAnswers
    <3>3. CASE /\ ~(p.status # "disabled" /\ Resumable(t))
               /\ ~(p.status # "disabled" /\ t.status = "provisioning" /\ t.billing = "active")
      BY <3>3 DEF Resume, Mints
    <3> QED
      BY <3>1, <3>2, <3>3
  <2> HIDE DEF a
  <2> QED
    BY <2>1, <2>2, <1>1, <1>8, <1>3, MintsServes, KeptExecutes
<1>9. CASE s # {} /\ ~handedOut /\ j.generation = 0
  <2> DEFINE a == ReissueAs(t, p, fresh)
  <2>1. q = Kept(s, CredStep, a)
    BY <1>9 DEF HandOut
  <2>2. Mints(a, t, fresh) /\ (a.ok => t.status \in Running)
    BY <1>2, <1>9, ReissueAsIs
  <2> HIDE DEF a
  <2> QED
    BY <2>1, <2>2, <1>1, MintsServes, KeptExecutes DEF Running, OffStates
<1> QED
  BY <1>3, <1>4, <1>5, <1>6, <1>7, <1>8, <1>9

\* ProviderDriver.executeStep, for whatever step is next.
LEMMA executeStepIs ==
  ASSUME NEW j \in Job, j.completed + 1 \in Step,
         NEW t \in Tenant, NEW fresh \in Key, NEW handedOut \in BOOLEAN,
         NEW s \in SUBSET Snapshot, s # {} => Latest(s) # {}
  PROVE  Executed(executeStep(j, handedOut, s, t, fresh), j, handedOut, t, fresh)
<1> DEFINE q == executeStep(j, handedOut, s, t, fresh)
           step == j.completed + 1
<1>1. CredStep # LastStep /\ LastStep \in Step
  BY Constants
<1>2. Executed(Rejected(t), j, handedOut, t, fresh)
  BY RefusedServes DEF Executed, Rejected
<1>3. CASE step \notin {CredStep, LastStep}
  <2>1. q = Untouched(t)
    BY <1>3 DEF executeStep
  <2>2. q.answer = [ok |-> TRUE, tenant |-> t, status |-> t.status, key |-> t.key, minted |-> FALSE]
        /\ q.snap = {}
    BY <2>1 DEF Untouched, Answer
  <2>3. Executed(q, j, handedOut, t, fresh)
    <3> HIDE DEF q
    <3> QED
      BY <1>3, <2>2, TenantAnswers DEF Executed, Served, AnswerType
  <2> QED
    BY <2>3
<1>4. CASE step \in {CredStep, LastStep} /\ Ambiguous(s)
  <2>1. q = Rejected(t)
    BY <1>4 DEF executeStep
  <2> QED
    BY <2>1, <1>2
<1>5. CASE step = CredStep /\ ~Ambiguous(s)
  <2>1. q = HandOut(j, handedOut, s, t, fresh)
    BY <1>1, <1>5 DEF executeStep
  <2> QED
    BY <2>1, <1>5, HandOutIs
<1>6. CASE step = LastStep /\ ~Ambiguous(s) /\ s = {}
  <2>1. q = Rejected(t)
    BY <1>1, <1>6 DEF executeStep
  <2> QED
    BY <2>1, <1>2
<1>7. CASE step = LastStep /\ ~Ambiguous(s) /\ s # {}
  <2> DEFINE p == Prior(s)
             a == MarkReady(t, p)
  <2>1. q = Kept(s, LastStep, a)
    BY <1>1, <1>7 DEF executeStep
  <2>2. p.key \in Key
    BY <1>7, LatestIs DEF Snapshot
  <2>3. Served(a, j, handedOut, t, fresh) /\ Keepable(a, j)
    <3>1. CASE p.status \in Running /\ MayBeReady(t)
      <4> DEFINE u == [t EXCEPT !.status = "ready"]
      <4>1. a = [ok |-> TRUE, tenant |-> u, status |-> "ready", key |-> p.key, minted |-> FALSE]
        BY <3>1 DEF MarkReady, Answer
      <4>2. u \in Tenant /\ u.key = t.key /\ u.status = "ready" /\ t.status \in Running
        BY <3>1 DEF Tenant, TenantStatus, MayBeReady
      <4> HIDE DEF u, a, p
      <4> QED
        BY <1>1, <1>7, <2>2, <4>1, <4>2 DEF Served, Keepable, AnswerType, Running, TenantStatus, OffStates
    <3>2. CASE ~(p.status \in Running /\ MayBeReady(t))
      BY <3>2, RefusedServes DEF MarkReady
    <3> QED
      BY <3>1, <3>2
  <2> HIDE DEF a
  <2> QED
    BY <1>1, <2>1, <2>3, KeptExecutes
<1> QED
  BY <1>3, <1>4, <1>5, <1>6, <1>7

\* A tenant that is turned off is off, and what is off stays so.
StaysOff(u, t) ==
  /\ t.status = "disabled" => u.status = "disabled"
  /\ t.status = "suspended" => u.status \in OffStates

LEMMA OffIs ==
  ASSUME NEW t \in Tenant, NEW target \in {"suspended", "disabled"}
  PROVE  LET u == Off(t, BillingOf(target)) IN
         /\ u \in Tenant /\ StaysOff(u, t)
         /\ u.status \in OffStates /\ (target = "disabled" => u.status = "disabled")
<1> DEFINE b == BillingOf(target)
           u == Off(t, b)
           d == IF t.status = "disabled" \/ "canceled" \in {t.billing, b} THEN "disabled" ELSE "suspended"
           c == IF t.billing = "canceled" THEN "canceled" ELSE b
<1>1. b \in {"past_due", "canceled"} /\ (target = "disabled" => b = "canceled")
  BY DEF BillingOf
<1>2. u = [status |-> d, billing |-> c, key |-> NoKey]
  BY DEF Off
<1>3. d \in OffStates /\ (t.status = "disabled" => d = "disabled") /\ (b = "canceled" => d = "disabled")
  BY DEF OffStates
<1>4. c \in {"active", "past_due", "canceled"} /\ NoKey \in Key
  BY <1>1 DEF NoKey, Key
<1> HIDE DEF d, c, b
<1> QED
  BY <1>1, <1>2, <1>3, <1>4 DEF Tenant, TenantStatus, OffStates, StaysOff, b

\* What undoing a step may get from the tenant, seen from the snapshots s of it.
Undone(r, billing, s, t) ==
  /\ r.answer \in AnswerType /\ StaysOff(r.answer.tenant, t)
  /\ r.snap \subseteq Snapshot /\ (r.snap = {} \/ Latest(r.snap) # {})
  /\ AllActive(r.snap)
  /\ (\A x \in s : Right(x, t)) /\ (~AllActive(s) => OffAtLast(s)) /\ r.answer.ok =>
       /\ r.answer.tenant.status \in OffFor(Target(billing))
       /\ \A x \in r.snap : Right(x, r.answer.tenant)
       /\ OffAtLast(Put(s, r.snap))

LEMMA PutNothing ==
  ASSUME NEW s
  PROVE  Put(s, {}) = s
  BY DEF Put

\* A tenant that the snapshots know, and that is still on.
LEMMA TurnOffIs ==
  ASSUME NEW s \in SUBSET Snapshot, s # {}, Latest(s) # {}, NEW step \in Step, NEW t \in Tenant,
         NEW billing, StillOn(s, Target(billing))
  PROVE  Undone(Kept(s, step, TurnOff(t, Prior(s), Target(billing))), billing, s, t)
<1> DEFINE p == Prior(s)
           target == Target(billing)
           a == TurnOff(t, p, target)
           r == Kept(s, step, a)
           u == Off(t, BillingOf(target))
<1> SUFFICES Undone(r, billing, s, t)
  OBVIOUS
<1>1. target \in {"suspended", "disabled"} /\ target \in OffStates
  BY DEF Target, OffStates
<1>2. p \in Snapshot /\ p.key \in Key /\ p.g \in Nat /\ \A x \in s : x.g <= p.g
  BY LatestIs DEF Snapshot
<1>3. CASE t.status = "absent" \/ (target = "suspended" /\ p.status = "disabled")
  <2>1. a = Refused(t)
    BY <1>3 DEF TurnOff
  <2>2. a \in AnswerType /\ ~a.ok /\ a.tenant = t
    BY <2>1, TenantAnswers
  <2>3. r.answer = a /\ r.snap = {}
    BY <2>2 DEF Kept
  <2> HIDE DEF a, r
  <2> QED
    BY <2>2, <2>3 DEF Undone, StaysOff, AllActive, OffStates
<1>4. CASE ~(t.status = "absent" \/ (target = "suspended" /\ p.status = "disabled"))
  <2>1. a = [ok |-> TRUE, tenant |-> u, status |-> target, key |-> p.key, minted |-> FALSE]
    BY <1>4 DEF TurnOff, Answer
  <2>2. /\ u \in Tenant /\ StaysOff(u, t)
        /\ u.status \in OffStates /\ (target = "disabled" => u.status = "disabled")
    BY <1>1, OffIs
  <2> HIDE DEF u, target
  <2>3. a \in AnswerType /\ a.ok /\ a.tenant = u /\ a.status = target /\ a.key = p.key
        /\ a.status # "absent"
    BY <1>1, <1>2, <2>1, <2>2 DEF AnswerType, TenantStatus
  <2> HIDE DEF a
  <2> DEFINE x == Snap(s, step, a)
  <2>4. r.answer = a /\ r.snap = {x} /\ x \in Snapshot /\ x.active /\ x.status = target
    BY <2>3, KeptIs, SnapIs
  <2>5. x.g = p.g + 1
    <3>1. p.status # target
      BY DEF StillOn, target
    <3>2. NextGeneration(s, a.status, a.key) = p.g + 1
      BY <2>3, <3>1 DEF NextGeneration
    <3> QED
      BY <3>2 DEF Snap
  <2> HIDE DEF x, r
  <2>6. \A y \in Latest(Put(s, {x})) : y = x
    <3> SUFFICES ASSUME NEW y \in Latest(Put(s, {x})), y # x PROVE FALSE
      OBVIOUS
    <3>1. y \in s /\ x.g <= y.g
      BY DEF Latest, Put
    <3>2. y.g <= p.g /\ y.g \in Nat
      BY <3>1, <1>2 DEF Snapshot
    <3> QED
      BY <1>2, <2>5, <3>1, <3>2
  <2>7. OffAtLast(Put(s, r.snap))
    BY <1>1, <2>4, <2>6 DEF OffAtLast
  <2>8. u.status \in OffFor(target)
    BY <1>1, <2>2 DEF OffFor, OffStates
  <2>9. \A y \in r.snap : Right(y, u)
    BY <2>2, <2>4, <1>1 DEF Right
  <2>10. Latest(r.snap) # {} /\ AllActive(r.snap)
    BY <2>4, AloneIsLatest DEF AllActive
  <2> QED
    BY <2>2, <2>3, <2>4, <2>7, <2>8, <2>9, <2>10 DEF Undone, target
<1> QED
  BY <1>3, <1>4

\* A tenant that nothing is known of.
LEMMA TurnOffUnknownIs ==
  ASSUME NEW t \in Tenant, NEW billing
  PROVE  Undone([answer |-> TurnOffUnknown(t, Target(billing)), snap |-> {}], billing, {}, t)
<1> DEFINE target == Target(billing)
           a == TurnOffUnknown(t, target)
           u == Off(t, BillingOf(target))
           r == [answer |-> a, snap |-> {}]
<1> SUFFICES Undone(r, billing, {}, t)
  OBVIOUS
<1>1. target \in {"suspended", "disabled"} /\ target \in OffStates /\ NoKey \in Key
  BY DEF Target, OffStates, NoKey, Key
<1>2. OffAtLast(Put({}, {}))
  BY PutNothing DEF OffAtLast, Latest
<1>3. a \in AnswerType /\ StaysOff(a.tenant, t) /\ a.tenant.status \in OffFor(target)
  <2>1. CASE t.status = "absent"
    <3>1. a = [ok |-> TRUE, tenant |-> t, status |-> "absent", key |-> NoKey, minted |-> FALSE]
      BY <2>1 DEF TurnOffUnknown, Answer
    <3> HIDE DEF a, target
    <3> QED
      BY <1>1, <2>1, <3>1 DEF AnswerType, TenantStatus, StaysOff, OffFor
  <2>2. CASE t.status # "absent"
    <3>1. a = [ok |-> TRUE, tenant |-> u, status |-> target, key |-> NoKey, minted |-> FALSE]
      BY <2>2 DEF TurnOffUnknown, Answer
    <3>2. /\ u \in Tenant /\ StaysOff(u, t)
          /\ u.status \in OffStates /\ (target = "disabled" => u.status = "disabled")
      BY <1>1, OffIs
    <3> HIDE DEF a, u, target
    <3> QED
      BY <1>1, <3>1, <3>2 DEF AnswerType, TenantStatus, OffFor, OffStates
  <2> QED
    BY <2>1, <2>2
<1> HIDE DEF a
<1> QED
  BY <1>2, <1>3 DEF Undone, AllActive

\* ProviderDriver.compensateStep, for whatever step is next to be undone.
LEMMA compensateStepIs ==
  ASSUME NEW j \in Job, Uncompensated(j) # {}, NEW billing, NEW t \in Tenant,
         NEW s \in SUBSET Snapshot, s # {} => Latest(s) # {}
  PROVE  Undone(compensateStep(j, billing, s, t), billing, s, t)
<1> DEFINE target == Target(billing)
           step == NextCompensation(j)
           r == compensateStep(j, billing, s, t)
<1> SUFFICES Undone(r, billing, s, t)
  OBVIOUS
<1>1. step \in Step
  BY NextCompensationStep
<1>0. Ambiguous(s) => s # {}
  BY DEF Ambiguous, Latest
<1>2. CASE Ambiguous(s)
  <2>1. r = Rejected(t)
    BY <1>0, <1>2 DEF compensateStep
  <2>2. r.answer = Refused(t) /\ r.snap = {}
    BY <2>1 DEF Rejected
  <2>3. r.answer \in AnswerType /\ ~r.answer.ok /\ r.answer.tenant = t
    BY <2>2, TenantAnswers
  <2> HIDE DEF r
  <2> QED
    BY <2>2, <2>3 DEF Undone, StaysOff, AllActive, OffStates
<1>3. CASE ~Ambiguous(s) /\ s = {}
  BY <1>3, TurnOffUnknownIs DEF compensateStep
<1>4. CASE ~Ambiguous(s) /\ s # {} /\ StillOn(s, target)
  <2>1. r = Kept(s, step, TurnOff(t, Prior(s), target))
    BY <1>4 DEF compensateStep
  <2> QED
    BY <1>1, <1>4, <2>1, TurnOffIs
<1>5. CASE ~Ambiguous(s) /\ s # {} /\ ~StillOn(s, target)
  <2> DEFINE p == Prior(s)
  <2>1. r = Untouched(t)
    BY <1>5 DEF compensateStep
  <2>2. r.answer = [ok |-> TRUE, tenant |-> t, status |-> t.status, key |-> t.key, minted |-> FALSE]
        /\ r.snap = {}
    BY <2>1 DEF Untouched, Answer
  <2>3. r.answer \in AnswerType /\ r.answer.tenant = t
    BY <2>2, TenantAnswers DEF AnswerType
  <2> HIDE DEF r
  <2>4. ASSUME \A x \in s : Right(x, t), ~AllActive(s) => OffAtLast(s)
        PROVE  t.status \in OffFor(target) /\ OffAtLast(s)
    <3>1. p \in s /\ p \in Latest(s)
      BY <1>5, LatestIs
    <3>2. p.status = target \/ (~AllActive(s) /\ p.status # "suspended")
      BY <1>5 DEF StillOn, AllActive
    <3>3. p.status = target \/ p.status = "disabled"
      BY <2>4, <3>1, <3>2 DEF OffAtLast, OffStates
    <3>4. target \in {"suspended", "disabled"}
      BY DEF Target
    <3>5. t.status \in OffFor(target)
      <4> HIDE DEF p, target
      <4> QED
        BY <2>4, <3>1, <3>3, <3>4 DEF Right, OffFor, OffStates
    <3>6. \A x \in Latest(s) : x.status = p.status
      BY <1>5, <3>1 DEF Ambiguous
    <3> QED
      BY <3>3, <3>4, <3>5, <3>6 DEF OffAtLast, OffStates
  <2> QED
    BY <2>2, <2>3, <2>4, PutNothing DEF Undone, StaysOff, AllActive, OffStates
<1> QED
  BY <1>2, <1>3, <1>4, <1>5

------------------------------------------------------------------------------
(***************************************************************************)
(* The snapshots in the store.                                             *)
(***************************************************************************)
\* There is a latest snapshot after another was put.
LEMMA PutIs ==
  ASSUME NEW s \in SUBSET Snapshot, s = {} \/ Latest(s) # {},
         NEW n \in SUBSET Snapshot, n = {} \/ Latest(n) # {}
  PROVE  /\ Put(s, n) \subseteq Snapshot /\ Put(s, n) \subseteq s \cup n
         /\ Put(s, n) = {} \/ Latest(Put(s, n)) # {}
<1> DEFINE q == Put(s, n)
<1>1. q \subseteq s \cup n /\ q \subseteq Snapshot /\ n \subseteq q
  BY DEF Put
<1>2. CASE n = {}
  BY <1>1, <1>2, PutNothing
<1>3. CASE n # {} /\ s = {}
  <2>1. q = n
    BY <1>3 DEF Put
  <2> QED
    BY <1>1, <1>3, <2>1
<1>4. CASE n # {} /\ s # {}
  <2>1. PICK x \in n : \A z \in n : z.g <= x.g
    BY <1>4 DEF Latest
  <2>2. PICK y \in s : \A z \in s : z.g <= y.g
    BY <1>4 DEF Latest
  <2>3. x.g \in Nat /\ y.g \in Nat /\ \A z \in q : z.g \in Nat
    BY <1>1 DEF Snapshot
  <2>4. CASE y.g <= x.g
    <3>1. \A z \in q : z.g <= x.g
      BY <1>1, <2>1, <2>2, <2>3, <2>4
    <3>2. x \in Latest(q)
      BY <1>1, <3>1 DEF Latest
    <3> QED
      BY <1>1, <3>2
  <2>5. CASE ~(y.g <= x.g)
    <3>1. \A z \in n : [y EXCEPT !.active = TRUE] # z
      <4> SUFFICES ASSUME NEW z \in n, [y EXCEPT !.active = TRUE] = z PROVE FALSE
        OBVIOUS
      <4>1. z.g = y.g
        BY DEF Snapshot
      <4> QED
        BY <2>1, <2>5, <4>1
    <3>2. y \in q
      BY <3>1 DEF Put
    <3>3. \A z \in q : z.g <= y.g
      BY <1>1, <2>1, <2>2, <2>3, <2>5
    <3>4. y \in Latest(q)
      BY <3>2, <3>3 DEF Latest
    <3> QED
      BY <1>1, <3>4
  <2> QED
    BY <2>4, <2>5
<1> QED
  BY <1>2, <1>3, <1>4

\* What is disposed of stays in the store: only that it is active is forgotten.
LEMMA DisposedIs ==
  ASSUME NEW s \in SUBSET Snapshot, s = {} \/ Latest(s) # {}, NEW step, NEW n
  PROVE  LET d == Disposed(s, step, n) IN
         /\ d \subseteq Snapshot /\ (d = {} \/ Latest(d) # {})
         /\ \A y \in d : \E x \in s : y.status = x.status
         /\ OffAtLast(s) => OffAtLast(d)
<1> DEFINE D(x) == IF x.step = step /\ x \notin n THEN [x EXCEPT !.active = FALSE] ELSE x
           d == Disposed(s, step, n)
<1>1. \A x \in s : D(x) \in Snapshot /\ D(x).g = x.g /\ D(x).status = x.status /\ x.g \in Nat
  BY DEF Snapshot
<1>2. d = {D(x) : x \in s}
  BY DEF Disposed
<1> HIDE DEF D, d
<1>3. d \subseteq Snapshot /\ \A y \in d : \E x \in s : y.status = x.status
  BY <1>1, <1>2
<1>4. \A x \in s : D(x) \in Latest(d) <=> x \in Latest(s)
  <2>1. SUFFICES ASSUME NEW x \in s PROVE D(x) \in Latest(d) <=> x \in Latest(s)
    OBVIOUS
  <2>2. D(x) \in d /\ \A z \in s : D(z) \in d
    BY <1>2
  <2>3. (\A y \in d : y.g <= D(x).g) <=> (\A z \in s : z.g <= x.g)
    BY <1>1, <1>2, <2>1, <2>2
  <2> QED
    BY <2>1, <2>2, <2>3 DEF Latest
<1>5. d = {} \/ Latest(d) # {}
  <2>1. CASE s = {}
    BY <1>2, <2>1
  <2>2. CASE Latest(s) # {}
    <3>1. PICK x \in Latest(s) : TRUE
      BY <2>2
    <3>2. x \in s
      BY <3>1 DEF Latest
    <3> QED
      BY <1>4, <3>1, <3>2
  <2> QED
    BY <2>1, <2>2
<1>6. OffAtLast(s) => OffAtLast(d)
  <2> SUFFICES ASSUME OffAtLast(s), NEW y \in Latest(d) PROVE y.status \in OffStates
    BY DEF OffAtLast
  <2>1. PICK x \in s : y = D(x)
    BY <1>2 DEF Latest
  <2>2. x \in Latest(s) /\ y.status = x.status
    BY <1>1, <1>4, <2>1
  <2> QED
    BY <2>2 DEF OffAtLast
<1> QED
  BY <1>3, <1>5, <1>6 DEF d

------------------------------------------------------------------------------
(***************************************************************************)
(* The steps of the holder upon the stores.                                *)
(***************************************************************************)
\* What the holder knows, in the middle of a step: the job is the one it has read, or
\* was turned to a compensation, or to an activation that has no pointer yet.
LEMMA HolderKnows ==
  ASSUME JInv, NEW e \in Event, w[e].phase \in Setting \cup Undoing
  PROVE  LET v == w[e]
             g == v.job.generation
         IN
         /\ v.leased /\ g \in Generation /\ g <= job.generation /\ job.generation \in Generation
         /\ v.phase \in Setting => /\ v.job.state = "running" /\ v.job.operation = "provisioning"
                                   /\ v.job.completed + 1 \in Step
         /\ v.phase \in Undoing => /\ v.job.state = "compensating" /\ v.job.operation # "provisioning"
                                   /\ Uncompensated(v.job) # {}
         /\ job.state \notin {"none", "ready"}
         /\ job.generation = g => job.state \in {"running", "compensating"}
         /\ job.operation = "provisioning" =>
              \/ job = v.job
              \/ /\ g < job.generation /\ job.state = "queued" /\ job.completed = 0
                 /\ handoff[job.generation].state = "none" /\ ~handoff[job.generation].bound
         /\ job.generation = 0 /\ job.operation = "provisioning" => v.job.operation = "provisioning"
<1> DEFINE v == w[e]
           g == v.job.generation
<1>1. /\ v \in Worker /\ v.job \in Job /\ Placed(v, job) /\ CopyOf(v, job) /\ Aside(v, job)
      /\ job \in Job /\ Whole(job, handoff, secrets, tenant)
  BY SelfOf DEF Stores
<1>2. v.phase \in Read /\ v.phase \in Loaded
  BY DEF Read, Loaded
<1>3. v.leased /\ Fine(v.job) /\ v.job.state \in {"running", "compensating"} /\ g <= job.generation
  BY <1>1, <1>2 DEF Placed, CopyOf
<1>4. job.generation \in Generation /\ Fine(job)
  BY <1>1 DEF Whole
<1>5. g \in Generation
  <2>1. g \in Nat /\ job.generation \in Nat
    BY <1>1 DEF Job
  <2> HIDE DEF g
  <2> QED
    BY <1>3, <1>4, <2>1, Constants
<1>6. ASSUME v.phase \in Setting
      PROVE  v.job.state = "running" /\ v.job.operation = "provisioning" /\ v.job.completed + 1 \in Step
  <2>1. v.job.operation = "provisioning" /\ v.job.state = "running"
    BY <1>1, <1>2, <1>3, <1>6 DEF CopyOf, Fine
  <2> QED
    BY <1>1, <1>3, <2>1, CompletedJob
<1>7. ASSUME v.phase \in Undoing
      PROVE  v.job.state = "compensating" /\ v.job.operation # "provisioning" /\ Uncompensated(v.job) # {}
  BY <1>1, <1>2, <1>3, <1>7 DEF CopyOf, Fine
<1>8. CASE v.job = job
  BY <1>3, <1>4, <1>5, <1>6, <1>7, <1>8
<1>9. CASE v.job # job
  <2>1. /\ job.state \in {"queued", "compensating", "disabled"}
        /\ job.operation = "provisioning" => g < job.generation
        /\ g = job.generation => job.state # "disabled"
    BY <1>1, <1>2, <1>3, <1>9 DEF Aside
  <2>2. job.operation = "provisioning" => job.state = "queued" /\ job.completed = 0
    BY <1>4, <2>1 DEF Fine
  <2>3. job.state = "queued" => job.operation = "provisioning"
    BY <1>4 DEF Fine
  <2>4. g = job.generation => job.state = "compensating"
    BY <2>1, <2>3, <1>3, <1>4, Constants
  <2>5. job.operation = "provisioning" =>
          handoff[job.generation].state = "none" /\ ~handoff[job.generation].bound
    BY <1>1, <1>4, <2>2 DEF Whole
  <2>6. job.generation = 0 => job.operation # "provisioning"
    BY <2>1, <1>5, Constants
  <2> QED
    BY <1>3, <1>4, <1>5, <1>6, <1>7, <2>1, <2>2, <2>4, <2>5, <2>6
<1> QED
  BY <1>8, <1>9

\* The tenant answers.
LEMMA StoresTenant ==
  ASSUME JInv, NEW e \in Event, w[e].phase \in Setting \cup Undoing, NEW t2 \in Tenant,
         job = w[e].job /\ job.operation = "provisioning" /\ handoff[job.generation].bound =>
           Turned(job.generation, handoff, t2),
         job.generation = 0 => StaysOff(t2, tenant)
  PROVE  Stores(job, handoff, secrets, snaps, t2)
<1>1. Stores(job, handoff, secrets, snaps, tenant)
  BY SelfOf
<1>2. Whole(job, handoff, secrets, t2)
  BY <1>1, HolderKnows DEF Stores, Whole
<1>3. First(job, snaps, t2)
  <2>1. SUFFICES ASSUME job.generation = 0 PROVE First(job, snaps, t2)
    BY DEF First
  <2>2. w[e].job.generation = 0
    BY <2>1, HolderKnows, Constants
  <2>3. job.state \in {"running", "compensating"}
    BY <2>1, <2>2, HolderKnows
  <2>4. \A x \in snaps : Right(x, t2)
    BY <1>1, <2>1 DEF Stores, First, Right, StaysOff, OffStates
  <2> QED
    BY <1>1, <2>1, <2>3, <2>4 DEF Stores, First
<1> QED
  BY <1>1, <1>2, <1>3 DEF Stores

\* The pointer of the holder's activation is written.
LEMMA StoresPointer ==
  ASSUME JInv, NEW e \in Event, w[e].phase \in Setting \cup Undoing, NEW p2 \in Pointer,
         p2.state = "none" => ~p2.bound,
         job = w[e].job /\ job.operation = "provisioning" =>
           /\ job.completed + 1 = CredStep
           /\ p2.bound => tenant.key = <<job.generation, p2.pub>> /\ tenant.status \in Running
  PROVE  LET g == w[e].job.generation IN
         /\ [handoff EXCEPT ![g] = p2][g] = p2
         /\ Stores(job, [handoff EXCEPT ![g] = p2], secrets, snaps, tenant)
<1> DEFINE g  == w[e].job.generation
           h2 == [handoff EXCEPT ![g] = p2]
<1>1. Stores(job, handoff, secrets, snaps, tenant) /\ job \in Job /\ w[e].job \in Job
  BY SelfOf
<1>2. /\ h2 \in [Generation -> Pointer] /\ h2[g] = p2
      /\ \A i \in Generation \ {g} : h2[i] = handoff[i]
  BY <1>1, HolderKnows DEF Stores
<1> HIDE DEF h2
<1>3. Whole(job, h2, secrets, tenant)
  <2>1. /\ Fine(job) /\ job.generation \in Generation /\ job.state # "none" /\ job.state # "ready"
        /\ g \in Generation /\ g <= job.generation
    BY <1>1, HolderKnows DEF Stores, Whole
  <2>2. \A i \in Generation : i > job.generation => h2[i] = NoPointer
    <3> SUFFICES ASSUME NEW i \in Generation, i > job.generation PROVE h2[i] = NoPointer
      OBVIOUS
    <3>1. i # g
      BY <2>1, Constants
    <3> QED
      BY <1>1, <1>2, <3>1 DEF Stores, Whole
  <2>3. \A i \in Generation : h2[i].state = "none" => ~h2[i].bound
    BY <1>1, <1>2 DEF Stores, Whole
  <2>4. CASE job.operation = "provisioning" /\ job = w[e].job
    <3>1. job.state = "running" /\ job.completed + 1 = CredStep
      BY <2>4, HolderKnows DEF Fine
    <3>2. ~(job.completed >= CredStep) /\ job.completed + 1 >= CredStep
      <4>1. job.completed \in Nat
        BY <1>1, Constants DEF Job
      <4> QED
        BY <3>1, <4>1
    <3>3. h2[g].bound => Turned(g, h2, tenant)
      BY <1>2, <2>4 DEF Turned
    <3> QED
      BY <2>1, <2>2, <2>3, <2>4, <3>1, <3>2, <3>3 DEF Whole
  <2>5. CASE job.operation = "provisioning" /\ job # w[e].job
    <3>1. job.generation # g
      BY <2>1, <2>5, HolderKnows, Constants
    <3>2. h2[job.generation] = handoff[job.generation]
      BY <1>2, <2>1, <3>1
    <3> QED
      BY <1>1, <2>1, <2>2, <2>3, <3>2 DEF Stores, Whole, Turned, Backed
  <2>6. CASE job.operation # "provisioning"
    <3>1. job.state = "disabled" => job.generation # g
      BY HolderKnows
    <3>2. job.state = "disabled" => h2[job.generation].state \in {"none", "revoked"}
      BY <1>1, <1>2, <2>1, <3>1 DEF Stores, Whole
    <3> QED
      BY <2>1, <2>2, <2>3, <2>6, <3>2 DEF Whole
  <2> QED
    BY <2>4, <2>5, <2>6
<1> QED
  BY <1>1, <1>2, <1>3 DEF Stores, h2

\* A secret is created.
LEMMA StoresSecret ==
  ASSUME JInv, NEW x \in Key
  PROVE  Stores(job, handoff, secrets \cup {x}, snaps, tenant)
  BY DEF JInv, Stores, Whole, Backed

\* The snapshots are written.
LEMMA StoresSnaps ==
  ASSUME JInv, NEW e \in Event, w[e].phase \in Setting \cup Undoing,
         NEW s2 \in SUBSET Snapshot, s2 = {} \/ Latest(s2) # {},
         job.generation = 0 =>
           /\ \A x \in s2 : Right(x, tenant)
           /\ ~AllActive(s2) => OffAtLast(s2)
           /\ w[e].job.operation = "provisioning" => AllActive(s2)
  PROVE  Stores(job, handoff, secrets, s2, tenant)
<1>1. Stores(job, handoff, secrets, snaps, tenant)
  BY SelfOf
<1>2. First(job, s2, tenant)
  BY <1>1, HolderKnows DEF Stores, First
<1> QED
  BY <1>1, <1>2 DEF Stores

\* The holder goes on to the next part of the step it is at, or has failed.
LEMMA HolderGoesOn ==
  ASSUME JInv, NEW e \in Event, w[e].phase \in Setting \cup Undoing,
         NEW v \in Worker, v.leased, v.job = w[e].job, v.billing = w[e].billing,
         \/ v.phase = "failing"
         \/ w[e].phase \in Setting /\ v.phase \in Setting
         \/ w[e].phase \in Undoing /\ v.phase \in Undoing
  PROVE  Placed(v, job) /\ CopyOf(v, job) /\ Aside(v, job)
<1>1. CopyOf(w[e], job) /\ Aside(w[e], job) /\ Placed(w[e], job)
  BY SelfOf
<1>2. Placed(v, job)
  BY <1>1 DEF Placed, Read, Loaded, Setting, Undoing
<1>3. CopyOf(v, job)
  BY <1>1 DEF CopyOf, Read, Loaded, Setting, Undoing
<1>4. Aside(v, job)
  BY <1>1, HolderKnows DEF Aside, Read, Loaded
<1> QED
  BY <1>2, <1>3, <1>4

\* The step failed, or a call of it threw: the tenant may have changed for all that.
LEMMA HolderFails ==
  ASSUME JInv, NEW e \in Event, w[e].phase \in Setting \cup Undoing, Onward(e),
         NEW retryable \in BOOLEAN, Failing(e, retryable),
         UNCHANGED <<job, lease, handoff, secrets, snaps>>,
         Stores(job, handoff, secrets, snaps, tenant')
  PROVE  JInv'
<1> DEFINE v == Gave(w[e], retryable)
<1>1. /\ v \in Worker /\ v.leased /\ v.phase = "failing" /\ v.job = w[e].job
      /\ v.billing = w[e].billing /\ w[e].leased
  <2>1. w[e] \in Worker /\ w[e].leased
    BY SelfOf, HolderKnows
  <2> QED
    BY <2>1, WorkerFailed
<1>2. Become(e, v)
  BY DEF Failing, Gave
<1> HIDE DEF v
<1>3. Placed(v, job) /\ CopyOf(v, job) /\ Aside(v, job)
  BY <1>1, HolderGoesOn
<1>4. Handing(v, handoff, secrets, tenant')
  BY <1>1 DEF Handing, Setting, Undoing
<1>5. FirstOf(v, job, snaps, tenant')
  BY <1>1, SelfOf DEF FirstOf, Read, Loaded
<1>6. Self(v, job, handoff', secrets', snaps', tenant')
  BY <1>3, <1>4, <1>5 DEF Self
<1> QED
  BY <1>1, <1>2, <1>6, HolderStep

\* The tenant's answer to the step under way leaves the stores as they should be.
LEMMA ExecutingAnswers ==
  ASSUME JInv, NEW e \in Event, w[e].phase = "executing"
  PROVE  /\ Executed(Answered(e), w[e].job, w[e].handedOut, tenant, Fresh(e))
         /\ Answered(e).answer.tenant \in Tenant
         /\ Stores(job, handoff, secrets, snaps, Answered(e).answer.tenant)
<1> DEFINE r == Answered(e)
           u == r.answer.tenant
           g == w[e].job.generation
<1>1. /\ w[e] \in Worker /\ w[e].job \in Job /\ g \in Generation
      /\ w[e].job.completed + 1 \in Step /\ w[e].job.operation = "provisioning"
      /\ Stores(job, handoff, secrets, snaps, tenant)
  BY SelfOf, HolderKnows DEF Setting
<1>2. Fresh(e) = <<g, handoff[g].pub>> /\ Fresh(e) \in Key
  BY <1>1, Constants DEF Fresh, Gen, Key, Stores, Pointer
<1>3. r = executeStep(w[e].job, w[e].handedOut, snaps, tenant, Fresh(e))
  BY DEF Answered
<1>4. Executed(r, w[e].job, w[e].handedOut, tenant, Fresh(e))
  BY <1>1, <1>2, <1>3, executeStepIs DEF Stores, Worker
<1> HIDE DEF r
<1>5. u \in Tenant /\ u.key \in {tenant.key, Fresh(e)}
      /\ (tenant.status \in Running => u.status \in Running)
      /\ (w[e].job.generation = 0 /\ tenant.status \in OffStates => u.status = tenant.status)
  BY <1>4 DEF Executed, Served, AnswerType
<1>6. job = w[e].job /\ handoff[g].bound => Turned(g, handoff, u)
  BY <1>1, <1>2, <1>5 DEF Stores, Whole, Turned
<1>7. job.generation = 0 => StaysOff(u, tenant)
  <2>1. g \in Nat /\ g <= job.generation
    BY HolderKnows, Constants DEF Setting
  <2>2. job.generation = 0 => g = 0
    BY <2>1
  <2> QED
    BY <1>5, <2>2 DEF StaysOff, OffStates
<1> QED
  BY <1>4, <1>5, <1>6, <1>7, StoresTenant DEF r, Setting

LEMMA UndoingAnswers ==
  ASSUME JInv, NEW e \in Event, w[e].phase = "undoing"
  PROVE  /\ Undone(Answered(e), w[e].billing, snaps, tenant)
         /\ Answered(e).answer.tenant \in Tenant
         /\ Stores(job, handoff, secrets, snaps, Answered(e).answer.tenant)
<1> DEFINE r == Answered(e)
           u == r.answer.tenant
<1>1. /\ w[e].job \in Job /\ w[e].job.operation # "provisioning" /\ Uncompensated(w[e].job) # {}
      /\ Stores(job, handoff, secrets, snaps, tenant)
  BY SelfOf, HolderKnows DEF Undoing
<1>2. r = compensateStep(w[e].job, w[e].billing, snaps, tenant)
  BY DEF Answered
<1>3. Undone(r, w[e].billing, snaps, tenant)
  BY <1>1, <1>2, compensateStepIs DEF Stores
<1> HIDE DEF r
<1>4. u \in Tenant /\ StaysOff(u, tenant)
  BY <1>3 DEF Undone, AnswerType
<1> QED
  BY <1>1, <1>3, <1>4, StoresTenant DEF r, Undoing

\* The tenant accepts the step: a snapshot of its answer is to be kept.
LEMMA CallDriverStep == ASSUME JInv, NEW e \in Event, CallDriver(e) PROVE JInv'
<1> DEFINE r == Answered(e)
           a == r.answer
           g == w[e].job.generation
<1>1. /\ w[e].phase \in {"executing", "undoing"} /\ tenant' = a.tenant
      /\ UNCHANGED <<job, lease, handoff, secrets, snaps>> /\ Rest /\ UNCHANGED faults
  BY DEF CallDriver
<1>2. w[e].phase \in Setting \cup Undoing /\ w[e].leased /\ w[e] \in Worker /\ Onward(e)
  BY <1>1, SelfOf, HolderKnows, Resting DEF Setting, Undoing
<1>3. Stores(job, handoff, secrets, snaps, a.tenant)
  BY <1>1, ExecutingAnswers, UndoingAnswers
<1>4. CASE ~a.ok
  <2>1. Failing(e, FALSE)
    BY <1>4 DEF CallDriver
  <2> HIDE DEF r
  <2> QED
    BY <1>1, <1>2, <1>3, <2>1, HolderFails
<1>5. CASE a.ok /\ w[e].phase = "executing"
  <2> DEFINE v == [w[e] EXCEPT !.snap = r.snap, !.minted = a.minted, !.phase = "persisting"]
  <2>1. Become(e, v)
    BY <1>5 DEF CallDriver
  <2>2. Executed(r, w[e].job, w[e].handedOut, tenant, Fresh(e))
    BY <1>5, ExecutingAnswers
  <2>3. Fresh(e) = <<g, handoff[g].pub>>
    BY DEF Fresh, Gen
  <2>4. r.snap = {} \/ Latest(r.snap) # {}
    BY <2>2 DEF Executed
  <2>5. v \in Worker /\ v.leased /\ v.phase = "persisting" /\ v.job = w[e].job
        /\ v.billing = w[e].billing /\ v.snap = r.snap /\ v.minted = a.minted
    BY <1>2, <2>2 DEF Worker, Phase, Executed, Served, AnswerType
  <2> HIDE DEF v, r
  <2>6. Placed(v, job) /\ CopyOf(v, job) /\ Aside(v, job)
    BY <1>2, <1>5, <2>5, HolderGoesOn DEF Setting
  <2>7. Handing(v, handoff, secrets, a.tenant)
    <3>1. Handing(w[e], handoff, secrets, tenant)
      BY SelfOf
    <3> QED
      BY <1>5, <2>2, <2>3, <2>4, <2>5, <3>1 DEF Handing, Executed, Served, Turned, Setting, Undoing
  <2>8. FirstOf(v, job, snaps, a.tenant)
    <3>1. FirstOf(w[e], job, snaps, tenant) /\ w[e].job.operation = "provisioning"
      BY <1>5, SelfOf, HolderKnows DEF Setting
    <3>2. job.generation = 0 => w[e].job.generation = 0
      BY <1>2, HolderKnows, Constants
    <3> QED
      BY <1>2, <1>5, <2>2, <2>5, <3>1, <3>2
         DEF FirstOf, Executed, AllActive, Right, Running, Read, Loaded, Setting
  <2>9. Self(v, job, handoff', secrets', snaps', tenant')
    BY <1>1, <2>6, <2>7, <2>8 DEF Self
  <2> QED
    BY <1>1, <1>2, <1>3, <2>1, <2>5, <2>9, HolderStep
<1>6. CASE a.ok /\ w[e].phase = "undoing"
  <2> DEFINE v == [w[e] EXCEPT !.snap = r.snap, !.minted = a.minted, !.phase = "keeping"]
  <2>1. Become(e, v)
    BY <1>6 DEF CallDriver
  <2>2. Undone(r, w[e].billing, snaps, tenant)
    BY <1>6, UndoingAnswers
  <2>3. v \in Worker /\ v.leased /\ v.phase = "keeping" /\ v.job = w[e].job
        /\ v.billing = w[e].billing /\ v.snap = r.snap
    BY <1>2, <2>2 DEF Worker, Phase, Undone, AnswerType
  <2> HIDE DEF v, r
  <2>4. Placed(v, job) /\ CopyOf(v, job) /\ Aside(v, job)
    BY <1>2, <1>6, <2>3, HolderGoesOn DEF Undoing
  <2>5. Handing(v, handoff, secrets, a.tenant)
    <3>1. Handing(w[e], handoff, secrets, tenant)
      BY SelfOf
    <3> QED
      BY <1>6, <2>2, <2>3, <3>1 DEF Handing, Undone, Setting, Undoing
  <2>6. FirstOf(v, job, snaps, a.tenant)
    <3>1. w[e].job.operation # "provisioning" /\ Stores(job, handoff, secrets, snaps, tenant)
      BY <1>6, SelfOf, HolderKnows DEF Undoing
    <3> QED
      BY <1>6, <2>2, <2>3, <3>1 DEF FirstOf, Undone, Stores, First
  <2>7. Self(v, job, handoff', secrets', snaps', tenant')
    BY <1>1, <2>4, <2>5, <2>6 DEF Self
  <2> QED
    BY <1>1, <1>2, <1>3, <2>1, <2>3, <2>7, HolderStep
<1> QED
  BY <1>1, <1>4, <1>5, <1>6

\* A call of a step throws.
LEMMA StepThrowsStep == ASSUME JInv, NEW e \in Event, StepThrows(e) PROVE JInv'
<1>1. /\ w[e].phase \in Setting \cup Undoing /\ Failing(e, TRUE) /\ Rest /\ Fault
      /\ UNCHANGED <<job, lease, handoff, secrets, snaps>>
      /\ tenant' = tenant \/ /\ w[e].phase \in {"executing", "undoing"}
                             /\ tenant' = Answered(e).answer.tenant
  BY DEF StepThrows, Working, Setting, Undoing
<1>2. Onward(e)
  BY <1>1, Resting DEF Setting, Undoing
<1>3. Stores(job, handoff, secrets, snaps, tenant')
  BY <1>1, SelfOf, ExecutingAnswers, UndoingAnswers
<1> QED
  BY <1>1, <1>2, <1>3, HolderFails

\* The holder takes a step to the next of its phases.
LEMMA HolderAdvances ==
  ASSUME JInv, NEW e \in Event, w[e].phase \in Setting \cup Undoing, Onward(e),
         NEW v \in Worker, v.leased, v.job = w[e].job, v.billing = w[e].billing, Become(e, v),
         \/ w[e].phase \in Setting /\ v.phase \in Setting
         \/ w[e].phase \in Undoing /\ v.phase \in Undoing,
         UNCHANGED <<job, lease, tenant>>,
         Stores(job, handoff', secrets', snaps', tenant),
         Handing(v, handoff', secrets', tenant), FirstOf(v, job, snaps', tenant)
  PROVE  JInv'
<1>1. Placed(v, job) /\ CopyOf(v, job) /\ Aside(v, job) /\ w[e].leased
  BY HolderGoesOn, HolderKnows
<1>2. Self(v, job, handoff', secrets', snaps', tenant')
  BY <1>1 DEF Self
<1>3. Stores(job, handoff', secrets', snaps', tenant')
  OBVIOUS
<1> QED
  BY <1>1, <1>2, <1>3, HolderStep

\* prepareCredentialHandoff.
LEMMA PrepareStep == ASSUME JInv, NEW e \in Event, Prepare(e) PROVE JInv'
<1> DEFINE g == w[e].job.generation
           h == handoff[g]
           v(done) == [w[e] EXCEPT !.phase = "executing", !.handedOut = done]
<1>1. w[e].phase = "preparing" /\ UNCHANGED <<job, lease, secrets, snaps, tenant>>
      /\ Rest /\ UNCHANGED faults
  BY DEF Prepare
<1>2. w[e].phase \in Setting \cup Undoing /\ w[e].phase \in Setting
      /\ w[e].leased /\ w[e] \in Worker /\ Onward(e) /\ g \in Generation
      /\ w[e].job.operation = "provisioning"
  BY <1>1, SelfOf, HolderKnows, Resting DEF Setting, Undoing
<1>3. ASSUME NEW done \in BOOLEAN
      PROVE  /\ v(done) \in Worker /\ v(done).leased /\ v(done).phase = "executing"
             /\ v(done).job = w[e].job /\ v(done).billing = w[e].billing
             /\ v(done).handedOut = done
  BY <1>2 DEF Worker, Phase
<1>4. Stores(job, handoff, secrets, snaps, tenant) /\ FirstOf(w[e], job, snaps, tenant)
      /\ handoff \in [Generation -> Pointer] /\ h \in Pointer
  BY <1>2, SelfOf DEF Stores
<1> HIDE DEF v
<1>5. \A done \in BOOLEAN : FirstOf(v(done), job, snaps, tenant)
  BY <1>2, <1>3, <1>4 DEF FirstOf, Read, Loaded, Setting
<1>6. CASE w[e].job.completed + 1 # CredStep /\ Become(e, v(FALSE)) /\ UNCHANGED handoff
  <2>1. Handing(v(FALSE), handoff, secrets, tenant)
    BY <1>3, <1>6 DEF Handing, Setting, Undoing
  <2> QED
    BY <1>1, <1>2, <1>3, <1>4, <1>5, <1>6, <2>1, HolderAdvances DEF Setting
<1>7. CASE /\ w[e].job.completed + 1 = CredStep /\ Verified(e) /\ Become(e, v(TRUE))
           /\ handoff' = [handoff EXCEPT ![g].state = "published"]
  <2> DEFINE p2 == [h EXCEPT !.state = "published"]
  <2>1. handoff' = [handoff EXCEPT ![g] = p2]
    BY <1>7
  <2>2. p2 \in Pointer /\ p2.state = "published" /\ p2.bound /\ p2.pub = h.pub
    BY <1>4, <1>7 DEF Pointer, Verified, Gen
  <2> HIDE DEF p2
  <2>3. job = w[e].job => tenant.key = <<g, p2.pub>> /\ tenant.status \in Running
    BY <1>2, <1>4, <1>7, <2>2 DEF Stores, Whole, Turned, Verified, Gen
  <2>4. handoff'[g] = p2 /\ Stores(job, handoff', secrets, snaps, tenant)
    <3>1. job = w[e].job =>
            /\ job.completed + 1 = CredStep
            /\ tenant.key = <<job.generation, p2.pub>> /\ tenant.status \in Running
      BY <1>7, <2>3
    <3> HIDE DEF g
    <3>2. [handoff EXCEPT ![g] = p2][g] = p2 /\ Stores(job, [handoff EXCEPT ![g] = p2], secrets, snaps, tenant)
      BY <1>2, <2>2, <3>1, StoresPointer, Zenon DEF g
    <3> QED
      BY <2>1, <3>2
  <2>5. Backed(g, handoff', secrets)
    BY <1>7, <2>2, <2>4 DEF Backed, Verified, Fresh, Gen
  <2>6. Handing(v(TRUE), handoff', secrets, tenant)
    BY <1>3, <2>2, <2>4, <2>5 DEF Handing, Setting, Undoing
  <2> QED
    BY <1>1, <1>2, <1>3, <1>5, <1>7, <2>4, <2>6, HolderAdvances DEF Setting
<1>8. CASE w[e].job.completed + 1 = CredStep /\ Failing(e, FALSE) /\ UNCHANGED handoff
  BY <1>1, <1>2, <1>4, <1>8, HolderFails
<1>9. CASE /\ w[e].job.completed + 1 = CredStep /\ Become(e, v(FALSE))
           /\ handoff' = [handoff EXCEPT ![g] =
                            [pub |-> h.pub + 1, state |-> "pending", bound |-> FALSE]]
  <2> DEFINE p2 == [pub |-> h.pub + 1, state |-> "pending", bound |-> FALSE]
  <2>1. handoff' = [handoff EXCEPT ![g] = p2]
    BY <1>9
  <2>2. p2 \in Pointer /\ p2.state = "pending" /\ ~p2.bound
    BY <1>4 DEF Pointer
  <2> HIDE DEF p2
  <2>3. handoff'[g] = p2 /\ Stores(job, handoff', secrets, snaps, tenant)
    <3>1. job = w[e].job => job.completed + 1 = CredStep
      BY <1>9
    <3> HIDE DEF g
    <3>2. [handoff EXCEPT ![g] = p2][g] = p2 /\ Stores(job, [handoff EXCEPT ![g] = p2], secrets, snaps, tenant)
      BY <1>2, <2>2, <3>1, StoresPointer, Zenon DEF g
    <3> QED
      BY <2>1, <3>2
  <2>4. Handing(v(FALSE), handoff', secrets, tenant)
    BY <1>3, <2>2, <2>3 DEF Handing, Setting, Undoing
  <2> QED
    BY <1>1, <1>2, <1>3, <1>5, <1>9, <2>3, <2>4, HolderAdvances DEF Setting
<1> QED
  BY <1>1, <1>6, <1>7, <1>8, <1>9, Zenon DEF Prepare, Gen, v

\* persistStepResources.
LEMMA PersistStep == ASSUME JInv, NEW e \in Event, Persist(e) PROVE JInv'
<1> DEFINE q == Put(snaps, w[e].snap)
           p == CASE w[e].phase = "keeping" -> "disposing"
                  [] w[e].phase = "persisting" /\ w[e].minted -> "binding"
                  [] OTHER -> "saving"
           v == [w[e] EXCEPT !.phase = p]
<1>1. /\ w[e].phase \in {"persisting", "keeping"} /\ snaps' = q /\ Become(e, v)
      /\ UNCHANGED <<job, lease, handoff, secrets, tenant>> /\ Rest /\ UNCHANGED faults
  BY DEF Persist, Goto
<1>2. /\ w[e].phase \in Setting \cup Undoing /\ w[e].leased /\ w[e] \in Worker /\ Onward(e)
      /\ job.generation = 0 => w[e].job.generation = 0
      /\ w[e].phase = "persisting" => w[e].job.operation = "provisioning"
      /\ w[e].phase = "keeping" => w[e].job.operation # "provisioning"
  BY <1>1, SelfOf, HolderKnows, Resting, Constants DEF Setting, Undoing
<1>3. p = IF w[e].phase = "keeping" THEN "disposing"
          ELSE IF w[e].minted THEN "binding" ELSE "saving"
  BY <1>1
<1> HIDE DEF p
<1>4. v \in Worker /\ v.leased /\ v.phase = p /\ v.job = w[e].job /\ v.billing = w[e].billing
  BY <1>2, <1>3 DEF Worker, Phase
<1> HIDE DEF v
<1>5. /\ Stores(job, handoff, secrets, snaps, tenant) /\ Handing(w[e], handoff, secrets, tenant)
      /\ FirstOf(w[e], job, snaps, tenant)
  BY SelfOf
<1>6. w[e].snap \subseteq Snapshot /\ (w[e].snap = {} \/ Latest(w[e].snap) # {})
  BY <1>1, <1>2, <1>5 DEF Handing, Worker
<1>7. q \subseteq Snapshot /\ q \subseteq snaps \cup w[e].snap /\ (q = {} \/ Latest(q) # {})
  BY <1>5, <1>6, PutIs DEF Stores
<1>8. ASSUME job.generation = 0
      PROVE  /\ \A x \in q : Right(x, tenant)
             /\ w[e].phase = "persisting" => AllActive(q)
             /\ w[e].phase = "keeping" => OffAtLast(q) /\ tenant.status \in OffFor(Target(w[e].billing))
  <2>1. \A x \in snaps : Right(x, tenant)
    BY <1>5, <1>8 DEF Stores, First
  <2>2. AllActive(w[e].snap) /\ \A x \in w[e].snap : Right(x, tenant)
    BY <1>1, <1>5, <1>8 DEF FirstOf
  <2>3. w[e].phase = "persisting" => AllActive(snaps)
    BY <1>2, <1>5, <1>8 DEF FirstOf, Read, Loaded, Setting
  <2>4. w[e].phase = "keeping" => OffAtLast(q) /\ tenant.status \in OffFor(Target(w[e].billing))
    BY <1>5, <1>8 DEF FirstOf
  <2> HIDE DEF q
  <2> QED
    BY <1>7, <2>1, <2>2, <2>3, <2>4 DEF AllActive
<1> HIDE DEF q
<1>9. Stores(job, handoff, secrets, q, tenant)
  BY <1>1, <1>2, <1>7, <1>8, StoresSnaps
<1>10. Handing(v, handoff, secrets, tenant)
  BY <1>1, <1>3, <1>4, <1>5 DEF Handing, Setting, Undoing
<1>11. FirstOf(v, job, q, tenant)
  BY <1>1, <1>2, <1>3, <1>4, <1>8 DEF FirstOf
<1> QED
  BY <1>1, <1>2, <1>3, <1>4, <1>9, <1>10, <1>11, HolderAdvances DEF Setting, Undoing

\* publishCredentialIfNeeded binds the pointer.
LEMMA BindStep ==
  ASSUME JInv, NEW e \in Event, w[e].phase = "binding", Onward(e),
         handoff' = [handoff EXCEPT ![Gen(e)].bound = TRUE], Goto(e, "storing"),
         UNCHANGED <<job, lease, secrets, snaps, tenant>>
  PROVE  JInv'
<1> DEFINE g  == w[e].job.generation
           p2 == [handoff[g] EXCEPT !.bound = TRUE]
           v  == [w[e] EXCEPT !.phase = "storing"]
<1>1. w[e].phase \in Setting \cup Undoing /\ w[e].leased /\ w[e] \in Worker /\ g \in Generation
      /\ w[e].phase \in Setting /\ w[e].job.operation = "provisioning"
  BY SelfOf, HolderKnows DEF Setting, Undoing
<1>2. /\ handoff \in [Generation -> Pointer]
      /\ Handing(w[e], handoff, secrets, tenant) /\ FirstOf(w[e], job, snaps, tenant)
  BY SelfOf DEF Stores
<1>3. /\ w[e].job.completed + 1 = CredStep /\ handoff[g].state # "none"
      /\ tenant.key = <<g, handoff[g].pub>> /\ tenant.status \in Running
  BY <1>2 DEF Handing, Turned, Setting
<1>4. p2 \in Pointer /\ p2.state = handoff[g].state /\ p2.pub = handoff[g].pub /\ p2.bound
  BY <1>1, <1>2 DEF Pointer
<1>5. handoff' = [handoff EXCEPT ![g] = p2]
  BY DEF Gen
<1>6. v \in Worker /\ v.leased /\ v.phase = "storing" /\ v.job = w[e].job /\ v.billing = w[e].billing
  BY <1>1 DEF Worker, Phase
<1>7. Become(e, v)
  BY DEF Goto
<1> HIDE DEF p2, v
<1>8. handoff'[g] = p2 /\ Stores(job, handoff', secrets, snaps, tenant)
  <2>1. job = w[e].job => /\ job.completed + 1 = CredStep
                          /\ tenant.key = <<job.generation, p2.pub>> /\ tenant.status \in Running
    BY <1>3, <1>4
  <2>2. p2.state # "none"
    BY <1>3, <1>4
  <2> HIDE DEF g
  <2>3. [handoff EXCEPT ![g] = p2][g] = p2 /\ Stores(job, [handoff EXCEPT ![g] = p2], secrets, snaps, tenant)
    BY <1>1, <1>4, <2>1, <2>2, StoresPointer, Zenon DEF g
  <2> QED
    BY <1>5, <2>3
<1>9. Handing(v, handoff', secrets, tenant)
  BY <1>3, <1>4, <1>6, <1>8, Constants DEF Handing, Turned, Setting, Undoing
<1>10. FirstOf(v, job, snaps, tenant)
  BY <1>1, <1>2, <1>6 DEF FirstOf, Read, Loaded, Setting
<1> QED
  BY <1>1, <1>6, <1>7, <1>8, <1>9, <1>10, HolderAdvances DEF Setting

\* It creates the secret.
LEMMA StoreSecretStep ==
  ASSUME JInv, NEW e \in Event, w[e].phase = "storing", Onward(e),
         secrets' = secrets \cup {Fresh(e)}, Goto(e, "publishing"),
         UNCHANGED <<job, lease, handoff, snaps, tenant>>
  PROVE  JInv'
<1> DEFINE g == w[e].job.generation
           v == [w[e] EXCEPT !.phase = "publishing"]
<1>1. w[e].phase \in Setting \cup Undoing /\ w[e].leased /\ w[e] \in Worker /\ g \in Generation
      /\ w[e].job.operation = "provisioning"
  BY SelfOf, HolderKnows DEF Setting, Undoing
<1>2. /\ handoff \in [Generation -> Pointer]
      /\ Handing(w[e], handoff, secrets, tenant) /\ FirstOf(w[e], job, snaps, tenant)
  BY SelfOf DEF Stores
<1>3. Fresh(e) = <<g, handoff[g].pub>> /\ Fresh(e) \in Key
  BY <1>1, <1>2, Constants DEF Fresh, Gen, Key, Pointer
<1>4. v \in Worker /\ v.leased /\ v.phase = "publishing" /\ v.job = w[e].job /\ v.billing = w[e].billing
  BY <1>1 DEF Worker, Phase
<1>5. Become(e, v)
  BY DEF Goto
<1> HIDE DEF v
<1>6. Stores(job, handoff, secrets', snaps, tenant)
  BY <1>3, StoresSecret
<1>7. Handing(v, handoff, secrets', tenant)
  BY <1>2, <1>3, <1>4 DEF Handing, Setting, Undoing
<1>8. FirstOf(v, job, snaps, tenant)
  BY <1>1, <1>2, <1>4 DEF FirstOf, Read, Loaded, Setting
<1> QED
  BY <1>1, <1>4, <1>5, <1>6, <1>7, <1>8, HolderAdvances DEF Setting

\* It publishes the pointer.
LEMMA PublishesStep ==
  ASSUME JInv, NEW e \in Event, w[e].phase = "publishing", Onward(e),
         handoff' = [handoff EXCEPT ![Gen(e)].state = "published"], Goto(e, "saving"),
         UNCHANGED <<job, lease, secrets, snaps, tenant>>
  PROVE  JInv'
<1> DEFINE g  == w[e].job.generation
           p2 == [handoff[g] EXCEPT !.state = "published"]
           v  == [w[e] EXCEPT !.phase = "saving"]
<1>1. w[e].phase \in Setting \cup Undoing /\ w[e].leased /\ w[e] \in Worker /\ g \in Generation
      /\ w[e].phase \in Setting /\ w[e].job.operation = "provisioning"
  BY SelfOf, HolderKnows DEF Setting, Undoing
<1>2. /\ handoff \in [Generation -> Pointer]
      /\ Handing(w[e], handoff, secrets, tenant) /\ FirstOf(w[e], job, snaps, tenant)
  BY SelfOf DEF Stores
<1>3. /\ w[e].job.completed + 1 = CredStep /\ handoff[g].bound
      /\ <<g, handoff[g].pub>> \in secrets
      /\ tenant.key = <<g, handoff[g].pub>> /\ tenant.status \in Running
  BY <1>2 DEF Handing, Turned
<1>4. p2 \in Pointer /\ p2.state = "published" /\ p2.pub = handoff[g].pub /\ p2.bound
  BY <1>1, <1>2, <1>3 DEF Pointer
<1>5. handoff' = [handoff EXCEPT ![g] = p2]
  BY DEF Gen
<1>6. v \in Worker /\ v.leased /\ v.phase = "saving" /\ v.job = w[e].job /\ v.billing = w[e].billing
  BY <1>1 DEF Worker, Phase
<1>7. Become(e, v)
  BY DEF Goto
<1> HIDE DEF p2, v
<1>8. handoff'[g] = p2 /\ Stores(job, handoff', secrets, snaps, tenant)
  <2>1. job = w[e].job => /\ job.completed + 1 = CredStep
                          /\ tenant.key = <<job.generation, p2.pub>> /\ tenant.status \in Running
    BY <1>3, <1>4
  <2>2. p2.state # "none"
    BY <1>4
  <2> HIDE DEF g
  <2>3. [handoff EXCEPT ![g] = p2][g] = p2 /\ Stores(job, [handoff EXCEPT ![g] = p2], secrets, snaps, tenant)
    BY <1>1, <1>4, <2>1, <2>2, StoresPointer, Zenon DEF g
  <2> QED
    BY <1>5, <2>3
<1>9. Handing(v, handoff', secrets, tenant)
  BY <1>3, <1>4, <1>6, <1>8, Constants DEF Handing, Backed, Setting, Undoing
<1>10. FirstOf(v, job, snaps, tenant)
  BY <1>1, <1>2, <1>6 DEF FirstOf, Read, Loaded, Setting
<1> QED
  BY <1>1, <1>6, <1>7, <1>8, <1>9, <1>10, HolderAdvances DEF Setting

\* publishCredentialIfNeeded.
LEMMA PublishStep == ASSUME JInv, NEW e \in Event, Publish(e) PROVE JInv'
<1>1. Rest /\ (UNCHANGED faults \/ Fault) /\ w[e].phase # "queued"
  BY DEF Publish
<1>2. Onward(e)
  BY <1>1, Resting, ZenonT(60)
<1> QED
  BY <1>2, BindStep, StoreSecretStep, PublishesStep DEF Publish

\* revokeCredentialHandoff.
LEMMA RevokeStep == ASSUME JInv, NEW e \in Event, Revoke(e) PROVE JInv'
<1> DEFINE g  == w[e].job.generation
           h  == handoff[g]
           p2 == IF h.state = "none" THEN h ELSE [h EXCEPT !.state = "revoked"]
           v  == [w[e] EXCEPT !.phase = "undoing"]
<1>1. /\ w[e].phase = "revoking" /\ Rest /\ UNCHANGED faults
      /\ UNCHANGED <<job, lease, secrets, snaps, tenant>>
      /\ handoff' = (IF h.state = "none" THEN handoff ELSE [handoff EXCEPT ![g].state = "revoked"])
      /\ Become(e, v)
  BY DEF Revoke, Gen, Goto
<1>2. /\ w[e].phase \in Setting \cup Undoing /\ w[e].leased /\ w[e] \in Worker /\ Onward(e)
      /\ g \in Generation /\ w[e].job.operation # "provisioning"
  BY <1>1, SelfOf, HolderKnows, Resting DEF Setting, Undoing
<1>3. /\ Stores(job, handoff, secrets, snaps, tenant) /\ handoff \in [Generation -> Pointer]
      /\ h \in Pointer /\ (h.state = "none" => ~h.bound)
  BY <1>2, SelfOf DEF Stores, Whole
<1>4. p2 \in Pointer /\ p2.state \in {"none", "revoked"} /\ (p2.state = "none" => ~p2.bound)
  BY <1>3 DEF Pointer
<1>5. handoff' = [handoff EXCEPT ![g] = p2]
  BY <1>1, <1>2, <1>3
<1>6. v \in Worker /\ v.leased /\ v.phase = "undoing" /\ v.job = w[e].job /\ v.billing = w[e].billing
  BY <1>2 DEF Worker, Phase
<1> HIDE DEF p2, v
<1>7. handoff'[g] = p2 /\ Stores(job, handoff', secrets, snaps, tenant)
  <2>1. ~(job = w[e].job /\ job.operation = "provisioning")
    BY <1>2
  <2> HIDE DEF g, h
  <2>2. [handoff EXCEPT ![g] = p2][g] = p2 /\ Stores(job, [handoff EXCEPT ![g] = p2], secrets, snaps, tenant)
    BY <1>2, <1>4, <2>1, StoresPointer, Zenon DEF g
  <2> QED
    BY <1>5, <2>2
<1>8. Handing(v, handoff', secrets, tenant)
  BY <1>4, <1>6, <1>7 DEF Handing, Setting, Undoing
<1>9. FirstOf(v, job, snaps, tenant)
  BY <1>2, <1>6 DEF FirstOf
<1> QED
  BY <1>1, <1>2, <1>6, <1>7, <1>8, <1>9, HolderAdvances DEF Undoing

\* applyCompensationDispositions.
LEMMA DisposeStep == ASSUME JInv, NEW e \in Event, Dispose(e) PROVE JInv'
<1> DEFINE d == Disposed(snaps, NextCompensation(w[e].job), w[e].snap)
           v == [w[e] EXCEPT !.phase = "checking"]
<1>1. /\ w[e].phase = "disposing" /\ Rest /\ UNCHANGED faults
      /\ UNCHANGED <<job, lease, handoff, secrets, tenant>>
      /\ snaps' = d /\ Become(e, v)
  BY DEF Dispose, Goto
<1>2. /\ w[e].phase \in Setting \cup Undoing /\ w[e].leased /\ w[e] \in Worker /\ Onward(e)
      /\ w[e].job.operation # "provisioning"
  BY <1>1, SelfOf, HolderKnows, Resting DEF Setting, Undoing
<1>3. /\ Stores(job, handoff, secrets, snaps, tenant) /\ Handing(w[e], handoff, secrets, tenant)
      /\ FirstOf(w[e], job, snaps, tenant)
  BY SelfOf
<1>4. /\ d \subseteq Snapshot /\ (d = {} \/ Latest(d) # {})
      /\ \A y \in d : \E x \in snaps : y.status = x.status
      /\ OffAtLast(snaps) => OffAtLast(d)
  BY <1>3, DisposedIs DEF Stores
<1>5. v \in Worker /\ v.leased /\ v.phase = "checking" /\ v.job = w[e].job /\ v.billing = w[e].billing
  BY <1>2 DEF Worker, Phase
<1> HIDE DEF d, v
<1>6. ASSUME job.generation = 0 PROVE OffAtLast(d) /\ \A y \in d : Right(y, tenant)
  <2>1. OffAtLast(d)
    BY <1>1, <1>3, <1>4, <1>6 DEF FirstOf
  <2>2. \A x \in snaps : Right(x, tenant)
    BY <1>3, <1>6 DEF Stores, First
  <2> QED
    BY <1>4, <2>1, <2>2 DEF Right
<1>7. Stores(job, handoff, secrets, d, tenant)
  BY <1>2, <1>4, <1>6, StoresSnaps
<1>8. Handing(v, handoff, secrets, tenant)
  BY <1>1, <1>3, <1>5 DEF Handing, Setting, Undoing
<1>9. FirstOf(v, job, d, tenant)
  BY <1>1, <1>2, <1>3, <1>5 DEF FirstOf
<1> QED
  BY <1>1, <1>2, <1>5, <1>7, <1>8, <1>9, HolderAdvances DEF Undoing

\* The worker dies, and with it everything it held but the lease.
LEMMA CrashStep == ASSUME JInv, NEW e \in Event, Crash(e) PROVE JInv'
<1>1. w[e].phase # "queued" /\ Rest /\ Fault /\ UNCHANGED <<job, handoff, secrets, snaps, tenant>>
      /\ lease' = (IF w[e].leased THEN "orphaned" ELSE lease) /\ Undelivered(e)
  BY DEF Crash, Active, Outside
<1>2. Onward(e)
  BY <1>1, Resting
<1> QED
  BY <1>1, <1>2, GivesUp DEF Undelivered

\* The lease of a dead worker runs out: nobody holds it.
LEMMA ExpireStep == ASSUME JInv, Expire PROVE JInv'
<1>1. /\ lease = "orphaned" /\ lease' = "free"
      /\ UNCHANGED <<scene, seen, deliveries, handoff, secrets, snaps, tenant, faults, job, w>>
  BY DEF Expire, Quiet, Rest, Outside
<1>2. Counted' /\ Received'
  BY <1>1 DEF JInv, Counted, Received
<1>3. OneHolder'
  BY <1>1 DEF JInv, OneHolder
<1>4. Stores(job, handoff, secrets, snaps, tenant)'
  BY <1>1 DEF JInv
<1>5. (\A e \in Event : Self(w[e], job, handoff, secrets, snaps, tenant))'
  BY <1>1 DEF JInv
<1>6. w' \in [Event -> Worker] /\ lease' \in {"free", "held", "orphaned"}
  BY <1>1 DEF JInv
<1> QED
  BY <1>2, <1>3, <1>4, <1>5, <1>6 DEF JInv

LEMMA InitStep == ASSUME Init PROVE JInv
<1>1. Counted /\ Received
  BY ScenesCount, DeliveriesAssumption DEF Init, Counted, Received, NoWorker
<1>2. \A e \in Event : w[e] = NoWorker("queued")
  BY DEF Init
<1>3. w \in [Event -> Worker] /\ \A e \in Event : w[e] \in Worker /\ ~w[e].leased /\ w[e].phase = "queued"
  <2>1. NoWorker("queued") \in Worker /\ ~NoWorker("queued").leased /\ NoWorker("queued").phase = "queued"
    BY Gone DEF Phase
  <2> QED
    BY <2>1 DEF Init
<1>4. OneHolder
  BY <1>3 DEF OneHolder
<1>5. Stores(job, handoff, secrets, snaps, tenant)
  <2>1. NoPointer \in Pointer /\ NoPointer.state = "none" /\ ~NoPointer.bound
    BY DEF NoPointer, Pointer
  <2>2. \A g \in Generation : handoff[g] = NoPointer
    BY DEF Init
  <2>3. handoff \in [Generation -> Pointer]
    BY <2>1 DEF Init
  <2>4. NoTenant \in Tenant /\ NoTenant.status = "absent"
    BY DEF NoTenant, Tenant, TenantStatus, NoKey, Key
  <2>5. job = NoJob /\ NoJob \in Job /\ Fine(NoJob) /\ NoJob.state = "none" /\ NoJob.generation = 0
        /\ NoJob.operation = "provisioning" /\ NoJob.completed = 0
    BY FirstJobs DEF Init
  <2>6. ~(0 >= CredStep)
    BY Constants
  <2>7. Whole(job, handoff, secrets, tenant)
    BY <2>1, <2>2, <2>5, <2>6, Constants DEF Whole
  <2>8. First(job, snaps, tenant)
    BY <2>4, <2>5 DEF Init, First, AllActive
  <2> QED
    BY <2>3, <2>4, <2>5, <2>7, <2>8 DEF Stores, Init
<1>6. ASSUME NEW e \in Event PROVE Self(w[e], job, handoff, secrets, snaps, tenant)
  <2>1. Placed(w[e], job) /\ CopyOf(w[e], job)
    BY <1>3, Fresh0 DEF Read, Loaded, Setting, Undoing
  <2> QED
    BY <1>3, <2>1, EmptyHanded
<1> QED
  BY <1>1, <1>3, <1>4, <1>5, <1>6 DEF JInv, Init

LEMMA NextStep == ASSUME JInv, [Next]_vars PROVE JInv'
<1>1. CASE UNCHANGED vars
  BY <1>1 DEF vars, stored, JInv, Counted, Received, OneHolder
<1>2. CASE Expire
  BY <1>2, ExpireStep
<1>3. ASSUME NEW e \in Event, Receive(e) \/ Proceed(e) \/ StepThrows(e) \/ Crash(e)
      PROVE  JInv'
  <2>1. CASE Receive(e)
    BY <2>1, ReceiveStep
  <2>2. CASE StepThrows(e)
    BY <2>2, StepThrowsStep
  <2>3. CASE Crash(e)
    BY <2>3, CrashStep
  <2>4. CASE Proceed(e)
    BY <2>4, FindJobStep, CreateStep, ResumeJobStep, ClaimStep, PeekStep, LoadOrderStep,
       LoadJobStep, ListResourcesStep, MoveJobStep, DecideStep, StartStep, FailStep, PrepareStep,
       CallDriverStep, PersistStep, PublishStep, SaveStepStep, RevokeStep, DisposeStep,
       SaveUndoneStep
       DEF Proceed
  <2> QED
    BY <1>3, <2>1, <2>2, <2>3, <2>4
<1> QED
  BY <1>1, <1>2, <1>3 DEF Next

------------------------------------------------------------------------------
(***************************************************************************)
(* The theorems.                                                           *)
(***************************************************************************)
\* The stores agree with the job, what the holder of the lease does agrees with
\* the stores, and whoever holds nothing has at most an old copy of the job.
THEOREM SagaInvariant == Spec => []JInv
<1>1. Init => JInv
  BY InitStep
<1>2. JInv /\ [Next]_vars => JInv'
  BY NextStep
<1> QED
  BY <1>1, <1>2, PTL DEF Spec

\* The state of the saga is well typed: no attempt beyond the retry policy, no step
\* beyond the last, no activation beyond those there are events for.
THEOREM SagaTypeCorrect == Spec => []TypeOK
<1>1. JInv => TypeOK
  BY DEF JInv, Counted, Stores, TypeOK
<1> QED
  BY <1>1, SagaInvariant, PTL

\* runProvisioningSteps: a job is ready only with the key its tenant accepts published
\* and its secret in the store, whatever was lost, repeated or started over, and
\* whoever met whom.
THEOREM ReadyIsBacked == Spec => []ReadyBacked
<1>1. ASSUME JInv PROVE ReadyBacked
  <2> DEFINE g == job.generation
  <2>1. SUFFICES ASSUME job.state = "ready"
                 PROVE  /\ handoff[g].state = "published"
                        /\ <<g, handoff[g].pub>> \in secrets
                        /\ tenant.key = <<g, handoff[g].pub>>
                        /\ tenant.status = "ready"
    BY DEF ReadyBacked
  <2>2. Fine(job) /\ job.operation = "provisioning" /\ Whole(job, handoff, secrets, tenant)
    BY <1>1, <2>1 DEF JInv, Stores, Whole, Fine
  <2>3. job.completed >= CredStep
    BY <2>1, <2>2, Constants DEF Fine
  <2> QED
    BY <2>1, <2>2, <2>3 DEF Whole, Backed, Turned
<1> QED
  BY <1>1, SagaInvariant, PTL

\* runCompensationSteps: a job is disabled only with the handoff of its activation
\* revoked and, as long as it was activated once only, its tenant off, for good after
\* a cancellation.
THEOREM DisabledMeansOff == Spec => []DisabledIsOff
<1>1. ASSUME JInv PROVE DisabledIsOff
  <2>1. SUFFICES ASSUME job.state = "disabled"
                 PROVE  /\ handoff[job.generation].state \in {"none", "revoked"}
                        /\ job.generation = 0 => TurnedOff
    BY DEF DisabledIsOff
  <2>2. Whole(job, handoff, secrets, tenant) /\ First(job, snaps, tenant)
    BY <1>1 DEF JInv, Stores
  <2>3. job.generation = 0 => TurnedOff
    BY <2>1, <2>2 DEF First, TurnedOff, OffFor, OffStates
  <2> QED
    BY <2>1, <2>2, <2>3 DEF Whole
<1> QED
  BY <1>1, SagaInvariant, PTL

------------------------------------------------------------------------------
(***************************************************************************)
(* Events that come in order.  One worker is under way at a time, and      *)
(* whoever starts finds the lease free: so it never has to look on (the    *)
(* phase "peeking"), and the job and the order are what it read            *)
(* (UpToDate).  That the tenant was not ended, and the job not moved to a  *)
(* compensation, but for a cancellation is part of the invariant, as the   *)
(* next step of a worker rests on it.                                      *)
(***************************************************************************)
\* Who knows what the order said when it was read.
Told == {"reduced", "creating", "fetching"} \cup Read

\* A tenant that is disabled for good, or will be by whatever turns it off.
Over(t) == t.status = "disabled" \/ t.billing = "canceled"

Canceled(s) == \E e \in s : Desired[e] = "canceled"

\* What the worker v, the only one under way, knows when j is the job, l the lease and
\* s the order.
UpToDate(v, j, l, s) ==
  /\ v.phase \in Told => v.billing = Billing(s)
  /\ v.phase \in Read => v.job = j
  /\ v.phase \in {"creating", "resuming"} => v.billing = "active"
  /\ v.phase \in {"listing", "moving"} => v.billing # "active"
  /\ v.phase = "creating" => j.state = "none"
  /\ v.phase = "resuming" => j.operation = "suspension"
  /\ v.phase # "peeking" /\ (~v.leased => l = "free")
  /\ v.phase \in {"claiming", "loading", "fetching"} \cup Loaded /\ Billing(s) = "active" =>
       j.operation = "provisioning"

\* Of the events that were delivered, at most one is not settled.
OneUnderWay ==
  /\ \A e \in Event : w[e].phase # "queued" => deliveries[e] # 0
  /\ \A e, f \in Event : e # f /\ deliveries[e] # 0 /\ deliveries[f] # 0 => Settled(e) \/ Settled(f)

InTurn ==
  scene.fifo =>
    /\ OneUnderWay
    /\ \A e \in Event : Active(e) => UpToDate(w[e], job, lease, seen)
    /\ job.operation = "compensation" => Canceled(seen)
    /\ Over(tenant) => Canceled(seen)

\* A job that is where the order s says.
CaughtUp(j, s) ==
  \/ Billing(s) = "active" /\ j.state = "ready"
  \/ Billing(s) # "active" /\ j.state = "none"
  \/ Billing(s) # "active" /\ j.state = "disabled" /\ j.operation = OperationOf(Billing(s))

Rightly == InTurn' /\ Acknowledged /\ StaysCompensated

LEMMA CanceledIs ==
  ASSUME NEW E \in SUBSET Event, E # {}
  PROVE  Billing(E) = "canceled" <=> Canceled(E)
<1>1. /\ Cardinality(Event) \in Nat /\ E \subseteq 1..Cardinality(Event)
      /\ Desired \in [Event -> {"active", "past_due", "canceled"}]
  BY EventAssumption, Constants
<1>2. E \in SUBSET (0..Cardinality(Event))
  <2>1. \A i \in 1..Cardinality(Event) : i \in 0..Cardinality(Event)
    BY <1>1
  <2> QED
    BY <1>1, <2>1
<1>3. \E e \in E : \A f \in E : f <= e
  BY <1>1, <1>2, Greatest
<1>4. (CHOOSE e \in E : \A f \in E : f <= e) \in E
  BY <1>3
<1> QED
  BY <1>4 DEF Billing, Canceled

\* What is known of the worker under way.
LEMMA TurnOf ==
  ASSUME JInv, InTurn, scene.fifo, NEW e \in Event, Active(e)
  PROVE  /\ w[e] \in Worker /\ w[e].job \in Job /\ job \in Job /\ Fine(job)
         /\ UpToDate(w[e], job, lease, seen) /\ CopyOf(w[e], job) /\ Placed(w[e], job)
         /\ seen # {} /\ seen \subseteq Event
         /\ Billing(seen) \in {"active", "past_due", "canceled"}
         /\ Billing(seen) = "canceled" <=> Canceled(seen)
         /\ job.operation = "compensation" => Canceled(seen)
         /\ Over(tenant) => Canceled(seen)
         /\ w[e].phase \in Read => w[e].job = job /\ Current(w[e].job)
<1>1. seen # {} /\ seen \subseteq Event
  BY DEF JInv, Received, Counted, Active
<1>2. /\ Billing(seen) \in {"active", "past_due", "canceled"}
      /\ Billing(seen) = "canceled" <=> Canceled(seen)
  BY <1>1, BillingType, CanceledIs
<1>3. UpToDate(w[e], job, lease, seen)
  BY DEF InTurn
<1>4. w[e].phase \in Read => w[e].job = job /\ Current(w[e].job)
  BY <1>3 DEF UpToDate, Current
<1> QED
  BY <1>1, <1>2, <1>3, <1>4, SelfOf DEF InTurn

\* A step of the worker under way.
LEMMA TurnGoesOn ==
  ASSUME JInv, InTurn, scene.fifo, NEW e \in Event, Active(e), NEW v \in Worker, Become(e, v), Rest,
         v.phase \notin {"queued", "done", "dead"} => UpToDate(v, job', lease', seen),
         v.phase = "done" => CaughtUp(job', seen),
         job'.operation = "compensation" => Canceled(seen),
         job.state # "none" /\ job.operation = "compensation" => job'.operation = "compensation",
         Over(tenant') => Canceled(seen)
  PROVE  Rightly
<1>1. /\ w'[e] = v /\ \A f \in Event \ {e} : w'[f] = w[f]
      /\ scene' = scene /\ seen' = seen /\ deliveries' = deliveries
  BY Became DEF JInv, Rest
<1>2. \A f \in Event \ {e} : ~Active(f) /\ (deliveries[f] # 0 => Settled(f))
  BY DEF InTurn, OneUnderWay, Active, Settled
<1>3. deliveries[e] # 0
  BY DEF InTurn, OneUnderWay, Active
<1>4. OneUnderWay'
  BY <1>1, <1>2, <1>3 DEF InTurn, OneUnderWay, Settled
<1>5. ASSUME NEW f \in Event, w'[f].phase \notin {"queued", "done", "dead"}
      PROVE  UpToDate(w'[f], job', lease', seen')
  <2>1. f = e
    BY <1>1, <1>2, <1>5 DEF Active
  <2> QED
    BY <1>1, <1>5, <2>1
<1>6. InTurn'
  <2>1. (\A f \in Event : Active(f) => UpToDate(w[f], job, lease, seen))'
    BY <1>5 DEF Active, UpToDate
  <2> QED
    BY <1>1, <1>4, <2>1 DEF InTurn
<1>7. Acknowledged
  BY <1>1 DEF Acknowledged, CaughtUp, Now
<1>8. StaysCompensated
  BY DEF StaysCompensated
<1> QED
  BY <1>6, <1>7, <1>8 DEF Rightly

\* One that changes neither job nor tenant.
LEMMA TurnQuiet ==
  ASSUME JInv, InTurn, scene.fifo, NEW e \in Event, Active(e), NEW v \in Worker, Become(e, v), Rest,
         UNCHANGED <<job, tenant>>,
         v.phase \notin {"queued", "done", "dead"} => UpToDate(v, job, lease', seen),
         v.phase = "done" => CaughtUp(job, seen)
  PROVE  Rightly
BY TurnGoesOn, TurnOf

LEMMA TurnFindJob ==
  ASSUME JInv, InTurn, scene.fifo, NEW e \in Event, FindJob(e)
  PROVE  Rightly
<1>1. /\ w[e].phase = "reduced" /\ Rest /\ UNCHANGED <<job, tenant, lease>>
  BY DEF FindJob, Quiet, Outside
<1>2. Active(e)
  BY <1>1 DEF Active
<1>3. /\ w[e] \in Worker /\ job \in Job /\ UpToDate(w[e], job, lease, seen)
      /\ w[e].billing = Billing(seen) /\ ~w[e].leased /\ lease = "free"
      /\ Billing(seen) \in {"active", "past_due", "canceled"}
      /\ job.operation = "compensation" => Billing(seen) = "canceled"
      /\ job.operation \in {"provisioning", "suspension", "compensation"}
  BY <1>1, <1>2, TurnOf DEF UpToDate, Told, Placed, Read, Loaded, Setting, Undoing, Job, Operation
<1>4. CASE w[e].billing # "active" /\ job.state = "none" /\ Acked(e)
  <2>1. NoWorker("done") \in Worker /\ NoWorker("done").phase = "done"
    BY Gone DEF Phase
  <2> QED
    BY <1>1, <1>2, <1>3, <1>4, <2>1, TurnQuiet DEF Acked, CaughtUp
<1>5. CASE w[e].billing # "active" /\ Become(e, [[w[e] EXCEPT !.job = job] EXCEPT !.phase = "listing"])
  <2> DEFINE v == [[w[e] EXCEPT !.job = job] EXCEPT !.phase = "listing"]
  <2>1. v \in Worker /\ v.phase = "listing" /\ v.job = job /\ v.billing = w[e].billing /\ ~v.leased
    BY <1>3 DEF Worker, Phase
  <2> HIDE DEF v
  <2>2. UpToDate(v, job, lease, seen)
    BY <1>3, <1>5, <2>1 DEF UpToDate, Loaded, Setting, Undoing
  <2> QED
    BY <1>1, <1>2, <1>5, <2>1, <2>2, TurnQuiet DEF v
<1>6. CASE w[e].billing = "active" /\ job.operation = "suspension"
           /\ Become(e, [[w[e] EXCEPT !.job = job] EXCEPT !.phase = "resuming"])
  <2> DEFINE v == [[w[e] EXCEPT !.job = job] EXCEPT !.phase = "resuming"]
  <2>1. v \in Worker /\ v.phase = "resuming" /\ v.job = job /\ v.billing = w[e].billing /\ ~v.leased
    BY <1>3 DEF Worker, Phase
  <2> HIDE DEF v
  <2>2. UpToDate(v, job, lease, seen)
    BY <1>3, <1>6, <2>1 DEF UpToDate, Loaded, Setting, Undoing
  <2> QED
    BY <1>1, <1>2, <1>6, <2>1, <2>2, TurnQuiet DEF v
<1>7. CASE w[e].billing = "active" /\ job.state = "none" /\ Goto(e, "creating")
  <2> DEFINE v == [w[e] EXCEPT !.phase = "creating"]
  <2>1. v \in Worker /\ v.phase = "creating" /\ v.billing = w[e].billing /\ ~v.leased
    BY <1>3 DEF Worker, Phase
  <2> HIDE DEF v
  <2>2. UpToDate(v, job, lease, seen)
    BY <1>3, <1>7, <2>1 DEF UpToDate, Read, Loaded, Setting, Undoing
  <2> QED
    BY <1>1, <1>2, <1>7, <2>1, <2>2, TurnQuiet DEF v, Goto
<1>8. CASE w[e].billing = "active" /\ job.operation # "suspension" /\ Goto(e, "claiming")
  <2> DEFINE v == [w[e] EXCEPT !.phase = "claiming"]
  <2>1. v \in Worker /\ v.phase = "claiming" /\ ~v.leased
    BY <1>3 DEF Worker, Phase
  <2> HIDE DEF v
  <2>2. UpToDate(v, job, lease, seen)
    BY <1>3, <1>8, <2>1 DEF UpToDate, Told, Read, Loaded, Setting, Undoing
  <2> QED
    BY <1>1, <1>2, <1>8, <2>1, <2>2, TurnQuiet DEF v, Goto
<1> QED
  BY <1>4, <1>5, <1>6, <1>7, <1>8 DEF FindJob

LEMMA TurnCreate ==
  ASSUME JInv, InTurn, scene.fifo, NEW e \in Event, Create(e)
  PROVE  Rightly
<1> DEFINE v == [w[e] EXCEPT !.phase = "claiming"]
<1>1. w[e].phase = "creating" /\ Rest /\ UNCHANGED <<tenant, lease>> /\ Become(e, v)
  BY DEF Create, Quiet, Outside, Goto
<1>2. Active(e)
  BY <1>1 DEF Active
<1>3. /\ w[e] \in Worker /\ UpToDate(w[e], job, lease, seen) /\ ~w[e].leased /\ lease = "free"
      /\ job.state = "none"
      /\ Over(tenant) => Canceled(seen)
  BY <1>1, <1>2, TurnOf DEF UpToDate, Placed, Read, Loaded, Setting, Undoing
<1>4. job'.operation = "provisioning"
  BY <1>3, FirstJobs DEF Create
<1>5. v \in Worker /\ v.phase = "claiming" /\ ~v.leased
  BY <1>3 DEF Worker, Phase
<1> HIDE DEF v
<1>6. UpToDate(v, job', lease, seen)
  BY <1>3, <1>4, <1>5 DEF UpToDate, Told, Read, Loaded, Setting, Undoing
<1> QED
  BY <1>1, <1>2, <1>3, <1>4, <1>5, <1>6, TurnGoesOn

LEMMA TurnResumeJob ==
  ASSUME JInv, InTurn, scene.fifo, NEW e \in Event, ResumeJob(e)
  PROVE  Rightly
<1> DEFINE v == NoWorker("claiming")
<1>1. w[e].phase = "resuming" /\ Rest /\ UNCHANGED <<tenant, lease>>
  BY DEF ResumeJob, Quiet, Outside
<1>2. Active(e)
  BY <1>1 DEF Active
<1>3. /\ w[e] \in Worker /\ w[e].job \in Job /\ UpToDate(w[e], job, lease, seen) /\ ~w[e].leased
      /\ lease = "free" /\ job.operation = "suspension" /\ Current(w[e].job)
      /\ Over(tenant) => Canceled(seen)
  BY <1>1, <1>2, TurnOf DEF UpToDate, Placed, Read, Loaded, Setting, Undoing
<1>4. job' = Saved(Resumed(w[e].job)) /\ Become(e, v)
  BY <1>3 DEF ResumeJob
<1>5. job'.operation = "provisioning"
  BY <1>3, <1>4, ResumedJob, SavedJob
<1>6. v \in Worker /\ v.phase = "claiming" /\ ~v.leased
  BY Gone DEF Phase
<1> HIDE DEF v
<1>7. UpToDate(v, job', lease, seen)
  BY <1>3, <1>5, <1>6 DEF UpToDate, Told, Read, Loaded, Setting, Undoing
<1> QED
  BY <1>1, <1>2, <1>3, <1>4, <1>5, <1>6, <1>7, TurnGoesOn

LEMMA TurnClaim ==
  ASSUME JInv, InTurn, scene.fifo, NEW e \in Event, Claim(e)
  PROVE  Rightly
<1> DEFINE n == NoWorker("loading")
           v == [n EXCEPT !.leased = TRUE]
<1>1. w[e].phase = "claiming" /\ Rest /\ UNCHANGED <<job, tenant>>
  BY DEF Claim, Quiet, Outside
<1>2. Active(e)
  BY <1>1 DEF Active
<1>3. UpToDate(w[e], job, lease, seen) /\ lease = "free"
  BY <1>1, <1>2, TurnOf DEF UpToDate, Placed, Read, Loaded, Setting, Undoing
<1>4. lease' = "held" /\ Become(e, v)
  BY <1>3 DEF Claim
<1>5. n \in Worker /\ n.phase = "loading"
  BY Gone DEF Phase
<1> HIDE DEF n
<1>6. v \in Worker /\ v.phase = "loading" /\ v.leased
  BY <1>5 DEF Worker
<1> HIDE DEF v
<1>7. UpToDate(v, job, lease', seen)
  BY <1>1, <1>3, <1>6 DEF UpToDate, Told, Read, Loaded, Setting, Undoing
<1> QED
  BY <1>1, <1>2, <1>4, <1>6, <1>7, TurnQuiet

LEMMA TurnPeek ==
  ASSUME JInv, InTurn, scene.fifo, NEW e \in Event, Peek(e)
  PROVE  Rightly
<1>1. w[e].phase = "peeking" /\ Active(e)
  BY DEF Peek, Active
<1> QED
  BY <1>1, TurnOf DEF UpToDate

LEMMA TurnLoadOrder ==
  ASSUME JInv, InTurn, scene.fifo, NEW e \in Event, LoadOrder(e)
  PROVE  Rightly
<1> DEFINE v == HasRead(w[e], Billing(seen))
<1>1. w[e].phase = "loading" /\ Rest /\ UNCHANGED <<job, tenant, lease>> /\ Become(e, v)
  BY DEF LoadOrder, Quiet, Outside, HasRead
<1>2. Active(e)
  BY <1>1 DEF Active
<1>3. /\ w[e] \in Worker /\ UpToDate(w[e], job, lease, seen) /\ w[e].leased
      /\ Billing(seen) \in {"active", "past_due", "canceled"}
  BY <1>1, <1>2, TurnOf DEF Placed
<1>4. v \in Worker /\ v.phase = "fetching" /\ v.leased /\ v.billing = Billing(seen)
  BY <1>3, WorkerHasRead
<1> HIDE DEF v
<1>5. UpToDate(v, job, lease, seen)
  BY <1>1, <1>3, <1>4 DEF UpToDate, Read, Loaded, Setting, Undoing
<1> QED
  BY <1>1, <1>2, <1>4, <1>5, TurnQuiet

LEMMA TurnLoadJob ==
  ASSUME JInv, InTurn, scene.fifo, NEW e \in Event, LoadJob(e)
  PROVE  Rightly
<1> DEFINE p == IF w[e].billing = "active" THEN "deciding" ELSE "listing"
           v == [w[e] EXCEPT !.job = job, !.tries = 1, !.phase = p]
<1>1. w[e].phase = "fetching" /\ Rest /\ UNCHANGED <<job, tenant, lease>> /\ Become(e, v)
  BY DEF LoadJob, Quiet, Outside
<1>2. Active(e)
  BY <1>1 DEF Active
<1>3. /\ w[e] \in Worker /\ job \in Job /\ UpToDate(w[e], job, lease, seen) /\ w[e].leased
  BY <1>1, <1>2, TurnOf DEF Placed
<1>4. p \in Phase /\ p \in {"deciding", "listing"} /\ (p = "deciding" <=> w[e].billing = "active")
  BY DEF Phase
<1> HIDE DEF p
<1>5. v \in Worker /\ v.phase = p /\ v.leased /\ v.billing = w[e].billing /\ v.job = job
  <2>1. 1 \in 1..3
    OBVIOUS
  <2> QED
    BY <1>3, <1>4, <2>1 DEF Worker
<1> HIDE DEF v
<1>6. UpToDate(v, job, lease, seen)
  BY <1>1, <1>3, <1>4, <1>5 DEF UpToDate, Told, Read, Loaded, Setting, Undoing
<1> QED
  BY <1>1, <1>2, <1>4, <1>5, <1>6, TurnQuiet

\* A step of a run that leaves the job alone.
LEMMA TurnWorks ==
  ASSUME JInv, InTurn, scene.fifo, NEW e \in Event, w[e].phase \in Loaded \cup {"listing"},
         NEW v \in Worker, v.phase \in (Loaded \ {"deciding"}) \cup {"moving"}, v.leased = w[e].leased,
         v.phase = "moving" <=> w[e].phase = "listing",
         v.job = w[e].job, v.billing = w[e].billing, Become(e, v), Rest, UNCHANGED <<job, lease>>,
         Over(tenant') => Canceled(seen)
  PROVE  Rightly
<1>1. Active(e)
  BY DEF Active, Loaded, Setting, Undoing
<1>2. UpToDate(w[e], job, lease, seen) /\ (job.operation = "compensation" => Canceled(seen))
  BY <1>1, TurnOf
<1>3. UpToDate(v, job, lease, seen)
  BY <1>2 DEF UpToDate, Told, Read, Loaded, Setting, Undoing
<1>4. v.phase \notin {"queued", "done", "dead"}
  BY DEF Loaded, Setting, Undoing
<1> QED
  BY <1>1, <1>2, <1>3, <1>4, TurnGoesOn

LEMMA TurnListResources ==
  ASSUME JInv, InTurn, scene.fifo, NEW e \in Event, ListResources(e)
  PROVE  Rightly
<1> DEFINE j    == w[e].job
           next == Compensating(j, Observed(j), OperationOf(w[e].billing))
<1>1. w[e].phase = "listing" /\ Rest /\ UNCHANGED <<job, tenant, lease>>
  BY DEF ListResources, Quiet, Outside
<1>2. Active(e)
  BY <1>1 DEF Active
<1>3. /\ w[e] \in Worker /\ j \in Job /\ UpToDate(w[e], job, lease, seen)
      /\ Fine(j) /\ j.state # "none"
      /\ Over(tenant) => Canceled(seen)
  BY <1>1, <1>2, TurnOf DEF CopyOf, Read
<1>4. OperationOf(w[e].billing) \in {"suspension", "compensation"}
  BY DEF OperationOf
<1>5. Observed(j) \in SUBSET Step /\ InFlight(j) \subseteq Observed(j)
  BY SelfOf DEF Observed, InFlight, Stores, Snapshot
<1>6. next \in Job
  BY <1>3, <1>4, <1>5, CompensatingJob
<1>7. \/ Goto(e, After(e))
      \/ Become(e, [w[e] EXCEPT !.next = next, !.phase = "moving"])
  BY DEF ListResources
<1> HIDE DEF next, j
<1>8. CASE Goto(e, After(e))
  <2> DEFINE p == After(e)
             v == [w[e] EXCEPT !.phase = p]
  <2>1. p \in Phase /\ p \in {"claiming", "deciding"} /\ (p = "deciding" <=> w[e].leased)
    BY <1>3 DEF After, Phase, Worker
  <2>2. Become(e, v)
    BY <1>8 DEF Goto
  <2> HIDE DEF p
  <2>3. v \in Worker /\ v.phase = p /\ v.leased = w[e].leased /\ v.job = j /\ v.billing = w[e].billing
    BY <1>3, <2>1 DEF Worker, j
  <2> HIDE DEF v
  <2>4. UpToDate(v, job, lease, seen)
    BY <1>1, <1>3, <2>1, <2>3 DEF UpToDate, Told, Read, Loaded, Setting, Undoing, j
  <2> QED
    BY <1>1, <1>2, <2>1, <2>2, <2>3, <2>4, TurnQuiet
<1>9. CASE Become(e, [w[e] EXCEPT !.next = next, !.phase = "moving"])
  <2> DEFINE v == [w[e] EXCEPT !.next = next, !.phase = "moving"]
  <2>1. v \in Worker /\ v.phase = "moving" /\ v.leased = w[e].leased /\ v.job = w[e].job
        /\ v.billing = w[e].billing
    BY <1>3, <1>6 DEF Worker, Phase
  <2> HIDE DEF v
  <2> QED
    BY <1>1, <1>3, <1>9, <2>1, TurnWorks DEF v
<1> QED
  BY <1>7, <1>8, <1>9

LEMMA TurnMoveJob ==
  ASSUME JInv, InTurn, scene.fifo, NEW e \in Event, MoveJob(e)
  PROVE  Rightly
<1> DEFINE k == w[e].next
           n == Saved(k)
           p == After(e)
           c == NoWorker(p)
           v == [c EXCEPT !.leased = w[e].leased, !.job = n, !.billing = w[e].billing,
                          !.conflicts = w[e].conflicts]
<1>1. w[e].phase = "moving" /\ Rest /\ UNCHANGED tenant
  BY DEF MoveJob, Quiet, Outside
<1>2. Active(e)
  BY <1>1 DEF Active
<1>3. /\ w[e] \in Worker /\ k \in Job /\ UpToDate(w[e], job, lease, seen) /\ Current(w[e].job)
      /\ Fine(k) /\ k.operation = OperationOf(w[e].billing)
      /\ w[e].billing = Billing(seen) /\ w[e].billing # "active"
      /\ Billing(seen) \in {"active", "past_due", "canceled"}
      /\ Billing(seen) = "canceled" <=> Canceled(seen)
      /\ job.operation = "compensation" => Canceled(seen)
      /\ Over(tenant) => Canceled(seen)
  BY <1>1, <1>2, TurnOf DEF CopyOf, Read, UpToDate, Told, NextOf, Worker
<1>4. job' = n /\ Become(e, v) /\ UNCHANGED lease
  BY <1>3 DEF MoveJob, PutJob
<1>5. n \in Job /\ n.operation = OperationOf(Billing(seen))
  BY <1>3, SavedJob
<1>6. p \in Phase /\ p \in {"claiming", "deciding"} /\ (p = "deciding" <=> w[e].leased)
  BY <1>3 DEF After, Phase, Worker
<1>7. c \in Worker /\ c.phase = p
  BY <1>6, Gone
<1> HIDE DEF c, n, p
<1>8. v \in Worker /\ v.phase = p /\ v.leased = w[e].leased /\ v.job = n /\ v.billing = w[e].billing
  BY <1>3, <1>5, <1>7 DEF Worker
<1> HIDE DEF v
<1>9. UpToDate(v, n, lease, seen)
  BY <1>1, <1>3, <1>6, <1>8 DEF UpToDate, Told, Read, Loaded, Setting, Undoing
<1>10. /\ job'.operation = "compensation" => Canceled(seen)
       /\ job.operation = "compensation" => job'.operation = "compensation"
  BY <1>3, <1>4, <1>5 DEF OperationOf
<1> QED
  BY <1>1, <1>2, <1>3, <1>4, <1>6, <1>8, <1>9, <1>10, TurnGoesOn

\* A run that ends, with the job as it was or saved.
LEMMA TurnFinishes ==
  ASSUME JInv, InTurn, scene.fifo, NEW e \in Event, w[e].phase \in Loaded,
         NEW ok \in BOOLEAN, Finish(e, ok), Rest, UNCHANGED tenant, job'.operation = job.operation,
         ok => job'.state \in {"ready", "disabled"} /\ Fine(job')
  PROVE  Rightly
<1>1. Active(e)
  BY DEF Active, Loaded, Setting, Undoing
<1>2. PICK p \in {"done", "dead", "queued"} : Become(e, NoWorker(p)) /\ (p = "done" => ok)
  BY DEF Finish, Acked, Undelivered
<1>3. NoWorker(p) \in Worker /\ NoWorker(p).phase = p
  BY Gone DEF Phase
<1>4. /\ UpToDate(w[e], job, lease, seen) /\ CopyOf(w[e], job) /\ w[e].job = job
      /\ w[e].billing = Billing(seen)
      /\ job.operation = "compensation" => Canceled(seen)
      /\ Over(tenant) => Canceled(seen)
  BY <1>1, TurnOf DEF UpToDate, Told, Read
<1>5. /\ Billing(seen) = "active" => job.operation = "provisioning"
      /\ Billing(seen) # "active" => job.operation = OperationOf(Billing(seen))
  BY <1>4 DEF UpToDate, CopyOf, Read
<1>6. p = "done" => CaughtUp(job', seen)
  BY <1>2, <1>5 DEF CaughtUp, Fine, OperationOf
<1> QED
  BY <1>1, <1>2, <1>3, <1>4, <1>6, TurnGoesOn

\* A run that saves what it has made of the job, and goes on.
LEMMA TurnPuts ==
  ASSUME JInv, InTurn, scene.fifo, NEW e \in Event, w[e].phase \in Loaded,
         NEW next \in Job, Fine(next), next.operation = job.operation,
         NEW p \in {"preparing", "revoking"}, PutJob(e, next, p), Rest, UNCHANGED <<lease, tenant>>
  PROVE  Rightly
<1> DEFINE n == Saved(next)
           c == NoWorker(p)
           v == [c EXCEPT !.leased = w[e].leased, !.job = n, !.billing = w[e].billing,
                          !.conflicts = w[e].conflicts]
<1>1. Active(e)
  BY DEF Active, Loaded, Setting, Undoing
<1>2. /\ w[e] \in Worker /\ w[e].leased /\ UpToDate(w[e], job, lease, seen)
      /\ w[e].billing = Billing(seen)
      /\ job.operation = "compensation" => Canceled(seen)
      /\ Over(tenant) => Canceled(seen)
  BY <1>1, TurnOf DEF UpToDate, Told, Read, Placed
<1>3. job' = n /\ Become(e, v)
  BY DEF PutJob
<1>4. n \in Job /\ n.operation = job.operation
  BY SavedJob
<1>5. c \in Worker /\ c.phase = p
  BY Gone DEF Phase
<1> HIDE DEF c, n
<1>6. v \in Worker /\ v.phase = p /\ v.leased /\ v.job = n /\ v.billing = w[e].billing
  BY <1>2, <1>4, <1>5 DEF Worker
<1> HIDE DEF v
<1>7. UpToDate(v, n, lease, seen)
  BY <1>2, <1>4, <1>6 DEF UpToDate, Told, Read, Loaded, Setting, Undoing
<1> QED
  BY <1>1, <1>2, <1>3, <1>4, <1>6, <1>7, TurnGoesOn

\* startProvisioningAttempt and failProvisioningAttempt stay within the operation, as do
\* the steps.
LEMMA TurnStart ==
  ASSUME JInv, InTurn, scene.fifo, NEW e \in Event, Start(e)
  PROVE  Rightly
<1> DEFINE k == Started(w[e].job)
           p == Work(w[e].job)
<1>1. w[e].phase = "starting" /\ SaveOr(e, k, p) /\ Rest /\ UNCHANGED tenant
  BY DEF Start, Quiet, Outside
<1>2. Active(e) /\ w[e].phase \in Loaded
  BY <1>1 DEF Active, Loaded
<1>3. /\ w[e].job = job /\ job \in Job /\ Fine(job) /\ Current(w[e].job)
      /\ job.state \in {"queued", "failed", "compensating"} /\ job.attempt < MaxAttempts
  BY <1>1, <1>2, TurnOf DEF CopyOf, Read
<1>4. k \in Job /\ Fine(k) /\ k.operation = job.operation
  BY <1>3, StartedJob
<1>5. p \in {"preparing", "revoking"}
  BY DEF Work
<1> HIDE DEF k, p
<1>6. PutJob(e, k, p) /\ UNCHANGED lease
  BY <1>1, <1>3, <1>5 DEF SaveOr, Phase
<1> QED
  BY <1>1, <1>2, <1>4, <1>5, <1>6, TurnPuts

LEMMA TurnFail ==
  ASSUME JInv, InTurn, scene.fifo, NEW e \in Event, Fail(e)
  PROVE  Rightly
<1> DEFINE k == Failed(w[e].job, w[e].retryable)
<1>1. w[e].phase = "failing" /\ SaveOr(e, k, "failed") /\ Rest /\ UNCHANGED tenant
  BY DEF Fail, Quiet, Outside
<1>2. Active(e) /\ w[e].phase \in Loaded
  BY <1>1 DEF Active, Loaded
<1>3. /\ w[e].job = job /\ job \in Job /\ Fine(job) /\ Current(w[e].job)
      /\ job.state \in {"running", "compensating"} /\ w[e].retryable \in BOOLEAN
  BY <1>1, <1>2, TurnOf DEF CopyOf, Read, Worker
<1>4. k \in Job /\ Fine(k) /\ k.operation = job.operation
  BY <1>3, FailedJob
<1> HIDE DEF k
<1>5. job' = Saved(k) /\ Finish(e, FALSE)
  BY <1>1, <1>3 DEF SaveOr, Phase
<1>6. job'.operation = job.operation
  BY <1>4, <1>5, SavedJob
<1> QED
  BY <1>1, <1>2, <1>5, <1>6, TurnFinishes

LEMMA TurnSaveStep ==
  ASSUME JInv, InTurn, scene.fifo, NEW e \in Event, SaveStep(e)
  PROVE  Rightly
<1> DEFINE k == StepCompleted(w[e].job)
           p == IF k.state = "ready" THEN "finished" ELSE "preparing"
<1>1. w[e].phase = "saving" /\ SaveOr(e, k, p) /\ Rest /\ UNCHANGED tenant
  BY DEF SaveStep, Quiet, Outside
<1>2. Active(e) /\ w[e].phase \in Loaded /\ w[e].phase \in Setting
  BY <1>1 DEF Active, Loaded, Setting
<1>3. /\ w[e].job = job /\ job \in Job /\ Fine(job) /\ Current(w[e].job)
      /\ job.state = "running" /\ job.operation = "provisioning"
  BY <1>2, TurnOf DEF CopyOf, Read, Fine
<1>4. k \in Job /\ Fine(k) /\ k.operation = job.operation
  BY <1>3, CompletedJob
<1> HIDE DEF k
<1>5. Saved(k).operation = job.operation /\ Saved(k).state = k.state /\ Fine(Saved(k))
  BY <1>4, SavedJob
<1>6. CASE k.state = "ready"
  <2>1. job' = Saved(k) /\ Finish(e, TRUE)
    BY <1>1, <1>3, <1>6 DEF SaveOr, Phase
  <2> QED
    BY <1>1, <1>2, <1>5, <1>6, <2>1, TurnFinishes
<1>7. CASE k.state # "ready"
  <2>1. PutJob(e, k, "preparing") /\ UNCHANGED lease
    BY <1>1, <1>3, <1>7 DEF SaveOr, Phase
  <2> QED
    BY <1>1, <1>2, <1>4, <2>1, TurnPuts
<1> QED
  BY <1>6, <1>7

LEMMA TurnSaveUndone ==
  ASSUME JInv, InTurn, scene.fifo, NEW e \in Event, SaveUndone(e)
  PROVE  Rightly
<1> DEFINE k == StepCompensated(w[e].job)
           p == IF k.state = "disabled" THEN "finished" ELSE "revoking"
<1>1. w[e].phase = "checking" /\ SaveOr(e, k, p) /\ Rest /\ UNCHANGED tenant
  BY DEF SaveUndone, Quiet, Outside
<1>2. Active(e) /\ w[e].phase \in Loaded /\ w[e].phase \in Undoing
  BY <1>1 DEF Active, Loaded, Undoing
<1>3. /\ w[e].job = job /\ job \in Job /\ Fine(job) /\ Current(w[e].job)
      /\ job.state = "compensating" /\ job.operation # "provisioning"
  BY <1>2, TurnOf DEF CopyOf, Read, Fine
<1>4. k \in Job /\ Fine(k) /\ k.operation = job.operation
  BY <1>3, CompensatedJob
<1> HIDE DEF k
<1>5. Saved(k).operation = job.operation /\ Saved(k).state = k.state /\ Fine(Saved(k))
  BY <1>4, SavedJob
<1>6. CASE k.state = "disabled"
  <2>1. job' = Saved(k) /\ Finish(e, TRUE)
    BY <1>1, <1>3, <1>6 DEF SaveOr, Phase
  <2> QED
    BY <1>1, <1>2, <1>5, <1>6, <2>1, TurnFinishes
<1>7. CASE k.state # "disabled"
  <2>1. PutJob(e, k, "revoking") /\ UNCHANGED lease
    BY <1>1, <1>3, <1>7 DEF SaveOr, Phase
  <2> QED
    BY <1>1, <1>2, <1>4, <2>1, TurnPuts
<1> QED
  BY <1>6, <1>7

LEMMA TurnDecide ==
  ASSUME JInv, InTurn, scene.fifo, NEW e \in Event, Decide(e)
  PROVE  Rightly
<1> DEFINE j == w[e].job
           p == IF Started(j) = j THEN Work(j) ELSE "starting"
           v == [w[e] EXCEPT !.phase = p]
<1>1. w[e].phase = "deciding" /\ Rest /\ UNCHANGED <<job, tenant>>
  BY DEF Decide, Quiet, Outside
<1>2. Active(e) /\ w[e].phase \in Loaded
  BY <1>1 DEF Active, Loaded
<1>3. /\ w[e] \in Worker /\ j = job /\ Fine(job)
      /\ Over(tenant) => Canceled(seen)
  BY <1>2, TurnOf DEF Read
<1>4. CASE \E ok \in BOOLEAN : Finish(e, ok) /\ (ok => job.state \in {"ready", "disabled"})
  BY <1>1, <1>2, <1>3, <1>4, TurnFinishes
<1>5. CASE Goto(e, p) /\ UNCHANGED lease
  <2>1. p \in {"preparing", "revoking", "starting"} /\ Become(e, v)
    BY <1>5 DEF Work, Goto
  <2> HIDE DEF p
  <2>2. /\ v \in Worker /\ v.phase = p /\ v.leased = w[e].leased /\ v.job = w[e].job
        /\ v.billing = w[e].billing
    BY <1>3, <2>1 DEF Worker, Phase
  <2> HIDE DEF v
  <2>3. v.phase \in (Loaded \ {"deciding"}) \cup {"moving"} /\ v.phase # "moving"
    BY <2>1, <2>2 DEF Loaded, Setting, Undoing
  <2> QED
    BY <1>1, <1>2, <1>3, <1>5, <2>1, <2>2, <2>3, TurnWorks
<1>6. \/ job.state \in {"ready", "disabled"} /\ Finish(e, TRUE)
      \/ Finish(e, FALSE)
      \/ Goto(e, p) /\ UNCHANGED lease
  BY <1>3 DEF Decide
<1> QED
  BY <1>4, <1>5, <1>6

\* No step of an activation makes an end of a tenant.
LEMMA executeStepEndsNothing ==
  ASSUME NEW j, NEW handedOut, NEW s, NEW t \in Tenant, NEW fresh \in Key,
         Over(executeStep(j, handedOut, s, t, fresh).answer.tenant)
  PROVE  Over(t)
<1> DEFINE q    == executeStep(j, handedOut, s, t, fresh)
           step == j.completed + 1
           p    == Prior(s)
           first == [status |-> "provisioning", billing |-> "active", key |-> fresh]
<1>1. \A k, a : Kept(s, k, a).answer = a
  BY DEF Kept
<1>2. Refused(t).tenant = t
  BY TenantAnswers
<1>3. Rejected(t).answer.tenant = t /\ Untouched(t).answer.tenant = t
  BY <1>2 DEF Rejected, Untouched, Answer
<1>4. ~Over(first)
  BY DEF Over
<1>5. Over(Reissue(t, fresh).tenant) => Over(t)
  BY <1>2 DEF Reissue, Answer, Over, Tenant
<1>6. \A r : Over(ReissueAs(t, r, fresh).tenant) => Over(t)
  <2> SUFFICES ASSUME NEW r, Over(ReissueAs(t, r, fresh).tenant) PROVE Over(t)
    OBVIOUS
  <2> DEFINE a == Reissue(t, fresh)
  <2>1. a \in AnswerType
    BY ReissueIs, TenantAnswers
  <2>2. [a EXCEPT !.status = r.status].tenant = a.tenant
    <3> HIDE DEF a
    <3> QED
      BY <2>1 DEF AnswerType
  <2> QED
    BY <1>2, <1>5, <2>2 DEF ReissueAs
<1>7. Over(ProvisionUnknown(t, fresh).tenant) => Over(t)
  BY <1>4, <1>5 DEF ProvisionUnknown, Answer
<1>8. Over(ProvisionKnown(t, p).tenant) => Over(t)
  <2>1. Over([t EXCEPT !.billing = "active"]) => Over(t)
    BY DEF Over, Tenant
  <2> QED
    BY <1>2, <2>1 DEF ProvisionKnown, Answer
<1>9. Over(MarkReady(t, p).tenant) => Over(t)
  <2>1. Over([t EXCEPT !.status = "ready"]) => Over(t)
    BY DEF Over, Tenant
  <2> QED
    BY <1>2, <2>1 DEF MarkReady, Answer
<1>10. Over(Resume(t, p, fresh).tenant) => Over(t)
  <2>1. CASE p.status # "disabled" /\ Resumable(t)
    <3>1. ~(t.status = "provisioning" /\ t.billing = "active")
      BY <2>1 DEF Resumable
    <3>2. Resume(t, p, fresh) = Answer(first, "provisioning", fresh, TRUE)
      BY <2>1, <3>1 DEF Resume
    <3> QED
      BY <1>4, <3>2 DEF Answer
  <2>2. CASE p.status # "disabled" /\ ~Resumable(t) /\ t.status = "provisioning" /\ t.billing = "active"
    BY <1>6, <2>2 DEF Resume
  <2>3. CASE ~(p.status # "disabled" /\ Resumable(t))
             /\ ~(p.status # "disabled" /\ t.status = "provisioning" /\ t.billing = "active")
    BY <1>2, <2>3 DEF Resume
  <2> QED
    BY <2>1, <2>2, <2>3
<1> HIDE DEF p
<1>11. Over(HandOut(j, handedOut, s, t, fresh).answer.tenant) => Over(t)
  <2>1. CASE s = {}
    BY <1>1, <1>7, <2>1 DEF HandOut
  <2>2. CASE s # {} /\ handedOut /\ j.generation > 0
    BY <1>1, <1>3, <2>2 DEF HandOut, Answer
  <2>3. CASE s # {} /\ handedOut /\ j.generation = 0 /\ ~(j.generation > 0)
    BY <1>1, <1>8, <2>3 DEF HandOut, p
  <2>4. CASE s # {} /\ ~handedOut /\ j.generation > 0
    BY <1>1, <1>10, <2>4 DEF HandOut, p
  <2>5. CASE /\ s # {} /\ ~(handedOut /\ j.generation > 0)
             /\ ~(handedOut /\ j.generation = 0) /\ ~(~handedOut /\ j.generation > 0)
    BY <1>1, <1>6, <2>5 DEF HandOut, p
  <2> QED
    BY <2>1, <2>2, <2>3, <2>4, <2>5
<1>12. CASE step \notin {CredStep, LastStep}
  BY <1>3, <1>12 DEF executeStep
<1>13. CASE step \in {CredStep, LastStep} /\ Ambiguous(s)
  BY <1>3, <1>13 DEF executeStep
<1>14. CASE step = CredStep /\ ~Ambiguous(s)
  BY <1>11, <1>14 DEF executeStep
<1>15. CASE step = LastStep /\ step # CredStep /\ ~Ambiguous(s)
  BY <1>1, <1>3, <1>9, <1>15 DEF executeStep, p
<1> QED
  BY <1>12, <1>13, <1>14, <1>15

\* Nor does undoing one, but for a cancellation.
LEMMA compensateStepSuspends ==
  ASSUME NEW j, NEW s, NEW t \in Tenant,
         Over(compensateStep(j, "past_due", s, t).answer.tenant)
  PROVE  Over(t)
<1> DEFINE p == Prior(s)
<1>1. Target("past_due") = "suspended" /\ BillingOf("suspended") = "past_due"
  BY DEF Target, BillingOf
<1>2. \A k, a : Kept(s, k, a).answer = a
  BY DEF Kept
<1>3. Refused(t).tenant = t
  BY TenantAnswers
<1>4. Rejected(t).answer.tenant = t /\ Untouched(t).answer.tenant = t
  BY <1>3 DEF Rejected, Untouched, Answer
<1>5. Over(Off(t, "past_due")) => Over(t)
  BY DEF Off, Over
<1>6. Over(TurnOff(t, p, "suspended").tenant) => Over(t)
  BY <1>1, <1>3, <1>5 DEF TurnOff, Answer
<1>7. Over(TurnOffUnknown(t, "suspended").tenant) => Over(t)
  BY <1>1, <1>5 DEF TurnOffUnknown, Answer
<1> HIDE DEF p
<1>8. CASE Ambiguous(s)
  BY <1>4, <1>8 DEF compensateStep, Ambiguous, Latest
<1>9. CASE ~Ambiguous(s) /\ s = {}
  BY <1>1, <1>7, <1>9 DEF compensateStep
<1>10. CASE ~Ambiguous(s) /\ s # {} /\ StillOn(s, "suspended")
  BY <1>1, <1>2, <1>6, <1>10 DEF compensateStep, p
<1>11. CASE ~Ambiguous(s) /\ s # {} /\ ~StillOn(s, "suspended")
  BY <1>1, <1>4, <1>11 DEF compensateStep
<1> QED
  BY <1>8, <1>9, <1>10, <1>11

\* What the tenant answers ends it only if the order says so, whoever hears the answer.
LEMMA TurnAnswers ==
  ASSUME JInv, InTurn, scene.fifo, NEW e \in Event, w[e].phase \in {"executing", "undoing"},
         Over(Answered(e).answer.tenant)
  PROVE  Canceled(seen)
<1>1. Active(e)
  BY DEF Active
<1>2. /\ w[e] \in Worker /\ w[e].job \in Job
      /\ Over(tenant) => Canceled(seen)
      /\ w[e].billing = Billing(seen) /\ Billing(seen) \in {"active", "past_due", "canceled"}
      /\ Billing(seen) = "canceled" <=> Canceled(seen)
      /\ Billing(seen) = "active" => job.operation = "provisioning"
      /\ w[e].job = job
  BY <1>1, TurnOf DEF UpToDate, Told, Read, Loaded, Setting, Undoing
<1>3. tenant \in Tenant
  BY SelfOf DEF Stores
<1>4. CASE w[e].phase = "executing"
  <2>1. Fresh(e) \in Key
    <3>1. w[e].job.generation \in Generation /\ handoff \in [Generation -> Pointer]
      BY <1>4, HolderKnows, SelfOf DEF Setting, Stores
    <3> QED
      BY <3>1, Constants DEF Fresh, Gen, Key, Pointer
  <2>2. Over(executeStep(w[e].job, w[e].handedOut, snaps, tenant, Fresh(e)).answer.tenant)
    BY <1>4 DEF Answered
  <2> QED
    BY <1>2, <1>3, <2>1, <2>2, executeStepEndsNothing
<1>5. CASE w[e].phase = "undoing" /\ w[e].billing # "canceled"
  <2>1. job.operation # "provisioning"
    BY <1>2, <1>5, HolderKnows DEF Undoing
  <2>2. w[e].billing = "past_due"
    BY <1>2, <1>5, <2>1
  <2>3. Over(compensateStep(w[e].job, "past_due", snaps, tenant).answer.tenant)
    BY <1>5, <2>2 DEF Answered
  <2> QED
    BY <1>2, <1>3, <2>3, compensateStepSuspends
<1> QED
  BY <1>2, <1>4, <1>5

LEMMA TurnCallDriver ==
  ASSUME JInv, InTurn, scene.fifo, NEW e \in Event, CallDriver(e)
  PROVE  Rightly
<1> DEFINE r == Answered(e)
           p == IF w[e].phase = "executing" THEN "persisting" ELSE "keeping"
           f == [w[e] EXCEPT !.phase = "failing", !.retryable = FALSE]
           g == [w[e] EXCEPT !.snap = r.snap, !.minted = r.answer.minted, !.phase = p]
<1>1. /\ w[e].phase \in {"executing", "undoing"} /\ Rest /\ UNCHANGED <<job, lease>>
      /\ tenant' = r.answer.tenant
      /\ IF r.answer.ok THEN Become(e, g) ELSE Become(e, f)
  BY DEF CallDriver, Failing
<1>2. w[e] \in Worker /\ w[e].phase \in Loaded
  BY <1>1, SelfOf DEF Loaded, Setting, Undoing
<1>3. Over(tenant') => Canceled(seen)
  BY <1>1, TurnAnswers
<1>4. r.snap \subseteq Snapshot /\ r.answer.minted \in BOOLEAN
  BY <1>1, ExecutingAnswers, UndoingAnswers DEF Executed, Undone, Served, AnswerType
<1>5. p \in Phase /\ p \in {"persisting", "keeping"}
  BY DEF Phase
<1> HIDE DEF p, r
<1>6. /\ g \in Worker /\ g.phase = p /\ g.leased = w[e].leased /\ g.job = w[e].job
      /\ g.billing = w[e].billing
  BY <1>2, <1>4, <1>5 DEF Worker
<1>7. /\ f \in Worker /\ f.phase = "failing" /\ f.leased = w[e].leased /\ f.job = w[e].job
      /\ f.billing = w[e].billing
  BY <1>2 DEF Worker, Phase
<1> HIDE DEF f, g
<1>8. \A q \in {"persisting", "keeping", "failing"} :
        q \in (Loaded \ {"deciding"}) \cup {"moving"} /\ q # "moving"
  BY DEF Loaded, Setting, Undoing
<1>9. w[e].phase # "listing" /\ w[e].phase \in Loaded \cup {"listing"}
  BY <1>1, <1>2
<1>10. CASE Become(e, g)
  BY <1>1, <1>3, <1>5, <1>6, <1>8, <1>9, <1>10, TurnWorks
<1>11. CASE Become(e, f)
  BY <1>1, <1>3, <1>7, <1>8, <1>9, <1>11, TurnWorks
<1> QED
  BY <1>1, <1>10, <1>11

LEMMA TurnStepThrows ==
  ASSUME JInv, InTurn, scene.fifo, NEW e \in Event, StepThrows(e)
  PROVE  Rightly
<1> DEFINE f == Gave(w[e], TRUE)
<1>1. /\ w[e].phase \in Setting \cup Undoing /\ Rest /\ UNCHANGED <<job, lease>> /\ Become(e, f)
      /\ tenant' = tenant \/ /\ w[e].phase \in {"executing", "undoing"}
                             /\ tenant' = Answered(e).answer.tenant
  BY DEF StepThrows, Working, Setting, Undoing, Failing, Gave
<1>2. Active(e) /\ w[e].phase \in Loaded \cup {"listing"} /\ w[e].phase # "listing"
  BY <1>1 DEF Active, Loaded, Setting, Undoing
<1>3. Over(tenant') => Canceled(seen)
  BY <1>1, <1>2, TurnAnswers, TurnOf
<1>4. /\ f \in Worker /\ f.phase = "failing" /\ f.leased = w[e].leased /\ f.job = w[e].job
      /\ f.billing = w[e].billing
  BY SelfOf, WorkerFailed
<1> HIDE DEF f
<1>5. f.phase \in (Loaded \ {"deciding"}) \cup {"moving"} /\ f.phase # "moving"
  BY <1>4 DEF Loaded
<1> QED
  BY <1>1, <1>2, <1>3, <1>4, <1>5, TurnWorks

\* The other steps of a run touch neither the job nor the tenant.
LEMMA TurnStays ==
  ASSUME JInv, InTurn, scene.fifo, NEW e \in Event, w[e].phase \in Setting \cup Undoing,
         NEW v \in Worker, v.phase \in Setting \cup Undoing \cup {"failing"}, v.leased = w[e].leased,
         v.job = w[e].job, v.billing = w[e].billing, Become(e, v), Rest,
         UNCHANGED <<job, lease, tenant>>
  PROVE  Rightly
<1>1. /\ w[e].phase \in Loaded \cup {"listing"} /\ w[e].phase # "listing" /\ Active(e)
      /\ v.phase \in (Loaded \ {"deciding"}) \cup {"moving"} /\ v.phase # "moving"
  BY DEF Active, Loaded, Setting, Undoing
<1>2. Over(tenant') => Canceled(seen)
  BY <1>1, TurnOf
<1> QED
  BY <1>1, <1>2, TurnWorks

LEMMA TurnPrepare ==
  ASSUME JInv, InTurn, scene.fifo, NEW e \in Event, Prepare(e)
  PROVE  Rightly
<1>1. /\ w[e].phase \in Setting \cup Undoing /\ Rest /\ UNCHANGED <<job, lease, tenant>>
      /\ \/ \E done \in BOOLEAN : Become(e, [w[e] EXCEPT !.phase = "executing", !.handedOut = done])
         \/ Become(e, [w[e] EXCEPT !.phase = "failing", !.retryable = FALSE])
  BY DEF Prepare, Failing, Setting
<1>2. w[e] \in Worker
  BY SelfOf
<1>3. CASE \E done \in BOOLEAN : Become(e, [w[e] EXCEPT !.phase = "executing", !.handedOut = done])
  <2>1. PICK done \in BOOLEAN : Become(e, [w[e] EXCEPT !.phase = "executing", !.handedOut = done])
    BY <1>3
  <2> DEFINE v == [w[e] EXCEPT !.phase = "executing", !.handedOut = done]
  <2>2. /\ v \in Worker /\ v.phase = "executing" /\ v.leased = w[e].leased /\ v.job = w[e].job
        /\ v.billing = w[e].billing
    BY <1>2 DEF Worker, Phase
  <2> HIDE DEF v
  <2>3. v.phase \in Setting \cup Undoing \cup {"failing"}
    BY <2>2 DEF Setting
  <2> QED
    BY <1>1, <2>1, <2>2, <2>3, TurnStays DEF v
<1>4. CASE Become(e, [w[e] EXCEPT !.phase = "failing", !.retryable = FALSE])
  <2> DEFINE v == [w[e] EXCEPT !.phase = "failing", !.retryable = FALSE]
  <2>1. /\ v \in Worker /\ v.phase = "failing" /\ v.leased = w[e].leased /\ v.job = w[e].job
        /\ v.billing = w[e].billing
    BY <1>2 DEF Worker, Phase
  <2> HIDE DEF v
  <2> QED
    BY <1>1, <1>4, <2>1, TurnStays DEF v
<1> QED
  BY <1>1, <1>3, <1>4

LEMMA TurnGoesTo ==
  ASSUME JInv, InTurn, scene.fifo, NEW e \in Event, w[e].phase \in Setting \cup Undoing,
         NEW p \in Setting \cup Undoing, Goto(e, p), Rest, UNCHANGED <<job, lease, tenant>>
  PROVE  Rightly
<1> DEFINE v == [w[e] EXCEPT !.phase = p]
<1>1. w[e] \in Worker /\ p \in Phase
  BY SelfOf DEF Setting, Undoing, Phase
<1>2. /\ v \in Worker /\ v.phase = p /\ v.leased = w[e].leased /\ v.job = w[e].job
      /\ v.billing = w[e].billing /\ Become(e, v)
  BY <1>1 DEF Worker, Goto
<1> HIDE DEF v
<1> QED
  BY <1>2, TurnStays

LEMMA TurnUndisturbed ==
  ASSUME JInv, InTurn, scene.fifo, NEW e \in Event,
         Persist(e) \/ Publish(e) \/ Revoke(e) \/ Dispose(e)
  PROVE  Rightly
<1>1. /\ w[e].phase \in Setting \cup Undoing /\ Rest /\ UNCHANGED <<job, lease, tenant>>
      /\ \E p \in {"disposing", "binding", "saving", "storing", "publishing", "undoing", "checking"} :
           Goto(e, p)
  BY DEF Persist, Publish, Revoke, Dispose, Setting, Undoing
<1>2. {"disposing", "binding", "saving", "storing", "publishing", "undoing", "checking"}
        \subseteq Setting \cup Undoing
  BY DEF Setting, Undoing
<1> QED
  BY <1>1, <1>2, TurnGoesTo

LEMMA TurnCrash ==
  ASSUME JInv, InTurn, scene.fifo, NEW e \in Event, Crash(e)
  PROVE  Rightly
<1>1. Active(e) /\ Rest /\ UNCHANGED <<job, tenant>> /\ Undelivered(e)
  BY DEF Crash, Outside
<1>2. PICK p \in {"dead", "queued"} : Become(e, NoWorker(p))
  BY <1>1 DEF Undelivered
<1>3. NoWorker(p) \in Worker /\ NoWorker(p).phase = p
  BY Gone DEF Phase
<1> QED
  BY <1>1, <1>2, <1>3, TurnQuiet

\* A delivery: nobody else is under way, and a cancellation stays one.
LEMMA TurnReceive ==
  ASSUME JInv, InTurn, scene.fifo, NEW e \in Event, Receive(e)
  PROVE  Rightly
<1> DEFINE n == NoWorker("reduced")
           v == [n EXCEPT !.billing = Billing(seen')]
<1>1. /\ w[e].phase = "queued" /\ \A f \in Event \ {e} : deliveries[f] = 0 \/ Settled(f)
      /\ lease = "free" /\ seen' = seen \cup {e}
      /\ deliveries' = [deliveries EXCEPT ![e] = @ + 1] /\ Become(e, v)
      /\ UNCHANGED <<scene, job, tenant, lease>>
  BY DEF Receive, stored
<1>2. Billing(seen') \in {"active", "past_due", "canceled"}
  BY <1>1, BillingType DEF JInv, Counted
<1>3. n \in Worker /\ ~n.leased /\ n.phase = "reduced"
  BY Gone DEF Phase
<1> HIDE DEF n
<1>4. v \in Worker /\ ~v.leased /\ v.phase = "reduced" /\ v.billing = Billing(seen')
  BY <1>2, <1>3 DEF Worker
<1> HIDE DEF v
<1>5. w' \in [Event -> Worker] /\ w'[e] = v /\ \A f \in Event \ {e} : w'[f] = w[f]
  BY <1>1, <1>4, Became DEF JInv
<1>6. /\ deliveries \in [Event -> 0..MaxDeliveries]
      /\ deliveries'[e] # 0 /\ \A f \in Event \ {e} : deliveries'[f] = deliveries[f]
  <2>1. deliveries \in [Event -> 0..MaxDeliveries]
    BY DEF JInv, Counted
  <2>2. deliveries[e] + 1 # 0
    BY <2>1, DeliveriesAssumption
  <2> QED
    BY <1>1, <2>1, <2>2
<1>7. OneUnderWay'
  <2>1. \A f \in Event : w'[f].phase # "queued" => deliveries'[f] # 0
    BY <1>5, <1>6 DEF InTurn, OneUnderWay
  <2>2. \A f \in Event \ {e} : deliveries'[f] # 0 => w'[f].phase \in {"done", "dead"}
    BY <1>1, <1>5, <1>6 DEF Settled
  <2> QED
    BY <2>1, <2>2 DEF OneUnderWay, Settled
<1>8. Canceled(seen) => Canceled(seen')
  BY <1>1 DEF Canceled
<1>9. UpToDate(v, job, lease, seen')
  BY <1>1, <1>4 DEF UpToDate, Read, Loaded, Setting, Undoing
<1>10. \A f \in Event \ {e} : w'[f].phase \in {"queued", "done", "dead"}
  BY <1>1, <1>5 DEF InTurn, OneUnderWay, Settled
<1>11. (\A f \in Event : Active(f) => UpToDate(w[f], job, lease, seen))'
  BY <1>1, <1>5, <1>9, <1>10 DEF Active, UpToDate
<1>12. InTurn'
  BY <1>1, <1>7, <1>8, <1>11 DEF InTurn
<1>13. Acknowledged
  BY <1>4, <1>5 DEF Acknowledged
<1>14. StaysCompensated
  BY <1>1 DEF StaysCompensated
<1> QED
  BY <1>12, <1>13, <1>14 DEF Rightly

LEMMA TurnExpire ==
  ASSUME JInv, InTurn, scene.fifo, Expire
  PROVE  Rightly
<1>1. /\ lease = "orphaned" /\ lease' = "free"
      /\ UNCHANGED <<scene, seen, deliveries, tenant, job, w>>
  BY DEF Expire, Quiet, Rest, Outside
<1>2. \A e \in Event : ~Active(e)
  BY <1>1, TurnOf DEF UpToDate, JInv, OneHolder
<1>3. InTurn'
  BY <1>1, <1>2 DEF InTurn, OneUnderWay, Active, Settled
<1> QED
  BY <1>1, <1>3 DEF Rightly, Acknowledged, StaysCompensated

LEMMA TurnNext ==
  ASSUME JInv, InTurn, scene.fifo, [Next]_vars
  PROVE  Rightly
<1>1. CASE UNCHANGED vars
  BY <1>1 DEF vars, stored, InTurn, OneUnderWay, Active, Settled, UpToDate, Rightly, Acknowledged,
              StaysCompensated
<1>2. CASE Expire
  BY <1>2, TurnExpire
<1>3. ASSUME NEW e \in Event, Receive(e) \/ Proceed(e) \/ StepThrows(e) \/ Crash(e)
      PROVE  Rightly
  BY <1>3, TurnReceive, TurnStepThrows, TurnCrash, TurnFindJob, TurnCreate, TurnResumeJob,
     TurnClaim, TurnPeek, TurnLoadOrder, TurnLoadJob, TurnListResources, TurnMoveJob, TurnDecide,
     TurnStart, TurnFail, TurnPrepare, TurnCallDriver, TurnUndisturbed, TurnSaveStep,
     TurnSaveUndone
     DEF Proceed
<1> QED
  BY <1>1, <1>2, <1>3 DEF Next

\* Events that come in order find one worker at a time, which knows the job and the order
\* as they are; nothing is taken for canceled that is not.
THEOREM TurnInvariant == Spec => [](JInv /\ InTurn)
<1>1. Init => InTurn
  <2> SUFFICES ASSUME Init PROVE InTurn
    OBVIOUS
  <2>1. \A e \in Event : w[e].phase = "queued" /\ deliveries[e] = 0
    BY DEF Init, NoWorker
  <2>2. job.operation = "provisioning" /\ ~Over(tenant)
    BY FirstJobs DEF Init, Over, NoTenant
  <2> QED
    BY <2>1, <2>2 DEF InTurn, OneUnderWay, Active
<1>2. JInv /\ InTurn /\ [Next]_vars => InTurn'
  <2> HAVE JInv /\ InTurn /\ [Next]_vars
  <2>1. scene' = scene
    <3>1. CASE \E e \in Event : Receive(e) \/ Crash(e) \/ StepThrows(e)
      BY <3>1 DEF Receive, Crash, StepThrows, Rest
    <3>2. CASE \E e \in Event : Proceed(e)
      BY <3>2, ZenonT(60) DEF Proceed, Quiet, Rest, FindJob, Create, ResumeJob, Claim, Peek, LoadOrder, LoadJob,
                  ListResources, MoveJob, Decide, Start, Fail, Prepare, CallDriver, Persist,
                  Publish, SaveStep, Revoke, Dispose, SaveUndone
    <3>3. CASE Expire \/ UNCHANGED vars
      BY <3>3 DEF Expire, Quiet, Rest, vars
    <3> QED
      BY <3>1, <3>2, <3>3 DEF Next
  <2>2. CASE scene.fifo
    BY <2>2, TurnNext DEF Rightly
  <2>3. CASE ~scene.fifo
    BY <2>1, <2>3 DEF InTurn
  <2> QED
    BY <2>2, <2>3
<1>3. Init => JInv
  BY InitStep
<1>4. JInv /\ [Next]_vars => JInv'
  BY NextStep
<1> QED
  BY <1>1, <1>2, <1>3, <1>4, PTL DEF Spec

\* compensateStep: a tenant is disabled for good only after a cancellation.
THEOREM MissedPaymentsDestroyNothing == Spec => []SuspensionReversible
<1>1. ASSUME JInv, InTurn PROVE SuspensionReversible
  <2> SUFFICES ASSUME scene.fifo, tenant.status = "disabled" PROVE Now("canceled")
    BY DEF SuspensionReversible
  <2>1. Canceled(seen)
    BY <1>1 DEF InTurn, Over
  <2>2. seen \subseteq Event /\ seen # {}
    BY <1>1, <2>1 DEF JInv, Counted, Canceled
  <2> QED
    BY <2>1, <2>2, CanceledIs DEF Now
<1> QED
  BY <1>1, TurnInvariant, PTL

\* processClaimedStripeEvent: whatever is acknowledged was done, and what is being
\* compensated is never reopened.
THEOREM AcksAreHonest == Spec => AckMatchesOrder
<1>1. ASSUME JInv, InTurn, [Next]_vars
      PROVE  [scene.fifo => Acknowledged /\ StaysCompensated]_vars
  BY <1>1, TurnNext DEF Rightly
<1> QED
  BY <1>1, TurnInvariant, PTL DEF Spec, AckMatchesOrder
==============================================================================
