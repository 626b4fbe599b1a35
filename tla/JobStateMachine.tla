--------------------------- MODULE JobStateMachine ---------------------------
(***************************************************************************)
(* The job functions of infra/provisioning/src/state-machine.ts: what each *)
(* of them makes of the job record it is given.                            *)
(*                                                                         *)
(* completedSteps is always a prefix of PROVISIONING_STEPS, so its length  *)
(* stands for it; compensatedSteps is a set.  Identifiers, error codes and *)
(* retry times are left out: whether the retry time of a failed job has    *)
(* come is decided by whoever runs it.                                     *)
(***************************************************************************)
EXTENDS Integers, FiniteSets

CONSTANTS
  LastStep,      \* PROVISIONING_STEPS.length (7 in the code)
  MaxAttempts    \* retryPolicy.maxAttempts (5 in the code)

ASSUME LastStepAssumption    == LastStep \in Nat \ {0}
ASSUME MaxAttemptsAssumption == MaxAttempts \in Nat \ {0}

Step      == 1..LastStep
Operation == {"provisioning", "suspension", "compensation"}
JobState  == {"queued", "running", "ready", "failed", "compensating", "disabled"}

Job == [version: Nat, generation: Nat, state: JobState \cup {"none"},
        operation: Operation, completed: 0..LastStep, compensated: SUBSET Step,
        attempt: 0..MaxAttempts, exhausted: BOOLEAN]

\* createProvisioningJob.
NewJob == [version |-> 0, generation |-> 0, state |-> "queued",
           operation |-> "provisioning", completed |-> 0, compensated |-> {},
           attempt |-> 0, exhausted |-> FALSE]

\* The store has no job yet.
NoJob == [NewJob EXCEPT !.state = "none"]

\* The attempts are counted anew.
Rearmed(j) == [j EXCEPT !.attempt = 0, !.exhausted = FALSE]

\* startProvisioningAttempt; a job that is under way already is kept as it is.
Started(j) ==
  IF j.state = "running" \/ (j.state = "compensating" /\ j.attempt > 0)
  THEN j
  ELSE [j EXCEPT !.state = IF j.operation = "provisioning" THEN "running" ELSE "compensating",
                 !.attempt = @ + 1,
                 !.exhausted = FALSE]

\* completeProvisioningStep for the next step.
StepCompleted(j) ==
  [j EXCEPT !.completed = @ + 1,
            !.state = IF j.completed + 1 = LastStep THEN "ready" ELSE "running"]

\* failProvisioningAttempt.
Failed(j, retryable) ==
  [j EXCEPT !.state = "failed",
            !.exhausted = ~(retryable /\ j.attempt < MaxAttempts)]

\* The furthest step that was completed, or that left a trace.
Furthest(j, observed) ==
  CHOOSE n \in 0..LastStep :
    /\ n \in observed \cup {j.completed}
    /\ \A m \in observed \cup {j.completed} : m <= n

Uncompensated(j) == (1..j.completed) \ j.compensated

StateOfCompensation(j) == IF Uncompensated(j) = {} THEN "disabled" ELSE "compensating"

\* Mutation: a job that is being suspended is compensated already.
FirstOperationStays(j, observed, operation) ==
  IF j.operation # "provisioning" THEN j
  ELSE [j EXCEPT !.operation = operation, !.completed = Furthest(j, observed),
                 !.state = IF Furthest(j, observed) = 0 THEN "disabled" ELSE "compensating",
                 !.attempt = 0, !.exhausted = FALSE]

\* beginCompensation.  The same operation again only adds effects discovered
\* since; another operation starts from nothing compensated.
Compensating(j, observed, operation) ==
  LET reached == [j EXCEPT !.completed = Furthest(j, observed)]
      again   == IF reached.completed = 0 THEN j.compensated ELSE {}
      begun   == [reached EXCEPT !.operation = operation, !.compensated = again]
  IN  CASE j.operation = operation /\ reached = j -> j
        [] j.operation = operation /\ reached # j ->
             Rearmed([reached EXCEPT !.state = StateOfCompensation(reached)])
        [] OTHER -> Rearmed([begun EXCEPT !.state = StateOfCompensation(begun)])

\* nextCompensationStep.
NextCompensation(j) ==
  CHOOSE s \in Uncompensated(j) : \A t \in Uncompensated(j) : t <= s

\* completeCompensationStep for the next step.
StepCompensated(j) ==
  LET k == [j EXCEPT !.compensated = @ \cup {NextCompensation(j)}]
  IN  [k EXCEPT !.state = StateOfCompensation(k)]

\* resumeProvisioningJob: a new activation of a suspended tenant.
Resumed(j) == [NewJob EXCEPT !.version = j.version, !.generation = j.generation + 1]

\* The step whose effect may be under way, or have happened unrecorded.
InFlight(j) ==
  IF j.operation = "provisioning" /\ j.state \in {"running", "failed"}
  THEN {j.completed + 1} \cap Step ELSE {}
==============================================================================
