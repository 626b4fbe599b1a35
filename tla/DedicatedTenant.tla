--------------------------- MODULE DedicatedTenant ---------------------------
(***************************************************************************)
(* A tenant with a deployment of its own: what the calls of                *)
(* infra/provisioning/src/providers/dedicated.ts make of a Supabase        *)
(* project, its database and a CloudFormation stack, with                  *)
(* supabase-dedicated-bootstrapper.ts and, for the project's password,     *)
(* aws/secrets-manager-database-password.ts.                               *)
(*                                                                         *)
(* Where a call to the shared deployment is one transaction, a call here   *)
(* is a sequence of stages, each of several requests, and can stop after   *)
(* any of them: the request or its answer is lost, the wait for the        *)
(* project or the stack runs out of time, the worker dies.  The caller is  *)
(* driver.ts under the lease of the saga: it makes one call at a time,     *)
(* chosen by the billing state and by the resources it has saved, and      *)
(* makes it again until it is answered.                                    *)
(***************************************************************************)
EXTENDS SharedTenant, Sequences, FiniteSets

CONSTANTS
  Migrations,    \* the number of required migrations (4 in the code)
  MaxLosses,     \* bound: requests or answers lost, workers that die, stacks that fail
  MaxChanges     \* bound: changes of the billing state

ASSUME MigrationsAssumption == Migrations \in Nat \ {0}
ASSUME LossesAssumption     == MaxLosses \in Nat /\ MaxChanges \in Nat

VARIABLES
  secret,    \* the password in the secret store, 0 if there is none
  project,   \* the Supabase project
  schema,    \* the migrations its database went through, in order
  ledger,    \* the rows of the migration ledger
  late,      \* requests nobody waits for any more: <<what, argument>>
  stack,     \* the CloudFormation stack
  tenant,    \* the rows of the tenant in the project's database
  keys,      \* the API keys generated so far
  billing,   \* what the subscription asks for
  saved,     \* what the caller has saved
  call,      \* the call under way
  losses, changes

database == <<schema, ledger, late>>
rows     == <<tenant, keys>>
outside  == <<secret, project, database, stack, rows>>
caller   == <<billing, saved, call>>
dvars    == <<outside, caller, losses, changes>>

Op == {"provision", "reissueCredential", "markReady", "resume", "suspend",
       "disable", "suspendUnknown", "compensateUnknown"}

\* The stages of each call.  Those of an unknown tenant begin with a look at
\* what is there.
TurningOn ==
  [provision         |-> <<"project", "health", "migrations", "stack", "tenant", "save">>,
   reissueCredential |-> <<"credential", "save">>]
KeptTenant ==
  [markReady |-> <<"mark", "save">>,
   resume    |-> <<"health", "enable", "on", "save">>,
   suspend   |-> <<"off", "stop", "save">>,
   disable   |-> <<"off", "stop", "pause", "save">>]
UnknownTenant ==
  [suspendUnknown    |-> <<"lookup", "off", "stop", "save">>,
   compensateUnknown |-> <<"lookup", "off", "stop", "pause", "save">>]
Stages ==
  [op \in Op |-> IF op \in DOMAIN TurningOn THEN TurningOn[op]
                 ELSE IF op \in DOMAIN KeptTenant THEN KeptTenant[op] ELSE UnknownTenant[op]]

\* step: the requests made so far in the stage; held: a password, or the number
\* of a migration; key: the credential the provider answered with.
Call   == [op: Op, at: 1..6, step: 0..2, held: Nat, key: Key]
NoCall == [op |-> "none", at |-> 1, step |-> 0, held |-> 0, key |-> NoKey]

\* Of the latest snapshot the status; without one whether the tenant was turned
\* off all the same.  key: the credential handed out in this activation.
Unknown == {"none", "unknown_suspended", "unknown_disabled"}
Known   == {"provisioning", "ready", "suspended", "disabled"}
Saved   == [status: Unknown \cup Known, key: Key, resumed: BOOLEAN]

DTypeOK ==
  /\ secret \in Nat
  /\ project \in [status: {"absent", "coming_up", "healthy", "pausing", "inactive"},
                  pass: Nat]
  /\ schema \in Seq(1..Migrations)
  /\ ledger \subseteq 1..Migrations
  /\ late \subseteq {"project", "migration"} \X Nat
  /\ stack \in [status: {"absent", "creating", "create_failed", "updating", "rolled_back",
                         "complete"},
                signing: BOOLEAN]
  /\ tenant \in Tenant
  /\ keys \in Nat
  /\ billing \in {"active", "past_due", "canceled"}
  /\ saved \in Saved
  /\ call \in Call \cup {NoCall}
  /\ losses \in 0..MaxLosses
  /\ changes \in 0..MaxChanges

DInit ==
  /\ secret = 0
  /\ project = [status |-> "absent", pass |-> 0]
  /\ schema = <<>>
  /\ ledger = {}
  /\ late = {}
  /\ stack = [status |-> "absent", signing |-> FALSE]
  /\ tenant = NoTenant
  /\ keys = 0
  /\ billing = "active"
  /\ saved = [status |-> "none", key |-> NoKey, resumed |-> FALSE]
  /\ call = NoCall
  /\ losses = 0
  /\ changes = 0

------------------------------------------------------------------------------
(***************************************************************************)
(* The caller.                                                             *)
(***************************************************************************)
Idle == call = NoCall

\* A billing event; a cancellation is final, a payment begins an activation.
Bill(b) ==
  /\ changes < MaxChanges /\ b # billing /\ billing # "canceled" /\ Idle
  /\ billing' = b
  /\ changes' = changes + 1
  /\ saved' = IF b # "active" THEN saved
              ELSE [saved EXCEPT !.key = NoKey, !.resumed = TRUE]
  /\ UNCHANGED <<outside, call, losses>>

\* What is still to be asked of the provider.
Wanted(op) ==
  \/ billing = "active" /\ IF saved.status \in Unknown THEN op = "provision"
       ELSE IF saved.key = NoKey
            THEN op = IF saved.resumed THEN "resume" ELSE "reissueCredential"
            ELSE op = "markReady" /\ saved.status = "provisioning"
  \/ billing = "past_due" /\
       \/ op = "suspendUnknown" /\ saved.status = "none"
       \/ op = "suspend" /\ saved.status \in {"provisioning", "ready"}
  \/ billing = "canceled" /\
       \/ op = "compensateUnknown" /\ saved.status \in Unknown \ {"unknown_disabled"}
       \/ op = "disable" /\ saved.status \in Known \ {"disabled"}

Begin(op) ==
  /\ Idle /\ Wanted(op)
  /\ call' = [NoCall EXCEPT !.op = op]
  /\ UNCHANGED <<outside, billing, saved, losses, changes>>

At(stage, step) == ~Idle /\ Stages[call.op][call.at] = stage /\ call.step = step
Quiet == UNCHANGED <<billing, saved, changes>>

Again   == [call EXCEPT !.step = @ + 1]
NextOne == [call EXCEPT !.step = 0, !.at = @ + 1]
Loss   == losses < MaxLosses /\ losses' = losses + 1

\* The call ends with an error, which no counter of losses knows of: a refusal,
\* or a wait that ran out of time.
Throws == call' = NoCall /\ UNCHANGED losses

\* A request was carried out: its answer arrives, or is lost and the call ends.
Answers(next) ==
  \/ call' = next /\ UNCHANGED losses
  \/ call' = NoCall /\ Loss

\* Nobody waits for the request any more, and it may still be carried out.
GiveUp(what) == late' = late \cup {<<what, call.held>>} /\ call' = NoCall /\ Loss

\* The request never arrives, or the worker dies.
Lost ==
  /\ ~Idle /\ Loss /\ call' = NoCall
  /\ Quiet /\ UNCHANGED outside

\* persistStepResources, and the handoff of a credential, which may fail alone.
Save ==
  LET status == CASE call.op \in {"provision", "resume"} -> "provisioning"
                  [] call.op = "reissueCredential" -> saved.status
                  [] call.op = "markReady" -> "ready"
                  [] call.op = "suspend" -> "suspended"
                  [] call.op = "disable" -> "disabled"
                  [] call.op = "suspendUnknown" -> "unknown_suspended"
                  [] OTHER -> "unknown_disabled"
  IN
  /\ At("save", 0)
  /\ call' = NoCall
  /\ \/ /\ saved' = [saved EXCEPT !.status = status,
                       !.key = IF call.key = NoKey THEN @ ELSE call.key]
        /\ UNCHANGED losses
     \/ /\ saved' = [saved EXCEPT !.status = status]
        /\ Loss
  /\ UNCHANGED <<outside, billing, changes>>

------------------------------------------------------------------------------
(***************************************************************************)
(* Project and database.                                                   *)
(***************************************************************************)
\* #ensureProject: a project of that name is taken as it is.
FindProject ==
  /\ At("project", 0)
  /\ Answers(IF project.status = "absent" THEN Again ELSE NextOne)
  /\ Quiet /\ UNCHANGED outside

\* databasePasswordFor: the stored password, or a new one that is stored first.
Password ==
  /\ At("project", 1)
  /\ secret' = IF secret = 0 THEN 1 ELSE secret
  /\ Answers([Again EXCEPT !.held = secret'])
  /\ Quiet /\ UNCHANGED <<project, database, stack, rows>>

\* POST /v1/projects; a conflict finds the project that is there.
Create(password) ==
  project' = IF project.status # "absent" THEN project
             ELSE [status |-> "coming_up", pass |-> password]

CreateProject ==
  /\ At("project", 2)
  /\ \/ Create(call.held) /\ Answers(NextOne) /\ UNCHANGED database
     \/ GiveUp("project") /\ UNCHANGED <<project, schema, ledger>>
  /\ Quiet /\ UNCHANGED <<secret, stack, rows>>

LateProject ==
  /\ \E p \in {l \in late : l[1] = "project"} : Create(p[2]) /\ late' = late \ {p}
  /\ UNCHANGED <<secret, schema, ledger, stack, rows, caller, losses, changes>>

Healthy == project.status = "healthy"

WaitForProjectHealth ==
  /\ At("health", 0)
  /\ IF Healthy THEN Answers(NextOne) ELSE Throws
  /\ Quiet /\ UNCHANGED outside

\* Mutation: the transaction does not look at the ledger.
ApplyUnguarded(m) ==
  /\ schema' = Append(schema, m)
  /\ ledger' = ledger \cup {m}

\* migrationApplicationSql: the transaction fails unless the ledger holds the
\* migrations before this one, and no others.
Apply(m) ==
  IF ledger = 1..(m - 1)
  THEN schema' = Append(schema, m) /\ ledger' = ledger \cup {m}
  ELSE UNCHANGED <<schema, ledger>>

\* Mutation: a new attempt begins with the first migration.
ReadLedgerFromFirst ==
  /\ At("migrations", 0)
  /\ IF Healthy
     THEN Answers(IF ledger = 1..Migrations THEN NextOne
                  ELSE [Again EXCEPT !.held = 1])
     ELSE Throws
  /\ Quiet /\ UNCHANGED outside

\* applyMigrations: what comes next is read from the ledger, before the first
\* migration and after each, whatever became of the request.
ReadLedger ==
  /\ At("migrations", 0)
  /\ IF Healthy
     THEN Answers(IF ledger = 1..Migrations THEN NextOne
                  ELSE [Again EXCEPT !.held = Cardinality(ledger) + 1])
     ELSE Throws
  /\ Quiet /\ UNCHANGED outside

ApplyMigration ==
  /\ At("migrations", 1)
  /\ \/ /\ Healthy
        /\ Apply(call.held)
        /\ Answers([call EXCEPT !.step = 0])
        /\ UNCHANGED late
     \/ GiveUp("migration") /\ UNCHANGED <<schema, ledger>>
  /\ Quiet /\ UNCHANGED <<secret, project, stack, rows>>

LateMigration ==
  /\ Healthy
  /\ \E m \in {l \in late : l[1] = "migration"} : Apply(m[2]) /\ late' = late \ {m}
  /\ UNCHANGED <<secret, project, stack, rows, caller, losses, changes>>

\* #pauseProject: asked once per call, then waited for.
PauseProject ==
  /\ At("pause", 0)
  /\ project' = IF Healthy THEN [project EXCEPT !.status = "pausing"] ELSE project
  /\ Answers(IF project.status \in {"absent", "inactive"} THEN NextOne ELSE Again)
  /\ Quiet /\ UNCHANGED <<secret, database, stack, rows>>

WaitForPause ==
  /\ At("pause", 1)
  /\ IF project.status = "inactive" THEN Answers(NextOne) ELSE Throws
  /\ Quiet /\ UNCHANGED outside

------------------------------------------------------------------------------
(***************************************************************************)
(* Stack.                                                                  *)
(***************************************************************************)
\* A stack is waited for: it is as it should be, or has failed, or time is up.
WaitForStack(ok) ==
  /\ IF stack.status = "complete" /\ ok THEN Answers(NextOne) ELSE Throws
  /\ Quiet /\ UNCHANGED outside

\* #ensureStack: a stack that is there is waited for as well.
CreateStack ==
  /\ At("stack", 0)
  /\ stack' = IF stack.status # "absent" THEN stack
              ELSE [status |-> "creating", signing |-> TRUE]
  /\ Answers(Again)
  /\ Quiet /\ UNCHANGED <<secret, project, database, rows>>

WaitForReadyStack == At("stack", 1) /\ WaitForStack(TRUE)

Updatable  == stack.status \in {"complete", "rolled_back"}
InProgress == stack.status \in {"creating", "updating"}

\* Mutation: a stack that cannot be updated is as good as updated.
SetSigningIfPossible(on) ==
  /\ stack' = IF Updatable /\ stack.signing # on
              THEN [status |-> "updating", signing |-> on] ELSE stack
  /\ Answers(IF stack' = stack THEN NextOne ELSE Again)
  /\ Quiet /\ UNCHANGED <<secret, project, database, rows>>

\* #disableStack and #enableStack up to the update: a stack in progress is
\* waited for, one that is as it should be is left alone; the service refuses to
\* update a stack whose creation failed.
SetSigning(on) ==
  /\ IF stack.status # "absent" /\ ~InProgress /\ stack.signing = on
     THEN Answers(NextOne) /\ UNCHANGED stack
     ELSE IF Updatable
          THEN stack' = [status |-> "updating", signing |-> on] /\ Answers(Again)
          ELSE Throws /\ UNCHANGED stack
  /\ Quiet /\ UNCHANGED <<secret, project, database, rows>>

EnableStack        == At("enable", 0) /\ SetSigning(TRUE)
WaitForEnabled     == At("enable", 1) /\ WaitForStack(stack.signing)
WaitForDisabled    == At("stop", 1) /\ WaitForStack(~stack.signing)

\* A compensation that does not know the tenant does without the stack.
Dispensable == call.op = "compensateUnknown" /\ stack.status = "absent"
DisableStack ==
  /\ At("stop", 0)
  /\ \/ ~Dispensable /\ SetSigning(FALSE)
     \/ /\ Dispensable
        /\ Answers(NextOne)
        /\ Quiet /\ UNCHANGED outside

------------------------------------------------------------------------------
(***************************************************************************)
(* Tenant.                                                                 *)
(***************************************************************************)
Fresh == <<0, keys>>

\* A statement of the bootstrapper, in a database that is up: the function
\* changes the tenant, and its answer is accepted or not.
Statement(stage, answer) ==
  /\ At(stage, 0)
  /\ IF Healthy
     THEN /\ tenant' = answer.tenant
          /\ keys' = IF answer.minted THEN keys + 1 ELSE keys
          /\ IF answer.ok
             THEN Answers([NextOne EXCEPT !.key = IF answer.minted THEN answer.key ELSE @])
             ELSE Throws
     ELSE Throws /\ UNCHANGED rows
  /\ Quiet /\ UNCHANGED <<secret, project, database, stack>>

\* provisionTenant: a tenant that is there is answered without a credential,
\* and must not be ready yet.
ProvisionTenant ==
  Statement("tenant",
    CASE tenant.status = "absent" ->
           Answer([status |-> "provisioning", billing |-> "active", key |-> Fresh],
                  "provisioning", Fresh, TRUE)
      [] tenant.status \in {"provisioning", "ready"} ->
           [Answer([tenant EXCEPT !.billing = "active"], tenant.status, tenant.key, FALSE)
              EXCEPT !.ok = tenant.status = "provisioning"]
      [] OTHER -> Refused(tenant))

ReissueCredential == Statement("credential", ReissueAs(tenant, saved, Fresh))
MarkTenantReady   == Statement("mark", MarkReady(tenant, [saved EXCEPT !.key = tenant.key]))
ResumeTenant      == Statement("on", Resume(tenant, saved, Fresh))

\* Without project, stack and tenant compensateUnknown turns nothing off.
NoTenantThere ==
  /\ call.op = "compensateUnknown"
  /\ \/ "absent" \in {project.status, stack.status}
     \/ Healthy /\ tenant.status = "absent"

\* suspendTenant and disableTenant: the status must come back as asked for.
TurnTenantOff ==
  LET target == IF billing = "past_due" THEN "suspended" ELSE "disabled"
      off    == Off(tenant, BillingOf(target))
  IN  /\ ~NoTenantThere
      /\ Statement("off", IF tenant.status = "absent" THEN Refused(tenant)
                          ELSE [Answer(off, off.status, NoKey, FALSE)
                                  EXCEPT !.ok = off.status = target])

NothingToTurnOff ==
  /\ At("off", 0) /\ NoTenantThere
  /\ Answers(NextOne)
  /\ Quiet /\ UNCHANGED outside

\* compensateUnknown and suspendUnknown look for project and stack by name: a
\* suspension wants both or neither.
Lookup ==
  LET found == {r \in {"project", "stack"} :
                  (IF r = "project" THEN project.status ELSE stack.status) # "absent"}
  IN
  /\ At("lookup", 0)
  /\ CASE found = {} -> Answers([call EXCEPT !.at = Len(Stages[call.op])])
       [] found # {} /\ call.op = "suspendUnknown" /\ Cardinality(found) = 1 -> Throws
       [] OTHER -> Answers(NextOne)
  /\ Quiet /\ UNCHANGED outside

------------------------------------------------------------------------------
(***************************************************************************)
(* The services.                                                           *)
(***************************************************************************)
ProjectMoves ==
  /\ \/ /\ project.status = "coming_up"
        /\ project' = [project EXCEPT !.status = "healthy"]
     \/ /\ project.status = "pausing"
        /\ project' = [project EXCEPT !.status = "inactive"]
  /\ UNCHANGED <<secret, database, stack, rows, caller, losses, changes>>

\* A creation that fails is left as it is (OnFailure DO_NOTHING), an update that
\* fails is rolled back.
StackSettles ==
  /\ InProgress
  /\ \/ stack' = [stack EXCEPT !.status = "complete"] /\ UNCHANGED losses
     \/ /\ stack' = IF stack.status = "creating" THEN [stack EXCEPT !.status = "create_failed"]
                    ELSE [status |-> "rolled_back", signing |-> ~stack.signing]
        /\ Loss
  /\ UNCHANGED <<secret, project, database, rows, caller, changes>>

Stage ==
  \/ FindProject \/ Password \/ CreateProject \/ WaitForProjectHealth
  \/ ReadLedger \/ ApplyMigration \/ PauseProject \/ WaitForPause
  \/ CreateStack \/ WaitForReadyStack \/ EnableStack \/ WaitForEnabled
  \/ DisableStack \/ WaitForDisabled
  \/ ProvisionTenant \/ ReissueCredential \/ MarkTenantReady \/ ResumeTenant
  \/ TurnTenantOff \/ NothingToTurnOff \/ Lookup \/ Save

DNext ==
  \/ \E b \in {"active", "past_due", "canceled"} : Bill(b)
  \/ \E op \in Op : Begin(op)
  \/ Stage \/ Lost \/ LateProject \/ LateMigration \/ ProjectMoves \/ StackSettles

DFairness ==
  /\ WF_dvars(\E op \in Op : Begin(op)) /\ WF_dvars(Stage)
  /\ WF_dvars(ProjectMoves) /\ WF_dvars(StackSettles)

DSpec == DInit /\ [][DNext]_dvars /\ DFairness

------------------------------------------------------------------------------
(***************************************************************************)
(* Properties.                                                             *)
(***************************************************************************)
\* What earlier attempts did is not done again: each migration goes through once and
\* in order, also when a request somebody gave up arrives among those of the next
\* attempt, and the ledger says so; and the password of the project is the one in the
\* secret store, whichever attempt created the one and which the other: nobody can
\* read it back from the project.
SetUpOnce ==
  /\ schema = [m \in 1..Len(schema) |-> m]
  /\ ledger = 1..Len(schema)
  /\ project.status # "absent" => project.pass = secret /\ secret # 0

\* The provider says "ready" only of a deployment that can sign: database
\* migrated, stack in place with signing enabled, and the tenant accepting the
\* very credential that was handed out in this activation.
ReadyServes ==
  saved.status # "ready" /\ saved'.status = "ready" =>
    /\ Healthy /\ ledger = 1..Migrations
    /\ Updatable /\ stack.signing
    /\ tenant.status = "ready" /\ tenant.key = saved.key /\ saved.key # NoKey

\* A call that turns the tenant off is answered only when nothing can sign any
\* more, whatever earlier calls had got to: no key, no stack with signing on,
\* and after a cancellation no project that is up, unless nothing but the
\* project was there: a request for one may arrive after its compensation.
OffWhenAnswered ==
  saved'.status # saved.status
    /\ saved'.status \in {"suspended", "disabled", "unknown_suspended", "unknown_disabled"} =>
    /\ tenant.key = NoKey /\ tenant.status \notin {"provisioning", "ready"}
    /\ stack.status = "absent" \/ ~stack.signing
    /\ billing = "canceled" /\ stack.status # "absent" => project.status = "inactive"

\* What a call of the provider answers is so, after any number of attempts that were
\* cut short.
AnswersHold == [][ReadyServes /\ OffWhenAnswered]_dvars

\* "Both shared and dedicated providers converge on retry": as long as the
\* subscription stays active from the beginning and the stack does not fail, the
\* tenant gets ready after whatever was lost.
ActivationConverges ==
  [](billing = "active" /\ ~saved.resumed /\ stack.status # "create_failed")
    => <>(saved.status = "ready")

\* "Provisioning and compensation methods converge when repeated with the same
\* identity": of the compensation of a tenant whose stack has not failed.
CompensationConverges ==
  [](stack.status # "create_failed") =>
    (billing = "canceled" ~> saved.status \in {"disabled", "unknown_disabled"})
==============================================================================
