# Formal model of esig-suite

TLA+ models of the parts of esig-suite where several calls, timers, processes or
deliveries meet: creating, signing and sealing an envelope, its events, reminders and signer
identities; the signing gateway and the audit chain; and the cloud around them, from Stripe's events to
the tenant that is provisioned, suspended and disabled, and the waitlist. TLC checks them on small
instances; TLAPS proves the central properties for all values of the constants.

Contents: 1 the system, 2 the modules, 3 the runs, 4 fairness, 5 the proofs,
6 what the code does not keep, 7 what is not modelled, 8 plan.

## 1. The system

| Component | State it keeps | Operations | Talks to | Hard behaviour |
|---|---|---|---|---|
| Envelope core (`esig-core/src/envelope.ts`) | none; works on an envelope in hand | `createEnvelope`, `resolveSigningToken`, `recordSignature`, `declineEnvelope`, `voidEnvelope` | envelope store (`findBy*`, `update`), audit store | gates decided on a row read without a lock |
| Envelope store (`esig-mcp/src/stores.ts` over `esig-core/src/fs-adapters.ts`) | one JSON file with every envelope; `__mcpRev` per row; the map of `KeyedMutex` | `insert`, `update` (compare and swap), `findById`, `findByTokenHash`, `list` | disk | whole-file read-modify-write; crash; I/O error behind a queue |
| Envelope service (`esig-mcp/src/envelopes.ts`) | nothing of its own except the rate limiter; `metadata.mcp` of the envelope | `create`, `sign`, `decline`, `void`, `resend`, reminders, `seal`, `reseal` | core, store, PDF renderer, storage, audit, event log, sinks | four writes to make an envelope; an object held across rendering, upload and updates; two sign calls that overtake each other |
| Delivery (`delivery.ts`, `email/`) | none | console, file, webhook, SMTP, SES | signers | answers that are lost after the mail has left |
| Event log and expiry (`esig-mcp/src/events/log.ts`, `expiry.ts`) | `metadata.mcp.events`, `expiredEmittedAt` | `appendEvent`, `updateWithRetry`, the sweep | store, sinks | overlapping sweeps; an envelope expired by a signer's call |
| Webhook queue (`events/queue.ts`) | one file per queued, delivered and dead event | enqueue, tick, attempt, prune | disk, HTTP | append then enqueue is two steps; crash after delivery; order per envelope by a wall clock |
| Reminders (`reminders.ts`, `sendOneReminder`) | reminder lists in the row; a timer | tick, send, roll back | store, delivery | roll back by index; overlapping ticks |
| Signer identity (`identity/`) | the challenge and the record in the row | issue, finalize, verify, relay | store, registry | expiry, reuse, single use against concurrent proofs; `sign` looks twice at the signer's gate |
| Gateway (`esig-gateway`) | semaphore, replay cache, key set; `certs.json`, PQ key file | authenticate, `POST /v1/sign`, `ensureActiveCert`, `ensureActivePqKeys` | JWKS, core, disk | deadlines that leave a slot taken; files shared by partitions; clock readings used late |
| Audit chain (`esig-supabase`, `migrations/0002`, `esig-worm`) | rows with sequence and hash; exported objects | migration, insert trigger, verification, export | PostgreSQL, object store | overlapping transactions; pages that end too soon |
| Event intake (`handlers/webhook.ts`, `worker.ts`, `aws/`) | claims, FIFO queue, the versioned order | claim, enqueue, mark, receive, reduce and store | Stripe | death between two of them; a rotated secret |
| Billing reducer (`infra/provisioning/src/state-machine.ts`) | the order record | `reduceBillingEvent` | intake | late, repeated and reordered deliveries |
| Provisioning saga (`orchestrator.ts`, `handlers/worker.ts`) | job, lease, credential handoff pointer, resource records | process an event, run, suspend, resume, compensate, retry, hand off | queue, driver, secret store | compensation while a step is under way, crash between effect and record, five writes per credential |
| Shared tenant (`providers/driver.ts`, `shared.ts`, `migrations/0004`) | the tenant's rows; snapshots in the resource records | provision, reissue, mark ready, suspend, resume, disable | PostgreSQL functions | what is known of the tenant after a lost answer |
| Dedicated tenant (`dedicated.ts`, `supabase-dedicated-bootstrapper.ts`) | a project, its database, a stack, a password | the same calls | Supabase management API, CloudFormation | every call a sequence of requests, each of which may be lost or late |
| Waitlist (`infra/waitlist`) | submissions, outbox rows, a stream | submit, notify, backfill, replay, look up | DynamoDB, broker | connecting the stream while people submit and rows expire |
| PDF, HTTP, HSM, UUAID, Pillar, React, checkout | none, or one sequential pass | | | see section 7 |

What makes each of them correct, with the property that says so:

- **core, store**: one signature per signer (`SignedOnce`), in signing order, an answered void or decline
  never overwritten (`ImplementsCeremony`); no acknowledged write lost (`NoLostWrite`,
  `ImplementsRows`); everybody in line answered (`EveryWriteAnswered`).
- **expiry**: every missed deadline is noticed (`ExpiryNoticed`), its event fired once (`ExpiredOnce`).
- **creation**: nobody who is asked signs below what the server and the agent asked for, and whoever is not asked is a
  signer whom others go before (`SignedAsAsked`);
  an answer that names no failure means a link in the signer's hands (`AnsweredTruly`).
- **sealing**: only a completed envelope is sealed, and then it has its PDF (`SealsOnlyCompleted`);
  no event, attempt or erased link is lost to the object written back and nothing is reported that was not
  recorded (`EventsKept`); a completed envelope gets an outcome (`SealAttempted`).
- **events**: nothing is told twice or unlogged, the log goes back in time only if the clock does, and the queue reorders nothing
  that is in it (`ToldOnceInOrder`, of `ToldOnce` and `OnlyLateOvertaken`); nothing stays in it (`QueueSettles`).
- **reminders**: never more than the limit (`NoMoreThanDue`), those due are sent (`DueAreSent`).
- **identity**: one record per nonce (`NonceForOneRecord`), none that was not earned, and none missing of a signer who was asked (`IdentityEarned`).
- **gateway**: no more signs than slots (`SlotsHold`), everybody told (`EveryCallerTold`), one active certificate and
  key pair (`SingleActive`), one use of a token (`UsedOnce`).
- **chain**: linked and contiguous (`ChainWhole`); a verification that succeeds has seen all of it
  (`NoPrefixPasses`); what precedes an exported row is what was there, but
  for the metadata column, which is not verified (`Anchored`).
- **billing**: the state depends on the set of events, not on the order (`BillingConverges`);
  canceled and refunded are final (`NeverResurrected`); the stored order is one that reducing
  event by event gives (`ImplementsReducer`); every event is settled (`EveryEventSettles`).
- **saga**: ready only with a credential that works (`ReadyBacked`, `HandedOutWorks`); disabled only when
  off and revoked (`DisabledIsOff`); a missed payment destroys nothing
  (`SuspensionReversible`); an event is acknowledged only when the job has caught up
  (`AckMatchesOrder`); a credential is handed out once, revocation is final (`ImplementsHandoff`).
- **dedicated tenant**: nothing is set up twice (`SetUpOnce`), what is answered is so
  (`AnswersHold`), activation gets through (`ActivationConverges`).
- **waitlist**: the broker is told of everybody (`EverybodyReached`); the backfill ends
  (`BackfillConverges`).

The hazards behind these properties are listed, each at its source line, in
`PROJECT.json`.

## 2. The modules

    SigningCeremony (abstract)          VersionedRows (abstract)
            ^ implements                       ^ implements
    EnvelopeSigning --- EnvelopeGates   EnvelopeFileStore --- KeyedMutex
            :                 |                                   : one per partition
            : sign is one     |         IdentityGates          Gateway   GatewayAuth
            : step there      |           |        |
    SealPipeline -------------+    SignerIdentity  EnvelopeCreation
    EventDelivery   Reminders                                 AuditChain

    BillingReducer <== EventIntake (implements it)
            : one step of
    JobStateMachine, SharedTenant <--- ProvisioningDriver <--- ProvisioningJob
                        |                                        : the api_credential step of
                        +--- DedicatedTenant      CredentialHandoff ==> OneTimeHandoff (abstract)
    WaitlistOutbox

Solid lines are EXTENDS or INSTANCE, dotted ones say that one step of a module stands for what the other
has in detail.

The envelope:

- **EnvelopeGates** is the pure part of `envelope.ts`: statuses, the gates of a
  signing token (deadline first, then live, not yet signed, nobody earlier
  waiting), and the change each operation makes to the envelope in hand. A token
  stands for the signer it was minted for.
- **EnvelopeSigning** has the calls over one stored row. `Begin*` and `Prepare` are
  the unlocked read and the decision, `Commit` the compare-and-swap of `update`,
  `Conflict` the `EnvelopeConflictError` a call is answered with, `Retry` and `Reread`
  the loops of `appendEvent`, `updateWithRetry` and `expireOne`. A call may expire
  the envelope instead of doing what it was asked (`intent = "expire"`), exactly where
  `resolveSigningToken` does. `row.rev` is `__mcpRev`, `row.expiredEmitted` is
  `expiredEmittedAt`. `result`, `fired` are histories.
- **SigningCeremony** is what an envelope promises: recorded signatures, an outcome,
  a deadline. EnvelopeSigning implements it with `signed <- SignedSet(row)`.
- **KeyedMutex** is `KeyedMutex.run` for one key: `tail` is the map entry, `prev[c]`
  the promise a caller awaits, released in a `finally`.
- **EnvelopeFileStore** puts `insert` and `update` under that mutex: check the
  revision, read the file, rename the new file over it, each an await; an I/O error
  at any of them; a crash at any time. A row's content is the set of writes that
  went into it, so losing one shows.
- **VersionedRows** is what the store promises to the calls above: atomic insert at
  revision 0, atomic replacement at the next revision. EnvelopeFileStore implements it
  with `rows <- file`; EnvelopeSigning's `Commit` relies on it.
- **EnvelopeCreation** is `create`: the gates of the tool and the service in their order, the insert, and the writes of policy,
  pins and links after it, with other writers, deadlines and a death between any two; then each link's delivery
  and the SMTP dialogue with its second tries. Of `sign` there is what decides who may: the first look at the gate, behind
  which the proof is asked for (`SignerComes`), and the second, behind which the signature is recorded (`SignerSigns`), with the signing
  order of the request. `call[c]` is where a call is, `mailbox` who holds what.
- **SealPipeline** is `sign` after its identity check, `seal` and `reseal`, one
  action per await. `recordSignature` and `emit` are one step each there; EnvelopeSigning and EventDelivery
  show that their read, decision and write amount to that. `held[a]` is the envelope
  object a call works on, `files` the PDF `sealed.pdf` written in place and the completion receipt, `audit`
  the audit rows.
- **EventDelivery** is `emit`, step by step: append under the row's revision with trimming, audit of what was trimmed, enqueue; and
  the queue's pass with backoff, receipts, dead letters, pruning and crashes. An event has the time the wall clock showed at the read of the
  row; the clock may stand still between two events and be set back (`ClockMoves`), and of pending events of one time any may be the oldest.
- **Reminders** is the schedule and the manual tool for one signer, who may sign, whose envelope may end and
  whose link may be erased at any time. The tool asks for the signer's status only, the schedule for the envelope's too.
- **IdentityGates** is verification as a sequence of gates, for each level; **SignerIdentity** issues challenges, verifies proofs against the
  challenge as read, with a registry that may answer late or not at all, and consumes and records in one write. `sign`
  asks for a proof behind an open gate only; before the signer's turn (`turn`) it goes on without one (`Bypass`) to `recordSignature`, which
  looks again (`Sign`).

Beside it:

- **GatewayAuth** is the token gates, the key set fetched on demand and the replay cache; a request keeps the clock reading of its
  arrival. **Gateway** is what an authenticated request goes through: slot, deadline, mutex, the two
  key files that are read and written as a whole, audit row.
- **AuditChain** is the migration, the trigger under two isolation levels, the verifier, the export, and somebody who disables the triggers. A
  row says its scalar columns and its metadata; the verifier compares the former with the payload and takes the md5 of the latter over from
  it. Exported objects are written once, under a key that says the seconds of the first and the last row; `anchors` is the history of
  those written before any change.

The cloud:

- **BillingReducer** is `reduceBillingEvent`, applied by several replicas of an order to
  deliveries in any order and any number. Times and event ids are numbers.
- **EventIntake** is the way there: requests of Stripe that run at once, claims with a lease, deduplication by the queue, deliveries and
  dead letters, and `putOrder` under the order's version. It implements BillingReducer with one
  replica (`order <- row.order`).
- **JobStateMachine** is the job functions of `state-machine.ts` on a job record. The completed
  steps are always a prefix of `PROVISIONING_STEPS`, so a number stands for them.
- **SharedTenant** is what each SQL function of `0004_esig_cloud_tenants.sql` makes of a tenant,
  with the arguments and answers `shared.ts` accepts: status, billing, active key.
- **ProvisioningDriver** is `driver.ts`: the snapshots kept as resource records, which is
  the latest, and what `executeStep` and `compensateStep` ask of the tenant.
- **ProvisioningJob** composes them. A worker `w[e]` processes the event `e` from its
  delivery to its acknowledgement; each await that writes is an action. `Receive` to
  `ResumeJob` are `processClaimedStripeEvent`, `Claim` to `Fail` the run under the
  lease, `Prepare` to `SaveStep` a provisioning step, `Revoke` to `SaveUndone` a compensation step.
  `job` is saved by compare-and-swap (`SaveOr`), a conflict starts the run over (`Recover`). A
  key is named after the activation and publication it was generated for. `StepThrows` is an I/O
  error or a lost answer, the tenant having done what it was asked or not; `Crash` ends a
  worker and leaves its lease, which `Expire` frees.
- **CredentialHandoff** takes the credential step apart for runs that outlive their lease: renewal, fenced writes of the pointer, secrets that can be
  created once. **OneTimeHandoff** is what it promises.
- **DedicatedTenant** has the rows and SQL functions of SharedTenant in a project of their own, which is created, migrated, paused and restored by requests that may
  be lost or come late, beside a stack that may fail. `call` is the stage a call has reached.
- **WaitlistOutbox** is submission and outbox row, stream and notifier, backfill and replay, expiry and purge.

The `MC*` modules give the constants their values; most of them put several machines that share nothing in one
run, of which a behaviour runs the one named by `machine`. The definitions whose comment
begins with "Mutation" stand next to the one they vary and are not used by any
specification: replacing the one by the other shows that a property notices the bug. Of `ToldOnceInOrder`, `DueFirst` breaks
the order of the queue and `KnownFromFirst` the single event of a guarded fact.

## 3. The runs

| Run | Question | Instance | Why it is enough |
|---|---|---|---|
| `envelopes` | do racing calls and sweeps keep the ceremony? | 2 signers in sequence, 3 calls of any kind, 2 overlapping sweeps, 2 attempts | both signatures plus one call that races with them; two sweeps can conflict with each other and run out of attempts |
| | is the whole-file store a row store? | 3 callers, 2 envelopes, one caller with 2 writes | a queue of two behind the lock, another envelope's write in between, a second write with the object of the first |
| `sealing` | what survives two sign calls and a reseal? | 2 parallel signers, 1 reseal; symmetric signers | each pair (sign-sign, sign-reseal) collides at each await, and all three at once |
| `billing` | does the order of delivery matter? | 2 replicas, 6 events | two events of one second and precedence, one of another precedence, a later one, a cancellation, a late refund |
| | does every event reach the order, once? | a payment whose requests may run twice at once, alone with 2 faults, or with 1 and a cancellation or an event that is not taken; 2 deliveries, 2 attempts, a secret that is rotated | a conflict of two writes of the order; a fault in each delivery, so that the message is dropped |
| `saga` | what do faults, redeliveries and meeting workers leave of a tenant? | 3 steps, 2 attempts, 2 deliveries per event, seven scenes of 2 to 5 events with 0 to 2 faults | see below |
| `cloud` | is a dedicated tenant set up once, and does it answer truly? | 3 migrations, 4 losses, 3 changes of the billing state | a request of one attempt can arrive among those of the next, at the first, a middle and the last migration; active, missed, active, canceled |
| | is a credential handed out once, whoever owns the lease? | 3 runs, 3 faults | a run that outlived its lease beside two successors |
| | does the broker hear of everybody? | 3 persons, one of them a smoke test, one left by an earlier version; 3 passes, batches of 2, 1 retry; a second backfill, or rows that expire, or 2 mishaps | a batch with a good and a bad record; a row that changes between a scan and its write |
| `upkeep` | does somebody try to seal? | 2 parallel signers, 1 write of another caller | the two calls can invalidate each other's copy; no symmetry, since liveness is checked |
| | what is told of the events, and in which order? | 3 emissions, two of one fact; a log of 1 event, 2 attempts each, 2 times, 1 fault - a crash, an I/O error or a clock set back | every append but the first trims; append, enqueue and delivery overtake each other; events of one time, a newer one behind an older, a log that goes back with the clock |
| | are reminders neither lost nor too many? | 2 ticks and a tool at once, 2 slots, limit 2, 2 troubles | two that are about to be rolled back, and a third that counts them |
| | is an identity what was proven? | a sign call, a relay and a page at once, 2 nonces; every level, with and without a pin; a turn that has come or comes later; proofs and answers that are right or wrong in one respect | two proofs over one nonce, a nonce issued anew under a proof, a turn that comes between the two looks |
| `services` | is an envelope ever open below what was asked for? | 1 call, 4 requests, 7 servers, 2 signers | each channel and second try of SMTP; a floor, a level, pins, a registry; signers in line and side by side, 2 calls of `sign` at once; death and other writers between all writes |
| | does the gateway keep slots and keys? | 3 dossiers of 2 partitions, 2 slots, 1 place, 1 expiry, 1 stop | a full house, a queue, a refusal; two dossiers of one partition and one of another at the file |
| | is a token good once? | 3 requests, two with one jti, 2 key sets, a cache of 1 | a replay, an eviction, a fetch that ends long after |
| | does the chain hold? | 2 inserters, 1 old row, pages of 2 under caps of 1 and 2, 1 change, 2 exports; rows are written alike and changed in their columns or in their metadata | inserts that overlap each other, the migration and the verifier; a last page that is full; two rows of one second, and so two exports of one key |
| `audited_once`, `compensation`, `compensation_converges`, `certificate_kept`, `signed_verified` | see section 6 | as above, fewer machines, callers or faults; `compensation` the first scene without a fault | a counterexample is found |

The scenes of `saga` (`MCScene`): in FIFO order, pay - miss - pay - cancel with two faults
anywhere; pay - miss - pay - miss - pay with one; pay - cancel and two events later than the cancellation
with one; without the FIFO, where workers of different events meet, pay - miss and
pay - cancel with one fault, and three events, with and without a cancellation, without. Two faults with two deliveries are what
it takes to give an event up, so the bound separates one fault, which must be recovered from, from
a fault in each delivery. Of the seven steps only `api_credential` and `mark_ready` ask anything of
the provider; the others are one step without effect, before them, so `LastStep = 3`
with `CredStep = 2` has every kind of step and a stop before, between and after the two. The activations are bounded
by the number of events (`Generation`), which no scene reaches, since each activation needs an event of its own.

The sizes run from a hundred thousand (`billing`) to seven and a half million (`sealing`) distinct states. The limits of the
code are smaller in the runs, where the next one behaves like the last: `MaxAttempts` and the other retry loops (5 in the code, 2 in the
runs), the deliveries of the queue (5 and 2), `MaxEvents` (200 and 1), the backoff (6 and 2), the required migrations (4 and 3). Numbers
of faults, changes, touches, nonces, and each call made at most once, are bounds: guards of actions or constants of the
specification, never state constraints. In `envelopes` the calls, which nothing but their names tells
apart, begin in the order of these. Deadlock is not checked, because all of these systems may stop:
all calls answered, nobody calling any more, all events settled.

## 4. Fairness

- A call that has begun goes on: Node's event loop resolves its awaits. Hence weak
  fairness of `Continue(p)`, `Admit(c)`, `Locked(c)`, `Goes(c)`, `Step(e, s)`, `Works(d)`, `Stage`. Nobody is obliged to
  call: no fairness on `Begin`, `Void`, `Touch`, `ToolRuns`, `Acquires`.
- Timers tick on a `setInterval`: weak fairness of `BeginSweep`, `TickRuns`, `Deliver`; and time passes: `Elapse`, `LeaseExpires`.
- A promise that resolves wakes its waiter, so weak fairness of `Admit` suffices; a
  waiter that is admitted stays so until it enters.
- Stripe sends an event until it is answered (`Send`), the queue delivers until a message is acknowledged or dropped (`Receive`), and a
  rotated secret is in the store in the end (`Rotate`).
- The saga calls the provider until it is answered (`Begin(op)` of DedicatedTenant), and a project or a stack that is changing
  comes to rest (`ProjectMoves`, `StackSettles`).
- Failure is never fair: errors, losses and crashes may happen or not. `Fail` belongs to
  `Locked`, so "file operations come back, with success or with an error"; `Works` has a sign that fails
  as well as one that succeeds.

`ExpiryNoticed` holds although a sweep can lose all its attempts: every writer that
beats it has used up one of finitely many calls, and the sweep returns with the next
tick. `EveryWriteAnswered` includes calls behind one that throws. `SealAttempted`
excepts a call cut short (an audit insert that throws, a crash: there is no repair at
startup) and a write of another caller at the wrong moment; both are hazards of the code, not
of the model. `DueAreSent` excepts an entry left behind by the roll-back of another one (section 6), and ticks that overlapped. `QueueSettles` speaks of
the queue, not of the log: an event that was logged before a crash is never enqueued. `EveryCallerTold` says that again
and again nobody is waiting, so a stop of the process answers, by its closed connection, those it cuts off.

ProvisioningJob has no fairness and no liveness property: with faults the events of a scene are too
many states for a tableau. That a run does not end in the wrong place is said by safety
instead: `AckMatchesOrder` of every acknowledgement. EnvelopeCreation, SignerIdentity, GatewayAuth, AuditChain, CredentialHandoff and
WaitlistOutbox promise nothing that must eventually happen but through somebody who asks again.

## 5. The proofs

Nothing is assumed beyond the named assumptions on constants, which the code justifies: a limit that is
a positive number in the configuration (attempts, deliveries, slots, the size of the log) is one; calls of different kinds are different;
ids are unique and not empty; what an earlier version of the waitlist left has the form the backfill validates (`SettingAssumption`); what comes from outside has the form it is parsed into (`InputAssumption`, `CreationAssumption`);
two tokens that pass the issuer's signature and have one `jti` are one token (`TokenAssumption`); the events of the saga are numbered in the
order of their times (`EventAssumption`), and `mark_ready` comes after `api_credential` (`CredStepAssumption`, the order of
`PROVISIONING_STEPS`). Numbers of signers, calls, sweeps, callers, envelopes, dossiers, replicas, events, attempts, runs, steps
and faults are arbitrary; the bounds of the runs are constants, so that a theorem holds for each value of them.

Each module below proves the type invariant of what it is about, an inductive invariant made of named parts, and from it the
properties. TLC checked each inductive invariant on a run before it was proved.

- **EnvelopeSigning_proofs.** The invariant says of the row that it is consistent (`RowInv`: completed exactly when all have signed,
  declined only when voided, order kept, the flag only on an expired row) and of each process
  what its copy is worth: `Copy` - the copy is not newer than
  the row, and equals it when the revisions are equal - and `Gate` - the decision was
  right for the copy. The compare-and-swap turns "right for the copy" into "right for the
  row". Without `Copy` no property is inductive: a stale copy
  could carry any contents. From it: `OrderRespected`, `CompletedOnlyByAll`, `SingleUse`,
  `CancellationKept`, `ExpiryFiredOnce`, and `Implements` (each step is a step of SigningCeremony
  or a stutter).
- **EnvelopeFileStore_proofs.** First the mutex: the promises form a line, in which each caller has a
  number and waits for the one numbered just before, so two cannot wait for the same promise and only the first can be in. Then
  the store: what a caller under the lock
  has read is what the file holds, a copy at the row's revision contains every acknowledged write of
  that row, and an id being inserted is nobody else's. From it: `OneAtATime`, `EntryIsDropped`, `NothingLost`, and
  `Implements` (only `Rename` changes the rows).
- **SealPipeline_proofs.** A completed envelope stays completed, so the object a sealing call holds either is the row up to the outcome
  it is about to record, or is older and its write is refused (`Copies`). What the write
  brings with it is therefore never a seal without a PDF (`Files`), never an uncounted attempt (`Ledger`), never a log that lacks an event (`Log`).
  From it: `SealsOnlyTheCompleted`, `EventsAreKept`, `CompletedIsFinal`.
- **EventIntake_proofs.** First the reducer: the order is determined by the set of events -
  refunded if a refund is among them, else canceled if a cancellation is, else
  as the event with the greatest cursor says; the facts are the union. Replicas with the same set therefore agree
  (`Converges`); this needs that
  the cursor is a total order on events with unique ids. `Final` is an action property
  of `Takes` alone. Then the intake: a write under the order's version reduces one event into the order as it is (`Put`), so the row
  implements the reducer (`RowImplementsReducer`) and what is shown of the reducer holds of the row (`StoredOrderDetermined`). An event
  answered with 2xx is in the queue, in the order, among the dead letters, or with somebody who is not through
  with it (`Kept`): `NothingAnsweredIsLost`.
- **Upkeep_proofs.** SignerIdentity: a request's copy of the row is worth its revision, and what it has established of its own proof stays
  true through its awaits (`NonceIsForOneRecord`, `IdentityIsEarned`, which excepts the request that found the gate shut; `signed_verified` of section 6 shows why it must). Reminders: the mails and the entries still owed
  one are never more than the entries in the row, whichever entry a roll-back takes (`Booked`), hence
  `NeverMoreThanDue` although it may be the wrong one (section 6). EventDelivery: an emission's attempt that has not written is of an event the log does not have and,
  at the row's revision and while the clock was not set back, not older than the log (`AttemptOf`, `Written`); files and receipts are of logged
  events (`Receipts`): the lemma `LoggedOnce`. What is received or under way is not newer than what is queued, but for events that came late
  (`InTurn`): `QueueReordersNothing`. With what is logged it makes `NothingToldTwice`.
- **Services_proofs.** EnvelopeCreation: the links leave last, when policy and pins are in the row, and
  no other writer takes them out (`Held`); whoever was not asked found earlier signers unsigned, for the other reasons a gate is shut never go
  away: `SignersMeetTheRequest`, `AnswersAreTrue`. Gateway: the semaphore's count is the number of signs under way and who waits is in line
  once (`Slots`); every copy of a key file has at most one active row per partition, and an insert leaves one that has again
  (`Copies`, `Locked`): `SlotsAreHeld`, `NoSlotIsLost`, `OneActive`, `PartitionIsExclusive`. GatewayAuth: an accepted token is in the cache until it ends, was pushed out of a
  full cache, or the process restarts (`Remembered`): `TokenUsedOnce`. AuditChain: a chain that verifies is determined by its sequence of
  payloads (`Chain`); until somebody tampers, the log is such a chain, a snapshot in use is a beginning of it, and the row of the transaction that
  holds the lock is the next one (`Kept`): a snapshot that is out of date leads to a seq that is taken. `ChainStaysWhole`, `WholeChainIsRead`; and
  `ExportsAnchor`, from the last exported row downwards, since a hash says which hash and payload went into it, and the payload all of the row
  but the metadata the column has now; the object under a key stays the one it was, since keys are written once (`KeptExports`). What the backfill computes by recursion
  is shown to equal a closed form (`Filled`) by a least counterexample, where induction is not to be had.
- **Cloud_proofs.** CredentialHandoff: the argument is the fencing. `Synced`: as long as a run owns the lease - the owner and the token of its
  claim - the pointer is what the run believes it to be. `Prepared`: what a run believes suffices for its next write, which
  therefore is a step of OneTimeHandoff; the write of a run that lost the lease is refused. `Backed`: what is published has its
  secret. Secrets are only ever added, by whoever, so a run that outlived its lease does no harm to them. Hence `Implements`. That
  what is handed out works (`WhatIsHandedOutWorks`) needs more, since the provider knows no fencing: as long as no run outlives its lease only one is at
  work (`Sole`), it unbinds the pointer before it asks for a credential (`Unbound`), and so a bound pointer names the last
  credential (`Works`). Then DedicatedTenant: a request that arrives late asks for the password that is stored, or for a migration that
  the ledger refuses (`Passwords`, `Schema`): `NothingSetUpTwice`. What a call has been through stays so until it is answered (`Done`), since one call is made
  at a time, for the billing state it was begun for (`Asked`), and each part is there only after what it stands on (`Built`, `Serving`): `AnswersAreSo`.
  Then WaitlistOutbox: an id is one person's (`RowOk`), and whoever has a notice of it, or is about to write one - the table, the outbox, the
  stream, the replay, each row a backfill has read - has the same (`Carried`, `Identified`). A backfill never loses sight of a person: until
  somebody has given the row its id and its notice (`Settled`), the run still has the row as it is among those it read (`Pending`). So whoever ends a
  pass leaves everybody settled, whatever others write meanwhile, and from then on rows are settled when they are written (`TablesOk`); a later pass changes
  something only if the clock moved (`BackfillsEnd`, for two passes or more; the code has three). From the end of the replay's scan on, each live notice is
  told, dead, or still to come (`Kept`): `EverybodyIsReached`. What earlier versions left is any table that satisfies `LeftBehind`, an assumption of
  WaitlistOutbox: above all, an id of an earlier version is one person's.
- **ProvisioningJob_proofs.** Only the holder of the lease writes pointers, secrets, snapshots and the tenant, so what it knows
  of them stays true while it works (`Handing`, `First`). The job, though, is also saved by workers that hold nothing. A holder's copy of it
  may be stale (`CopyOf`), and then the job was turned to a compensation, or to a later activation of which there is no
  pointer yet (`Aside`): what that holder still does to the tenant is about an activation of which nothing is
  claimed any more (`Whole`). The driver's answers enter by lemmas (`executeStepIs`, `compensateStepIs`). From it, with and
  without the FIFO: `ReadyIsBacked`, and `DisabledMeansOff`, which holds only until the first recovery; `compensation` shows why it must say so.
  With the FIFO one worker is under way at a time (`OneUnderWay`) and what it has read is the job and the order as they are (`UpToDate`). That nothing is
  being compensated, and no tenant ended, but for a cancellation is part of this invariant (`InTurn`): `MissedPaymentsDestroyNothing`, `AcksAreHonest`.

Only model-checked: the liveness properties, which the prover does not handle under
fairness (`ExpiryNoticed`, `EveryWriteAnswered`, `EveryEventSettles`, `SealAttempted`, `QueueSettles`, `DueAreSent`, `ActivationConverges`,
`EveryCallerTold`). Every safety property of the passing runs is stated by a theorem.

## 6. What the code does not keep

Each of these is a run in which TLC finds the violation:

- `audited_once`: a sign call that is overtaken by the last signer's finds the envelope
  completed when it reads it again, and seals it as well: two audit rows `envelope.completed`,
  two uploads to one path. Sealing only in the completing call is not the remedy: that
  call can lose the compare-and-swap to the other one's event, and `SealAttempted`
  fails (mutant `OnlyLastSeals`).
- `compensation`: pay, miss a payment, pay again, cancel - in order, without a fault. The suspension
  disposed of its snapshots; `compensateStep` takes any disposed snapshot, with a latest one that is not
  "suspended", for the receipt that the tenant is off, and calls nothing. The job is disabled, the
  event acknowledged, the tenant ready and its key active. `DisabledIsOff` shows that it
  holds until the first recovery, also when the answer of the provisioning call was lost. For the same reason a
  second missed payment is not enforced, and the payment after it is refused for ever.
- `compensation_converges`: `disable` of a dedicated tenant pauses the project last and begins with a query to its database. If the answer
  of the pause is lost, every repetition asks a database that is gone. Signing is off by then, but the tenant is never
  recorded as disabled.
- `certificate_kept`: `FsCertStore` reads and writes back one file for all partitions, the gateway's mutex is per partition: first
  signatures of two partitions overwrite each other's row, and an audit row names a certificate the store does not have.
- `signed_verified`: `sign` verifies an identity only if its first look at the gate finds it open (`envelopes.ts:1160`), and goes on to
  `recordSignature` in any case, which looks again (1265). A signer who calls before their turn, while the signer before them commits, signs
  without an identity record, whatever level the envelope asks for; a comment (1150-1155) says that no signature is recorded then. Without a
  signing order it cannot happen. Hence the exceptions in `IdentityEarned` and `SignedAsAsked`.

Found while modelling, and kept in the models as the code has it:

- A failed reminder is taken back by the position it was appended at (`envelopes.ts:1700`), "exactly the entry this attempt appended" (1679-1680). The
  roll-back of an earlier entry moves the ones behind it: an entry of a mail that was never sent stays, or the entry of one that was sent goes.
- An event is appended to the row and enqueued in a later step (`envelopes.ts:519`). Two emissions that overlap there put the newer event into the
  queue first, and a pass that comes in between delivers it first, although the clock only goes forward and nothing fails; `queue.ts:14-16` calls
  the deliveries strictly ordered. `OnlyLateOvertaken` is what holds: `late` has the events this happened to.
- The verifier takes the md5 of a row's metadata over from `payload_canonical` and does not read the metadata column, as its
  own comment says (`audit-chain.ts:27-32`). Metadata that is changed verifies, also in front of an exported row, although the
  migration (17-19) and `esig-uuaid/README.md:14-15` say that the chain breaks. Hence the exception in `Anchored`.
- The update that records a seal's outcome is outside the try block (`envelopes.ts:1937`, `1975`), so `EnvelopeConflictError` leaves `seal` and
  `sign`, although a comment (1319) says that it never throws for a seal failure.
- `listEvents` returns what is strictly newer than `since`, "the `createdAt` of the last event you've already seen" (`log.ts:59-61`), and events are
  stamped in milliseconds (113): who asks that way does not see an event of the same millisecond that was appended after the answer, nor one
  stamped after the clock was set back. Pending events of one millisecond are delivered in the order of the directory.
- The plan of an order depends on the order of delivery (`state-machine.ts:172`); `BillingConverges` leaves it out.
- A subscription can get stuck. The answer of `provision` is lost in each delivery and the event given up, then a missed payment suspends what is
  there (`suspendUnknown`, `shared.ts:400`): the next payment provisions again and is refused. With a dedicated tenant `suspendUnknown`
  answers PROVIDER_CONFLICT for ever when only the project exists (`dedicated.ts:505`), and a stack whose creation failed stays as it is (763).
- The handoff of an older activation is left as it is when a new one begins (`orchestrator.ts:736`).
- A challenge draws from the same hourly limit as the creation of envelopes (`envelopes.ts:1129`), which the comment (1125) calls a distinct bucket.
- After a 535 to AUTH PLAIN `email/transport.ts` tries AUTH LOGIN; the comment at 357 counts 535 among the replies that end the dialogue.
- The verifier reports a break when a row is inserted after its first page, with which it has counted them
  (`audit-chain.ts:180`); `NoPrefixPasses` says the other direction. Export keys have the granularity of a second.
- A submission whose row expired between scan and write of the backfill (`backfill-outbox.js:193`) comes back as a stub, and a submission
  made again while its expired row is not yet purged is answered with the old one (`handler.js:361`).
- Pins given by a signer's id never match, and pins of an envelope of level "none" enforce nothing.
- The replay cache is lost with the process and evicts what is still valid when it is full; a failed fetch of the key set is not
  paced (`auth.ts:129`).

What holds only because the queue is a FIFO (`template.yaml`, one message group per subscription): without it TLC finds
that a missed payment processed late replaces a compensation by a suspension, and that a
run which read an older, active order compensates a suspended job with target "disabled". `SuspensionReversible` and `AckMatchesOrder`
are therefore stated for the FIFO; `ReadyBacked` does not need it.

## 7. What is not modelled

PDF rendering, signing and verification (byte-level and cryptographic, stateless), HTTP
routing and pages, configuration, templates and the React components, the checkout function (one request to Stripe and back), the PKCS#11
adapter, the UUAID exchange and the Pillar bridge: none keeps a state between requests. Proofs they relay are inputs
of SignerIdentity. Of other components is left out:

- the deadline in SealPipeline, which EnvelopeSigning has; identity checks in both, which SignerIdentity has with one
  signer, whose turn comes, and EnvelopeCreation with all signers of an envelope and the proof as one step; `resend` of a link, and the drawing
  of the signature;
- the ingestion of documents and MIME encoding of mails in EnvelopeCreation; the signing of a webhook's body and the vetting of its address;
- the gateway's other modes of authentication and its rendering; of its semaphore, counting down and up are one step, although the code
  has a microtask in between, in which nobody else runs who counts;
- retention and PDFs in the WORM store; exports over a `from` and `to` of the caller's own;
- of the dedicated tenant: SQL statements and requests to CloudFormation that take effect late. Where the answer is lost they take effect at once or
  never; only the creation of a project and migrations can arrive after they were given up. `AnswersHold`, `SetUpOnce` and
  `ActivationConverges` are shown under this;
- of the saga: a worker that outlives its lease, which CredentialHandoff has (the deployed one is stopped after five minutes, the
  lease lasts ten and is renewed); conflicts on the order, which EventIntake has; failures for an incomplete order or a wrong mode;
  the handoff receipts, which the code re-verifies against pointer and secret
  whenever they would matter; the time of a retry, which with the FIFO has always come (a message is invisible for half an
  hour) and without it may have come or not;
- members, plans, limits and storage namespaces of a tenant.

The saga runs against shared tenants; a dedicated one is modelled below the saga, with the calls the saga makes. The file store is for one
process (`stores.ts` says so), and so is its model. Read-only calls (`list`, `get`, `download`) change nothing.

## 8. Plan

Nothing is left to prove that the prover can reach; what a new module checks should come with its theorem.

Of the model: Gateway with KeyedMutex itself instead of one holder per partition; ProvisioningJob over DedicatedTenant instead of
SharedTenant, on a scene that fits.
