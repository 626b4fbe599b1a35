----------------------------- MODULE EventIntake -----------------------------
(***************************************************************************)
(* From Stripe to the order: handlers/webhook.ts checks, claims            *)
(* (aws/dynamo-event-ledger.ts) and enqueues (aws/provisioning-queue.ts)   *)
(* an event; handlers/worker.ts takes it from the queue and                *)
(* reduceAndStoreOrder of orchestrator.ts writes it into the order row     *)
(* (aws/dynamo-provisioning-store.ts).                                     *)
(*                                                                         *)
(* Stripe sends an event until it is answered with 2xx, also while an      *)
(* earlier request is still running; a request or a worker may die, and    *)
(* what it asked of the table or the queue may have happened all the same, *)
(* or happen later.  One subscription, so one group of the FIFO queue.     *)
(***************************************************************************)
EXTENDS BillingReducer, Sequences, FiniteSets

CONSTANTS
  Ignored,         \* events of a type, or without a subscription, we do not take
  Request,         \* <<event, k>>: the k-th of an event's requests that run at once
  Scene,           \* the sets of events that arrive
  MaxReceives,     \* maxReceiveCount of the queue (5 in the code)
  MaxAttempts,     \* ORDER_CAS_ATTEMPTS (4 in the code)
  MaxFaults        \* bound: deaths, lost answers, leases that expire too soon;
                   \* some of them may be behind a behaviour from the start

ASSUME IgnoredAssumption == Ignored \subseteq Event /\ Request \subseteq Event \X (Nat \ {0})
ASSUME SceneAssumption == Scene \subseteq SUBSET Event
ASSUME BoundsAssumption ==
  MaxReceives \in Nat \ {0} /\ MaxAttempts \in Nat \ {0} /\ MaxFaults \in Nat

VARIABLES
  scene,      \* the events that arrive
  ledger,     \* the claim of each event
  queue,      \* the messages of the group
  recent,     \* the deduplication ids the queue remembers
  receives,   \* how often the first message was received
  dead,       \* the dead-letter queue
  row,        \* the order, and its version
  reduced,    \* the events it was reduced from (a history)
  late,       \* writes of the order nobody waits for any more
  secret,     \* the rotation of the secret: stored anew, then signed with
  call,       \* the requests
  worker,     \* the worker
  acked,      \* the events Stripe got a 2xx for
  faults

ivars == <<scene, ledger, queue, recent, receives, dead, row, reduced, late, secret,
           call, worker, acked, faults>>

\* The order row is one replica.
Reducer == INSTANCE BillingReducer WITH
  Replica <- {"order"}, order <- [r \in {"order"} |-> row.order],
  delivered <- [r \in {"order"} |-> reduced]

Accepted == Event \ Ignored
NoOwner  == 0
Claim    == [status: {"absent", "pending", "enqueued", "ignored"},
             owner: Nat, leased: BOOLEAN]
Row      == [order: OrderType, version: Nat]
NoEvent  == [id |-> -1]
Idle     == [event |-> NoEvent, phase |-> "idle", read |-> [order |-> NoOrder, version |-> 0],
             tries |-> 0]

ITypeOK ==
  /\ ledger \in [Event -> Claim]
  /\ \A i \in 1..Len(queue) : queue[i] \in Accepted
  /\ recent \subseteq Accepted
  /\ receives \in 0..MaxReceives
  /\ dead \subseteq Accepted
  /\ row \in Row
  /\ reduced \subseteq Accepted
  /\ late \subseteq [event: Accepted, read: Row]
  /\ scene \in Scene
  /\ secret \in {"old", "stored", "new"}
  /\ call \in [Request -> {"idle", "verifying", "claiming", "looking", "taking",
                    "enqueuing", "marking"}]
  /\ worker.phase \in {"idle", "reading", "writing"}
  /\ acked \subseteq Event
  /\ faults \in 0..MaxFaults

IInit ==
  /\ ledger = [e \in Event |-> [status |-> "absent", owner |-> NoOwner, leased |-> FALSE]]
  /\ queue = <<>> /\ recent = {} /\ receives = 0 /\ dead = {}
  /\ row = [order |-> NoOrder, version |-> 0]
  /\ reduced = {} /\ late = {}
  /\ scene \in Scene
  /\ secret = "old"
  /\ call = [c \in Request |-> "idle"]
  /\ worker = Idle
  /\ acked = {}
  /\ faults \in 0..MaxFaults

Fault   == faults < MaxFaults /\ faults' = faults + 1
table   == <<row, reduced, late>>
backlog == <<queue, recent, receives, dead>>

------------------------------------------------------------------------------
(***************************************************************************)
(* The webhook.                                                            *)
(***************************************************************************)
Goto(e, s, phase) == call' = [call EXCEPT ![<<e, s>>] = phase]

\* 2xx; anything else makes Stripe send the event again.
Accept(e, s) == acked' = acked \cup {e} /\ Goto(e, s, "idle")
Refuse(e, s) == UNCHANGED acked /\ Goto(e, s, "idle")
Proceed(e, s, phase) == UNCHANGED acked /\ Goto(e, s, phase)

Send(e, s) ==
  /\ e \in scene \ acked /\ call[<<e, s>>] = "idle"
  /\ Goto(e, s, "verifying")
  /\ UNCHANGED <<scene, ledger, backlog, table, secret, worker, acked, faults>>

\* The signature is checked with the cached secret, which may be an older one,
\* and once more with the stored one: only a secret Stripe does not sign with yet
\* fails both.
Verify(e, s) ==
  /\ call[<<e, s>>] = "verifying"
  /\ \/ Proceed(e, s, "claiming")
     \/ secret = "stored" /\ Refuse(e, s)
  /\ UNCHANGED <<scene, ledger, backlog, table, secret, worker, faults>>

\* claimEvent: whoever creates the row delivers the event.
ClaimEvent(e, s) ==
  /\ call[<<e, s>>] = "claiming"
  /\ \/ /\ ledger[e].status = "absent" /\ e \in Ignored
        /\ ledger' = [ledger EXCEPT ![e].status = "ignored"]
        /\ Accept(e, s)
     \/ /\ ledger[e].status = "absent" /\ e \notin Ignored
        /\ ledger' = [ledger EXCEPT ![e] = [status |-> "pending", owner |-> s, leased |-> TRUE]]
        /\ Proceed(e, s, "enqueuing")
     \/ /\ ledger[e].status # "absent"
        /\ UNCHANGED ledger
        /\ Proceed(e, s, "looking")
  /\ UNCHANGED <<scene, backlog, table, secret, worker, faults>>

\* A row that is there: delivered, being delivered, or left behind.
Look(e, s) ==
  /\ call[<<e, s>>] = "looking"
  /\ IF ledger[e].status \in {"enqueued", "ignored"} THEN Accept(e, s)
     ELSE IF ledger[e].leased THEN Refuse(e, s)
     ELSE Proceed(e, s, "taking")
  /\ UNCHANGED <<scene, ledger, backlog, table, secret, worker, faults>>

\* Mutation: a claim that was left behind stays where it is.
TakeOverNever(e, s) ==
  /\ call[<<e, s>>] = "taking"
  /\ Refuse(e, s)
  /\ UNCHANGED <<scene, ledger, backlog, table, secret, worker, faults>>

TakeOver(e, s) ==
  /\ call[<<e, s>>] = "taking"
  /\ IF ledger[e].status = "pending" /\ ~ledger[e].leased
     THEN /\ ledger' = [ledger EXCEPT ![e].owner = s, ![e].leased = TRUE]
          /\ Proceed(e, s, "enqueuing")
     ELSE Refuse(e, s) /\ UNCHANGED ledger
  /\ UNCHANGED <<scene, backlog, table, secret, worker, faults>>

\* SendMessage; an id the queue remembers is taken and dropped.
Enqueue(e, s) ==
  /\ call[<<e, s>>] = "enqueuing"
  /\ queue' = IF e \in recent THEN queue ELSE Append(queue, e)
  /\ recent' = recent \cup {e}
  /\ Proceed(e, s, "marking")
  /\ UNCHANGED <<scene, ledger, receives, dead, table, secret, worker, faults>>

\* markEnqueued, for the owner of the lease only.
MarkEnqueued(e, s) ==
  /\ call[<<e, s>>] = "marking"
  /\ IF ledger[e].status = "pending" /\ ledger[e].owner = s
     THEN /\ ledger' = [ledger EXCEPT ![e] = [status |-> "enqueued", owner |-> NoOwner,
                                              leased |-> FALSE]]
          /\ Accept(e, s)
     ELSE Refuse(e, s) /\ UNCHANGED ledger
  /\ UNCHANGED <<scene, backlog, table, secret, worker, faults>>

\* A table or queue that fails, or an answer that is lost: the request did its
\* step or not, and Stripe sees no 2xx.
StepFails(e, s) ==
  /\ call[<<e, s>>] # "idle"
  /\ Fault
  /\ Refuse(e, s)
  /\ UNCHANGED <<scene, ledger, backlog, table, secret, worker>>

\* A function is stopped after 10 seconds and a lease lasts 60: it expires under
\* a running request only by a fault of the clock.
LeaseExpires(e) ==
  /\ ledger[e].leased
  /\ ledger' = [ledger EXCEPT ![e].leased = FALSE]
  /\ IF call[<<e, ledger[e].owner>>] \in {"enqueuing", "marking"} THEN Fault ELSE UNCHANGED faults
  /\ UNCHANGED <<scene, backlog, table, secret, call, worker, acked>>

\* The queue remembers an id for five minutes.
Forget(e) ==
  /\ e \in recent /\ \A r \in Request : r[1] = e => call[r] = "idle"
  /\ recent' = recent \ {e}
  /\ UNCHANGED <<scene, ledger, queue, receives, dead, table, secret, call, worker, acked, faults>>

Rotate ==
  /\ \/ secret = "old" /\ secret' = "stored"
     \/ secret = "stored" /\ secret' = "new"
  /\ UNCHANGED <<scene, ledger, backlog, table, call, worker, acked, faults>>

------------------------------------------------------------------------------
(***************************************************************************)
(* The worker.                                                             *)
(***************************************************************************)
\* A message that was received too often goes to the dead-letter queue, and only
\* then the next one is delivered.
Receive ==
  /\ worker.phase = "idle" /\ queue # <<>>
  /\ IF receives = MaxReceives
     THEN /\ dead' = dead \cup {Head(queue)}
          /\ queue' = Tail(queue)
          /\ receives' = 0
          /\ UNCHANGED worker
     ELSE /\ receives' = receives + 1
          /\ worker' = [Idle EXCEPT !.event = Head(queue), !.phase = "reading"]
          /\ UNCHANGED <<dead, queue>>
  /\ UNCHANGED <<scene, ledger, recent, table, secret, call, acked, faults>>

GetOrder ==
  /\ worker.phase = "reading"
  /\ worker' = [worker EXCEPT !.phase = "writing", !.read = row, !.tries = @ + 1]
  /\ UNCHANGED <<scene, ledger, backlog, table, secret, call, acked, faults>>

\* Mutation: the version of the row is not compared.
PutUnversioned(e, read) ==
  /\ row' = [order |-> reduceBillingEvent(read.order, e), version |-> row.version + 1]
  /\ reduced' = reduced \cup {e}

\* putOrder: attribute_not_exists, or the version that was read.
Put(e, read) ==
  IF row = read
  THEN /\ row' = [order |-> reduceBillingEvent(read.order, e),
                  version |-> read.version + 1]
       /\ reduced' = reduced \cup {e}
  ELSE UNCHANGED <<row, reduced>>

\* A conflict reads the row again, up to a limit; what follows the write is the
\* saga's, and acknowledges the message when it is done.
PutOrder ==
  /\ worker.phase = "writing"
  /\ Put(worker.event, worker.read)
  /\ IF row # row'
     THEN worker' = Idle /\ queue' = Tail(queue) /\ receives' = 0
     ELSE /\ worker' = IF worker.tries < MaxAttempts
                       THEN [worker EXCEPT !.phase = "reading"] ELSE Idle
          /\ UNCHANGED <<queue, receives>>
  /\ UNCHANGED <<scene, ledger, recent, dead, late, secret, call, acked, faults>>

\* The worker dies, before its write, after it, or with the write under way.
WorkerDies ==
  /\ worker.phase # "idle" /\ Fault
  /\ worker' = Idle
  /\ \/ UNCHANGED table
     \/ worker.phase = "writing" /\ Put(worker.event, worker.read) /\ UNCHANGED late
     \/ /\ worker.phase = "writing"
        /\ late' = late \cup {[event |-> worker.event, read |-> worker.read]}
        /\ UNCHANGED <<row, reduced>>
  /\ UNCHANGED <<scene, ledger, backlog, secret, call, acked>>

LatePut ==
  /\ \E p \in late : Put(p.event, p.read) /\ late' = late \ {p}
  /\ UNCHANGED <<scene, ledger, backlog, secret, call, worker, acked, faults>>

Step(e, s) ==
  \/ Verify(e, s) \/ ClaimEvent(e, s) \/ Look(e, s) \/ TakeOver(e, s)
  \/ Enqueue(e, s) \/ MarkEnqueued(e, s)

INext ==
  \/ \E r \in Request : Send(r[1], r[2]) \/ Step(r[1], r[2]) \/ StepFails(r[1], r[2])
  \/ \E e \in Event : LeaseExpires(e) \/ Forget(e)
  \/ Rotate \/ Receive \/ GetOrder \/ PutOrder \/ WorkerDies \/ LatePut

IFairness ==
  /\ \A e \in Event : WF_ivars(LeaseExpires(e))
  /\ \A r \in Request : WF_ivars(Send(r[1], r[2])) /\ WF_ivars(Step(r[1], r[2]))
  /\ WF_ivars(Rotate) /\ WF_ivars(Receive) /\ WF_ivars(GetOrder) /\ WF_ivars(PutOrder)

ISpec == IInit /\ [][INext]_ivars /\ IFairness

------------------------------------------------------------------------------
(***************************************************************************)
(* Properties.                                                             *)
(***************************************************************************)
\* The order row is what reducing events one at a time makes of it: whatever
\* dies, is repeated or arrives late, no event is reduced into an order that
\* lacks another one already reduced.
ImplementsReducer == Reducer!Init /\ [][Reducer!Next]_<<row, reduced>>

\* Every event is answered in the end, across a rotation of the secret and
\* claims that were left behind, and every accepted one is reduced or put aside.
EveryEventSettles ==
  \A e \in Event :
    <>(e \in scene => e \in acked /\ (e \in Accepted => e \in reduced \cup dead))
==============================================================================
