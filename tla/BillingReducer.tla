---------------------------- MODULE BillingReducer ----------------------------
(***************************************************************************)
(* reduceBillingEvent of infra/provisioning/src/state-machine.ts: the      *)
(* order of a subscription, folded from the Stripe events in whatever      *)
(* order, and however often, they are delivered.                           *)
(*                                                                         *)
(* Two or more replicas of one order receive events independently: what    *)
(* "delivery permutations converge" says is that replicas that received    *)
(* the same events agree.  Storing an order under its version is not       *)
(* modelled here: a delivery is one step.  An ignored event changes        *)
(* nothing and is left out, and so is the disposition, which no caller     *)
(* reads.                                                                  *)
(***************************************************************************)
EXTENDS Integers

CONSTANTS
  Replica,   \* the copies of the order that are compared
  Event,     \* the accepted events of one subscription
  Plan,      \* the plans of the catalog
  NoPlan,    \* the event carries, or the order knows, no plan
  Fact       \* customerId, ownerSubject, mode: immutable once known

BillingState == {"pending", "active", "past_due", "canceled", "refunded"}
Terminal     == {"canceled", "refunded"}

\* An event: desired is what desiredBillingState reads from its type and
\* status, knows the facts it carries, all events agreeing on their values.
\* Times and ids are numbers; ids are compared by localeCompare.
EventType == [id: Nat, createdAt: Nat, desired: BillingState,
              plan: Plan \cup {NoPlan}, knows: SUBSET Fact]

ASSUME EventAssumption ==
  /\ Event \subseteq EventType
  /\ \A e, f \in Event : e.id = f.id => e = f
ASSUME PlanAssumption == NoPlan \notin Plan

STATE_PRECEDENCE ==
  [pending |-> 1, active |-> 2, past_due |-> 3, canceled |-> 4, refunded |-> 5]

VARIABLES
  order,      \* the order record of each replica
  delivered   \* the events it has reduced (a history)

vars == <<order, delivered>>

CursorType == [createdAt: Nat, precedence: 1..5, id: Nat]
OrderType  == [there: BOOLEAN, billingState: BillingState, stateCursor: CursorType,
               latestEventCreatedAt: Nat, latestEventId: Nat,
               plan: Plan \cup {NoPlan}, known: SUBSET Fact]

NoOrder == [there |-> FALSE, billingState |-> "pending",
            stateCursor |-> [createdAt |-> 0, precedence |-> 1, id |-> 0],
            latestEventCreatedAt |-> 0, latestEventId |-> 0,
            plan |-> NoPlan, known |-> {}]

TypeOK ==
  /\ order \in [Replica -> OrderType]
  /\ delivered \in [Replica -> SUBSET Event]

------------------------------------------------------------------------------
\* eventCursor.
Cursor(e) == [createdAt  |-> e.createdAt,
              precedence |-> STATE_PRECEDENCE[e.desired],
              id         |-> e.id]

\* Mutation: an event of the same second is always taken.
NotBefore(c, d) == c.createdAt >= d.createdAt

\* compareCursor(c, d) > 0.
After(c, d) ==
  \/ c.createdAt > d.createdAt
  \/ c.createdAt = d.createdAt /\ c.precedence > d.precedence
  \/ c.createdAt = d.createdAt /\ c.precedence = d.precedence /\ c.id > d.id

\* isLatestAcceptedEvent.
IsLatest(o, e) ==
  \/ e.createdAt > o.latestEventCreatedAt
  \/ e.createdAt = o.latestEventCreatedAt /\ e.id > o.latestEventId

\* Mutation: timestamps dominate terminal states.
LatestWins(o, e) == After(Cursor(e), o.stateCursor)

\* The event determines the billing state from now on: terminal states
\* dominate timestamps, and a refund dominates a cancellation.
Takes(o, e) ==
  \/ o.billingState # "refunded" /\ e.desired = "refunded"
  \/ o.billingState \notin Terminal /\ e.desired = "canceled"
  \/ /\ o.billingState \notin Terminal
     /\ e.desired \notin Terminal
     /\ After(Cursor(e), o.stateCursor)

\* mayReplacePlan.
MayReplacePlan(o, e) ==
  IsLatest(o, e) /\ o.billingState \notin Terminal /\ e.desired \notin Terminal

\* mergeMetadata.
MergedPlan(o, e) ==
  IF e.plan # NoPlan /\ (MayReplacePlan(o, e) \/ o.plan = NoPlan)
  THEN e.plan ELSE o.plan

\* The disposition "created".
Created(e) ==
  [there                |-> TRUE,
   billingState         |-> e.desired,
   stateCursor          |-> Cursor(e),
   latestEventCreatedAt |-> e.createdAt,
   latestEventId        |-> e.id,
   plan                 |-> e.plan,
   known                |-> e.knows]

\* Every other disposition.
Updated(o, e) ==
  [there                |-> TRUE,
   billingState         |-> IF Takes(o, e) THEN e.desired ELSE o.billingState,
   stateCursor          |-> IF Takes(o, e) THEN Cursor(e) ELSE o.stateCursor,
   latestEventCreatedAt |-> IF IsLatest(o, e) THEN e.createdAt ELSE o.latestEventCreatedAt,
   latestEventId        |-> IF IsLatest(o, e) THEN e.id ELSE o.latestEventId,
   plan                 |-> MergedPlan(o, e),
   known                |-> o.known \cup e.knows]

reduceBillingEvent(o, e) == IF o.there THEN Updated(o, e) ELSE Created(e)

------------------------------------------------------------------------------
Init ==
  /\ order = [r \in Replica |-> NoOrder]
  /\ delivered = [r \in Replica |-> {}]

\* Stripe delivers at least once and in any order.
Deliver(r, e) ==
  /\ order' = [order EXCEPT ![r] = reduceBillingEvent(order[r], e)]
  /\ delivered' = [delivered EXCEPT ![r] = delivered[r] \cup {e}]

Next == \E r \in Replica, e \in Event : Deliver(r, e)

Spec == Init /\ [][Next]_vars
------------------------------------------------------------------------------
(***************************************************************************)
(* Properties.                                                             *)
(***************************************************************************)
Same(q, r) == delivered[q] = delivered[r]

\* "delivery permutations converge", for everything but the plan: orders that
\* received the same events, in any order and any number of times, agree on
\* the billing state, the latest event and the facts.
BillingConverges ==
  \A q, r \in Replica :
    Same(q, r) =>
      /\ order[q].billingState = order[r].billingState
      /\ order[q].latestEventCreatedAt = order[r].latestEventCreatedAt
      /\ order[q].latestEventId = order[r].latestEventId
      /\ order[q].known = order[r].known

\* No event, however late its timestamp, resurrects a subscription: a refund
\* is final and a cancellation is changed by a refund only.
NeverResurrected ==
  [][\A r \in Replica :
       /\ order[r].billingState = "refunded" => order'[r].billingState = "refunded"
       /\ order[r].billingState = "canceled" => order'[r].billingState \in Terminal]_vars
==============================================================================
