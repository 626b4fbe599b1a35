------------------------------ MODULE MCBilling ------------------------------
(***************************************************************************)
(* Billing in one run, as two machines of which a behaviour runs one: the  *)
(* reducer on two replicas of an order, and the way of an event from       *)
(* Stripe to the stored order.                                             *)
(*                                                                         *)
(* Six events of one subscription.  Three are of the same second: two of   *)
(* the same precedence, which only the id tells apart, and one of another. *)
(* A later invoice, a cancellation and a refund follow, the refund with an *)
(* early timestamp.  The seventh is of a type that is not taken.           *)
(***************************************************************************)
EXTENDS EventIntake

StripeEvent(id, at, desired, plan, knows) ==
  [id |-> id, createdAt |-> at, desired |-> desired, plan |-> plan, knows |-> knows]

MCEvent ==
  { StripeEvent(1, 1, "active",   "team",  {"owner"}),
    StripeEvent(2, 1, "past_due", "none",  {}),
    StripeEvent(3, 1, "active",   "scale", {}),
    StripeEvent(4, 2, "active",   "none",  {"mode"}),
    StripeEvent(5, 3, "canceled", "none",  {}),
    StripeEvent(6, 1, "refunded", "none",  {"owner"}),
    StripeEvent(7, 1, "pending",  "none",  {}) }

\* A payment with a cancellation, or with the event that is not taken; Stripe
\* may send the payment twice at once.  The payment alone meets two faults,
\* which are enough for the dead-letter queue, the others one.
WithId(ids) == {e \in MCEvent : e.id \in ids}
MCIgnored   == WithId({7})
MCScene     == {{}, WithId({1}), WithId({1, 5}), WithId({1, 7})}
MCRequest   == (WithId({1}) \X {1, 2}) \cup (WithId({5, 7}) \X {1})

VARIABLE machine

MCInit ==
  /\ Init /\ IInit
  /\ machine = IF scene = {} THEN "reducer" ELSE "intake"
  /\ faults = IF scene = WithId({1}) THEN 0 ELSE 1

MCNext ==
  /\ \/ /\ machine = "reducer" /\ UNCHANGED ivars
        /\ \E r \in Replica, e \in Accepted : Deliver(r, e)
     \/ machine = "intake" /\ INext /\ UNCHANGED vars
  /\ UNCHANGED machine

MCSpec == MCInit /\ [][MCNext]_<<machine, vars, ivars>> /\ (machine = "intake" => IFairness)
==============================================================================
