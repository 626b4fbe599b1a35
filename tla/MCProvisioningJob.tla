--------------------------- MODULE MCProvisioningJob ---------------------------
(***************************************************************************)
(* ProvisioningJob with jobs of three steps, the middle one handing out    *)
(* the credential: payments, missed payments and a cancellation of one     *)
(* subscription.  Deliveries in order meet faults, and payments that are   *)
(* later or earlier than the cancellation; workers that meet meet fewer    *)
(* events.                                                                 *)
(***************************************************************************)
EXTENDS ProvisioningJob

MCDesired == <<"active", "past_due", "active", "canceled", "past_due", "active">>

MCScene ==
  {[fifo |-> TRUE,  events |-> {1, 2, 3, 4},    faults |-> 2],
   [fifo |-> TRUE,  events |-> {1, 2, 3, 5, 6}, faults |-> 1],
   [fifo |-> TRUE,  events |-> {1, 4, 5, 6},    faults |-> 1],
   [fifo |-> FALSE, events |-> {1, 2},          faults |-> 1],
   [fifo |-> FALSE, events |-> {1, 4},          faults |-> 1],
   [fifo |-> FALSE, events |-> {1, 2, 3},       faults |-> 0],
   [fifo |-> FALSE, events |-> {1, 2, 4},       faults |-> 0]}

\* Nothing fails and nobody meets.
MCCalmScene == {[fifo |-> TRUE, events |-> {1, 2, 3, 4}, faults |-> 0]}
==============================================================================
