------------------------------- MODULE MCUpkeep -------------------------------
(***************************************************************************)
(* What goes on around an envelope that was sent, in one run: the seals of *)
(* two signers whose calls collide, its events on their way to the         *)
(* webhook, the reminders of a signer, and the identity of a signer.  They *)
(* share nothing here - a behaviour runs one of the machines, and the      *)
(* others stay as they were: with nothing signed, queued or due there is   *)
(* nothing to be fair to.                                                  *)
(***************************************************************************)
EXTENDS SealPipeline, EventDelivery, Reminders, SignerIdentity

VARIABLE machine

MCOrder == [s \in Signer |-> 1]

\* Every level, two of them with a pin.
MCPolicy == {[min |-> l, pin |-> "none"] : l \in {"none", "L1", "L1p"}}
            \cup {[min |-> l, pin |-> "me"] : l \in {"L0", "L2"}}

\* Proofs and answers that are right, or wrong in one respect.
Good == [uuaid |-> "me", wellFormed |-> TRUE, agent |-> TRUE, derives |-> TRUE,
         nonce |-> 0, credential |-> "fits"]
MCProof == {Good, [Good EXCEPT !.wellFormed = FALSE], [Good EXCEPT !.uuaid = "you"],
            [Good EXCEPT !.derives = FALSE], [Good EXCEPT !.credential = "otherKey"],
            [Good EXCEPT !.agent = FALSE, !.derives = FALSE, !.credential = "none"]}

Right == [badge |-> "ok", hashed |-> TRUE, pinned |-> "valid", others |-> TRUE,
          fresh |-> TRUE, subject |-> "me", active |-> TRUE, key |-> "same",
          credential |-> "valid"]
MCAnswer == {Right, [Right EXCEPT !.badge = "down"], [Right EXCEPT !.hashed = FALSE],
             [Right EXCEPT !.pinned = "absent"], [Right EXCEPT !.fresh = FALSE],
             [Right EXCEPT !.subject = "you"], [Right EXCEPT !.active = FALSE],
             [Right EXCEPT !.key = "other"], [Right EXCEPT !.key = "none"],
             [Right EXCEPT !.credential = "foreign"]}

MCInit ==
  /\ machine \in {"seals", "events", "reminders", "identity"}
  /\ Init /\ EInit /\ RInit /\ SInit
  /\ machine # "identity" => policy.min = "none" /\ turn

MCNext ==
  /\ \/ machine = "seals" /\ Next /\ UNCHANGED <<evars, rvars, svars>>
     \/ machine = "events" /\ ENext /\ UNCHANGED <<vars, rvars, svars>>
     \/ machine = "reminders" /\ RNext /\ UNCHANGED <<vars, evars, svars>>
     \/ machine = "identity" /\ SNext /\ UNCHANGED <<vars, evars, rvars>>
  /\ UNCHANGED machine

MCSpec == /\ MCInit /\ [][MCNext]_<<machine, vars, evars, rvars, svars>>
          /\ (\A a \in Actor : WF_vars(Continue(a))) /\ EFairness /\ RFairness
===============================================================================
