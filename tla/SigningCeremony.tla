--------------------------- MODULE SigningCeremony ---------------------------
(***************************************************************************)
(* What an envelope promises its sender and its signers, whoever asks for  *)
(* what at the same time: an open envelope collects one signature of every *)
(* signer in signing order and is completed by the last one; it can be     *)
(* voided or expire instead, and a completed envelope stays completed.     *)
(*                                                                         *)
(* EnvelopeSigning, the calls that read and write the stored row,          *)
(* implements this.                                                        *)
(***************************************************************************)
EXTENDS Integers

CONSTANTS Signer, Order

VARIABLES
  signed,    \* the signers whose signature is recorded
  outcome,   \* "open", or how the ceremony ended
  late       \* the deadline has passed

vars == <<signed, outcome, late>>

Outcome == {"open", "completed", "voided", "expired"}

TypeOK ==
  /\ signed \subseteq Signer
  /\ outcome \in Outcome
  /\ late \in BOOLEAN

Init ==
  /\ signed = {}
  /\ outcome = "open"
  /\ late = FALSE

\* A signature that passed the gates before the deadline counts even when it
\* is recorded after it, so Sign does not ask for ~late.
Sign(s) ==
  /\ outcome = "open"
  /\ s \notin signed
  /\ \A t \in Signer : Order[t] < Order[s] => t \in signed
  /\ signed' = signed \cup {s}
  /\ outcome' = IF signed' = Signer THEN "completed" ELSE "open"
  /\ UNCHANGED late

\* The sender cancels, or a signer who has not signed declines.  An expired
\* envelope can still be marked voided.
Void ==
  /\ outcome \in {"open", "expired"}
  /\ outcome' = "voided"
  /\ UNCHANGED <<signed, late>>

Expire ==
  /\ outcome = "open"
  /\ late
  /\ outcome' = "expired"
  /\ UNCHANGED <<signed, late>>

DeadlinePasses ==
  /\ late' = TRUE
  /\ UNCHANGED <<signed, outcome>>

Next ==
  \/ \E s \in Signer : Sign(s)
  \/ Void
  \/ Expire
  \/ DeadlinePasses

Spec == Init /\ [][Next]_vars
==============================================================================
