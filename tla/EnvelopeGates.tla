---------------------------- MODULE EnvelopeGates ----------------------------
(***************************************************************************)
(* The pure part of packages/esig-core/src/envelope.ts: the statuses of an *)
(* envelope and of its signers, the gates a signing token has to pass, and *)
(* the change each core operation makes to the envelope it holds in hand.  *)
(*                                                                         *)
(* An envelope is a record [status, signer]; names, images, timestamps and *)
(* token hashes are left out (a token stands for the signer it was minted  *)
(* for).                                                                   *)
(***************************************************************************)
EXTENDS Integers

CONSTANTS
  Signer,   \* the signers of the envelope
  Order     \* Order[s]: the signing order of s, equal orders sign in parallel

\* createEnvelope refuses an envelope without signers and an order below 1.
ASSUME SignerAssumption == Signer # {}
ASSUME OrderAssumption  == Order \in [Signer -> Nat \ {0}]

Live         == {"sent", "partially_signed"}
Status       == Live \cup {"completed", "voided", "expired"}
SignerStatus == {"pending", "signed", "declined"}

\* createEnvelope: every signer pending, the envelope sent.
NewSigners == [s \in Signer |-> "pending"]

SignedSet(env) == {s \in Signer : env.signer[s] = "signed"}

\* The earlier signers that have not signed yet.
WaitingOn(env, s) ==
  {t \in Signer : Order[t] < Order[s] /\ env.signer[t] # "signed"}

(***************************************************************************)
(* resolveSigningToken applies the deadline before every other gate; late  *)
(* says that expiresAt has passed.                                         *)
(***************************************************************************)
MustExpire(env, late) == env.status \in Live /\ late

\* The gate of recordSignature: resolveSigningToken answers "ok".  An envelope
\* that is live holds no declined signer, so "not signed" is what it tests.
CanSign(env, s) ==
  /\ env.status \in Live
  /\ env.signer[s] # "signed"
  /\ WaitingOn(env, s) = {}

\* The gate of declineEnvelope: unlike signing, it does not wait for its turn.
CanDecline(env, s) ==
  /\ env.status \in Live
  /\ env.signer[s] # "signed"

\* The gate of voidEnvelope: only a completed envelope is refused.
CanVoid(env) == env.status # "completed"

(***************************************************************************)
(* The changes the core makes in hand, before it calls store.update.       *)
(***************************************************************************)
AfterSignature(env, s) ==
  LET signers == [env.signer EXCEPT ![s] = "signed"]
  IN  [env EXCEPT !.signer = signers,
                  !.status = IF \A t \in Signer : signers[t] = "signed"
                             THEN "completed" ELSE "partially_signed"]

AfterDecline(env, s) ==
  [env EXCEPT !.signer[s] = "declined", !.status = "voided"]

AfterVoid(env) == [env EXCEPT !.status = "voided"]

AfterExpiry(env) == [env EXCEPT !.status = "expired"]
==============================================================================
