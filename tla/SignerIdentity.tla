---------------------------- MODULE SignerIdentity ----------------------------
(***************************************************************************)
(* The identity of one signer of an envelope: issueChallenge and           *)
(* finalizeChallenge of identity/challenge.ts, verifySignerIdentity of     *)
(* identity/verify.ts, and their callers in envelopes.ts: sign, the relay  *)
(* of proofs from outside (acceptPreVerifiedIdentity), and the tool and    *)
(* the page that ask for a challenge (issueIdentityChallenge).             *)
(*                                                                         *)
(* Requests run at once and each write of the row is under the revision    *)
(* read before it: what others have read of it is stale after a write.     *)
(***************************************************************************)
EXTENDS Integers, Sequences, IdentityGates

CONSTANTS
  Policy,      \* the policies an envelope may have: [min, pin]
  Proof,       \* the proofs signers present, but for the nonce they sign
  Answer,      \* the answers of the registry
  Request,     \* requests to sign that may run at once
  Relay,       \* proofs relayed at once
  Asker,       \* requests for a challenge that may run at once
  MaxNonces,   \* bound: challenges that are issued
  MaxFinalize  \* MAX_FINALIZE_ATTEMPTS (5 in the code)

ASSUME IdentityAssumption ==
  /\ Request \cap Relay = {} /\ (Request \cup Relay) \cap Asker = {}
  /\ MaxNonces \in Nat \ {0} /\ MaxFinalize \in Nat \ {0}

\* What comes from outside has the form that the code parses it into, and the level a
\* policy asks for is one that there is.
ASSUME InputAssumption ==
  /\ \A p \in Policy : p.min \in Level
  /\ \A p \in Proof : p \in Proofs({p.uuaid}, {p.nonce})
  /\ \A a \in Answer : a \in Answers({a.subject})

VARIABLES
  policy,      \* the policy the envelope was created with
  challenge,   \* the signer's challenge
  verified,    \* the signer's identity record
  status,      \* of the signer: "pending", "signed" or "closed"
  turn,        \* nobody who signs before this signer is waited for
  attempt,     \* the requests
  used,        \* the nonces that records were written for, in order (a history)
  bypassed     \* the signature is of a request that was not asked (a history)

svars == <<policy, challenge, verified, status, turn, attempt, used, bypassed>>

Verifier == Request \cup Relay
NoProof  == [uuaid |-> "none", wellFormed |-> FALSE, agent |-> FALSE, derives |-> FALSE,
             nonce |-> 0, credential |-> "none"]
NoAnswer == [badge |-> "unasked"]
NoRecord == [level |-> "none", proof |-> NoProof, answer |-> NoAnswer]
NoAttempt     == [phase |-> "idle", proof |-> NoProof, answer |-> NoAnswer, nonce |-> 0,
             tries |-> 0, fresh |-> FALSE]
Steps   == {"idle", "verify", "registry", "finalize", "write", "sign", "unasked", "mint"}

STypeOK ==
  /\ policy \in Policy
  /\ challenge \in [nonce: 0..MaxNonces, consumed: BOOLEAN, expired: BOOLEAN]
  /\ verified.level \in Level
  /\ status \in {"pending", "signed", "closed"}
  /\ turn \in BOOLEAN /\ bypassed \in BOOLEAN
  /\ \A c \in Verifier \cup Asker :
       /\ attempt[c].phase \in Steps /\ attempt[c].tries \in 0..MaxFinalize
       /\ attempt[c].nonce \in 0..MaxNonces /\ attempt[c].fresh \in BOOLEAN
  /\ used \in Seq(1..MaxNonces)

\* A proof with the nonce it was made over.
Signed(p, n) == [uuaid |-> p.uuaid, wellFormed |-> p.wellFormed, agent |-> p.agent,
                 derives |-> p.derives, nonce |-> n, credential |-> p.credential]

SInit ==
  /\ policy \in Policy
  /\ challenge = [nonce |-> 0, consumed |-> FALSE, expired |-> FALSE]
  /\ verified = NoRecord
  /\ status = "pending"
  /\ turn \in BOOLEAN
  /\ bypassed = FALSE
  /\ attempt = [c \in Verifier \cup Asker |-> NoAttempt]
  /\ used = <<>>

Becomes(c, v) == attempt' = [attempt EXCEPT ![c] = v]
GoesTo(c, phase) == Becomes(c, [attempt[c] EXCEPT !.phase = phase])
Refuse(c) == Becomes(c, NoAttempt)
WroteRowAs(c, v) ==
  attempt' = [d \in DOMAIN attempt |-> IF d = c THEN v ELSE [attempt[d] EXCEPT !.fresh = FALSE]]

SignerRow == <<policy, challenge, verified, status, turn, used, bypassed>>

------------------------------------------------------------------------------
(***************************************************************************)
(* Challenges.                                                             *)
(***************************************************************************)
OpenChallenge == challenge.nonce # 0 /\ ~challenge.consumed /\ ~challenge.expired

\* issueChallenge reads the row; a live challenge is returned as it is.
Ask(c) ==
  /\ c \in Asker /\ attempt[c].phase = "idle" /\ ~OpenChallenge
  /\ Becomes(c, [NoAttempt EXCEPT !.phase = "mint", !.fresh = TRUE])
  /\ UNCHANGED SignerRow

\* A conflict is the caller's.
Mint(c) ==
  /\ attempt[c].phase = "mint"
  /\ IF attempt[c].fresh
     THEN /\ challenge.nonce < MaxNonces
          /\ challenge' = [nonce |-> challenge.nonce + 1, consumed |-> FALSE, expired |-> FALSE]
          /\ WroteRowAs(c, NoAttempt)
     ELSE Refuse(c) /\ UNCHANGED challenge
  /\ UNCHANGED <<policy, verified, status, turn, used, bypassed>>

\* Time passes.
Expire ==
  /\ OpenChallenge
  /\ challenge' = [challenge EXCEPT !.expired = TRUE]
  /\ UNCHANGED <<policy, verified, status, turn, attempt, used, bypassed>>

------------------------------------------------------------------------------
(***************************************************************************)
(* Verification.                                                           *)
(***************************************************************************)
\* A record that satisfies the policy is taken without another proof.
PreVerified ==
  /\ verified # NoRecord
  /\ Rank(verified.level) >= Rank(policy.min)
  /\ policy.pin \in {"none", verified.proof.uuaid}

Skips(c) == c \in Request /\ (policy.min = "none" \/ PreVerified)

\* What a proof may be over; at L0 nobody looks.
Nonces == IF policy.min = "L0" THEN {0} ELSE 0..challenge.nonce

\* resolveSigningToken answers "ok".
GateOk == status = "pending" /\ turn

\* sign has a first look at the gate, and asks for an identity only behind one that is
\* open; in front of any other it goes on to recordSignature, which looks again.
Bypass(c) ==
  /\ c \in Request /\ attempt[c].phase = "idle" /\ ~GateOk
  /\ GoesTo(c, "unasked")
  /\ UNCHANGED SignerRow

\* sign behind an open gate, and acceptPreVerifiedIdentity, which has none.
Present(c) ==
  /\ c \in Verifier /\ attempt[c].phase = "idle"
  /\ c \in Request => GateOk
  /\ c \in Relay => policy.min # "none"
  /\ IF Skips(c)
     THEN GoesTo(c, "sign")
     ELSE \E p \in Proof, n \in Nonces :
            /\ Asserted(policy.min, policy.pin, Signed(p, n)) = "ok"
            /\ Becomes(c, [NoAttempt EXCEPT !.phase = IF policy.min = "L0" THEN "finalize"
                                                ELSE "verify",
                                      !.proof = Signed(p, n)])
  /\ UNCHANGED SignerRow

\* The challenge is read, and the proof checked over what was read.
Verify(c) ==
  LET p == attempt[c].proof
  IN  /\ attempt[c].phase = "verify"
      /\ IF Proven(policy.min, p, challenge) = "ok"
         THEN Becomes(c, [attempt[c] EXCEPT !.nonce = challenge.nonce,
                !.phase = IF policy.min = "L2" \/ p.agent THEN "registry" ELSE "finalize"])
         ELSE Refuse(c)
      /\ UNCHANGED SignerRow

\* Meanwhile challenges expire and other requests run.
AskRegistry(c) ==
  LET p == attempt[c].proof
  IN  /\ attempt[c].phase = "registry"
      /\ \E a \in Answer :
           IF (IF policy.min = "L2" THEN Registered(p, a) ELSE Disagreed(p, a)) = "ok"
           THEN Becomes(c, [attempt[c] EXCEPT !.phase = "finalize",
                             !.answer = IF policy.min = "L2" THEN a ELSE NoAnswer])
           ELSE Refuse(c)
      /\ UNCHANGED SignerRow

\* Mutation: the challenge is the one that was verified.
StillOpenAsVerified(c) == TRUE

\* The challenge as it is now is the one the proof was verified over; its expiry is
\* compared with the time of the first attempt.
StillOpen(c) ==
  \/ policy.min = "L0"
  \/ /\ challenge.nonce = attempt[c].nonce /\ ~challenge.consumed
     /\ attempt[c].tries = 0 => ~challenge.expired

\* finalizeChallenge, and persistL0Record without a challenge.
Finalize(c) ==
  /\ attempt[c].phase = "finalize"
  /\ IF StillOpen(c)
     THEN Becomes(c, [attempt[c] EXCEPT !.phase = "write", !.fresh = TRUE, !.tries = @ + 1])
     ELSE Refuse(c)
  /\ UNCHANGED SignerRow

RecordOf(c) == [level |-> Granted(policy.min, attempt[c].proof), proof |-> attempt[c].proof,
              answer |-> attempt[c].answer]

\* The nonce is consumed and the record written in one write.
Consume(c) ==
  /\ verified' = RecordOf(c)
  /\ challenge' = IF policy.min = "L0" THEN challenge ELSE [challenge EXCEPT !.consumed = TRUE]

Write(c) ==
  /\ attempt[c].phase = "write"
  /\ IF attempt[c].fresh
     THEN /\ Consume(c)
          /\ used' = IF policy.min = "L0" THEN used ELSE Append(used, attempt[c].nonce)
          /\ WroteRowAs(c, IF c \in Request THEN [attempt[c] EXCEPT !.phase = "sign", !.fresh = FALSE]
                        ELSE NoAttempt)
     ELSE /\ IF attempt[c].tries < MaxFinalize THEN GoesTo(c, "finalize") ELSE Refuse(c)
          /\ UNCHANGED <<challenge, verified, used>>
  /\ UNCHANGED <<policy, status, turn, bypassed>>

\* recordSignature has a look of its own at the gate: the signer may have signed, the
\* envelope been closed, or the turn come, meanwhile; and its own write may conflict.
Sign(c) ==
  /\ attempt[c].phase \in {"sign", "unasked"}
  /\ \/ /\ GateOk
        /\ status' = "signed"
        /\ bypassed' = (attempt[c].phase = "unasked")
        /\ WroteRowAs(c, NoAttempt)
     \/ Refuse(c) /\ UNCHANGED <<status, bypassed>>
  /\ UNCHANGED <<policy, challenge, verified, turn, used>>

\* The last of those who sign before this signer has signed.
TurnComes ==
  /\ status = "pending" /\ ~turn
  /\ turn' = TRUE
  /\ attempt' = [c \in DOMAIN attempt |-> [attempt[c] EXCEPT !.fresh = FALSE]]
  /\ UNCHANGED <<policy, challenge, verified, status, used, bypassed>>

\* The envelope is voided, declined or expires.
Close ==
  /\ status = "pending"
  /\ status' = "closed"
  /\ attempt' = [c \in DOMAIN attempt |-> [attempt[c] EXCEPT !.fresh = FALSE]]
  /\ UNCHANGED <<policy, challenge, verified, turn, used, bypassed>>

SNext ==
  \/ \E c \in Asker : Ask(c) \/ Mint(c)
  \/ \E c \in Verifier : \/ Bypass(c) \/ Present(c) \/ Verify(c) \/ AskRegistry(c)
                         \/ Finalize(c) \/ Write(c) \/ Sign(c)
  \/ Expire \/ TurnComes \/ Close

SSpec == SInit /\ [][SNext]_svars

------------------------------------------------------------------------------
(***************************************************************************)
(* Properties.                                                             *)
(***************************************************************************)
\* No nonce is good for two records, however many proofs over it are verified at
\* once, while challenges expire and are issued anew; and a challenge is consumed by
\* the record it was consumed for: an outage of the registry, or a proof that is
\* refused, leaves it to be tried again.
NonceForOneRecord ==
  /\ \A i, j \in 1..Len(used) : used[i] = used[j] => i = j
  /\ challenge.consumed =>
       used # <<>> /\ used[Len(used)] = challenge.nonce /\ verified # NoRecord

\* A record says no more than was proven: the level the policy asks for, of the
\* pinned identity, over a nonce from L1 on, with a key of its own from L1p on, and at
\* L2 with a badge of the pinned registry key, for this identity, key and credential.
\* And whoever has signed had such a record, if the policy asks for one, unless the
\* request found the gate shut at first and was not asked.
IdentityEarned ==
  LET r == verified
      a == r.answer
  IN
  /\ r # NoRecord =>
       /\ Rank(r.level) >= Rank(policy.min)
       /\ policy.pin \in {"none", r.proof.uuaid}
       /\ r.level # "L0" => r.proof.nonce \in {used[i] : i \in 1..Len(used)}
       /\ r.level = "L1p" => r.proof.agent /\ r.proof.derives
       /\ r.proof.agent /\ r.level # "L0" => r.proof.derives
       /\ r.level = "L2" =>
            /\ a.pinned = "valid" /\ a.subject = r.proof.uuaid
            /\ a.active /\ a.fresh /\ a.key = "same"
            /\ r.proof.credential # "none" => a.credential = "valid"
  /\ status = "signed" /\ policy.min # "none" /\ ~bypassed => r # NoRecord

\* envelopes.ts, of sign: when the level is above "none", identityProof "is verified
\* BEFORE core recordSignature runs - a rejection throws [...] and NO signature is
\* recorded": nobody has signed under a policy without a record.
SignedVerified == status = "signed" /\ policy.min # "none" => verified # NoRecord
==============================================================================
