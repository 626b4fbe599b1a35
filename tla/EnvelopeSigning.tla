--------------------------- MODULE EnvelopeSigning ---------------------------
(***************************************************************************)
(* The calls that change one stored envelope, as packages/esig-core/src/   *)
(* envelope.ts makes them over ConcurrencySafeEnvelopeStore of             *)
(* packages/esig-mcp/src/stores.ts.                                        *)
(*                                                                         *)
(* A call reads the row (findById, findByTokenHash: no lock), decides and  *)
(* changes its own copy, and hands the whole copy to update, which writes  *)
(* it only if the row still has the revision the copy was read at.  Any    *)
(* other call can run between the two.  Three kinds of caller exist:       *)
(*   - calls of signers and of the sender: sign, decline, open a link,     *)
(*     void; a conflict is answered to the caller, nobody retries it;      *)
(*   - the service's own bookkeeping (appendEvent, updateWithRetry):       *)
(*     keeps status and signers, retries a conflict from a fresh read;     *)
(*   - the expiry sweep of the scheduler's tick, which retries too and     *)
(*     comes back with every tick.                                         *)
(***************************************************************************)
EXTENDS EnvelopeGates

CONSTANTS
  Call,         \* the calls that can be made, each one made at most once
  Sweep,        \* the expiry sweeps that can be under way together: the
                \* scheduler's timer does not wait for its previous tick
  MaxAttempts   \* MAX_ATTEMPTS: reads of a retrying writer (5 in the code)

ASSUME ProcAssumption    == Call \cap Sweep = {}
ASSUME AttemptAssumption == MaxAttempts \in Nat \ {0}

Proc == Call \cup Sweep

Intent == {"sign", "decline", "void", "expire", "touch", "sweep"}
Phase  == {"idle", "writing", "rereading", "done"}
Result == {"none", "ok", "refused", "conflict"}

Row == [rev: Nat, status: Status, signer: [Signer -> SignerStatus],
        expiredEmitted: BOOLEAN]

VARIABLES
  row,      \* the stored row, __mcpRev and expiredEmittedAt included
  late,     \* expiresAt has passed
  phase,    \* what each caller is doing
  intent,   \* the write it is about to make
  who,      \* the signer whose token it holds
  snap,     \* the row as it read it
  tries,    \* the reads a retrying caller has spent
  result,   \* what the call answered
  fired     \* how many envelope.expired events were appended (a history)

vars == <<row, late, phase, intent, who, snap, tries, result, fired>>

TypeOK ==
  /\ row \in Row
  /\ late \in BOOLEAN
  /\ phase \in [Proc -> Phase]
  /\ intent \in [Proc -> Intent]
  /\ who \in [Proc -> Signer]
  /\ snap \in [Proc -> Row]
  /\ tries \in [Proc -> 0..MaxAttempts - 1]
  /\ result \in [Proc -> Result]
  /\ fired \in Nat

\* createEnvelope and insert: the row is written at revision 0 before any
\* link is handed to a signer.
NewRow == [rev |-> 0, status |-> "sent", signer |-> NewSigners,
           expiredEmitted |-> FALSE]

Init ==
  /\ row = NewRow
  /\ late = FALSE
  /\ phase = [p \in Proc |-> "idle"]
  /\ intent = [p \in Proc |-> "touch"]
  /\ who = [p \in Proc |-> CHOOSE s \in Signer : TRUE]
  /\ snap = [p \in Proc |-> NewRow]
  /\ tries = [p \in Proc |-> 0]
  /\ result = [p \in Proc |-> "none"]
  /\ fired = 0

------------------------------------------------------------------------------
(***************************************************************************)
(* Reading and deciding.  Prepare(p, i, s) is the step in which p, holding *)
(* the token of s, reads the row and finds that it must write.             *)
(***************************************************************************)
Prepare(p, i, s) ==
  /\ snap' = [snap EXCEPT ![p] = row]
  /\ intent' = [intent EXCEPT ![p] = i]
  /\ who' = [who EXCEPT ![p] = s]
  /\ phase' = [phase EXCEPT ![p] = "writing"]
  /\ UNCHANGED <<row, late, tries, result, fired>>

\* The copy a call has read is gone when its write is decided.
Drop(p) == snap' = [snap EXCEPT ![p] = NewRow]

Answer(p, r) ==
  /\ phase' = [phase EXCEPT ![p] = "done"]
  /\ result' = [result EXCEPT ![p] = r]

Refuse(p) ==
  /\ Answer(p, "refused")
  /\ UNCHANGED <<row, late, intent, who, snap, tries, fired>>

\* recordSignature.
BeginSign(c, s) ==
  /\ phase[c] = "idle"
  /\ \/ MustExpire(row, late) /\ Prepare(c, "expire", s)
     \/ ~MustExpire(row, late) /\ CanSign(row, s) /\ Prepare(c, "sign", s)
     \/ ~MustExpire(row, late) /\ ~CanSign(row, s) /\ Refuse(c)

\* declineEnvelope.
BeginDecline(c, s) ==
  /\ phase[c] = "idle"
  /\ \/ MustExpire(row, late) /\ Prepare(c, "expire", s)
     \/ ~MustExpire(row, late) /\ CanDecline(row, s) /\ Prepare(c, "decline", s)
     \/ ~MustExpire(row, late) /\ ~CanDecline(row, s) /\ Refuse(c)

\* EnvelopeService.resolve: a signer opens the link.  It writes only when it
\* is the first to notice that the deadline has passed.
BeginResolve(c, s) ==
  /\ phase[c] = "idle"
  /\ MustExpire(row, late)
  /\ Prepare(c, "expire", s)

\* voidEnvelope.
BeginVoid(c) ==
  /\ phase[c] = "idle"
  /\ \/ CanVoid(row) /\ Prepare(c, "void", who[c])
     \/ ~CanVoid(row) /\ Refuse(c)

\* appendEvent and updateWithRetry: the event log, reminder state and stored
\* links change, status and signers do not.
BeginTouch(c) ==
  /\ phase[c] = "idle"
  /\ Prepare(c, "touch", who[c])

\* Mutation: only envelopes that are still live are swept.
LiveSweepDue(env) == MustExpire(env, late)

\* expiry.ts tick and expireOne: the row is due when it is live past its
\* deadline, or was expired by a signer's call and nobody emitted the event.
SweepDue(env) ==
  \/ MustExpire(env, late)
  \/ env.status = "expired" /\ ~env.expiredEmitted

BeginSweep(p) ==
  /\ phase[p] = "idle"
  /\ SweepDue(row)
  /\ Prepare(p, "sweep", who[p])

\* A retrying writer that lost the race decides again on what it reads now:
\* there is nothing left to sweep when somebody else did it, or voided.
Reread(p) ==
  /\ phase[p] = "rereading"
  /\ \/ intent[p] = "touch" /\ Prepare(p, "touch", who[p])
     \/ intent[p] = "sweep" /\ SweepDue(row) /\ Prepare(p, "sweep", who[p])
     \/ /\ intent[p] = "sweep"
        /\ ~SweepDue(row)
        /\ phase' = [phase EXCEPT ![p] = "idle"]
        /\ tries' = [tries EXCEPT ![p] = 0]
        /\ UNCHANGED <<row, late, intent, who, snap, result, fired>>

------------------------------------------------------------------------------
(***************************************************************************)
(* Writing.  Draft(p) is the copy p hands to update.                       *)
(***************************************************************************)
Draft(p) ==
  CASE intent[p] = "sign"    -> AfterSignature(snap[p], who[p])
    [] intent[p] = "decline" -> AfterDecline(snap[p], who[p])
    [] intent[p] = "void"    -> AfterVoid(snap[p])
    [] intent[p] = "expire"  -> AfterExpiry(snap[p])
    [] intent[p] = "touch"   -> snap[p]
    [] intent[p] = "sweep"   -> [AfterExpiry(snap[p]) EXCEPT !.expiredEmitted = TRUE]

\* Mutation: FsEnvelopeStore.update used directly, which compares nothing.
BareFresh(p) == TRUE

\* Mutation: the revision is compared with any older one.
LaxFresh(p) == snap[p].rev <= row.rev

\* The compare of update's compare-and-swap.
Fresh(p) == snap[p].rev = row.rev

\* What the call answers when its write went through: a call that had to
\* expire the envelope reports that it is expired.
Verdict(p) == IF intent[p] = "expire" THEN "refused" ELSE "ok"

\* A sweep is over and waits for the next tick; any other call has answered.
Finish(p, r) ==
  IF p \in Sweep
  THEN /\ phase' = [phase EXCEPT ![p] = "idle"]
       /\ tries' = [tries EXCEPT ![p] = 0]
       /\ UNCHANGED result
  ELSE /\ Answer(p, r)
       /\ UNCHANGED tries

Commit(p) ==
  /\ phase[p] = "writing"
  /\ Fresh(p)
  /\ row' = [Draft(p) EXCEPT !.rev = row.rev + 1]
  /\ fired' = IF intent[p] = "sweep" THEN fired + 1 ELSE fired
  /\ Finish(p, Verdict(p))
  /\ Drop(p)
  /\ UNCHANGED <<late, intent, who>>

\* The loops of appendEvent and updateWithRetry have an attempt left.
AttemptsLeft(p) == intent[p] \in {"touch", "sweep"} /\ tries[p] + 1 < MaxAttempts

\* A retrying writer swallows the conflict while it has attempts left.
Retry(p) ==
  /\ phase[p] = "writing"
  /\ ~Fresh(p)
  /\ AttemptsLeft(p)
  /\ tries' = [tries EXCEPT ![p] = tries[p] + 1]
  /\ phase' = [phase EXCEPT ![p] = "rereading"]
  /\ Drop(p)
  /\ UNCHANGED <<row, late, intent, who, result, fired>>

\* EnvelopeConflictError: it reaches the caller of a core operation at once,
\* of a retrying writer after its last attempt.  emit and the tick log it.
Conflict(p) ==
  /\ phase[p] = "writing"
  /\ ~Fresh(p)
  /\ ~AttemptsLeft(p)
  /\ Finish(p, "conflict")
  /\ Drop(p)
  /\ UNCHANGED <<row, late, intent, who, fired>>

DeadlinePasses ==
  /\ ~late
  /\ late' = TRUE
  /\ UNCHANGED <<row, phase, intent, who, snap, tries, result, fired>>

Begin(c) ==
  \/ \E s \in Signer : BeginSign(c, s) \/ BeginDecline(c, s) \/ BeginResolve(c, s)
  \/ BeginVoid(c)
  \/ BeginTouch(c)

Continue(p) == Reread(p) \/ Commit(p) \/ Retry(p) \/ Conflict(p)

Next ==
  \/ \E c \in Call : Begin(c)
  \/ \E p \in Sweep : BeginSweep(p)
  \/ \E p \in Proc : Continue(p)
  \/ DeadlinePasses

(***************************************************************************)
(* Nobody is obliged to call.  The scheduler's timer keeps starting sweeps *)
(* while the process runs, and the event loop runs every started call to   *)
(* its end.                                                                *)
(***************************************************************************)
Fairness ==
  /\ \A p \in Sweep : WF_vars(BeginSweep(p))
  /\ \A p \in Proc : WF_vars(Continue(p))

Spec == Init /\ [][Next]_vars
------------------------------------------------------------------------------
(***************************************************************************)
(* Properties.                                                             *)
(***************************************************************************)

\* Nobody's signature is recorded before those of all earlier signers: the
\* order gate of resolveSigningToken is not undone by a write that was
\* decided on an older row.
SignedInOrder ==
  \A s, t \in Signer :
    Order[t] < Order[s] /\ s \in SignedSet(row) => t \in SignedSet(row)

\* The envelope is completed by the last signature and by nothing else
\* (recordSignature), whatever voids, declines and expiries raced with it.
CompletedByAll == row.status = "completed" <=> SignedSet(row) = Signer

HasSigned(c, s) == intent[c] = "sign" /\ who[c] = s /\ result[c] = "ok"

\* I3, atomic single use: each recorded signature was reported to exactly one
\* call, and a call that reported one finds it recorded forever after.
SignedOnce ==
  \A s \in Signer :
    /\ s \in SignedSet(row) <=> \E c \in Call : HasSigned(c, s)
    /\ \A c, d \in Call : HasSigned(c, s) /\ HasSigned(d, s) => c = d

\* A void or a decline that was answered "ok" is never overwritten: the row
\* stays voided, and names the signer who declined.
CancelKept ==
  \A c \in Call :
    /\ intent[c] = "void" /\ result[c] = "ok" => row.status = "voided"
    /\ intent[c] = "decline" /\ result[c] = "ok" =>
         row.status = "voided" /\ row.signer[who[c]] = "declined"

\* expiry.ts: envelope.expired fires exactly once, guarded by the flag stored
\* in the row and not by the event log, although sweeps overlap.
ExpiredOnce == fired = IF row.expiredEmitted THEN 1 ELSE 0

\* The sweep notices every deadline, and emits envelope.expired also for an
\* envelope that a signer's call expired, unless the sender voids it first.
ExpiryNoticed ==
  /\ (late /\ row.status \in Live) ~> (row.status \notin Live)
  /\ (row.status = "expired") ~> (row.expiredEmitted \/ row.status = "voided")

(***************************************************************************)
(* The stored row implements the ceremony.                                 *)
(***************************************************************************)
CeremonyOutcome == IF row.status \in Live THEN "open" ELSE row.status

Ceremony == INSTANCE SigningCeremony
              WITH signed <- SignedSet(row), outcome <- CeremonyOutcome

\* Every write of every call is one step of the ceremony or none at all.
ImplementsCeremony == Ceremony!Spec
==============================================================================
