----------------------------- MODULE SealPipeline -----------------------------
(***************************************************************************)
(* EnvelopeService.sign, seal and reseal of packages/esig-mcp/src/         *)
(* envelopes.ts: what happens around the recorded signature.  A signer's   *)
(* call records the signature, logs events, reads the envelope again and,  *)
(* if it is completed by now, seals it: renders and signs the PDF, uploads *)
(* it, records the outcome in the row, and reports it.  A seal that failed *)
(* is repeated by reseal.  Any two calls interleave at every await.        *)
(*                                                                         *)
(* recordSignature is one step here: EnvelopeSigning shows that reading,   *)
(* deciding and writing amount to that.  So is emit, whose fresh-read      *)
(* compare-and-swap loop (appendEvent) is the "touch" of EnvelopeSigning.  *)
(* The deadline, and the identity checks before recordSignature, are left  *)
(* out; a sign call that is refused changes nothing.                       *)
(***************************************************************************)
EXTENDS EnvelopeGates, Sequences, FiniteSets

CONSTANTS
  Reseal,       \* the esig_reseal calls that may be made
  MaxTouches    \* bound: the writes of other calls (a link opened, a reminder)

ASSUME ActorAssumption   == Reseal \cap Signer = {}
ASSUME TouchesAssumption == MaxTouches \in Nat

\* The sign call of a signer is named after the signer.
Actor == Signer \cup Reseal

Phase == {"idle", "signed", "completing", "refreshing", "rendering", "uploading",
          "recording", "auditing", "emitting", "reporting",
          "done", "conflict"}

Outcome == {"sealed", "failed"}
Seal    == Outcome \cup {"none"}
\* An event; of holds the signer it names, if it names one.
Event   == [type: {"signed", "completed", "sealed", "seal_failed"}, of: SUBSET Signer]

Row == [rev: Nat, status: Status, signer: [Signer -> SignerStatus],
        links: SUBSET Signer, seal: Seal, attempts: Nat,
        events: Seq(Event)]

VARIABLES
  row,        \* the stored envelope, metadata.mcp included
  phase,      \* where each call is
  held,       \* the envelope object each call works on
  pdf,        \* the file sealed.pdf: upload writes it in place
  uploaders,  \* the calls that started an upload (a history)
  receipt,    \* the file <id>.completed.json in the outbox
  audit,      \* the rows envelope.completed and envelope.seal_failed (counts)
  touched,    \* the writes made by other calls
  cut,        \* some call was cut short (a history)
  emitted,    \* the events appended, in order (a history)
  recorded    \* the outcomes written to the row (a history, counts)

vars == <<row, phase, held, pdf, uploaders, receipt, audit, touched, cut,
          emitted, recorded>>

files    == <<pdf, uploaders, receipt>>
counters == <<audit, touched, cut, recorded>>

TypeOK ==
  /\ row \in Row
  /\ phase \in [Actor -> Phase]
  /\ held \in [Actor -> Row]
  /\ pdf \in {"none", "torn", "whole"}
  /\ uploaders \subseteq Actor
  /\ receipt \in Seal
  /\ audit \in [Outcome -> Nat]
  /\ touched \in 0..MaxTouches
  /\ cut \in BOOLEAN
  /\ emitted \in Seq(Event)
  /\ recorded \in [Outcome -> Nat]

\* What create leaves behind; with email reminders configured, a link of every
\* signer is kept in the row.
NewRow == [rev |-> 0, status |-> "sent", signer |-> NewSigners, links |-> Signer,
           seal |-> "none", attempts |-> 0, events |-> <<>>]

Init ==
  /\ row = NewRow
  /\ phase = [a \in Actor |-> "idle"]
  /\ held = [a \in Actor |-> NewRow]
  /\ pdf = "none"
  /\ uploaders = {}
  /\ receipt = "none"
  /\ audit = [o \in Outcome |-> 0]
  /\ touched = 0
  /\ cut = FALSE
  /\ emitted = <<>>
  /\ recorded = [o \in Outcome |-> 0]

Goto(a, p) == phase' = [phase EXCEPT ![a] = p]
Hold(a, e) == held' = [held EXCEPT ![a] = e]
Forget(a)  == Hold(a, NewRow)

\* A call that fails or is over holds nothing any more.
End(a, p) == Goto(a, p) /\ Forget(a)

------------------------------------------------------------------------------
(***************************************************************************)
(* sign.                                                                   *)
(***************************************************************************)
\* recordSignature: the call goes on with the row it wrote.
RecordSignature(s) ==
  /\ phase[s] = "idle"
  /\ CanSign(row, s)
  /\ row' = [AfterSignature(row, s) EXCEPT !.rev = row.rev + 1]
  /\ Hold(s, row')
  /\ Goto(s, "signed")
  /\ UNCHANGED <<files, counters, emitted>>

\* emit: the event is appended to the fresh row, links of the given signers
\* are erased with it, or all attempts fail and the failure is swallowed.
Emit(type, of, gone) ==
  /\ \/ LET event == [type |-> type, of |-> of]
        IN  /\ row' = [row EXCEPT !.rev = @ + 1, !.links = @ \ gone,
                                  !.events = Append(@, event)]
            /\ emitted' = Append(emitted, event)
     \/ UNCHANGED <<row, emitted>>
  /\ UNCHANGED <<files, counters>>

\* sign tests the envelope recordSignature returned: did this very signature
\* complete it?
CompletedIt(s) == held[s].status = "completed"

EmitSigned(s) ==
  /\ phase[s] = "signed"
  /\ Emit("signed", {s}, {s})
  /\ Goto(s, IF CompletedIt(s) THEN "completing" ELSE "refreshing")
  /\ UNCHANGED held

EmitCompleted(s) ==
  /\ phase[s] = "completing"
  /\ Emit("completed", {}, Signer)
  /\ Goto(s, "refreshing")
  /\ UNCHANGED held

\* Mutation: every sign call goes on to seal.
AlwaysSeals(s) == TRUE

\* Mutation: only the call whose signature completed the envelope seals.
OnlyLastSeals(s) == held[s].status = "completed"

\* The refreshed envelope is completed, by this call or by one that overtook it.
MustSeal(s) == row.status = "completed"

\* The envelope is read again, since the emits moved its revision.
Refresh(s) ==
  /\ phase[s] = "refreshing"
  /\ IF MustSeal(s)
     THEN Goto(s, "rendering") /\ Hold(s, row)
     ELSE End(s, "done")
  /\ UNCHANGED <<row, files, counters, emitted>>

\* The guards of reseal.
CanReseal == row.status = "completed" /\ row.seal # "sealed"

\* reseal up to its call of seal; the rate limiter may refuse it, see Stop.
BeginReseal(r) ==
  /\ phase[r] = "idle"
  /\ CanReseal
  /\ Hold(r, row)
  /\ Goto(r, "rendering")
  /\ UNCHANGED <<row, files, counters, emitted>>

------------------------------------------------------------------------------
(***************************************************************************)
(* seal.                                                                   *)
(***************************************************************************)
\* The seal state put on the envelope in hand.
WithOutcome(e, outcome) ==
  [e EXCEPT !.seal = outcome, !.attempts = @ + 1]

\* The try block ended: with the uploaded PDF, or in the catch.
Decide(a, outcome) ==
  /\ Hold(a, WithOutcome(held[a], outcome))
  /\ Goto(a, "recording")

\* Content check, Chrome, certificate, signature or self-verification throws.
RenderFails(a) ==
  /\ phase[a] = "rendering"
  /\ Decide(a, "failed")
  /\ UNCHANGED <<row, files, counters, emitted>>

\* pdfStorage.upload truncates the file and writes it.
StartUpload(a) ==
  /\ phase[a] = "rendering"
  /\ pdf' = "torn"
  /\ uploaders' = uploaders \cup {a}
  /\ Goto(a, "uploading")
  /\ UNCHANGED <<row, held, receipt, counters, emitted>>

\* Uploads that overlapped may leave bytes of both.
Uploaded(a) ==
  /\ phase[a] = "uploading"
  /\ pdf' = "whole" \/ (uploaders # {a} /\ pdf' = "torn")
  /\ Decide(a, "sealed")
  /\ UNCHANGED <<row, uploaders, receipt, counters, emitted>>

\* A storage error lands in the catch like any other.
CaughtOutcome == "failed"

UploadFails(a) ==
  /\ phase[a] = "uploading"
  /\ Decide(a, CaughtOutcome)
  /\ UNCHANGED <<row, files, counters, emitted>>

\* Mutation: the row is written without a compare.
BareUpdate(a) == TRUE

\* update compares the revision.
Fresh(a) == held[a].rev = row.rev

\* update, in the catch or after the try: the whole object in hand replaces
\* the row.
RecordOutcome(a) ==
  /\ phase[a] = "recording"
  /\ Fresh(a)
  /\ row' = [held[a] EXCEPT !.rev = @ + 1]
  /\ recorded' = [recorded EXCEPT ![held[a].seal] = @ + 1]
  /\ Hold(a, row')
  /\ Goto(a, "auditing")
  /\ UNCHANGED <<files, audit, touched, cut, emitted>>

\* The conflict leaves seal, and sign or reseal, as an exception.
Thrown(a) == End(a, "conflict")

OutcomeConflicts(a) ==
  /\ phase[a] = "recording"
  /\ ~Fresh(a)
  /\ Thrown(a)
  /\ UNCHANGED <<row, files, counters, emitted>>

AuditOutcome(a) ==
  /\ phase[a] = "auditing"
  /\ audit' = [audit EXCEPT ![held[a].seal] = @ + 1]
  /\ Goto(a, "emitting")
  /\ UNCHANGED <<row, held, files, touched, cut, emitted, recorded>>

EmitOutcome(a) ==
  /\ phase[a] = "emitting"
  /\ Emit(IF held[a].seal = "sealed" THEN "sealed" ELSE "seal_failed", {}, {})
  /\ Goto(a, "reporting")
  /\ UNCHANGED held

\* The receipt is overwritten, or its write fails and that is swallowed.
WriteReceipt(a) ==
  /\ phase[a] = "reporting"
  /\ receipt' \in {held[a].seal, receipt}
  /\ End(a, "done")
  /\ UNCHANGED <<row, pdf, uploaders, counters, emitted>>

------------------------------------------------------------------------------
(***************************************************************************)
(* Everybody else.                                                         *)
(***************************************************************************)
\* An await of the call throws where nothing catches it (an audit insert, a
\* read, the rate limiter), or the process dies.  There is no startup repair.
Stop(a) ==
  /\ phase[a] \notin {"idle", "done", "conflict"}
  /\ End(a, "done")
  /\ cut' = TRUE
  /\ UNCHANGED <<row, files, audit, touched, emitted, recorded>>

\* voidEnvelope.
Void ==
  /\ CanVoid(row)
  /\ row.status # "voided"   \* voiding again only moves the revision
  /\ row' = [AfterVoid(row) EXCEPT !.rev = @ + 1]
  /\ UNCHANGED <<phase, held, files, counters, emitted>>

\* Any write that keeps status, signers and seal: recordViewed, a reminder, an
\* identity challenge, the event of a void.
Touch ==
  /\ touched < MaxTouches
  /\ touched' = touched + 1
  /\ row' = [row EXCEPT !.rev = @ + 1]
  /\ UNCHANGED <<phase, held, files, audit, cut, emitted, recorded>>

Begin(a) == (a \in Signer /\ RecordSignature(a)) \/ (a \in Reseal /\ BeginReseal(a))

Continue(a) ==
  \/ EmitSigned(a) \/ EmitCompleted(a) \/ Refresh(a)
  \/ RenderFails(a) \/ StartUpload(a) \/ Uploaded(a) \/ UploadFails(a)
  \/ RecordOutcome(a) \/ OutcomeConflicts(a)
  \/ AuditOutcome(a) \/ EmitOutcome(a) \/ WriteReceipt(a)

Next ==
  \/ \E a \in Actor : Begin(a) \/ Continue(a) \/ Stop(a)
  \/ Void
  \/ Touch

Spec == Init /\ [][Next]_vars
------------------------------------------------------------------------------
(***************************************************************************)
(* Properties.                                                             *)
(***************************************************************************)
\* No PDF is produced and no seal outcome recorded for an envelope that is not
\* completed, although sign reads the status again after others may have voided
\* it; and a sealed one has its PDF: one call alone leaves a whole file behind,
\* only several uploads to the same path can tear it.
SealsOnlyCompleted ==
  /\ row.seal # "none" \/ uploaders # {} => row.status = "completed"
  /\ row.seal = "sealed" => pdf = "whole" \/ Cardinality(uploaders) > 1

\* Sealing writes back the whole object, events and links included: no event
\* logged meanwhile is lost, a link erased with an event stays erased, and
\* attempts counts every recorded outcome once.  Audit rows and the receipt tell of
\* recorded outcomes, never of an attempt that lost the race.
EventsKept ==
  /\ row.events = emitted
  /\ row.attempts = recorded["sealed"] + recorded["failed"]
  /\ \A o \in Outcome : audit[o] <= recorded[o] /\ (receipt = o => audit[o] > 0)
  /\ \A i \in 1..Len(emitted) :
       /\ emitted[i].type = "signed" => emitted[i].of \cap row.links = {}
       /\ emitted[i].type = "completed" => row.links = {}

\* Another writer intervened, or a call was cut short.
Disturbed == touched > 0 \/ cut

\* "sign always attempts a seal right away" (EnvelopePhase): a completed
\* envelope gets a seal outcome, however the sign calls collide, unless one of
\* them is cut short or an outside write invalidates the copy being sealed.
SealAttempted == (row.status = "completed") ~> (row.seal # "none" \/ Disturbed)

(***************************************************************************)
(* What the repository says of sealing and the code does not keep.         *)
(***************************************************************************)
\* "envelope.completed is audited exactly once, on the successful attempt"
\* (docs/architecture/esig-mcp.md, section 11).
CompletedAuditedOnce == audit["sealed"] <= 1
==============================================================================
