------------------------- MODULE SealPipeline_proofs -------------------------
(***************************************************************************)
(* Sealing for any signers, any reseals and any number of outside writes.  *)
(* The argument is that a completed envelope stays completed and that the  *)
(* copy a sealing call holds is either the row itself, up to the outcome   *)
(* put on it, or older than the row, and then its write is refused         *)
(* (Copies).  What the write brings with it is therefore never lost work   *)
(* (Log), never an uncounted attempt (Ledger), and never a seal without a  *)
(* PDF (Files).                                                            *)
(***************************************************************************)
EXTENDS SealPipeline, FiniteSetTheorems, TLAPS

\* The phases of seal before its write of the row.
Preparing == {"rendering", "uploading", "recording"}

\* A sealing call has a completed envelope in hand, the row's or an older one.
Copies ==
  \A a \in Actor : phase[a] \in Preparing =>
    /\ row.status = "completed"
    /\ held[a].rev <= row.rev
    /\ held[a].rev = row.rev =>
         held[a] = IF phase[a] = "recording" THEN WithOutcome(row, held[a].seal) ELSE row
    /\ phase[a] = "recording" => held[a].seal \in Outcome

\* Some upload left a whole file, or several uploads met.
Produced == /\ uploaders # {}
            /\ pdf = "whole" \/ \E x, y \in uploaders : x # y

\* A call before its upload.
Before == {"idle", "signed", "completing", "refreshing", "rendering"}

Files ==
  /\ row.seal # "none" \/ uploaders # {} => row.status = "completed"
  /\ row.seal = "sealed" => Produced
  /\ IsFiniteSet(uploaders)
  /\ \A a \in Actor :
       /\ phase[a] \in Before => a \notin uploaders
       /\ phase[a] = "uploading" => a \in uploaders
       /\ phase[a] = "recording" /\ held[a].seal = "sealed" => Produced

\* Recorded outcomes whose audit row is still to be written.
Pending(o) == {a \in Actor : phase[a] = "auditing" /\ held[a].seal = o}

Ledger ==
  /\ row.attempts = recorded["sealed"] + recorded["failed"]
  /\ \A o \in Outcome : /\ IsFiniteSet(Pending(o))
                        /\ audit[o] + Cardinality(Pending(o)) <= recorded[o]
                        /\ receipt = o => audit[o] > 0
  /\ \A a \in Actor :
       /\ phase[a] \in {"auditing", "emitting", "reporting"} => held[a].seal \in Outcome
       /\ phase[a] \in {"emitting", "reporting"} => audit[held[a].seal] > 0

\* Every event is in the row, and the links it erased are gone.
Log ==
  /\ row.events = emitted
  /\ \A i \in 1..Len(emitted) :
       /\ emitted[i].type = "signed" => emitted[i].of \cap row.links = {}
       /\ emitted[i].type = "completed" => row.links = {}

PInv == TypeOK /\ Copies /\ Files /\ Ledger /\ Log

\* Only a sign call is in the phases before the seal.
Signing == {"signed", "completing", "refreshing"}
Callers == \A a \in Actor : phase[a] \in Signing => a \in Signer

------------------------------------------------------------------------------
(***************************************************************************)
(* What a step of one call looks like from outside.                        *)
(***************************************************************************)
Move(a, p, e) == Goto(a, p) /\ Hold(a, e)

\* A step that leaves the files and the counters alone but for touched and cut.
Quiet == UNCHANGED <<pdf, uploaders, receipt, audit, recorded>>

\* How any write of the row moves it.
Written == /\ row' \in Row
           /\ row'.rev = row.rev + 1
           /\ row.status = "completed" => row'.status = "completed"

LEMMA MoveType ==
  ASSUME TypeOK, NEW a \in Actor, NEW p \in Phase, NEW e \in Row, Move(a, p, e)
  PROVE  /\ phase' \in [Actor -> Phase] /\ held' \in [Actor -> Row]
         /\ \A b \in Actor : /\ phase'[b] = IF b = a THEN p ELSE phase[b]
                             /\ held'[b] = IF b = a THEN e ELSE held[b]
  BY DEF TypeOK, Move, Goto, Hold

\* A call that keeps the envelope in hand.
LEMMA StayType ==
  ASSUME TypeOK, NEW a \in Actor, UNCHANGED held
  PROVE  Hold(a, held[a]) /\ held[a] \in Row
  BY DEF TypeOK, Hold

LEMMA NewRowType == NewRow \in Row
  BY DEF NewRow, NewSigners, Row, Status, Live, SignerStatus, Seal

LEMMA ActorFacts == Signer \subseteq Actor /\ Reseal \subseteq Actor
  BY DEF Actor

LEMMA BumpedRow ==
  ASSUME NEW e \in Row, NEW n \in Nat
  PROVE  /\ [e EXCEPT !.rev = n] \in Row
         /\ [e EXCEPT !.rev = n].rev = n
         /\ [e EXCEPT !.rev = n].status = e.status
         /\ [e EXCEPT !.rev = n].seal = e.seal
         /\ [e EXCEPT !.rev = n].attempts = e.attempts
         /\ [e EXCEPT !.rev = n].links = e.links
         /\ [e EXCEPT !.rev = n].events = e.events
  BY DEF Row

\* Putting an outcome on an envelope touches nothing else of it.
LEMMA OutcomeRow ==
  ASSUME NEW e \in Row, NEW o \in Outcome
  PROVE  /\ WithOutcome(e, o) \in Row
         /\ WithOutcome(e, o).seal = o
         /\ WithOutcome(e, o).attempts = e.attempts + 1
         /\ WithOutcome(e, o).rev = e.rev
         /\ WithOutcome(e, o).status = e.status
         /\ WithOutcome(e, o).links = e.links
         /\ WithOutcome(e, o).events = e.events
<1> DEFINE w == WithOutcome(e, o)
<1>1. /\ w.seal = o /\ w.attempts = e.attempts + 1 /\ w.rev = e.rev
      /\ w.status = e.status /\ w.links = e.links /\ w.events = e.events
  BY DEF WithOutcome, Row
<1>2. w \in Row
  <2>1. o \in Seal /\ e.attempts + 1 \in Nat
    BY DEF Seal, Row
  <2>2. [e EXCEPT !.seal = o] \in Row /\ [e EXCEPT !.seal = o].attempts = e.attempts
    BY <2>1 DEF Row
  <2> QED
    BY <2>1, <2>2 DEF WithOutcome, Row
<1> QED
  BY <1>1, <1>2

------------------------------------------------------------------------------
(***************************************************************************)
(* Copies.                                                                 *)
(***************************************************************************)
\* The row moves on: every copy in a sealing call is outdated.
LEMMA CopiesWritten ==
  ASSUME TypeOK, Copies, Written,
         \A b \in Actor : phase'[b] \in Preparing => phase'[b] = phase[b] /\ held'[b] = held[b]
  PROVE  Copies'
<1> SUFFICES ASSUME NEW b \in Actor, phase'[b] \in Preparing
             PROVE  /\ row'.status = "completed"
                    /\ held'[b].rev <= row'.rev /\ held'[b].rev # row'.rev
                    /\ phase'[b] = "recording" => held'[b].seal \in Outcome
  BY DEF Copies
<1>1. held[b].rev \in Nat /\ row.rev \in Nat
  BY DEF TypeOK, Row
<1>2. /\ row.status = "completed" /\ held[b].rev <= row.rev
      /\ phase[b] = "recording" => held[b].seal \in Outcome
  BY DEF Copies
<1>3. held'[b] = held[b] /\ phase'[b] = phase[b]
  OBVIOUS
<1>4. row'.rev = row.rev + 1 /\ row'.status = "completed"
  BY <1>2 DEF Written
<1> QED
  BY <1>1, <1>2, <1>3, <1>4

\* The row stays: the copies stay as good as they were.
LEMMA CopiesKept ==
  ASSUME TypeOK, Copies, NEW a \in Actor, NEW p \in Phase, NEW e \in Row, Move(a, p, e),
         UNCHANGED row,
         p \in Preparing => /\ row.status = "completed"
                            /\ e.rev <= row.rev
                            /\ e.rev = row.rev =>
                                 e = IF p = "recording" THEN WithOutcome(row, e.seal) ELSE row
                            /\ p = "recording" => e.seal \in Outcome
  PROVE  Copies'
<1>1. \A b \in Actor : /\ phase'[b] = IF b = a THEN p ELSE phase[b]
                       /\ held'[b] = IF b = a THEN e ELSE held[b]
  BY MoveType
<1> SUFFICES ASSUME NEW b \in Actor, phase'[b] \in Preparing
             PROVE  /\ row.status = "completed"
                    /\ held'[b].rev <= row.rev
                    /\ held'[b].rev = row.rev =>
                         held'[b] = IF phase'[b] = "recording"
                                    THEN WithOutcome(row, held'[b].seal) ELSE row
                    /\ phase'[b] = "recording" => held'[b].seal \in Outcome
  BY DEF Copies, WithOutcome
<1> QED
  BY <1>1 DEF Copies

------------------------------------------------------------------------------
(***************************************************************************)
(* Files.                                                                  *)
(***************************************************************************)
LEMMA FilesQuiet ==
  ASSUME TypeOK, Files, NEW a \in Actor, NEW p \in Phase, NEW e \in Row, Move(a, p, e), Quiet,
         row'.seal = row.seal, row.status = "completed" => row'.status = "completed",
         p \in Before => phase[a] \in Before,
         p # "uploading", p = "recording" => e.seal # "sealed"
  PROVE  Files'
<1>1. \A b \in Actor : /\ phase'[b] = IF b = a THEN p ELSE phase[b]
                       /\ held'[b] = IF b = a THEN e ELSE held[b]
  BY MoveType
<1>2. Produced' <=> Produced
  BY DEF Produced, Quiet
<1> QED
  BY <1>1, <1>2 DEF Files, Quiet

------------------------------------------------------------------------------
(***************************************************************************)
(* Ledger.                                                                 *)
(***************************************************************************)
LEMMA LedgerQuiet ==
  ASSUME TypeOK, Ledger, NEW a \in Actor, NEW p \in Phase, NEW e \in Row, Move(a, p, e), Quiet,
         row'.attempts = row.attempts,
         p # "auditing",
         p \in {"emitting", "reporting"} =>
           phase[a] \in {"emitting", "reporting"} /\ e = held[a]
  PROVE  Ledger'
<1>1. \A b \in Actor : /\ phase'[b] = IF b = a THEN p ELSE phase[b]
                       /\ held'[b] = IF b = a THEN e ELSE held[b]
  BY MoveType
<1>2. \A o \in Outcome : Pending(o)' = Pending(o) \ {a}
  BY <1>1 DEF Pending
<1>3. ASSUME NEW o \in Outcome
      PROVE  IsFiniteSet(Pending(o)') /\ audit'[o] + Cardinality(Pending(o)') <= recorded'[o]
  <2>1. IsFiniteSet(Pending(o)) /\ audit[o] + Cardinality(Pending(o)) <= recorded[o]
    BY DEF Ledger
  <2>2. /\ IsFiniteSet(Pending(o) \ {a})
        /\ Cardinality(Pending(o) \ {a}) <= Cardinality(Pending(o))
        /\ Cardinality(Pending(o)) \in Nat /\ Cardinality(Pending(o) \ {a}) \in Nat
    <3>1. /\ IsFiniteSet(Pending(o) \ {a})
          /\ Cardinality(Pending(o) \ {a}) =
               IF a \in Pending(o) THEN Cardinality(Pending(o)) - 1 ELSE Cardinality(Pending(o))
      BY <2>1, FS_RemoveElement
    <3>2. Cardinality(Pending(o)) \in Nat /\ Cardinality(Pending(o) \ {a}) \in Nat
      BY <2>1, <3>1, FS_CardinalityType
    <3> QED
      BY <3>1, <3>2
  <2>3. audit[o] \in Nat /\ recorded[o] \in Nat
    BY DEF TypeOK
  <2> QED
    BY <1>2, <2>1, <2>2, <2>3 DEF Quiet
<1> QED
  BY <1>1, <1>3 DEF Ledger, Quiet

------------------------------------------------------------------------------
(***************************************************************************)
(* Log.                                                                    *)
(***************************************************************************)
LEMMA LogKept ==
  ASSUME Log, row'.events = row.events, row'.links = row.links, UNCHANGED emitted
  PROVE  Log'
  BY DEF Log
------------------------------------------------------------------------------
(***************************************************************************)
(* The steps.                                                              *)
(***************************************************************************)
\* The copy in hand is fit for phase p of seal.
Fit(p, e) == /\ row.status = "completed"
             /\ e.rev <= row.rev
             /\ e.rev = row.rev => e = IF p = "recording" THEN WithOutcome(row, e.seal) ELSE row
             /\ p = "recording" => e.seal = "failed"

\* A step of a call that neither uploads nor records, audits or reports.
LEMMA QuietMove ==
  ASSUME PInv, NEW a \in Actor, NEW p \in Phase, NEW e \in Row, Move(a, p, e), Quiet,
         \/ UNCHANGED row /\ (p \in Preparing => Fit(p, e))
         \/ Written /\ p \notin Preparing,
         row'.seal = row.seal, row'.attempts = row.attempts,
         touched' \in 0..MaxTouches, cut' \in BOOLEAN, emitted' \in Seq(Event), Log',
         p \in Before => phase[a] \in Before,
         p # "uploading", p # "auditing",
         p \in {"emitting", "reporting"} =>
           phase[a] \in {"emitting", "reporting"} /\ e = held[a]
  PROVE  PInv'
<1> USE DEF PInv
<1>1. TypeOK'
  <2>1. row' \in Row
    BY DEF Written, TypeOK
  <2> QED
    BY <2>1, MoveType DEF TypeOK, Quiet
<1>2. Copies'
  <2>1. CASE UNCHANGED row /\ (p \in Preparing => Fit(p, e))
    <3>1. p \in Preparing => Fit(p, e) /\ (p = "recording" => e.seal \in Outcome)
      BY <2>1 DEF Fit, Outcome
    <3> QED
      BY <2>1, <3>1, CopiesKept DEF Fit
  <2>2. CASE Written /\ p \notin Preparing
    <3>1. \A b \in Actor : /\ phase'[b] = IF b = a THEN p ELSE phase[b]
                           /\ held'[b] = IF b = a THEN e ELSE held[b]
      BY MoveType
    <3> QED
      BY <2>2, <3>1, CopiesWritten
  <2> QED
    BY <2>1, <2>2
<1>3. Files'
  <2>1. p = "recording" => e.seal # "sealed"
    BY DEF Fit, Preparing
  <2>2. row.status = "completed" => row'.status = "completed"
    BY DEF Written
  <2> QED
    BY <2>1, <2>2, FilesQuiet
<1>4. Ledger'
  BY LedgerQuiet
<1> QED
  BY <1>1, <1>2, <1>3, <1>4

LEMMA InitStep == Init => PInv
<1> SUFFICES ASSUME Init PROVE PInv
  OBVIOUS
<1>1. TypeOK
  <2>1. row \in Row /\ phase \in [Actor -> Phase] /\ held \in [Actor -> Row]
    BY NewRowType DEF Init, Phase
  <2>2. audit \in [Outcome -> Nat] /\ recorded \in [Outcome -> Nat] /\ touched \in 0..MaxTouches
    BY TouchesAssumption DEF Init
  <2>3. pdf \in {"none", "torn", "whole"} /\ uploaders \subseteq Actor /\ receipt \in Seal
    BY DEF Init, Seal
  <2>4. cut \in BOOLEAN
    BY DEF Init
  <2>5. emitted \in Seq(Event)
    BY DEF Init
  <2> QED
    BY <2>1, <2>2, <2>3, <2>4, <2>5 DEF TypeOK
<1>2. Copies
  BY DEF Init, Copies, Preparing
<1>3. Files
  BY FS_EmptySet DEF Init, Files, NewRow, Before
<1>4. Ledger
  <2>1. \A o \in Outcome : Pending(o) = {}
    BY DEF Init, Pending
  <2> QED
    <3>1. \A o \in Outcome : IsFiniteSet(Pending(o)) /\ Cardinality(Pending(o)) = 0
      BY <2>1, FS_EmptySet
    <3>2. /\ row.attempts = recorded["sealed"] + recorded["failed"]
          /\ receipt \notin Outcome
          /\ \A o \in Outcome : audit[o] = 0 /\ recorded[o] = 0
          /\ \A a \in Actor : phase[a] = "idle"
      BY DEF Init, NewRow, Outcome
    <3> QED
      BY <3>1, <3>2 DEF Ledger
<1>5. Log
  BY DEF Init, Log, NewRow
<1> QED
  BY <1>1, <1>2, <1>3, <1>4, <1>5 DEF PInv

LEMMA RecordSignatureStep ==
  ASSUME PInv, NEW a \in Signer, RecordSignature(a)
  PROVE  PInv'
<1> DEFINE e == AfterSignature(row, a)
<1>1. a \in Actor /\ "signed" \in Phase /\ row \in Row
  BY ActorFacts DEF Phase, PInv, TypeOK
<1>2. /\ e \in Row /\ e.seal = row.seal /\ e.attempts = row.attempts
      /\ e.links = row.links /\ e.events = row.events
  BY <1>1 DEF AfterSignature, Row, SignerStatus, Status, Live
<1>3. row.status # "completed" /\ row.rev + 1 \in Nat
  BY <1>1 DEF RecordSignature, CanSign, Live, Row
<1>4. row' = [e EXCEPT !.rev = row.rev + 1]
  BY DEF RecordSignature
<1> HIDE DEF e
<1>5. /\ row' \in Row /\ row'.rev = row.rev + 1 /\ row'.seal = row.seal
      /\ row'.attempts = row.attempts /\ row'.links = row.links /\ row'.events = row.events
  BY <1>2, <1>3, <1>4, BumpedRow
<1>6. Written
  BY <1>3, <1>5 DEF Written
<1>7. /\ Move(a, "signed", row') /\ Quiet /\ UNCHANGED <<touched, cut, emitted>>
      /\ phase[a] = "idle"
  BY DEF RecordSignature, Move, Quiet, files, counters
<1>8. Log'
  BY <1>5, <1>7, LogKept DEF PInv
<1>9. touched' \in 0..MaxTouches /\ cut' \in BOOLEAN /\ emitted' \in Seq(Event)
  BY <1>7 DEF PInv, TypeOK
<1>10. "signed" \notin Preparing /\ {"signed", "idle"} \subseteq Before
  BY DEF Preparing, Before
<1> HIDE DEF Move
<1> QED
  BY <1>1, <1>5, <1>6, <1>7, <1>8, <1>9, <1>10, QuietMove

\* What emit does, whether or not its append succeeds.
LEMMA EmitRow ==
  ASSUME PInv, NEW type \in {"signed", "completed", "sealed", "seal_failed"},
         NEW of \in SUBSET Signer, NEW gone \in SUBSET Signer, Emit(type, of, gone),
         type = "signed" => of \subseteq gone,
         type = "completed" => gone = Signer
  PROVE  /\ UNCHANGED row \/ Written
         /\ row'.seal = row.seal /\ row'.attempts = row.attempts
         /\ touched' \in 0..MaxTouches /\ cut' \in BOOLEAN /\ emitted' \in Seq(Event)
         /\ Quiet /\ Log'
<1>1. Quiet /\ UNCHANGED <<touched, cut>> /\ row \in Row /\ emitted \in Seq(Event)
  BY DEF Emit, files, counters, Quiet, PInv, TypeOK
<1>2. CASE UNCHANGED <<row, emitted>>
  BY <1>1, <1>2, LogKept DEF PInv, TypeOK
<1>3. CASE LET event == [type |-> type, of |-> of]
           IN  /\ row' = [row EXCEPT !.rev = @ + 1, !.links = @ \ gone,
                                     !.events = Append(@, event)]
               /\ emitted' = Append(emitted, event)
  <2> DEFINE event == [type |-> type, of |-> of]
  <2>1. event \in Event /\ event.type = type /\ event.of = of
    BY DEF Event
  <2>2. row' = [row EXCEPT !.rev = @ + 1, !.links = @ \ gone, !.events = Append(@, event)]
    BY <1>3
  <2>3. emitted' = Append(emitted, event)
    BY <1>3
  <2> HIDE DEF event
  <2>4. row.rev + 1 \in Nat /\ Append(row.events, event) \in Seq(Event)
        /\ row.links \ gone \in SUBSET Signer
    BY <1>1, <2>1 DEF Row
  <2>5. /\ row' \in Row /\ row'.rev = row.rev + 1 /\ row'.status = row.status
        /\ row'.seal = row.seal /\ row'.attempts = row.attempts
        /\ row'.links = row.links \ gone /\ row'.events = Append(row.events, event)
    BY <1>1, <2>2, <2>4 DEF Row
  <2>6. Log'
    <3>1. row'.events = emitted'
      BY <2>3, <2>5 DEF PInv, Log
    <3>2. /\ Len(emitted') = Len(emitted) + 1 /\ Len(emitted) \in Nat
          /\ \A i \in 1..Len(emitted) : emitted'[i] = emitted[i]
          /\ emitted'[Len(emitted) + 1] = event
      BY <1>1, <2>1, <2>3
    <3> SUFFICES ASSUME NEW i \in 1..Len(emitted')
                 PROVE  /\ emitted'[i].type = "signed" => emitted'[i].of \cap row'.links = {}
                        /\ emitted'[i].type = "completed" => row'.links = {}
      BY <3>1 DEF Log
    <3>3. row.links \subseteq Signer
      BY <1>1 DEF Row
    <3>4. CASE i \in 1..Len(emitted)
      BY <2>5, <3>2, <3>4 DEF PInv, Log
    <3>5. CASE i = Len(emitted) + 1
      BY <2>1, <2>5, <3>2, <3>3, <3>5
    <3> QED
      BY <3>2, <3>4, <3>5
  <2> QED
    BY <1>1, <2>1, <2>3, <2>5, <2>6 DEF Written, PInv, TypeOK
<1> QED
  BY <1>2, <1>3 DEF Emit

LEMMA EmitSignedStep ==
  ASSUME PInv, NEW a \in Signer, EmitSigned(a)
  PROVE  PInv'
<1> DEFINE p == IF CompletedIt(a) THEN "completing" ELSE "refreshing"
<1>1. a \in Actor /\ p \in Phase /\ p \notin Preparing /\ {p, "signed"} \subseteq Before
  BY ActorFacts DEF Phase, Preparing, Before
<1>2. Move(a, p, held[a]) /\ held[a] \in Row /\ phase[a] = "signed"
  BY <1>1, StayType DEF EmitSigned, Move, PInv
<1>3. Emit("signed", {a}, {a})
  BY DEF EmitSigned
<1>4. /\ UNCHANGED row \/ Written
      /\ row'.seal = row.seal /\ row'.attempts = row.attempts
      /\ touched' \in 0..MaxTouches /\ cut' \in BOOLEAN /\ emitted' \in Seq(Event)
      /\ Quiet /\ Log'
  BY <1>3, EmitRow
<1>5. p # "uploading" /\ p # "auditing" /\ p \notin {"emitting", "reporting"}
  OBVIOUS
<1> HIDE DEF p
<1> QED
  BY <1>1, <1>2, <1>4, <1>5, QuietMove

LEMMA EmitCompletedStep ==
  ASSUME PInv, NEW a \in Signer, EmitCompleted(a)
  PROVE  PInv'
<1>1. /\ a \in Actor /\ "refreshing" \in Phase /\ "refreshing" \notin Preparing
      /\ {"refreshing", "completing"} \subseteq Before
  BY ActorFacts DEF Phase, Preparing, Before
<1>2. Move(a, "refreshing", held[a]) /\ held[a] \in Row /\ phase[a] = "completing"
  BY <1>1, StayType DEF EmitCompleted, Move, PInv
<1>3. Emit("completed", {}, Signer)
  BY DEF EmitCompleted
<1>4. /\ UNCHANGED row \/ Written
      /\ row'.seal = row.seal /\ row'.attempts = row.attempts
      /\ touched' \in 0..MaxTouches /\ cut' \in BOOLEAN /\ emitted' \in Seq(Event)
      /\ Quiet /\ Log'
  BY <1>3, EmitRow
<1> QED
  BY <1>1, <1>2, <1>4, QuietMove

\* A call is over, or fails: it lets go of its copy.
LEMMA EndStep ==
  ASSUME PInv, NEW a \in Actor, NEW p \in {"done", "conflict"}, End(a, p), Quiet,
         UNCHANGED <<row, touched, emitted>>, cut' \in BOOLEAN
  PROVE  PInv'
<1>1. p \in Phase /\ p \notin Preparing /\ p \notin Before
  BY DEF Phase, Preparing, Before
<1>2. Move(a, p, NewRow) /\ NewRow \in Row
  BY NewRowType DEF End, Forget, Move
<1>3. Log'
  BY LogKept DEF PInv
<1>4. touched' \in 0..MaxTouches /\ emitted' \in Seq(Event)
  BY DEF PInv, TypeOK
<1>5. p # "uploading" /\ p # "auditing" /\ p \notin {"emitting", "reporting"}
  OBVIOUS
<1> QED
  BY <1>1, <1>2, <1>3, <1>4, <1>5, QuietMove

\* A call takes the completed row in hand to seal it.
LEMMA TakeStep ==
  ASSUME PInv, NEW a \in Actor, phase[a] \in {"idle", "refreshing"}, row.status = "completed",
         Move(a, "rendering", row), UNCHANGED <<row, files, counters, emitted>>
  PROVE  PInv'
<1>1. row \in Row /\ row.rev <= row.rev
  BY DEF PInv, TypeOK, Row
<1>2. /\ "rendering" \in Phase /\ "rendering" \in Before /\ phase[a] \in Before
      /\ Fit("rendering", row)
  BY <1>1 DEF Phase, Before, Fit
<1>3. Quiet /\ Log'
  BY LogKept DEF PInv, Quiet, files, counters
<1>4. touched' \in 0..MaxTouches /\ cut' \in BOOLEAN /\ emitted' \in Seq(Event)
  BY DEF PInv, TypeOK, counters
<1> QED
  BY <1>1, <1>2, <1>3, <1>4, QuietMove

LEMMA RefreshStep ==
  ASSUME PInv, NEW a \in Signer, Refresh(a)
  PROVE  PInv'
<1>1. a \in Actor /\ phase[a] = "refreshing" /\ UNCHANGED <<row, files, counters, emitted>>
  BY ActorFacts DEF Refresh
<1>2. CASE MustSeal(a)
  BY <1>1, <1>2, TakeStep DEF Refresh, MustSeal, Move
<1>3. CASE ~MustSeal(a)
  <2>1. End(a, "done") /\ Quiet /\ UNCHANGED <<row, touched, emitted>> /\ cut' \in BOOLEAN
    BY <1>1, <1>3 DEF Refresh, Quiet, files, counters, PInv, TypeOK
  <2> QED
    BY <1>1, <2>1, EndStep
<1> QED
  BY <1>2, <1>3

LEMMA BeginResealStep ==
  ASSUME PInv, NEW a \in Reseal, BeginReseal(a)
  PROVE  PInv'
BY ActorFacts, TakeStep DEF BeginReseal, CanReseal, Move

\* The try block of seal ends in the catch.
LEMMA FailStep ==
  ASSUME PInv, NEW a \in Actor, phase[a] \in {"rendering", "uploading"}, Decide(a, "failed"),
         UNCHANGED <<row, files, counters, emitted>>
  PROVE  PInv'
<1> DEFINE e == WithOutcome(held[a], "failed")
<1>1. /\ held[a] \in Row /\ row \in Row /\ "failed" \in Outcome
      /\ row.status = "completed" /\ held[a].rev <= row.rev
      /\ held[a].rev = row.rev => held[a] = row
  BY DEF PInv, TypeOK, Copies, Preparing, Outcome
<1>2. e \in Row /\ e.seal = "failed" /\ e.rev = held[a].rev
  BY <1>1, OutcomeRow
<1>3. Fit("recording", e)
  BY <1>1, <1>2 DEF Fit
<1>4. Move(a, "recording", e)
  BY DEF Decide, Move
<1> HIDE DEF e
<1>5. "recording" \in Phase /\ "recording" \notin Before
  BY DEF Phase, Before
<1>6. Quiet /\ Log'
  BY LogKept DEF PInv, Quiet, files, counters
<1>7. touched' \in 0..MaxTouches /\ cut' \in BOOLEAN /\ emitted' \in Seq(Event)
  BY DEF PInv, TypeOK, counters
<1> QED
  BY <1>2, <1>3, <1>4, <1>5, <1>6, <1>7, QuietMove

\* Once produced, a PDF is torn only by a second upload.
LEMMA StartUploadStep ==
  ASSUME PInv, NEW a \in Actor, StartUpload(a)
  PROVE  PInv'
<1> USE DEF PInv
<1>1. /\ phase[a] = "rendering" /\ Goto(a, "uploading") /\ pdf' = "torn"
      /\ uploaders' = uploaders \cup {a}
      /\ UNCHANGED <<row, held, receipt, audit, touched, cut, recorded, emitted>>
  BY DEF StartUpload, counters
<1>2. /\ "uploading" \in Phase /\ Move(a, "uploading", held[a]) /\ held[a] \in Row
  BY <1>1, StayType DEF Phase, Move
<1>3. \A b \in Actor : /\ phase'[b] = IF b = a THEN "uploading" ELSE phase[b]
                       /\ held'[b] = held[b]
  BY <1>1, <1>2, MoveType
<1>4. TypeOK'
  <2>1. phase' \in [Actor -> Phase] /\ held' \in [Actor -> Row]
    BY <1>2, MoveType
  <2> QED
    BY <1>1, <2>1 DEF TypeOK
<1>5. a \notin uploaders /\ IsFiniteSet(uploaders) /\ row.status = "completed"
  BY <1>1 DEF Files, Before, Copies, Preparing
<1>6. Copies'
  <2>1. Fit("uploading", held[a]) /\ "uploading" # "recording"
    BY <1>1 DEF Copies, Preparing, Fit
  <2> QED
    BY <1>1, <1>2, <2>1, CopiesKept DEF Fit
<1>7. Files'
  <2>1. Produced => Produced'
    <3> SUFFICES ASSUME Produced PROVE Produced'
      OBVIOUS
    <3>1. PICK b \in uploaders : b # a
      BY <1>5 DEF Produced
    <3> QED
      BY <1>1, <3>1 DEF Produced
  <2>2. IsFiniteSet(uploaders')
    BY <1>1, <1>5, FS_AddElement
  <2>3. "uploading" \notin Before
    BY DEF Before
  <2>4. \A b \in Actor : /\ phase'[b] \in Before => b \notin uploaders'
                         /\ phase'[b] = "uploading" => b \in uploaders'
                         /\ phase'[b] = "recording" /\ held'[b].seal = "sealed" => Produced'
    BY <1>1, <1>3, <2>1, <2>3 DEF Files
  <2> QED
    BY <1>1, <1>5, <2>1, <2>2, <2>4 DEF Files
<1>8. Ledger'
  <2>1. \A o \in Outcome : Pending(o)' = Pending(o)
    BY <1>1, <1>3 DEF Pending
  <2> QED
    BY <1>1, <1>3, <2>1 DEF Ledger
<1>9. Log'
  BY <1>1, LogKept
<1> QED
  BY <1>4, <1>6, <1>7, <1>8, <1>9

LEMMA UploadedStep ==
  ASSUME PInv, NEW a \in Actor, Uploaded(a)
  PROVE  PInv'
<1> USE DEF PInv
<1> DEFINE e == WithOutcome(held[a], "sealed")
<1>1. /\ phase[a] = "uploading"
      /\ pdf' = "whole" \/ (uploaders # {a} /\ pdf' = "torn")
      /\ UNCHANGED <<row, uploaders, receipt, audit, touched, cut, recorded, emitted>>
  BY DEF Uploaded, counters
<1>2. /\ held[a] \in Row /\ row \in Row /\ "sealed" \in Outcome
      /\ row.status = "completed" /\ held[a].rev <= row.rev
      /\ held[a].rev = row.rev => held[a] = row
  BY <1>1 DEF TypeOK, Copies, Preparing, Outcome
<1>3. e \in Row /\ e.seal = "sealed" /\ e.rev = held[a].rev
  BY <1>2, OutcomeRow
<1>4. e.rev = row.rev => e = WithOutcome(row, e.seal)
  BY <1>2, <1>3
<1>5. Move(a, "recording", e) /\ "recording" \in Phase
  BY DEF Uploaded, Decide, Move, Phase
<1> HIDE DEF e
<1>6. \A b \in Actor : /\ phase'[b] = IF b = a THEN "recording" ELSE phase[b]
                       /\ held'[b] = IF b = a THEN e ELSE held[b]
  BY <1>3, <1>5, MoveType
<1>7. TypeOK'
  <2>1. phase' \in [Actor -> Phase] /\ held' \in [Actor -> Row]
    BY <1>3, <1>5, MoveType
  <2> QED
    BY <1>1, <2>1 DEF TypeOK
<1>8. Copies'
  BY <1>1, <1>2, <1>3, <1>4, <1>5, CopiesKept
<1>9. Files'
  <2>1. Produced'
    <3>1. a \in uploaders
      BY <1>1 DEF Files
    <3> QED
      BY <1>1, <3>1 DEF Produced
  <2>2. "recording" \notin Before
    BY DEF Before
  <2> QED
    BY <1>1, <1>2, <1>6, <2>1, <2>2 DEF Files
<1>10. Ledger'
  <2>1. \A o \in Outcome : Pending(o)' = Pending(o)
    BY <1>1, <1>6 DEF Pending
  <2> QED
    BY <1>1, <1>6, <2>1 DEF Ledger
<1>11. Log'
  BY <1>1, LogKept
<1> QED
  BY <1>7, <1>8, <1>9, <1>10, <1>11

\* The write of the row: the compare passed, so the copy is the row with the
\* outcome on it.
LEMMA RecordOutcomeStep ==
  ASSUME PInv, NEW a \in Actor, RecordOutcome(a)
  PROVE  PInv'
<1> USE DEF PInv
<1> DEFINE o == held[a].seal
<1>1. /\ phase[a] = "recording" /\ held[a].rev = row.rev
      /\ row' = [held[a] EXCEPT !.rev = @ + 1]
      /\ recorded' = [recorded EXCEPT ![o] = @ + 1]
      /\ Move(a, "auditing", row')
      /\ UNCHANGED <<pdf, uploaders, receipt, audit, touched, cut, emitted>>
  BY DEF RecordOutcome, Fresh, Move, files
<1>2. /\ held[a] \in Row /\ row \in Row /\ "auditing" \in Phase
      /\ row.rev + 1 \in Nat
  BY DEF TypeOK, Phase, Row
<1>3. /\ o \in Outcome /\ held[a] = WithOutcome(row, o)
      /\ row.status = "completed"
  BY <1>1 DEF Copies, Preparing
<1>4. /\ row' \in Row /\ row'.rev = row.rev + 1 /\ row'.status = "completed"
      /\ row'.seal = o /\ row'.attempts = row.attempts + 1
      /\ row'.links = row.links /\ row'.events = row.events
  BY <1>1, <1>2, <1>3, OutcomeRow, BumpedRow
<1>5. Written
  BY <1>4 DEF Written
<1> HIDE DEF o
<1>6. \A b \in Actor : /\ phase'[b] = IF b = a THEN "auditing" ELSE phase[b]
                       /\ held'[b] = IF b = a THEN row' ELSE held[b]
  BY <1>1, <1>2, <1>4, MoveType
<1>7. recorded' \in [Outcome -> Nat] /\ recorded'[o] = recorded[o] + 1
      /\ \A q \in Outcome : q # o => recorded'[q] = recorded[q]
  BY <1>1, <1>3 DEF TypeOK
<1>8. TypeOK'
  <2>1. phase' \in [Actor -> Phase] /\ held' \in [Actor -> Row]
    BY <1>1, <1>2, <1>4, MoveType
  <2> QED
    BY <1>1, <1>4, <1>7, <2>1 DEF TypeOK
<1>9. Copies'
  BY <1>5, <1>6, CopiesWritten DEF Preparing
<1>10. Files'
  <2>1. Produced' <=> Produced
    BY <1>1 DEF Produced
  <2>2. row'.seal = "sealed" => Produced
    BY <1>1, <1>4 DEF Files, o
  <2>3. "auditing" \notin Before
    BY DEF Before
  <2> QED
    BY <1>1, <1>4, <1>6, <2>1, <2>2, <2>3 DEF Files
<1>11. Ledger'
  <2>1. row'.attempts = recorded'["sealed"] + recorded'["failed"]
    <3>1. /\ recorded["sealed"] \in Nat /\ recorded["failed"] \in Nat
          /\ row.attempts = recorded["sealed"] + recorded["failed"]
      BY DEF TypeOK, Ledger, Outcome
    <3>2. CASE o = "sealed"
      BY <1>4, <1>7, <3>1, <3>2 DEF Outcome
    <3>3. CASE o = "failed"
      BY <1>4, <1>7, <3>1, <3>3 DEF Outcome
    <3> QED
      BY <1>3, <3>2, <3>3 DEF Outcome
  <2>2. \A q \in Outcome : Pending(q)' = IF q = o THEN Pending(q) \cup {a} ELSE Pending(q)
    BY <1>1, <1>4, <1>6, ZenonT(60) DEF Pending
  <2>3. ASSUME NEW q \in Outcome
        PROVE  IsFiniteSet(Pending(q)') /\ audit'[q] + Cardinality(Pending(q)') <= recorded'[q]
    <3>1. IsFiniteSet(Pending(q)) /\ audit[q] + Cardinality(Pending(q)) <= recorded[q]
      BY DEF Ledger
    <3>2. /\ Cardinality(Pending(q)) \in Nat /\ IsFiniteSet(Pending(q) \cup {a})
          /\ Cardinality(Pending(q) \cup {a}) =
               IF a \in Pending(q) THEN Cardinality(Pending(q)) ELSE Cardinality(Pending(q)) + 1
      BY <3>1, FS_AddElement, FS_CardinalityType
    <3>3. audit[q] \in Nat /\ recorded[q] \in Nat /\ audit'[q] = audit[q]
      BY <1>1 DEF TypeOK
    <3>4. CASE q = o
      <4>1. Pending(q)' = Pending(q) \cup {a} /\ recorded'[q] = recorded[q] + 1
        BY <1>7, <2>2, <3>4
      <4>2. audit[q] + Cardinality(Pending(q) \cup {a}) <= recorded[q] + 1
        BY <3>1, <3>2, <3>3
      <4> QED
        BY <3>2, <3>3, <4>1, <4>2
    <3>5. CASE q # o
      BY <1>7, <2>2, <3>1, <3>2, <3>3, <3>5
    <3> QED
      BY <3>4, <3>5
  <2>4. \A b \in Actor :
          /\ phase'[b] \in {"auditing", "emitting", "reporting"} => held'[b].seal \in Outcome
          /\ phase'[b] \in {"emitting", "reporting"} => audit'[held'[b].seal] > 0
    BY <1>1, <1>3, <1>4, <1>6 DEF Ledger
  <2> QED
    BY <1>1, <2>1, <2>3, <2>4 DEF Ledger
<1>12. Log'
  BY <1>1, <1>4, LogKept
<1> QED
  BY <1>8, <1>9, <1>10, <1>11, <1>12

LEMMA AuditOutcomeStep ==
  ASSUME PInv, NEW a \in Actor, AuditOutcome(a)
  PROVE  PInv'
<1> USE DEF PInv
<1> DEFINE o == held[a].seal
<1>1. /\ phase[a] = "auditing" /\ audit' = [audit EXCEPT ![o] = @ + 1]
      /\ Goto(a, "emitting")
      /\ UNCHANGED <<row, held, pdf, uploaders, receipt, touched, cut, emitted, recorded>>
  BY DEF AuditOutcome, files
<1>2. /\ "emitting" \in Phase /\ Move(a, "emitting", held[a]) /\ held[a] \in Row
      /\ "emitting" \notin Preparing /\ "emitting" \notin Before
  BY <1>1, StayType DEF Phase, Move, Preparing, Before
<1>3. \A b \in Actor : /\ phase'[b] = IF b = a THEN "emitting" ELSE phase[b]
                       /\ held'[b] = held[b]
  BY <1>1, <1>2, MoveType
<1>4. o \in Outcome
  BY <1>1 DEF Ledger
<1> HIDE DEF o
<1>5. /\ audit' \in [Outcome -> Nat] /\ audit'[o] = audit[o] + 1
      /\ \A q \in Outcome : q # o => audit'[q] = audit[q]
  BY <1>1, <1>4 DEF TypeOK
<1>6. TypeOK'
  <2>1. phase' \in [Actor -> Phase] /\ held' \in [Actor -> Row]
    BY <1>2, MoveType
  <2> QED
    BY <1>1, <1>5, <2>1 DEF TypeOK
<1>7. Copies'
  BY <1>1, <1>2, CopiesKept
<1>8. Files'
  <2>1. Produced' <=> Produced
    BY <1>1 DEF Produced
  <2> QED
    BY <1>1, <1>2, <1>3, <2>1 DEF Files
<1>9. Ledger'
  <2>1. \A q \in Outcome : Pending(q)' = IF q = o THEN Pending(q) \ {a} ELSE Pending(q)
    BY <1>1, <1>3 DEF Pending, o
  <2>2. ASSUME NEW q \in Outcome
        PROVE  /\ IsFiniteSet(Pending(q)') /\ audit'[q] + Cardinality(Pending(q)') <= recorded'[q]
               /\ audit'[q] >= audit[q]
    <3>1. IsFiniteSet(Pending(q)) /\ audit[q] + Cardinality(Pending(q)) <= recorded[q]
      BY DEF Ledger
    <3>2. /\ Cardinality(Pending(q)) \in Nat /\ IsFiniteSet(Pending(q) \ {a})
          /\ Cardinality(Pending(q) \ {a}) =
               IF a \in Pending(q) THEN Cardinality(Pending(q)) - 1 ELSE Cardinality(Pending(q))
      BY <3>1, FS_RemoveElement, FS_CardinalityType
    <3>3. audit[q] \in Nat /\ recorded[q] \in Nat /\ recorded'[q] = recorded[q]
      BY <1>1 DEF TypeOK
    <3>4. CASE q = o
      <4>1. a \in Pending(q)
        BY <1>1, <3>4 DEF Pending, o
      <4> QED
        BY <1>5, <2>1, <3>1, <3>2, <3>3, <3>4, <4>1
    <3>5. CASE q # o
      BY <1>5, <2>1, <3>1, <3>2, <3>3, <3>5
    <3> QED
      BY <3>4, <3>5
  <2>3. \A q \in Outcome : audit[q] \in Nat /\ audit'[q] \in Nat
    BY <1>5 DEF TypeOK
  <2>4. \A q \in Outcome : receipt' = q => audit'[q] > 0
    BY <1>1, <2>2, <2>3 DEF Ledger
  <2>5. \A b \in Actor :
          /\ phase'[b] \in {"auditing", "emitting", "reporting"} => held'[b].seal \in Outcome
          /\ phase'[b] \in {"emitting", "reporting"} => audit'[held'[b].seal] > 0
    <3> SUFFICES ASSUME NEW b \in Actor, phase'[b] \in {"auditing", "emitting", "reporting"}
                 PROVE  /\ held'[b].seal \in Outcome
                        /\ phase'[b] \in {"emitting", "reporting"} => audit'[held'[b].seal] > 0
      OBVIOUS
    <3>1. CASE b = a
      <4>1. held'[b].seal = o
        BY <1>3, <3>1 DEF o
      <4>2. audit[o] \in Nat
        BY <1>4 DEF TypeOK
      <4> QED
        BY <1>4, <1>5, <4>1, <4>2
    <3>2. CASE b # a
      BY <1>3, <2>2, <2>3, <3>2 DEF Ledger
    <3> QED
      BY <3>1, <3>2
  <2> QED
    BY <1>1, <2>2, <2>4, <2>5 DEF Ledger
<1>10. Log'
  BY <1>1, LogKept
<1> QED
  BY <1>6, <1>7, <1>8, <1>9, <1>10

LEMMA EmitOutcomeStep ==
  ASSUME PInv, NEW a \in Actor, EmitOutcome(a)
  PROVE  PInv'
<1> DEFINE type == IF held[a].seal = "sealed" THEN "sealed" ELSE "seal_failed"
<1>1. phase[a] = "emitting" /\ Goto(a, "reporting") /\ UNCHANGED held /\ Emit(type, {}, {})
  BY DEF EmitOutcome
<1>2. type \in {"signed", "completed", "sealed", "seal_failed"} /\ type \notin {"signed", "completed"}
  OBVIOUS
<1> HIDE DEF type
<1>3. /\ UNCHANGED row \/ Written
      /\ row'.seal = row.seal /\ row'.attempts = row.attempts
      /\ touched' \in 0..MaxTouches /\ cut' \in BOOLEAN /\ emitted' \in Seq(Event)
      /\ Quiet /\ Log'
  BY <1>1, <1>2, EmitRow
<1>4. /\ "reporting" \in Phase /\ "reporting" \notin Preparing /\ "reporting" \notin Before
      /\ Move(a, "reporting", held[a]) /\ held[a] \in Row
  BY <1>1, StayType DEF Phase, Preparing, Before, Move, PInv
<1> QED
  BY <1>1, <1>3, <1>4, QuietMove

LEMMA WriteReceiptStep ==
  ASSUME PInv, NEW a \in Actor, WriteReceipt(a)
  PROVE  PInv'
<1> USE DEF PInv
<1>1. /\ phase[a] = "reporting" /\ receipt' \in {held[a].seal, receipt}
      /\ UNCHANGED <<row, pdf, uploaders, audit, touched, cut, recorded, emitted>>
  BY DEF WriteReceipt, counters
<1>2. Move(a, "done", NewRow) /\ "done" \in Phase /\ "done" \notin Preparing /\ "done" \notin Before
  BY DEF WriteReceipt, End, Forget, Move, Phase, Preparing, Before
<1>3. \A b \in Actor : /\ phase'[b] = IF b = a THEN "done" ELSE phase[b]
                       /\ held'[b] = IF b = a THEN NewRow ELSE held[b]
  BY <1>2, NewRowType, MoveType
<1>4. held[a].seal \in Outcome /\ audit[held[a].seal] > 0
  BY <1>1 DEF Ledger
<1>5. TypeOK'
  <2>1. phase' \in [Actor -> Phase] /\ held' \in [Actor -> Row]
    BY <1>2, NewRowType, MoveType
  <2>2. receipt' \in Seal
    BY <1>1, <1>4 DEF TypeOK, Seal
  <2> QED
    BY <1>1, <2>1, <2>2 DEF TypeOK
<1>6. Copies'
  BY <1>1, <1>2, NewRowType, CopiesKept
<1>7. Files'
  <2>1. Produced' <=> Produced
    BY <1>1 DEF Produced
  <2> QED
    BY <1>1, <1>2, <1>3, <2>1 DEF Files
<1>8. Ledger'
  <2>1. \A o \in Outcome : Pending(o)' = Pending(o)
    BY <1>1, <1>3 DEF Pending
  <2> QED
    BY <1>1, <1>3, <1>4, <2>1 DEF Ledger
<1>9. Log'
  BY <1>1, LogKept
<1> QED
  BY <1>5, <1>6, <1>7, <1>8, <1>9

LEMMA StopStep ==
  ASSUME PInv, NEW a \in Actor, Stop(a)
  PROVE  PInv'
BY EndStep DEF Stop, Quiet, files

\* A write of the row by nobody in the pipeline.
LEMMA OutsideStep ==
  ASSUME PInv, Written, row'.seal = row.seal, row'.attempts = row.attempts,
         row'.events = row.events, row'.links = row.links,
         touched' \in 0..MaxTouches, UNCHANGED <<phase, held, files, audit, cut, emitted, recorded>>
  PROVE  PInv'
<1> USE DEF PInv
<1>1. TypeOK'
  BY DEF TypeOK, Written, files
<1>2. Copies'
  BY CopiesWritten
<1>3. Files'
  BY DEF Files, Produced, Written, files
<1>4. Ledger'
  <2>1. \A o \in Outcome : Pending(o)' = Pending(o)
    BY DEF Pending
  <2> QED
    BY <2>1 DEF Ledger, files
<1>5. Log'
  BY LogKept
<1> QED
  BY <1>1, <1>2, <1>3, <1>4, <1>5

LEMMA VoidStep == ASSUME PInv, Void PROVE PInv'
<1> DEFINE e == AfterVoid(row)
<1>1. row \in Row /\ row.rev + 1 \in Nat /\ row.status # "completed" /\ touched \in 0..MaxTouches
  BY DEF Void, CanVoid, PInv, TypeOK, Row
<1>2. /\ e \in Row /\ e.rev = row.rev /\ e.seal = row.seal /\ e.attempts = row.attempts
      /\ e.links = row.links /\ e.events = row.events
  BY <1>1 DEF AfterVoid, Row, Status, Live
<1>3. row' = [e EXCEPT !.rev = e.rev + 1] /\ e.rev + 1 \in Nat
  BY <1>1, <1>2 DEF Void
<1> HIDE DEF e
<1>4. /\ row' \in Row /\ row'.rev = row.rev + 1 /\ row'.seal = row.seal
      /\ row'.attempts = row.attempts /\ row'.links = row.links /\ row'.events = row.events
  BY <1>2, <1>3, BumpedRow
<1>5. Written
  BY <1>1, <1>4 DEF Written
<1>6. UNCHANGED <<phase, held, files, audit, cut, emitted, recorded>> /\ touched' = touched
  BY DEF Void, counters
<1> QED
  BY <1>1, <1>4, <1>5, <1>6, OutsideStep

LEMMA TouchStep == ASSUME PInv, Touch PROVE PInv'
<1>1. row \in Row /\ row.rev + 1 \in Nat /\ touched' \in 0..MaxTouches
  BY TouchesAssumption DEF Touch, PInv, TypeOK, Row
<1>2. row' = [row EXCEPT !.rev = row.rev + 1]
  BY DEF Touch
<1>3. /\ row' \in Row /\ row'.rev = row.rev + 1 /\ row'.seal = row.seal
      /\ row'.attempts = row.attempts /\ row'.links = row.links /\ row'.events = row.events
      /\ row'.status = row.status
  BY <1>1, <1>2, BumpedRow
<1>4. Written
  BY <1>3 DEF Written
<1> QED
  BY <1>1, <1>3, <1>4, OutsideStep DEF Touch

LEMMA CallersStep == TypeOK /\ Callers /\ [Next]_vars => Callers'
<1> SUFFICES ASSUME TypeOK, Callers, [Next]_vars PROVE Callers'
  OBVIOUS
<1>1. ASSUME NEW a \in Actor, NEW p \in Phase, Goto(a, p), p \in Signing => a \in Signer
      PROVE  Callers'
  BY <1>1 DEF TypeOK, Callers, Goto
<1>2. ASSUME NEW a \in Actor, Begin(a) PROVE Callers'
  <2>1. (Goto(a, "signed") /\ a \in Signer) \/ Goto(a, "rendering")
    BY <1>2 DEF Begin, RecordSignature, BeginReseal
  <2> QED
    BY <1>1, <2>1 DEF Phase, Signing
<1>3. ASSUME NEW a \in Actor, Continue(a) PROVE Callers'
  <2>1. CASE EmitSigned(a) \/ EmitCompleted(a) \/ Refresh(a)
    <3>1. phase[a] \in Signing
      BY <2>1 DEF EmitSigned, EmitCompleted, Refresh, Signing
    <3>2. \E p \in Phase : Goto(a, p)
      BY <2>1 DEF EmitSigned, EmitCompleted, Refresh, End, Phase
    <3> QED
      BY <1>1, <3>1, <3>2 DEF Callers
  <2>2. CASE ~(EmitSigned(a) \/ EmitCompleted(a) \/ Refresh(a))
    <3>1. \E p \in Phase \ Signing : Goto(a, p)
      BY <1>3, <2>2 DEF Continue, RenderFails, StartUpload, Uploaded, UploadFails,
           RecordOutcome, OutcomeConflicts, AuditOutcome, EmitOutcome, WriteReceipt,
           Decide, Thrown, End, Phase, Signing
    <3> QED
      BY <1>1, <3>1
  <2> QED
    BY <2>1, <2>2
<1>4. ASSUME NEW a \in Actor, Stop(a) PROVE Callers'
  BY <1>1, <1>4 DEF Stop, End, Phase, Signing
<1>5. CASE Void \/ Touch \/ UNCHANGED vars
  BY <1>5 DEF Void, Touch, vars, Callers
<1> QED
  BY <1>2, <1>3, <1>4, <1>5 DEF Next

LEMMA NextStep == PInv /\ Callers /\ [Next]_vars => PInv'
<1> SUFFICES ASSUME PInv, Callers, [Next]_vars PROVE PInv'
  OBVIOUS
<1>1. ASSUME NEW a \in Actor, Begin(a) PROVE PInv'
  BY <1>1, RecordSignatureStep, BeginResealStep DEF Begin
<1>2. ASSUME NEW a \in Actor, Continue(a) PROVE PInv'
  <2>1. CASE EmitSigned(a) \/ EmitCompleted(a) \/ Refresh(a)
    <3>1. a \in Signer
      BY <2>1 DEF Callers, Signing, EmitSigned, EmitCompleted, Refresh
    <3> QED
      BY <2>1, <3>1, EmitSignedStep, EmitCompletedStep, RefreshStep
  <2>2. CASE RenderFails(a) \/ UploadFails(a)
    BY <2>2, FailStep DEF RenderFails, UploadFails, CaughtOutcome
  <2>3. CASE OutcomeConflicts(a)
    BY <2>3, EndStep, SMTT(40) DEF OutcomeConflicts, Thrown, Quiet, files, counters, PInv, TypeOK
  <2>4. CASE StartUpload(a) \/ Uploaded(a) \/ RecordOutcome(a)
    BY <2>4, StartUploadStep, UploadedStep, RecordOutcomeStep
  <2>5. CASE AuditOutcome(a) \/ EmitOutcome(a) \/ WriteReceipt(a)
    BY <2>5, AuditOutcomeStep, EmitOutcomeStep, WriteReceiptStep
  <2> QED
    BY <1>2, <2>1, <2>2, <2>3, <2>4, <2>5 DEF Continue
<1>3. CASE UNCHANGED vars
  <2>1. \A o \in Outcome : Pending(o)' = Pending(o)
    BY <1>3 DEF vars, Pending
  <2>2. Produced' <=> Produced
    BY <1>3 DEF vars, Produced
  <2> QED
    BY <1>3, <2>1, <2>2 DEF vars, PInv, TypeOK, Copies, WithOutcome, Files, Ledger, Log
<1> QED
  BY <1>1, <1>2, <1>3, StopStep, VoidStep, TouchStep DEF Next

------------------------------------------------------------------------------
(***************************************************************************)
(* The theorems.                                                           *)
(***************************************************************************)
\* Together they are inductive; each theorem follows from its own part.
LEMMA Invariance == Spec => [](PInv /\ Callers)
<1>1. Init => PInv /\ Callers
  <2>1. Init => Callers
    BY DEF Init, Callers, Signing
  <2> QED
    BY <2>1, InitStep
<1>2. PInv /\ Callers /\ [Next]_vars => (PInv /\ Callers)'
  BY NextStep, CallersStep DEF PInv
<1> QED
  BY <1>1, <1>2, PTL DEF Spec

\* Type correctness: every copy a sign or reseal call holds across its awaits,
\* and the row it writes back, is an envelope, and every call is at one of the
\* awaits of sign, reseal or seal.
THEOREM TypeCorrect == Spec => []TypeOK
<1>1. PInv => TypeOK
  BY DEF PInv
<1> QED
  BY <1>1, Invariance, PTL

\* However sign calls, reseals, voids and other writes interleave, a PDF is
\* rendered and a seal outcome written only for an envelope that is completed,
\* and an envelope marked sealed has its PDF unless two uploads met.
THEOREM SealsOnlyTheCompleted == Spec => []SealsOnlyCompleted
<1>1. PInv => SealsOnlyCompleted
  <2> SUFFICES ASSUME PInv PROVE SealsOnlyCompleted
    OBVIOUS
  <2>1. ASSUME NEW x \in uploaders, NEW y \in uploaders, x # y PROVE Cardinality(uploaders) > 1
    <3>1. IsFiniteSet(uploaders)
      BY DEF PInv, Files
    <3>2. /\ Cardinality(uploaders) \in Nat
          /\ Cardinality(uploaders) # 0
          /\ Cardinality(uploaders) # 1
      BY <2>1, <3>1, FS_CardinalityType, FS_EmptySet, FS_Singleton
    <3> QED
      BY <3>2
  <2>2. row.seal = "sealed" => pdf = "whole" \/ Cardinality(uploaders) > 1
    BY <2>1 DEF PInv, Files, Produced
  <2> QED
    BY <2>2 DEF SealsOnlyCompleted, PInv, Files
<1> QED
  BY <1>1, Invariance, PTL

\* seal writes back the whole object it holds: the compare of the revision is
\* what keeps that from undoing an event, an erased link or the count of another
\* attempt, and an audit row or receipt only ever tells of an outcome written.
THEOREM EventsAreKept == Spec => []EventsKept
<1>1. PInv => EventsKept
  <2> SUFFICES ASSUME PInv PROVE EventsKept
    OBVIOUS
  <2>1. ASSUME NEW o \in Outcome PROVE audit[o] <= recorded[o] /\ (receipt = o => audit[o] > 0)
    <3>1. /\ IsFiniteSet(Pending(o)) /\ audit[o] + Cardinality(Pending(o)) <= recorded[o]
          /\ receipt = o => audit[o] > 0
      BY DEF PInv, Ledger
    <3>2. audit[o] \in Nat /\ recorded[o] \in Nat /\ Cardinality(Pending(o)) \in Nat
      BY <3>1, FS_CardinalityType DEF PInv, TypeOK
    <3> QED
      BY <3>1, <3>2
  <2> QED
    BY <2>1 DEF EventsKept, PInv, Ledger, Log
<1> QED
  BY <1>1, Invariance, PTL

\* No step of anybody takes a completed envelope back: what a sealing call saw
\* before its awaits still holds when it writes.
THEOREM CompletedIsFinal == Spec => [][row.status = "completed" => row'.status = "completed"]_vars
<1>1. PInv /\ [Next]_vars => [row.status = "completed" => row'.status = "completed"]_vars
  <2> SUFFICES ASSUME PInv, Next, row.status = "completed" PROVE row'.status = "completed"
    OBVIOUS
  <2>1. row \in Row
    BY DEF PInv, TypeOK
  <2>2. ASSUME NEW type, NEW of, NEW gone, Emit(type, of, gone) PROVE row'.status = "completed"
    BY <2>1, <2>2 DEF Emit, Row
  <2>3. ASSUME NEW a \in Actor, Begin(a) PROVE row'.status = "completed"
    BY <2>3 DEF Begin, RecordSignature, BeginReseal, CanSign, Live
  <2>4. ASSUME NEW a \in Actor, RecordOutcome(a) PROVE row'.status = "completed"
    <3>1. held[a] = WithOutcome(row, held[a].seal) /\ held[a].seal \in Outcome
      BY <2>4 DEF PInv, Copies, Preparing, RecordOutcome, Fresh
    <3>2. held[a].status = "completed"
      BY <2>1, <3>1, OutcomeRow
    <3>3. held[a] \in Row
      BY DEF PInv, TypeOK
    <3>4. held[a].rev + 1 \in Nat
      BY <3>3 DEF Row
    <3> QED
      BY <2>4, <3>2, <3>3, <3>4, BumpedRow DEF RecordOutcome
  <2>5. ASSUME NEW a \in Actor, Continue(a) PROVE row'.status = "completed"
    BY <2>2, <2>4, <2>5 DEF Continue, EmitSigned, EmitCompleted, Refresh, RenderFails,
         StartUpload, Uploaded, UploadFails, OutcomeConflicts, AuditOutcome, EmitOutcome,
         WriteReceipt
  <2>6. CASE Touch
    BY <2>1, <2>6 DEF Touch, Row
  <2> QED
    BY <2>3, <2>5, <2>6 DEF Next, Stop, Void, CanVoid
<1> QED
  BY <1>1, Invariance, PTL DEF Spec
==============================================================================
