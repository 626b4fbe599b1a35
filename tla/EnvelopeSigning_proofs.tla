----------------------- MODULE EnvelopeSigning_proofs -----------------------
(***************************************************************************)
(* EnvelopeSigning is proved for any signers and orders, any number of     *)
(* calls and overlapping sweeps, and any number of attempts.               *)
(***************************************************************************)
EXTENDS EnvelopeSigning, TLAPS

(***************************************************************************)
(* The changes in hand keep a row a row.                                   *)
(***************************************************************************)
LEMMA AfterSignatureRow ==
  ASSUME NEW env \in Row, NEW s \in Signer
  PROVE  /\ AfterSignature(env, s) \in Row
         /\ AfterSignature(env, s).rev = env.rev
         /\ AfterSignature(env, s).expiredEmitted = env.expiredEmitted
         /\ AfterSignature(env, s).signer = [env.signer EXCEPT ![s] = "signed"]
         /\ AfterSignature(env, s).status =
              IF \A t \in Signer : t = s \/ env.signer[t] = "signed"
              THEN "completed" ELSE "partially_signed"
  BY DEF AfterSignature, Row, Status, Live, SignerStatus

LEMMA AfterDeclineRow ==
  ASSUME NEW env \in Row, NEW s \in Signer
  PROVE  /\ AfterDecline(env, s) \in Row
         /\ AfterDecline(env, s).rev = env.rev
         /\ AfterDecline(env, s).expiredEmitted = env.expiredEmitted
         /\ AfterDecline(env, s).signer = [env.signer EXCEPT ![s] = "declined"]
         /\ AfterDecline(env, s).status = "voided"
  BY DEF AfterDecline, Row, Status, Live, SignerStatus

LEMMA DraftRow ==
  ASSUME TypeOK, NEW p \in Proc
  PROVE  Draft(p) \in Row
<1>1. snap[p] \in Row /\ who[p] \in Signer
  BY DEF TypeOK
<1>2. AfterVoid(snap[p]) \in Row /\ AfterExpiry(snap[p]) \in Row
  BY <1>1 DEF AfterVoid, AfterExpiry, Row, Status
<1>3. [AfterExpiry(snap[p]) EXCEPT !.expiredEmitted = TRUE] \in Row
  BY <1>2 DEF Row
<1>4. intent[p] \in Intent
  BY DEF TypeOK
<1> QED
  BY <1>1, <1>2, <1>3, <1>4, AfterSignatureRow, AfterDeclineRow DEF Draft, Intent

(***************************************************************************)
(* Type correctness.                                                       *)
(***************************************************************************)
LEMMA InitType == Init => TypeOK
<1> SUFFICES ASSUME Init PROVE TypeOK
  OBVIOUS
<1>1. NewRow \in Row
  BY DEF NewRow, NewSigners, Row, Status, Live, SignerStatus
<1>2. (CHOOSE s \in Signer : TRUE) \in Signer
  BY SignerAssumption
<1>3. 0 \in 0..MaxAttempts - 1
  BY AttemptAssumption
<1> QED
  BY <1>1, <1>2, <1>3 DEF Init, TypeOK, Phase, Intent, Result

LEMMA FinishType ==
  ASSUME TypeOK, NEW p \in Proc, NEW r \in Result, Finish(p, r)
  PROVE  /\ phase' \in [Proc -> Phase]
         /\ tries' \in [Proc -> 0..MaxAttempts - 1]
         /\ result' \in [Proc -> Result]
  BY AttemptAssumption DEF Finish, Answer, TypeOK, Phase

LEMMA PrepareType ==
  ASSUME TypeOK, NEW p \in Proc, NEW i \in Intent, NEW s \in Signer, Prepare(p, i, s)
  PROVE  TypeOK'
  BY DEF Prepare, TypeOK, Phase

LEMMA BeginType ==
  ASSUME TypeOK, NEW c \in Call, Begin(c)
  PROVE  TypeOK'
<1>1. c \in Proc /\ who[c] \in Signer
  BY DEF Proc, TypeOK
<1>2. ASSUME Refuse(c) PROVE TypeOK'
  BY <1>1, <1>2 DEF Refuse, Answer, TypeOK, Phase, Result
<1>3. ASSUME NEW s \in Signer, BeginSign(c, s) \/ BeginDecline(c, s) \/ BeginResolve(c, s)
      PROVE  TypeOK'
  BY <1>1, <1>2, <1>3, PrepareType DEF BeginSign, BeginDecline, BeginResolve, Intent
<1>4. ASSUME BeginVoid(c) \/ BeginTouch(c) PROVE TypeOK'
  BY <1>1, <1>2, <1>4, PrepareType DEF BeginVoid, BeginTouch, Intent
<1> QED
  BY <1>3, <1>4 DEF Begin

LEMMA RereadType ==
  ASSUME TypeOK, NEW p \in Proc, Reread(p)
  PROVE  TypeOK'
<1>1. who[p] \in Signer
  BY DEF TypeOK
<1>2. CASE intent[p] = "sweep" /\ ~SweepDue(row) /\ phase' = [phase EXCEPT ![p] = "idle"]
           /\ tries' = [tries EXCEPT ![p] = 0]
           /\ UNCHANGED <<row, late, intent, who, snap, result, fired>>
  BY <1>2, AttemptAssumption DEF TypeOK, Phase
<1>3. CASE Prepare(p, "touch", who[p]) \/ Prepare(p, "sweep", who[p])
  BY <1>1, <1>3, PrepareType DEF Intent
<1> QED
  BY <1>2, <1>3 DEF Reread

LEMMA WriteType ==
  ASSUME TypeOK, NEW p \in Proc, Commit(p) \/ Retry(p) \/ Conflict(p)
  PROVE  TypeOK'
<1>1. NewRow \in Row
  BY DEF NewRow, NewSigners, Row, Status, Live, SignerStatus
<1>2. CASE Commit(p)
  <2>1. row' \in Row
    <3>1. row' = [Draft(p) EXCEPT !.rev = row.rev + 1] /\ row.rev + 1 \in Nat
      BY <1>2 DEF Commit, TypeOK, Row
    <3> QED
      BY <3>1, DraftRow DEF Row
  <2>2. Verdict(p) \in Result
    BY DEF Verdict, Result
  <2>3. Finish(p, Verdict(p))
    BY <1>2 DEF Commit
  <2>4. fired' \in Nat /\ snap' \in [Proc -> Row] /\ UNCHANGED <<late, intent, who>>
    BY <1>1, <1>2 DEF Commit, Drop, TypeOK
  <2> QED
    BY <2>1, <2>2, <2>3, <2>4, FinishType DEF TypeOK
<1>3. CASE Retry(p)
  <2>1. tries[p] + 1 \in 0..MaxAttempts - 1
    BY <1>3, AttemptAssumption DEF Retry, AttemptsLeft, TypeOK
  <2> QED
    BY <1>1, <1>3, <2>1 DEF Retry, Drop, TypeOK, Phase
<1>4. CASE Conflict(p)
  <2>1. "conflict" \in Result
    BY DEF Result
  <2> QED
    BY <1>1, <1>4, <2>1, FinishType DEF Conflict, Drop, TypeOK
<1> QED
  BY <1>2, <1>3, <1>4

LEMMA NextType == TypeOK /\ [Next]_vars => TypeOK'
<1> SUFFICES ASSUME TypeOK, [Next]_vars PROVE TypeOK'
  OBVIOUS
<1>1. CASE \E c \in Call : Begin(c)
  BY <1>1, BeginType
<1>2. CASE \E p \in Sweep : BeginSweep(p)
  <2>1. PICK p \in Sweep : BeginSweep(p)
    BY <1>2
  <2>2. p \in Proc /\ who[p] \in Signer
    BY DEF Proc, TypeOK
  <2> QED
    BY <2>1, <2>2, PrepareType DEF BeginSweep, Intent
<1>3. CASE \E p \in Proc : Continue(p)
  BY <1>3, RereadType, WriteType DEF Continue
<1>4. CASE DeadlinePasses
  BY <1>4 DEF DeadlinePasses, TypeOK
<1>5. CASE UNCHANGED vars
  BY <1>5 DEF vars, TypeOK
<1> QED
  BY <1>1, <1>2, <1>3, <1>4, <1>5 DEF Next

\* Every variable keeps its type, and a retrying writer never reads more often
\* than MAX_ATTEMPTS says.
THEOREM TypeCorrect == Spec => []TypeOK
  BY InitType, NextType, PTL DEF Spec

------------------------------------------------------------------------------
(***************************************************************************)
(* The inductive invariant.  A caller that is about to write holds a copy  *)
(* no newer than the row, and if it is as new, the copy is the row: the    *)
(* decision it made on the copy (Gate) then is a decision about the row.   *)
(***************************************************************************)
Copy(p) ==
  phase[p] = "writing" =>
    /\ snap[p].rev <= row.rev
    /\ snap[p].rev = row.rev => snap[p] = row

Gate(p) ==
  phase[p] = "writing" =>
    /\ intent[p] = "sign" => CanSign(snap[p], who[p])
    /\ intent[p] = "decline" => CanDecline(snap[p], who[p])
    /\ intent[p] = "void" => CanVoid(snap[p])
    /\ intent[p] = "expire" => snap[p].status \in Live /\ late
    /\ intent[p] = "sweep" =>
         \/ snap[p].status \in Live /\ late
         \/ snap[p].status = "expired" /\ ~snap[p].expiredEmitted

\* Who writes what: only calls sign, and an answer is given at the end.
Role(p) ==
  /\ p \in Sweep => intent[p] \in {"touch", "sweep"} /\ result[p] = "none"
  /\ phase[p] # "done" => result[p] = "none"
  /\ phase[p] = "rereading" => intent[p] \in {"touch", "sweep"}

\* A declined signer voids the envelope, and the flag of the expiry event is
\* set with the expiry and at no other time.
RowInv ==
  /\ \A s \in Signer : row.signer[s] = "declined" => row.status = "voided"
  /\ row.expiredEmitted => row.status \in {"expired", "voided"}

IInv ==
  /\ TypeOK
  /\ \A p \in Proc : Copy(p) /\ Gate(p) /\ Role(p)
  /\ RowInv
  /\ SignedInOrder
  /\ CompletedByAll
  /\ SignedOnce
  /\ CancelKept
  /\ ExpiredOnce

(***************************************************************************)
(* What a write that goes through does to the row.                         *)
(***************************************************************************)
Signs(p) ==
  /\ intent[p] = "sign"
  /\ p \in Call
  /\ CanSign(row, who[p])
  /\ row'.signer = [row.signer EXCEPT ![who[p]] = "signed"]
  /\ row'.status = IF \A t \in Signer : t = who[p] \/ row.signer[t] = "signed"
                   THEN "completed" ELSE "partially_signed"
  /\ row'.expiredEmitted = row.expiredEmitted
  /\ fired' = fired

Declines(p) ==
  /\ intent[p] = "decline"
  /\ p \in Call
  /\ CanDecline(row, who[p])
  /\ row'.signer = [row.signer EXCEPT ![who[p]] = "declined"]
  /\ row'.status = "voided"
  /\ row'.expiredEmitted = row.expiredEmitted
  /\ fired' = fired

Voids(p) ==
  /\ intent[p] = "void"
  /\ CanVoid(row)
  /\ row'.signer = row.signer
  /\ row'.status = "voided"
  /\ row'.expiredEmitted = row.expiredEmitted
  /\ fired' = fired

Expires(p) ==
  /\ intent[p] = "expire"
  /\ row.status \in Live
  /\ late
  /\ row'.signer = row.signer
  /\ row'.status = "expired"
  /\ row'.expiredEmitted = row.expiredEmitted
  /\ fired' = fired

Sweeps(p) ==
  /\ intent[p] = "sweep"
  /\ \/ row.status \in Live /\ late
     \/ row.status = "expired" /\ ~row.expiredEmitted
  /\ row'.signer = row.signer
  /\ row'.status = "expired"
  /\ row'.expiredEmitted = TRUE
  /\ fired' = fired + 1

Touches(p) ==
  /\ intent[p] = "touch"
  /\ row'.signer = row.signer
  /\ row'.status = row.status
  /\ row'.expiredEmitted = row.expiredEmitted
  /\ fired' = fired

Writes(p) ==
  Signs(p) \/ Declines(p) \/ Voids(p) \/ Expires(p) \/ Sweeps(p) \/ Touches(p)

LEMMA CommitWrites ==
  ASSUME IInv, NEW p \in Proc, Commit(p)
  PROVE  Writes(p) /\ row'.rev = row.rev + 1
<1>1. /\ TypeOK /\ phase[p] = "writing" /\ Fresh(p)
      /\ row' = [Draft(p) EXCEPT !.rev = row.rev + 1]
      /\ fired' = IF intent[p] = "sweep" THEN fired + 1 ELSE fired
      /\ row \in Row /\ who[p] \in Signer /\ intent[p] \in Intent
  BY DEF Commit, IInv, TypeOK
<1>2. snap[p] = row
  BY <1>1 DEF IInv, Copy, Fresh
<1>3. /\ row'.signer = Draft(p).signer
      /\ row'.status = Draft(p).status
      /\ row'.expiredEmitted = Draft(p).expiredEmitted
      /\ row'.rev = row.rev + 1
  BY <1>1, DraftRow DEF Row
<1>4. Gate(p) /\ Role(p)
  BY DEF IInv
<1>5. p \in Sweep => intent[p] \in {"touch", "sweep"}
  BY <1>4 DEF Role
<1>6. CASE intent[p] = "sign"
  <2>1. Draft(p) = AfterSignature(row, who[p])
    BY <1>2, <1>6 DEF Draft
  <2>2. p \in Call
    BY <1>5, <1>6 DEF Proc
  <2>3. CanSign(row, who[p])
    BY <1>1, <1>2, <1>4, <1>6 DEF Gate
  <2> QED
    BY <1>1, <1>3, <1>6, <2>1, <2>2, <2>3, AfterSignatureRow DEF Writes, Signs
<1>7. CASE intent[p] = "decline"
  <2>1. Draft(p) = AfterDecline(row, who[p])
    BY <1>2, <1>7 DEF Draft
  <2>2. p \in Call
    BY <1>5, <1>7 DEF Proc
  <2>3. CanDecline(row, who[p])
    BY <1>1, <1>2, <1>4, <1>7 DEF Gate
  <2> QED
    BY <1>1, <1>3, <1>7, <2>1, <2>2, <2>3, AfterDeclineRow DEF Writes, Declines
<1>8. CASE intent[p] = "void"
  <2>1. Draft(p) = AfterVoid(row)
    BY <1>2, <1>8 DEF Draft
  <2>2. CanVoid(row)
    BY <1>1, <1>2, <1>4, <1>8 DEF Gate
  <2> QED
    BY <1>1, <1>3, <1>8, <2>1, <2>2 DEF Writes, Voids, AfterVoid, Row
<1>9. CASE intent[p] = "expire"
  <2>1. Draft(p) = AfterExpiry(row)
    BY <1>2, <1>9 DEF Draft
  <2>2. row.status \in Live /\ late
    BY <1>1, <1>2, <1>4, <1>9 DEF Gate
  <2> QED
    BY <1>1, <1>3, <1>9, <2>1, <2>2 DEF Writes, Expires, AfterExpiry, Row
<1>10. CASE intent[p] = "sweep"
  <2>1. Draft(p) = [AfterExpiry(row) EXCEPT !.expiredEmitted = TRUE]
    BY <1>2, <1>10 DEF Draft
  <2>2. \/ row.status \in Live /\ late
        \/ row.status = "expired" /\ ~row.expiredEmitted
    BY <1>1, <1>2, <1>4, <1>10 DEF Gate
  <2> QED
    BY <1>1, <1>3, <1>10, <2>1, <2>2 DEF Writes, Sweeps, AfterExpiry, Row
<1>11. CASE intent[p] = "touch"
  <2>1. Draft(p) = row
    BY <1>2, <1>11 DEF Draft
  <2> QED
    BY <1>1, <1>3, <1>11, <2>1 DEF Writes, Touches
<1> QED
  BY <1>1, <1>6, <1>7, <1>8, <1>9, <1>10, <1>11 DEF Intent

(***************************************************************************)
(* A write keeps what the row promises.                                    *)
(***************************************************************************)
LEMMA WriteKeepsRow ==
  ASSUME IInv, TypeOK', NEW p \in Proc, Writes(p)
  PROVE  RowInv' /\ SignedInOrder' /\ CompletedByAll' /\ ExpiredOnce'
<1>1. /\ row \in Row /\ row' \in Row /\ who[p] \in Signer /\ fired \in Nat
      /\ RowInv /\ SignedInOrder /\ CompletedByAll /\ ExpiredOnce
      /\ Order \in [Signer -> Nat]
  BY OrderAssumption DEF IInv, TypeOK
<1>2. row.signer \in [Signer -> SignerStatus] /\ row.status \in Status
      /\ row.expiredEmitted \in BOOLEAN
  BY <1>1 DEF Row
<1>3. CASE Signs(p)
  <2>1. SignedSet(row') = SignedSet(row) \cup {who[p]}
    BY <1>1, <1>2, <1>3 DEF Signs, SignedSet
  <2>2. \A t \in Signer : Order[t] < Order[who[p]] => t \in SignedSet(row)
    BY <1>3 DEF Signs, CanSign, WaitingOn, SignedSet
  <2>3. SignedInOrder'
    <3> SUFFICES ASSUME NEW s \in Signer, NEW t \in Signer,
                        Order[t] < Order[s], s \in SignedSet(row')
                 PROVE  t \in SignedSet(row')
      BY DEF SignedInOrder
    <3> QED
      BY <1>1, <2>1, <2>2 DEF SignedInOrder
  <2>4. RowInv'
    BY <1>1, <1>2, <1>3 DEF Signs, RowInv, CanSign, Live
  <2>5. CompletedByAll'
    BY <1>1, <1>3, <2>1 DEF Signs, CompletedByAll, SignedSet
  <2>6. ExpiredOnce'
    BY <1>1, <1>3 DEF Signs, ExpiredOnce
  <2> QED
    BY <2>3, <2>4, <2>5, <2>6
<1>4. CASE Declines(p)
  <2>1. SignedSet(row') = SignedSet(row)
    BY <1>1, <1>2, <1>4 DEF Declines, SignedSet, CanDecline
  <2>2. SignedInOrder'
    BY <1>1, <2>1 DEF SignedInOrder
  <2>3. CompletedByAll'
    BY <1>1, <1>4, <2>1 DEF Declines, CompletedByAll, CanDecline, Live
  <2>4. RowInv' /\ ExpiredOnce'
    BY <1>1, <1>2, <1>4 DEF Declines, RowInv, ExpiredOnce
  <2> QED
    BY <2>2, <2>3, <2>4
<1>5. CASE Voids(p) \/ Expires(p) \/ Sweeps(p) \/ Touches(p)
  <2>1. SignedSet(row') = SignedSet(row)
    BY <1>5 DEF Voids, Expires, Sweeps, Touches, SignedSet
  <2>2. SignedInOrder'
    BY <1>1, <2>1 DEF SignedInOrder
  <2>3. CompletedByAll'
    BY <1>1, <1>5, <2>1 DEF Voids, Expires, Sweeps, Touches, CompletedByAll, CanVoid, Live
  <2>4. RowInv'
    BY <1>1, <1>2, <1>5 DEF Voids, Expires, Sweeps, Touches, RowInv, Live
  <2>5. ExpiredOnce'
    BY <1>1, <1>2, <1>5 DEF Voids, Expires, Sweeps, Touches, ExpiredOnce, RowInv, Live
  <2> QED
    BY <2>2, <2>3, <2>4, <2>5
<1> QED
  BY <1>3, <1>4, <1>5 DEF Writes

(***************************************************************************)
(* A write keeps every answer true, those given before and its own.        *)
(***************************************************************************)
LEMMA CommitKeepsAnswers ==
  ASSUME IInv, TypeOK', NEW p \in Proc, Commit(p)
  PROVE  SignedOnce' /\ CancelKept'
<1>1. Writes(p) /\ TypeOK /\ SignedOnce /\ CancelKept /\ RowInv
  BY CommitWrites DEF IInv
<1>2. row.signer \in [Signer -> SignerStatus] /\ who[p] \in Signer
  BY <1>1 DEF TypeOK, Row
<1>3. intent' = intent /\ who' = who
  BY DEF Commit
<1>4. result[p] = "none"
  <2>1. Role(p) /\ phase[p] = "writing"
    BY DEF IInv, Commit
  <2> QED
    BY <2>1 DEF Role
<1>5. /\ p \in Sweep => result' = result
      /\ p \in Call => result' = [result EXCEPT ![p] = Verdict(p)]
  BY ProcAssumption DEF Commit, Finish, Answer
<1>6. Verdict(p) = IF intent[p] = "expire" THEN "refused" ELSE "ok"
  BY DEF Verdict
<1>7. \A c \in Call : c # p => result'[c] = result[c]
  BY <1>1, <1>5 DEF TypeOK, Proc
<1>8. p \in Call => result'[p] = Verdict(p)
  BY <1>1, <1>5 DEF TypeOK, Proc
<1>9. \A c \in Call, s \in Signer :
        HasSigned(c, s)' <=> HasSigned(c, s) \/ (c = p /\ Signs(p) /\ s = who[p])
  BY <1>1, <1>3, <1>4, <1>6, <1>7, <1>8
     DEF HasSigned, Writes, Signs, Declines, Voids, Expires, Sweeps, Touches
<1>10. SignedOnce'
  <2>1. CASE Signs(p)
    <3>1. p \in Call /\ who[p] \notin SignedSet(row)
      BY <2>1 DEF Signs, CanSign, SignedSet
    <3>2. SignedSet(row') = SignedSet(row) \cup {who[p]}
      BY <1>2, <2>1 DEF Signs, SignedSet
    <3>3. \A c \in Call : ~HasSigned(c, who[p])
      BY <1>1, <1>2, <3>1 DEF SignedOnce
    <3> QED
      BY <1>1, <1>2, <1>9, <2>1, <3>1, <3>2, <3>3 DEF SignedOnce
  <2>2. CASE ~Signs(p)
    <3>1. SignedSet(row') = SignedSet(row)
      BY <1>1, <1>2, <2>2
         DEF Writes, Declines, Voids, Expires, Sweeps, Touches, SignedSet, CanDecline
    <3> QED
      BY <1>1, <1>9, <2>2, <3>1 DEF SignedOnce
  <2> QED
    BY <2>1, <2>2
<1>11. CancelKept'
  <2> SUFFICES ASSUME NEW c \in Call, intent[c] \in {"void", "decline"}, result'[c] = "ok"
               PROVE  /\ row'.status = "voided"
                      /\ intent[c] = "decline" => row'.signer[who[c]] = "declined"
    BY <1>3 DEF CancelKept
  <2>1. CASE c = p
    BY <1>1, <1>2, <2>1 DEF Writes, Signs, Declines, Voids, Expires, Sweeps, Touches
  <2>2. CASE c # p
    <3>1. /\ row.status = "voided"
          /\ intent[c] = "decline" => row.signer[who[c]] = "declined"
      BY <1>1, <1>7, <2>2 DEF CancelKept
    <3> QED
      BY <1>1, <3>1
         DEF Writes, Signs, Declines, Voids, Expires, Sweeps, Touches, CanSign, CanDecline, Live
  <2> QED
    BY <2>1, <2>2
<1> QED
  BY <1>10, <1>11

LEMMA CommitKeepsProcs ==
  ASSUME IInv, TypeOK', NEW p \in Proc, Commit(p)
  PROVE  \A q \in Proc : (Copy(q) /\ Gate(q) /\ Role(q))'
<1> SUFFICES ASSUME NEW q \in Proc PROVE (Copy(q) /\ Gate(q) /\ Role(q))'
  OBVIOUS
<1>1. Copy(q) /\ Gate(q) /\ Role(q) /\ Role(p) /\ TypeOK /\ phase[p] = "writing"
  BY DEF IInv, Commit
<1>2. row'.rev = row.rev + 1 /\ row.rev \in Nat /\ UNCHANGED <<late, intent, who>>
  BY <1>1, CommitWrites DEF Commit, TypeOK, Row
<1>3. CASE q # p
  <2>1. phase'[q] = phase[q] /\ snap'[q] = snap[q] /\ result'[q] = result[q]
    BY <1>1, <1>3 DEF Commit, Finish, Answer, Drop, TypeOK
  <2>2. phase[q] = "writing" => snap[q].rev <= row.rev /\ snap[q].rev \in Nat
    BY <1>1 DEF Copy, TypeOK, Row
  <2>3. Copy(q)'
    BY <1>2, <2>1, <2>2 DEF Copy
  <2> QED
    BY <1>1, <1>2, <2>1, <2>3 DEF Gate, Role
<1>4. CASE q = p
  <2>1. phase'[p] = IF p \in Sweep THEN "idle" ELSE "done"
    BY <1>1 DEF Commit, Finish, Answer, TypeOK
  <2>2. p \in Sweep => result' = result
    BY DEF Commit, Finish
  <2> QED
    BY <1>1, <1>2, <1>4, <2>1, <2>2 DEF Copy, Gate, Role
<1> QED
  BY <1>3, <1>4

LEMMA CommitStep ==
  ASSUME IInv, TypeOK', NEW p \in Proc, Commit(p)
  PROVE  IInv'
  BY CommitWrites, WriteKeepsRow, CommitKeepsAnswers, CommitKeepsProcs DEF IInv

(***************************************************************************)
(* The steps that do not write the row.                                    *)
(***************************************************************************)
LEMMA RowKept ==
  ASSUME IInv, UNCHANGED <<row, fired>>
  PROVE  RowInv' /\ SignedInOrder' /\ CompletedByAll' /\ ExpiredOnce'
  BY DEF IInv, RowInv, SignedInOrder, CompletedByAll, ExpiredOnce, SignedSet

\* Answers stay true while the row stays and the callers that said "ok" keep
\* what they asked for.
LEMMA AnswersKept ==
  ASSUME IInv, row' = row,
         \A c \in Call : (result'[c] = "ok" <=> result[c] = "ok")
                         /\ (result[c] = "ok" => intent'[c] = intent[c] /\ who'[c] = who[c])
  PROVE  SignedOnce' /\ CancelKept'
<1>1. \A c \in Call, s \in Signer : HasSigned(c, s)' <=> HasSigned(c, s)
  BY DEF HasSigned
<1>2. SignedOnce'
  BY <1>1 DEF IInv, SignedOnce, SignedSet
<1>3. CancelKept'
  BY DEF IInv, CancelKept
<1> QED
  BY <1>2, <1>3

LEMMA PrepareStep ==
  ASSUME IInv, TypeOK', NEW p \in Proc, NEW i \in Intent, NEW s \in Signer,
         Prepare(p, i, s),
         phase[p] # "done",
         p \in Sweep => i \in {"touch", "sweep"},
         i = "sign" => CanSign(row, s),
         i = "decline" => CanDecline(row, s),
         i = "void" => CanVoid(row),
         i = "expire" => MustExpire(row, late),
         i = "sweep" => SweepDue(row)
  PROVE  IInv'
<1>1. TypeOK /\ Role(p) /\ UNCHANGED <<row, late, tries, result, fired>>
  BY DEF IInv, Prepare
<1>2. /\ phase'[p] = "writing" /\ snap'[p] = row /\ intent'[p] = i /\ who'[p] = s
      /\ \A q \in Proc : q # p =>
           /\ phase'[q] = phase[q] /\ snap'[q] = snap[q]
           /\ intent'[q] = intent[q] /\ who'[q] = who[q]
  BY <1>1 DEF Prepare, TypeOK
<1>3. result[p] = "none"
  BY <1>1 DEF Role
<1>4. (RowInv /\ SignedInOrder /\ CompletedByAll /\ ExpiredOnce)'
  BY <1>1, RowKept
<1>5. (SignedOnce /\ CancelKept)'
  <2>1. \A c \in Call : result[c] = "ok" => c # p /\ c \in Proc
    BY <1>3 DEF Proc
  <2>2. \A c \in Call : result[c] = "ok" => intent'[c] = intent[c] /\ who'[c] = who[c]
    BY <1>2, <2>1
  <2> QED
    BY <1>1, <2>2, AnswersKept
<1>6. ASSUME NEW q \in Proc PROVE (Copy(q) /\ Gate(q) /\ Role(q))'
  <2>1. CASE q # p
    <3>1. Copy(q) /\ Gate(q) /\ Role(q)
      BY DEF IInv
    <3> QED
      BY <1>1, <1>2, <2>1, <3>1 DEF Copy, Gate, Role
  <2>2. CASE q = p
    <3>1. Copy(p)'
      BY <1>1, <1>2 DEF Copy, TypeOK, Row
    <3>2. Gate(p)'
      BY <1>1, <1>2 DEF Gate, MustExpire, SweepDue
    <3>3. Role(p)'
      BY <1>1, <1>2, <1>3 DEF Role
    <3> QED
      BY <2>2, <3>1, <3>2, <3>3
  <2> QED
    BY <2>1, <2>2
<1> QED
  BY <1>4, <1>5, <1>6 DEF IInv

\* The other ways to stop or pause: refused, in conflict, nothing left to do.
LEMMA PauseStep ==
  ASSUME IInv, TypeOK', NEW p \in Proc, UNCHANGED <<row, late, intent, who, fired>>,
         phase'[p] \in {"idle", "rereading", "done"},
         \A q \in Proc : q # p => phase'[q] = phase[q] /\ snap'[q] = snap[q]
                                  /\ result'[q] = result[q],
         phase[p] # "done",
         result'[p] # "ok",
         phase'[p] # "done" \/ p \in Sweep => result'[p] = "none",
         phase'[p] = "rereading" => intent[p] \in {"touch", "sweep"}
  PROVE  IInv'
<1>1. TypeOK /\ Role(p) /\ result[p] = "none"
  BY DEF IInv, Role
<1>2. (RowInv /\ SignedInOrder /\ CompletedByAll /\ ExpiredOnce)'
  BY RowKept
<1>3. (SignedOnce /\ CancelKept)'
  BY <1>1, AnswersKept DEF Proc
<1>4. ASSUME NEW q \in Proc PROVE (Copy(q) /\ Gate(q) /\ Role(q))'
  <2>1. Copy(q) /\ Gate(q) /\ Role(q)
    BY DEF IInv
  <2>2. CASE q # p
    BY <2>1, <2>2 DEF Copy, Gate, Role
  <2>3. CASE q = p
    BY <2>1, <2>3 DEF Copy, Gate, Role
  <2> QED
    BY <2>2, <2>3
<1> QED
  BY <1>2, <1>3, <1>4 DEF IInv

LEMMA BeginStep ==
  ASSUME IInv, TypeOK', NEW c \in Call, Begin(c)
  PROVE  IInv'
<1>1. c \in Proc /\ c \notin Sweep /\ who[c] \in Signer /\ TypeOK
  BY ProcAssumption DEF Proc, IInv, TypeOK
<1>2. ASSUME Refuse(c), phase[c] = "idle" PROVE IInv'
  <2>1. /\ phase'[c] = "done" /\ result'[c] = "refused"
        /\ \A q \in Proc : q # c => phase'[q] = phase[q] /\ snap'[q] = snap[q]
                                    /\ result'[q] = result[q]
    BY <1>1, <1>2 DEF Refuse, Answer, TypeOK
  <2> QED
    BY <1>1, <1>2, <2>1, PauseStep DEF Refuse
<1>3. ASSUME NEW s \in Signer, BeginSign(c, s) \/ BeginDecline(c, s) \/ BeginResolve(c, s)
      PROVE  IInv'
  BY <1>1, <1>2, <1>3, PrepareStep DEF BeginSign, BeginDecline, BeginResolve, Intent
<1>4. ASSUME BeginVoid(c) \/ BeginTouch(c) PROVE IInv'
  BY <1>1, <1>2, <1>4, PrepareStep DEF BeginVoid, BeginTouch, Intent
<1> QED
  BY <1>3, <1>4 DEF Begin

LEMMA ContinueStep ==
  ASSUME IInv, TypeOK', NEW p \in Proc, Continue(p)
  PROVE  IInv'
<1>1. TypeOK /\ who[p] \in Signer /\ Role(p)
  BY DEF IInv, TypeOK
<1>2. CASE Commit(p)
  BY <1>2, CommitStep
<1>3. CASE Retry(p)
  <2>1. phase'[p] = "rereading" /\ result' = result /\ phase[p] = "writing"
        /\ \A q \in Proc : q # p => phase'[q] = phase[q] /\ snap'[q] = snap[q]
    BY <1>1, <1>3 DEF Retry, Drop, TypeOK
  <2>2. result[p] = "none" /\ intent[p] \in {"touch", "sweep"}
    BY <1>1, <1>3, <2>1 DEF Role, Retry, AttemptsLeft
  <2> QED
    BY <1>3, <2>1, <2>2, PauseStep DEF Retry
<1>4. CASE Conflict(p)
  <2>1. /\ phase[p] = "writing"
        /\ phase'[p] = IF p \in Sweep THEN "idle" ELSE "done"
        /\ \A q \in Proc : q # p => phase'[q] = phase[q] /\ snap'[q] = snap[q]
                                    /\ result'[q] = result[q]
    BY <1>1, <1>4 DEF Conflict, Drop, Finish, Answer, TypeOK
  <2>2. result[p] = "none"
    BY <1>1, <2>1 DEF Role
  <2>3. result'[p] = IF p \in Sweep THEN "none" ELSE "conflict"
    BY <1>1, <1>4, <2>2 DEF Conflict, Finish, Answer, TypeOK
  <2> QED
    BY <1>4, <2>1, <2>3, PauseStep DEF Conflict
<1>5. CASE Reread(p)
  <2>1. phase[p] = "rereading" /\ result[p] = "none"
    BY <1>1, <1>5 DEF Reread, Role
  <2>2. CASE intent[p] = "touch" /\ Prepare(p, "touch", who[p])
    BY <1>1, <2>1, <2>2, PrepareStep DEF Intent
  <2>3. CASE intent[p] = "sweep" /\ SweepDue(row) /\ Prepare(p, "sweep", who[p])
    BY <1>1, <2>1, <2>3, PrepareStep DEF Intent
  <2>4. CASE phase' = [phase EXCEPT ![p] = "idle"]
             /\ UNCHANGED <<row, late, intent, who, snap, result, fired>>
    <3>1. phase'[p] = "idle" /\ \A q \in Proc : q # p => phase'[q] = phase[q]
      BY <1>1, <2>4 DEF TypeOK
    <3> QED
      BY <2>1, <2>4, <3>1, PauseStep
  <2> QED
    BY <1>5, <2>2, <2>3, <2>4 DEF Reread
<1> QED
  BY <1>2, <1>3, <1>4, <1>5 DEF Continue

LEMMA SweepStep ==
  ASSUME IInv, TypeOK', NEW p \in Sweep, BeginSweep(p)
  PROVE  IInv'
<1>1. p \in Proc /\ who[p] \in Signer
  BY DEF Proc, IInv, TypeOK
<1> QED
  BY <1>1, PrepareStep DEF BeginSweep, Intent

LEMMA InvInit == Init => IInv
<1> SUFFICES ASSUME Init PROVE IInv
  OBVIOUS
<1>1. TypeOK
  BY InitType
<1>2. \A s \in Signer : row.signer[s] = "pending"
  BY DEF Init, NewRow, NewSigners
<1>3. row.status = "sent" /\ row.expiredEmitted = FALSE /\ fired = 0
  BY DEF Init, NewRow
<1>4. \A p \in Proc : phase[p] = "idle" /\ result[p] = "none" /\ intent[p] = "touch"
  BY DEF Init
<1>5. SignedSet(row) = {}
  BY <1>2 DEF SignedSet
<1>6. \A p \in Proc : Copy(p) /\ Gate(p) /\ Role(p)
  BY <1>4 DEF Copy, Gate, Role
<1>7. RowInv /\ SignedInOrder /\ CompletedByAll /\ ExpiredOnce
  BY <1>2, <1>3, <1>5, SignerAssumption
     DEF RowInv, SignedInOrder, CompletedByAll, ExpiredOnce
<1>8. SignedOnce /\ CancelKept
  BY <1>4, <1>5 DEF SignedOnce, CancelKept, HasSigned, Proc
<1> QED
  BY <1>1, <1>6, <1>7, <1>8 DEF IInv

LEMMA InvNext == IInv /\ [Next]_vars => IInv'
<1> SUFFICES ASSUME IInv, [Next]_vars PROVE IInv'
  OBVIOUS
<1>1. TypeOK'
  BY NextType DEF IInv
<1>2. CASE \E c \in Call : Begin(c)
  BY <1>1, <1>2, BeginStep
<1>3. CASE \E p \in Sweep : BeginSweep(p)
  BY <1>1, <1>3, SweepStep
<1>4. CASE \E p \in Proc : Continue(p)
  BY <1>1, <1>4, ContinueStep
<1>5. CASE DeadlinePasses
  <2>1. late' = TRUE /\ UNCHANGED <<row, phase, intent, who, snap, tries, result, fired>>
    BY <1>5 DEF DeadlinePasses
  <2>2. (RowInv /\ SignedInOrder /\ CompletedByAll /\ ExpiredOnce)'
    BY <2>1, RowKept
  <2>3. (SignedOnce /\ CancelKept)'
    BY <2>1, AnswersKept
  <2>4. \A p \in Proc : (Copy(p) /\ Gate(p) /\ Role(p))'
    BY <2>1 DEF IInv, Copy, Gate, Role
  <2> QED
    BY <1>1, <2>2, <2>3, <2>4 DEF IInv
<1>6. CASE UNCHANGED vars
  <2>1. UNCHANGED <<row, late, phase, intent, who, snap, tries, result, fired>>
    BY <1>6 DEF vars
  <2>2. (RowInv /\ SignedInOrder /\ CompletedByAll /\ ExpiredOnce)'
    BY <2>1, RowKept
  <2>3. (SignedOnce /\ CancelKept)'
    BY <2>1, AnswersKept
  <2>4. \A p \in Proc : (Copy(p) /\ Gate(p) /\ Role(p))'
    BY <2>1 DEF IInv, Copy, Gate, Role
  <2> QED
    BY <1>1, <2>2, <2>3, <2>4 DEF IInv
<1> QED
  BY <1>2, <1>3, <1>4, <1>5, <1>6 DEF Next

LEMMA Inductive == Spec => []IInv
  BY InvInit, InvNext, PTL DEF Spec
------------------------------------------------------------------------------
\* However calls and sweeps interleave, no signature is recorded before those
\* of all earlier signers (the order gate of resolveSigningToken).
THEOREM OrderRespected == Spec => []SignedInOrder
<1>1. IInv => SignedInOrder
  BY DEF IInv
<1> QED
  BY <1>1, Inductive, PTL

\* The envelope is completed exactly when everybody has signed
\* (recordSignature), whatever voids, declines and expiries raced with it.
THEOREM CompletedOnlyByAll == Spec => []CompletedByAll
<1>1. IInv => CompletedByAll
  BY DEF IInv
<1> QED
  BY <1>1, Inductive, PTL

\* A recorded signature was reported to exactly one call, and a reported one
\* stays recorded: the compare-and-swap of update makes a link single-use.
THEOREM SingleUse == Spec => []SignedOnce
<1>1. IInv => SignedOnce
  BY DEF IInv
<1> QED
  BY <1>1, Inductive, PTL

\* A void or a decline that was answered "ok" is never overwritten.
THEOREM CancellationKept == Spec => []CancelKept
<1>1. IInv => CancelKept
  BY DEF IInv
<1> QED
  BY <1>1, Inductive, PTL

\* envelope.expired is appended at most once, and exactly when the stored flag
\* says so, for any number of overlapping sweeps (expireOne).
THEOREM ExpiryFiredOnce == Spec => []ExpiredOnce
<1>1. IInv => ExpiredOnce
  BY DEF IInv
<1> QED
  BY <1>1, Inductive, PTL

(***************************************************************************)
(* Refinement: a write is a step of the ceremony, everything else is none. *)
(***************************************************************************)
LEMMA WriteImplements ==
  ASSUME IInv, TypeOK', NEW p \in Proc, Commit(p)
  PROVE  [Ceremony!Next]_(Ceremony!vars)
<1>1. Writes(p) /\ late' = late /\ CompletedByAll /\ who[p] \in Signer /\ RowInv
      /\ row.signer \in [Signer -> SignerStatus] /\ row.status \in Status
  BY CommitWrites DEF Commit, IInv, TypeOK, Row
<1>2. CASE Signs(p)
  <2>1. SignedSet(row') = SignedSet(row) \cup {who[p]}
    BY <1>1, <1>2 DEF Signs, SignedSet
  <2>2. /\ row.status \in Live /\ who[p] \notin SignedSet(row)
        /\ \A t \in Signer : Order[t] < Order[who[p]] => t \in SignedSet(row)
    BY <1>2 DEF Signs, CanSign, WaitingOn, SignedSet
  <2>3. CeremonyOutcome = "open"
    BY <2>2 DEF CeremonyOutcome
  <2>4. CeremonyOutcome' = IF SignedSet(row') = Signer THEN "completed" ELSE "open"
    BY <1>1, <1>2, <2>1 DEF CeremonyOutcome, Signs, SignedSet, Live
  <2>5. Ceremony!Sign(who[p])
    BY <1>1, <2>1, <2>2, <2>3, <2>4 DEF Ceremony!Sign
  <2> QED
    BY <1>1, <2>5 DEF Ceremony!Next
<1>3. CASE ~Signs(p)
  <2>1. SignedSet(row') = SignedSet(row)
    BY <1>1, <1>3
       DEF Writes, Declines, Voids, Expires, Sweeps, Touches, SignedSet, CanDecline
  <2>2. CASE Declines(p) \/ Voids(p)
    <3>1. row'.status = "voided" /\ row.status # "completed"
      BY <2>2 DEF Declines, Voids, CanDecline, CanVoid, Live
    <3>2. CeremonyOutcome' = "voided" /\ CeremonyOutcome \in {"open", "expired", "voided"}
      BY <1>1, <3>1 DEF CeremonyOutcome, Live, Status
    <3> QED
      BY <1>1, <2>1, <3>2 DEF Ceremony!Next, Ceremony!Void, Ceremony!vars
  <2>3. CASE Expires(p) \/ Sweeps(p)
    <3>1. CeremonyOutcome' = "expired"
      BY <2>3 DEF Expires, Sweeps, CeremonyOutcome, Live
    <3>2. (CeremonyOutcome = "open" /\ late) \/ CeremonyOutcome = "expired"
      BY <2>3 DEF Expires, Sweeps, CeremonyOutcome, Live
    <3> QED
      BY <1>1, <2>1, <3>1, <3>2 DEF Ceremony!Next, Ceremony!Expire, Ceremony!vars
  <2>4. CASE Touches(p)
    BY <1>1, <2>1, <2>4 DEF Touches, CeremonyOutcome, Ceremony!vars
  <2> QED
    BY <1>1, <1>3, <2>2, <2>3, <2>4 DEF Writes
<1> QED
  BY <1>2, <1>3

LEMMA StepImplements == IInv /\ IInv' /\ [Next]_vars => [Ceremony!Next]_(Ceremony!vars)
<1> SUFFICES ASSUME IInv, IInv', [Next]_vars PROVE [Ceremony!Next]_(Ceremony!vars)
  OBVIOUS
<1>1. ASSUME UNCHANGED <<row, late>> PROVE UNCHANGED Ceremony!vars
  BY <1>1 DEF Ceremony!vars, SignedSet, CeremonyOutcome
<1>2. CASE \E c \in Call : Begin(c)
  BY <1>1, <1>2
     DEF Begin, BeginSign, BeginDecline, BeginResolve, BeginVoid, BeginTouch, Prepare, Refuse
<1>3. CASE \E p \in Sweep : BeginSweep(p)
  BY <1>1, <1>3 DEF BeginSweep, Prepare
<1>4. CASE \E p \in Proc : Continue(p)
  <2>1. PICK p \in Proc : Continue(p)
    BY <1>4
  <2>2. CASE Commit(p)
    BY <2>2, WriteImplements DEF IInv
  <2>3. CASE Reread(p) \/ Retry(p) \/ Conflict(p)
    BY <1>1, <2>3 DEF Reread, Retry, Conflict, Prepare
  <2> QED
    BY <2>1, <2>2, <2>3 DEF Continue
<1>5. CASE DeadlinePasses
  <2>1. UNCHANGED <<SignedSet(row), CeremonyOutcome>> /\ late' = TRUE
    BY <1>5 DEF DeadlinePasses, SignedSet, CeremonyOutcome
  <2> QED
    BY <2>1 DEF Ceremony!Next, Ceremony!DeadlinePasses
<1>6. CASE UNCHANGED vars
  BY <1>1, <1>6 DEF vars
<1> QED
  BY <1>2, <1>3, <1>4, <1>5, <1>6 DEF Next

\* The calls and sweeps over the compare-and-swap store implement the abstract
\* ceremony, for any number of them.
THEOREM Implements == Spec => ImplementsCeremony
<1>1. Init => Ceremony!Init
  BY InvInit DEF Init, NewRow, NewSigners, Ceremony!Init, SignedSet, CeremonyOutcome, Live
<1> QED
  BY <1>1, Inductive, StepImplements, PTL DEF Spec, ImplementsCeremony, Ceremony!Spec
==============================================================================
