----------------------------- MODULE Cloud_proofs -----------------------------
(***************************************************************************)
(* The machines that keep their state outside the provisioning table: the  *)
(* handoff of a credential for any number of runs and faults, the tenant   *)
(* with a deployment of its own, and the waitlist.  Of the handoff, the    *)
(* argument is the fencing: as long as a run owns the lease nobody else    *)
(* writes the pointer, so the pointer is what the run believes it to be    *)
(* (Synced), and what it believes suffices for its next write.             *)
(***************************************************************************)
EXTENDS CredentialHandoff, DedicatedTenant, WaitlistOutbox, FiniteSetTheorems, SequenceTheorems,
        NaturalsInduction, WellFoundedInduction, TLAPS

\* A run between its reading of the pointer and its last write of it.
Writing == {"begin", "execute", "bind", "create", "publish", "revoke"}

\* The owner of the lease knows the pointer.
Synced == \A r \in Run : Owns(r) /\ run[r].phase \in Writing => pointer = run[r].ptr

\* What a run knows of its next write.
Prepared ==
  \A r \in Run :
    LET v == run[r]
    IN  /\ v.phase = "begin"   => v.ptr.state \in {"none", "pending"}
        /\ v.phase = "execute" => v.ptr.state = "pending" /\ v.ptr.pub \in Nat
        /\ v.phase = "bind"    => v.ptr.state = "pending" /\ v.publication \in Publication
        /\ v.phase = "create"  => /\ v.ptr.state = "pending"
                                  /\ v.publication \in Publication
                                  /\ v.ptr.bound = v.publication
        /\ v.phase = "publish" => v.ptr.state = "pending" /\ v.ptr.bound \in secrets
        /\ v.phase = "revoke"  => v.ptr.state \in {"pending", "published"}

\* What was handed out is there, and before the first offer nothing is named.
Backed == /\ pointer.state = "published" => pointer.bound \in secrets
          /\ pointer.state = "none" => pointer.bound = NoPublication

CInv == CTypeOK /\ Synced /\ Prepared /\ Backed

------------------------------------------------------------------------------
LEMMA NoPointerType == NoPointer \in Pointer
BY DEF NoPointer, Pointer

LEMMA NewRunType == NewRun \in RunState
<1>1. {"claim"} \subseteq Phase
  BY DEF Phase
<1> QED
  BY <1>1, NoPointerType DEF NewRun, RunState

LEMMA InitInv == CInit => CInv
<1> SUFFICES ASSUME CInit PROVE CInv
  OBVIOUS
<1>1. CTypeOK
  <2>1. lease \in [owner: Run \cup {0}, token: Nat, running: BOOLEAN]
    BY DEF CInit
  <2>2. pointer \in Pointer /\ run \in [Run -> RunState]
    BY NoPointerType, NewRunType DEF CInit
  <2>3. /\ secrets \subseteq Publication /\ minted \in Nat /\ active \in 0..minted
        /\ step \in {"open", "done", "undone"} /\ faults \in 0..MaxFaults
    BY FaultAssumption DEF CInit
  <2>4. canceled \in BOOLEAN /\ outlived \in BOOLEAN
    BY DEF CInit
  <2> QED
    BY <2>1, <2>2, <2>3, <2>4 DEF CTypeOK
<1>2. \A r \in Run : run[r].phase = "claim"
  BY DEF CInit, NewRun
<1>3. Synced /\ Prepared
  BY <1>2 DEF Synced, Prepared, Writing
<1>4. Backed
  BY DEF Backed, CInit, NoPointer
<1> QED
  BY <1>1, <1>3, <1>4 DEF CInv

\* A step of run r that leaves pointer and secrets alone, does not take the
\* lease, and gives the run no write it is not prepared for.
LEMMA QuietStep ==
  ASSUME CInv, NEW r \in Run, NEW v \in RunState, run' = [run EXCEPT ![r] = v],
         UNCHANGED <<pointer, secrets>>,
         lease'.token = lease.token, lease'.owner \in {lease.owner, 0},
         v.token = run[r].token,
         v.phase \in Writing => v.phase = run[r].phase /\ v.ptr = run[r].ptr
                                /\ v.publication = run[r].publication
  PROVE  Synced' /\ Prepared' /\ Backed'
<1>1. \A q \in Run : run'[q] = IF q = r THEN v ELSE run[q]
  BY DEF CInv, CTypeOK
<1>2. \A q \in Run : Owns(q)' => Owns(q)
  BY <1>1, RunAssumption DEF Owns, CInv, CTypeOK
<1>3. Synced'
  BY <1>1, <1>2 DEF CInv, Synced
<1>4. Prepared'
  BY <1>1 DEF CInv, Prepared, Writing
<1> QED
  BY <1>3, <1>4 DEF CInv, Backed

\* The run ends, or another field of it than phase and token changes.
LEMMA EndStep ==
  ASSUME CInv, NEW r \in Run, End(r)
  PROVE  /\ lease' \in [owner: Run \cup {0}, token: Nat, running: BOOLEAN]
         /\ run' \in [Run -> RunState]
         /\ UNCHANGED <<pointer, secrets>> => Synced' /\ Prepared' /\ Backed'
<1> DEFINE v == [run[r] EXCEPT !.phase = "end", !.fenced = FALSE]
<1>1. run[r] \in RunState /\ lease \in [owner: Run \cup {0}, token: Nat, running: BOOLEAN]
  BY DEF CInv, CTypeOK
<1>2. v \in RunState /\ v.phase = "end" /\ v.token = run[r].token
  BY <1>1 DEF RunState, Phase
<1>3. run' = [run EXCEPT ![r] = v]
  BY DEF End, Goto, Become
<1>4. /\ lease' \in [owner: Run \cup {0}, token: Nat, running: BOOLEAN]
      /\ lease'.token = lease.token /\ lease'.owner \in {lease.owner, 0}
  BY <1>1 DEF End, Released
<1>5. UNCHANGED <<pointer, secrets>> => Synced' /\ Prepared' /\ Backed'
  <2> HIDE DEF v
  <2> SUFFICES ASSUME UNCHANGED <<pointer, secrets>> PROVE Synced' /\ Prepared' /\ Backed'
    OBVIOUS
  <2> QED
    BY <1>2, <1>3, <1>4, QuietStep DEF Writing
<1> QED
  BY <1>1, <1>2, <1>3, <1>4, <1>5 DEF CInv, CTypeOK

\* A write of the pointer by its owner.
LEMMA TransactStep ==
  ASSUME CInv, NEW r \in Run, run[r].phase \in Writing,
         NEW next \in Pointer, NEW phase \in Phase, NEW condition \in BOOLEAN,
         Transact(r, condition, next, phase),
         condition /\ Owns(r) =>
           /\ phase = "execute" => next.state = "pending" /\ next.pub \in Nat
           /\ phase = "create" => /\ next.state = "pending"
                                  /\ run[r].publication \in Publication
                                  /\ next.bound = run[r].publication
           /\ phase \notin {"begin", "bind", "publish", "revoke"}
           /\ next.state = "published" => next.bound \in secrets
           /\ next.state # "none"
  PROVE  CInv'
<1>1. run[r] \in RunState
  BY DEF CInv, CTypeOK
<1>2. UNCHANGED <<secrets, minted, active, canceled, step, outlived, faults>>
  BY DEF Transact, Outside, Provider, Job
<1>3. CASE Owns(r) /\ condition
  <2> DEFINE v == [run[r] EXCEPT !.phase = phase, !.fenced = FALSE, !.ptr = next]
  <2>1. /\ v \in RunState /\ v.phase = phase /\ v.token = run[r].token /\ v.ptr = next
        /\ v.publication = run[r].publication
    BY <1>1 DEF RunState
  <2>2. run' = [run EXCEPT ![r] = v] /\ pointer' = next /\ lease' = lease
    BY <1>3 DEF Transact, Become
  <2> HIDE DEF v
  <2>3. CTypeOK'
    BY <1>2, <2>1, <2>2 DEF CInv, CTypeOK
  <2>4. \A q \in Run : run'[q] = IF q = r THEN v ELSE run[q]
    BY <2>2 DEF CInv, CTypeOK
  <2>5. Synced'
    BY <1>3, <2>1, <2>2, <2>4 DEF Synced, Owns
  <2>6. Prepared'
    BY <1>2, <1>3, <2>1, <2>4 DEF CInv, Prepared
  <2>7. Backed'
    BY <1>2, <1>3, <2>2 DEF Backed
  <2> QED
    BY <2>3, <2>5, <2>6, <2>7 DEF CInv
<1>4. CASE ~(Owns(r) /\ condition)
  <2>1. End(r) /\ UNCHANGED pointer
    BY <1>4 DEF Transact
  <2> QED
    BY <1>2, <2>1, EndStep DEF CInv, CTypeOK
<1> QED
  BY <1>3, <1>4

------------------------------------------------------------------------------
(***************************************************************************)
(* One lemma per action.                                                   *)
(***************************************************************************)
LEMMA ClaimStep == ASSUME CInv, NEW r \in Run, Claim(r) PROVE CInv'
<1>1. /\ run[r] \in RunState /\ lease \in [owner: Run \cup {0}, token: Nat, running: BOOLEAN]
      /\ UNCHANGED <<pointer, secrets, minted, active, canceled, step, outlived, faults>>
  BY DEF CInv, CTypeOK, Claim, Outside, Provider, Job
<1>2. CASE lease.running
  <2> DEFINE v == [run[r] EXCEPT !.phase = "end", !.fenced = FALSE]
  <2>1. v \in RunState /\ v.phase = "end" /\ v.token = run[r].token
    BY <1>1 DEF RunState, Phase
  <2>2. run' = [run EXCEPT ![r] = v] /\ lease' = lease
    BY <1>2 DEF Claim, Goto, Become
  <2> HIDE DEF v
  <2>3. CTypeOK'
    BY <1>1, <2>1, <2>2 DEF CInv, CTypeOK
  <2> QED
    BY <1>1, <2>1, <2>2, <2>3, QuietStep DEF Writing, CInv
<1>3. CASE ~lease.running
  <2>1. /\ lease' = [owner |-> r, token |-> lease.token + 1, running |-> TRUE]
        /\ run' = [run EXCEPT ![r] = [NewRun EXCEPT !.phase = "read", !.token = lease.token + 1]]
    <3>1. lease' = [owner |-> r, token |-> lease.token + 1, running |-> TRUE]
      BY <1>3 DEF Claim
    <3>2. run' = [run EXCEPT ![r] = [NewRun EXCEPT !.phase = "read", !.token = lease'.token]]
      BY <1>3 DEF Claim, Become
    <3>3. lease'.token = lease.token + 1
      BY <3>1
    <3> QED
      BY <3>1, <3>2, <3>3
  <2>2. [NewRun EXCEPT !.phase = "read", !.token = lease.token + 1] \in RunState
    <3>1. NewRun \in RunState /\ "read" \in Phase /\ lease.token + 1 \in Nat
      BY <1>1, NewRunType DEF Phase
    <3> QED
      BY <3>1 DEF RunState
  <2>3. CTypeOK'
    BY <1>1, <2>1, <2>2 DEF CInv, CTypeOK
  <2>4. \A q \in Run : /\ q # r => run'[q] = run[q] /\ ~Owns(q)'
                       /\ q = r => run'[q].phase = "read"
    BY <2>1 DEF CInv, CTypeOK, Owns, NewRun
  <2>5. Synced' /\ Prepared' /\ Backed'
    BY <1>1, <2>4 DEF CInv, Synced, Prepared, Backed, Writing
  <2> QED
    BY <2>3, <2>5 DEF CInv
<1> QED
  BY <1>2, <1>3

LEMMA FenceStep == ASSUME CInv, NEW r \in Run, Fence(r) PROVE CInv'
<1>1. /\ run[r] \in RunState /\ lease \in [owner: Run \cup {0}, token: Nat, running: BOOLEAN]
      /\ UNCHANGED <<pointer, secrets, minted, active, canceled, step, outlived, faults>>
  BY DEF CInv, CTypeOK, Fence, Outside, Provider, Job
<1>2. CASE /\ lease' = [lease EXCEPT !.running = TRUE]
           /\ Become(r, [run[r] EXCEPT !.fenced = TRUE])
  <2> DEFINE v == [run[r] EXCEPT !.fenced = TRUE]
  <2>1. /\ v \in RunState /\ v.phase = run[r].phase /\ v.token = run[r].token
        /\ v.ptr = run[r].ptr /\ v.publication = run[r].publication
    BY <1>1 DEF RunState
  <2>2. /\ run' = [run EXCEPT ![r] = v]
        /\ lease' \in [owner: Run \cup {0}, token: Nat, running: BOOLEAN]
        /\ lease'.token = lease.token /\ lease'.owner = lease.owner
    BY <1>1, <1>2 DEF Become
  <2> HIDE DEF v
  <2>3. CTypeOK'
    BY <1>1, <2>1, <2>2 DEF CInv, CTypeOK
  <2> QED
    BY <1>1, <2>1, <2>2, <2>3, QuietStep DEF CInv
<1>3. CASE End(r)
  BY <1>1, <1>3, EndStep DEF CInv, CTypeOK
<1> QED
  BY <1>2, <1>3 DEF Fence

LEMMA ExpireStep == ASSUME CInv, Expire PROVE CInv'
<1>1. UNCHANGED <<pointer, secrets, minted, active, canceled, step, run>>
  BY DEF Expire, Outside, Provider, Job
<1>2. /\ lease' \in [owner: Run \cup {0}, token: Nat, running: BOOLEAN]
      /\ lease'.token = lease.token /\ lease'.owner = lease.owner
  BY DEF Expire, CInv, CTypeOK
<1>3. outlived' \in BOOLEAN /\ faults' \in 0..MaxFaults
  <2>1. PICK r \in Run : IF Alive(r) THEN faults < MaxFaults /\ faults' = faults + 1 /\ outlived' = TRUE
                         ELSE UNCHANGED <<outlived, faults>>
    BY DEF Expire
  <2>2. outlived \in BOOLEAN /\ faults \in 0..MaxFaults
    BY DEF CInv, CTypeOK
  <2>3. CASE Alive(r)
    <3>1. outlived' = TRUE
      BY <2>1, <2>3
    <3>2. faults' \in 0..MaxFaults
      BY <2>1, <2>2, <2>3, FaultAssumption
    <3> QED
      BY <3>1, <3>2
  <2>4. CASE ~Alive(r)
    BY <2>1, <2>2, <2>4
  <2> QED
    BY <2>3, <2>4
<1>4. CTypeOK'
  BY <1>1, <1>2, <1>3 DEF CInv, CTypeOK
<1>5. \A r \in Run : Owns(r)' => Owns(r)
  BY <1>1, <1>2 DEF Owns
<1>6. Synced' /\ Prepared' /\ Backed'
  BY <1>1, <1>5 DEF CInv, Synced, Prepared, Backed
<1> QED
  BY <1>4, <1>6 DEF CInv

LEMMA StopStep == ASSUME CInv, NEW r \in Run, Stop(r) PROVE CInv'
<1>1. /\ run[r] \in RunState /\ faults' \in 0..MaxFaults
      /\ UNCHANGED <<pointer, secrets, minted, active, canceled, step, outlived>>
  BY FaultAssumption DEF CInv, CTypeOK, Stop, Outside, Provider, Job
<1>2. CASE Goto(r, "end") /\ UNCHANGED lease
  <2> DEFINE v == [run[r] EXCEPT !.phase = "end", !.fenced = FALSE]
  <2>1. v \in RunState /\ v.phase = "end" /\ v.token = run[r].token
    BY <1>1 DEF RunState, Phase
  <2>2. run' = [run EXCEPT ![r] = v] /\ lease' = lease
    BY <1>2 DEF Goto, Become
  <2> HIDE DEF v
  <2>3. CTypeOK'
    BY <1>1, <2>1, <2>2 DEF CInv, CTypeOK
  <2> QED
    BY <1>1, <2>1, <2>2, <2>3, QuietStep DEF Writing, CInv
<1>3. CASE End(r)
  BY <1>1, <1>3, EndStep DEF CInv, CTypeOK
<1> QED
  BY <1>2, <1>3 DEF Stop

LEMMA ReadStep == ASSUME CInv, NEW r \in Run, Read(r) PROVE CInv'
<1>1. /\ run[r] \in RunState /\ pointer \in Pointer
      /\ UNCHANGED <<pointer, secrets, minted, active, canceled, step, outlived, faults>>
  BY DEF CInv, CTypeOK, Read, Outside, Provider, Job
<1>2. CASE End(r)
  BY <1>1, <1>2, EndStep DEF CInv, CTypeOK
<1>3. CASE /\ Following(pointer) # "end" /\ UNCHANGED lease
           /\ Become(r, [run[r] EXCEPT !.phase = Following(pointer), !.fenced = FALSE,
                           !.undo = canceled, !.ptr = pointer, !.publication = pointer.bound])
  <2> DEFINE v == [run[r] EXCEPT !.phase = Following(pointer), !.fenced = FALSE,
                     !.undo = canceled, !.ptr = pointer, !.publication = pointer.bound]
  <2>0. Following(pointer) \in Phase
    BY DEF Following, Phase
  <2>1. /\ v \in RunState /\ v.ptr = pointer /\ v.phase = Following(pointer)
    BY <1>1, <2>0 DEF RunState, CInv, CTypeOK, Pointer
  <2>2. run' = [run EXCEPT ![r] = v] /\ lease' = lease
    BY <1>3 DEF Become
  <2>3. /\ v.phase = "begin" => pointer.state \in {"none", "pending"}
        /\ v.phase = "publish" => pointer.state = "pending" /\ pointer.bound \in secrets
        /\ v.phase = "revoke" => pointer.state \in {"pending", "published"}
        /\ v.phase \notin {"execute", "bind", "create"}
    <3>1. pointer.state = "published" => Verified(pointer)
      BY DEF Backed, CInv, Verified, CTypeOK, Publication, NoPublication
    <3>2. Verified(pointer) => pointer.state # "none" /\ pointer.bound \in secrets
      BY DEF Backed, CInv, Verified
    <3>3. pointer.state \in {"none", "pending", "published", "revoked"}
      BY <1>1 DEF Pointer
    <3> QED
      BY <2>1, <3>1, <3>2, <3>3 DEF Following
  <2> HIDE DEF v
  <2>4. CTypeOK'
    BY <1>1, <2>1, <2>2 DEF CInv, CTypeOK
  <2>5. \A q \in Run : run'[q] = IF q = r THEN v ELSE run[q]
    BY <2>2 DEF CInv, CTypeOK
  <2>6. Synced'
    BY <1>1, <2>1, <2>2, <2>5 DEF CInv, Synced, Owns
  <2>7. Prepared'
    BY <1>1, <2>1, <2>3, <2>5 DEF CInv, Prepared
  <2> QED
    BY <1>1, <2>4, <2>6, <2>7 DEF CInv, Backed
<1> QED
  BY <1>2, <1>3 DEF Read

LEMMA BeginStep == ASSUME CInv, NEW r \in Run, BeginHandoff(r) PROVE CInv'
<1> DEFINE p    == run[r].ptr
           next == [state |-> "pending", pub |-> p.pub + 1, fence |-> run[r].token,
                    bound |-> NoPublication]
           condition == pointer.pub = p.pub /\ pointer.state # "revoked"
<1>1. run[r] \in RunState
  BY DEF CInv, CTypeOK
<1>2. next \in Pointer /\ next.state = "pending" /\ next.pub \in Nat
  BY <1>1 DEF RunState, Pointer
<1>3. Transact(r, condition, next, "execute") /\ run[r].phase \in Writing
  BY DEF BeginHandoff, Writing
<1> HIDE DEF next, condition
<1>4. condition \in BOOLEAN /\ "execute" \in Phase
  BY DEF condition, Phase
<1> QED
  BY <1>2, <1>3, <1>4, TransactStep

LEMMA BindStep == ASSUME CInv, NEW r \in Run, BindHandoff(r) PROVE CInv'
<1> DEFINE p    == run[r].ptr
           b    == run[r].publication
           next == [p EXCEPT !.bound = b]
           condition == Same(p) /\ pointer.state = "pending"
                        /\ pointer.bound \in {NoPublication, b}
<1>1. run[r] \in RunState /\ p.state = "pending" /\ b \in Publication
  BY DEF CInv, CTypeOK, Prepared, BindHandoff
<1>2. next \in Pointer /\ next.state = "pending" /\ next.bound = b
  BY <1>1 DEF RunState, Pointer
<1>3. Transact(r, condition, next, "create") /\ run[r].phase \in Writing
  BY DEF BindHandoff, Writing
<1> HIDE DEF next, condition
<1>4. condition \in BOOLEAN /\ "create" \in Phase
  BY DEF condition, Phase
<1> QED
  BY <1>1, <1>2, <1>3, <1>4, TransactStep

LEMMA PublishStep == ASSUME CInv, NEW r \in Run, PublishHandoff(r) PROVE CInv'
<1> DEFINE p    == run[r].ptr
           next == [p EXCEPT !.state = "published"]
           condition == Same(p) /\ pointer.state \in {"pending", "published"}
                        /\ pointer.bound = p.bound
<1>1. run[r] \in RunState /\ p.bound \in secrets
  BY DEF CInv, CTypeOK, Prepared, PublishHandoff
<1>2. next \in Pointer /\ next.bound = p.bound /\ next.state = "published"
  BY <1>1 DEF RunState, Pointer
<1>3. Transact(r, condition, next, "save") /\ run[r].phase \in Writing
  BY DEF PublishHandoff, Writing
<1> HIDE DEF next, condition
<1>4. condition \in BOOLEAN /\ "save" \in Phase
  BY DEF condition, Phase
<1> QED
  BY <1>1, <1>2, <1>3, <1>4, TransactStep

LEMMA RevokeStep == ASSUME CInv, NEW r \in Run, RevokeHandoff(r) PROVE CInv'
<1> DEFINE next == [run[r].ptr EXCEPT !.state = "revoked"]
           condition == Same(run[r].ptr)
<1>1. run[r] \in RunState
  BY DEF CInv, CTypeOK
<1>2. next \in Pointer /\ next.state = "revoked"
  BY <1>1 DEF RunState, Pointer
<1>3. Transact(r, condition, next, "turn_off") /\ run[r].phase \in Writing
  BY DEF RevokeHandoff, Writing
<1> HIDE DEF next, condition
<1>4. condition \in BOOLEAN /\ "turn_off" \in Phase
  BY DEF condition, Same, Phase
<1> QED
  BY <1>2, <1>3, <1>4, TransactStep

LEMMA ExecuteLemma == ASSUME CInv, NEW r \in Run, ExecuteStep(r) PROVE CInv'
<1> DEFINE b == [pub |-> run[r].ptr.pub, fence |-> run[r].ptr.fence, key |-> minted + 1]
           v == [run[r] EXCEPT !.phase = "bind", !.publication = b]
<1>1. /\ run[r] \in RunState /\ run[r].ptr.pub \in Nat /\ run[r].ptr.state = "pending"
      /\ minted \in Nat
      /\ UNCHANGED <<lease, pointer, secrets, canceled, step, outlived, faults>>
  BY DEF CInv, CTypeOK, Prepared, ExecuteStep, Job
<1>2. b \in Publication
  BY <1>1 DEF RunState, Pointer, Publication
<1>3. /\ v \in RunState /\ v.phase = "bind" /\ v.token = run[r].token /\ v.ptr = run[r].ptr
      /\ v.publication = b
  BY <1>1, <1>2 DEF RunState, Phase
<1>4. run' = [run EXCEPT ![r] = v] /\ minted' = minted + 1 /\ active' = minted + 1
  BY DEF ExecuteStep, Become
<1> HIDE DEF b, v
<1>5. CTypeOK'
  BY <1>1, <1>3, <1>4 DEF CInv, CTypeOK
<1>6. \A q \in Run : run'[q] = IF q = r THEN v ELSE run[q]
  BY <1>4 DEF CInv, CTypeOK
<1>7. Synced'
  BY <1>1, <1>3, <1>6 DEF CInv, Synced, Owns, Writing, ExecuteStep
<1>8. Prepared'
  BY <1>1, <1>2, <1>3, <1>6 DEF CInv, Prepared
<1> QED
  BY <1>1, <1>5, <1>7, <1>8 DEF CInv, Backed

LEMMA CreateStep == ASSUME CInv, NEW r \in Run, CreateImmutable(r) PROVE CInv'
<1> DEFINE v == [run[r] EXCEPT !.phase = "publish", !.fenced = FALSE]
<1>1. /\ run[r] \in RunState /\ run[r].publication \in Publication
      /\ run[r].ptr.state = "pending" /\ run[r].ptr.bound = run[r].publication
      /\ UNCHANGED <<lease, pointer, minted, active, canceled, step, outlived, faults>>
  BY DEF CInv, CTypeOK, Prepared, CreateImmutable, Job, Provider
<1>2. v \in RunState /\ v.phase = "publish" /\ v.token = run[r].token /\ v.ptr = run[r].ptr
  BY <1>1 DEF RunState, Phase
<1>3. run' = [run EXCEPT ![r] = v] /\ secrets' = secrets \cup {run[r].publication}
  BY DEF CreateImmutable, Goto, Become
<1> HIDE DEF v
<1>4. CTypeOK'
  BY <1>1, <1>2, <1>3 DEF CInv, CTypeOK
<1>5. \A q \in Run : run'[q] = IF q = r THEN v ELSE run[q]
  BY <1>3 DEF CInv, CTypeOK
<1>6. Synced'
  BY <1>1, <1>2, <1>5 DEF CInv, Synced, Owns, Writing, CreateImmutable
<1>7. Prepared'
  BY <1>1, <1>2, <1>3, <1>5 DEF CInv, Prepared
<1> QED
  BY <1>1, <1>3, <1>4, <1>6, <1>7 DEF CInv, Backed

LEMMA TurnOffStep == ASSUME CInv, NEW r \in Run, CompensateJob(r) PROVE CInv'
<1> DEFINE v == [run[r] EXCEPT !.phase = "save", !.fenced = FALSE]
<1>1. /\ run[r] \in RunState
      /\ UNCHANGED <<lease, pointer, secrets, minted, canceled, step, outlived, faults>>
  BY DEF CInv, CTypeOK, CompensateJob, Job
<1>2. v \in RunState /\ v.phase = "save" /\ v.token = run[r].token
  BY <1>1 DEF RunState, Phase
<1>3. run' = [run EXCEPT ![r] = v] /\ active' = 0
  BY DEF CompensateJob, Goto, Become
<1> HIDE DEF v
<1>4. CTypeOK'
  BY <1>1, <1>2, <1>3 DEF CInv, CTypeOK
<1> QED
  BY <1>1, <1>2, <1>3, <1>4, QuietStep DEF Writing, CInv, CTypeOK

LEMMA SaveLemma == ASSUME CInv, NEW r \in Run, SaveStep(r) PROVE CInv'
<1>1. /\ run[r] \in RunState /\ step' \in {"open", "done", "undone"}
      /\ UNCHANGED <<pointer, secrets, minted, active, canceled, outlived, faults>>
  BY DEF CInv, CTypeOK, SaveStep, Outside, Provider, Reached
<1>2. CASE End(r)
  BY <1>1, <1>2, EndStep DEF CInv, CTypeOK
<1>3. CASE Goto(r, "read") /\ UNCHANGED lease
  <2> DEFINE v == [run[r] EXCEPT !.phase = "read", !.fenced = FALSE]
  <2>1. v \in RunState /\ v.phase = "read" /\ v.token = run[r].token
    BY <1>1 DEF RunState, Phase
  <2>2. run' = [run EXCEPT ![r] = v] /\ lease' = lease
    BY <1>3 DEF Goto, Become
  <2> HIDE DEF v
  <2>3. CTypeOK'
    BY <1>1, <2>1, <2>2 DEF CInv, CTypeOK
  <2> QED
    BY <1>1, <2>1, <2>2, <2>3, QuietStep DEF Writing, CInv
<1> QED
  BY <1>2, <1>3 DEF SaveStep

LEMMA NextInv == CInv /\ [CNext]_cvars => CInv'
<1> SUFFICES ASSUME CInv, [CNext]_cvars PROVE CInv'
  OBVIOUS
<1>1. CASE UNCHANGED cvars
  BY <1>1 DEF cvars, CInv, CTypeOK, Synced, Prepared, Backed, Owns
<1>2. CASE Cancel
  BY <1>2 DEF Cancel, Outside, Provider, CInv, CTypeOK, Synced, Prepared, Backed, Owns
<1>3. CASE Expire
  BY <1>3, ExpireStep
<1>4. ASSUME NEW r \in Run, Stop(r) PROVE CInv'
  BY <1>4, StopStep
<1>5. ASSUME NEW r \in Run, Moves(r) PROVE CInv'
  BY <1>5, ClaimStep, FenceStep, ReadStep, BeginStep, BindStep, PublishStep, RevokeStep,
     ExecuteLemma, CreateStep, TurnOffStep, SaveLemma DEF Moves
<1> QED
  BY <1>1, <1>2, <1>3, <1>4, <1>5 DEF CNext

LEMMA Inductive == CSpec => []CInv
BY InitInv, NextInv, PTL DEF CSpec

------------------------------------------------------------------------------
\* The variables of a job in any number of runs keep their types: the pointer names
\* publications, the secrets are publications, the lease is owned by a run.
THEOREM TypeCorrect == CSpec => []CTypeOK
<1>1. CInv => CTypeOK
  BY DEF CInv
<1> QED
  BY <1>1, Inductive, PTL

\* An abstract step per write of the pointer, and Create for a new secret.
LEMMA StepImplements ==
  ASSUME CInv, [CNext]_cvars
  PROVE  [Handoff!HNext]_(Handoff!hvars)
<1> USE DEF Handoff!hvars, Handoff!HNext
<1>1. UNCHANGED <<pointer, secrets>> => UNCHANGED Handoff!hvars
  OBVIOUS
<1>2. ASSUME NEW r \in Run, CreateImmutable(r) PROVE Handoff!Create
  BY <1>2 DEF Handoff!Create, CreateImmutable
<1>3. ASSUME NEW r \in Run, BeginHandoff(r) PROVE [Handoff!HNext]_(Handoff!hvars)
  <2>1. CASE pointer' = pointer /\ secrets' = secrets
    BY <2>1
  <2>2. CASE pointer' # pointer
    <3>1. /\ Owns(r) /\ run[r].phase = "begin" /\ secrets' = secrets
          /\ pointer'.state = "pending"
      BY <1>3, <2>2 DEF BeginHandoff, Transact, Outside
    <3>2. pointer.state \in {"none", "pending"}
      BY <3>1 DEF CInv, Synced, Prepared, Writing
    <3> QED
      BY <3>1, <3>2 DEF Handoff!Offer
  <2> QED
    BY <1>3, <2>1, <2>2 DEF BeginHandoff, Transact, Outside
<1>4. ASSUME NEW r \in Run, BindHandoff(r) PROVE [Handoff!HNext]_(Handoff!hvars)
  <2>1. CASE pointer' = pointer /\ secrets' = secrets
    BY <2>1
  <2>2. CASE pointer' # pointer
    <3>1. /\ Owns(r) /\ run[r].phase = "bind" /\ secrets' = secrets
          /\ pointer' = [run[r].ptr EXCEPT !.bound = run[r].publication]
      BY <1>4, <2>2 DEF BindHandoff, Transact, Outside
    <3>2. pointer = run[r].ptr /\ pointer.state = "pending" /\ pointer \in Pointer
      BY <3>1 DEF CInv, CTypeOK, Synced, Prepared, Writing
    <3>3. pointer'.state = "pending"
      BY <3>1, <3>2 DEF Pointer
    <3> QED
      BY <3>1, <3>2, <3>3 DEF Handoff!Offer
  <2> QED
    BY <1>4, <2>1, <2>2 DEF BindHandoff, Transact, Outside
<1>5. ASSUME NEW r \in Run, PublishHandoff(r) PROVE [Handoff!HNext]_(Handoff!hvars)
  <2>1. CASE pointer' = pointer /\ secrets' = secrets
    BY <2>1
  <2>2. CASE pointer' # pointer
    <3>1. /\ Owns(r) /\ run[r].phase = "publish" /\ secrets' = secrets
          /\ pointer' = [run[r].ptr EXCEPT !.state = "published"]
      BY <1>5, <2>2 DEF PublishHandoff, Transact, Outside
    <3>2. /\ pointer = run[r].ptr /\ pointer.state = "pending" /\ pointer.bound \in secrets
          /\ pointer \in Pointer
      BY <3>1 DEF CInv, CTypeOK, Synced, Prepared, Writing
    <3>3. pointer'.state = "published" /\ pointer'.bound \in secrets
      BY <3>1, <3>2 DEF Pointer
    <3> QED
      BY <3>1, <3>2, <3>3 DEF Handoff!Publish
  <2> QED
    BY <1>5, <2>1, <2>2 DEF PublishHandoff, Transact, Outside
<1>6. ASSUME NEW r \in Run, RevokeHandoff(r) PROVE [Handoff!HNext]_(Handoff!hvars)
  <2>1. CASE pointer' = pointer /\ secrets' = secrets
    BY <2>1
  <2>2. CASE pointer' # pointer
    <3>1. /\ Owns(r) /\ run[r].phase = "revoke" /\ secrets' = secrets
          /\ pointer' = [run[r].ptr EXCEPT !.state = "revoked"]
      BY <1>6, <2>2 DEF RevokeHandoff, Transact, Outside
    <3>2. pointer = run[r].ptr /\ pointer.state # "none" /\ pointer \in Pointer
      BY <3>1 DEF CInv, CTypeOK, Synced, Prepared, Writing
    <3>3. pointer'.state = "revoked"
      BY <3>1, <3>2 DEF Pointer
    <3> QED
      BY <3>1, <3>2, <3>3 DEF Handoff!Revoke
  <2> QED
    BY <1>6, <2>1, <2>2 DEF RevokeHandoff, Transact, Outside
<1>7. ASSUME NEW r \in Run,
             Stop(r) \/ Claim(r) \/ Fence(r) \/ Read(r) \/ ExecuteStep(r) \/ CompensateJob(r) \/ SaveStep(r)
      PROVE  UNCHANGED <<pointer, secrets>>
  BY <1>7 DEF Stop, Claim, Fence, Read, ExecuteStep, CompensateJob, SaveStep, Outside
<1>8. Expire \/ Cancel \/ UNCHANGED cvars => UNCHANGED <<pointer, secrets>>
  BY DEF Expire, Cancel, cvars, Outside
<1> QED
  BY <1>1, <1>2, <1>3, <1>4, <1>5, <1>6, <1>7, <1>8 DEF CNext, Moves

\* Whatever runs die, fail or outlive their lease, the writes of the pointer and of the
\* secret store are steps of the one-time handoff: one credential is handed out, from a
\* secret that is there, it is never exchanged, and a revocation is final.
THEOREM Implements == CSpec => ImplementsHandoff
<1>1. CInit => Handoff!HInit
  BY DEF CInit, Handoff!HInit, NoPointer
<1> QED
  BY <1>1, Inductive, StepImplements, PTL DEF CSpec, ImplementsHandoff, Handoff!HSpec

------------------------------------------------------------------------------
(***************************************************************************)
(* What is handed out works.  The pointer alone does not tell: the provider *)
(* forgets the old credential when it generates a new one, and it knows no *)
(* fencing.  As long as no run outlives its lease only one run is at work  *)
(* (Sole); it generates a credential only after it has unbound the pointer *)
(* (Unbound), so a pointer that is bound names the last one (Works).       *)
(***************************************************************************)
Sole == ~outlived => \A r \in Run : Alive(r) => Owns(r) /\ lease.running

Unbound ==
  /\ \A r \in Run : run[r].phase \in {"revoke", "turn_off"} => canceled
  /\ ~outlived =>
       \A r \in Run :
         /\ run[r].phase \in {"execute", "bind"} => run[r].ptr.bound = NoPublication
         /\ run[r].phase \in {"bind", "create"} /\ ~canceled
              => run[r].publication.key = active

Works ==
  ~canceled /\ ~outlived /\ pointer.state \in {"pending", "published"}
            /\ pointer.bound # NoPublication
    => pointer.bound.key = active

WorksInv == CInv /\ Sole /\ Unbound /\ Works

LEMMA WorksInit == CInit => WorksInv
<1> SUFFICES ASSUME CInit PROVE WorksInv
  OBVIOUS
<1>1. \A r \in Run : run[r].phase = "claim"
  BY DEF CInit, NewRun
<1>2. Sole /\ Unbound
  BY <1>1 DEF Sole, Unbound, Alive
<1>3. Works
  BY DEF Works, CInit, NoPointer
<1> QED
  BY <1>2, <1>3, InitInv DEF WorksInv

\* Nobody else is at work.
LEMMA Alone ==
  ASSUME Sole, ~outlived, NEW r \in Run, NEW q \in Run, Alive(r), Alive(q)
  PROVE  q = r /\ Owns(r)
BY DEF Sole, Owns

\* A step of a run at work that keeps the lease, or ends the run.
LEMMA WorkStep ==
  ASSUME WorksInv, NEW r \in Run, Alive(r), NEW v \in RunState, run' = [run EXCEPT ![r] = v],
         v.token = run[r].token, v.phase # "claim",
         v.phase = "end" \/ (/\ lease'.owner = lease.owner /\ lease'.token = lease.token
                             /\ lease.running => lease'.running),
         UNCHANGED <<canceled, outlived>>,
         v.phase \in {"revoke", "turn_off"} => canceled,
         ~outlived =>
           /\ v.phase \in {"execute", "bind"} => v.ptr.bound = NoPublication
           /\ v.phase \in {"bind", "create"} /\ ~canceled => v.publication.key = active'
  PROVE  Sole' /\ Unbound'
<1>1. \A q \in Run : run'[q] = IF q = r THEN v ELSE run[q]
  BY DEF WorksInv, CInv, CTypeOK
<1>2. \A q \in Run : ~outlived /\ q # r => ~Alive(q)
  BY Alone DEF WorksInv
<1>3. Sole'
  <2> SUFFICES ASSUME ~outlived, NEW q \in Run, Alive(q)' PROVE Owns(q)' /\ lease'.running
    BY DEF Sole
  <2>1. q = r
    BY <1>1, <1>2 DEF Alive
  <2>2. v.phase # "end"
    BY <1>1, <2>1 DEF Alive
  <2>3. Owns(r) /\ lease.running
    BY DEF WorksInv, Sole
  <2> QED
    BY <1>1, <2>1, <2>2, <2>3 DEF Owns
<1>4. Unbound'
  <2>1. \A q \in Run : run'[q].phase \in {"revoke", "turn_off"} => canceled'
    BY <1>1 DEF WorksInv, Unbound
  <2>2. ASSUME ~outlived, NEW q \in Run
        PROVE  /\ run'[q].phase \in {"execute", "bind"} => run'[q].ptr.bound = NoPublication
               /\ run'[q].phase \in {"bind", "create"} /\ ~canceled
                    => run'[q].publication.key = active'
    <3>1. CASE q = r
      BY <1>1, <2>2, <3>1
    <3>2. CASE q # r
      <4>1. run'[q].phase \in {"claim", "end"}
        BY <1>1, <1>2, <2>2, <3>2 DEF Alive
      <4> QED
        BY <4>1
    <3> QED
      BY <3>1, <3>2
  <2> QED
    BY <2>1, <2>2 DEF Unbound
<1> QED
  BY <1>3, <1>4

\* A run at work ends, by a failure or because it is done.
LEMMA EndWork ==
  ASSUME WorksInv, NEW r \in Run, Alive(r), End(r) \/ Goto(r, "end"),
         UNCHANGED <<pointer, active, canceled, outlived>>
  PROVE  Sole' /\ Unbound' /\ Works'
<1> DEFINE v == [run[r] EXCEPT !.phase = "end", !.fenced = FALSE]
<1>1. run[r] \in RunState
  BY DEF WorksInv, CInv, CTypeOK
<1>2. v \in RunState /\ v.phase = "end" /\ v.token = run[r].token
  BY <1>1 DEF RunState, Phase
<1>3. run' = [run EXCEPT ![r] = v]
  BY DEF End, Goto, Become
<1> HIDE DEF v
<1>4. Sole' /\ Unbound'
  BY <1>2, <1>3, WorkStep
<1> QED
  BY <1>4 DEF WorksInv, Works

\* A write of the pointer.
LEMMA TransactWork ==
  ASSUME WorksInv, NEW r \in Run, Alive(r),
         NEW next \in Pointer, NEW phase \in {"execute", "create", "save", "turn_off"},
         NEW condition \in BOOLEAN,
         Transact(r, condition, next, phase),
         phase = "turn_off" => canceled,
         condition /\ Owns(r) /\ ~outlived =>
           /\ phase = "execute" => next.bound = NoPublication
           /\ phase = "create" /\ ~canceled => run[r].publication.key = active
           /\ ~canceled /\ next.state \in {"pending", "published"} /\ next.bound # NoPublication
                => next.bound.key = active
  PROVE  Sole' /\ Unbound' /\ Works'
<1>1. UNCHANGED <<secrets, minted, active, canceled, step, outlived, faults>>
  BY DEF Transact, Outside, Provider, Job
<1>2. CASE Owns(r) /\ condition
  <2> DEFINE v == [run[r] EXCEPT !.phase = phase, !.fenced = FALSE, !.ptr = next]
  <2>1. run[r] \in RunState
    BY DEF WorksInv, CInv, CTypeOK
  <2>2. /\ v \in RunState /\ v.phase = phase /\ v.token = run[r].token /\ v.ptr = next
        /\ v.publication = run[r].publication
    BY <2>1 DEF RunState, Phase
  <2>3. run' = [run EXCEPT ![r] = v] /\ pointer' = next /\ lease' = lease
    BY <1>2 DEF Transact, Become
  <2> HIDE DEF v
  <2>4. Sole' /\ Unbound'
    BY <1>1, <1>2, <2>2, <2>3, WorkStep
  <2>5. Works'
    BY <1>1, <1>2, <2>3 DEF Works
  <2> QED
    BY <2>4, <2>5
<1>3. CASE ~(Owns(r) /\ condition)
  <2>1. End(r) /\ UNCHANGED pointer
    BY <1>3 DEF Transact
  <2> QED
    BY <1>1, <2>1, EndWork
<1> QED
  BY <1>2, <1>3

LEMMA ClaimWork == ASSUME WorksInv, NEW r \in Run, Claim(r) PROVE Sole' /\ Unbound' /\ Works'
<1>1. run[r].phase = "claim" /\ UNCHANGED <<pointer, active, canceled, outlived>>
  BY DEF Claim, Outside, Provider, Job
<1>2. Works'
  BY <1>1 DEF WorksInv, Works
<1>3. CASE lease.running
  <2>1. \A q \in Run : /\ q # r => run'[q] = run[q]
                       /\ q = r => run'[q].phase = "end"
    <3> DEFINE v == [run[r] EXCEPT !.phase = "end", !.fenced = FALSE]
    <3>1. run \in [Run -> RunState] /\ run[r] \in RunState
      BY DEF WorksInv, CInv, CTypeOK
    <3>2. v.phase = "end"
      BY <3>1 DEF RunState
    <3>3. run' = [run EXCEPT ![r] = v]
      BY <1>3 DEF Claim, Goto, Become
    <3> HIDE DEF v
    <3> QED
      BY <3>1, <3>2, <3>3
  <2>2. lease' = lease
    BY <1>3 DEF Claim
  <2>3. Sole'
    BY <1>1, <2>1, <2>2 DEF WorksInv, Sole, Alive, Owns
  <2>4. Unbound'
    BY <1>1, <2>1 DEF WorksInv, Unbound
  <2> QED
    BY <1>2, <2>3, <2>4
<1>4. CASE ~lease.running
  <2> DEFINE v == [NewRun EXCEPT !.phase = "read", !.token = lease'.token]
  <2>1. /\ lease' = [owner |-> r, token |-> lease.token + 1, running |-> TRUE]
        /\ run' = [run EXCEPT ![r] = v]
    BY <1>4 DEF Claim, Become
  <2>2. v.phase = "read" /\ v.token = lease'.token
    BY DEF NewRun
  <2> HIDE DEF v
  <2>3. \A q \in Run : run'[q] = IF q = r THEN v ELSE run[q]
    BY <2>1 DEF WorksInv, CInv, CTypeOK
  <2>4. ~outlived => \A q \in Run : ~Alive(q)
    BY <1>4 DEF WorksInv, Sole
  <2>5. Sole'
    <3> SUFFICES ASSUME ~outlived, NEW q \in Run, Alive(q)' PROVE Owns(q)' /\ lease'.running
      BY <1>1 DEF Sole
    <3>1. q = r
      BY <2>3, <2>4 DEF Alive
    <3> QED
      BY <2>1, <2>2, <2>3, <3>1 DEF Owns
  <2>6. Unbound'
    BY <1>1, <2>2, <2>3 DEF WorksInv, Unbound
  <2> QED
    BY <1>2, <2>5, <2>6
<1> QED
  BY <1>3, <1>4

LEMMA FenceWork == ASSUME WorksInv, NEW r \in Run, Fence(r) PROVE Sole' /\ Unbound' /\ Works'
<1>1. /\ Alive(r) /\ run[r] \in RunState
      /\ UNCHANGED <<pointer, active, canceled, outlived>>
  BY DEF WorksInv, CInv, CTypeOK, Fence, Outside, Provider, Job, Alive
<1>2. CASE /\ lease' = [lease EXCEPT !.running = TRUE]
           /\ Become(r, [run[r] EXCEPT !.fenced = TRUE])
  <2> DEFINE v == [run[r] EXCEPT !.fenced = TRUE]
  <2>1. /\ v \in RunState /\ v.phase = run[r].phase /\ v.token = run[r].token
        /\ v.ptr = run[r].ptr /\ v.publication = run[r].publication
    BY <1>1 DEF RunState
  <2>2. /\ run' = [run EXCEPT ![r] = v]
        /\ lease'.token = lease.token /\ lease'.owner = lease.owner /\ lease'.running
    BY <1>1, <1>2 DEF Become, WorksInv, CInv, CTypeOK
  <2> HIDE DEF v
  <2>3. Sole' /\ Unbound'
    <3>1. /\ v.phase \in {"revoke", "turn_off"} => canceled
          /\ ~outlived =>
               /\ v.phase \in {"execute", "bind"} => v.ptr.bound = NoPublication
               /\ v.phase \in {"bind", "create"} /\ ~canceled => v.publication.key = active'
      BY <1>1, <2>1 DEF WorksInv, Unbound
    <3>2. v.phase # "claim"
      BY <1>1, <2>1 DEF Alive
    <3> QED
      BY <1>1, <2>1, <2>2, <3>1, <3>2, WorkStep
  <2> QED
    BY <1>1, <2>3 DEF WorksInv, Works
<1>3. CASE End(r)
  BY <1>1, <1>3, EndWork
<1> QED
  BY <1>2, <1>3 DEF Fence

LEMMA ExpireWork == ASSUME WorksInv, Expire PROVE Sole' /\ Unbound' /\ Works'
<1>1. UNCHANGED <<pointer, active, canceled, run>> /\ lease' = [lease EXCEPT !.running = FALSE]
  BY DEF Expire, Outside, Provider, Job
<1>2. PICK r \in Run : /\ lease.owner = r
                       /\ IF Alive(r) THEN outlived' = TRUE ELSE UNCHANGED outlived
  BY DEF Expire
<1>3. outlived => outlived'
  BY <1>2
<1>4. Unbound' /\ Works'
  BY <1>1, <1>3 DEF WorksInv, Unbound, Works
<1>5. Sole'
  <2> SUFFICES ASSUME ~outlived', NEW q \in Run, Alive(q) PROVE FALSE
    BY <1>1 DEF Sole, Alive
  <2>1. Owns(q) /\ ~outlived
    BY <1>3 DEF WorksInv, Sole
  <2>2. q = r
    BY <1>2, <2>1 DEF Owns
  <2> QED
    BY <1>2, <2>2
<1> QED
  BY <1>4, <1>5

LEMMA ReadWork == ASSUME WorksInv, NEW r \in Run, Read(r) PROVE Sole' /\ Unbound' /\ Works'
<1>1. /\ Alive(r) /\ run[r] \in RunState /\ pointer \in Pointer
      /\ UNCHANGED <<pointer, active, canceled, outlived>>
  BY DEF WorksInv, CInv, CTypeOK, Read, Outside, Provider, Job, Alive
<1>2. CASE End(r)
  BY <1>1, <1>2, EndWork
<1>3. CASE /\ Following(pointer) # "end" /\ UNCHANGED lease
           /\ Become(r, [run[r] EXCEPT !.phase = Following(pointer), !.fenced = FALSE,
                           !.undo = canceled, !.ptr = pointer, !.publication = pointer.bound])
  <2> DEFINE v == [run[r] EXCEPT !.phase = Following(pointer), !.fenced = FALSE,
                     !.undo = canceled, !.ptr = pointer, !.publication = pointer.bound]
  <2>1. /\ Following(pointer) \in Phase
        /\ Following(pointer) \notin {"claim", "execute", "bind", "create"}
        /\ Following(pointer) \in {"revoke", "turn_off"} => canceled
    BY DEF Following, Phase
  <2>2. v \in RunState /\ v.token = run[r].token /\ v.phase = Following(pointer)
    BY <1>1, <2>1 DEF RunState, WorksInv, CInv, CTypeOK, Pointer
  <2>3. run' = [run EXCEPT ![r] = v] /\ lease' = lease
    BY <1>3 DEF Become
  <2> HIDE DEF v
  <2>4. Sole' /\ Unbound'
    BY <1>1, <2>1, <2>2, <2>3, WorkStep
  <2> QED
    BY <1>1, <2>4 DEF WorksInv, Works
<1> QED
  BY <1>2, <1>3 DEF Read

LEMMA StopWork == ASSUME WorksInv, NEW r \in Run, Stop(r) PROVE Sole' /\ Unbound' /\ Works'
<1>1. /\ Alive(r) /\ (End(r) \/ Goto(r, "end"))
      /\ UNCHANGED <<pointer, active, canceled, outlived>>
  BY DEF Stop, Outside, Provider, Job
<1> QED
  BY <1>1, EndWork

LEMMA BeginWork == ASSUME WorksInv, NEW r \in Run, BeginHandoff(r) PROVE Sole' /\ Unbound' /\ Works'
<1> DEFINE p    == run[r].ptr
           next == [state |-> "pending", pub |-> p.pub + 1, fence |-> run[r].token,
                    bound |-> NoPublication]
           condition == pointer.pub = p.pub /\ pointer.state # "revoked"
<1>1. run[r] \in RunState
  BY DEF WorksInv, CInv, CTypeOK
<1>2. next \in Pointer /\ next.bound = NoPublication
  BY <1>1 DEF RunState, Pointer
<1>3. Transact(r, condition, next, "execute") /\ Alive(r)
  BY DEF BeginHandoff, Alive
<1> HIDE DEF next, condition
<1>4. condition \in BOOLEAN
  BY DEF condition
<1> QED
  BY <1>2, <1>3, <1>4, TransactWork

\* The run binds the credential it has generated, and nobody generated another one since.
LEMMA BindWork == ASSUME WorksInv, NEW r \in Run, BindHandoff(r) PROVE Sole' /\ Unbound' /\ Works'
<1> DEFINE p    == run[r].ptr
           b    == run[r].publication
           next == [p EXCEPT !.bound = b]
           condition == Same(p) /\ pointer.state = "pending"
                        /\ pointer.bound \in {NoPublication, b}
<1>1. run[r] \in RunState /\ b \in Publication
  BY DEF WorksInv, CInv, CTypeOK, Prepared, BindHandoff
<1>2. next \in Pointer /\ next.bound = b
  BY <1>1 DEF RunState, Pointer
<1>3. Transact(r, condition, next, "create") /\ run[r].phase = "bind" /\ Alive(r)
  BY DEF BindHandoff, Alive
<1>4. ~outlived /\ ~canceled => b.key = active
  BY <1>3 DEF WorksInv, Unbound
<1> HIDE DEF next, condition
<1>5. condition \in BOOLEAN
  BY DEF condition
<1> QED
  BY <1>2, <1>3, <1>4, <1>5, TransactWork

\* The pointer is what the run has bound, or what it found bound.
LEMMA PublishWork == ASSUME WorksInv, NEW r \in Run, PublishHandoff(r) PROVE Sole' /\ Unbound' /\ Works'
<1> DEFINE p    == run[r].ptr
           next == [p EXCEPT !.state = "published"]
           condition == Same(p) /\ pointer.state \in {"pending", "published"}
                        /\ pointer.bound = p.bound
<1>1. run[r] \in RunState
  BY DEF WorksInv, CInv, CTypeOK
<1>2. next \in Pointer /\ next.bound = p.bound
  BY <1>1 DEF RunState, Pointer
<1>3. Transact(r, condition, next, "save") /\ Alive(r)
  BY DEF PublishHandoff, Alive
<1>4. condition /\ ~outlived /\ ~canceled /\ next.bound # NoPublication => next.bound.key = active
  BY <1>2 DEF WorksInv, Works
<1> HIDE DEF next, condition
<1>5. condition \in BOOLEAN
  BY DEF condition
<1> QED
  BY <1>2, <1>3, <1>4, <1>5, TransactWork

LEMMA RevokeWork == ASSUME WorksInv, NEW r \in Run, RevokeHandoff(r) PROVE Sole' /\ Unbound' /\ Works'
<1> DEFINE next == [run[r].ptr EXCEPT !.state = "revoked"]
           condition == Same(run[r].ptr)
<1>1. run[r] \in RunState /\ canceled
  BY DEF WorksInv, CInv, CTypeOK, Unbound, RevokeHandoff
<1>2. next \in Pointer
  BY <1>1 DEF RunState, Pointer
<1>3. Transact(r, condition, next, "turn_off") /\ Alive(r)
  BY DEF RevokeHandoff, Alive
<1> HIDE DEF next, condition
<1>4. condition \in BOOLEAN
  BY DEF condition, Same
<1> QED
  BY <1>1, <1>2, <1>3, <1>4, TransactWork

\* The provider forgets the credential it accepted, and the pointer names none.
LEMMA ExecuteWork == ASSUME WorksInv, NEW r \in Run, ExecuteStep(r) PROVE Sole' /\ Unbound' /\ Works'
<1> DEFINE b == [pub |-> run[r].ptr.pub, fence |-> run[r].ptr.fence, key |-> minted + 1]
           v == [run[r] EXCEPT !.phase = "bind", !.publication = b]
<1>1. /\ run[r] \in RunState /\ run[r].ptr.pub \in Nat /\ minted \in Nat
      /\ run[r].phase = "execute" /\ Alive(r)
      /\ UNCHANGED <<lease, pointer, canceled, outlived>>
      /\ run' = [run EXCEPT ![r] = v] /\ active' = minted + 1
  BY DEF WorksInv, CInv, CTypeOK, Prepared, ExecuteStep, Job, Become, Alive
<1>2. b \in Publication /\ b.key = minted + 1
  BY <1>1 DEF RunState, Pointer, Publication
<1>3. /\ v \in RunState /\ v.phase = "bind" /\ v.token = run[r].token /\ v.ptr = run[r].ptr
      /\ v.publication = b
  BY <1>1, <1>2 DEF RunState, Phase
<1> HIDE DEF b, v
<1>4. ~outlived => run[r].ptr.bound = NoPublication
  BY <1>1 DEF WorksInv, Unbound
<1>5. Sole' /\ Unbound'
  BY <1>1, <1>2, <1>3, <1>4, WorkStep
<1>6. ~outlived => pointer = run[r].ptr
  BY <1>1 DEF WorksInv, CInv, Sole, Synced, Writing
<1>7. Works'
  BY <1>1, <1>4, <1>6 DEF Works
<1> QED
  BY <1>5, <1>7

LEMMA CreateWork == ASSUME WorksInv, NEW r \in Run, CreateImmutable(r) PROVE Sole' /\ Unbound' /\ Works'
<1> DEFINE v == [run[r] EXCEPT !.phase = "publish", !.fenced = FALSE]
<1>1. /\ run[r] \in RunState /\ Alive(r) /\ run' = [run EXCEPT ![r] = v]
      /\ UNCHANGED <<lease, pointer, active, canceled, outlived>>
  BY DEF WorksInv, CInv, CTypeOK, CreateImmutable, Job, Provider, Alive, Goto, Become
<1>2. v \in RunState /\ v.phase = "publish" /\ v.token = run[r].token
  BY <1>1 DEF RunState, Phase
<1> HIDE DEF v
<1>3. Sole' /\ Unbound'
  BY <1>1, <1>2, WorkStep
<1> QED
  BY <1>1, <1>3 DEF WorksInv, Works

\* A tenant is turned off for a job that is compensated.
LEMMA TurnOffWork == ASSUME WorksInv, NEW r \in Run, CompensateJob(r) PROVE Sole' /\ Unbound' /\ Works'
<1> DEFINE v == [run[r] EXCEPT !.phase = "save", !.fenced = FALSE]
<1>1. /\ run[r] \in RunState /\ Alive(r) /\ canceled /\ run' = [run EXCEPT ![r] = v]
      /\ UNCHANGED <<lease, pointer, canceled, outlived>>
  BY DEF WorksInv, CInv, CTypeOK, Unbound, CompensateJob, Job, Alive, Goto, Become
<1>2. v \in RunState /\ v.phase = "save" /\ v.token = run[r].token
  BY <1>1 DEF RunState, Phase
<1> HIDE DEF v
<1>3. Sole' /\ Unbound'
  BY <1>1, <1>2, WorkStep
<1> QED
  BY <1>1, <1>3 DEF Works

LEMMA SaveWork == ASSUME WorksInv, NEW r \in Run, SaveStep(r) PROVE Sole' /\ Unbound' /\ Works'
<1>1. /\ run[r] \in RunState /\ Alive(r)
      /\ UNCHANGED <<pointer, active, canceled, outlived>>
  BY DEF WorksInv, CInv, CTypeOK, SaveStep, Outside, Provider, Alive
<1>2. CASE End(r)
  BY <1>1, <1>2, EndWork
<1>3. CASE Goto(r, "read") /\ UNCHANGED lease
  <2> DEFINE v == [run[r] EXCEPT !.phase = "read", !.fenced = FALSE]
  <2>1. v \in RunState /\ v.phase = "read" /\ v.token = run[r].token
    BY <1>1 DEF RunState, Phase
  <2>2. run' = [run EXCEPT ![r] = v] /\ lease' = lease
    BY <1>3 DEF Goto, Become
  <2> HIDE DEF v
  <2>3. Sole' /\ Unbound'
    BY <1>1, <2>1, <2>2, WorkStep
  <2> QED
    BY <1>1, <2>3 DEF WorksInv, Works
<1> QED
  BY <1>2, <1>3 DEF SaveStep

LEMMA WorkInductive == CSpec => []WorksInv
<1>1. WorksInv /\ [CNext]_cvars => WorksInv'
  <2> SUFFICES ASSUME WorksInv, [CNext]_cvars PROVE WorksInv'
    OBVIOUS
  <2>1. CInv'
    BY NextInv DEF WorksInv
  <2>2. CASE UNCHANGED cvars
    BY <2>1, <2>2 DEF cvars, WorksInv, Sole, Unbound, Works, Alive, Owns
  <2>3. CASE Cancel
    BY <2>1, <2>3 DEF Cancel, Outside, Provider, WorksInv, Sole, Unbound, Works, Alive, Owns
  <2>4. CASE Expire
    BY <2>1, <2>4, ExpireWork DEF WorksInv
  <2>5. ASSUME NEW r \in Run, Stop(r) PROVE WorksInv'
    BY <2>1, <2>5, StopWork DEF WorksInv
  <2>6. ASSUME NEW r \in Run, Moves(r) PROVE WorksInv'
    <3>1. Sole' /\ Unbound' /\ Works'
      BY <2>6, ClaimWork, FenceWork, ReadWork, BeginWork, BindWork, PublishWork, RevokeWork,
         ExecuteWork, CreateWork, TurnOffWork, SaveWork DEF Moves
    <3> QED
      BY <2>1, <3>1 DEF WorksInv
  <2> QED
    BY <2>2, <2>3, <2>4, <2>5, <2>6 DEF CNext
<1> QED
  BY <1>1, WorksInit, PTL DEF CSpec

\* The credential that is handed out is the one the provider accepts, for any number of
\* runs that die or fail, as long as none outlives its lease.
THEOREM WhatIsHandedOutWorks == CSpec => []HandedOutWorks
<1>1. WorksInv => HandedOutWorks
  <2> SUFFICES ASSUME WorksInv, pointer.state = "published", ~canceled, ~outlived
               PROVE  pointer.bound.key = active
    BY DEF HandedOutWorks
  <2>1. pointer.bound \in Publication
    BY DEF WorksInv, CInv, CTypeOK, Backed
  <2>2. pointer.bound # NoPublication
    BY <2>1 DEF Publication, NoPublication
  <2> QED
    BY <2>2 DEF WorksInv, Works
<1> QED
  BY <1>1, WorkInductive, PTL
------------------------------------------------------------------------------
(***************************************************************************)
(* A tenant with a deployment of its own, for any number of migrations,    *)
(* losses and changes of the subscription.  A call can be cut short after  *)
(* any request, and the next one starts from what is there.  What carries  *)
(* it: what a call has been through stays true until the call is answered  *)
(* (Done), because nobody else calls and a request that arrives late only  *)
(* repeats what was there; and what stands on something else is there only *)
(* after it (Built, Serving).                                              *)
(***************************************************************************)

\* A call goes through its stages in their order.
OnStage == call # NoCall => call.at \in 1..Len(Stages[call.op])

\* What a call has been through.
Past(stage) == ~Idle /\ \E i \in 1..(call.at - 1) : Stages[call.op][i] = stage

\* Whatever request for a project is under way carries the password that is stored.
Passwords ==
  /\ project.status # "absent" => project.pass = secret /\ secret # 0
  /\ At("project", 2) => call.held = secret /\ secret # 0
  /\ \A l \in late : l[1] = "project" => l[2] = secret /\ secret # 0

\* The ledger tells how far the schema has come, and a request asks for one of the
\* migrations.
Schema ==
  /\ ledger \subseteq 1..Migrations
  /\ schema = [m \in 1..Len(schema) |-> m]
  /\ ledger = 1..Len(schema)
  /\ At("migrations", 1) => call.held \in 1..Migrations
  /\ \A l \in late : l[1] = "migration" => l[2] \in 1..Migrations

\* What a call is made for.
Asked ==
  /\ call.op = "provision" => billing = "active" /\ saved.status \in Unknown
  /\ call.op \in {"reissueCredential", "resume"} =>
       billing = "active" /\ saved.status \in Known /\ saved.key = NoKey
  /\ call.op \in {"reissueCredential", "resume"} => (saved.resumed <=> call.op = "resume")
  /\ call.op = "markReady" => billing = "active" /\ saved.status = "provisioning" /\ saved.key # NoKey
  /\ call.op \in {"suspend", "suspendUnknown"} => billing = "past_due"
  /\ call.op \in {"disable", "compensateUnknown"} => billing = "canceled"
  /\ call.op \in {"suspend", "disable"} => saved.status \in Known
  /\ call.op \in {"suspendUnknown", "compensateUnknown"} => saved.status \in Unknown

\* What stands on what.
Built ==
  /\ stack.status # "absent" => project.status \notin {"absent", "coming_up"}
  /\ tenant.status # "absent" =>
       stack.status \notin {"absent", "creating", "create_failed"} /\ ledger = 1..Migrations
  /\ tenant.status \notin Running => tenant.key = NoKey
  /\ saved.status \in Known => tenant.status # "absent"
  /\ saved.status \in Unknown => saved.key = NoKey
  /\ billing # "canceled" => project.status \notin {"pausing", "inactive"}

\* A stack that was never stopped, and one that serves.
NeverStopped == stack.status = "absent" \/ (stack.signing /\ stack.status # "updating")
Serves       == Updatable /\ stack.signing

\* The stack is stopped only under a tenant that is turned off, and what was handed out
\* in this activation is served.
Serving ==
  /\ billing # "canceled" /\ tenant.status = "absent" => NeverStopped
  /\ billing = "active" /\ ~saved.resumed => NeverStopped
  /\ billing = "active" /\ saved.key # NoKey => Serves /\ tenant.key = saved.key

\* What a stage leaves behind, and for how long the call relies on it.
LeftBy(stage) ==
  /\ stage = "health" => project.status \notin {"absent", "coming_up"}
  /\ stage = "migrations" => ledger = 1..Migrations
  /\ stage = "stack" => stack.status = "complete"
  /\ stage = "tenant" => tenant.status # "absent"
  /\ stage = "enable" => Serves
  /\ stage = "mark" => tenant.status = "ready"
  /\ stage = "off" => /\ tenant.status \notin Running
                      /\ tenant.status = "absent" => billing = "canceled" \/ stack.status = "absent"
  /\ stage = "stop" => stack.status = "absent" \/ (~stack.signing /\ ~InProgress)
  /\ stage = "pause" => stack.status = "absent" \/ project.status = "inactive"

StageName == {"project", "health", "migrations", "stack", "tenant", "credential", "mark",
              "enable", "on", "lookup", "off", "stop", "pause", "save"}

Done ==
  /\ \A stage \in StageName : Past(stage) => LeftBy(stage)
  /\ call.key # NoKey => /\ Past("tenant") \/ Past("credential") \/ Past("on")
                         /\ tenant.key = call.key /\ Serves

DInv == DTypeOK /\ OnStage /\ Passwords /\ Schema /\ Asked /\ Built /\ Serving /\ Done

------------------------------------------------------------------------------
\* The stages of each call, written out.
LEMMA StagesAre ==
  /\ Stages["provision"] = <<"project", "health", "migrations", "stack", "tenant", "save">>
  /\ Stages["reissueCredential"] = <<"credential", "save">>
  /\ Stages["markReady"] = <<"mark", "save">>
  /\ Stages["resume"] = <<"health", "enable", "on", "save">>
  /\ Stages["suspend"] = <<"off", "stop", "save">>
  /\ Stages["disable"] = <<"off", "stop", "pause", "save">>
  /\ Stages["suspendUnknown"] = <<"lookup", "off", "stop", "save">>
  /\ Stages["compensateUnknown"] = <<"lookup", "off", "stop", "pause", "save">>
<1>1. /\ DOMAIN TurningOn = {"provision", "reissueCredential"}
      /\ DOMAIN KeptTenant = {"markReady", "resume", "suspend", "disable"}
  BY DEF TurningOn, KeptTenant
<1>2. \A op \in Op : Stages[op] = IF op \in {"provision", "reissueCredential"} THEN TurningOn[op]
          ELSE IF op \in {"markReady", "resume", "suspend", "disable"} THEN KeptTenant[op]
          ELSE UnknownTenant[op]
  BY <1>1 DEF Stages
<1> QED
  BY <1>2 DEF Op, TurningOn, KeptTenant, UnknownTenant

LEMMA CallFields ==
  ASSUME DTypeOK
  PROVE  /\ call.op \in Op \cup {"none"} /\ call.at \in 1..6 /\ call.step \in 0..2
         /\ call.held \in Nat /\ call.key \in Key
         /\ call = [op |-> call.op, at |-> call.at, step |-> call.step, held |-> call.held,
                    key |-> call.key]
         /\ Idle <=> call.op = "none"
BY DEF DTypeOK, Call, NoCall, Op, Idle, NoKey, Key

\* Whose stages they are, and what comes before each.
LEMMA StageOf ==
  ASSUME DTypeOK, OnStage, ~Idle
  PROVE  LET here == Stages[call.op][call.at]
         IN  /\ here = "project" => call.op = "provision"
             /\ here = "health" => call.op \in {"provision", "resume"}
             /\ here = "migrations" => call.op = "provision" /\ Past("health")
             /\ here = "stack" => call.op = "provision" /\ Past("health") /\ Past("migrations")
             /\ here = "tenant" => call.op = "provision" /\ Past("stack") /\ Past("health")
                                                         /\ Past("migrations")
             /\ here = "credential" => call.op = "reissueCredential"
             /\ here = "mark" => call.op = "markReady"
             /\ here = "enable" => call.op = "resume" /\ Past("health")
             /\ here = "on" => call.op = "resume" /\ Past("health") /\ Past("enable")
             /\ here = "lookup" => call.op \in {"suspendUnknown", "compensateUnknown"}
             /\ here = "off" => call.op \in {"suspend", "disable", "suspendUnknown", "compensateUnknown"}
             /\ here = "stop" =>
                  /\ call.op \in {"suspend", "disable", "suspendUnknown", "compensateUnknown"}
                  /\ Past("off")
             /\ here = "pause" => call.op \in {"disable", "compensateUnknown"}
                                  /\ Past("off") /\ Past("stop")
             /\ here = "save" =>
                  /\ call.op = "provision" => Past("tenant")
                  /\ call.op = "resume" => Past("enable")
                  /\ call.op = "markReady" => Past("mark")
                  /\ call.op \in {"suspend", "disable", "suspendUnknown", "compensateUnknown"} =>
                       Past("off") /\ Past("stop")
                  /\ call.op \in {"disable", "compensateUnknown"} => Past("pause")
<1>1. /\ call.op \in Op /\ call.at \in 1..Len(Stages[call.op])
  BY CallFields DEF OnStage, Idle
<1>2. CASE call.op = "provision"
  BY <1>1, <1>2, StagesAre DEF Past
<1>3. CASE call.op = "reissueCredential"
  BY <1>1, <1>3, StagesAre DEF Past
<1>4. CASE call.op = "markReady"
  BY <1>1, <1>4, StagesAre DEF Past
<1>5. CASE call.op = "resume"
  BY <1>1, <1>5, StagesAre DEF Past
<1>6. CASE call.op = "suspend"
  BY <1>1, <1>6, StagesAre DEF Past
<1>7. CASE call.op = "disable"
  BY <1>1, <1>7, StagesAre DEF Past
<1>8. CASE call.op = "suspendUnknown"
  BY <1>1, <1>8, StagesAre DEF Past
<1>9. CASE call.op = "compensateUnknown"
  BY <1>1, <1>9, StagesAre DEF Past
<1> QED
  BY <1>1, <1>2, <1>3, <1>4, <1>5, <1>6, <1>7, <1>8, <1>9 DEF Op

\* What a call has been through at a stage.
LEMMA PastAt ==
  ASSUME DTypeOK, OnStage, ~Idle, NEW stage, Past(stage)
  PROVE  LET here == Stages[call.op][call.at]
         IN  /\ here \notin {"credential", "mark", "lookup"}
             /\ here = "project" => FALSE
             /\ here = "health" => stage = "project"
             /\ here = "migrations" => stage \in {"project", "health"}
             /\ here = "stack" => stage \in {"project", "health", "migrations"}
             /\ here = "tenant" => stage \in {"project", "health", "migrations", "stack"}
             /\ here = "enable" => stage = "health"
             /\ here = "on" => stage \in {"health", "enable"}
             /\ here = "off" => stage = "lookup"
             /\ here = "stop" => stage \in {"lookup", "off"}
             /\ here = "pause" => stage \in {"lookup", "off", "stop"}
             /\ here = "save" =>
                  /\ stage = "tenant" => call.op = "provision"
                  /\ stage = "credential" => call.op = "reissueCredential"
                  /\ stage = "on" => call.op = "resume"
<1>1. /\ call.op \in Op /\ call.at \in 1..Len(Stages[call.op])
  BY CallFields DEF OnStage, Idle
<1>2. CASE call.op = "provision"
  BY <1>1, <1>2, StagesAre DEF Past
<1>3. CASE call.op = "reissueCredential"
  BY <1>1, <1>3, StagesAre DEF Past
<1>4. CASE call.op = "markReady"
  BY <1>1, <1>4, StagesAre DEF Past
<1>5. CASE call.op = "resume"
  BY <1>1, <1>5, StagesAre DEF Past
<1>6. CASE call.op = "suspend"
  BY <1>1, <1>6, StagesAre DEF Past
<1>7. CASE call.op = "disable"
  BY <1>1, <1>7, StagesAre DEF Past
<1>8. CASE call.op = "suspendUnknown"
  BY <1>1, <1>8, StagesAre DEF Past
<1>9. CASE call.op = "compensateUnknown"
  BY <1>1, <1>9, StagesAre DEF Past
<1> QED
  BY <1>1, <1>2, <1>3, <1>4, <1>5, <1>6, <1>7, <1>8, <1>9 DEF Op

\* A credential comes in the stage before the last.
LEMMA NotYetMinted ==
  ASSUME DInv, NEW stage \in StageName, NEW n, At(stage, n), stage # "save"
  PROVE  call.key = NoKey
<1>1. DTypeOK /\ OnStage /\ ~Idle /\ Stages[call.op][call.at] = stage
  BY DEF DInv, At
<1>2. ~Past("tenant") /\ ~Past("credential") /\ ~Past("on")
  BY <1>1, PastAt DEF StageName
<1> QED
  BY <1>2 DEF DInv, Done

\* Nothing comes after saving, and the last stage is that.
LEMMA LastStage ==
  ASSUME DTypeOK, OnStage, ~Idle
  PROVE  /\ Stages[call.op][call.at] # "save" => call.at + 1 \in 1..Len(Stages[call.op])
         /\ Len(Stages[call.op]) \in 1..6
         /\ Stages[call.op][Len(Stages[call.op])] = "save"
<1>1. /\ call.op \in Op /\ call.at \in 1..Len(Stages[call.op])
  BY CallFields DEF OnStage, Idle
<1>2. CASE call.op = "provision"
  BY <1>1, <1>2, StagesAre
<1>3. CASE call.op = "reissueCredential"
  BY <1>1, <1>3, StagesAre
<1>4. CASE call.op = "markReady"
  BY <1>1, <1>4, StagesAre
<1>5. CASE call.op = "resume"
  BY <1>1, <1>5, StagesAre
<1>6. CASE call.op = "suspend"
  BY <1>1, <1>6, StagesAre
<1>7. CASE call.op = "disable"
  BY <1>1, <1>7, StagesAre
<1>8. CASE call.op = "suspendUnknown"
  BY <1>1, <1>8, StagesAre
<1>9. CASE call.op = "compensateUnknown"
  BY <1>1, <1>9, StagesAre
<1> QED
  BY <1>1, <1>2, <1>3, <1>4, <1>5, <1>6, <1>7, <1>8, <1>9 DEF Op

------------------------------------------------------------------------------
\* What becomes of a call: it ends, it stays in its stage, or it goes on to the next.
Ended  == call' = NoCall
Staying == ~Idle /\ call' \in Call /\ call'.op = call.op /\ call'.at = call.at /\ call'.key = call.key
GoneOn == /\ ~Idle /\ Stages[call.op][call.at] # "save"
          /\ call' \in Call /\ call'.op = call.op /\ call'.at = call.at + 1 /\ call'.step = 0

LEMMA AfterEnd ==
  ASSUME Ended
  PROVE  /\ call' \in Call \cup {NoCall} /\ OnStage' /\ call'.op = "none" /\ call'.key = NoKey
         /\ \A stage : ~Past(stage)' /\ \A n : ~At(stage, n)'
BY DEF Ended, OnStage, NoCall, Past, Idle, At

LEMMA AfterStay ==
  ASSUME DTypeOK, OnStage, Staying
  PROVE  /\ call' \in Call \cup {NoCall} /\ OnStage' /\ call'.op = call.op /\ call'.key = call.key
         /\ \A stage : Past(stage)' <=> Past(stage)
<1>1. call # NoCall /\ call' # NoCall
  BY DEF Staying, Idle, Call, NoCall, Op
<1> QED
  BY <1>1 DEF Staying, OnStage, Past, Idle

LEMMA AfterGo ==
  ASSUME DTypeOK, OnStage, GoneOn
  PROVE  /\ call' \in Call \cup {NoCall} /\ OnStage' /\ call'.op = call.op
         /\ \A stage : Past(stage)' <=> Past(stage) \/ stage = Stages[call.op][call.at]
         /\ \A stage : \A n : n # 0 => ~At(stage, n)'
<1>1. call # NoCall /\ call' # NoCall /\ call.at \in 1..6
  BY CallFields DEF GoneOn, Idle, Call, NoCall, Op
<1>2. OnStage'
  BY <1>1, LastStage DEF GoneOn, OnStage
<1>3. ASSUME NEW stage
      PROVE  Past(stage)' <=> Past(stage) \/ stage = Stages[call.op][call.at]
  <2>1. 1..(call'.at - 1) = 1..(call.at - 1) \cup {call.at}
    BY <1>1 DEF GoneOn
  <2> QED
    BY <1>1, <2>1 DEF GoneOn, Past, Idle
<1> QED
  BY <1>1, <1>2, <1>3 DEF GoneOn, At

\* The outcomes of a request, as one of the three.
LEMMA NextIs ==
  ASSUME DTypeOK, OnStage, NEW stage, NEW n, At(stage, n), stage # "save"
  PROVE  /\ NextOne \in Call /\ (call' = NextOne => GoneOn)
         /\ n < 2 => Again \in Call /\ (call' = Again => Staying /\ call'.step = n + 1
                                                       /\ call'.held = call.held)
         /\ \A k \in Nat : n < 2 => /\ [Again EXCEPT !.held = k] \in Call
                /\ (call' = [Again EXCEPT !.held = k] => Staying /\ call'.step = n + 1 /\ call'.held = k)
<1>1. /\ ~Idle /\ call \in Call /\ call.step = n /\ n \in 0..2 /\ call.at \in 1..6
      /\ Stages[call.op][call.at] # "save"
  BY CallFields DEF At, DTypeOK, Idle
<1>2. call.at + 1 \in 1..6
  BY <1>1, LastStage, SMTT(40)
<1>3. NextOne \in Call /\ (call' = NextOne => GoneOn)
  <2>1. ASSUME NEW c \in Call, c.at + 1 \in 1..6
        PROVE  [c EXCEPT !.step = 0] \in Call /\ [c EXCEPT !.at = c.at + 1] \in Call
    BY <2>1 DEF Call
  <2>3. PICK c \in Call : c = [call EXCEPT !.step = 0]
    BY <1>1, <1>2, <2>1
  <2>4. NextOne = [c EXCEPT !.at = c.at + 1] /\ c.at = call.at
    BY <1>1, <2>3 DEF NextOne, Call
  <2>2. NextOne.op = call.op /\ NextOne.at = call.at + 1 /\ NextOne.step = 0
    BY <1>1 DEF NextOne, Call
  <2> QED
    BY <1>1, <1>2, <2>1, <2>2, <2>4 DEF GoneOn
<1>4. n < 2 => Again \in Call /\ (call' = Again => Staying /\ call'.step = n + 1
                                                       /\ call'.held = call.held)
  BY <1>1 DEF Again, Call, Staying
<1>5. ASSUME NEW k \in Nat, n < 2
      PROVE  /\ [Again EXCEPT !.held = k] \in Call
             /\ (call' = [Again EXCEPT !.held = k] => Staying /\ call'.step = n + 1 /\ call'.held = k)
  <2> DEFINE next == [Again EXCEPT !.held = k]
  <2>1. next \in Call
    BY <1>4, <1>5 DEF Call
  <2>2. /\ next.op = call.op /\ next.at = call.at /\ next.step = n + 1 /\ next.held = k
        /\ next.key = call.key
    BY <1>1 DEF Again, Call
  <2> QED
    BY <1>1, <2>1, <2>2 DEF Staying
<1> QED
  BY <1>3, <1>4, <1>5

------------------------------------------------------------------------------
\* Where nothing but the call moves.
LEMMA CallMoves ==
  ASSUME DInv, UNCHANGED <<outside, billing, saved, changes>>, losses' \in 0..MaxLosses,
         \/ Ended
         \/ /\ Staying
            /\ At("project", 2)' => call'.held = secret /\ secret # 0
            /\ At("migrations", 1)' => call'.held \in 1..Migrations
         \/ GoneOn /\ call'.key = call.key /\ LeftBy(Stages[call.op][call.at])
  PROVE  DInv'
<1>1. /\ call' \in Call \cup {NoCall} /\ OnStage' /\ call'.op \in {call.op, "none"}
      /\ call'.key # NoKey => call'.key = call.key /\ \A stage : Past(stage) => Past(stage)'
      /\ \A stage : Past(stage)' => Past(stage) \/ (GoneOn /\ stage = Stages[call.op][call.at])
      /\ At("project", 2)' => call'.held = secret /\ secret # 0
      /\ At("migrations", 1)' => call'.held \in 1..Migrations
  BY AfterEnd, AfterStay, AfterGo DEF DInv
<1>2. DTypeOK'
  BY <1>1 DEF DInv, DTypeOK, outside, database, rows
<1>3. Passwords' /\ Schema'
  BY <1>1 DEF DInv, Passwords, Schema, outside, database
<1>4. Asked' /\ Built' /\ Serving'
  BY <1>1 DEF DInv, Asked, Built, Serving, outside, database, rows, NeverStopped, Serves, Updatable
<1>5. ASSUME NEW stage \in StageName, Past(stage)' PROVE LeftBy(stage)'
  <2>1. LeftBy(stage)
    BY <1>1, <1>5, CallFields, AfterEnd, AfterStay, AfterGo DEF DInv, Done
  <2> QED
    BY <2>1 DEF LeftBy, outside, database, rows, Serves, Updatable, InProgress
<1>6. Done'
  BY <1>1, <1>5 DEF DInv, Done, outside, rows, Serves, Updatable
<1> QED
  BY <1>1, <1>2, <1>3, <1>4, <1>6 DEF DInv

\* Losses are counted.
LEMMA LossCounts ==
  ASSUME DTypeOK, UNCHANGED losses \/ Loss
  PROVE  losses' \in 0..MaxLosses
BY LossesAssumption DEF DTypeOK, Loss

LEMMA LostKeeps == ASSUME DInv, Lost PROVE DInv'
BY CallMoves, LossCounts DEF Lost, Quiet, Ended, DInv

\* The three outcomes of a stage that only looks: it ends the call, repeats, or
\* is done, in which case the stage is reached.
LEMMA Looks ==
  ASSUME DInv, NEW stage, NEW n, At(stage, n), stage # "save",
         UNCHANGED <<outside, billing, saved, changes>>, losses' \in 0..MaxLosses,
         \/ call' = NoCall
         \/ call' = Again /\ n < 2 /\ <<stage, n>> \notin {<<"project", 1>>, <<"migrations", 0>>}
         \/ call' = NextOne /\ LeftBy(stage)
  PROVE  DInv'
<1>1. DTypeOK /\ OnStage /\ ~Idle /\ stage = Stages[call.op][call.at] /\ call.step = n
  BY DEF DInv, At
<1>2. CASE call' = Again /\ n < 2 /\ <<stage, n>> \notin {<<"project", 1>>, <<"migrations", 0>>}
  <2>1. Staying /\ call'.step = n + 1
    BY <1>1, <1>2, NextIs
  <2>2. ~At("project", 2)' /\ ~At("migrations", 1)'
    BY <1>1, <1>2, <2>1, CallFields DEF At, Staying
  <2> QED
    BY <2>1, <2>2, CallMoves
<1>3. CASE call' = NextOne /\ LeftBy(stage)
  <2>1. GoneOn /\ call'.key = call.key
    BY <1>1, <1>3, NextIs, CallFields DEF NextOne
  <2> QED
    BY <1>1, <1>3, <2>1, CallMoves
<1> QED
  BY <1>2, <1>3, CallMoves DEF Ended

LEMMA FindProjectKeeps == ASSUME DInv, FindProject PROVE DInv'
<1>1. At("project", 0) /\ call' \in {Again, NextOne, NoCall} /\ LeftBy("project")
  BY DEF FindProject, Answers, LeftBy
<1> QED
  BY <1>1, Looks, LossCounts DEF FindProject, Answers, Quiet, DInv

LEMMA WaitForProjectHealthKeeps == ASSUME DInv, WaitForProjectHealth PROVE DInv'
<1>1. At("health", 0) /\ call' \in {NextOne, NoCall} /\ (call' = NextOne /\ call' # NoCall => Healthy)
  BY DEF WaitForProjectHealth, Answers, Throws
<1>2. Healthy => LeftBy("health")
  BY DEF Healthy, LeftBy
<1> QED
  BY <1>1, <1>2, Looks, LossCounts DEF WaitForProjectHealth, Answers, Throws, Quiet, DInv

LEMMA ReadLedgerKeeps == ASSUME DInv, ReadLedger PROVE DInv'
<1>1. /\ At("migrations", 0) /\ DTypeOK /\ OnStage
      /\ UNCHANGED <<outside, billing, saved, changes>> /\ losses' \in 0..MaxLosses
  BY LossCounts DEF ReadLedger, Answers, Throws, Quiet, DInv
<1>2. CASE call' = NoCall
  BY <1>1, <1>2, Looks
<1>3. CASE ledger = 1..Migrations /\ call' = NextOne
  BY <1>1, <1>3, Looks DEF LeftBy
<1>4. CASE ledger # 1..Migrations /\ call' = [Again EXCEPT !.held = Cardinality(ledger) + 1]
  <2>1. /\ Len(schema) \in Nat /\ ledger = 1..Len(schema) /\ ledger \subseteq 1..Migrations
        /\ Migrations \in Nat
    BY <1>1, MigrationsAssumption DEF DInv, Schema, DTypeOK
  <2>2. Cardinality(ledger) = Len(schema)
    BY <2>1, FS_Interval, SMTT(40)
  <2>3. Len(schema) + 1 \in 1..Migrations
    <3>1. Len(schema) <= Migrations
      <4>1. Len(schema) > 0 => Len(schema) \in 1..Len(schema)
        BY <2>1
      <4> QED
        BY <2>1, <4>1
    <3>2. Len(schema) # Migrations
      BY <1>4, <2>1
    <3> QED
      BY <2>1, <3>1, <3>2
  <2>4. Staying /\ call'.step = 1 /\ call'.held = Len(schema) + 1
    <3> DEFINE k == Len(schema) + 1
    <3>1. k \in Nat /\ call' = [Again EXCEPT !.held = k]
      BY <1>4, <2>1, <2>2
    <3>2. Staying /\ call'.step = 0 + 1 /\ call'.held = k
      BY <1>1, <3>1, NextIs, SMTT(40)
    <3> QED
      BY <3>2
  <2>5. ~At("project", 2)'
    BY <2>4 DEF At
  <2> QED
    BY <1>1, <2>3, <2>4, <2>5, CallMoves
<1> QED
  BY <1>2, <1>3, <1>4 DEF ReadLedger, Answers, Throws

LEMMA WaitForPauseKeeps == ASSUME DInv, WaitForPause PROVE DInv'
<1>1. /\ At("pause", 1) /\ call' \in {NextOne, NoCall}
      /\ call' # NoCall => LeftBy("pause")
  BY DEF WaitForPause, Answers, Throws, LeftBy
<1> QED
  BY <1>1, Looks, LossCounts DEF WaitForPause, Answers, Throws, Quiet, DInv

LEMMA WaitForReadyStackKeeps == ASSUME DInv, WaitForReadyStack PROVE DInv'
<1>1. /\ At("stack", 1) /\ call' \in {NextOne, NoCall}
      /\ call' # NoCall => LeftBy("stack")
  BY DEF WaitForReadyStack, WaitForStack, Answers, Throws, LeftBy
<1> QED
  BY <1>1, Looks, LossCounts DEF WaitForReadyStack, WaitForStack, Answers, Throws, Quiet, DInv

LEMMA WaitForEnabledKeeps == ASSUME DInv, WaitForEnabled PROVE DInv'
<1>1. /\ At("enable", 1) /\ call' \in {NextOne, NoCall}
      /\ call' # NoCall => LeftBy("enable")
  BY DEF WaitForEnabled, WaitForStack, Answers, Throws, LeftBy, Serves, Updatable
<1> QED
  BY <1>1, Looks, LossCounts DEF WaitForEnabled, WaitForStack, Answers, Throws, Quiet, DInv

LEMMA WaitForDisabledKeeps == ASSUME DInv, WaitForDisabled PROVE DInv'
<1>1. /\ At("stop", 1) /\ call' \in {NextOne, NoCall}
      /\ call' # NoCall => LeftBy("stop")
  BY DEF WaitForDisabled, WaitForStack, Answers, Throws, LeftBy, InProgress
<1> QED
  BY <1>1, Looks, LossCounts DEF WaitForDisabled, WaitForStack, Answers, Throws, Quiet, DInv

\* What is not there cannot sign: nothing is built on a project or a stack that is
\* missing.
LEMMA NothingToTurnOffKeeps == ASSUME DInv, NothingToTurnOff PROVE DInv'
<1>1. /\ At("off", 0) /\ call' \in {NextOne, NoCall}
  BY DEF NothingToTurnOff, Answers
<1>2. tenant.status \notin Running
  BY DEF NothingToTurnOff, NoTenantThere, DInv, Built, Running
<1>3. billing = "canceled"
  BY DEF NothingToTurnOff, NoTenantThere, DInv, Asked
<1> QED
  BY <1>1, <1>2, <1>3, Looks, LossCounts DEF NothingToTurnOff, Answers, Quiet, DInv, LeftBy

LEMMA LookupKeeps == ASSUME DInv, Lookup PROVE DInv'
<1> DEFINE found == {r \in {"project", "stack"} :
                       (IF r = "project" THEN project.status ELSE stack.status) # "absent"}
           last == [call EXCEPT !.at = Len(Stages[call.op])]
<1>1. /\ At("lookup", 0) /\ DTypeOK /\ OnStage /\ ~Idle
      /\ UNCHANGED <<outside, billing, saved, changes>> /\ losses' \in 0..MaxLosses
  BY LossCounts DEF Lookup, Answers, Throws, Quiet, DInv, At
<1>2. CASE call' = NoCall
  BY <1>1, <1>2, Looks
<1>3. CASE call' = NextOne
  BY <1>1, <1>3, Looks DEF LeftBy
<1>4. CASE found = {} /\ call' = last
  <2>1. /\ stack.status = "absent" /\ tenant.status = "absent"
    BY <1>4 DEF DInv, Built
  <2>2. /\ call' \in Call /\ call'.op = call.op /\ call'.key = call.key
        /\ call'.at = Len(Stages[call.op]) /\ Stages[call'.op][call'.at] = "save"
    BY <1>1, <1>4, LastStage, CallFields DEF Call, DTypeOK, Idle
  <2>3. call.op \in {"suspendUnknown", "compensateUnknown"}
    BY <1>1, StageOf DEF At
  <2>4. OnStage' /\ ~Idle'
    BY <2>2, <1>1, LastStage DEF OnStage, Idle, Call, NoCall, Op
  <2>5. ~At("project", 2)' /\ ~At("migrations", 1)'
    BY <2>2 DEF At
  <2>6. DTypeOK'
    BY <1>1, <2>2 DEF DTypeOK, outside, database, rows
  <2>7. Passwords' /\ Schema' /\ Asked' /\ Built' /\ Serving'
    BY <1>1, <2>2, <2>5 DEF DInv, Passwords, Schema, Asked, Built, Serving, NeverStopped, Serves,
                            Updatable, outside, database, rows
  <2>8. ASSUME NEW stage \in StageName, Past(stage)' PROVE LeftBy(stage)'
    <3>1. stage \in {"lookup", "off", "stop", "pause"}
      BY <2>2, <2>3, <2>8, StagesAre, SMTT(40) DEF Past
    <3> QED
      BY <1>1, <2>1, <3>1 DEF LeftBy, Running, outside, rows
  <2>9. Done'
    BY <1>1, <2>2, <2>8, NotYetMinted DEF Done, StageName
  <2> QED
    BY <2>4, <2>6, <2>7, <2>9 DEF DInv
<1> QED
  BY <1>2, <1>3, <1>4 DEF Lookup, Answers, Throws

------------------------------------------------------------------------------
(***************************************************************************)
(* The caller.                                                             *)
(***************************************************************************)
LEMMA InitKeeps == DInit => DInv
<1> SUFFICES ASSUME DInit PROVE DInv
  OBVIOUS
<1>1. DTypeOK
  BY MigrationsAssumption, LossesAssumption
     DEF DInit, DTypeOK, NoTenant, Tenant, TenantStatus, Saved, Unknown, Known, Key, NoKey
<1>2. Idle /\ call.op = "none" /\ call.key = NoKey
  BY DEF DInit, Idle, NoCall
<1>3. Schema
  <2>1. \A m \in 1..Len(schema) : FALSE
    BY DEF DInit
  <2>2. schema = [m \in 1..Len(schema) |-> m]
    BY <2>1 DEF DInit
  <2> QED
    BY <1>2, <2>1, <2>2 DEF DInit, Schema, At
<1>4. OnStage /\ Passwords /\ Asked
  BY <1>2 DEF DInit, OnStage, Passwords, At, Asked, Idle
<1>5. Built /\ Serving
  BY DEF DInit, Built, Serving, NoTenant, Running, Known, Unknown, NeverStopped
<1>6. Done
  BY <1>2 DEF Done, Past
<1> QED
  BY <1>1, <1>3, <1>4, <1>5, <1>6 DEF DInv

LEMMA BillKeeps ==
  ASSUME DInv, NEW b \in {"active", "past_due", "canceled"}, Bill(b) PROVE DInv'
<1>1. /\ call = NoCall /\ call' = NoCall /\ UNCHANGED <<outside, losses>>
      /\ call.op = "none" /\ billing # "canceled" /\ billing' = b
  BY DEF Bill, Idle, NoCall
<1>2. /\ saved' \in Saved /\ saved'.status = saved.status
      /\ saved'.key \in {saved.key, NoKey}
      /\ b = "active" => saved'.key = NoKey /\ saved'.resumed
  <2>1. saved \in Saved /\ NoKey \in Key
    BY DEF DInv, DTypeOK, NoKey, Key
  <2>2. CASE b # "active"
    BY <2>1, <2>2 DEF Bill
  <2>3. CASE b = "active"
    <3>1. saved' = [status |-> saved.status, key |-> NoKey, resumed |-> TRUE]
      BY <2>1, <2>3 DEF Bill, Saved
    <3> QED
      BY <2>1, <3>1 DEF Saved
  <2> QED
    BY <2>2, <2>3
<1>3. changes' \in 0..MaxChanges
  BY LossesAssumption DEF Bill, DInv, DTypeOK
<1>4. DTypeOK'
  BY <1>1, <1>2, <1>3 DEF DInv, DTypeOK, outside, database, rows
<1>5. OnStage' /\ Passwords' /\ Schema' /\ Asked' /\ Done'
  BY <1>1, AfterEnd
     DEF DInv, OnStage, Passwords, Schema, Asked, Done, Ended, outside, database, rows
<1>6. Built' /\ Serving'
  BY <1>1, <1>2 DEF DInv, Built, Serving, NeverStopped, outside, database, rows
<1> QED
  BY <1>4, <1>5, <1>6 DEF DInv

LEMMA BeginKeeps == ASSUME DInv, NEW op \in Op, Begin(op) PROVE DInv'
<1>1. /\ UNCHANGED <<outside, billing, saved, losses, changes>> /\ Wanted(op)
      /\ call' = [op |-> op, at |-> 1, step |-> 0, held |-> 0, key |-> NoKey]
  BY DEF Begin, NoCall
<1>2. /\ call' \in Call /\ call'.op = op /\ call'.at = 1 /\ call'.key = NoKey /\ call'.step = 0
      /\ call' # NoCall
  BY <1>1 DEF Call, Key, NoKey, NoCall, Op
<1>3. DTypeOK'
  BY <1>1, <1>2 DEF DInv, DTypeOK, outside, database, rows
<1>4. OnStage'
  BY <1>2, StagesAre, SMTT(40) DEF OnStage, Op
<1>5. /\ \A stage : ~Past(stage)'
      /\ ~At("project", 2)' /\ ~At("migrations", 1)'
  BY <1>2 DEF Past, At
<1>6. Asked'
  <2>1. saved.status \in Known \cup Unknown
    BY DEF DInv, DTypeOK, Saved
  <2> QED
    BY <1>1, <1>2, <2>1 DEF Asked, Wanted, Known, Unknown
<1>7. Passwords' /\ Schema' /\ Built' /\ Serving' /\ Done'
  BY <1>1, <1>2, <1>5 DEF DInv, Passwords, Schema, Built, Serving, Done, NeverStopped, Serves,
                          Updatable, outside, database, rows
<1> QED
  BY <1>3, <1>4, <1>6, <1>7 DEF DInv

\* What is saved is what the call answered.
LEMMA SaveIs ==
  ASSUME DInv, Save
  PROVE  /\ At("save", 0) /\ call.op \in Op /\ call' = NoCall /\ UNCHANGED <<outside, billing, changes>>
         /\ losses' \in 0..MaxLosses
         /\ saved' \in Saved /\ saved'.resumed = saved.resumed
         /\ saved'.key = saved.key \/ (call.key # NoKey /\ saved'.key = call.key)
         /\ saved'.status =
              CASE call.op \in {"provision", "resume"} -> "provisioning"
                [] call.op = "reissueCredential" -> saved.status
                [] call.op = "markReady" -> "ready"
                [] call.op = "suspend" -> "suspended"
                [] call.op = "disable" -> "disabled"
                [] call.op = "suspendUnknown" -> "unknown_suspended"
                [] OTHER -> "unknown_disabled"
<1> DEFINE status == CASE call.op \in {"provision", "resume"} -> "provisioning"
                [] call.op = "reissueCredential" -> saved.status
                [] call.op = "markReady" -> "ready"
                [] call.op = "suspend" -> "suspended"
                [] call.op = "disable" -> "disabled"
                [] call.op = "suspendUnknown" -> "unknown_suspended"
                [] OTHER -> "unknown_disabled"
<1>1. /\ At("save", 0) /\ call' = NoCall /\ UNCHANGED <<outside, billing, changes>>
      /\ UNCHANGED losses \/ Loss
      /\ \/ saved' = [saved EXCEPT !.status = status,
                       !.key = IF call.key = NoKey THEN @ ELSE call.key]
         \/ saved' = [saved EXCEPT !.status = status]
  BY DEF Save
<1>2. /\ saved \in Saved /\ call.key \in Key /\ call.op \in Op
  BY <1>1, CallFields DEF DInv, DTypeOK, At
<1>3. status \in Unknown \cup Known
  BY <1>2 DEF Unknown, Known, Saved
<1> HIDE DEF status
<1>4. CASE saved' = [saved EXCEPT !.status = status]
  BY <1>1, <1>2, <1>3, <1>4, LossCounts DEF Saved, status, DInv
<1>5. CASE saved' = [saved EXCEPT !.status = status,
                       !.key = IF call.key = NoKey THEN @ ELSE call.key]
  <2>1. saved' = [status |-> status, key |-> IF call.key = NoKey THEN saved.key ELSE call.key,
                  resumed |-> saved.resumed]
    BY <1>2, <1>5 DEF Saved
  <2> QED
    BY <1>1, <1>2, <1>3, <2>1, LossCounts DEF Saved, status, DInv
<1> QED
  BY <1>1, <1>4, <1>5

LEMMA SaveKeeps == ASSUME DInv, Save PROVE DInv'
<1>1. /\ call' = NoCall /\ UNCHANGED <<outside, billing, changes>>
      /\ ~Idle /\ DTypeOK /\ OnStage /\ Stages[call.op][call.at] = "save" /\ call.op \in Op
      /\ saved.status \in Unknown \cup Known
  BY SaveIs DEF DInv, DTypeOK, At, Saved
<1>2. DTypeOK'
  BY <1>1, SaveIs DEF DTypeOK, outside, database, rows
<1>3. OnStage' /\ Passwords' /\ Schema' /\ Asked' /\ Done'
  BY <1>1, AfterEnd
     DEF DInv, OnStage, Passwords, Schema, Asked, Done, Ended, outside, database, rows
<1>4. call.op = "provision" => tenant.status # "absent"
  BY <1>1, StageOf DEF DInv, Done, LeftBy, StageName
<1>5. call.key # NoKey => /\ tenant.key = call.key /\ Serves
                          /\ call.op \in {"provision", "reissueCredential", "resume"}
  BY <1>1, PastAt DEF DInv, Done
<1>6. Built'
  <2>1. saved'.status \in Known => tenant.status # "absent"
    BY <1>1, <1>4, SaveIs DEF DInv, Asked, Built, Op, Known, Unknown
  <2>2. saved'.status \in Unknown => saved'.key = NoKey
    BY <1>1, <1>5, SaveIs DEF DInv, Asked, Built, Op, Known, Unknown
  <2> QED
    BY <1>1, <2>1, <2>2 DEF DInv, Built, outside, database, rows
<1>7. Serving'
  BY <1>1, <1>5, SaveIs DEF DInv, Serving, NeverStopped, Serves, Updatable, outside, database, rows
<1> QED
  BY <1>2, <1>3, <1>6, <1>7 DEF DInv

------------------------------------------------------------------------------
(***************************************************************************)
(* Project and database.                                                   *)
(***************************************************************************)
\* The call while the outside moves: the parts of the invariant that are about it.
LEMMA CallKeeps ==
  ASSUME DInv, UNCHANGED <<billing, saved, changes>>, losses' \in 0..MaxLosses,
         \/ Ended \/ Staying \/ (GoneOn /\ call'.key = call.key) \/ UNCHANGED call
  PROVE  /\ call' \in Call \cup {NoCall} /\ OnStage' /\ Asked'
         /\ \A stage : Past(stage)' => Past(stage) \/ (GoneOn /\ stage = Stages[call.op][call.at])
         /\ call'.key # NoKey => call'.key = call.key /\ \A stage : Past(stage) => Past(stage)'
         /\ UNCHANGED call => \A stage, n : At(stage, n)' <=> At(stage, n)
<1> DEFINE Keeps == /\ call' \in Call \cup {NoCall} /\ OnStage' /\ Asked'
                    /\ \A stage : Past(stage)' =>
                         Past(stage) \/ (GoneOn /\ stage = Stages[call.op][call.at])
                    /\ call'.key # NoKey =>
                         call'.key = call.key /\ \A stage : Past(stage) => Past(stage)'
<1>0. ASSUME UNCHANGED call PROVE \A stage, n : At(stage, n)' <=> At(stage, n)
  BY <1>0 DEF Idle, At
<1>1. ASSUME UNCHANGED call PROVE Keeps
  <2>1. call' \in Call \cup {NoCall} /\ OnStage' /\ Asked'
    BY <1>1 DEF DInv, DTypeOK, OnStage, Asked
  <2>2. \A stage : Past(stage)' <=> Past(stage)
    BY <1>1 DEF Past, Idle
  <2> QED
    BY <1>1, <2>1, <2>2
<1>2. ASSUME Ended PROVE Keeps
  BY <1>2, AfterEnd DEF DInv, Asked
<1>3. ASSUME Staying PROVE Keeps
  BY <1>3, AfterStay DEF DInv, Asked
<1>4. ASSUME GoneOn, call'.key = call.key PROVE Keeps
  BY <1>4, AfterGo DEF DInv, Asked
<1>5. Keeps
  BY <1>1, <1>2, <1>3, <1>4
<1> QED
  BY <1>0, <1>5

LEMMA PasswordKeeps == ASSUME DInv, Password PROVE DInv'
<1>1. /\ At("project", 1) /\ DTypeOK /\ OnStage /\ losses' \in 0..MaxLosses
      /\ UNCHANGED <<project, database, stack, rows, billing, saved, changes>>
      /\ secret' = IF secret = 0 THEN 1 ELSE secret
      /\ call' \in {[Again EXCEPT !.held = secret'], NoCall}
  BY LossCounts DEF Password, Quiet, Answers, DInv
<1>2. secret' \in Nat /\ secret' # 0 /\ (secret # 0 => secret' = secret)
  BY <1>1 DEF DTypeOK
<1>3. Ended \/ (Staying /\ call'.step = 2 /\ call'.held = secret')
  <2> DEFINE k == secret'
  <2>1. k \in Nat
    BY <1>2
  <2>2. call' = [Again EXCEPT !.held = k] => Staying /\ call'.step = 1 + 1 /\ call'.held = k
    <3> HIDE DEF k
    <3> QED
      BY <1>1, <2>1, NextIs
  <2> QED
    BY <1>1, <2>2 DEF Ended
<1>4. ~At("migrations", 1)'
  BY <1>3, AfterEnd DEF At
<1>5. At("project", 2)' => call'.held = secret'
  BY <1>3, AfterEnd
<1>6. DTypeOK'
  BY <1>1, <1>2, <1>3, CallKeeps DEF DTypeOK, database, rows
<1>7. Passwords' /\ Schema'
  BY <1>1, <1>2, <1>4, <1>5 DEF DInv, Passwords, Schema, database
<1>8. Built' /\ Serving'
  BY <1>1 DEF DInv, Built, Serving, NeverStopped, Serves, Updatable, database, rows
<1>9. Done'
  BY <1>1, <1>3, CallKeeps, AfterEnd, AfterStay
     DEF DInv, Done, LeftBy, Serves, Updatable, InProgress, GoneOn, database, rows
<1> QED
  BY <1>1, <1>3, <1>6, <1>7, <1>8, <1>9, CallKeeps DEF DInv

\* A project that is made, by a request of this call or of an earlier one.
LEMMA ProjectMade ==
  ASSUME DInv, NEW p, p = secret, secret # 0, Create(p),
         UNCHANGED <<secret, schema, ledger, stack, rows, billing, saved, changes>>,
         late' \subseteq late, losses' \in 0..MaxLosses,
         \/ Ended
         \/ GoneOn /\ call'.key = call.key /\ Stages[call.op][call.at] = "project"
         \/ UNCHANGED call
  PROVE  DInv'
<1>1. /\ project' \in [status : {"absent", "coming_up", "healthy", "pausing", "inactive"},
                       pass : Nat]
      /\ project.status # "absent" => project' = project
      /\ project.status = "absent" => project'.status = "coming_up"
      /\ project'.pass = secret
      /\ secret \in Nat
  BY DEF Create, DInv, DTypeOK, Passwords
<1>2. DTypeOK'
  BY <1>1, CallKeeps DEF DInv, DTypeOK, rows
<1>3. /\ At("project", 2)' => call'.held = secret
      /\ At("migrations", 1)' => call'.held \in 1..Migrations
  <2>1. CASE UNCHANGED call
    <3>1. \A stage, n : At(stage, n)' <=> At(stage, n)
      BY <2>1, CallKeeps
    <3>2. /\ At("project", 2) => call.held = secret
          /\ At("migrations", 1) => call.held \in 1..Migrations
      BY DEF DInv, Passwords, Schema
    <3> QED
      BY <2>1, <3>1, <3>2
  <2>2. CASE Ended
    BY <2>2, AfterEnd
  <2>3. CASE GoneOn
    BY <2>3, AfterGo DEF DInv
  <2> QED
    BY <2>1, <2>2, <2>3
<1>4. Passwords' /\ Schema'
  BY <1>1, <1>3 DEF DInv, Passwords, Schema
<1>5. Built' /\ Serving'
  BY <1>1 DEF DInv, Built, Serving, NeverStopped, Serves, Updatable, rows
<1>6. ASSUME NEW stage \in StageName, Past(stage)' PROVE LeftBy(stage)'
  <2>1. LeftBy(stage)
    <3>1. Past(stage) \/ stage = "project"
      <4>1. CASE UNCHANGED call
        BY <4>1, <1>6 DEF Past, Idle
      <4>2. CASE Ended
        BY <4>2, <1>6, AfterEnd
      <4>3. CASE GoneOn /\ Stages[call.op][call.at] = "project"
        BY <4>3, <1>6, AfterGo DEF DInv
      <4> QED
        BY <4>1, <4>2, <4>3
    <3> QED
      BY <3>1 DEF DInv, Done, LeftBy
  <2>2. stage = "pause" => stack.status = "absent" \/ project.status # "absent"
    BY DEF DInv, Built
  <2> QED
    BY <1>1, <2>1, <2>2 DEF LeftBy, Serves, Updatable, InProgress, rows
<1>7. Done'
  BY <1>6, CallKeeps DEF DInv, Done, Serves, Updatable, rows
<1> QED
  BY <1>2, <1>4, <1>5, <1>7, CallKeeps DEF DInv

\* A request nobody waits for.
LEMMA GivenUp ==
  ASSUME DInv, NEW what \in {"project", "migration"}, late' = late \cup {<<what, call.held>>},
         call' = NoCall, losses' \in 0..MaxLosses,
         UNCHANGED <<secret, project, schema, ledger, stack, rows, billing, saved, changes>>,
         what = "project" => call.held = secret /\ secret # 0,
         what = "migration" => call.held \in 1..Migrations
  PROVE  DInv'
<1>1. Ended /\ call.held \in Nat
  BY CallFields DEF Ended, DInv
<1>2. DTypeOK'
  BY <1>1 DEF DInv, DTypeOK, rows
<1>3. Passwords' /\ Schema'
  <2>1. \A stage, n : ~At(stage, n)'
    BY <1>1, AfterEnd
  <2>2. ASSUME NEW l \in late'
        PROVE  /\ l[1] = "project" => l[2] = secret /\ secret # 0
               /\ l[1] = "migration" => l[2] \in 1..Migrations
    <3>1. CASE l \in late
      BY <3>1 DEF DInv, Passwords, Schema
    <3>2. CASE l = <<what, call.held>>
      BY <3>2
    <3> QED
      BY <3>1, <3>2
  <2> QED
    BY <2>1, <2>2 DEF DInv, Passwords, Schema
<1>4. Built' /\ Serving' /\ Done'
  BY <1>1, AfterEnd DEF DInv, Built, Serving, NeverStopped, Serves, Updatable, Done, rows
<1> QED
  BY <1>1, <1>2, <1>3, <1>4, CallKeeps DEF DInv

LEMMA CreateProjectKeeps == ASSUME DInv, CreateProject PROVE DInv'
<1>1. /\ At("project", 2) /\ DTypeOK /\ OnStage
      /\ UNCHANGED <<secret, stack, rows, billing, saved, changes>>
      /\ call.held = secret /\ secret # 0
  BY DEF CreateProject, Quiet, DInv, Passwords
<1>2. CASE Create(call.held) /\ Answers(NextOne) /\ UNCHANGED database
  <2>1. Ended \/ (GoneOn /\ call'.key = call.key /\ Stages[call.op][call.at] = "project")
    BY <1>1, <1>2, NextIs, CallFields DEF Answers, Ended, At, NextOne
  <2> QED
    BY <1>1, <1>2, <2>1, ProjectMade, LossCounts DEF Answers, database
<1>3. CASE GiveUp("project") /\ UNCHANGED <<project, schema, ledger>>
  BY <1>1, <1>3, GivenUp, LossCounts DEF GiveUp
<1> QED
  BY <1>2, <1>3 DEF CreateProject

LEMMA LateProjectKeeps == ASSUME DInv, LateProject PROVE DInv'
<1>1. PICK p \in late : p[1] = "project" /\ Create(p[2]) /\ late' = late \ {p}
  BY DEF LateProject
<1>2. p[2] = secret /\ secret # 0 /\ losses' \in 0..MaxLosses
  BY <1>1 DEF LateProject, DInv, Passwords, DTypeOK
<1> QED
  BY <1>1, <1>2, ProjectMade DEF LateProject, caller

\* A migration goes through in its turn.
LEMMA SameLength ==
  ASSUME NEW n \in Nat, NEW k \in Nat, 1..n = 1..k PROVE n = k
<1>1. (n # 0 => n \in 1..n) /\ (k # 0 => k \in 1..k)
  OBVIOUS
<1> QED
  BY <1>1

LEMMA ApplyIs ==
  ASSUME DTypeOK, Schema, NEW m \in 1..Migrations, Apply(m)
  PROVE  /\ schema' \in Seq(1..Migrations) /\ ledger' \subseteq 1..Migrations
         /\ schema' = [k \in 1..Len(schema') |-> k]
         /\ ledger' = 1..Len(schema')
         /\ ledger = 1..Migrations => ledger' = ledger
<1>1. /\ schema \in Seq(1..Migrations) /\ Len(schema) \in Nat /\ Migrations \in Nat /\ m \in Nat
      /\ ledger = 1..Len(schema) /\ schema = [k \in 1..Len(schema) |-> k]
  BY MigrationsAssumption DEF DTypeOK, Schema
<1>2. CASE ledger = 1..(m - 1)
  <2>1. schema' = Append(schema, m) /\ ledger' = ledger \cup {m}
    BY <1>2 DEF Apply
  <2>2. m = Len(schema) + 1
    <3>1. 1..Len(schema) = 1..(m - 1) /\ m - 1 \in Nat
      BY <1>1, <1>2
    <3>2. Len(schema) = m - 1
      BY <1>1, <3>1, SameLength
    <3> QED
      BY <1>1, <3>2
  <2>3. Len(schema') = m /\ schema' \in Seq(1..Migrations)
    BY <1>1, <2>1, <2>2
  <2>4. \A k \in 1..m : schema'[k] = k
    BY <1>1, <2>1, <2>2
  <2>5. schema' = [k \in 1..m |-> k]
    <3>1. schema' = [k \in 1..Len(schema') |-> schema'[k]]
      BY <2>3
    <3> QED
      BY <2>3, <2>4, <3>1
  <2>6. ledger' = 1..m
    BY <1>1, <2>1, <2>2
  <2>7. ledger # 1..Migrations
    <3>1. m \in 1..Migrations /\ m \notin 1..(m - 1)
      BY <1>1
    <3> QED
      BY <1>2, <3>1
  <2>8. 1..m \subseteq 1..Migrations
    BY <1>1
  <2> QED
    BY <2>3, <2>5, <2>6, <2>7, <2>8
<1>3. CASE ledger # 1..(m - 1)
  BY <1>1, <1>3 DEF Apply
<1> QED
  BY <1>2, <1>3

LEMMA MigrationMade ==
  ASSUME DInv, NEW m \in 1..Migrations, Apply(m),
         UNCHANGED <<secret, project, stack, rows, billing, saved, changes>>,
         late' \subseteq late, losses' \in 0..MaxLosses,
         Ended \/ (Staying /\ call'.step = 0) \/ UNCHANGED call
  PROVE  DInv'
<1>1. /\ schema' \in Seq(1..Migrations) /\ ledger' \subseteq 1..Migrations
      /\ schema' = [k \in 1..Len(schema') |-> k]
      /\ ledger' = 1..Len(schema')
      /\ ledger = 1..Migrations => ledger' = ledger
  BY ApplyIs DEF DInv
<1>2. DTypeOK'
  BY <1>1, CallKeeps DEF DInv, DTypeOK, rows
<1>3. /\ At("project", 2)' => call'.held = secret /\ secret # 0
      /\ At("migrations", 1)' => call'.held \in 1..Migrations
  <2>1. CASE UNCHANGED call
    <3>1. \A stage, n : At(stage, n)' <=> At(stage, n)
      BY <2>1, CallKeeps
    <3>2. /\ At("project", 2) => call.held = secret /\ secret # 0
          /\ At("migrations", 1) => call.held \in 1..Migrations
      BY DEF DInv, Passwords, Schema
    <3> QED
      BY <2>1, <3>1, <3>2
  <2>2. CASE Ended
    BY <2>2, AfterEnd
  <2>3. CASE Staying /\ call'.step = 0
    BY <2>3, SMTT(40) DEF At
  <2> QED
    BY <2>1, <2>2, <2>3
<1>4. Passwords' /\ Schema'
  BY <1>1, <1>3 DEF DInv, Passwords, Schema
<1>5. Built' /\ Serving'
  BY <1>1 DEF DInv, Built, Serving, NeverStopped, Serves, Updatable, rows
<1>6. ASSUME NEW stage \in StageName, Past(stage)' PROVE LeftBy(stage)'
  <2>1. Past(stage)
    <3>1. CASE UNCHANGED call
      BY <3>1, <1>6 DEF Past, Idle
    <3>2. CASE Ended
      BY <3>2, <1>6, AfterEnd
    <3>3. CASE Staying
      BY <3>3, <1>6, AfterStay DEF DInv
    <3> QED
      BY <3>1, <3>2, <3>3
  <2> QED
    BY <1>1, <2>1 DEF DInv, Done, LeftBy, Serves, Updatable, InProgress, rows
<1>7. Done'
  BY <1>6, CallKeeps DEF DInv, Done, Serves, Updatable, rows
<1> QED
  BY <1>2, <1>4, <1>5, <1>7, CallKeeps DEF DInv

LEMMA ApplyMigrationKeeps == ASSUME DInv, ApplyMigration PROVE DInv'
<1>1. /\ At("migrations", 1) /\ DTypeOK /\ OnStage /\ call.held \in 1..Migrations
      /\ UNCHANGED <<secret, project, stack, rows, billing, saved, changes>>
  BY DEF ApplyMigration, Quiet, DInv, Schema
<1>2. CASE Apply(call.held) /\ Answers([call EXCEPT !.step = 0]) /\ UNCHANGED late
  <2>1. Ended \/ (Staying /\ call'.step = 0)
    BY <1>1, <1>2, CallFields, SMTT(40) DEF Answers, Ended, Staying, Call, At, DTypeOK, Idle
  <2> QED
    BY <1>1, <1>2, <2>1, MigrationMade, LossCounts DEF Answers
<1>3. CASE GiveUp("migration") /\ UNCHANGED <<schema, ledger>>
  BY <1>1, <1>3, GivenUp, LossCounts DEF GiveUp
<1> QED
  BY <1>2, <1>3 DEF ApplyMigration

LEMMA LateMigrationKeeps == ASSUME DInv, LateMigration PROVE DInv'
<1>1. PICK l \in late : l[1] = "migration" /\ Apply(l[2]) /\ late' = late \ {l}
  BY DEF LateMigration
<1>2. l[2] \in 1..Migrations /\ losses' \in 0..MaxLosses
  BY <1>1 DEF LateMigration, DInv, Schema, DTypeOK
<1> QED
  BY <1>1, <1>2, MigrationMade DEF LateMigration, caller

------------------------------------------------------------------------------
(***************************************************************************)
(* The services, and the stack.                                            *)
(***************************************************************************)
LEMMA ProjectMovesKeeps == ASSUME DInv, ProjectMoves PROVE DInv'
<1>1. /\ UNCHANGED <<secret, schema, ledger, late, stack, tenant, keys, billing, saved, call, losses,
                     changes>>
      /\ project' \in [status : {"absent", "coming_up", "healthy", "pausing", "inactive"},
                       pass : Nat]
      /\ project'.pass = project.pass
      /\ \/ project.status = "coming_up" /\ project'.status = "healthy"
         \/ project.status = "pausing" /\ project'.status = "inactive"
  BY DEF ProjectMoves, DInv, DTypeOK, database, rows, caller
<1>2. DTypeOK'
  BY <1>1 DEF DInv, DTypeOK
<1>3. Passwords' /\ Schema' /\ OnStage' /\ Asked'
  BY <1>1 DEF DInv, Passwords, Schema, OnStage, Asked, At, Idle
<1>4. Built' /\ Serving'
  BY <1>1 DEF DInv, Built, Serving, NeverStopped, Serves, Updatable
<1>5. Done'
  BY <1>1 DEF DInv, Done, Past, Idle, LeftBy, Serves, Updatable, InProgress
<1> QED
  BY <1>2, <1>3, <1>4, <1>5 DEF DInv

LEMMA StackSettlesKeeps == ASSUME DInv, StackSettles PROVE DInv'
<1>1. /\ UNCHANGED <<secret, project, schema, ledger, late, tenant, keys, billing, saved, call, changes>>
      /\ losses' \in 0..MaxLosses
      /\ stack' \in [status : {"absent", "creating", "create_failed", "updating", "rolled_back",
                               "complete"}, signing : BOOLEAN]
      /\ stack.status \in {"creating", "updating"}
      /\ \/ stack'.status = "complete" /\ stack'.signing = stack.signing
         \/ stack.status = "creating" /\ stack'.status = "create_failed"
              /\ stack'.signing = stack.signing
         \/ stack.status = "updating" /\ stack'.status = "rolled_back"
  <2>1. /\ UNCHANGED <<secret, project, schema, ledger, late, tenant, keys, billing, saved, call, changes>>
        /\ losses' \in 0..MaxLosses /\ stack.status \in {"creating", "updating"}
    BY LossCounts DEF StackSettles, InProgress, DInv, database, rows, caller
  <2>2. stack \in [status : {"absent", "creating", "create_failed", "updating", "rolled_back",
                            "complete"}, signing : BOOLEAN]
    BY DEF DInv, DTypeOK
  <2>3. \/ stack' = [stack EXCEPT !.status = "complete"]
        \/ stack.status = "creating" /\ stack' = [stack EXCEPT !.status = "create_failed"]
        \/ /\ stack.status = "updating"
           /\ \E on \in BOOLEAN : stack' = [status |-> "rolled_back", signing |-> on]
    <3>1. (~stack.signing) \in BOOLEAN
      OBVIOUS
    <3> QED
      BY <2>1, <3>1 DEF StackSettles
  <2>4. CASE \E on \in BOOLEAN : stack' = [status |-> "rolled_back", signing |-> on]
    BY <2>1, <2>2, <2>3, <2>4
  <2>5. CASE stack' = [stack EXCEPT !.status = "complete"]
    BY <2>1, <2>2, <2>5
  <2>6. CASE stack.status = "creating" /\ stack' = [stack EXCEPT !.status = "create_failed"]
    BY <2>1, <2>2, <2>6
  <2> QED
    BY <2>3, <2>4, <2>5, <2>6
<1>2. DTypeOK'
  BY <1>1 DEF DInv, DTypeOK
<1>3. Passwords' /\ Schema' /\ OnStage' /\ Asked'
  BY <1>1 DEF DInv, Passwords, Schema, OnStage, Asked, At, Idle
<1>4. Built' /\ Serving'
  BY <1>1 DEF DInv, Built, Serving, NeverStopped, Serves, Updatable
<1>5. ASSUME NEW stage \in StageName, Past(stage)' PROVE LeftBy(stage)'
  <2>1. LeftBy(stage)
    BY <1>1, <1>5 DEF DInv, Done, Past, Idle
  <2> QED
    BY <1>1, <2>1 DEF LeftBy, Serves, Updatable, InProgress
<1>6. Done'
  BY <1>1, <1>5 DEF DInv, Done, Past, Idle, Serves, Updatable
<1> QED
  BY <1>2, <1>3, <1>4, <1>6 DEF DInv

LEMMA PauseProjectKeeps == ASSUME DInv, PauseProject PROVE DInv'
<1>1. /\ At("pause", 0) /\ DTypeOK /\ OnStage /\ ~Idle /\ Stages[call.op][call.at] = "pause"
      /\ UNCHANGED <<secret, schema, ledger, late, stack, tenant, keys, billing, saved, changes>>
      /\ losses' \in 0..MaxLosses
      /\ project' = IF project.status = "healthy" THEN [project EXCEPT !.status = "pausing"] ELSE project
      /\ \/ call' = NoCall
         \/ call' = Again /\ project.status \notin {"absent", "inactive"}
         \/ call' = NextOne /\ project.status \in {"absent", "inactive"}
  BY LossCounts DEF PauseProject, Quiet, Answers, DInv, At, Healthy, database, rows
<1>2. /\ project' \in [status : {"absent", "coming_up", "healthy", "pausing", "inactive"},
                       pass : Nat]
      /\ project'.pass = project.pass
      /\ project' = project \/ (project.status = "healthy" /\ project'.status = "pausing")
  BY <1>1 DEF DTypeOK
<1>3. billing = "canceled"
  BY <1>1, StageOf DEF DInv, Asked
<1>4. /\ \/ Ended
         \/ Staying /\ call'.step = 1
         \/ GoneOn /\ call'.key = call.key /\ project.status \in {"absent", "inactive"}
  <2>1. CASE call' = NextOne
    BY <1>1, <2>1, NextIs, CallFields DEF Ended, NextOne
  <2>2. CASE call' = Again
    BY <1>1, <2>2, NextIs
  <2> QED
    BY <1>1, <2>1, <2>2 DEF Ended
<1>5. DTypeOK'
  BY <1>1, <1>2, <1>4, CallKeeps DEF DTypeOK
<1>6. ~At("project", 2)' /\ ~At("migrations", 1)'
  <2>1. CASE Ended
    BY <2>1, AfterEnd
  <2>2. CASE Staying /\ call'.step = 1
    BY <1>1, <2>2 DEF Staying, At
  <2>3. CASE GoneOn
    BY <1>1, <2>3, AfterGo
  <2> QED
    BY <1>4, <2>1, <2>2, <2>3
<1>7. Passwords' /\ Schema'
  BY <1>1, <1>2, <1>6 DEF DInv, Passwords, Schema
<1>8. Built' /\ Serving'
  BY <1>1, <1>2, <1>3 DEF DInv, Built, Serving
<1>9. ASSUME NEW stage \in StageName, Past(stage)' PROVE LeftBy(stage)'
  <2>1. Past(stage) \/ (GoneOn /\ stage = "pause")
    BY <1>1, <1>4, <1>9, CallKeeps
  <2>2. CASE Past(stage)
    <3>1. stage \in {"lookup", "off", "stop"} /\ LeftBy(stage)
      BY <1>1, <2>2, PastAt DEF DInv, Done
    <3> QED
      BY <1>1, <3>1 DEF LeftBy, InProgress
  <2>3. CASE GoneOn /\ stage = "pause"
    <3>1. project.status \in {"absent", "inactive"} /\ project' = project
      BY <1>1, <1>2, <1>4, <2>3, AfterEnd, AfterGo, <1>9, CallFields DEF Staying, GoneOn
    <3> QED
      BY <1>1, <2>3, <3>1 DEF LeftBy, DInv, Built
  <2> QED
    BY <2>1, <2>2, <2>3
<1>10. Done'
  <2>1. call.key = NoKey /\ call'.key = NoKey
    BY <1>1, <1>4, NotYetMinted, CallKeeps DEF StageName
  <2> QED
    BY <1>9, <2>1 DEF Done
<1> QED
  BY <1>1, <1>4, <1>5, <1>7, <1>8, <1>10, CallKeeps DEF DInv

\* A stack that begins to change under a call.
LEMMA StackMoved ==
  ASSUME DInv, NEW here \in {"stack", "enable", "stop"}, NEW n, At(here, n),
         UNCHANGED <<secret, project, schema, ledger, late, tenant, keys, billing, saved, changes>>,
         losses' \in 0..MaxLosses, Ended \/ (Staying /\ call'.step = 1),
         stack' \in [status : {"creating", "updating"}, signing : BOOLEAN],
         here = "stack" => stack.status = "absent" /\ stack'.status = "creating" /\ stack'.signing,
         here # "stack" => stack.status \in {"complete", "rolled_back"} /\ stack'.status = "updating"
  PROVE  DInv'
<1>1. DTypeOK /\ OnStage /\ ~Idle /\ Stages[call.op][call.at] = here /\ here \in StageName
  BY DEF DInv, At, StageName
<1>2. DTypeOK'
  BY CallKeeps DEF DInv, DTypeOK
<1>3. ~At("project", 2)' /\ ~At("migrations", 1)'
  BY <1>1, AfterEnd DEF Staying, At
<1>4. Passwords' /\ Schema'
  BY <1>3 DEF DInv, Passwords, Schema
<1>5. call.key = NoKey /\ call'.key = NoKey
  BY <1>1, NotYetMinted, CallKeeps, AfterEnd DEF Staying
<1>6. CASE here = "stack"
  <2>1. project.status \notin {"absent", "coming_up"}
    BY <1>1, <1>6, StageOf DEF DInv, Done, StageName, LeftBy
  <2>2. tenant.status = "absent" /\ saved.status \notin Known
    BY <1>6 DEF DInv, Built
  <2>3. Built' /\ Serving'
    BY <1>6, <2>1, <2>2 DEF DInv, Built, Serving, NeverStopped, Serves, Updatable, Running, DTypeOK, Saved
  <2>4. ASSUME NEW stage \in StageName, Past(stage)' PROVE LeftBy(stage)'
    <3>1. stage \in {"project", "health", "migrations"} /\ LeftBy(stage)
      BY <1>1, <1>6, <2>4, PastAt, AfterEnd, AfterStay DEF DInv, Done
    <3> QED
      BY <3>1 DEF LeftBy
  <2>5. Done'
    BY <1>5, <2>4 DEF Done
  <2> QED
    BY <1>2, <1>4, <2>3, <2>5, CallKeeps DEF DInv
<1>7. CASE here = "enable"
  <2>1. /\ billing = "active" /\ saved.resumed /\ saved.key = NoKey /\ tenant.status # "absent"
    BY <1>1, <1>7, StageOf DEF DInv, Asked, Built
  <2>2. Built' /\ Serving'
    BY <1>7, <2>1 DEF DInv, Built, Serving
  <2>3. ASSUME NEW stage \in StageName, Past(stage)' PROVE LeftBy(stage)'
    <3>1. stage = "health" /\ LeftBy(stage)
      BY <1>1, <1>7, <2>3, PastAt, AfterEnd, AfterStay DEF DInv, Done
    <3> QED
      BY <3>1 DEF LeftBy
  <2>4. Done'
    BY <1>5, <2>3 DEF Done
  <2> QED
    BY <1>2, <1>4, <2>2, <2>4, CallKeeps DEF DInv
<1>8. CASE here = "stop"
  <2>1. /\ billing # "active" /\ LeftBy("off")
    BY <1>1, <1>8, StageOf DEF DInv, Asked, Done, StageName
  <2>2. tenant.status = "absent" => billing = "canceled"
    BY <1>8, <2>1 DEF LeftBy
  <2>3. Built' /\ Serving'
    BY <1>8, <2>1, <2>2 DEF DInv, Built, Serving
  <2>4. ASSUME NEW stage \in StageName, Past(stage)' PROVE LeftBy(stage)'
    <3>1. stage \in {"lookup", "off"} /\ LeftBy(stage)
      BY <1>1, <1>8, <2>4, PastAt, AfterEnd, AfterStay DEF DInv, Done
    <3> QED
      BY <2>2, <3>1 DEF LeftBy
  <2>5. Done'
    BY <1>5, <2>4 DEF Done
  <2> QED
    BY <1>2, <1>4, <2>3, <2>5, CallKeeps DEF DInv
<1> QED
  BY <1>6, <1>7, <1>8

LEMMA CreateStackKeeps == ASSUME DInv, CreateStack PROVE DInv'
<1>1. /\ At("stack", 0) /\ DTypeOK /\ OnStage
      /\ UNCHANGED <<secret, project, schema, ledger, late, tenant, keys, billing, saved, changes>>
      /\ losses' \in 0..MaxLosses /\ call' \in {Again, NoCall}
      /\ stack' = IF stack.status # "absent" THEN stack
                  ELSE [status |-> "creating", signing |-> TRUE]
  BY LossCounts DEF CreateStack, Quiet, Answers, DInv, database, rows
<1>2. CASE stack.status # "absent"
  BY <1>1, <1>2, Looks DEF outside, database, rows
<1>3. CASE stack.status = "absent"
  <2>1. Ended \/ (Staying /\ call'.step = 1)
    BY <1>1, NextIs DEF Ended
  <2> QED
    BY <1>1, <1>3, <2>1, StackMoved
<1> QED
  BY <1>2, <1>3

\* A stack that is told to sign, or to stop.
LEMMA SetSigningKeeps ==
  ASSUME DInv, NEW here, NEW on \in BOOLEAN,
         <<here, on>> \in {<<"enable", TRUE>>, <<"stop", FALSE>>},
         At(here, 0), SetSigning(on)
  PROVE  DInv'
<1>1. /\ DTypeOK /\ OnStage /\ here \in {"enable", "stop"} /\ here # "save"
      /\ UNCHANGED <<secret, project, schema, ledger, late, tenant, keys, billing, saved, changes>>
      /\ losses' \in 0..MaxLosses
  BY LossCounts DEF SetSigning, Answers, Throws, Quiet, DInv, database, rows
<1>2. CASE call' = NoCall /\ UNCHANGED stack
  BY <1>1, <1>2, Looks DEF outside, database, rows
<1>3. CASE /\ stack.status # "absent" /\ ~InProgress /\ stack.signing = on
           /\ call' = NextOne /\ UNCHANGED stack
  <2>1. LeftBy(here)
    <3>1. here = "enable" => tenant.status # "absent"
      BY <1>1, StageOf DEF DInv, Asked, Built, At
    <3> QED
      BY <1>1, <1>3, <3>1 DEF DInv, Built, LeftBy, Serves, Updatable, InProgress, DTypeOK
  <2> QED
    BY <1>1, <1>3, <2>1, Looks DEF outside, database, rows
<1>4. CASE /\ Updatable /\ call' \in {Again, NoCall}
           /\ stack' = [status |-> "updating", signing |-> on]
  <2>1. Ended \/ (Staying /\ call'.step = 1)
    BY <1>1, <1>4, NextIs DEF Ended
  <2> QED
    BY <1>1, <1>4, <2>1, StackMoved DEF Updatable
<1> QED
  BY <1>2, <1>3, <1>4 DEF SetSigning, Answers, Throws

LEMMA EnableStackKeeps == ASSUME DInv, EnableStack PROVE DInv'
BY SetSigningKeeps DEF EnableStack

LEMMA DisableStackKeeps == ASSUME DInv, DisableStack PROVE DInv'
<1>1. At("stop", 0)
  BY DEF DisableStack
<1>2. CASE SetSigning(FALSE)
  BY <1>1, <1>2, SetSigningKeeps
<1>3. CASE Dispensable /\ Answers(NextOne) /\ Quiet /\ UNCHANGED outside
  <2>1. LeftBy("stop") /\ call' \in {NextOne, NoCall} /\ losses' \in 0..MaxLosses
    BY <1>3, LossCounts DEF Dispensable, LeftBy, Answers, DInv
  <2> QED
    BY <1>1, <1>3, <2>1, Looks DEF Quiet
<1> QED
  BY <1>2, <1>3 DEF DisableStack

------------------------------------------------------------------------------
(***************************************************************************)
(* The tenant.                                                             *)
(***************************************************************************)
LEMMA FreshIs == DTypeOK => Fresh \in Key /\ Fresh # NoKey /\ NoKey \in Key
BY DEF DTypeOK, Fresh, Key, NoKey

\* What a statement may do to the tenant at the stages that have one.
LEMMA TenantMoved ==
  ASSUME DInv, NEW here \in {"tenant", "credential", "mark", "on", "off"}, At(here, 0),
         UNCHANGED <<secret, project, schema, ledger, late, stack, billing, saved, changes>>,
         losses' \in 0..MaxLosses,
         tenant' \in Tenant, keys' \in Nat,
         tenant'.status # "absent",
         here # "tenant" => tenant.status # "absent",
         tenant'.status \notin Running => tenant'.key = NoKey,
         tenant'.key # tenant.key => billing # "active" \/ saved.key = NoKey,
         NEW k \in Key,
         \/ call' = NoCall
         \/ /\ call' = [NextOne EXCEPT !.key = k] /\ LeftBy(here)'
            /\ k # NoKey => here \in {"tenant", "credential", "on"} /\ tenant'.key = k /\ Serves
  PROVE  DInv'
<1>1. /\ DTypeOK /\ OnStage /\ ~Idle /\ Stages[call.op][call.at] = here /\ here \in StageName
      /\ here # "save" /\ call.key = NoKey
  BY NotYetMinted DEF DInv, At, StageName
<1>2. CASE call' = NoCall
  <2>1. DTypeOK'
    BY <1>1, <1>2 DEF DTypeOK
  <2>2. Ended
    BY <1>2 DEF Ended
  <2>3. Passwords' /\ Schema' /\ OnStage' /\ Asked' /\ Done'
    BY <2>2, AfterEnd DEF DInv, Passwords, Schema, OnStage, Asked, Done
  <2>4. stack.status \notin {"absent", "creating", "create_failed"} /\ ledger = 1..Migrations
    BY <1>1, StageOf DEF DInv, Built, Done, StageName, LeftBy
  <2>5. Built' /\ Serving'
    <3>1. Built'
      BY <2>4 DEF DInv, Built
    <3>2. NeverStopped' = NeverStopped /\ Serves' = Serves
      BY DEF NeverStopped, Serves, Updatable
    <3>3. Serving'
      BY <3>2 DEF DInv, Serving
    <3> QED
      BY <3>1, <3>3
  <2> QED
    BY <2>1, <2>3, <2>5 DEF DInv
<1>3. CASE /\ call' = [NextOne EXCEPT !.key = k] /\ LeftBy(here)'
           /\ k # NoKey => here \in {"tenant", "credential", "on"} /\ tenant'.key = k /\ Serves
  <2>1. /\ NextOne \in Call /\ NextOne.op = call.op /\ NextOne.at = call.at + 1 /\ NextOne.step = 0
    BY <1>1, NextIs, CallFields DEF NextOne
  <2>2. /\ GoneOn /\ call'.key = k
    BY <1>1, <1>3, <2>1 DEF GoneOn, Call
  <2>3. /\ call' \in Call \cup {NoCall} /\ OnStage' /\ call'.op = call.op
        /\ \A stage : Past(stage)' <=> Past(stage) \/ stage = here
        /\ ~At("project", 2)' /\ ~At("migrations", 1)'
    BY <1>1, <2>2, AfterGo
  <2>4. DTypeOK' /\ Passwords' /\ Schema' /\ Asked'
    BY <1>1, <2>3 DEF DInv, DTypeOK, Passwords, Schema, Asked
  <2>5. stack.status \notin {"absent", "creating", "create_failed"} /\ ledger = 1..Migrations
    BY <1>1, StageOf DEF DInv, Built, Done, StageName, LeftBy
  <2>6. Built' /\ Serving'
    <3>1. Built'
      BY <2>5 DEF DInv, Built
    <3>2. NeverStopped' = NeverStopped /\ Serves' = Serves
      BY DEF NeverStopped, Serves, Updatable
    <3>3. Serving'
      BY <3>2 DEF DInv, Serving
    <3> QED
      BY <3>1, <3>3
  <2>7. ASSUME NEW stage \in StageName, Past(stage)' PROVE LeftBy(stage)'
    <3>1. CASE stage = here
      BY <1>3, <3>1
    <3>2. CASE Past(stage)
      <4>1. LeftBy(stage) /\ stage \in {"project", "health", "migrations", "stack", "enable", "lookup"}
        BY <1>1, <3>2, PastAt DEF DInv, Done
      <4> QED
        BY <4>1 DEF LeftBy, Serves, Updatable
    <3> QED
      BY <2>3, <2>7, <3>1, <3>2
  <2>8. Done'
    BY <1>3, <2>2, <2>3, <2>7 DEF Done, Serves, Updatable
  <2> QED
    BY <2>3, <2>4, <2>6, <2>8 DEF DInv
<1> QED
  BY <1>2, <1>3

\* A statement is carried out or not, and answered or not.
LEMMA StatementIs ==
  ASSUME DInv, NEW here, NEW answer, Statement(here, answer)
  PROVE  /\ At(here, 0) /\ losses' \in 0..MaxLosses
         /\ UNCHANGED <<secret, project, schema, ledger, late, stack, billing, saved, changes>>
         /\ \/ call' = NoCall /\ UNCHANGED rows
            \/ /\ Healthy
               /\ tenant' = answer.tenant
               /\ keys' = IF answer.minted THEN keys + 1 ELSE keys
               /\ \/ call' = NoCall
                  \/ /\ answer.ok
                     /\ call' = [NextOne EXCEPT !.key = IF answer.minted THEN answer.key ELSE @]
<1>1. At(here, 0) /\ losses' \in 0..MaxLosses
  BY LossCounts DEF Statement, Answers, Throws, DInv
<1> QED
  BY <1>1 DEF Statement, Answers, Throws, Quiet, database, rows

\* Nothing carried out, or a refusal.
LEMMA NothingDone ==
  ASSUME DInv, NEW here, here # "save", At(here, 0), losses' \in 0..MaxLosses, call' = NoCall,
         UNCHANGED <<secret, project, schema, ledger, late, stack, billing, saved, changes>>,
         UNCHANGED <<tenant, keys>>
  PROVE  DInv'
BY Looks DEF outside, database, rows

LEMMA ProvisionTenantKeeps == ASSUME DInv, ProvisionTenant PROVE DInv'
<1> DEFINE answer ==
       CASE tenant.status = "absent" ->
           Answer([status |-> "provisioning", billing |-> "active", key |-> Fresh],
                  "provisioning", Fresh, TRUE)
      [] tenant.status \in {"provisioning", "ready"} ->
           [Answer([tenant EXCEPT !.billing = "active"], tenant.status, tenant.key, FALSE)
              EXCEPT !.ok = tenant.status = "provisioning"]
      [] OTHER -> Refused(tenant)
<1>1. Statement("tenant", answer)
  BY DEF ProvisionTenant
<1>2. /\ At("tenant", 0) /\ losses' \in 0..MaxLosses
      /\ UNCHANGED <<secret, project, schema, ledger, late, stack, billing, saved, changes>>
      /\ \/ call' = NoCall /\ UNCHANGED rows
         \/ /\ tenant' = answer.tenant
            /\ keys' = IF answer.minted THEN keys + 1 ELSE keys
            /\ \/ call' = NoCall
               \/ /\ answer.ok
                  /\ call' = [NextOne EXCEPT !.key = IF answer.minted THEN answer.key ELSE @]
  BY <1>1, StatementIs
<1> HIDE DEF answer
<1>3. /\ tenant \in Tenant /\ keys \in Nat /\ call.key = NoKey /\ NextOne.key = call.key
      /\ billing = "active" /\ saved.key = NoKey /\ stack.status = "complete"
      /\ Fresh \in Key /\ Fresh # NoKey /\ NoKey \in Key /\ DTypeOK
  BY <1>2, StageOf, NotYetMinted, FreshIs, CallFields
     DEF At, DInv, DTypeOK, StageName, Asked, Built, Done, LeftBy, NextOne
<1>4. CASE call' = NoCall /\ UNCHANGED rows
  BY <1>2, <1>4, NothingDone DEF rows
<1>5. CASE tenant.status = "absent" /\ ~(call' = NoCall /\ UNCHANGED rows)
  <2>1. /\ answer.tenant = [status |-> "provisioning", billing |-> "active", key |-> Fresh]
        /\ answer.minted /\ answer.key = Fresh /\ answer.ok
    BY <1>5 DEF answer, Answer
  <2>2. /\ tenant' \in Tenant /\ tenant'.status = "provisioning" /\ tenant'.key = Fresh /\ keys' \in Nat
    BY <1>2, <1>3, <1>5, <2>1 DEF Tenant, TenantStatus
  <2>3. Serves
    BY <1>3, <1>5 DEF DInv, Serving, NeverStopped, Serves, Updatable
  <2>4. call' = NoCall \/ (call' = [NextOne EXCEPT !.key = Fresh] /\ LeftBy("tenant")')
    BY <1>2, <1>5, <2>1, <2>2 DEF LeftBy
  <2> QED
    BY <1>2, <1>3, <2>2, <2>3, <2>4, TenantMoved DEF Running
<1>6. CASE tenant.status \in {"provisioning", "ready"} /\ ~(call' = NoCall /\ UNCHANGED rows)
  <2>1. /\ answer.tenant = [tenant EXCEPT !.billing = "active"] /\ answer.minted = FALSE
    BY <1>6 DEF answer, Answer
  <2>2. /\ tenant' \in Tenant /\ tenant'.status = tenant.status /\ tenant'.key = tenant.key /\ keys' = keys
    BY <1>2, <1>3, <1>6, <2>1 DEF Tenant
  <2>3. call' = NoCall \/ (call' = [NextOne EXCEPT !.key = NoKey] /\ LeftBy("tenant")')
    BY <1>2, <1>3, <1>6, <2>1, <2>2 DEF LeftBy
  <2> QED
    BY <1>2, <1>3, <1>6, <2>2, <2>3, TenantMoved DEF Running
<1>7. CASE tenant.status \in {"suspended", "disabled"} /\ ~(call' = NoCall /\ UNCHANGED rows)
  <2>1. answer.tenant = tenant /\ answer.minted = FALSE /\ answer.ok = FALSE
    BY <1>7 DEF answer, Answer, Refused
  <2> QED
    BY <1>2, <1>7, <2>1, NothingDone DEF rows
<1> QED
  BY <1>3, <1>4, <1>5, <1>6, <1>7 DEF Tenant, TenantStatus

\* A credential that replaces one.
LEMMA Renewed ==
  ASSUME DInv, NEW here \in {"credential", "on"}, NEW answer, Statement(here, answer),
         \/ answer.tenant = tenant /\ answer.minted = FALSE /\ answer.ok = FALSE
         \/ /\ answer.tenant \in Tenant /\ answer.tenant.status \in Running
            /\ answer.tenant.key = Fresh /\ answer.minted = TRUE /\ answer.key = Fresh
  PROVE  DInv'
<1>1. /\ At(here, 0) /\ losses' \in 0..MaxLosses /\ here # "save"
      /\ UNCHANGED <<secret, project, schema, ledger, late, stack, billing, saved, changes>>
      /\ \/ call' = NoCall /\ UNCHANGED rows
         \/ /\ tenant' = answer.tenant
            /\ keys' = IF answer.minted THEN keys + 1 ELSE keys
            /\ \/ call' = NoCall
               \/ /\ answer.ok
                  /\ call' = [NextOne EXCEPT !.key = IF answer.minted THEN answer.key ELSE @]
  BY StatementIs
<1>2. /\ keys \in Nat /\ saved.key = NoKey /\ billing = "active" /\ tenant.status # "absent"
      /\ Fresh \in Key /\ Fresh # NoKey /\ DTypeOK /\ OnStage /\ ~Idle
      /\ call.op \in {"reissueCredential", "resume"}
  BY <1>1, StageOf, FreshIs DEF At, DInv, DTypeOK, Asked, Built
<1>3. Serves
  <2>1. CASE here = "on"
    BY <1>1, <1>2, <2>1, StageOf DEF DInv, Done, StageName, LeftBy, At
  <2>2. CASE here = "credential"
    <3>1. ~saved.resumed
      BY <1>1, <1>2, <2>2, StageOf DEF DInv, Asked, At
    <3> QED
      BY <1>2, <3>1 DEF DInv, Serving, NeverStopped, Serves, Updatable, Built, DTypeOK
  <2> QED
    BY <2>1, <2>2
<1>4. CASE (call' = NoCall /\ UNCHANGED rows) \/ (answer.tenant = tenant /\ answer.minted = FALSE
                                                    /\ answer.ok = FALSE)
  BY <1>1, <1>4, NothingDone DEF rows
<1>5. CASE /\ ~(call' = NoCall /\ UNCHANGED rows)
           /\ answer.tenant \in Tenant /\ answer.tenant.status \in Running
           /\ answer.tenant.key = Fresh /\ answer.minted = TRUE /\ answer.key = Fresh
  <2>1. call' = NoCall \/ (call' = [NextOne EXCEPT !.key = Fresh] /\ LeftBy(here)')
    BY <1>1, <1>5 DEF LeftBy
  <2>2. tenant' = answer.tenant /\ keys' \in Nat /\ tenant'.status # "absent"
    BY <1>1, <1>2, <1>5 DEF Running
  <2> QED
    BY <1>1, <1>2, <1>3, <1>5, <2>1, <2>2, TenantMoved
<1> QED
  BY <1>4, <1>5

LEMMA ReissueCredentialKeeps == ASSUME DInv, ReissueCredential PROVE DInv'
<1> DEFINE answer == ReissueAs(tenant, saved, Fresh)
<1>1. Statement("credential", answer)
  BY DEF ReissueCredential
<1>2. tenant \in Tenant /\ Fresh \in Key
  BY FreshIs DEF DInv, DTypeOK
<1>3. CASE saved.status \in Running /\ tenant.status \in Running
  <2> DEFINE renewed == [tenant EXCEPT !.key = Fresh]
  <2>1. Reissue(tenant, Fresh) = Answer(renewed, tenant.status, Fresh, TRUE)
    BY <1>3 DEF Reissue
  <2>2. answer = [Answer(renewed, tenant.status, Fresh, TRUE) EXCEPT !.status = saved.status]
    BY <1>3, <2>1 DEF ReissueAs, Answer
  <2>3. answer.tenant = renewed /\ answer.minted = TRUE /\ answer.key = Fresh
    BY <2>2 DEF Answer
  <2>4. renewed \in Tenant /\ renewed.status = tenant.status /\ renewed.key = Fresh
    BY <1>2 DEF Tenant
  <2> HIDE DEF answer
  <2> QED
    BY <1>1, <1>3, <2>3, <2>4, Renewed
<1>4. CASE ~(saved.status \in Running /\ tenant.status \in Running)
  <2>1. Reissue(tenant, Fresh).ok => tenant.status \in Running
    BY DEF Reissue, Refused, Answer
  <2>2. answer = Refused(tenant)
    BY <1>4, <2>1 DEF ReissueAs
  <2>3. answer.tenant = tenant /\ answer.minted = FALSE /\ answer.ok = FALSE
    BY <2>2 DEF Refused, Answer
  <2> HIDE DEF answer
  <2> QED
    BY <1>1, <2>3, Renewed
<1> QED
  BY <1>3, <1>4

LEMMA ResumeTenantKeeps == ASSUME DInv, ResumeTenant PROVE DInv'
<1> DEFINE answer == Resume(tenant, saved, Fresh)
<1>1. Statement("on", answer)
  BY DEF ResumeTenant
<1>2. tenant \in Tenant /\ Fresh \in Key
  BY FreshIs DEF DInv, DTypeOK
<1>3. CASE saved.status # "disabled" /\ Resumable(tenant)
  <2> DEFINE resumed == [status |-> "provisioning", billing |-> "active", key |-> Fresh]
  <2>1. answer = Answer(resumed, "provisioning", Fresh, TRUE)
    BY <1>3 DEF Resume, Resumable
  <2>2. answer.tenant = resumed /\ answer.minted = TRUE /\ answer.key = Fresh
    BY <2>1 DEF Answer
  <2>3. resumed \in Tenant /\ resumed.status \in Running /\ resumed.key = Fresh
    BY <1>2 DEF Tenant, TenantStatus, Running
  <2> HIDE DEF answer
  <2> QED
    BY <1>1, <2>2, <2>3, Renewed
<1>4. CASE saved.status # "disabled" /\ tenant.status = "provisioning" /\ tenant.billing = "active"
  <2> DEFINE renewed == [tenant EXCEPT !.key = Fresh]
  <2>1. answer = ReissueAs(tenant, tenant, Fresh)
    BY <1>4 DEF Resume, Resumable
  <2>2. Reissue(tenant, Fresh) = Answer(renewed, tenant.status, Fresh, TRUE)
    BY <1>4 DEF Reissue, Running
  <2>3. answer = [Answer(renewed, tenant.status, Fresh, TRUE) EXCEPT !.status = tenant.status]
    BY <1>4, <2>1, <2>2 DEF ReissueAs, Answer, Running
  <2>4. answer.tenant = renewed /\ answer.minted = TRUE /\ answer.key = Fresh
    BY <2>3 DEF Answer
  <2>5. renewed \in Tenant /\ renewed.status \in Running /\ renewed.key = Fresh
    BY <1>2, <1>4 DEF Tenant, Running
  <2> HIDE DEF answer
  <2> QED
    BY <1>1, <2>4, <2>5, Renewed
<1>5. CASE /\ ~(saved.status # "disabled" /\ Resumable(tenant))
           /\ ~(saved.status # "disabled" /\ tenant.status = "provisioning" /\ tenant.billing = "active")
  <2>1. answer = Refused(tenant)
    BY <1>5 DEF Resume
  <2>2. answer.tenant = tenant /\ answer.minted = FALSE /\ answer.ok = FALSE
    BY <2>1 DEF Refused, Answer
  <2> HIDE DEF answer
  <2> QED
    BY <1>1, <2>2, Renewed
<1> QED
  BY <1>3, <1>4, <1>5

LEMMA MarkTenantReadyKeeps == ASSUME DInv, MarkTenantReady PROVE DInv'
<1> DEFINE prior == [saved EXCEPT !.key = tenant.key]
           answer == MarkReady(tenant, prior)
<1>1. Statement("mark", answer)
  BY DEF MarkTenantReady
<1>2. /\ At("mark", 0) /\ losses' \in 0..MaxLosses
      /\ UNCHANGED <<secret, project, schema, ledger, late, stack, billing, saved, changes>>
      /\ \/ call' = NoCall /\ UNCHANGED rows
         \/ /\ tenant' = answer.tenant
            /\ keys' = IF answer.minted THEN keys + 1 ELSE keys
            /\ \/ call' = NoCall
               \/ /\ answer.ok
                  /\ call' = [NextOne EXCEPT !.key = IF answer.minted THEN answer.key ELSE @]
  BY <1>1, StatementIs
<1>3. /\ tenant \in Tenant /\ keys \in Nat /\ call.key = NoKey /\ NextOne.key = call.key
      /\ NoKey \in Key /\ DTypeOK
  BY <1>2, NotYetMinted, FreshIs, CallFields DEF DInv, DTypeOK, StageName, NextOne
<1>4. CASE call' = NoCall /\ UNCHANGED rows
  BY <1>2, <1>4, NothingDone DEF rows
<1>5. CASE /\ ~(call' = NoCall /\ UNCHANGED rows)
           /\ prior.status \in Running /\ MayBeReady(tenant)
  <2>1. answer = Answer([tenant EXCEPT !.status = "ready"], "ready", prior.key, FALSE)
    BY <1>5 DEF MarkReady
  <2>2. answer.tenant = [tenant EXCEPT !.status = "ready"] /\ answer.minted = FALSE
    BY <2>1 DEF Answer
  <2> HIDE DEF answer
  <2>3. /\ tenant' \in Tenant /\ tenant'.status = "ready" /\ tenant'.key = tenant.key /\ keys' = keys
        /\ tenant.status # "absent"
    BY <1>2, <1>3, <1>5, <2>2 DEF Tenant, TenantStatus, MayBeReady, Running
  <2>4. call' = NoCall \/ (call' = [NextOne EXCEPT !.key = NoKey] /\ LeftBy("mark")')
    BY <1>2, <1>3, <1>5, <2>2, <2>3 DEF LeftBy
  <2> QED
    BY <1>2, <1>3, <2>3, <2>4, TenantMoved DEF Running
<1>6. CASE /\ ~(call' = NoCall /\ UNCHANGED rows)
           /\ ~(prior.status \in Running /\ MayBeReady(tenant))
  <2>1. answer = Refused(tenant)
    BY <1>6 DEF MarkReady
  <2>2. answer.tenant = tenant /\ answer.minted = FALSE /\ answer.ok = FALSE
    BY <2>1 DEF Answer, Refused
  <2> HIDE DEF answer
  <2> QED
    BY <1>2, <1>6, <2>2, NothingDone DEF rows
<1> QED
  BY <1>4, <1>5, <1>6

LEMMA TurnTenantOffKeeps == ASSUME DInv, TurnTenantOff PROVE DInv'
<1> DEFINE target == IF billing = "past_due" THEN "suspended" ELSE "disabled"
           off    == Off(tenant, BillingOf(target))
           answer == IF tenant.status = "absent" THEN Refused(tenant)
                     ELSE [Answer(off, off.status, NoKey, FALSE) EXCEPT !.ok = off.status = target]
<1>1. Statement("off", answer)
  BY DEF TurnTenantOff
<1> HIDE DEF answer, off, target
<1>2. /\ At("off", 0) /\ losses' \in 0..MaxLosses
      /\ UNCHANGED <<secret, project, schema, ledger, late, stack, billing, saved, changes>>
      /\ \/ call' = NoCall /\ UNCHANGED rows
         \/ /\ tenant' = answer.tenant
            /\ keys' = IF answer.minted THEN keys + 1 ELSE keys
            /\ \/ call' = NoCall
               \/ /\ answer.ok
                  /\ call' = [NextOne EXCEPT !.key = IF answer.minted THEN answer.key ELSE @]
  BY <1>1, StatementIs
<1>3. /\ tenant \in Tenant /\ keys \in Nat /\ call.key = NoKey /\ NextOne.key = call.key
      /\ NoKey \in Key /\ DTypeOK
  BY <1>2, NotYetMinted, FreshIs, CallFields DEF DInv, DTypeOK, StageName, NextOne
<1>4. billing # "active"
  BY <1>2, StageOf DEF At, DInv, Asked
<1>5. CASE call' = NoCall /\ UNCHANGED rows
  BY <1>2, <1>5, NothingDone DEF rows
<1>6. CASE ~(call' = NoCall /\ UNCHANGED rows) /\ tenant.status # "absent"
  <2>1. answer.tenant = off /\ answer.minted = FALSE
    BY <1>6 DEF answer, Answer
  <2>2. off \in Tenant /\ off.status \in {"suspended", "disabled"} /\ off.key = NoKey
    BY <1>3 DEF off, Off, BillingOf, Tenant, TenantStatus
  <2>3. /\ tenant' \in Tenant /\ tenant'.status \in {"suspended", "disabled"} /\ tenant'.key = NoKey
        /\ keys' = keys
    BY <1>2, <1>6, <2>1, <2>2
  <2>4. call' = NoCall \/ (call' = [NextOne EXCEPT !.key = NoKey] /\ LeftBy("off")')
    BY <1>2, <1>3, <1>6, <2>1, <2>3 DEF LeftBy, Running
  <2> QED
    BY <1>2, <1>3, <1>4, <1>6, <2>3, <2>4, TenantMoved
<1>7. CASE ~(call' = NoCall /\ UNCHANGED rows) /\ tenant.status = "absent"
  <2>1. answer.tenant = tenant /\ answer.minted = FALSE /\ answer.ok = FALSE
    BY <1>7 DEF answer, Answer, Refused
  <2> QED
    BY <1>2, <1>7, <2>1, NothingDone DEF rows
<1> QED
  BY <1>5, <1>6, <1>7

------------------------------------------------------------------------------
(***************************************************************************)
(* The steps together, and what follows.                                   *)
(***************************************************************************)
LEMMA StageKeeps == ASSUME DInv, Stage PROVE DInv'
BY FindProjectKeeps, PasswordKeeps, CreateProjectKeeps, WaitForProjectHealthKeeps,
   ReadLedgerKeeps, ApplyMigrationKeeps, PauseProjectKeeps, WaitForPauseKeeps,
   CreateStackKeeps, WaitForReadyStackKeeps, EnableStackKeeps, WaitForEnabledKeeps,
   DisableStackKeeps, WaitForDisabledKeeps, ProvisionTenantKeeps, ReissueCredentialKeeps,
   MarkTenantReadyKeeps, ResumeTenantKeeps, TurnTenantOffKeeps, NothingToTurnOffKeeps,
   LookupKeeps, SaveKeeps DEF Stage

LEMMA StutterKeeps == ASSUME DInv, UNCHANGED dvars PROVE DInv'
<1>1. UNCHANGED <<secret, project, schema, ledger, late, stack, tenant, keys>>
      /\ UNCHANGED <<billing, saved, call, losses, changes>>
  BY DEF dvars, outside, caller, database, rows
<1>2. DTypeOK' /\ OnStage' /\ Asked'
  BY <1>1 DEF DInv, DTypeOK, OnStage, Asked
<1>3. Passwords' /\ Schema'
  BY <1>1 DEF DInv, Passwords, Schema, At, Idle
<1>4. Built' /\ Serving'
  BY <1>1 DEF DInv, Built, Serving, NeverStopped, Serves, Updatable
<1>5. Done'
  BY <1>1 DEF DInv, Done, Past, Idle, LeftBy, Serves, Updatable, InProgress
<1> QED
  BY <1>2, <1>3, <1>4, <1>5 DEF DInv

LEMMA StepKeeps == ASSUME DInv, [DNext]_dvars PROVE DInv'
<1>1. CASE \E b \in {"active", "past_due", "canceled"} : Bill(b)
  BY <1>1, BillKeeps
<1>2. CASE \E op \in Op : Begin(op)
  BY <1>2, BeginKeeps
<1>3. CASE Stage \/ Lost \/ LateProject \/ LateMigration \/ ProjectMoves \/ StackSettles
  BY <1>3, StageKeeps, LostKeeps, LateProjectKeeps, LateMigrationKeeps, ProjectMovesKeeps,
     StackSettlesKeeps
<1>4. CASE UNCHANGED dvars
  BY <1>4, StutterKeeps
<1> QED
  BY <1>1, <1>2, <1>3, <1>4 DEF DNext

\* What the stages of a call have done stays done until it is answered: the invariant
\* that the theorems about a dedicated tenant rest on.
THEOREM StagesStayDone == DSpec => []DInv
<1> QED
  BY InitKeeps, StepKeeps, PTL DEF DSpec

\* The variables keep to their types, for any number of migrations.
THEOREM DedicatedTypeCorrect == DSpec => []DTypeOK
<1>1. DInv => DTypeOK
  BY DEF DInv
<1> QED
  BY <1>1, StagesStayDone, PTL

\* What earlier attempts at provisioning did is not done again: each migration goes
\* through once and in order, whatever request arrives late (applyMigrations), and the
\* project has the password of the secret store (databasePasswordFor).
THEOREM NothingSetUpTwice == DSpec => []SetUpOnce
<1>1. DInv => SetUpOnce
  BY DEF DInv, Passwords, Schema, SetUpOnce
<1> QED
  BY <1>1, StagesStayDone, PTL

\* Only an answer changes the status the caller has saved.
LEMMA SavesOnlyInSave ==
  ASSUME [DNext]_dvars, ~Save
  PROVE  saved'.status = saved.status \/ ~DTypeOK
<1>1. CASE \E b \in {"active", "past_due", "canceled"} : Bill(b)
  BY <1>1 DEF Bill, DTypeOK, Saved
<1>2. CASE UNCHANGED saved
  BY <1>2
<1>3. Stage \/ Lost \/ LateProject \/ LateMigration \/ ProjectMoves \/ StackSettles
       \/ (\E op \in Op : Begin(op)) \/ UNCHANGED dvars
      => UNCHANGED saved
  <2>1. Stage => UNCHANGED saved
    BY DEF Stage, FindProject, Password, CreateProject, WaitForProjectHealth, ReadLedger,
           ApplyMigration, PauseProject, WaitForPause, CreateStack, WaitForReadyStack,
           EnableStack, WaitForEnabled, DisableStack, WaitForDisabled, WaitForStack, SetSigning,
           ProvisionTenant, ReissueCredential, MarkTenantReady, ResumeTenant, TurnTenantOff,
           Statement, NothingToTurnOff, Lookup, Quiet
  <2>2. Lost \/ LateProject \/ LateMigration \/ ProjectMoves \/ StackSettles => UNCHANGED saved
    BY DEF Lost, LateProject, LateMigration, ProjectMoves, StackSettles, Quiet, caller
  <2>3. (\E op \in Op : Begin(op)) \/ UNCHANGED dvars => UNCHANGED saved
    BY DEF Begin, dvars, caller
  <2> QED
    BY <2>1, <2>2, <2>3
<1> QED
  BY <1>1, <1>2, <1>3 DEF DNext

LEMMA SaveReadyServes == ASSUME DInv, Save PROVE ReadyServes
<1> SUFFICES ASSUME saved.status # "ready", saved'.status = "ready"
             PROVE  /\ Healthy /\ ledger = 1..Migrations
                    /\ Updatable /\ stack.signing
                    /\ tenant.status = "ready" /\ tenant.key = saved.key /\ saved.key # NoKey
  BY DEF ReadyServes
<1>1. call.op = "markReady"
  BY SaveIs DEF Op
<1>2. billing = "active" /\ saved.key # NoKey
  BY <1>1 DEF DInv, Asked
<1>3. Serves /\ tenant.key = saved.key
  BY <1>2 DEF DInv, Serving
<1>4. tenant.status = "ready"
  BY <1>1, SaveIs, StageOf DEF DInv, At, Done, StageName, LeftBy
<1>5. Healthy /\ ledger = 1..Migrations
  BY <1>2, <1>4 DEF DInv, DTypeOK, Built, Healthy
<1> QED
  BY <1>2, <1>3, <1>4, <1>5 DEF Serves

LEMMA SaveOffWhenAnswered == ASSUME DInv, Save PROVE OffWhenAnswered
<1> SUFFICES ASSUME saved'.status # saved.status,
                    saved'.status \in {"suspended", "disabled", "unknown_suspended", "unknown_disabled"}
             PROVE  /\ tenant.key = NoKey /\ tenant.status \notin {"provisioning", "ready"}
                    /\ stack.status = "absent" \/ ~stack.signing
                    /\ billing = "canceled" /\ stack.status # "absent" => project.status = "inactive"
  BY DEF OffWhenAnswered
<1>1. call.op \in {"suspend", "disable", "suspendUnknown", "compensateUnknown"}
  BY SaveIs DEF Op
<1>2. LeftBy("off") /\ LeftBy("stop")
  BY <1>1, SaveIs, StageOf DEF DInv, At, Done, StageName
<1>3. billing = "canceled" => LeftBy("pause")
  <2>1. billing = "canceled" => call.op \in {"disable", "compensateUnknown"}
    BY <1>1 DEF DInv, Asked
  <2> QED
    BY <2>1, SaveIs, StageOf DEF DInv, At, Done, StageName
<1>4. tenant.status \notin Running /\ tenant.key = NoKey
  BY <1>2 DEF LeftBy, DInv, Built
<1> QED
  BY <1>2, <1>3, <1>4 DEF LeftBy, Running

\* What a call answers is so: "ready" only of a deployment that can sign with the
\* credential handed out (markReady), and a suspension or a compensation only when
\* nothing can sign any more, after any number of attempts that were cut short.
THEOREM AnswersAreSo == DSpec => AnswersHold
<1>1. ASSUME DInv, [DNext]_dvars PROVE [ReadyServes /\ OffWhenAnswered]_dvars
  <2>1. CASE Save
    BY <1>1, <2>1, SaveReadyServes, SaveOffWhenAnswered
  <2>2. CASE ~Save
    <3>1. saved'.status = saved.status
      BY <1>1, <2>2, SavesOnlyInSave DEF DInv
    <3> QED
      BY <3>1 DEF ReadyServes, OffWhenAnswered
  <2> QED
    BY <2>1, <2>2
<1> QED
  BY <1>1, StagesStayDone, PTL DEF DSpec, AnswersHold


------------------------------------------------------------------------------
(***************************************************************************)
(* The waitlist: everybody is reached, and the backfill ends.  A backfill  *)
(* never loses sight of a person: until somebody has given the person's    *)
(* row its id and its notice (Settled), the run still has the row as it    *)
(* is among those it scanned (Pending).  So whoever has ended a pass       *)
(* leaves everybody settled, whatever others write meanwhile, and from     *)
(* then on every row is settled when it is written.                        *)
(***************************************************************************)
NoticeRow == [id: Nat, of: Person, until: Nat]
BackfillRun == [at: {"idle", "scanning", "working", "verified", "failed", "cut"}, since: Nat,
                pass: 1..Passes, items: [Person -> SourceRow], dirty: BOOLEAN]
ReplayRun == [at: {"idle", "scanning", "invoking", "verified"}, since: Nat, pass: 1..Passes,
              left: SUBSET NoticeRow, done: SUBSET Nat, news: BOOLEAN]

WTypeOK ==
  /\ setting \in Setting /\ clock \in 0..setting.ends
  /\ drawn \in Nat /\ tries \in Nat /\ mishaps \in Nat /\ enabled \in BOOLEAN
  /\ table \in [Person -> SourceRow] /\ outbox \in SUBSET NoticeRow /\ stream \in Seq(NoticeRow)
  /\ told \in SUBSET Nat /\ letters \in SUBSET Nat
  /\ backfill \in [Backfiller -> BackfillRun] /\ replay \in ReplayRun

\* The table: an id is one person's, and rows of earlier versions are as they were.
RowOk(p) ==
  LET t == table[p]
  IN
  /\ ~t.there => t = NoRow
  /\ t.there /\ ~t.v1 => t = setting.table[p]
  /\ t.v1 => t.id # 0
  /\ ~t.whole => t.there /\ t.v1 /\ t.until = Never
  /\ t.id <= drawn
  /\ \A q \in Person \ {p} : t.id = table[q].id => t.id = 0

\* What somebody read of a row: it is the row as it is, or somebody migrated the
\* row since, or it expired.
ItemOk(i, p) ==
  LET t == table[p]
  IN
  i.there =>
    /\ ~i.v1 => i = setting.table[p]
    /\ i.v1 => i.id # 0
    /\ i.id <= drawn
    /\ ~i.whole => ~t.whole
    /\ i.whole /\ Live(i) => t.there /\ t.until = i.until /\ (i.v1 => t = i)

ItemsOk == \A b \in Backfiller, p \in Person : ItemOk(backfill[b].items[p], p)

\* Whoever has a notice of an id, or may write one, has the same.
Whole(r) == r.there /\ r.whole
InStream == {stream[i] : i \in 1..Len(stream)}
Carried(x) ==
  \/ x \in outbox \/ x \in InStream \/ x \in replay.left
  \/ \E p \in Person : Whole(table[p]) /\ x = Notice(p, table[p])
  \/ \E b \in Backfiller, p \in Person :
       Whole(backfill[b].items[p]) /\ x = Notice(p, backfill[b].items[p])
Notices == {x \in NoticeRow : Carried(x)}

Identified ==
  /\ \A x \in Notices : x.id <= drawn
  /\ \A x, y \in Notices : x.id = y.id /\ x.id # 0 => x = y
  /\ \A o \in outbox \cup replay.left : o.id # 0
  /\ \A id \in replay.done :
       /\ id # 0 /\ id <= drawn
       /\ id \in told \/ \A x \in Notices : x.id = id => ~Live(x)

\* A live notice is of a row that is there.
Leads(o) == Live(o) => table[o.of].there /\ o = Notice(o.of, table[o.of])

\* The row has its id, and its notice if there is to be one.
Due(p)     == p \in Real /\ table[p].whole /\ Live(table[p])
Settled(p) == table[p].there => table[p].v1 /\ (Due(p) => Notice(p, table[p]) \in outbox)
Pending(r, p) == r.items[p].there /\ r.items[p] = table[p]

\* A second pass or a third has migrated all rows there were: it changes nothing
\* unless the clock moved.
LaterPass(r) == r.at \in {"scanning", "working"} /\ r.pass >= 2
RunOk(r) ==
  /\ r.since <= clock
  /\ r.at = "working" => \A p \in Person : Settled(p) \/ Pending(r, p)
  /\ LaterPass(r) \/ r.at = "verified" => \A p \in Person : Settled(p)
  /\ LaterPass(r) /\ r.since = clock => ~r.dirty
  /\ LaterPass(r) /\ r.at = "working" => \A p \in Person : r.items[p].there => r.items[p].v1
  /\ r.at = "failed" /\ Passes >= 2 => r.since < clock \/ \E p \in Person : ~table[p].whole

\* From the end of a scan on, the replay or the stream has what the broker was
\* not told.
Replayed ==
  \/ enabled \/ replay.at \in {"invoking", "verified"}
  \/ replay.at = "scanning" /\ replay.pass >= 2
Kept(id)  == id \in told \cup letters \/ \E x \in InStream \cup replay.left : x.id = id
Replaying ==
  /\ replay.since <= clock
  /\ replay.at # "idle" \/ enabled => backfill[Deployment].at = "verified"
  /\ enabled => replay.at = "idle"
  /\ replay.at # "invoking" => replay.left = {}
  /\ Replayed => \A o \in outbox : Live(o) => Kept(o.id)

WaitInv ==
  /\ WTypeOK
  /\ \A p \in Person : RowOk(p)
  /\ ItemsOk /\ Identified
  /\ \A o \in outbox : Leads(o)
  /\ \A b \in Backfiller : RunOk(backfill[b])
  /\ Replaying

------------------------------------------------------------------------------
(***************************************************************************)
(* Numbers and sequences.                                                  *)
(***************************************************************************)
LEMMA WaitBounds ==
  /\ Passes \in Nat \ {0} /\ Batch \in Nat \ {0} /\ Retention \in Nat \ {0}
  /\ MaxNow \in Nat \ {0} /\ MaxIds \in Nat \ {0} /\ MaxRetries \in Nat
  /\ Deployment \in Backfiller /\ Real \subseteq Person /\ Person # {} /\ Never \in Nat
  BY WaitlistAssumption, SettingAssumption DEF Real, Never

LEMMA FirstOf ==
  ASSUME NEW T, T \subseteq Nat, T # {}
  PROVE  Min(T) \in T /\ \A m \in T : Min(T) <= m
<1>1. IsWellFoundedOn(OpToRel(<, Nat), Nat)
  BY NatLessThanWellFounded
<1>2. PICK n \in T : \A m \in T : ~(<<m, n>> \in OpToRel(<, Nat))
  BY <1>1, WFMin, Zenon
<1>3. \A m \in T : ~(m < n)
  BY <1>2 DEF OpToRel
<1>4. \A m \in T : n <= m
  BY <1>3
<1> QED
  BY <1>2, <1>4 DEF Min

LEMMA LastOf ==
  ASSUME NEW n \in Nat, NEW T, T \subseteq 0..n, T # {}
  PROVE  Max(T) \in T /\ \A m \in T : m <= Max(T)
<1> DEFINE U == {n - m : m \in T}
<1>1. U \subseteq Nat /\ U # {}
  <2>1. \A m \in T : n - m \in Nat
    OBVIOUS
  <2>2. PICK m \in T : TRUE
    OBVIOUS
  <2>3. n - m \in U
    BY <2>2
  <2> QED
    BY <2>1, <2>3
<1> HIDE DEF U
<1>2. Min(U) \in U /\ \A u \in U : Min(U) <= u
  BY <1>1, FirstOf
<1>3. PICK k \in T : Min(U) = n - k
  BY <1>2 DEF U
<1>4. \A m \in T : k >= m
  <2> SUFFICES ASSUME NEW m \in T PROVE k >= m
    OBVIOUS
  <2>1. n - m \in U
    BY DEF U
  <2>2. n - k <= n - m /\ m \in Nat /\ k \in Nat
    BY <1>2, <1>3, <2>1
  <2> QED
    BY <2>2
<1>5. Max(T) \in T /\ \A m \in T : Max(T) >= m
  BY <1>3, <1>4 DEF Max
<1>6. \A m \in T : m \in Nat
  OBVIOUS
<1> QED
  BY <1>5, <1>6

LEMMA FunctionIsSeq ==
  ASSUME NEW S, NEW n \in Nat, NEW f \in [1..n -> S]
  PROVE  f \in Seq(S) /\ Len(f) = n
<1> DEFINE g == [i \in 1..n |-> f[i]]
<1>1. g \in Seq(S) /\ Len(g) = n
  OBVIOUS
<1>2. f = g
  OBVIOUS
<1> HIDE DEF g
<1> QED
  BY <1>1, <1>2, Zenon

\* A set of at most one notice as a sequence.
LEMMA AsSeq ==
  ASSUME NEW S, NEW new \in SUBSET S, \A x, y \in new : x = y
  PROVE  LET s == SetToSeq(new) IN
         s \in Seq(S) /\ {s[i] : i \in 1..Len(s)} = new
<1> DEFINE s == SetToSeq(new)
           n == Cardinality(new)
<1>1. /\ n \in Nat /\ \E f \in [1..n -> new] : IsInjective(f)
      /\ \A f \in [1..n -> new] : {f[i] : i \in 1..n} = new
  <2>1. CASE new = {}
    <3>1. n = 0
      BY <2>1, FS_EmptySet
    <3> HIDE DEF n
    <3> DEFINE f == [i \in 1..n |-> 0]
    <3>2. f \in [1..n -> new] /\ IsInjective(f)
      BY <2>1, <3>1 DEF IsInjective
    <3> QED
      BY <2>1, <3>1, <3>2
  <2>2. CASE new # {}
    <3>1. PICK x \in new : new = {x}
      BY <2>2
    <3>2. n = 1
      BY <3>1, FS_Singleton
    <3> HIDE DEF n
    <3> DEFINE f == [i \in 1..n |-> x]
    <3>3. f \in [1..n -> new] /\ IsInjective(f)
      BY <3>1, <3>2 DEF IsInjective
    <3> QED
      BY <3>1, <3>2, <3>3
  <2> QED
    BY <2>1, <2>2
<1>2. s \in [1..n -> new]
  BY <1>1 DEF SetToSeq
<1> HIDE DEF s, n
<1>3. s \in Seq(new) /\ Len(s) = n
  BY <1>1, <1>2, FunctionIsSeq
<1>4. s \in Seq(S)
  BY <1>3, SeqMonotonic
<1>5. {s[i] : i \in 1..Len(s)} = new
  BY <1>1, <1>2, <1>3
<1> QED
  BY <1>4, <1>5 DEF s

\* What is put into the outbox table appears in the stream.
LEMMA StreamGrows ==
  ASSUME stream \in Seq(NoticeRow), NEW new \in SUBSET NoticeRow, \A x, y \in new : x = y,
         stream' = stream \o SetToSeq(new)
  PROVE  stream' \in Seq(NoticeRow) /\ InStream' = InStream \cup new
<1> DEFINE s == SetToSeq(new)
<1>1. s \in Seq(NoticeRow) /\ {s[i] : i \in 1..Len(s)} = new
  BY AsSeq
<1> HIDE DEF s
<1>2. /\ stream' \in Seq(NoticeRow) /\ Len(stream') = Len(stream) + Len(s)
      /\ \A i \in 1..(Len(stream) + Len(s)) :
           stream'[i] = IF i <= Len(stream) THEN stream[i] ELSE s[i - Len(stream)]
  BY <1>1, ConcatProperties DEF s
<1>3. Len(stream) \in Nat /\ Len(s) \in Nat
  BY <1>1, LenProperties
<1>4. InStream \cup new \subseteq InStream'
  <2>1. ASSUME NEW i \in 1..Len(stream) PROVE stream[i] \in InStream'
    <3>1. i \in 1..Len(stream') /\ stream'[i] = stream[i]
      BY <1>2, <1>3
    <3> QED
      BY <3>1 DEF InStream
  <2>2. ASSUME NEW i \in 1..Len(s) PROVE s[i] \in InStream'
    <3>1. Len(stream) + i \in 1..Len(stream') /\ stream'[Len(stream) + i] = s[i]
      BY <1>2, <1>3, SMTT(40)
    <3> QED
      BY <3>1 DEF InStream
  <2>3. new \subseteq InStream'
    BY <1>1, <2>2
  <2>4. InStream \subseteq InStream'
    BY <2>1 DEF InStream
  <2> QED
    BY <2>3, <2>4
<1>5. InStream' \subseteq InStream \cup new
  <2> SUFFICES ASSUME NEW i \in 1..Len(stream') PROVE stream'[i] \in InStream \cup new
    BY DEF InStream
  <2>1. CASE i <= Len(stream)
    BY <1>2, <1>3, <2>1 DEF InStream
  <2>2. CASE ~(i <= Len(stream))
    <3>1. i - Len(stream) \in 1..Len(s) /\ stream'[i] = s[i - Len(stream)]
      BY <1>2, <1>3, <2>2
    <3> QED
      BY <1>1, <3>1
  <2> QED
    BY <2>1, <2>2
<1> QED
  BY <1>2, <1>4, <1>5

------------------------------------------------------------------------------
(***************************************************************************)
(* What writes of the tables do to everybody.                              *)
(***************************************************************************)
LEMMA WaitNow ==
  ASSUME WaitInv
  PROVE  /\ clock \in Nat /\ drawn \in Nat /\ Never > clock /\ Never \in Nat
         /\ setting \in Setting /\ LeftBehind(setting.table)
         /\ setting.ends \in Nat /\ setting.ends < Never
         /\ table \in [Person -> SourceRow] /\ outbox \in SUBSET NoticeRow
         /\ \A p \in Person : RowOk(p) /\ table[p].until \in Nat /\ table[p].id \in Nat
         /\ \A o \in outbox : o.until \in Nat /\ o.id \in Nat \ {0} /\ o.of \in Person /\ Leads(o)
<1>1. WTypeOK /\ Identified
  BY DEF WaitInv
<1>2. /\ setting \in Setting /\ LeftBehind(setting.table) /\ setting.ends \in 0..MaxNow
      /\ MaxNow \in Nat
  BY <1>1, SettingAssumption, WaitBounds DEF WTypeOK
<1>3. clock \in 0..setting.ends
  BY <1>1 DEF WTypeOK
<1>4. clock \in Nat /\ Never > clock /\ Never \in Nat /\ setting.ends \in Nat /\ setting.ends < Never
  BY <1>2, <1>3 DEF Never
<1>5. \A p \in Person : RowOk(p) /\ table[p].until \in Nat /\ table[p].id \in Nat
  BY <1>1 DEF WaitInv, WTypeOK, SourceRow
<1>6. \A o \in outbox : o.until \in Nat /\ o.id \in Nat \ {0} /\ o.of \in Person /\ Leads(o)
  BY <1>1 DEF WaitInv, WTypeOK, NoticeRow, Identified
<1> QED
  BY <1>1, <1>2, <1>4, <1>5, <1>6 DEF WTypeOK

Onwards ==
  /\ clock' \in Nat /\ clock <= clock'
  /\ \A p \in Person : RowOk(p)'
  /\ \A i \in SourceRow, p \in Person : ItemOk(i, p) => ItemOk(i, p)'
  /\ \A o \in outbox' : Leads(o)'
  /\ \A p \in Person : Settled(p) => Settled(p)'
  /\ \A p \in Person : Settled(p)' \/ table'[p] = table[p]
  /\ \A p \in Person : ~table[p].whole => ~table'[p].whole

LEMMA NobodyWrites ==
  ASSUME WaitInv, UNCHANGED <<table, outbox, drawn, setting>>, clock' \in Nat, clock <= clock'
  PROVE  Onwards
<1>1. ASSUME NEW u \in Nat, u > clock' PROVE u > clock
  BY <1>1, WaitNow
<1>2. \A p \in Person : RowOk(p)'
  BY WaitNow DEF RowOk
<1>3. ASSUME NEW i \in SourceRow, NEW p \in Person, ItemOk(i, p) PROVE ItemOk(i, p)'
  BY <1>1, <1>3 DEF ItemOk, Live, SourceRow
<1>4. \A o \in outbox' : Leads(o)'
  BY <1>1, WaitNow DEF Leads, Live
<1>5. ASSUME NEW p \in Person, Settled(p) PROVE Settled(p)'
  BY <1>1, <1>5, WaitNow DEF Settled, Due, Live
<1> QED
  BY <1>2, <1>3, <1>4, <1>5 DEF Onwards

\* A row of this version, and its notice if there is to be one.
Rewrites(p, t, new) ==
  /\ drawn' = drawn + 1
  /\ table' = [table EXCEPT ![p] = t]
  /\ outbox' = (outbox \ {o \in outbox : o.id = table[p].id}) \cup new
  /\ ~table[p].v1
  /\ t.there /\ t.v1 /\ t.id = drawn + 1
  /\ t.whole \/ t.until = Never
  /\ \A n \in new : n.id = drawn + 1 /\ n.of = p /\ (Live(n) \/ t.whole => n = Notice(p, t))
  /\ p \in Real /\ t.whole /\ Live(t) => Notice(p, t) \in new
  /\ table[p].there => t.whole /\ t.until = table[p].until

LEMMA SomebodyRewrites ==
  ASSUME WaitInv, NEW p \in Person, NEW t \in SourceRow, NEW new \in SUBSET NoticeRow,
         Rewrites(p, t, new), UNCHANGED <<clock, setting>>
  PROVE  Onwards /\ Settled(p)'
<1>1. table'[p] = t /\ \A q \in Person \ {p} : table'[q] = table[q]
  BY WaitNow DEF Rewrites
<1>2. ~table[p].v1 /\ t.there /\ t.v1 /\ t.id = drawn' /\ t.id \in Nat /\ t.id > drawn /\ drawn' > drawn
      /\ drawn \in Nat /\ drawn' \in Nat /\ t.id # 0 /\ (t.whole \/ t.until = Never)
  BY WaitNow DEF Rewrites
<1>3. \A q \in Person \ {p} : table[q].id # t.id /\ (table[q].v1 => table[q].id # table[p].id)
  <2> SUFFICES ASSUME NEW q \in Person \ {p}
               PROVE  table[q].id # t.id /\ (table[q].v1 => table[q].id # table[p].id)
    OBVIOUS
  <2>1. table[q].id \in Nat /\ table[q].id <= drawn
    BY WaitNow DEF RowOk
  <2>2. table[q].v1 => table[q].id # table[p].id
    BY WaitNow DEF RowOk
  <2> QED
    BY <1>2, <2>1, <2>2
<1>4. ASSUME NEW q \in Person PROVE RowOk(q)'
  <2>1. CASE q = p
    BY <1>1, <1>2, <1>3, <2>1 DEF RowOk
  <2>2. CASE q # p
    <3>1. RowOk(q) /\ table'[q] = table[q] /\ table[q].id # t.id
      BY <1>1, <1>3, <2>2, WaitNow
    <3>2. \A r \in Person \ {q} : table'[q].id = table'[r].id => table'[q].id = 0
      BY <1>1, <3>1 DEF RowOk
    <3>3. table'[q].id <= drawn'
      BY <1>2, <3>1, WaitNow DEF RowOk
    <3> QED
      BY <3>1, <3>2, <3>3 DEF RowOk
  <2> QED
    BY <2>1, <2>2
<1>5. ASSUME NEW i \in SourceRow, NEW q \in Person, ItemOk(i, q) PROVE ItemOk(i, q)'
  <2>1. i.there => i.id <= drawn'
    BY <1>2, <1>5 DEF ItemOk, SourceRow
  <2>2. CASE q # p
    BY <1>1, <1>5, <2>1, <2>2 DEF ItemOk, Live
  <2>3. CASE q = p
    <3>1. table[p].whole
      BY <1>2, WaitNow DEF RowOk
    <3>2. ASSUME i.there, i.whole, Live(i)
          PROVE  ~i.v1 /\ t.until = i.until
      BY <1>2, <1>5, <2>3, <3>2 DEF ItemOk, Rewrites
    <3> QED
      BY <1>1, <1>2, <1>5, <2>1, <2>3, <3>1, <3>2 DEF ItemOk, Live
  <2> QED
    BY <2>2, <2>3
<1>6. ASSUME NEW o \in outbox' PROVE Leads(o)'
  <2>1. CASE o \in new
    BY <1>1, <1>2, <2>1 DEF Rewrites, Leads, Live
  <2>2. CASE o \in outbox /\ o.id # table[p].id
    <3>1. o.of \in Person /\ Leads(o)
      BY <2>2, WaitNow
    <3>2. Live(o) => o.of # p
      BY <2>2, <3>1 DEF Leads, Notice
    <3> QED
      BY <1>1, <3>1, <3>2 DEF Leads, Live
  <2> QED
    BY <1>6, <2>1, <2>2 DEF Rewrites
<1>7. Settled(p)'
  BY <1>1, <1>2 DEF Settled, Due, Live, Rewrites
<1>8. ASSUME NEW q \in Person, Settled(q) PROVE Settled(q)'
  <2>1. CASE q # p
    <3>1. table'[q] = table[q] /\ (table[q].v1 => table[q].id # table[p].id)
      BY <1>1, <1>3, <2>1
    <3>2. Due(q)' => Due(q)
      BY <3>1 DEF Due, Live
    <3>3. Notice(q, table[q]).id = table[q].id
      BY DEF Notice
    <3>4. table[q].v1 /\ Notice(q, table[q]) \in outbox => Notice(q, table[q]) \in outbox'
      BY <3>1, <3>3 DEF Rewrites
    <3> QED
      BY <1>8, <3>1, <3>2, <3>4 DEF Settled
  <2> QED
    BY <1>7, <2>1
<1>9. ASSUME NEW q \in Person, ~table[q].whole PROVE ~table'[q].whole
  BY <1>1, <1>2, <1>9, WaitNow DEF RowOk
<1> QED
  BY <1>1, <1>4, <1>5, <1>6, <1>7, <1>8, <1>9, WaitNow DEF Onwards

\* A notice of a row that was read with its id.
LEMMA SomebodyCompletes ==
  ASSUME WaitInv, NEW p \in Person, NEW i \in SourceRow, ItemOk(i, p), i.there, i.v1, i.whole,
         NEW new \in SUBSET {Notice(p, i)}, outbox' = outbox \cup new,
         UNCHANGED <<table, drawn, clock, setting>>
  PROVE  /\ Onwards
         /\ table[p] = i /\ (Due(p) => Notice(p, i) \in outbox') => Settled(p)'
<1>1. \A q \in Person : RowOk(q)'
  BY WaitNow DEF RowOk
<1>2. \A k \in SourceRow, q \in Person : ItemOk(k, q) => ItemOk(k, q)'
  BY DEF ItemOk, Live
<1>3. ASSUME NEW o \in outbox' PROVE Leads(o)'
  <2>1. CASE o \in outbox
    BY <2>1, WaitNow DEF Leads, Live
  <2>2. CASE o = Notice(p, i)
    <3>1. Live(o) => Live(i)
      BY <2>2 DEF Live, Notice
    <3>2. o.of = p
      BY <2>2 DEF Notice
    <3> QED
      BY <2>2, <3>1, <3>2 DEF ItemOk, Leads, Live
  <2> QED
    BY <2>1, <2>2
<1>4. \A q \in Person : Settled(q) => Settled(q)'
  BY DEF Settled, Due, Live
<1>5. table[p] = i /\ (Due(p) => Notice(p, i) \in outbox') => Settled(p)'
  BY DEF Settled, Due, Live
<1> QED
  BY <1>1, <1>2, <1>3, <1>4, <1>5, WaitNow DEF Onwards

LEMMA PurgeOnwards == ASSUME WaitInv, Purge PROVE Onwards
<1>1. UNCHANGED <<drawn, clock, setting>>
  BY DEF Purge
<1>2. ASSUME NEW p \in Person, table[p].there, ~Live(table[p]),
             table' = [table EXCEPT ![p] = NoRow], UNCHANGED outbox
      PROVE  Onwards
  <2>1. table'[p] = NoRow /\ \A q \in Person \ {p} : table'[q] = table[q]
    BY <1>2, WaitNow
  <2>2. table[p].whole
    BY <1>2, WaitNow DEF RowOk, Live
  <2>3. ~NoRow.there /\ ~NoRow.v1 /\ NoRow.whole /\ NoRow.id = 0
    BY DEF NoRow
  <2>4. ASSUME NEW q \in Person PROVE RowOk(q)'
    <3>1. CASE q = p
      BY <1>1, <2>1, <2>3, <3>1, WaitNow DEF RowOk
    <3>2. CASE q # p
      BY <1>1, <2>1, <2>3, <3>2, WaitNow DEF RowOk
    <3> QED
      BY <3>1, <3>2
  <2>5. ASSUME NEW i \in SourceRow, NEW q \in Person, ItemOk(i, q) PROVE ItemOk(i, q)'
    <3>1. CASE q = p
      <4>1. i.there => i.whole /\ ~Live(i)
        BY <1>2, <2>2, <2>5, <3>1 DEF ItemOk, Live
      <4> QED
        BY <1>1, <2>5, <4>1 DEF ItemOk, Live
    <3>2. CASE q # p
      BY <1>1, <2>1, <2>5, <3>2 DEF ItemOk, Live
    <3> QED
      BY <3>1, <3>2
  <2>6. ASSUME NEW o \in outbox' PROVE Leads(o)'
    <3>1. o.of \in Person /\ Leads(o)
      BY <1>2, <2>6, WaitNow
    <3>2. Live(o) => o.of # p
      BY <1>2, <3>1 DEF Leads, Notice, Live
    <3> QED
      BY <1>1, <2>1, <3>1, <3>2 DEF Leads, Live
  <2>7. Settled(p)'
    BY <2>1, <2>3 DEF Settled
  <2>8. ASSUME NEW q \in Person, q # p, Settled(q) PROVE Settled(q)'
    BY <1>1, <1>2, <2>1, <2>8 DEF Settled, Due, Live
  <2> QED
    BY <1>1, <2>1, <2>2, <2>4, <2>5, <2>6, <2>7, <2>8, WaitNow DEF Onwards
<1>3. ASSUME NEW n \in outbox, ~Live(n), outbox' = outbox \ {n}, UNCHANGED table
      PROVE  Onwards
  <2>1. \A q \in Person : RowOk(q)'
    BY <1>1, <1>3, WaitNow DEF RowOk
  <2>2. \A k \in SourceRow, q \in Person : ItemOk(k, q) => ItemOk(k, q)'
    BY <1>1, <1>3 DEF ItemOk, Live
  <2>3. \A o \in outbox' : Leads(o)'
    BY <1>1, <1>3, WaitNow DEF Leads, Live
  <2>4. ASSUME NEW q \in Person, Settled(q) PROVE Settled(q)'
    <3>1. Due(q) => Notice(q, table[q]) # n
      BY <1>3 DEF Due, Live, Notice
    <3> QED
      BY <1>1, <1>3, <2>4, <3>1 DEF Settled, Due, Live
  <2> QED
    BY <1>1, <1>3, <2>1, <2>2, <2>3, <2>4, WaitNow DEF Onwards
<1> QED
  BY <1>2, <1>3 DEF Purge

\* Runs keep no row but what they had.
Fewer == \A b \in Backfiller, p \in Person :
           backfill'[b].items[p].there => backfill'[b].items[p] = backfill[b].items[p]

\* Notices stay identified: new ones have a fresh id.
LEMMA StaysIdentified ==
  ASSUME WaitInv, NEW fresh \in SUBSET NoticeRow, drawn' \in Nat, drawn <= drawn',
         clock' \in Nat, clock <= clock', told \subseteq told',
         \A x \in NoticeRow : Carried(x)' => Carried(x) \/ x \in fresh,
         \A x \in fresh : x.id = drawn' /\ drawn < drawn',
         \A x, y \in fresh : x = y,
         \A o \in outbox' \cup replay'.left : o.id # 0,
         \A id \in replay'.done :
           \/ id \in replay.done
           \/ id \in 1..drawn /\ (id \in told' \/ \A x \in Notices : x.id = id => ~(x.until > clock'))
  PROVE  Identified'
<1>1. Identified /\ drawn \in Nat /\ clock \in Nat
  BY WaitNow DEF WaitInv
<1>2. \A x \in Notices' : x \in NoticeRow /\ x.id \in Nat /\ x.until \in Nat /\ (x \in Notices \/ x \in fresh)
  BY DEF Notices, NoticeRow
<1>3. \A x \in Notices : x.id <= drawn /\ x.id \in Nat /\ x.until \in Nat
  BY <1>1 DEF Identified, Notices, NoticeRow
<1>4. \A x \in Notices' : x.id <= drawn'
  BY <1>1, <1>2, <1>3
<1>5. \A x, y \in Notices' : x.id = y.id /\ x.id # 0 => x = y
  <2> SUFFICES ASSUME NEW x \in Notices', NEW y \in Notices', x.id = y.id, x.id # 0 PROVE x = y
    OBVIOUS
  <2>1. CASE x \in Notices /\ y \in Notices
    BY <1>1, <2>1 DEF Identified
  <2>2. CASE x \in fresh /\ y \in fresh
    BY <2>2
  <2>3. CASE x \in fresh /\ y \in Notices
    <3>1. x.id = drawn' /\ drawn < drawn' /\ y.id <= drawn /\ y.id \in Nat
      BY <1>3, <2>3
    <3> QED
      BY <1>1, <3>1
  <2>4. CASE y \in fresh /\ x \in Notices
    <3>1. y.id = drawn' /\ drawn < drawn' /\ x.id <= drawn /\ x.id \in Nat
      BY <1>3, <2>4
    <3> QED
      BY <1>1, <3>1
  <2> QED
    BY <1>2, <2>1, <2>2, <2>3, <2>4
<1>6. ASSUME NEW id \in replay'.done
      PROVE  /\ id # 0 /\ id <= drawn'
             /\ id \in told' \/ \A x \in Notices' : x.id = id => ~(x.until > clock')
  <2>1. /\ id # 0 /\ id <= drawn /\ id \in Nat
        /\ id \in told' \/ \A x \in Notices : x.id = id => ~(x.until > clock')
    <3>1. CASE id \in replay.done
      <4>1. id # 0 /\ id <= drawn /\ id \in Nat
            /\ (id \in told \/ \A x \in Notices : x.id = id => ~(x.until > clock))
        BY <1>1, <3>1 DEF Identified, Live, WaitInv, WTypeOK, ReplayRun
      <4>2. \A x \in Notices : x.until > clock' => x.until > clock
        BY <1>1, <1>3
      <4> QED
        BY <4>1, <4>2
    <3>2. CASE ~(id \in replay.done)
      BY <1>1, <1>6, <3>2
    <3> QED
      BY <3>1, <3>2
  <2>2. id <= drawn' /\ \A x \in fresh : x.id # id
    BY <1>1, <2>1
  <2> QED
    BY <1>2, <2>1, <2>2
<1> QED
  BY <1>4, <1>5, <1>6 DEF Identified, Live

LEMMA RunStays ==
  ASSUME WaitInv, Onwards, NEW r \in BackfillRun, RunOk(r)
  PROVE  RunOk(r)'
<1>1. clock \in Nat /\ r.since \in Nat /\ clock' \in Nat /\ clock <= clock' /\ r.since <= clock
  BY WaitNow DEF BackfillRun, Onwards, RunOk
<1>2. \A p \in Person : Settled(p) => Settled(p)'
  BY DEF Onwards
<1>3. r.since <= clock' /\ (r.since = clock' => r.since = clock) /\ (r.since < clock => r.since < clock')
  BY <1>1
<1>4. \A p \in Person : Settled(p) \/ Pending(r, p) => Settled(p)' \/ Pending(r, p)'
  BY DEF Onwards, Pending
<1>5. (\E p \in Person : ~table[p].whole) => \E p \in Person : ~table'[p].whole
  BY DEF Onwards
<1> QED
  BY <1>2, <1>3, <1>4, <1>5 DEF RunOk, LaterPass

\* What a write of the tables is for all others.
TablesOk ==
  /\ Onwards
  /\ drawn' \in Nat /\ table' \in [Person -> SourceRow] /\ outbox' \in SUBSET NoticeRow
  /\ stream' \in Seq(NoticeRow) /\ InStream \subseteq InStream'
  /\ \A o \in outbox' : o \in outbox \/ o \in InStream'
  /\ Fewer /\ UNCHANGED <<replay, told>> => Identified'

LEMMA RewriteIsOk ==
  ASSUME WaitInv, NEW p \in Person, NEW t \in SourceRow, NEW new \in SUBSET NoticeRow,
         Rewrites(p, t, new), \A x, y \in new : x = y, stream' = stream \o SetToSeq(new),
         UNCHANGED <<clock, setting>>
  PROVE  TablesOk /\ Settled(p)'
<1>1. Onwards /\ Settled(p)'
  BY SomebodyRewrites
<1>2. stream' \in Seq(NoticeRow) /\ InStream' = InStream \cup new
  BY StreamGrows DEF WaitInv, WTypeOK
<1>3. /\ drawn' \in Nat /\ drawn < drawn' /\ drawn <= drawn' /\ table' \in [Person -> SourceRow]
      /\ outbox' \in SUBSET NoticeRow
      /\ \A o \in outbox' : o \in outbox \/ o \in new
  BY WaitNow DEF Rewrites
<1>4. ASSUME Fewer, UNCHANGED <<replay, told>> PROVE Identified'
  <2> DEFINE fresh == new \cup (IF t.whole THEN {Notice(p, t)} ELSE {})
  <2>1. Notice(p, t) \in NoticeRow /\ Notice(p, t).id = drawn'
    BY DEF Notice, NoticeRow, SourceRow, Rewrites
  <2>2. /\ fresh \in SUBSET NoticeRow
        /\ \A x \in fresh : x.id = drawn' /\ drawn < drawn'
        /\ \A x, y \in fresh : x = y
    BY <1>3, <2>1 DEF Rewrites
  <2>3. ASSUME NEW x \in NoticeRow, Carried(x)' PROVE Carried(x) \/ x \in fresh
    <3>1. CASE x \in outbox' \/ x \in InStream' \/ x \in replay'.left
      BY <1>2, <1>3, <1>4, <3>1 DEF Carried
    <3>2. ASSUME NEW q \in Person, Whole(table'[q]), x = Notice(q, table'[q])
          PROVE  Carried(x) \/ x \in fresh
      <4>1. CASE q = p
        BY <3>2, <4>1, WaitNow DEF Rewrites, Whole
      <4>2. CASE q # p
        BY <3>2, <4>2, WaitNow DEF Rewrites, Carried
      <4> QED
        BY <4>1, <4>2
    <3>3. ASSUME NEW b \in Backfiller, NEW q \in Person, Whole(backfill'[b].items[q]),
                 x = Notice(q, backfill'[b].items[q])
          PROVE  Carried(x)
      BY <1>4, <3>3 DEF Fewer, Whole, Carried
    <3> HIDE DEF fresh
    <3> QED
      BY <2>3, <3>1, <3>2, <3>3 DEF Carried
  <2> HIDE DEF fresh
  <2>4. \A o \in outbox' \cup replay'.left : o.id # 0
    <3>1. \A o \in outbox \cup replay.left : o.id # 0
      BY DEF WaitInv, Identified
    <3>2. \A o \in new : o.id # 0
      BY WaitNow DEF Rewrites
    <3> QED
      BY <1>3, <1>4, <3>1, <3>2
  <2>5. clock' \in Nat /\ clock <= clock' /\ told \subseteq told'
        /\ \A id \in replay'.done : id \in replay.done
    BY <1>4, WaitNow
  <2> QED
    BY <1>3, <2>2, <2>3, <2>4, <2>5, StaysIdentified
<1> QED
  BY <1>1, <1>2, <1>3, <1>4 DEF TablesOk

\* Nothing new is carried by anybody.
LEMMA NothingFresh ==
  ASSUME WaitInv, Onwards, UNCHANGED drawn, outbox' \subseteq outbox \cup InStream',
         InStream' \subseteq InStream \cup {x \in NoticeRow : Carried(x) /\ x.id # 0},
         outbox' \subseteq outbox \cup {x \in NoticeRow : Carried(x) /\ x.id # 0},
         \A p \in Person : table'[p] = table[p] \/ ~table'[p].there,
         Fewer, UNCHANGED <<replay, told>>
  PROVE  Identified'
<1> DEFINE fresh == {}
<1>1. ASSUME NEW x \in NoticeRow, Carried(x)' PROVE Carried(x) \/ x \in fresh
  <2>1. CASE x \in outbox' \/ x \in InStream' \/ x \in replay'.left
    BY <2>1 DEF Carried
  <2>2. ASSUME NEW p \in Person, Whole(table'[p]), x = Notice(p, table'[p]) PROVE Carried(x)
    BY <2>2 DEF Whole, Carried
  <2>3. ASSUME NEW b \in Backfiller, NEW p \in Person, Whole(backfill'[b].items[p]),
               x = Notice(p, backfill'[b].items[p])
        PROVE  Carried(x)
    BY <2>3 DEF Fewer, Whole, Carried
  <2> QED
    BY <1>1, <2>1, <2>2, <2>3 DEF Carried
<1>2. \A o \in outbox' \cup replay'.left : o.id # 0
  BY DEF WaitInv, Identified
<1>3. /\ drawn' \in Nat /\ drawn <= drawn' /\ clock' \in Nat /\ clock <= clock' /\ told \subseteq told'
      /\ \A id \in replay'.done : id \in replay.done
  BY WaitNow DEF Onwards
<1>4. /\ fresh \in SUBSET NoticeRow /\ \A x, y \in fresh : x = y
      /\ \A x \in fresh : x.id = drawn' /\ drawn < drawn'
  OBVIOUS
<1> HIDE DEF fresh
<1> QED
  BY <1>1, <1>2, <1>3, <1>4, StaysIdentified

LEMMA ItemsTyped ==
  ASSUME WaitInv, NEW b \in Backfiller
  PROVE  /\ backfill[b] \in BackfillRun /\ backfill[b].items \in [Person -> SourceRow]
         /\ \A p \in Person : backfill[b].items[p] \in SourceRow /\ ItemOk(backfill[b].items[p], p)
         /\ RunOk(backfill[b])
  BY DEF WaitInv, WTypeOK, BackfillRun, ItemsOk

LEMMA NoticeTyped ==
  ASSUME NEW p \in Person, NEW i \in SourceRow
  PROVE  /\ Notice(p, i) \in NoticeRow
         /\ Notice(p, i).id = i.id /\ Notice(p, i).of = p /\ Notice(p, i).until = i.until
  BY DEF Notice, NoticeRow, SourceRow

LEMMA GivenAnId ==
  ASSUME NEW i \in SourceRow, NEW n \in Nat
  PROVE  LET new == [i EXCEPT !.id = n, !.v1 = TRUE] IN
         /\ new \in SourceRow /\ new.there = i.there /\ new.whole = i.whole /\ new.v1
         /\ new.id = n /\ new.until = i.until
  BY DEF SourceRow

\* Whoever is on the list with an id that is noticed has the notice.
LEMMA NoticedIs ==
  ASSUME WaitInv, NEW b \in Backfiller, NEW p \in Person,
         LET i == backfill[b].items[p] IN Whole(i) /\ i.v1 /\ Noticed(i.id)
  PROVE  Notice(p, backfill[b].items[p]) \in outbox
<1> DEFINE i == backfill[b].items[p]
<1>1. i \in SourceRow /\ ItemOk(i, p) /\ i.id # 0
  BY ItemsTyped DEF ItemOk, Whole
<1>2. Notice(p, i) \in Notices /\ Notice(p, i).id = i.id
  BY <1>1, NoticeTyped DEF Notices, Carried
<1>3. PICK o \in outbox : o.id = i.id
  BY DEF Noticed
<1>4. o \in Notices
  BY <1>3, WaitNow DEF Notices, Carried
<1>5. o = Notice(p, i)
  BY <1>1, <1>2, <1>3, <1>4 DEF WaitInv, Identified
<1> QED
  BY <1>3, <1>5

LEMMA MigrateIsOk ==
  ASSUME WaitInv, NEW b \in Backfiller, NEW p \in Person,
         LET i == backfill[b].items[p] IN
           Whole(i) /\ ~i.v1 /\ Unmigrated(p, i) /\ Migrate(p, i, backfill[b].since),
         UNCHANGED <<clock, setting>>
  PROVE  TablesOk /\ Settled(p)'
<1> DEFINE i     == backfill[b].items[p]
           since == backfill[b].since
           here  == table[p].there
           new   == [i EXCEPT !.id = drawn + 1, !.v1 = TRUE]
           t     == [new EXCEPT !.whole = here, !.until = IF here THEN @ ELSE Never]
           n     == IF p \in Real /\ i.until > since THEN {Notice(p, new)} ELSE {}
<1>1. /\ i \in SourceRow /\ ItemOk(i, p) /\ i.there /\ i.whole /\ ~i.v1 /\ since \in Nat
      /\ since <= clock /\ table[p] \in SourceRow /\ clock \in Nat /\ drawn \in Nat /\ Never \in Nat
  BY ItemsTyped, WaitNow DEF RunOk, BackfillRun, Whole
<1>2. ~table[p].v1 /\ table[p].id = i.id /\ (here => table[p] = i)
  BY <1>1, WaitNow DEF Unmigrated, RowOk, ItemOk
<1>3. Live(i) => here
  BY <1>1, SMTT(40) DEF ItemOk
<1>4. /\ drawn' = drawn + 1
      /\ table' = [table EXCEPT ![p] = t]
      /\ outbox' = (outbox \ {o \in outbox : o.id = table[p].id}) \cup n
      /\ stream' = stream \o SetToSeq(n)
  BY <1>2 DEF Migrate, Draw, Replace
<1>5. /\ new \in SourceRow /\ new.there /\ new.whole /\ new.v1 /\ new.id = drawn + 1
      /\ new.until = i.until
  <2>1. drawn + 1 \in Nat
    BY <1>1
  <2> QED
    BY <1>1, <2>1, GivenAnId, ZenonT(60)
<1> HIDE DEF new
<1>6. /\ t \in SourceRow /\ t.there /\ t.v1 /\ t.id = drawn + 1
      /\ t.whole = here /\ t.until = IF here THEN i.until ELSE Never
  BY <1>1, <1>5 DEF SourceRow
<1>7. Notice(p, new) \in NoticeRow /\ Notice(p, new).id = drawn + 1 /\ Notice(p, new).of = p
      /\ Notice(p, new).until = i.until
  BY <1>5, NoticeTyped
<1>8. here => Notice(p, new) = Notice(p, t)
  BY <1>5, <1>6 DEF Notice
<1> HIDE DEF t
<1>9. Rewrites(p, t, n)
  <2>1. \A m \in n : m.id = drawn + 1 /\ m.of = p /\ (Live(m) \/ t.whole => m = Notice(p, t))
    <3>1. Live(Notice(p, new)) => here
      BY <1>3, <1>7 DEF Live
    <3> QED
      BY <1>6, <1>7, <1>8, <3>1
  <2>2. p \in Real /\ t.whole /\ Live(t) => Notice(p, t) \in n
    <3>1. here /\ Live(t) => i.until > since
      BY <1>1, <1>6 DEF Live, SourceRow
    <3> QED
      BY <1>6, <1>8, <3>1
  <2>3. t.whole \/ t.until = Never
    BY <1>6
  <2>4. table[p].there => t.whole /\ t.until = table[p].until
    BY <1>2, <1>6
  <2> QED
    BY <1>2, <1>4, <1>6, <2>1, <2>2, <2>3, <2>4 DEF Rewrites
<1>10. n \in SUBSET NoticeRow /\ \A x, y \in n : x = y
  BY <1>7
<1> HIDE DEF n
<1> QED
  BY <1>4, <1>6, <1>9, <1>10, RewriteIsOk

LEMMA CompleteIsOk ==
  ASSUME WaitInv, NEW b \in Backfiller, NEW p \in Person,
         LET i == backfill[b].items[p] IN
           Whole(i) /\ i.v1 /\ Complete(p, i, backfill[b].since),
         UNCHANGED <<clock, setting>>
  PROVE  /\ TablesOk
         /\ table[p] = backfill[b].items[p] => Settled(p)'
         /\ Settled(p) /\ backfill[b].since = clock => outbox' = outbox
<1> DEFINE i     == backfill[b].items[p]
           since == backfill[b].since
           new   == IF p \in Real /\ i.until > since /\ ~Noticed(i.id) THEN {Notice(p, i)} ELSE {}
<1>1. /\ i \in SourceRow /\ ItemOk(i, p) /\ i.there /\ i.whole /\ i.v1 /\ since \in Nat /\ i.id # 0
      /\ since <= clock /\ clock \in Nat /\ drawn \in Nat /\ i.until \in Nat
  BY ItemsTyped, WaitNow, SMTT(40) DEF RunOk, BackfillRun, Whole, ItemOk, SourceRow
<1>2. outbox' = outbox \cup new /\ stream' = stream \o SetToSeq(new) /\ UNCHANGED <<table, drawn>>
  BY DEF Complete, Put
<1>3. Notice(p, i) \in NoticeRow /\ Notice(p, i).id = i.id /\ Carried(Notice(p, i))
  BY <1>1, NoticeTyped DEF Carried
<1>4. Noticed(i.id) => Notice(p, i) \in outbox
  BY <1>1, NoticedIs
<1>5. new \in SUBSET {Notice(p, i)} /\ new \in SUBSET NoticeRow /\ \A x, y \in new : x = y
  BY <1>3, SMTT(40)
<1>6. table[p] = i /\ Due(p) => Notice(p, i) \in outbox'
  <2>1. table[p] = i /\ Due(p) => p \in Real /\ i.until > since
    BY <1>1 DEF Due, Live
  <2> QED
    BY <1>2, <1>4, <2>1
<1>7. Settled(p) /\ since = clock => new = {}
  <2> SUFFICES ASSUME Settled(p), since = clock, p \in Real, i.until > since, ~Noticed(i.id)
               PROVE  FALSE
    OBVIOUS
  <2>1. table[p] = i /\ Due(p)
    BY <1>1 DEF ItemOk, Live, Due
  <2>2. Notice(p, i) \in outbox
    BY <1>1, <2>1 DEF Settled
  <2> QED
    BY <1>3, <2>2 DEF Noticed
<1> HIDE DEF new
<1>8. Onwards /\ (table[p] = i => Settled(p)')
  BY <1>1, <1>2, <1>5, <1>6, SomebodyCompletes
<1>9. stream' \in Seq(NoticeRow) /\ InStream' = InStream \cup new
  BY <1>2, <1>5, StreamGrows DEF WaitInv, WTypeOK
<1>10. Fewer /\ UNCHANGED <<replay, told>> => Identified'
  BY <1>1, <1>2, <1>3, <1>5, <1>8, <1>9, NothingFresh
<1>11. TablesOk
  BY <1>2, <1>5, <1>8, <1>9, <1>10, WaitNow DEF TablesOk
<1> QED
  BY <1>2, <1>7, <1>8, <1>11, SMTT(40)

\* Nobody writes the tables; time may pass.
LEMMA NothingIsOk ==
  ASSUME WaitInv, UNCHANGED <<table, outbox, stream, drawn, setting>>,
         clock' \in Nat, clock <= clock'
  PROVE  TablesOk
<1>1. Onwards
  BY NobodyWrites
<1>2. InStream' = InStream
  BY DEF InStream
<1>3. Fewer /\ UNCHANGED <<replay, told>> => Identified'
  BY <1>1, <1>2, NothingFresh
<1> QED
  BY <1>1, <1>2, <1>3, WaitNow DEF TablesOk, WaitInv, WTypeOK

\* A run is done with a row it has as it is: the row is settled; and a row that
\* was settled is not written again unless the clock moved.
LEMMA FillIsOk ==
  ASSUME WaitInv, NEW b \in Backfiller, NEW p \in Person, Whole(backfill[b].items[p]),
         Fill(p, backfill[b].items[p], backfill[b].since), UNCHANGED <<clock, setting>>
  PROVE  /\ TablesOk
         /\ Pending(backfill[b], p) => Settled(p)'
         /\ backfill[b].items[p].v1 /\ Settled(p) /\ backfill[b].since = clock => outbox' = outbox
<1> DEFINE i == backfill[b].items[p]
<1>1. CASE ~i.v1 /\ Unmigrated(p, i)
  BY <1>1, MigrateIsOk DEF Fill
<1>2. CASE ~i.v1 /\ ~Unmigrated(p, i)
  <2>1. UNCHANGED <<table, outbox, drawn, stream>>
    BY <1>2 DEF Fill, tables
  <2>2. TablesOk
    BY <2>1, NothingIsOk, WaitNow
  <2>3. ~Pending(backfill[b], p)
    BY <1>2 DEF Pending, Unmigrated
  <2> QED
    BY <1>2, <2>2, <2>3
<1>3. CASE i.v1
  BY <1>3, CompleteIsOk DEF Fill, Pending
<1> QED
  BY <1>1, <1>2, <1>3

LEMMA PurgeIsOk == ASSUME WaitInv, Purge PROVE TablesOk
<1>1. Onwards
  BY PurgeOnwards
<1>2. UNCHANGED <<stream, drawn, replay, told>>
  BY DEF Purge
<1>3. NoRow \in SourceRow /\ ~NoRow.there
  BY DEF NoRow, SourceRow
<1>4. /\ outbox' \subseteq outbox /\ table' \in [Person -> SourceRow]
      /\ \A p \in Person : table'[p] = table[p] \/ ~table'[p].there
  BY <1>3, WaitNow DEF Purge
<1>5. InStream' = InStream
  BY <1>2 DEF InStream
<1>6. Fewer /\ UNCHANGED <<replay, told>> => Identified'
  BY <1>1, <1>2, <1>4, <1>5, NothingFresh
<1>7. drawn' \in Nat /\ stream' \in Seq(NoticeRow) /\ outbox' \in SUBSET NoticeRow
  BY <1>2, <1>4, WaitNow DEF WaitInv, WTypeOK
<1> QED
  BY <1>1, <1>4, <1>5, <1>6, <1>7 DEF TablesOk

------------------------------------------------------------------------------
(***************************************************************************)
(* The invariant after a step.                                             *)
(***************************************************************************)
LEMMA Everywhere ==
  ASSUME WaitInv, WTypeOK', Onwards, Identified', Replaying',
         \A c \in Backfiller : \/ backfill'[c] = backfill[c]
                               \/ /\ RunOk(backfill[c])'
                                  /\ \A p \in Person : ItemOk(backfill'[c].items[p], p)
  PROVE  WaitInv'
<1>1. ASSUME NEW c \in Backfiller, NEW p \in Person PROVE ItemOk(backfill[c].items[p], p)'
  <2>1. backfill'[c].items[p] \in SourceRow
    BY DEF WTypeOK, BackfillRun
  <2>2. ItemOk(backfill'[c].items[p], p)
    BY ItemsTyped
  <2>3. PICK i \in SourceRow : i = backfill'[c].items[p]
    BY <2>1
  <2>4. ItemOk(i, p)'
    BY <2>2, <2>3 DEF Onwards
  <2> QED
    BY <2>3, <2>4
<1>2. ASSUME NEW c \in Backfiller PROVE RunOk(backfill[c])'
  <2>1. CASE backfill'[c] = backfill[c]
    <3>1. PICK r \in BackfillRun : r = backfill[c]
      BY ItemsTyped
    <3>2. RunOk(r)'
      BY <3>1, ItemsTyped, RunStays
    <3> QED
      BY <2>1, <3>1, <3>2
  <2> QED
    BY <2>1
<1>3. ItemsOk'
  BY <1>1 DEF ItemsOk
<1>4. (\A p \in Person : RowOk(p))' /\ (\A o \in outbox : Leads(o))'
  BY DEF Onwards
<1> QED
  BY <1>2, <1>3, <1>4 DEF WaitInv

\* The tables were written, by a run of the backfill or by somebody else.
LEMMA TablesChange ==
  ASSUME WaitInv, WTypeOK', TablesOk, Identified', UNCHANGED <<replay, told, letters, enabled>>,
         \A c \in Backfiller : \/ backfill'[c] = backfill[c]
                               \/ /\ RunOk(backfill[c])' /\ backfill[c].at # "verified"
                                  /\ \A p \in Person : ItemOk(backfill'[c].items[p], p)
  PROVE  WaitInv'
<1>1. Onwards /\ InStream \subseteq InStream' /\ \A o \in outbox' : o \in outbox \/ o \in InStream'
  BY DEF TablesOk
<1>2. clock \in Nat /\ clock' \in Nat /\ clock <= clock'
  BY <1>1, WaitNow DEF Onwards
<1>3. Replaying
  BY DEF WaitInv
<1>4. replay.since \in Nat
  BY DEF WaitInv, WTypeOK, ReplayRun
<1>5. ASSUME NEW o \in outbox', Live(o)', Replayed PROVE Kept(o.id)'
  <2>1. CASE o \in InStream'
    BY <2>1 DEF Kept
  <2>2. CASE o \in outbox
    <3>1. Live(o)
      BY <1>2, <1>5, <2>2, WaitNow DEF Live
    <3>2. Kept(o.id)
      BY <1>3, <1>5, <2>2, <3>1 DEF Replaying
    <3> QED
      BY <1>1, <3>2 DEF Kept
  <2> QED
    BY <1>1, <2>1, <2>2
<1>6. backfill[Deployment].at = "verified" => backfill'[Deployment].at = "verified"
  BY WaitBounds
<1>7. Replayed' => Replayed
  BY DEF Replayed
<1>8. replay.since <= clock'
  BY <1>2, <1>3, <1>4 DEF Replaying
<1>9. Replaying'
  BY <1>3, <1>5, <1>6, <1>7, <1>8 DEF Replaying
<1> QED
  BY <1>1, <1>9, Everywhere

\* Nobody writes the tables.
LEMMA TablesStay ==
  ASSUME WaitInv, WTypeOK', UNCHANGED <<tables, backfill, clock, setting>>, Identified', Replaying'
  PROVE  WaitInv'
<1>1. UNCHANGED <<table, outbox, drawn, setting>> /\ clock' \in Nat /\ clock <= clock'
  BY WaitNow DEF tables
<1>2. Onwards
  BY <1>1, NobodyWrites
<1> QED
  BY <1>2, Everywhere

------------------------------------------------------------------------------
(***************************************************************************)
(* The handler, and time.                                                  *)
(***************************************************************************)
LEMMA SubmitKeeps ==
  ASSUME WaitInv, NEW p \in Person, Submit(p)
  PROVE  WaitInv'
<1> DEFINE t   == NewRow(drawn + 1)
           new == IF p \in Real THEN {Notice(p, t)} ELSE {}
<1>1. WTypeOK
  BY DEF WaitInv
<1>2. UNCHANGED <<tries, told, letters, enabled, backfill, replay, clock, mishaps, setting>>
  BY DEF Submit
<1>3. drawn' = drawn + 1 /\ ~table[p].there
  BY DEF Submit, Draw
<1>4. /\ table' = [table EXCEPT ![p] = t] /\ outbox' = outbox \cup new
      /\ stream' = stream \o SetToSeq(new)
  BY <1>3 DEF Submit, Put
<1>5. t \in SourceRow /\ t.there /\ t.v1 /\ t.whole /\ t.id = drawn + 1
  BY WaitNow, WaitBounds DEF NewRow, SourceRow
<1> HIDE DEF t
<1>6. Notice(p, t) \in NoticeRow /\ Notice(p, t).id = drawn + 1 /\ Notice(p, t).of = p
  BY <1>5, NoticeTyped
<1>7. table[p].id = 0 /\ ~table[p].v1
  BY <1>3, WaitNow DEF RowOk, NoRow
<1>8. outbox' = (outbox \ {o \in outbox : o.id = table[p].id}) \cup new
  BY <1>4, <1>7, WaitNow
<1>9. Rewrites(p, t, new)
  BY <1>3, <1>4, <1>5, <1>6, <1>7, <1>8 DEF Rewrites
<1>10. new \in SUBSET NoticeRow /\ \A x, y \in new : x = y
  BY <1>6
<1> HIDE DEF new
<1>11. TablesOk
  BY <1>2, <1>4, <1>5, <1>9, <1>10, RewriteIsOk
<1>12. Fewer /\ Identified'
  BY <1>2, <1>11 DEF TablesOk, Fewer
<1>13. WTypeOK'
  BY <1>1, <1>2, <1>11 DEF WTypeOK, TablesOk
<1> QED
  BY <1>2, <1>11, <1>12, <1>13, TablesChange

LEMMA TickKeeps == ASSUME WaitInv, Tick PROVE WaitInv'
<1>1. WTypeOK
  BY DEF WaitInv
<1>2. /\ UNCHANGED <<table, outbox, drawn, stream, tries, told, letters, enabled, backfill, replay, mishaps>>
      /\ UNCHANGED setting
      /\ clock < setting.ends /\ clock' = clock + 1
  BY DEF Tick, tables
<1>3. clock' \in Nat /\ clock <= clock' /\ clock' \in 0..setting.ends
  BY <1>2, WaitNow
<1>4. TablesOk
  BY <1>2, <1>3, NothingIsOk
<1>5. Fewer /\ Identified'
  BY <1>2, <1>4 DEF TablesOk, Fewer
<1>6. WTypeOK'
  BY <1>1, <1>2, <1>3 DEF WTypeOK
<1> QED
  BY <1>2, <1>4, <1>5, <1>6, TablesChange

LEMMA PurgeKeeps == ASSUME WaitInv, Purge PROVE WaitInv'
<1>1. WTypeOK
  BY DEF WaitInv
<1>2. UNCHANGED <<stream, tries, told, letters, enabled, backfill, replay, clock, drawn, mishaps, setting>>
  BY DEF Purge
<1>3. TablesOk
  BY PurgeIsOk
<1>4. Fewer /\ Identified'
  BY <1>2, <1>3 DEF TablesOk, Fewer
<1>5. WTypeOK'
  BY <1>1, <1>2, <1>3 DEF WTypeOK, TablesOk
<1> QED
  BY <1>2, <1>3, <1>4, <1>5, TablesChange

------------------------------------------------------------------------------
(***************************************************************************)
(* backfill-outbox.js.                                                     *)
(***************************************************************************)
\* A run that had not verified becomes r; the tables may have been written.
LEMMA RunChange ==
  ASSUME WaitInv, NEW b \in Backfiller, backfill[b].at # "verified",
         backfill'[b] \in BackfillRun, RunOk(backfill[b])',
         backfill' = [backfill EXCEPT ![b] = backfill'[b]],
         \A p \in Person : ItemOk(backfill'[b].items[p], p),
         TablesOk, Identified', Elsewhere, mishaps' \in Nat
  PROVE  WaitInv'
<1>1. WTypeOK
  BY DEF WaitInv
<1>2. UNCHANGED <<tries, told, letters, enabled, replay, clock, setting>>
  BY DEF Elsewhere
<1>3. \A c \in Backfiller : c # b => backfill'[c] = backfill[c]
  BY <1>1 DEF WTypeOK
<1>4. backfill' \in [Backfiller -> BackfillRun]
  BY <1>1 DEF WTypeOK
<1>5. WTypeOK'
  BY <1>1, <1>2, <1>4 DEF WTypeOK, TablesOk
<1>6. \A c \in Backfiller : \/ backfill'[c] = backfill[c]
                            \/ /\ RunOk(backfill[c])' /\ backfill[c].at # "verified"
                               /\ \A p \in Person : ItemOk(backfill'[c].items[p], p)
  BY <1>3
<1> QED
  BY <1>2, <1>5, <1>6, TablesChange

\* A run keeps what it has of the rows it read, or less.
LEMMA RunLess ==
  ASSUME WaitInv, NEW b \in Backfiller, backfill[b].at # "verified",
         backfill'[b] \in BackfillRun, RunOk(backfill[b])',
         backfill' = [backfill EXCEPT ![b] = backfill'[b]],
         \A p \in Person : backfill'[b].items[p].there => backfill'[b].items[p] = backfill[b].items[p],
         TablesOk, Elsewhere, mishaps' \in Nat
  PROVE  WaitInv'
<1>1. \A p \in Person : ItemOk(backfill'[b].items[p], p)
  BY ItemsTyped DEF ItemOk
<1>2. \A c \in Backfiller : c # b => backfill'[c] = backfill[c]
  BY DEF WaitInv, WTypeOK
<1>3. Fewer
  BY <1>2 DEF Fewer
<1>4. Identified'
  BY <1>3 DEF TablesOk, Elsewhere
<1> QED
  BY <1>1, <1>4, RunChange

LEMMA NoRunTyped ==
  /\ NoRun \in BackfillRun /\ NoRun.at = "idle" /\ NoRun.since = 0 /\ NoRun.pass = 1 /\ ~NoRun.dirty
  /\ \A p \in Person : ~NoRun.items[p].there /\ NoRun.items[p] = NoRow
  /\ NoRow \in SourceRow
<1>1. NoRow \in SourceRow /\ ~NoRow.there
  BY DEF NoRow, SourceRow
<1>2. 1 \in 1..Passes
  BY WaitBounds
<1> QED
  BY <1>1, <1>2 DEF NoRun, BackfillRun

\* A run that has nothing any more.
LEMMA EmptyRun ==
  ASSUME NEW at \in {"scanning", "verified", "failed", "cut"}, NEW since \in Nat
  PROVE  LET r == [NoRun EXCEPT !.at = at, !.since = since] IN
         /\ r \in BackfillRun /\ r.at = at /\ r.since = since /\ r.pass = 1
         /\ \A p \in Person : ~r.items[p].there
  BY NoRunTyped DEF BackfillRun

LEMMA BeginBackfillKeeps ==
  ASSUME WaitInv, NEW b \in Backfiller, BeginBackfill(b)
  PROVE  WaitInv'
<1> DEFINE r == [NoRun EXCEPT !.at = "scanning", !.since = clock]
<1>1. UNCHANGED <<table, outbox, stream, drawn, clock, setting>> /\ mishaps' \in Nat
  BY DEF BeginBackfill, Elsewhere, tables, WaitInv, WTypeOK
<1>2. TablesOk
  BY <1>1, NothingIsOk, WaitNow, SMTT(40)
<1>3. /\ r \in BackfillRun /\ r.at = "scanning" /\ r.since = clock /\ r.pass = 1
      /\ \A p \in Person : ~r.items[p].there
  BY EmptyRun, WaitNow
<1> HIDE DEF r
<1>4. backfill' = [backfill EXCEPT ![b] = r] /\ backfill'[b] = r /\ backfill[b].at # "verified"
  BY DEF BeginBackfill, Becomes, WaitInv, WTypeOK, r
<1>5. RunOk(backfill[b])'
  BY <1>1, <1>3, <1>4, WaitNow DEF RunOk, LaterPass
<1> QED
  BY <1>2, <1>3, <1>4, <1>5, <1>1, RunLess DEF BeginBackfill

LEMMA ScanKeeps ==
  ASSUME WaitInv, NEW b \in Backfiller, Scan(b)
  PROVE  WaitInv'
<1> DEFINE old == backfill[b]
           r   == [old EXCEPT !.items = table, !.at = "working"]
<1>1. UNCHANGED <<table, outbox, stream, drawn, clock, setting, replay, told>> /\ mishaps' \in Nat
  BY DEF Scan, Elsewhere, tables, WaitInv, WTypeOK
<1>2. TablesOk
  BY <1>1, NothingIsOk, WaitNow
<1>3. old \in BackfillRun /\ RunOk(old) /\ old.at = "scanning"
  BY ItemsTyped DEF Scan
<1>4. /\ r \in BackfillRun /\ r.at = "working" /\ r.since = old.since /\ r.pass = old.pass
      /\ r.dirty = old.dirty /\ r.items = table
  BY <1>3, WaitNow DEF BackfillRun
<1> HIDE DEF r
<1>5. backfill' = [backfill EXCEPT ![b] = r] /\ backfill'[b] = r
  BY DEF Scan, Becomes, WaitInv, WTypeOK, r
<1>6. ASSUME NEW p \in Person PROVE ItemOk(table[p], p)
  BY WaitNow DEF ItemOk, RowOk
<1>7. RunOk(r)
  <2>1. \A p \in Person : Settled(p) \/ Pending(r, p)
    BY <1>4 DEF Settled, Pending
  <2>2. LaterPass(r) => LaterPass(old)
    BY <1>3, <1>4 DEF LaterPass
  <2>3. LaterPass(r) => \A p \in Person : table[p].there => table[p].v1
    BY <1>3, <2>2 DEF RunOk, Settled
  <2> QED
    BY <1>3, <1>4, <2>1, <2>2, <2>3 DEF RunOk
<1>8. RunOk(backfill[b])'
  <2>1. PICK q \in BackfillRun : q = r
    BY <1>4
  <2>2. RunOk(q)'
    BY <1>2, <1>7, <2>1, RunStays DEF TablesOk
  <2> QED
    BY <1>5, <2>1, <2>2
<1>9. Identified'
  <2> DEFINE fresh == {}
  <2>1. ASSUME NEW x \in NoticeRow, Carried(x)' PROVE Carried(x) \/ x \in fresh
    <3>1. CASE x \in outbox' \/ x \in InStream' \/ x \in replay'.left
      BY <1>1, <3>1 DEF Carried, InStream
    <3>2. ASSUME NEW p \in Person, Whole(table'[p]), x = Notice(p, table'[p]) PROVE Carried(x)
      BY <1>1, <3>2 DEF Carried
    <3>3. ASSUME NEW c \in Backfiller, NEW p \in Person, Whole(backfill'[c].items[p]),
                 x = Notice(p, backfill'[c].items[p])
          PROVE  Carried(x)
      <4>1. CASE c = b
        BY <1>4, <1>5, <3>3, <4>1 DEF Carried
      <4>2. CASE c # b
        <5>1. backfill'[c] = backfill[c]
          BY <1>5, <4>2 DEF WaitInv, WTypeOK
        <5> QED
          BY <3>3, <5>1 DEF Carried
      <4> QED
        BY <4>1, <4>2
    <3> QED
      BY <2>1, <3>1, <3>2, <3>3 DEF Carried
  <2>2. /\ fresh \in SUBSET NoticeRow /\ \A x, y \in fresh : x = y
        /\ \A x \in fresh : x.id = drawn' /\ drawn < drawn'
    OBVIOUS
  <2> HIDE DEF fresh
  <2>3. /\ drawn' \in Nat /\ drawn <= drawn' /\ clock' \in Nat /\ clock <= clock' /\ told \subseteq told'
        /\ \A id \in replay'.done : id \in replay.done
        /\ \A o \in outbox' \cup replay'.left : o.id # 0
    BY <1>1, WaitNow DEF WaitInv, Identified
  <2> QED
    BY <2>1, <2>2, <2>3, StaysIdentified
<1> QED
  BY <1>1, <1>2, <1>3, <1>4, <1>5, <1>6, <1>8, <1>9, RunChange DEF Scan

LEMMA FailedTyped ==
  ASSUME NEW old \in BackfillRun
  PROVE  /\ Failed(old) \in BackfillRun /\ Failed(old).at = "failed" /\ Failed(old).since = old.since
         /\ \A p \in Person : ~Failed(old).items[p].there
  BY NoRunTyped DEF BackfillRun, Failed

LEMMA WorkKeeps ==
  ASSUME WaitInv, NEW b \in Backfiller, Work(b)
  PROVE  WaitInv'
<1> DEFINE old == backfill[b]
<1>1. UNCHANGED <<tries, told, letters, enabled, replay, clock, setting, mishaps>> /\ mishaps' \in Nat
  BY DEF Work, Elsewhere, WaitInv, WTypeOK
<1>2. /\ old \in BackfillRun /\ RunOk(old) /\ old.at = "working" /\ old.at # "verified"
      /\ \A p \in Person : ItemOk(old.items[p], p) /\ old.items[p] \in SourceRow
      /\ old.since \in Nat /\ clock \in Nat /\ old.since <= clock /\ old.dirty \in BOOLEAN
  BY ItemsTyped, WaitNow DEF Work, RunOk, BackfillRun
<1>3. Elsewhere
  BY SMTT(40) DEF Work
<1>4. PICK p \in Person :
        /\ old.items[p].there
        /\ IF ~old.items[p].whole
           THEN Becomes(b, Failed(old)) /\ UNCHANGED <<tables, stream>>
           ELSE /\ Fill(p, old.items[p], old.since)
                /\ Becomes(b, [old EXCEPT !.items[p] = NoRow,
                                          !.dirty = @ \/ ~old.items[p].v1 \/ outbox # outbox'])
  BY DEF Work
<1>5. CASE ~old.items[p].whole
  <2> DEFINE r == Failed(old)
  <2>1. UNCHANGED <<table, outbox, stream, drawn>> /\ Becomes(b, r)
    BY <1>4, <1>5 DEF tables
  <2>2. TablesOk
    BY <1>1, <2>1, NothingIsOk, WaitNow
  <2>3. /\ r \in BackfillRun /\ r.at = "failed" /\ r.since = old.since
        /\ \A q \in Person : ~r.items[q].there
    BY <1>2, FailedTyped
  <2> HIDE DEF r
  <2>4. backfill' = [backfill EXCEPT ![b] = r] /\ backfill'[b] = r
    BY <2>1 DEF Becomes, WaitInv, WTypeOK
  <2>5. ~table'[p].whole
    BY <1>2, <1>4, <1>5, <2>1 DEF ItemOk
  <2>6. RunOk(backfill[b])'
    BY <1>1, <1>2, <2>3, <2>4, <2>5 DEF RunOk, LaterPass
  <2> QED
    BY <1>1, <1>2, <1>3, <2>2, <2>3, <2>4, <2>6, RunLess
<1>6. CASE old.items[p].whole
  <2>0. PICK dirty \in BOOLEAN : dirty = (old.dirty \/ ~old.items[p].v1 \/ outbox # outbox')
    OBVIOUS
  <2>a. PICK r : r = [old EXCEPT !.items[p] = NoRow, !.dirty = dirty]
    OBVIOUS
  <2>1. Fill(p, old.items[p], old.since) /\ Whole(old.items[p])
    BY <1>4, <1>6 DEF Whole
  <2>2. backfill' = [backfill EXCEPT ![b] = r]
    <3>1. [old EXCEPT !.items[p] = NoRow, !.dirty = @ \/ ~old.items[p].v1 \/ outbox # outbox'] = r
      BY <2>0, <2>a
    <3> QED
      BY <1>4, <1>6, <3>1 DEF Becomes
  <2>3. /\ TablesOk /\ (Pending(old, p) => Settled(p)')
        /\ old.items[p].v1 /\ Settled(p) /\ old.since = clock => outbox' = outbox
    BY <1>1, <2>1, FillIsOk
  <2>4. /\ r \in BackfillRun /\ r.at = "working" /\ r.since = old.since /\ r.pass = old.pass
        /\ r.dirty = dirty /\ r.items[p] = NoRow
        /\ \A q \in Person : q # p => r.items[q] = old.items[q]
    <3>1. old \in BackfillRun /\ old.at = "working"
      BY <1>2
    <3> HIDE DEF old
    <3> QED
      BY <3>1, <2>a, NoRunTyped DEF BackfillRun
  <2>5. backfill'[b] = r
    BY <2>2 DEF WaitInv, WTypeOK
  <2>6. \A q \in Person : r.items[q].there => q # p /\ r.items[q] = old.items[q]
    BY <2>4, NoRunTyped
  <2>7. Onwards /\ \A q \in Person : Settled(q) => Settled(q)'
    BY <2>3 DEF TablesOk, Onwards
  <2>8. ASSUME NEW q \in Person PROVE Settled(q)' \/ Pending(r, q)'
    <3>1. Settled(q) \/ Pending(old, q)
      BY <1>2 DEF RunOk
    <3>2. CASE q = p
      BY <2>3, <2>7, <3>1, <3>2
    <3>3. CASE q # p /\ Pending(old, q)
      <4>1. Settled(q)' \/ table'[q] = table[q]
        BY <2>7 DEF Onwards
      <4> QED
        BY <2>4, <3>3, <4>1 DEF Pending
    <3> QED
      BY <2>7, <3>1, <3>2, <3>3
  <2>9. LaterPass(r) => LaterPass(old)
    BY <1>2, <2>4 DEF LaterPass
  <2>10. LaterPass(r) => \A q \in Person : Settled(q)
    BY <1>2, <2>9 DEF RunOk
  <2>11. LaterPass(r) => \A q \in Person : old.items[q].there => old.items[q].v1
    BY <1>2, <2>9 DEF RunOk
  <2>12. LaterPass(r) /\ r.since = clock => ~r.dirty
    BY <1>2, <1>4, <2>0, <2>3, <2>4, <2>9, <2>10, <2>11 DEF RunOk
  <2>13. RunOk(r)'
    <3>1. r.since <= clock' /\ r.at # "failed" /\ r.at # "verified" /\ clock' = clock
      BY <1>1, <1>2, <2>4
    <3>2. LaterPass(r) => \A q \in Person : Settled(q)'
      BY <2>7, <2>10
    <3>3. LaterPass(r) => \A q \in Person : r.items[q].there => r.items[q].v1
      BY <2>6, <2>11
    <3> QED
      BY <2>8, <2>12, <3>1, <3>2, <3>3 DEF RunOk, LaterPass
  <2>14. RunOk(backfill[b])'
    BY <2>5, <2>13
  <2> QED
    BY <1>1, <1>2, <1>3, <2>2, <2>3, <2>4, <2>5, <2>6, <2>14, RunLess, ZenonT(60)
<1> QED
  BY <1>5, <1>6

LEMMA EndPassKeeps ==
  ASSUME WaitInv, NEW b \in Backfiller, EndPass(b)
  PROVE  WaitInv'
<1> DEFINE old == backfill[b]
<1>1. /\ UNCHANGED <<table, outbox, stream, drawn, clock, setting, mishaps>> /\ mishaps' \in Nat
      /\ Elsewhere
  BY DEF EndPass, Elsewhere, tables, WaitInv, WTypeOK
<1>2. /\ old \in BackfillRun /\ RunOk(old) /\ old.at = "working" /\ old.at # "verified"
      /\ old.since \in Nat /\ clock \in Nat /\ old.since <= clock /\ old.pass \in 1..Passes
      /\ Passes \in Nat
  BY ItemsTyped, WaitNow, WaitBounds DEF EndPass, RunOk, BackfillRun
<1>3. \A p \in Person : ~old.items[p].there
  BY DEF EndPass
<1>4. \A p \in Person : Settled(p)
  BY <1>2, <1>3 DEF RunOk, Pending
<1>5. TablesOk
  BY <1>1, NothingIsOk, WaitNow
<1>6. \A p \in Person : Settled(p)'
  BY <1>4, <1>5 DEF TablesOk, Onwards
<1>7. PICK r : r = IF ~old.dirty THEN [NoRun EXCEPT !.at = "verified"]
                   ELSE IF old.pass = Passes THEN Failed(old)
                   ELSE [old EXCEPT !.at = "scanning", !.pass = @ + 1, !.dirty = DirtyAtFirst(old)]
  OBVIOUS
<1>8. backfill' = [backfill EXCEPT ![b] = r] /\ backfill'[b] = r
  BY <1>7 DEF EndPass, Becomes, WaitInv, WTypeOK
<1>9. /\ r \in BackfillRun /\ (\A p \in Person : ~r.items[p].there) /\ RunOk(r)'
  <2>1. CASE ~old.dirty
    <3>1. r = [NoRun EXCEPT !.at = "verified"]
      BY <1>7, <2>1
    <3>2. /\ r \in BackfillRun /\ r.at = "verified" /\ r.since = 0
          /\ \A p \in Person : ~r.items[p].there
      BY <3>1, NoRunTyped DEF BackfillRun
    <3> QED
      BY <1>1, <1>2, <1>6, <3>2 DEF RunOk, LaterPass
  <2>2. CASE old.dirty /\ old.pass = Passes
    <3>1. r = Failed(old)
      BY <1>7, <2>2
    <3>2. /\ r \in BackfillRun /\ r.at = "failed" /\ r.since = old.since
          /\ \A p \in Person : ~r.items[p].there
      BY <1>2, <3>1, FailedTyped
    <3>3. Passes >= 2 => LaterPass(old)
      BY <1>2, <2>2 DEF LaterPass
    <3>4. Passes >= 2 => old.since < clock
      BY <1>2, <2>2, <3>3 DEF RunOk
    <3> QED
      BY <1>1, <1>2, <3>2, <3>4 DEF RunOk, LaterPass
  <2>3. CASE old.dirty /\ old.pass # Passes
    <3>1. r = [old EXCEPT !.at = "scanning", !.pass = @ + 1, !.dirty = DirtyAtFirst(old)]
      BY <1>7, <2>3
    <3>2. old.pass + 1 \in 1..Passes
      BY <1>2, <2>3
    <3>3. /\ r \in BackfillRun /\ r.at = "scanning" /\ r.since = old.since /\ ~r.dirty
          /\ r.items = old.items
      BY <1>2, <3>1, <3>2 DEF BackfillRun, DirtyAtFirst
    <3> QED
      BY <1>1, <1>2, <1>3, <1>6, <3>3 DEF RunOk, LaterPass
  <2> QED
    BY <2>1, <2>2, <2>3
<1>10. RunOk(backfill[b])'
  BY <1>8, <1>9
<1> QED
  BY <1>1, <1>2, <1>5, <1>8, <1>9, <1>10, RunLess

LEMMA BackfillFailsKeeps ==
  ASSUME WaitInv, NEW b \in Backfiller, BackfillFails(b)
  PROVE  WaitInv'
<1> DEFINE old == backfill[b]
           r   == [NoRun EXCEPT !.at = "cut"]
<1>1. /\ UNCHANGED <<clock, setting>> /\ mishaps' \in Nat /\ Elsewhere /\ old.at # "verified"
  BY DEF BackfillFails, Mishap, Elsewhere, WaitInv, WTypeOK
<1>2. TablesOk
  <2>1. CASE UNCHANGED <<tables, stream>>
    <3>1. UNCHANGED <<table, outbox, stream, drawn>>
      BY <2>1 DEF tables
    <3> QED
      BY <1>1, <3>1, NothingIsOk, WaitNow
  <2>2. ASSUME NEW p \in Person, old.items[p].there, old.items[p].whole,
               Fill(p, old.items[p], old.since)
        PROVE  TablesOk
    BY <1>1, <2>2, FillIsOk DEF Whole
  <2> QED
    BY <2>1, <2>2 DEF BackfillFails
<1>3. /\ r \in BackfillRun /\ r.at = "cut" /\ r.since = 0
      /\ \A p \in Person : ~r.items[p].there
  BY NoRunTyped DEF BackfillRun
<1> HIDE DEF r
<1>4. backfill' = [backfill EXCEPT ![b] = r] /\ backfill'[b] = r
  BY DEF BackfillFails, Becomes, WaitInv, WTypeOK, r
<1>5. RunOk(backfill[b])'
  BY <1>1, <1>3, <1>4, WaitNow DEF RunOk, LaterPass
<1> QED
  BY <1>1, <1>2, <1>3, <1>4, <1>5, RunLess

------------------------------------------------------------------------------
(***************************************************************************)
(* The notifier and the replay.                                            *)
(***************************************************************************)
\* Nobody writes the tables; what is carried was carried, and what the replay is
\* done with was told, or its notices expired.
LEMMA NothingCarried ==
  ASSUME WaitInv, UNCHANGED <<tables, backfill, clock>>, InStream' \subseteq InStream,
         told \subseteq told', replay'.left \subseteq replay.left \cup outbox,
         \A id \in replay'.done :
           \/ id \in replay.done
           \/ id \in 1..drawn /\ (id \in told' \/ \A x \in Notices : x.id = id => ~Live(x))
  PROVE  Identified'
<1> DEFINE fresh == {}
<1>1. UNCHANGED <<table, outbox, drawn>>
  BY DEF tables
<1>2. ASSUME NEW x \in NoticeRow, Carried(x)' PROVE Carried(x) \/ x \in fresh
  BY <1>1, <1>2 DEF Carried
<1>3. /\ fresh \in SUBSET NoticeRow /\ \A x, y \in fresh : x = y
      /\ \A x \in fresh : x.id = drawn' /\ drawn < drawn'
  OBVIOUS
<1> HIDE DEF fresh
<1>4. drawn' \in Nat /\ drawn <= drawn' /\ clock' \in Nat /\ clock <= clock'
  BY <1>1, WaitNow
<1>5. \A o \in outbox' \cup replay'.left : o.id # 0
  BY <1>1 DEF WaitInv, Identified
<1>6. ASSUME NEW id \in replay'.done
      PROVE  \/ id \in replay.done
             \/ /\ id \in 1..drawn
                /\ id \in told' \/ \A x \in Notices : x.id = id => ~(x.until > clock')
  BY DEF Live
<1> QED
  BY <1>2, <1>3, <1>4, <1>5, <1>6, StaysIdentified

\* Whoever else has the notice of an id in the outbox table has the same notice.
LEMMA SameNotice ==
  ASSUME WaitInv, NEW o \in outbox, NEW x \in InStream \cup replay.left, x.id = o.id
  PROVE  x = o
<1>1. InStream \cup replay.left \subseteq NoticeRow
  BY DEF WaitInv, WTypeOK, ReplayRun, InStream
<1>2. o \in Notices /\ x \in Notices /\ o.id # 0
  BY <1>1, WaitNow DEF Notices, Carried
<1> QED
  BY <1>2 DEF WaitInv, Identified

\* What is left of a sequence that was read from its beginning.
LEMMA Remainder ==
  ASSUME NEW S, NEW s \in Seq(S), NEW k \in 0..Len(s)
  PROVE  /\ SubSeq(s, k + 1, Len(s)) \in Seq(S)
         /\ LET r == SubSeq(s, k + 1, Len(s)) IN {r[i] : i \in 1..Len(r)} = {s[i] : i \in (k + 1)..Len(s)}
         /\ k < Len(s) => /\ Head(SubSeq(s, k + 1, Len(s))) = s[k + 1]
                          /\ Tail(SubSeq(s, k + 1, Len(s))) = SubSeq(s, k + 2, Len(s))
<1> DEFINE n == Len(s)
           r == SubSeq(s, k + 1, n)
<1>1. n \in Nat /\ k \in Nat /\ k <= n /\ \A i \in 1..n : s[i] \in S
  BY LenProperties, ElementOfSeq
<1>2. \A i \in (k + 1)..n : s[i] \in S
  BY <1>1
<1> HIDE DEF n
<1>3. /\ r \in Seq(S) /\ Len(r) = IF k + 1 <= n THEN n - (k + 1) + 1 ELSE 0
      /\ \A i \in 1..(n - (k + 1) + 1) : r[i] = s[k + 1 + i - 1]
  <2>1. k + 1 \in Int /\ n \in Int
    BY <1>1
  <2> QED
    BY <1>2, <2>1, SubSeqProperties
<1>4. Len(r) = n - k /\ \A i \in 1..(n - k) : r[i] = s[k + i]
  <2>1. Len(r) = n - k /\ n - (k + 1) + 1 = n - k
    BY <1>1, <1>3
  <2>2. \A i \in 1..(n - k) : k + 1 + i - 1 = k + i
    BY <1>1
  <2> QED
    BY <1>3, <2>1, <2>2
<1> HIDE DEF r
<1>5. {r[i] : i \in 1..Len(r)} = {s[i] : i \in (k + 1)..n}
  <2>1. ASSUME NEW i \in 1..Len(r) PROVE r[i] \in {s[j] : j \in (k + 1)..n}
    <3>1. k + i \in (k + 1)..n /\ r[i] = s[k + i]
      BY <1>1, <1>4
    <3> QED
      BY <3>1
  <2>2. ASSUME NEW j \in (k + 1)..n PROVE s[j] \in {r[i] : i \in 1..Len(r)}
    <3>1. j - k \in 1..Len(r) /\ k + (j - k) = j
      BY <1>1, <1>4
    <3>2. r[j - k] = s[j]
      BY <1>4, <3>1
    <3> QED
      BY <3>1, <3>2
  <2> QED
    BY <2>1, <2>2
<1>6. k < n => Head(r) = s[k + 1] /\ Tail(r) = SubSeq(s, k + 2, n)
  <2> SUFFICES ASSUME k < n PROVE Head(r) = s[k + 1] /\ Tail(r) = SubSeq(s, k + 2, n)
    OBVIOUS
  <2>1. k + 1 \in 1..Len(s) /\ Len(s) \in (k + 1)..Len(s) /\ (k + 1) + 1 = k + 2
    BY <1>1 DEF n
  <2> QED
    BY <2>1, HeadTailOfSubSeq DEF n, r
<1> QED
  BY <1>3, <1>5, <1>6 DEF n, r

LEMMA NotifyKeeps == ASSUME WaitInv, Notify PROVE WaitInv'
<1> DEFINE len == Len(stream)
           n   == Min({Batch, len})
<1>1. WTypeOK /\ Replaying /\ Identified
  BY DEF WaitInv
<1>2. UNCHANGED <<tables, enabled, backfill, replay, clock, setting>> /\ enabled /\ n > 0
  BY DEF Notify
<1>3. len \in Nat /\ Batch \in Nat /\ stream \in Seq(NoticeRow)
  BY <1>1, WaitBounds, LenProperties DEF WTypeOK
<1>4. n \in Nat /\ n <= len
  <2>1. {Batch, len} \subseteq Nat /\ {Batch, len} # {}
    BY <1>3
  <2>2. n \in {Batch, len} /\ \A m \in {Batch, len} : n <= m
    BY <2>1, FirstOf
  <2> QED
    BY <1>3, <2>2
<1> HIDE DEF n, len
<1>5. PICK failed \in SUBSET (1..n) :
        LET done == Handled(n, failed)
            again == IF done = 0 THEN tries + 1 ELSE 1
            rest == SubSeq(stream, done + 1, len)
        IN
        /\ IF failed = {} THEN UNCHANGED mishaps ELSE Mishap
        /\ Tell({stream[i] : i \in (1..n) \ failed})
        /\ IF done = n
           THEN stream' = rest /\ tries' = 0 /\ UNCHANGED letters
           ELSE IF again > MaxRetries
           THEN /\ stream' = Tail(rest) /\ tries' = 0
                /\ letters' = letters \cup {Head(rest).id}
           ELSE stream' = rest /\ tries' = again /\ UNCHANGED letters
  BY DEF Notify, n, len
<1> DEFINE done  == Handled(n, failed)
           again == IF done = 0 THEN tries + 1 ELSE 1
           rest  == SubSeq(stream, done + 1, len)
<1>6. done \in Nat /\ done <= n /\ \A i \in 1..done : i \in (1..n) \ failed
  <2>1. CASE failed = {}
    BY <1>4, <2>1 DEF Handled
  <2>2. CASE failed # {}
    <3>1. failed \subseteq Nat
      BY <1>4
    <3>2. Min(failed) \in failed /\ \A m \in failed : Min(failed) <= m
      BY <2>2, <3>1, FirstOf
    <3>3. done = Min(failed) - 1 /\ Min(failed) \in 1..n
      BY <2>2, <3>2 DEF Handled
    <3>4. done \in Nat /\ done <= n
      BY <1>4, <3>3
    <3>5. ASSUME NEW i \in 1..done PROVE i \in (1..n) \ failed
      BY <1>4, <3>2, <3>3, <3>5
    <3> QED
      BY <3>4, <3>5
  <2> QED
    BY <2>1, <2>2
<1> HIDE DEF done
<1>7. /\ rest \in Seq(NoticeRow)
      /\ {rest[i] : i \in 1..Len(rest)} = {stream[i] : i \in (done + 1)..len}
      /\ done < len => Head(rest) = stream[done + 1] /\ Tail(rest) = SubSeq(stream, done + 2, len)
  <2>1. done \in 0..Len(stream)
    BY <1>3, <1>4, <1>6 DEF len
  <2> QED
    BY <1>3, <2>1, Remainder DEF len
<1>8. done < len =>
        LET t == SubSeq(stream, done + 2, len) IN
        t \in Seq(NoticeRow) /\ {t[i] : i \in 1..Len(t)} = {stream[i] : i \in (done + 2)..len}
  <2> SUFFICES ASSUME done < len
               PROVE  LET t == SubSeq(stream, done + 2, len) IN
                      t \in Seq(NoticeRow) /\ {t[i] : i \in 1..Len(t)} = {stream[i] : i \in (done + 2)..len}
    OBVIOUS
  <2>1. done + 1 \in 0..Len(stream)
    BY <1>3, <1>6 DEF len
  <2>2. PICK k \in 0..Len(stream) : k = done + 1
    BY <2>1
  <2>3. /\ SubSeq(stream, k + 1, Len(stream)) \in Seq(NoticeRow)
        /\ LET r == SubSeq(stream, k + 1, Len(stream))
           IN  {r[i] : i \in 1..Len(r)} = {stream[i] : i \in (k + 1)..Len(stream)}
    BY <1>3, Remainder
  <2>4. k + 1 = done + 2
    BY <1>6, <2>2
  <2> QED
    BY <2>3, <2>4 DEF len
<1> HIDE DEF rest
<1>9. \A i \in 1..len : stream[i] \in NoticeRow
  BY <1>3, ElementOfSeq DEF len
<1>10. told' = told \cup {o.id : o \in {x \in {stream[i] : i \in (1..n) \ failed} : Live(x)}}
  BY <1>5 DEF Tell
<1>11. \A i \in (1..n) \ failed : i \in 1..len
  BY <1>3, <1>4
<1>12. told' \in SUBSET Nat /\ told \subseteq told' /\ \A i \in 1..done : Live(stream[i]) => stream[i].id \in told'
  <2>1. \A i \in (1..n) \ failed : stream[i].id \in Nat
    BY <1>9, <1>11 DEF NoticeRow
  <2> DEFINE T == {o.id : o \in {x \in {stream[i] : i \in (1..n) \ failed} : Live(x)}}
  <2>2. T \in SUBSET Nat
    BY <2>1
  <2>3. ASSUME NEW i \in 1..done, Live(stream[i]) PROVE stream[i].id \in T
    BY <1>6, <2>3
  <2> HIDE DEF T
  <2>4. told' = told \cup T /\ told \in SUBSET Nat
    BY <1>1, <1>10 DEF T, WTypeOK
  <2> QED
    BY <2>2, <2>3, <2>4
<1>13. /\ stream' \in Seq(NoticeRow) /\ tries' \in Nat /\ letters' \in SUBSET Nat /\ letters \subseteq letters'
       /\ \/ InStream' = {stream[i] : i \in (done + 1)..len}
          \/ /\ InStream' = {stream[i] : i \in (done + 2)..len}
             /\ stream[done + 1].id \in letters'
  <2>1. again \in Nat
    BY <1>1 DEF WTypeOK
  <2> HIDE DEF again
  <2>2. CASE stream' = rest /\ UNCHANGED letters /\ tries' \in {0, again}
    <3>1. InStream' = {rest[i] : i \in 1..Len(rest)}
      BY <2>2 DEF InStream
    <3>2. InStream' = {stream[i] : i \in (done + 1)..len}
      BY <1>7, <3>1, Zenon
    <3>3. stream' \in Seq(NoticeRow)
      BY <1>7, <2>2
    <3>4. tries' \in Nat
      BY <2>1, <2>2
    <3>5. letters' \in SUBSET Nat /\ letters \subseteq letters'
      BY <1>1, <2>2 DEF WTypeOK
    <3> QED
      BY <3>2, <3>3, <3>4, <3>5
  <2>3. CASE done # n /\ stream' = Tail(rest) /\ tries' = 0 /\ letters' = letters \cup {Head(rest).id}
    <3>1. done < len /\ done + 1 \in 1..len
      BY <1>3, <1>4, <1>6, <2>3
    <3>2. stream[done + 1].id \in Nat
      BY <1>9, <3>1 DEF NoticeRow
    <3>3. stream' = SubSeq(stream, done + 2, len) /\ letters' = letters \cup {stream[done + 1].id}
      BY <1>7, <2>3, <3>1
    <3> QED
      BY <1>1, <1>8, <2>3, <3>1, <3>2, <3>3 DEF WTypeOK, InStream
  <2> QED
    BY <1>5, <2>2, <2>3 DEF done, again, rest
<1>14. mishaps' \in Nat
  BY <1>1, <1>5 DEF WTypeOK, Mishap
<1>15. WTypeOK'
  BY <1>1, <1>2, <1>12, <1>13, <1>14 DEF WTypeOK, tables
<1>16. InStream = {stream[i] : i \in 1..len} /\ InStream' \subseteq InStream
  <2>1. (done + 1)..len \subseteq 1..len /\ (done + 2)..len \subseteq 1..len
    BY <1>3, <1>6
  <2> QED
    BY <1>13, <2>1 DEF InStream, len
<1>17. Identified'
  BY <1>2, <1>12, <1>16, NothingCarried
<1>18. replay.left = {} /\ replay.at = "idle"
  BY <1>1, <1>2 DEF Replaying
<1>19. ASSUME NEW o \in outbox, Live(o) PROVE Kept(o.id)'
  <2>1. Kept(o.id)
    BY <1>1, <1>2, <1>19 DEF Replaying, Replayed
  <2>2. CASE o.id \in told \cup letters
    BY <1>12, <1>13, <2>2 DEF Kept
  <2>3. ASSUME NEW i \in 1..len, stream[i].id = o.id PROVE Kept(o.id)'
    <3>1. stream[i] = o
      BY <1>16, <2>3, SameNotice
    <3>2. i \in 1..done \/ i = done + 1 \/ i \in (done + 2)..len
      BY <1>3, <1>6
    <3>3. CASE i \in 1..done
      BY <1>12, <1>19, <3>1, <3>3 DEF Kept
    <3>4. CASE i = done + 1
      <4>1. i \in (done + 1)..len
        BY <1>3, <1>6, <3>4
      <4> QED
        BY <1>13, <2>3, <3>4, <4>1 DEF Kept
    <3>5. CASE i \in (done + 2)..len
      <4>1. i \in (done + 1)..len
        BY <1>3, <1>6, <3>5
      <4> QED
        BY <1>13, <2>3, <3>5, <4>1 DEF Kept
    <3> QED
      BY <3>2, <3>3, <3>4, <3>5
  <2> QED
    BY <1>16, <1>18, <2>1, <2>2, <2>3 DEF Kept
<1>20. Replaying'
  BY <1>1, <1>2, <1>18, <1>19 DEF Replaying, tables, Live
<1> QED
  BY <1>2, <1>15, <1>17, <1>20, TablesStay

LEMMA TrimKeeps == ASSUME WaitInv, Trim PROVE WaitInv'
<1>1. WTypeOK /\ Replaying
  BY DEF WaitInv
<1>2. /\ UNCHANGED <<tables, tries, told, letters, enabled, backfill, replay, clock, mishaps, setting>>
      /\ ~enabled /\ replay.at = "idle" /\ stream # <<>> /\ stream' = Tail(stream)
  BY DEF Trim
<1>3. stream \in Seq(NoticeRow)
  BY <1>1 DEF WTypeOK
<1>4. /\ stream' \in Seq(NoticeRow) /\ Len(stream') = Len(stream) - 1
      /\ \A i \in 1..Len(stream') : stream'[i] = stream[i + 1]
  BY <1>2, <1>3, HeadTailProperties
<1>5. InStream' \subseteq InStream
  <2> SUFFICES ASSUME NEW i \in 1..Len(stream') PROVE stream'[i] \in InStream
    BY DEF InStream
  <2>1. i + 1 \in 1..Len(stream) /\ stream'[i] = stream[i + 1]
    BY <1>3, <1>4, LenProperties
  <2> QED
    BY <2>1 DEF InStream
<1>6. WTypeOK'
  BY <1>1, <1>2, <1>4 DEF WTypeOK, tables
<1>7. Identified'
  BY <1>2, <1>5, NothingCarried
<1>8. Replaying'
  BY <1>1, <1>2 DEF Replaying, Replayed
<1> QED
  BY <1>2, <1>6, <1>7, <1>8, TablesStay

\* The replay takes a step; the outbox table and the stream stay.
LEMMA ReplayTyped ==
  ASSUME WaitInv
  PROVE  /\ replay \in ReplayRun /\ replay.left \subseteq NoticeRow /\ replay.done \subseteq Nat
         /\ replay.pass \in 1..Passes /\ replay.since \in Nat /\ replay.since <= clock
         /\ told \subseteq Nat /\ Replaying /\ Identified /\ WTypeOK
  BY DEF WaitInv, WTypeOK, ReplayRun, Replaying

LEMMA NoReplayIs ==
  /\ NoReplay \in ReplayRun /\ NoReplay.at = "idle" /\ NoReplay.since = 0 /\ NoReplay.pass = 1
  /\ NoReplay.left = {} /\ NoReplay.done = {}
<1>1. 1 \in 1..Passes
  BY WaitBounds
<1> QED
  BY <1>1 DEF NoReplay, ReplayRun

LEMMA NoReplayTyped ==
  ASSUME NEW at \in {"idle", "scanning", "verified"}, NEW since \in Nat
  PROVE  LET r == [NoReplay EXCEPT !.at = at, !.since = since] IN
         /\ r \in ReplayRun /\ r.at = at /\ r.since = since /\ r.pass = 1
         /\ r.left = {} /\ r.done = {}
  BY NoReplayIs DEF ReplayRun

LEMMA ReplayChange ==
  ASSUME WaitInv, NEW r \in ReplayRun, ReplayBecomes(r), r.since <= clock,
         told' \in SUBSET Nat, told \subseteq told', enabled' \in BOOLEAN, mishaps' \in Nat,
         r.left \subseteq replay.left \cup outbox,
         \A id \in r.done :
           \/ id \in replay.done
           \/ id \in 1..drawn /\ (id \in told' \/ \A x \in Notices : x.id = id => ~Live(x)),
         r.at # "idle" \/ enabled' => backfill[Deployment].at = "verified",
         enabled' => r.at = "idle", r.at # "invoking" => r.left = {},
         Replayed' => \A o \in outbox : Live(o) => Kept(o.id)'
  PROVE  WaitInv'
<1>1. /\ UNCHANGED <<tables, stream, tries, letters, backfill, clock, setting>> /\ replay' = r
      /\ UNCHANGED <<table, outbox, drawn>>
  BY DEF ReplayBecomes, tables
<1>2. WTypeOK'
  BY <1>1, ReplayTyped DEF WTypeOK
<1>3. Identified'
  <2>1. InStream' \subseteq InStream
    BY <1>1 DEF InStream
  <2> QED
    BY <1>1, <2>1, NothingCarried
<1>4. Replaying'
  BY <1>1 DEF Replaying, Live
<1> QED
  BY <1>1, <1>2, <1>3, <1>4, TablesStay

LEMMA BeginReplayKeeps == ASSUME WaitInv, BeginReplay PROVE WaitInv'
<1> DEFINE r == [NoReplay EXCEPT !.at = "scanning", !.since = clock]
<1>1. /\ ReplayBecomes(r) /\ UNCHANGED <<told, enabled, mishaps>> /\ ~enabled
      /\ backfill[Deployment].at = "verified"
  BY DEF BeginReplay
<1>2. r \in ReplayRun /\ r.at = "scanning" /\ r.since = clock /\ r.pass = 1 /\ r.left = {} /\ r.done = {}
  BY NoReplayTyped, WaitNow
<1> HIDE DEF r
<1>3. PICK q : q = r
  OBVIOUS
<1>4. replay' = q
  BY <1>1, <1>3 DEF ReplayBecomes
<1>5. ~Replayed'
  BY <1>1, <1>2, <1>3, <1>4 DEF Replayed
<1>6. told' \in SUBSET Nat /\ told \subseteq told' /\ enabled' \in BOOLEAN /\ mishaps' \in Nat /\ ~enabled'
  BY <1>1, ReplayTyped DEF WTypeOK
<1>7. q.since <= clock
  BY <1>2, <1>3, WaitNow
<1> QED
  BY <1>1, <1>2, <1>3, <1>5, <1>6, <1>7, ReplayChange

LEMMA ReplayScanKeeps == ASSUME WaitInv, ReplayScan PROVE WaitInv'
<1> DEFINE pending == {o \in outbox : o.until > replay.since /\ o.id \notin replay.done}
           r       == [replay EXCEPT !.at = "invoking", !.left = pending, !.news = pending # {}]
<1>1. /\ ReplayBecomes(r) /\ UNCHANGED <<told, enabled, mishaps>> /\ replay.at = "scanning"
  BY DEF ReplayScan
<1>2. pending \subseteq outbox /\ outbox \subseteq NoticeRow
  BY WaitNow
<1>3. ASSUME NEW o \in outbox, Live(o), o.id \notin told PROVE o \in pending
  <2>1. o.until > replay.since
    BY <1>3, ReplayTyped, WaitNow DEF Live
  <2>2. o.id \notin replay.done
    <3>1. o \in Notices
      BY WaitNow DEF Notices, Carried
    <3> QED
      BY <1>3, <3>1, ReplayTyped DEF Identified
  <2> QED
    BY <2>1, <2>2
<1> HIDE DEF pending
<1>4. /\ r \in ReplayRun /\ r.at = "invoking" /\ r.left = pending /\ r.since = replay.since
      /\ r.done = replay.done
  BY <1>2, ReplayTyped DEF ReplayRun
<1> HIDE DEF r
<1>5. PICK q : q = r
  OBVIOUS
<1>6. replay' = q /\ UNCHANGED <<told, letters, enabled>>
  BY <1>1, <1>5 DEF ReplayBecomes
<1>7. \A o \in outbox : Live(o) => Kept(o.id)'
  BY <1>3, <1>4, <1>5, <1>6 DEF Kept
<1>8. told' \in SUBSET Nat /\ told \subseteq told' /\ enabled' \in BOOLEAN /\ mishaps' \in Nat
  BY <1>1, ReplayTyped DEF WTypeOK
<1>9. backfill[Deployment].at = "verified" /\ ~enabled'
  BY <1>1, ReplayTyped DEF Replaying
<1> QED
  BY <1>1, <1>2, <1>4, <1>5, <1>7, <1>8, <1>9, ReplayTyped, ReplayChange

LEMMA InvokeKeeps == ASSUME WaitInv, Invoke PROVE WaitInv'
<1>1. replay.at = "invoking" /\ UNCHANGED <<enabled, mishaps>>
  BY DEF Invoke
<1>2. PICK o \in replay.left :
        /\ Tell({o})
        /\ ReplayBecomes([replay EXCEPT !.left = @ \ {o}, !.done = @ \cup {o.id}])
  BY DEF Invoke
<1>3. o \in NoticeRow /\ o.id \in Nat /\ o \in Notices /\ o.id # 0 /\ o.id <= drawn /\ drawn \in Nat
  <2>1. o \in NoticeRow /\ o \in Notices
    BY ReplayTyped DEF Notices, Carried
  <2> QED
    BY <2>1, ReplayTyped, WaitNow DEF Identified, NoticeRow
<1> DEFINE r == [replay EXCEPT !.left = @ \ {o}, !.done = @ \cup {o.id}]
<1>4. /\ r \in ReplayRun /\ r.at = "invoking" /\ r.since = replay.since
      /\ r.left = replay.left \ {o} /\ r.done = replay.done \cup {o.id}
  BY <1>1, <1>3, ReplayTyped DEF ReplayRun
<1>5. PICK q : q = r
  OBVIOUS
<1>6. ReplayBecomes(q)
  BY <1>2, <1>5
<1> HIDE DEF r
<1>7. replay' = q /\ UNCHANGED <<stream, letters>>
  BY <1>6 DEF ReplayBecomes
<1>8. told' = told \cup (IF Live(o) THEN {o.id} ELSE {})
  BY <1>2 DEF Tell
<1>9. told' \in SUBSET Nat /\ told \subseteq told' /\ (Live(o) => o.id \in told')
  BY <1>3, <1>8, ReplayTyped
<1>10. o.id \in 1..drawn /\ (o.id \in told' \/ \A x \in Notices : x.id = o.id => ~Live(x))
  <2>1. \A x \in Notices : x.id = o.id => x = o
    BY <1>3, ReplayTyped DEF Identified
  <2>2. o.id \in 1..drawn
    BY <1>3
  <2> QED
    BY <1>9, <2>1, <2>2
<1>11. ASSUME NEW m \in outbox, Live(m) PROVE Kept(m.id)'
  <2>1. Kept(m.id)
    BY <1>1, <1>11, ReplayTyped DEF Replaying, Replayed
  <2>2. CASE m.id \in told \cup letters
    BY <1>7, <1>9, <2>2 DEF Kept
  <2>3. ASSUME NEW x \in InStream, x.id = m.id PROVE Kept(m.id)'
    BY <1>7, <2>3 DEF Kept, InStream
  <2>4. ASSUME NEW x \in replay.left, x.id = m.id PROVE Kept(m.id)'
    <3>1. x = m
      BY <2>4, SameNotice
    <3>2. CASE x = o
      BY <1>9, <1>11, <3>1, <3>2 DEF Kept
    <3>3. CASE x # o
      BY <1>4, <1>5, <1>7, <2>4, <3>3 DEF Kept
    <3> QED
      BY <3>2, <3>3
  <2> QED
    BY <2>1, <2>2, <2>3, <2>4 DEF Kept
<1>12. enabled' \in BOOLEAN /\ mishaps' \in Nat /\ backfill[Deployment].at = "verified" /\ ~enabled'
  BY <1>1, ReplayTyped DEF WTypeOK, Replaying
<1> QED
  BY <1>4, <1>5, <1>6, <1>9, <1>10, <1>11, <1>12, ReplayTyped, ReplayChange

\* A replay that has nothing left: what it kept is told, or elsewhere.
LEMMA KeptElsewhere ==
  ASSUME WaitInv, Replayed, replay.left = {}, UNCHANGED <<told, letters, stream>>
  PROVE  \A o \in outbox : Live(o) => Kept(o.id)'
  BY ReplayTyped DEF Replaying, Kept, InStream

LEMMA EndReplayPassKeeps == ASSUME WaitInv, EndReplayPass PROVE WaitInv'
<1>1. PICK r : r = IF ~replay.news THEN [NoReplay EXCEPT !.at = "verified"]
                   ELSE IF replay.pass = Passes THEN NoReplay
                   ELSE [replay EXCEPT !.at = "scanning", !.pass = @ + 1]
  OBVIOUS
<1>2. /\ ReplayBecomes(r) /\ UNCHANGED <<told, enabled, mishaps>>
      /\ replay.at = "invoking" /\ replay.left = {}
  BY <1>1 DEF EndReplayPass
<1>3. /\ r \in ReplayRun /\ r.at # "invoking" /\ r.left = {} /\ r.since <= clock
      /\ \A id \in r.done : id \in replay.done
  <2>1. CASE ~replay.news
    <3>1. r = [NoReplay EXCEPT !.at = "verified"]
      BY <1>1, <2>1
    <3> QED
      BY <3>1, NoReplayIs, WaitNow DEF ReplayRun
  <2>2. CASE replay.news /\ replay.pass = Passes
    <3>1. r = NoReplay
      BY <1>1, <2>2
    <3> QED
      BY <3>1, NoReplayIs, WaitNow
  <2>3. CASE replay.news /\ replay.pass # Passes
    <3>1. replay.pass + 1 \in 1..Passes
      BY <2>3, ReplayTyped, WaitBounds
    <3> QED
      BY <1>1, <1>2, <2>3, <3>1, ReplayTyped DEF ReplayRun
  <2> QED
    BY <2>1, <2>2, <2>3
<1>4. Replayed /\ UNCHANGED <<told, letters, stream>>
  BY <1>2 DEF Replayed, ReplayBecomes
<1>5. \A o \in outbox : Live(o) => Kept(o.id)'
  BY <1>2, <1>4, KeptElsewhere
<1>6. /\ told' \in SUBSET Nat /\ told \subseteq told' /\ enabled' \in BOOLEAN /\ mishaps' \in Nat
      /\ backfill[Deployment].at = "verified" /\ ~enabled'
  BY <1>2, ReplayTyped DEF WTypeOK, Replaying
<1> QED
  BY <1>2, <1>3, <1>5, <1>6, ReplayChange

LEMMA ReplayFailsKeeps == ASSUME WaitInv, ReplayFails PROVE WaitInv'
<1>1. ReplayBecomes(NoReplay) /\ UNCHANGED <<told, enabled>> /\ replay.at # "idle" /\ Mishap
  BY DEF ReplayFails
<1>2. /\ NoReplay \in ReplayRun /\ NoReplay.at = "idle" /\ NoReplay.left = {} /\ NoReplay.since <= clock
      /\ NoReplay.done = {}
  BY NoReplayIs, WaitNow
<1>3. ~enabled' /\ enabled' \in BOOLEAN /\ told' \in SUBSET Nat /\ told \subseteq told' /\ mishaps' \in Nat
  BY <1>1, ReplayTyped DEF WTypeOK, Replaying, Mishap
<1>4. ~Replayed'
  BY <1>1, <1>2, <1>3 DEF Replayed, ReplayBecomes
<1> QED
  BY <1>1, <1>2, <1>3, <1>4, ReplayChange

LEMMA EnableKeeps == ASSUME WaitInv, Enable PROVE WaitInv'
<1>1. /\ ReplayBecomes(NoReplay) /\ UNCHANGED <<told, mishaps>> /\ replay.at = "verified"
      /\ enabled' = TRUE
  BY DEF Enable
<1>2. /\ NoReplay \in ReplayRun /\ NoReplay.at = "idle" /\ NoReplay.left = {} /\ NoReplay.since <= clock
      /\ NoReplay.done = {}
  BY NoReplayIs, WaitNow
<1>3. /\ told' \in SUBSET Nat /\ told \subseteq told' /\ mishaps' \in Nat
      /\ backfill[Deployment].at = "verified" /\ replay.left = {}
  BY <1>1, ReplayTyped DEF WTypeOK, Replaying
<1>4. \A o \in outbox : Live(o) => Kept(o.id)'
  BY <1>1, <1>3, KeptElsewhere DEF Replayed, ReplayBecomes
<1> QED
  BY <1>1, <1>2, <1>3, <1>4, ReplayChange

------------------------------------------------------------------------------
(***************************************************************************)
(* The theorems.                                                           *)
(***************************************************************************)
LEMMA WaitInit == WInit => WaitInv
<1> SUFFICES ASSUME WInit PROVE WaitInv
  OBVIOUS
<1>1. /\ setting \in Setting /\ table = setting.table /\ stream = <<>> /\ tries = 0
      /\ told = {} /\ letters = {} /\ enabled = FALSE
      /\ backfill = [b \in Backfiller |-> NoRun] /\ replay = NoReplay /\ clock = 0 /\ mishaps = 0
      /\ drawn = Max({table[p].id : p \in Person})
  BY DEF WInit
<1>2. /\ LeftBehind(setting.table) /\ setting.ends \in 0..MaxNow /\ Person # {}
      /\ setting.ends \in Nat
  BY <1>1, SettingAssumption, WaitBounds
<1>3. /\ table \in [Person -> SourceRow]
      /\ \A p \in Person : table[p].id \in Nat /\ table[p].id <= MaxIds
  BY <1>1, <1>2 DEF LeftBehind, SourceRow
<1>4. drawn \in Nat /\ \A p \in Person : table[p].id <= drawn
  <2> DEFINE T == {table[p].id : p \in Person}
  <2>1. T \subseteq 0..MaxIds /\ T # {} /\ MaxIds \in Nat
    BY <1>2, <1>3, WaitBounds
  <2> HIDE DEF T
  <2>2. Max(T) \in T /\ \A m \in T : m <= Max(T)
    BY <2>1, LastOf
  <2>3. drawn = Max(T) /\ Max(T) \in Nat
    BY <1>1, <2>1, <2>2 DEF T
  <2> QED
    BY <2>2, <2>3 DEF T
<1>5. \A p \in Person : RowOk(p)
  <2> SUFFICES ASSUME NEW p \in Person PROVE RowOk(p)
    OBVIOUS
  <2>1. LeftBehind(table) /\ table[p].id <= drawn
    BY <1>1, <1>2, <1>4
  <2>2. /\ ~table[p].there => table[p] = NoRow
        /\ table[p].v1 => table[p].id # 0
        /\ ~table[p].whole => table[p].v1 /\ table[p].until = Never
        /\ \A q \in Person \ {p} : table[p].id = table[q].id => table[p].id = 0
    BY <2>1 DEF LeftBehind
  <2>3. ~table[p].whole => table[p].there
    BY <2>2 DEF NoRow
  <2> QED
    BY <1>1, <2>1, <2>2, <2>3 DEF RowOk
<1>6. ASSUME NEW o \in outbox
      PROVE  \E p \in Real : o = Notice(p, table[p]) /\ table[p].id # 0 /\ table[p].there
  <2>1. \E p \in Real : o = Notice(p, table[p]) /\ table[p].id # 0
    BY <1>6 DEF WInit
  <2> QED
    BY <1>5, <2>1, WaitBounds DEF RowOk, NoRow
<1>7. outbox \in SUBSET NoticeRow /\ \A o \in outbox : o.id # 0 /\ Leads(o)
  <2> SUFFICES ASSUME NEW o \in outbox PROVE o \in NoticeRow /\ o.id # 0 /\ Leads(o)
    OBVIOUS
  <2>1. PICK p \in Real : o = Notice(p, table[p]) /\ table[p].id # 0 /\ table[p].there
    BY <1>6
  <2>2. p \in Person /\ table[p] \in SourceRow
    BY <1>3, WaitBounds
  <2> QED
    BY <2>1, <2>2, NoticeTyped DEF Leads
<1>8. InStream = {} /\ stream \in Seq(NoticeRow) /\ replay.left = {} /\ replay.done = {}
  BY <1>1 DEF InStream, NoReplay
<1>9. NoReplay \in ReplayRun /\ NoReplay.at = "idle" /\ NoReplay.since = 0
  BY NoReplayIs
<1>10. WTypeOK
  <2>1. clock \in 0..setting.ends
    BY <1>1, <1>2
  <2>2. backfill \in [Backfiller -> BackfillRun] /\ replay \in ReplayRun
    BY <1>1, <1>9, NoRunTyped
  <2> QED
    BY <1>1, <1>3, <1>4, <1>7, <1>8, <2>1, <2>2 DEF WTypeOK
<1>11. \A b \in Backfiller : backfill[b] = NoRun
  BY <1>1
<1>12. ItemsOk
  BY <1>11, NoRunTyped DEF ItemsOk, ItemOk
<1>13. ASSUME NEW x \in Notices PROVE \E p \in Person : x = Notice(p, table[p])
  <2>1. Carried(x)
    BY <1>13 DEF Notices
  <2> QED
    BY <1>6, <1>8, <1>11, <2>1, NoRunTyped, WaitBounds DEF Carried, Whole
<1>14. Identified
  <2>1. ASSUME NEW x \in Notices PROVE x.id <= drawn
    BY <1>4, <1>13 DEF Notice
  <2>2. ASSUME NEW x \in Notices, NEW y \in Notices, x.id = y.id, x.id # 0 PROVE x = y
    <3>1. PICK p \in Person : x = Notice(p, table[p])
      BY <1>13
    <3>2. PICK q \in Person : y = Notice(q, table[q])
      BY <1>13
    <3>3. table[p].id = x.id /\ table[q].id = y.id
      BY <3>1, <3>2 DEF Notice
    <3>4. p = q
      BY <1>5, <2>2, <3>3 DEF RowOk
    <3> QED
      BY <3>1, <3>2, <3>4
  <2> QED
    BY <1>7, <1>8, <2>1, <2>2 DEF Identified
<1>15. \A b \in Backfiller : RunOk(backfill[b])
  BY <1>1, <1>11, NoRunTyped DEF RunOk, LaterPass
<1>16. Replaying
  BY <1>1, <1>8, <1>9 DEF Replaying, Replayed
<1> QED
  BY <1>5, <1>7, <1>10, <1>12, <1>14, <1>15, <1>16 DEF WaitInv

LEMMA WaitStep == WaitInv /\ [WNext]_wvars => WaitInv'
<1> SUFFICES ASSUME WaitInv, [WNext]_wvars PROVE WaitInv'
  OBVIOUS
<1>1. CASE UNCHANGED wvars
  BY <1>1 DEF wvars, WaitInv, WTypeOK, RowOk, ItemsOk, ItemOk, Identified, Notices, Carried, InStream,
              Leads, RunOk, LaterPass, Settled, Due, Pending, Replaying, Replayed, Kept, Live
<1>2. CASE WNext
  BY <1>2, SubmitKeeps, TickKeeps, PurgeKeeps, NotifyKeeps, TrimKeeps, BeginBackfillKeeps, ScanKeeps,
     WorkKeeps, EndPassKeeps, BackfillFailsKeeps, BeginReplayKeeps, ReplayScanKeeps, InvokeKeeps,
     EndReplayPassKeeps, ReplayFailsKeeps, EnableKeeps DEF WNext
<1> QED
  BY <1>1, <1>2, SMTT(40)

\* The parts keep to their types, and every part of the argument holds of all
\* that handler.js, notifier.js, backfill-outbox.js and replay-outbox.js do: a
\* row keeps its person's id, who holds a notice of an id holds the same, and no
\* run of the backfill loses sight of a row that is not settled.
THEOREM WaitlistOk == WSpec => []WaitInv
  BY WaitInit, WaitStep, PTL DEF WSpec

\* Once deploy.sh has connected the notifier to the stream, each live submission
\* is known to the broker, under way to it, or among the dead letters; and every
\* live notice leads reader.js to its person, and to nobody else - for every
\* table that earlier versions left, any number of people and of backfills that
\* run next to each other, and whenever calls fail, rows expire or the stream
\* drops what is old.
THEOREM EverybodyIsReached == WSpec => []EverybodyReached
<1>1. ASSUME WaitInv PROVE NobodyForgotten
  <2> SUFFICES ASSUME enabled, NEW p \in Real, table[p].there, table[p].whole, Live(table[p])
               PROVE  \/ table[p].id \in told \cup letters
                      \/ \E i \in 1..Len(stream) : stream[i].id = table[p].id
    BY DEF NobodyForgotten
  <2>1. backfill[Deployment].at = "verified" /\ replay.left = {} /\ Replayed /\ p \in Person
    BY <1>1, ReplayTyped, WaitBounds DEF Replaying, Replayed
  <2>2. Settled(p)
    BY <1>1, <2>1, WaitBounds DEF WaitInv, RunOk
  <2>3. Notice(p, table[p]) \in outbox /\ Live(Notice(p, table[p]))
        /\ Notice(p, table[p]).id = table[p].id
    BY <2>2 DEF Settled, Due, Live, Notice
  <2>4. Kept(table[p].id)
    BY <1>1, <2>1, <2>3, ReplayTyped DEF Replaying
  <2> QED
    BY <2>1, <2>4 DEF Kept, InStream
<1>2. ASSUME WaitInv PROVE NoticesFound
  <2> SUFFICES ASSUME NEW o \in outbox, Live(o)
               PROVE  \/ Found(o.id) = {o.of}
                      \/ table[o.of] = [table[o.of] EXCEPT !.id = o.id, !.v1 = FALSE]
    BY DEF NoticesFound
  <2>1. o.of \in Person /\ o.id # 0 /\ o = Notice(o.of, table[o.of])
    BY <1>2, WaitNow DEF Leads
  <2>2. table[o.of].id = o.id /\ table[o.of] \in SourceRow
    BY <1>2, <2>1, WaitNow DEF Notice
  <2>3. CASE table[o.of].v1
    <3>1. \A q \in Person : table[q].id = o.id => q = o.of
      BY <1>2, <2>1, <2>2, WaitNow DEF RowOk
    <3>2. Found(o.id) = {o.of}
      BY <2>1, <2>2, <2>3, <3>1 DEF Found
    <3> QED
      BY <3>2
  <2>4. CASE ~table[o.of].v1
    <3>1. table[o.of] = [table[o.of] EXCEPT !.id = o.id, !.v1 = FALSE]
      BY <2>2, <2>4 DEF SourceRow
    <3> QED
      BY <3>1
  <2> QED
    BY <2>3, <2>4
<1>3. WaitInv => EverybodyReached
  BY <1>1, <1>2 DEF EverybodyReached
<1> QED
  BY <1>3, WaitlistOk, PTL

\* backfill-outbox.js does not give up because others write the tables: with two
\* passes or more (the code has three), a run that was not cut short fails only
\* on a row that is not whole, or when the clock moved while it ran.
THEOREM BackfillsEnd == ASSUME Passes >= 2 PROVE WSpec => []BackfillConverges
<1>1. WaitInv => BackfillConverges
  BY DEF WaitInv, RunOk, BackfillConverges
<1> QED
  BY <1>1, WaitlistOk, PTL

==============================================================================
