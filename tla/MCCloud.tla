-------------------------------- MODULE MCCloud --------------------------------
(***************************************************************************)
(* The machines of the cloud that keep their state outside the             *)
(* provisioning table, in one run: the deployment of a dedicated tenant,   *)
(* the handoff of a credential and the waitlist.  They share nothing here  *)
(* - a behaviour runs one of them, and the others stay as they were.       *)
(***************************************************************************)
EXTENDS DedicatedTenant, CredentialHandoff, WaitlistOutbox

VARIABLE machine

\* What an earlier version left of ann; with two backfills, with rows that
\* expire, or with mishaps.
Old(id, v1, until) == [there |-> TRUE, id |-> id, v1 |-> v1, until |-> until, whole |-> TRUE]
Left(r) == [p \in Person |-> IF p = "ann" THEN r ELSE NoRow]

MCSetting ==
  {[table |-> Left(r), runs |-> Backfiller, mishaps |-> 0, ends |-> 0] :
     r \in {Old(0, FALSE, 2), Old(1, FALSE, 2)}}
  \cup {[table |-> Left(r), runs |-> {Deployment}, mishaps |-> 0, ends |-> 1] :
     r \in {Old(0, FALSE, 1), Old(1, FALSE, 1), Old(1, FALSE, 2)}}
  \cup {[table |-> Left(r), runs |-> {Deployment}, mishaps |-> 2, ends |-> 0] :
     r \in {Old(0, FALSE, 2), Old(1, TRUE, 2)}}

MCInit ==
  /\ machine \in {"tenant", "handoff", "waitlist"}
  /\ DInit /\ CInit /\ WInit
  /\ machine # "waitlist" => setting.mishaps = 2 /\ setting.table["ann"].id = 0

MCNext ==
  /\ \/ machine = "tenant" /\ DNext /\ UNCHANGED <<cvars, wvars>>
     \/ machine = "handoff" /\ CNext /\ UNCHANGED <<dvars, wvars>>
     \/ machine = "waitlist" /\ WNext /\ UNCHANGED <<dvars, cvars>>
  /\ UNCHANGED machine

\* What is fair to the tenant runs the tenant: liveness is about those behaviours.
MCSpec == MCInit /\ [][MCNext]_<<machine, dvars, cvars, wvars>> /\ DFairness
================================================================================
