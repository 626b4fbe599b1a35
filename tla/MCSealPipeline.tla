---------------------------- MODULE MCSealPipeline ----------------------------
(***************************************************************************)
(* SealPipeline with two signers who may sign in parallel: each one's call *)
(* can be overtaken by the other's, and a reseal can meet both.  What the  *)
(* write of somebody else does to two such calls is in MCUpkeep.           *)
(***************************************************************************)
EXTENDS SealPipeline, TLC

MCOrder == [s \in Signer |-> 1]

MCNext == (\E a \in Actor : Begin(a) \/ Continue(a) \/ Stop(a)) \/ Void

MCSpec == Init /\ [][MCNext]_vars

\* Signers who sign in parallel are interchangeable; used by the run that
\* checks safety only.
MCSymmetry == Permutations(Signer)
==============================================================================
