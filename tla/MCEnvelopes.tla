----------------------------- MODULE MCEnvelopes -----------------------------
(***************************************************************************)
(* An envelope and the file that keeps it, as two machines of which a      *)
(* behaviour runs one.                                                     *)
(*                                                                         *)
(* The calls: two signers in sequence and three calls, enough for both     *)
(* signatures and a call that races with them, under two sweeps.           *)
(*                                                                         *)
(* The file: three callers, one of them with two writes, on two envelopes. *)
(* That is a queue of two behind the lock, inserts that race with updates, *)
(* stale copies, and a second write with the object of the first.          *)
(***************************************************************************)
EXTENDS EnvelopeSigning, EnvelopeFileStore

VARIABLE machine

MCOrder     == [s \in Signer |-> IF s = "ann" THEN 1 ELSE 2]
MCMaxWrites == [c \in Caller |-> IF c = "p" THEN 2 ELSE 1]

MCInit == machine \in {"calls", "file"} /\ Init /\ FInit

\* Nothing tells calls apart but their names, so they begin in the order of these.
InTurn == \A c, d \in Call : c < d /\ phase[c] = "idle" => phase[d] = "idle"

MCNext ==
  /\ \/ machine = "calls" /\ Next /\ InTurn' /\ UNCHANGED fvars
     \/ machine = "file" /\ FNext /\ UNCHANGED vars
  /\ UNCHANGED machine

\* In a behaviour of one machine no action of the other that is to be fair is
\* ever enabled: no deadline has passed there, and nobody is in line.
MCSpec == MCInit /\ [][MCNext]_<<machine, vars, fvars>> /\ Fairness /\ FFairness
==============================================================================
