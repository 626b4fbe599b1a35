---------------------------- MODULE OneTimeHandoff ----------------------------
(***************************************************************************)
(* What the handoff of a credential promises for one activation: an offer  *)
(* is made, and made again as long as nothing was handed out; one          *)
(* credential, whose secret is there, is handed out; once handed out it    *)
(* is never exchanged for another, and once revoked nothing is handed out  *)
(* any more.                                                               *)
(***************************************************************************)
CONSTANT NoSecret

VARIABLES offer,     \* "none", "pending", "published" or "revoked"
          handed,    \* the secret that was handed out
          created    \* the secrets there are

hvars == <<offer, handed, created>>

HInit == offer = "none" /\ handed = NoSecret /\ created = {}

Create == created \subseteq created' /\ UNCHANGED <<offer, handed>>

Offer ==
  /\ offer \in {"none", "pending"}
  /\ offer' = "pending"
  /\ UNCHANGED <<handed, created>>

Publish ==
  /\ offer = "pending"
  /\ offer' = "published" /\ handed' \in created
  /\ UNCHANGED created

Revoke ==
  /\ offer # "none"
  /\ offer' = "revoked" /\ handed' = NoSecret
  /\ UNCHANGED created

HNext == Create \/ Offer \/ Publish \/ Revoke

HSpec == HInit /\ [][HNext]_hvars
==============================================================================
