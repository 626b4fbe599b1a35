---------------------------- MODULE IdentityGates ----------------------------
(***************************************************************************)
(* What identity/verify.ts asks of a signer's proof, identity/badge.ts of  *)
(* the registry's badge and identity/registry.ts of its answers: each gate *)
(* in the order of the code, as the reason it refuses for.                 *)
(***************************************************************************)
EXTENDS Integers, Sequences

Levels == <<"none", "L0", "L1", "L1p", "L2">>
Level  == {Levels[i] : i \in 1..Len(Levels)}

\* IDENTITY_LEVEL_ORDER
Rank(l) == CHOOSE i \in 1..Len(Levels) : Levels[i] = l

(***************************************************************************)
(* A proof: its uuaid ("agent" ones claim to be derived from a key), the   *)
(* nonce it signs (0: no proof, the uuaid alone), whether its uuaid        *)
(* derives from its key, and the credential that comes with it.            *)
(***************************************************************************)
Credentials == {"none", "unsafe", "keyless", "unsupported", "otherKey", "fits"}
Proofs(Uuaid, Nonce) ==
  [uuaid: Uuaid, wellFormed: BOOLEAN, agent: BOOLEAN, derives: BOOLEAN, nonce: Nonce,
   credential: Credentials]

(***************************************************************************)
(* What becomes of asking the registry - whether one is configured, it is  *)
(* the one the envelope was pinned to, with a key, and it answers 200, 404 *)
(* or not at all, with a badge of the right shape or not; its badge: the   *)
(* hash, the Ed25519 signatures that hold of the pinned key and of others, *)
(* its age, subject, status and key; and what it says of the credential.   *)
(***************************************************************************)
Answers(Uuaid) ==
  [badge: {"noRegistry", "otherRegistry", "noKey", "missing", "down", "malformed", "ok"},
   hashed: BOOLEAN, pinned: {"valid", "invalid", "absent"},
   others: BOOLEAN, fresh: BOOLEAN, subject: Uuaid, active: BOOLEAN,
   key: {"none", "unusable", "other", "same"},
   credential: {"down", "unusable", "foreign", "valid"}]

First(gates) ==
  LET failing == {i \in 1..Len(gates) : gates[i][1]}
  IN  IF failing = {} THEN "ok"
      ELSE gates[CHOOSE i \in failing : \A j \in failing : i <= j][2]

\* L0, and for L1 and above that there is a proof at all.
Asserted(min, pin, p) == First(<<
  <<~p.wellFormed,                     "L0_MALFORMED_UUID">>,
  <<pin # "none" /\ p.uuaid # pin,     "L0_UUAID_MISMATCH">>,
  <<min # "L0" /\ p.nonce = 0,         "L1_PROOF_REQUIRED">> >>)

\* L1 over the challenge as it was read: the document that must have been signed is
\* rebuilt from the stored challenge.
ChallengeGates(p, challenge) == <<
  <<challenge.nonce = 0,               "L1_NO_CHALLENGE">>,
  <<challenge.consumed,                "L1_NONCE_CONSUMED">>,
  <<challenge.expired,                 "L1_CHALLENGE_EXPIRED">>,
  <<p.nonce # challenge.nonce,         "L1_PROOF_INVALID">> >>

\* A credential that is presented must be of the key of the proof, at every level.
CredentialKeyGates(p) == <<
  <<p.credential = "unsafe",           "L1_UNSAFE_IDENTITY_STRING">>,
  <<p.credential = "keyless",          "L1_CREDENTIAL_KEY_MISSING">>,
  <<p.credential = "unsupported",      "L1_CREDENTIAL_KEY_UNSUPPORTED">>,
  <<p.credential = "otherKey",         "L1_CREDENTIAL_KEY_MISMATCH">> >>

\* A uuaid that claims to derive from its key is not passed off as a plain L1.
SelfGates(min, p) == <<
  <<p.agent /\ ~p.derives,             "L1P_KEY_UUAID_MISMATCH">>,
  <<min = "L1p" /\ ~p.agent,           "L1P_REQUIRED">> >>

Proven(min, p, challenge) ==
  First(ChallengeGates(p, challenge) \o CredentialKeyGates(p) \o SelfGates(min, p))

\* verifyRegistryBadge: it is the pinned key that makes a badge trustworthy.
Badge(a) == First(<<
  <<a.badge = "malformed",             "L2_BADGE_MALFORMED">>,
  <<~a.hashed,                         "L2_BADGE_HASH_MISMATCH">>,
  <<a.pinned = "invalid" \/ ~a.others, "L2_BADGE_SIGNATURE_INVALID">>,
  <<a.pinned = "absent",               "L2_BADGE_ISSUER_UNTRUSTED">>,
  <<~a.fresh,                          "L2_BADGE_STALE">> >>)

\* Before and after the request for the badge: never down to L1 when the registry
\* does not answer.
RegistryGates(a) == <<
  <<a.badge = "noRegistry",            "L2_NO_REGISTRY">>,
  <<a.badge = "otherRegistry",         "L2_REGISTRY_URL_CHANGED">>,
  <<a.badge = "noKey",                 "L2_NO_REGISTRY_KEY">>,
  <<a.badge = "missing",               "L2_UUAID_NOT_FOUND">>,
  <<a.badge = "down",                  "L2_REGISTRY_UNAVAILABLE">>,
  <<Badge(a) # "ok",                   Badge(a)>> >>

\* Mutation: the badge need not be of the uuaid that is proven.
AttestedAnySubject(p, a) == <<
  <<~a.active,                         "L2_UUAID_NOT_ACTIVE">>,
  <<a.key = "none",                    "L2_KEY_NOT_BOUND">>,
  <<a.key = "unusable",                "L2_BADGE_MALFORMED">>,
  <<a.key = "other",                   "L2_KEY_MISMATCH">> >>

\* What the badge must say: of this uuaid, active, and of the key of the proof.
Attested(p, a) == <<
  <<a.subject # p.uuaid,               "L2_BADGE_SUBJECT_MISMATCH">>,
  <<~a.active,                         "L2_UUAID_NOT_ACTIVE">>,
  <<a.key = "none",                    "L2_KEY_NOT_BOUND">>,
  <<a.key = "unusable",                "L2_BADGE_MALFORMED">>,
  <<a.key = "other",                   "L2_KEY_MISMATCH">> >>

CredentialGates(p, a) == <<
  <<p.credential # "none" /\ a.credential = "down",     "L2_CREDENTIAL_UNAVAILABLE">>,
  <<p.credential # "none" /\ a.credential = "unusable", "L2_CREDENTIAL_INVALID">>,
  <<p.credential # "none" /\ a.credential = "foreign",  "L2_CREDENTIAL_UUAID_MISMATCH">> >>

Registered(p, a) == First(RegistryGates(a) \o Attested(p, a) \o CredentialGates(p, a))

\* Below L2 a registry is asked about a uuaid that derives from its key, and only
\* a badge that can be trusted and names another key is a reason to refuse.
Disagreed(p, a) == First(<<
  <<a.badge = "ok" /\ Badge(a) = "ok" /\ a.subject = p.uuaid /\ a.key = "other",
    "L2_L1P_DISAGREEMENT">> >>)

\* The level of the record, which may be above the one asked for.
Granted(min, p) ==
  IF min \in {"L0", "L2"} THEN min ELSE IF p.agent THEN "L1p" ELSE "L1"
==============================================================================
