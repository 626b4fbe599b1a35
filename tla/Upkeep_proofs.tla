----------------------------- MODULE Upkeep_proofs -----------------------------
(***************************************************************************)
(* Three parts of the upkeep of an envelope: the identity of its signers,  *)
(* the reminders that are sent, and the events that are told of it.        *)
(*                                                                         *)
(* SignerIdentity.  That a challenge is good for one record, and that a    *)
(* record says no more than was proven, whatever the policy, the proofs    *)
(* that are presented, the answers of the registry and the requests that   *)
(* run at once.  What a request has established stays true of it through   *)
(* its awaits, because it is about the request's own proof; what it has    *)
(* established of the row is believed for as long as nobody has written    *)
(* the row since.                                                          *)
(***************************************************************************)
EXTENDS SignerIdentity, Reminders, EventDelivery, SequenceTheorems, FiniteSetTheorems,
        WellFoundedInduction, TLAPS

SignedProof == {Signed(p, n) : p \in Proof, n \in 0..MaxNonces}

\* What the registry has to have said of a proof at L2.
BadgeOf(p, a) ==
  /\ a.pinned = "valid" /\ a.subject = p.uuaid
  /\ a.active /\ a.fresh /\ a.key = "same"
  /\ p.credential # "none" => a.credential = "valid"

AttemptType ==
  [phase: Steps, proof: SignedProof \cup {NoProof}, answer: Answer \cup {NoAnswer},
   nonce: 0..MaxNonces, tries: 0..MaxFinalize, fresh: BOOLEAN]

Typed ==
  /\ policy \in Policy
  /\ challenge \in [nonce: 0..MaxNonces, consumed: BOOLEAN, expired: BOOLEAN]
  /\ verified \in [level: Level, proof: SignedProof \cup {NoProof}, answer: Answer \cup {NoAnswer}]
  /\ status \in {"pending", "signed", "closed"}
  /\ turn \in BOOLEAN /\ bypassed \in BOOLEAN
  /\ attempt \in [Verifier \cup Asker -> AttemptType]
  /\ used \in Seq(1..MaxNonces)

\* What the gates a request has passed say of its proof, and what the row says as long
\* as nobody else has written it.
Earned(v) ==
  /\ v.phase \in {"verify", "registry", "finalize", "write"} =>
       policy.min # "none" /\ policy.pin \in {"none", v.proof.uuaid} /\ v.proof \in SignedProof
  /\ v.phase \in {"registry", "finalize", "write"} /\ policy.min # "L0" =>
       /\ v.nonce = v.proof.nonce /\ v.nonce # 0
       /\ v.proof.agent => v.proof.derives
       /\ policy.min = "L1p" => v.proof.agent
  /\ v.phase \in {"finalize", "write"} /\ policy.min = "L2" => BadgeOf(v.proof, v.answer)
  /\ v.phase = "write" /\ v.fresh /\ policy.min # "L0" =>
       challenge.nonce = v.nonce /\ ~challenge.consumed
  /\ v.phase = "sign" => policy.min = "none" \/ verified # NoRecord
  /\ v.phase \in {"verify", "registry", "finalize"} => v.tries < MaxFinalize

\* The nonces that were used are older than the challenge, or it is consumed.
Spent ==
  /\ \A i \in 1..Len(used) :
       used[i] <= challenge.nonce /\ (used[i] = challenge.nonce => challenge.consumed)

\* The inductive invariant.
Identity ==
  /\ Typed /\ Spent /\ NonceForOneRecord /\ IdentityEarned
  /\ \A c \in Verifier \cup Asker : Earned(attempt[c])

------------------------------------------------------------------------------
(***************************************************************************)
(* The levels and the gates.                                               *)
(***************************************************************************)
\* IDENTITY_LEVEL_ORDER: the levels, and which is above which.
LEMMA LevelRanks ==
  /\ Level = {"none", "L0", "L1", "L1p", "L2"}
  /\ Rank("none") = 1 /\ Rank("L0") = 2 /\ Rank("L1") = 3 /\ Rank("L1p") = 4 /\ Rank("L2") = 5
<1>1. Level = {"none", "L0", "L1", "L1p", "L2"}
  BY DEF Level, Levels
<1>2. \A i \in 1..5 : Rank(Levels[i]) = i
  BY DEF Rank, Levels
<1> QED
  BY <1>1, <1>2 DEF Levels

\* A set of gates that fail has a first one.
LEMMA HasFirst ==
  ASSUME NEW T, T \subseteq Nat, T # {}
  PROVE  \E i \in T : \A j \in T : i <= j
<1> DEFINE R == OpToRel(<, Nat)
<1>1. R = {ss \in Nat \X Nat : ss[1] < ss[2]}
  BY Zenon DEF OpToRel
<1>2. IsWellFoundedOn(R, Nat)
  BY NatLessThanWellFounded, Zenon
<1> HIDE DEF R
<1>3. PICK i \in T : \A j \in T : <<j, i>> \notin R
  BY <1>2, WFMin, Zenon
<1>4. ASSUME NEW j \in T, j < i PROVE FALSE
  <2>1. <<j, i>> \in Nat \X Nat /\ <<j, i>>[1] < <<j, i>>[2]
    BY <1>4
  <2> QED
    BY <1>1, <1>3, <2>1
<1> QED
  BY <1>4

\* The gates of verify.ts pass only when each of them does, as none refuses for "ok".
LEMMA PassesAll ==
  ASSUME NEW gates, Len(gates) \in Nat,
         \A i \in 1..Len(gates) : gates[i][1] => gates[i][2] # "ok",
         First(gates) = "ok"
  PROVE  \A i \in 1..Len(gates) : ~gates[i][1]
<1> DEFINE failing == {i \in 1..Len(gates) : gates[i][1]}
<1>1. SUFFICES ASSUME failing # {} PROVE FALSE
  OBVIOUS
<1>2. \E i \in failing : \A j \in failing : i <= j
  <2>1. failing \subseteq Nat
    OBVIOUS
  <2> HIDE DEF failing
  <2> QED
    BY <2>1, <1>1, HasFirst
<1>3. (CHOOSE i \in failing : \A j \in failing : i <= j) \in failing
  BY <1>2
<1> QED
  BY <1>1, <1>3 DEF First

\* What passes for a proof in acceptance: well formed, of the pinned identity, and with a
\* signature from L1 on.
LEMMA AssertedFacts ==
  ASSUME NEW min, NEW pin, NEW p, Asserted(min, pin, p) = "ok"
  PROVE  pin \in {"none", p.uuaid} /\ (min # "L0" => p.nonce # 0)
<1> DEFINE g1 == <<~p.wellFormed,                 "L0_MALFORMED_UUID">>
           g2 == <<pin # "none" /\ p.uuaid # pin, "L0_UUAID_MISMATCH">>
           g3 == <<min # "L0" /\ p.nonce = 0,     "L1_PROOF_REQUIRED">>
<1>1. First(<<g1, g2, g3>>) = "ok"
  BY DEF Asserted
<1>2. g1[2] # "ok" /\ g2[2] # "ok" /\ g3[2] # "ok"
  OBVIOUS
<1>3. ~g1[1] /\ ~g2[1] /\ ~g3[1]
  <2> HIDE DEF g1, g2, g3
  <2> DEFINE g == <<g1, g2, g3>>
  <2>1. Len(g) = 3 /\ g[1] = g1 /\ g[2] = g2 /\ g[3] = g3
    OBVIOUS
  <2>2. First(g) = "ok"
    BY <1>1
  <2> HIDE DEF g
  <2>3. \A i \in 1..3 : ~g[i][1]
    BY <1>2, <2>1, <2>2, PassesAll
  <2> QED
    BY <2>1, <2>3
<1>4. ~(pin # "none" /\ p.uuaid # pin) /\ ~(min # "L0" /\ p.nonce = 0)
  BY <1>3, Zenon
<1> QED
  BY <1>4

\* A proof that holds is over the challenge as it was read, and of an agent's own key if
\* its uuaid says so, or the policy does.
LEMMA ProvenFacts ==
  ASSUME NEW min, NEW p, NEW ch,
         Proven(min, p, ch) = "ok"
  PROVE  /\ ch.nonce # 0 /\ ~ch.consumed /\ ~ch.expired /\ p.nonce = ch.nonce
         /\ p.agent => p.derives
         /\ min = "L1p" => p.agent
<1> DEFINE g1  == <<ch.nonce = 0,                 "L1_NO_CHALLENGE">>
           g2  == <<ch.consumed,                  "L1_NONCE_CONSUMED">>
           g3  == <<ch.expired,                   "L1_CHALLENGE_EXPIRED">>
           g4  == <<p.nonce # ch.nonce,           "L1_PROOF_INVALID">>
           g5  == <<p.credential = "unsafe",      "L1_UNSAFE_IDENTITY_STRING">>
           g6  == <<p.credential = "keyless",     "L1_CREDENTIAL_KEY_MISSING">>
           g7  == <<p.credential = "unsupported", "L1_CREDENTIAL_KEY_UNSUPPORTED">>
           g8  == <<p.credential = "otherKey",    "L1_CREDENTIAL_KEY_MISMATCH">>
           g9  == <<p.agent /\ ~p.derives,        "L1P_KEY_UUAID_MISMATCH">>
           g10 == <<min = "L1p" /\ ~p.agent,      "L1P_REQUIRED">>
<1>1. First(<<g1, g2, g3, g4>> \o <<g5, g6, g7, g8>> \o <<g9, g10>>) = "ok"
  BY DEF Proven, ChallengeGates, CredentialKeyGates, SelfGates
<1>2. /\ g1[2] # "ok" /\ g2[2] # "ok" /\ g3[2] # "ok" /\ g4[2] # "ok"
      /\ g5[2] # "ok" /\ g6[2] # "ok" /\ g7[2] # "ok" /\ g8[2] # "ok"
      /\ g9[2] # "ok" /\ g10[2] # "ok"
  OBVIOUS
<1>3. /\ ~g1[1] /\ ~g2[1] /\ ~g3[1] /\ ~g4[1]
      /\ ~g5[1] /\ ~g6[1] /\ ~g7[1] /\ ~g8[1]
      /\ ~g9[1] /\ ~g10[1]
  <2> HIDE DEF g1, g2, g3, g4, g5, g6, g7, g8, g9, g10
  <2> DEFINE g == <<g1, g2, g3, g4>> \o <<g5, g6, g7, g8>> \o <<g9, g10>>
  <2>1. /\ Len(g) = 10
        /\ g[1] = g1 /\ g[2] = g2 /\ g[3] = g3 /\ g[4] = g4
        /\ g[5] = g5 /\ g[6] = g6 /\ g[7] = g7 /\ g[8] = g8
        /\ g[9] = g9 /\ g[10] = g10
    OBVIOUS
  <2>2. First(g) = "ok"
    BY <1>1
  <2> HIDE DEF g
  <2>3. Len(g) \in Nat /\ \A i \in 1..Len(g) : g[i][1] => g[i][2] # "ok"
    BY <1>2, <2>1
  <2>4. \A i \in 1..Len(g) : ~g[i][1]
    BY <2>2, <2>3, PassesAll, Zenon
  <2> QED
    BY <2>1, <2>4
<1>4. /\ ~(ch.nonce = 0) /\ ~ch.consumed /\ ~ch.expired /\ ~(p.nonce # ch.nonce)
      /\ ~(p.agent /\ ~p.derives) /\ ~(min = "L1p" /\ ~p.agent)
  BY <1>3, Zenon
<1> QED
  BY <1>4

\* verifyRegistryBadge accepts a fresh badge with a signature of the pinned key.
LEMMA BadgeFacts ==
  ASSUME NEW a,
         Badge(a) = "ok"
  PROVE  a.pinned \notin {"invalid", "absent"} /\ a.fresh
<1> DEFINE g1  == <<a.badge = "malformed",             "L2_BADGE_MALFORMED">>
           g2  == <<~a.hashed,                         "L2_BADGE_HASH_MISMATCH">>
           g3  == <<a.pinned = "invalid" \/ ~a.others, "L2_BADGE_SIGNATURE_INVALID">>
           g4  == <<a.pinned = "absent",               "L2_BADGE_ISSUER_UNTRUSTED">>
           g5  == <<~a.fresh,                          "L2_BADGE_STALE">>
<1>1. First(<<g1, g2, g3, g4, g5>>) = "ok"
  BY DEF Badge
<1>2. /\ g1[2] # "ok" /\ g2[2] # "ok" /\ g3[2] # "ok" /\ g4[2] # "ok" /\ g5[2] # "ok"
  OBVIOUS
<1>3. /\ ~g1[1] /\ ~g2[1] /\ ~g3[1] /\ ~g4[1] /\ ~g5[1]
  <2> HIDE DEF g1, g2, g3, g4, g5
  <2> DEFINE g == <<g1, g2, g3, g4, g5>>
  <2>1. /\ Len(g) = 5
        /\ g[1] = g1 /\ g[2] = g2 /\ g[3] = g3 /\ g[4] = g4 /\ g[5] = g5
    OBVIOUS
  <2>2. First(g) = "ok"
    BY <1>1
  <2> HIDE DEF g
  <2>3. Len(g) \in Nat /\ \A i \in 1..Len(g) : g[i][1] => g[i][2] # "ok"
    BY <1>2, <2>1
  <2>4. \A i \in 1..Len(g) : ~g[i][1]
    BY <2>2, <2>3, PassesAll, Zenon
  <2> QED
    BY <2>1, <2>4
<1>4. /\ ~(a.pinned = "invalid" \/ ~a.others) /\ ~(a.pinned = "absent") /\ ~~a.fresh
  BY <1>3, Zenon
<1> QED
  BY <1>4

\* An answer of the registry that is accepted at L2 is a badge of the pinned key for the
\* identity and key of the proof, and covers its credential.
LEMMA RegisteredFacts ==
  ASSUME NEW p, NEW a \in Answer,
         Registered(p, a) = "ok"
  PROVE  BadgeOf(p, a)
<1> DEFINE g1  == <<a.badge = "noRegistry",                             "L2_NO_REGISTRY">>
           g2  == <<a.badge = "otherRegistry",                          "L2_REGISTRY_URL_CHANGED">>
           g3  == <<a.badge = "noKey",                                  "L2_NO_REGISTRY_KEY">>
           g4  == <<a.badge = "missing",                                "L2_UUAID_NOT_FOUND">>
           g5  == <<a.badge = "down",                                   "L2_REGISTRY_UNAVAILABLE">>
           g6  == <<Badge(a) # "ok",                                    Badge(a)>>
           g7  == <<a.subject # p.uuaid,                                "L2_BADGE_SUBJECT_MISMATCH">>
           g8  == <<~a.active,                                          "L2_UUAID_NOT_ACTIVE">>
           g9  == <<a.key = "none",                                     "L2_KEY_NOT_BOUND">>
           g10 == <<a.key = "unusable",                                 "L2_BADGE_MALFORMED">>
           g11 == <<a.key = "other",                                    "L2_KEY_MISMATCH">>
           g12 == <<p.credential # "none" /\ a.credential = "down",     "L2_CREDENTIAL_UNAVAILABLE">>
           g13 == <<p.credential # "none" /\ a.credential = "unusable", "L2_CREDENTIAL_INVALID">>
           g14 == <<p.credential # "none" /\ a.credential = "foreign",  "L2_CREDENTIAL_UUAID_MISMATCH">>
<1>1. First(<<g1, g2, g3, g4, g5, g6>> \o <<g7, g8, g9, g10, g11>> \o <<g12, g13, g14>>) = "ok"
  BY DEF Registered, RegistryGates, Attested, CredentialGates
<1>2. /\ g1[2] # "ok" /\ g2[2] # "ok" /\ g3[2] # "ok" /\ g4[2] # "ok" /\ g5[2] # "ok" /\ (g6[1] => g6[2] # "ok")
      /\ g7[2] # "ok" /\ g8[2] # "ok" /\ g9[2] # "ok" /\ g10[2] # "ok" /\ g11[2] # "ok"
      /\ g12[2] # "ok" /\ g13[2] # "ok" /\ g14[2] # "ok"
  OBVIOUS
<1>3. /\ ~g1[1] /\ ~g2[1] /\ ~g3[1] /\ ~g4[1] /\ ~g5[1] /\ ~g6[1]
      /\ ~g7[1] /\ ~g8[1] /\ ~g9[1] /\ ~g10[1] /\ ~g11[1]
      /\ ~g12[1] /\ ~g13[1] /\ ~g14[1]
  <2> HIDE DEF g1, g2, g3, g4, g5, g6, g7, g8, g9, g10, g11, g12, g13, g14
  <2> DEFINE g == <<g1, g2, g3, g4, g5, g6>> \o <<g7, g8, g9, g10, g11>> \o <<g12, g13, g14>>
  <2>1. /\ Len(g) = 14
        /\ g[1] = g1 /\ g[2] = g2 /\ g[3] = g3 /\ g[4] = g4 /\ g[5] = g5 /\ g[6] = g6
        /\ g[7] = g7 /\ g[8] = g8 /\ g[9] = g9 /\ g[10] = g10 /\ g[11] = g11
        /\ g[12] = g12 /\ g[13] = g13 /\ g[14] = g14
    OBVIOUS
  <2>2. First(g) = "ok"
    BY <1>1
  <2> HIDE DEF g
  <2>3. Len(g) \in Nat /\ \A i \in 1..Len(g) : g[i][1] => g[i][2] # "ok"
    BY <1>2, <2>1
  <2>4. \A i \in 1..Len(g) : ~g[i][1]
    BY <2>2, <2>3, PassesAll, Zenon
  <2> QED
    BY <2>1, <2>4
<1>4. /\ ~(Badge(a) # "ok") /\ ~(a.subject # p.uuaid) /\ ~~a.active
      /\ ~(a.key = "none") /\ ~(a.key = "unusable") /\ ~(a.key = "other")
      /\ ~(p.credential # "none" /\ a.credential = "down")
      /\ ~(p.credential # "none" /\ a.credential = "unusable")
      /\ ~(p.credential # "none" /\ a.credential = "foreign")
  BY <1>3, Zenon
<1>5. a \in Answers({a.subject})
  BY InputAssumption
<1> QED
  BY <1>4, <1>5, BadgeFacts DEF BadgeOf, Answers


------------------------------------------------------------------------------
(***************************************************************************)
(* The invariant.                                                          *)
(***************************************************************************)
\* An idle request has established nothing, and is typed.
LEMMA IdleEarned ==
  NoAttempt \in AttemptType /\ Earned(NoAttempt)
BY IdentityAssumption DEF NoAttempt, AttemptType, Earned, Steps

\* A new envelope has a fresh challenge, no record and no request.
LEMMA StartsIdentity ==
  SInit => Identity
<1> SUFFICES ASSUME SInit PROVE Identity
  OBVIOUS
<1>1. Typed
  <2>1. NoRecord \in [level: Level, proof: SignedProof \cup {NoProof}, answer: Answer \cup {NoAnswer}]
    BY LevelRanks DEF NoRecord
  <2>2. challenge \in [nonce: 0..MaxNonces, consumed: BOOLEAN, expired: BOOLEAN]
    BY IdentityAssumption DEF SInit
  <2>3. /\ policy \in Policy /\ verified = NoRecord /\ status = "pending"
        /\ turn \in BOOLEAN /\ bypassed \in BOOLEAN /\ used = <<>>
        /\ attempt = [c \in Verifier \cup Asker |-> NoAttempt]
    BY DEF SInit
  <2> QED
    BY <2>1, <2>2, <2>3, IdleEarned DEF Typed
<1>2. Spent
  BY DEF SInit, Spent
<1>3. NonceForOneRecord
  BY DEF SInit, NonceForOneRecord
<1>4. IdentityEarned
  BY DEF SInit, IdentityEarned
<1>5. \A c \in Verifier \cup Asker : Earned(attempt[c])
  BY IdleEarned DEF SInit
<1> QED
  BY <1>1, <1>2, <1>3, <1>4, <1>5 DEF Identity

\* What another request has earned it keeps, as long as what it believes of the row is
\* as it was, or it believes nothing any more.
LEMMA EarnedKept ==
  ASSUME NEW d \in Verifier \cup Asker, Earned(attempt[d]), attempt[d] \in AttemptType,
         \/ attempt'[d] = attempt[d] /\ challenge'.nonce = challenge.nonce
                                     /\ challenge'.consumed = challenge.consumed
         \/ attempt'[d] = [attempt[d] EXCEPT !.fresh = FALSE],
         policy' = policy, verified # NoRecord => verified' # NoRecord
  PROVE  Earned(attempt[d])' /\ attempt'[d] \in AttemptType
<1> DEFINE v == attempt[d]
           w == attempt'[d]
<1>1. w \in AttemptType
  BY DEF AttemptType
<1>2. /\ w.phase = v.phase /\ w.proof = v.proof /\ w.answer = v.answer
      /\ w.nonce = v.nonce /\ w.tries = v.tries
      /\ w.fresh => v.fresh /\ challenge'.nonce = challenge.nonce
                            /\ challenge'.consumed = challenge.consumed
  BY DEF AttemptType
<1> QED
  BY <1>1, <1>2 DEF Earned

\* A step of one request that leaves the row alone.
LEMMA RowKept ==
  ASSUME Identity, UNCHANGED SignerRow, NEW c \in Verifier \cup Asker,
         \E v \in AttemptType : Becomes(c, v) /\ Earned(v)
  PROVE  Identity'
<1>1. PICK v \in AttemptType : Becomes(c, v) /\ Earned(v)
  OBVIOUS
<1>2. Typed'
  BY <1>1 DEF Identity, Typed, SignerRow, Becomes
<1>3. Spent' /\ NonceForOneRecord' /\ IdentityEarned'
  BY DEF Identity, Spent, NonceForOneRecord, IdentityEarned, SignerRow
<1>4. ASSUME NEW d \in Verifier \cup Asker PROVE Earned(attempt[d])'
  <2>1. CASE d = c
    <3>1. attempt'[d] = v
      BY <1>1, <2>1 DEF Identity, Typed, Becomes
    <3> QED
      BY <1>1, <3>1 DEF Earned, SignerRow
  <2>2. CASE d # c
    <3>1. attempt'[d] = attempt[d] /\ attempt[d] \in AttemptType
      BY <1>1, <2>2 DEF Identity, Typed, Becomes
    <3> QED
      BY <3>1, EarnedKept DEF Identity, SignerRow
  <2> QED
    BY <2>1, <2>2
<1> QED
  BY <1>2, <1>3, <1>4 DEF Identity

\* issueChallenge and a refused request leave the row as it was.
LEMMA RefuseKeeps ==
  ASSUME Identity, UNCHANGED SignerRow, NEW c \in Verifier \cup Asker, Refuse(c)
  PROVE  Identity'
<1>1. \E v \in AttemptType : Becomes(c, v) /\ Earned(v)
  BY IdleEarned DEF Refuse
<1> QED
  BY <1>1, RowKept

LEMMA AskKeeps ==
  ASSUME Identity, NEW c \in Asker, Ask(c)
  PROVE  Identity'
<1> DEFINE w == [NoAttempt EXCEPT !.phase = "mint", !.fresh = TRUE]
<1>1. w \in AttemptType /\ Earned(w)
  BY IdleEarned DEF AttemptType, NoAttempt, Earned, Steps
<1>2. Becomes(c, w) /\ UNCHANGED SignerRow
  BY DEF Ask
<1> HIDE DEF w
<1> QED
  BY <1>1, <1>2, RowKept

\* A request that finds the gate shut has established nothing.
LEMMA BypassKeeps ==
  ASSUME Identity, NEW c \in Verifier, Bypass(c)
  PROVE  Identity'
<1> DEFINE w == [attempt[c] EXCEPT !.phase = "unasked"]
<1>1. attempt[c] \in AttemptType
  BY DEF Identity, Typed
<1>2. w \in AttemptType /\ Earned(w)
  BY <1>1 DEF AttemptType, Steps, Earned
<1>3. Becomes(c, w) /\ UNCHANGED SignerRow
  BY DEF Bypass, GoesTo
<1> HIDE DEF w
<1> QED
  BY <1>2, <1>3, RowKept

\* sign and acceptPreVerifiedIdentity: the proof is of the pinned identity; or there is a
\* record already, or the policy asks for none.
LEMMA PresentKeeps ==
  ASSUME Identity, NEW c \in Verifier, Present(c)
  PROVE  Identity'
<1>1. UNCHANGED SignerRow
  BY DEF Present
<1>2. attempt[c] \in AttemptType
  BY DEF Identity, Typed
<1>3. CASE Skips(c)
  <2> DEFINE w == [attempt[c] EXCEPT !.phase = "sign"]
  <2>1. w \in AttemptType /\ Earned(w)
    BY <1>2, <1>3 DEF AttemptType, Steps, Earned, Skips, PreVerified
  <2>2. Becomes(c, w)
    BY <1>3 DEF Present, GoesTo
  <2> HIDE DEF w
  <2> QED
    BY <1>1, <2>1, <2>2, RowKept
<1>4. CASE ~Skips(c)
  <2>1. policy.min # "none"
    BY <1>4 DEF Present, Skips, Verifier
  <2>2. PICK p \in Proof, n \in Nonces :
          /\ Asserted(policy.min, policy.pin, Signed(p, n)) = "ok"
          /\ Becomes(c, [NoAttempt EXCEPT !.phase = IF policy.min = "L0" THEN "finalize"
                                                ELSE "verify",
                                      !.proof = Signed(p, n)])
    BY <1>4 DEF Present
  <2> DEFINE q == Signed(p, n)
             w == [NoAttempt EXCEPT !.phase = IF policy.min = "L0" THEN "finalize" ELSE "verify",
                                    !.proof = q]
  <2>3. q \in SignedProof /\ policy.pin \in {"none", q.uuaid}
    <3>1. n \in 0..MaxNonces
      BY IdentityAssumption DEF Identity, Typed, Nonces
    <3>2. q \in SignedProof
      BY <3>1 DEF SignedProof
    <3> HIDE DEF q
    <3>3. Asserted(policy.min, policy.pin, q) = "ok"
      BY <2>2 DEF q
    <3> QED
      BY <3>2, <3>3, AssertedFacts
  <2> HIDE DEF q
  <2>4. w \in AttemptType
    BY <2>3, IdleEarned DEF AttemptType, Steps
  <2>5. /\ w.phase = IF policy.min = "L0" THEN "finalize" ELSE "verify"
        /\ w.proof = q /\ w.tries = 0
    BY DEF NoAttempt
  <2>6. Becomes(c, w)
    BY <2>2 DEF q
  <2> HIDE DEF w
  <2>7. Earned(w)
    BY <2>1, <2>3, <2>5, IdentityAssumption DEF Earned
  <2> QED
    BY <1>1, <2>4, <2>6, <2>7, RowKept
<1> QED
  BY <1>3, <1>4

\* verifyL1: the proof is over the challenge that was read.
LEMMA VerifyKeeps ==
  ASSUME Identity, NEW c \in Verifier, Verify(c)
  PROVE  Identity'
<1> DEFINE v == attempt[c]
<1>1. UNCHANGED SignerRow /\ v.phase = "verify"
  BY DEF Verify
<1>2. v \in AttemptType /\ Earned(v) /\ challenge.nonce \in 0..MaxNonces
  BY DEF Identity, Typed
<1>3. CASE Proven(policy.min, v.proof, challenge) = "ok"
  <2> DEFINE w == [v EXCEPT !.nonce = challenge.nonce,
                !.phase = IF policy.min = "L2" \/ v.proof.agent THEN "registry" ELSE "finalize"]
  <2>1. /\ challenge.nonce # 0 /\ v.proof.nonce = challenge.nonce
        /\ v.proof.agent => v.proof.derives
        /\ policy.min = "L1p" => v.proof.agent
    BY <1>3, ProvenFacts
  <2>2. w \in AttemptType
    BY <1>2 DEF AttemptType, Steps
  <2>3. /\ w.phase \in {"registry", "finalize"} /\ (policy.min = "L2" => w.phase = "registry")
        /\ w.proof = v.proof /\ w.nonce = challenge.nonce /\ w.tries = v.tries
    BY <1>2 DEF AttemptType
  <2>4. Becomes(c, w)
    BY <1>3 DEF Verify
  <2> HIDE DEF w
  <2>5. Earned(w)
    BY <1>1, <1>2, <2>1, <2>3 DEF Earned
  <2> QED
    BY <1>1, <2>2, <2>4, <2>5, RowKept
<1>4. CASE Proven(policy.min, v.proof, challenge) # "ok"
  BY <1>1, <1>4, RefuseKeeps DEF Verify
<1> QED
  BY <1>3, <1>4

\* verifyL2, and the disagreement check below it.
LEMMA AskRegistryKeeps ==
  ASSUME Identity, NEW c \in Verifier, AskRegistry(c)
  PROVE  Identity'
<1> DEFINE v == attempt[c]
<1>1. UNCHANGED SignerRow /\ v.phase = "registry"
  BY DEF AskRegistry
<1>2. v \in AttemptType /\ Earned(v)
  BY DEF Identity, Typed
<1>3. PICK a \in Answer :
        IF (IF policy.min = "L2" THEN Registered(v.proof, a) ELSE Disagreed(v.proof, a)) = "ok"
        THEN Becomes(c, [v EXCEPT !.phase = "finalize",
                                  !.answer = IF policy.min = "L2" THEN a ELSE NoAnswer])
        ELSE Refuse(c)
  BY DEF AskRegistry
<1> DEFINE w == [v EXCEPT !.phase = "finalize",
                          !.answer = IF policy.min = "L2" THEN a ELSE NoAnswer]
<1>4. CASE Becomes(c, w) /\ (policy.min = "L2" => Registered(v.proof, a) = "ok")
  <2>1. policy.min = "L2" => BadgeOf(v.proof, a)
    BY <1>4, RegisteredFacts
  <2>2. w \in AttemptType
    BY <1>2 DEF AttemptType, Steps
  <2>3. /\ w.phase = "finalize" /\ w.proof = v.proof /\ w.nonce = v.nonce /\ w.tries = v.tries
        /\ policy.min = "L2" => w.answer = a
    BY <1>2 DEF AttemptType
  <2> HIDE DEF w
  <2>4. Earned(w)
    BY <1>1, <1>2, <2>1, <2>3 DEF Earned
  <2> QED
    BY <1>1, <1>4, <2>2, <2>4, RowKept
<1>5. CASE Refuse(c)
  BY <1>1, <1>5, RefuseKeeps
<1> QED
  BY <1>3, <1>4, <1>5

\* finalizeChallenge reads the row: the challenge is the one the proof was verified over.
LEMMA FinalizeKeeps ==
  ASSUME Identity, NEW c \in Verifier, Finalize(c)
  PROVE  Identity'
<1> DEFINE v == attempt[c]
<1>1. UNCHANGED SignerRow /\ v.phase = "finalize"
  BY DEF Finalize
<1>2. v \in AttemptType /\ Earned(v)
  BY DEF Identity, Typed
<1>3. CASE StillOpen(c)
  <2> DEFINE w == [v EXCEPT !.phase = "write", !.fresh = TRUE, !.tries = @ + 1]
  <2>1. v.tries + 1 \in 0..MaxFinalize
    <3>1. v.tries < MaxFinalize /\ v.tries \in 0..MaxFinalize
      BY <1>1, <1>2 DEF Earned, AttemptType
    <3> QED
      BY <3>1, IdentityAssumption
  <2>2. w \in AttemptType
    BY <1>2, <2>1 DEF AttemptType, Steps
  <2>3. w.phase = "write" /\ w.proof = v.proof /\ w.nonce = v.nonce /\ w.answer = v.answer
    BY <1>2 DEF AttemptType
  <2>4. Becomes(c, w)
    BY <1>3 DEF Finalize
  <2> HIDE DEF w
  <2>5. Earned(w)
    BY <1>1, <1>2, <1>3, <2>3 DEF Earned, StillOpen
  <2> QED
    BY <1>1, <2>2, <2>4, <2>5, RowKept
<1>4. CASE ~StillOpen(c)
  BY <1>1, <1>4, RefuseKeeps DEF Finalize
<1> QED
  BY <1>3, <1>4

\* A write of the row by one request: the others have read a row that is no more.
LEMMA WroteKeeps ==
  ASSUME Identity, NEW c \in Verifier \cup Asker,
         policy' = policy, verified # NoRecord => verified' # NoRecord,
         \E v \in AttemptType : WroteRowAs(c, v) /\ Earned(v)'
  PROVE  /\ attempt' \in [Verifier \cup Asker -> AttemptType]
         /\ \A d \in Verifier \cup Asker : Earned(attempt[d])'
<1>1. PICK v \in AttemptType : WroteRowAs(c, v) /\ Earned(v)'
  OBVIOUS
<1>2. attempt \in [Verifier \cup Asker -> AttemptType]
  BY DEF Identity, Typed
<1>3. attempt' = [d \in Verifier \cup Asker |->
                    IF d = c THEN v ELSE [attempt[d] EXCEPT !.fresh = FALSE]]
  BY <1>1, <1>2 DEF WroteRowAs
<1>4. ASSUME NEW d \in Verifier \cup Asker
      PROVE  Earned(attempt[d])' /\ attempt'[d] \in AttemptType
  <2>1. CASE d = c
    <3>1. attempt'[d] = v
      BY <1>3, <2>1
    <3> QED
      BY <1>1, <3>1 DEF Earned
  <2>2. CASE d # c
    <3>1. attempt'[d] = [attempt[d] EXCEPT !.fresh = FALSE] /\ attempt[d] \in AttemptType
      BY <1>2, <1>3, <2>2
    <3> QED
      BY <3>1, EarnedKept DEF Identity
  <2> QED
    BY <2>1, <2>2
<1> QED
  BY <1>3, <1>4

\* issueChallenge: the new nonce is one that no record was written for.
LEMMA MintKeeps ==
  ASSUME Identity, NEW c \in Asker, Mint(c)
  PROVE  Identity'
<1>1. UNCHANGED <<policy, verified, status, turn, used, bypassed>>
  BY DEF Mint
<1>2. CASE ~attempt[c].fresh
  BY <1>1, <1>2, RefuseKeeps DEF Mint, SignerRow
<1>3. CASE attempt[c].fresh
  <2>1. /\ challenge.nonce < MaxNonces
        /\ challenge' = [nonce |-> challenge.nonce + 1, consumed |-> FALSE, expired |-> FALSE]
        /\ WroteRowAs(c, NoAttempt)
    BY <1>3 DEF Mint
  <2>2. challenge.nonce \in 0..MaxNonces /\ used \in Seq(1..MaxNonces)
    BY DEF Identity, Typed
  <2>3. challenge' \in [nonce: 0..MaxNonces, consumed: BOOLEAN, expired: BOOLEAN]
    <3>1. challenge.nonce + 1 \in 0..MaxNonces
      BY <2>1, <2>2, IdentityAssumption
    <3> QED
      BY <2>1, <3>1
  <2>4. Earned(NoAttempt)'
    BY IdentityAssumption DEF Earned, NoAttempt
  <2>5. /\ attempt' \in [Verifier \cup Asker -> AttemptType]
        /\ \A d \in Verifier \cup Asker : Earned(attempt[d])'
    BY <1>1, <2>1, <2>4, IdleEarned, WroteKeeps
  <2>6. Typed'
    BY <1>1, <2>3, <2>5 DEF Identity, Typed
  <2>7. Spent'
    <3>1. \A i \in 1..Len(used) : used[i] \in 1..MaxNonces
      BY <2>2, ElementOfSeq
    <3>2. \A i \in 1..Len(used) : used[i] <= challenge.nonce
      BY DEF Identity, Spent
    <3>3. challenge'.nonce = challenge.nonce + 1
      BY <2>1
    <3> QED
      BY <1>1, <2>2, <3>1, <3>2, <3>3 DEF Spent
  <2>8. NonceForOneRecord' /\ IdentityEarned'
    BY <1>1, <2>1 DEF Identity, NonceForOneRecord, IdentityEarned
  <2> QED
    BY <2>5, <2>6, <2>7, <2>8 DEF Identity
<1> QED
  BY <1>2, <1>3

\* A challenge that expires is the same challenge.
LEMMA ExpireKeeps ==
  ASSUME Identity, Expire
  PROVE  Identity'
<1>1. challenge \in [nonce: 0..MaxNonces, consumed: BOOLEAN, expired: BOOLEAN]
  BY DEF Identity, Typed
<1>2. /\ challenge' \in [nonce: 0..MaxNonces, consumed: BOOLEAN, expired: BOOLEAN]
      /\ challenge'.nonce = challenge.nonce /\ challenge'.consumed = challenge.consumed
      /\ UNCHANGED <<policy, verified, status, turn, attempt, used, bypassed>>
  BY <1>1 DEF Expire
<1>3. Typed'
  BY <1>2 DEF Identity, Typed
<1>4. Spent' /\ NonceForOneRecord' /\ IdentityEarned'
  BY <1>2 DEF Identity, Spent, NonceForOneRecord, IdentityEarned
<1>5. \A d \in Verifier \cup Asker : Earned(attempt[d])'
  BY <1>2 DEF Identity, Earned
<1> QED
  BY <1>3, <1>4, <1>5 DEF Identity

\* The envelope is closed by another write of the row.
LEMMA CloseKeeps ==
  ASSUME Identity, Close
  PROVE  Identity'
<1>1. attempt \in [Verifier \cup Asker -> AttemptType]
  BY DEF Identity, Typed
<1>2. /\ attempt' = [c \in Verifier \cup Asker |-> [attempt[c] EXCEPT !.fresh = FALSE]]
      /\ status' = "closed" /\ UNCHANGED <<policy, challenge, verified, turn, used, bypassed>>
  BY <1>1 DEF Close
<1>3. ASSUME NEW d \in Verifier \cup Asker
      PROVE  Earned(attempt[d])' /\ attempt'[d] \in AttemptType
  <2>1. attempt[d] \in AttemptType /\ attempt'[d] = [attempt[d] EXCEPT !.fresh = FALSE]
    BY <1>1, <1>2
  <2> QED
    BY <1>2, <2>1, EarnedKept DEF Identity
<1>4. Typed'
  BY <1>2, <1>3 DEF Identity, Typed
<1>5. Spent' /\ NonceForOneRecord' /\ IdentityEarned'
  BY <1>2 DEF Identity, Spent, NonceForOneRecord, IdentityEarned
<1> QED
  BY <1>3, <1>4, <1>5 DEF Identity

\* The turn comes with another write of the row.
LEMMA TurnComesKeeps ==
  ASSUME Identity, TurnComes
  PROVE  Identity'
<1>1. attempt \in [Verifier \cup Asker -> AttemptType]
  BY DEF Identity, Typed
<1>2. /\ attempt' = [c \in Verifier \cup Asker |-> [attempt[c] EXCEPT !.fresh = FALSE]]
      /\ turn' = TRUE /\ UNCHANGED <<policy, challenge, verified, status, used, bypassed>>
  BY <1>1 DEF TurnComes
<1>3. ASSUME NEW d \in Verifier \cup Asker
      PROVE  Earned(attempt[d])' /\ attempt'[d] \in AttemptType
  <2>1. attempt[d] \in AttemptType /\ attempt'[d] = [attempt[d] EXCEPT !.fresh = FALSE]
    BY <1>1, <1>2
  <2> QED
    BY <1>2, <2>1, EarnedKept DEF Identity
<1>4. Typed'
  BY <1>2, <1>3 DEF Identity, Typed
<1>5. Spent' /\ NonceForOneRecord' /\ IdentityEarned'
  BY <1>2 DEF Identity, Spent, NonceForOneRecord, IdentityEarned
<1> QED
  BY <1>3, <1>4, <1>5 DEF Identity

\* recordSignature: whoever gets there has a record, or needs none, or was not asked.
LEMMA SignKeeps ==
  ASSUME Identity, NEW c \in Verifier, Sign(c)
  PROVE  Identity'
<1>1. UNCHANGED <<policy, challenge, verified, turn, used>> /\ attempt[c].phase \in {"sign", "unasked"}
  BY DEF Sign
<1>2. attempt[c].phase # "unasked" => policy.min = "none" \/ verified # NoRecord
  BY <1>1 DEF Identity, Earned
<1>3. CASE Refuse(c) /\ UNCHANGED <<status, bypassed>>
  BY <1>1, <1>3, RefuseKeeps DEF SignerRow
<1>4. CASE status' = "signed" /\ bypassed' = (attempt[c].phase = "unasked") /\ WroteRowAs(c, NoAttempt)
  <2>1. Earned(NoAttempt)'
    BY <1>1, IdentityAssumption DEF Earned, NoAttempt
  <2>2. /\ attempt' \in [Verifier \cup Asker -> AttemptType]
        /\ \A d \in Verifier \cup Asker : Earned(attempt[d])'
    BY <1>1, <1>4, <2>1, IdleEarned, WroteKeeps
  <2>3. bypassed' \in BOOLEAN /\ (~bypassed' => policy.min = "none" \/ verified # NoRecord)
    BY <1>2, <1>4, Zenon
  <2>4. Typed'
    BY <1>1, <1>4, <2>2, <2>3 DEF Identity, Typed
  <2>5. Spent' /\ NonceForOneRecord'
    BY <1>1 DEF Identity, Spent, NonceForOneRecord
  <2>6. IdentityEarned'
    BY <1>1, <2>3 DEF Identity, IdentityEarned
  <2> QED
    BY <2>2, <2>4, <2>5, <2>6 DEF Identity
<1> QED
  BY <1>3, <1>4 DEF Sign

\* The record that finalizeChallenge writes says what the policy asks for, and no more
\* than was proven.
LEMMA RecordEarned ==
  ASSUME Identity, NEW c \in Verifier, attempt[c].phase = "write"
  PROVE  LET r == RecordOf(c) IN
         /\ r \in [level: Level, proof: SignedProof \cup {NoProof}, answer: Answer \cup {NoAnswer}]
         /\ r # NoRecord /\ r.proof = attempt[c].proof
         /\ Rank(r.level) >= Rank(policy.min)
         /\ policy.pin \in {"none", r.proof.uuaid}
         /\ r.level = "L0" <=> policy.min = "L0"
         /\ r.level = "L1p" => r.proof.agent /\ r.proof.derives
         /\ r.proof.agent /\ r.level # "L0" => r.proof.derives
         /\ r.level = "L2" => BadgeOf(r.proof, r.answer)
<1> DEFINE v == attempt[c]
           r == RecordOf(c)
<1>1. v \in AttemptType /\ Earned(v)
  BY DEF Identity, Typed
<1>2. policy.min \in {"L0", "L1", "L1p", "L2"} /\ policy.pin \in {"none", v.proof.uuaid}
  BY <1>1, InputAssumption, LevelRanks DEF Identity, Typed, Earned
<1>3. /\ r.proof = v.proof /\ r.answer = v.answer
      /\ r.level = Granted(policy.min, v.proof)
      /\ r = [level |-> r.level, proof |-> v.proof, answer |-> v.answer]
  BY DEF RecordOf
<1> HIDE DEF r
<1>4. /\ policy.min # "L0" /\ v.proof.agent => v.proof.derives
      /\ policy.min = "L1p" => v.proof.agent
      /\ policy.min = "L2" => BadgeOf(v.proof, v.answer)
  BY <1>1 DEF Earned
<1>5. /\ policy.min \in {"L0", "L2"} => r.level = policy.min
      /\ policy.min \in {"L1", "L1p"} => r.level = IF v.proof.agent THEN "L1p" ELSE "L1"
  BY <1>2, <1>3 DEF Granted
<1>6. r.level \in Level /\ r.level # "none" /\ Rank(r.level) >= Rank(policy.min)
  BY <1>2, <1>4, <1>5, LevelRanks
<1>7. r \in [level: Level, proof: SignedProof \cup {NoProof}, answer: Answer \cup {NoAnswer}]
  BY <1>1, <1>3, <1>6 DEF AttemptType
<1>8. r # NoRecord
  BY <1>6 DEF NoRecord
<1> QED
  BY <1>2, <1>3, <1>4, <1>5, <1>6, <1>7, <1>8 DEF r

\* The nonce of an open challenge is appended to those that were used.
LEMMA SpendsNonce ==
  ASSUME Identity, NEW n \in 1..MaxNonces, challenge.nonce = n, ~challenge.consumed,
         challenge' = [challenge EXCEPT !.consumed = TRUE],
         used' = Append(used, n), verified' # NoRecord
  PROVE  /\ challenge' \in [nonce: 0..MaxNonces, consumed: BOOLEAN, expired: BOOLEAN]
         /\ used' \in Seq(1..MaxNonces) /\ Spent' /\ NonceForOneRecord'
         /\ \A m \in {used[i] : i \in 1..Len(used)} : m \in {used'[i] : i \in 1..Len(used')}
         /\ n \in {used'[i] : i \in 1..Len(used')}
<1>1. /\ challenge \in [nonce: 0..MaxNonces, consumed: BOOLEAN, expired: BOOLEAN]
      /\ used \in Seq(1..MaxNonces)
  BY DEF Identity, Typed
<1>2. /\ challenge' \in [nonce: 0..MaxNonces, consumed: BOOLEAN, expired: BOOLEAN]
      /\ challenge'.nonce = n /\ challenge'.consumed
  BY <1>1
<1>3. /\ used' \in Seq(1..MaxNonces) /\ Len(used') = Len(used) + 1 /\ Len(used) \in Nat
      /\ \A i \in 1..Len(used) : used'[i] = used[i]
      /\ used'[Len(used) + 1] = n /\ used' # <<>>
  BY <1>1, AppendProperties, LenProperties
<1>4. ASSUME NEW i \in 1..Len(used) PROVE used[i] \in 1..MaxNonces /\ used[i] < n
  <2>1. used[i] \in 1..MaxNonces
    BY <1>1, ElementOfSeq
  <2>2. used[i] <= challenge.nonce /\ (used[i] = challenge.nonce => challenge.consumed)
    BY DEF Identity, Spent
  <2> QED
    BY <2>1, <2>2
<1>5. Spent'
  BY <1>2, <1>3, <1>4 DEF Spent
<1>6. \A i, j \in 1..Len(used') : used'[i] = used'[j] => i = j
  BY <1>3, <1>4 DEF Identity, NonceForOneRecord
<1>7. NonceForOneRecord'
  BY <1>2, <1>3, <1>6 DEF NonceForOneRecord
<1> QED
  BY <1>2, <1>3, <1>5, <1>7

\* finalizeChallenge: the record is written and its nonce consumed in one write of the
\* row it has read.
LEMMA WriteKeeps ==
  ASSUME Identity, NEW c \in Verifier, Write(c)
  PROVE  Identity'
<1> DEFINE v == attempt[c]
           r == RecordOf(c)
           w == IF c \in Request THEN [v EXCEPT !.phase = "sign", !.fresh = FALSE] ELSE NoAttempt
<1>1. UNCHANGED <<policy, status, turn, bypassed>> /\ v.phase = "write"
  BY DEF Write
<1>2. v \in AttemptType /\ Earned(v) /\ Typed
  BY DEF Identity, Typed
<1>3. CASE ~v.fresh
  <2>1. UNCHANGED SignerRow
    BY <1>1, <1>3 DEF Write, SignerRow
  <2>2. CASE Refuse(c)
    BY <2>1, <2>2, RefuseKeeps
  <2>3. CASE v.tries < MaxFinalize /\ GoesTo(c, "finalize")
    <3> DEFINE u == [v EXCEPT !.phase = "finalize"]
    <3>1. u \in AttemptType
      BY <1>2 DEF AttemptType, Steps
    <3>2. /\ u.phase = "finalize" /\ u.proof = v.proof /\ u.nonce = v.nonce
          /\ u.answer = v.answer /\ u.tries = v.tries
      BY <1>2 DEF AttemptType
    <3>3. Becomes(c, u)
      BY <2>3 DEF GoesTo
    <3> HIDE DEF u
    <3>4. Earned(u)
      BY <1>1, <1>2, <2>3, <3>2 DEF Earned
    <3> QED
      BY <2>1, <3>1, <3>3, <3>4, RowKept
  <2> QED
    BY <1>3, <2>2, <2>3 DEF Write
<1>4. CASE v.fresh
  <2>1. /\ verified' = r
        /\ challenge' = IF policy.min = "L0" THEN challenge ELSE [challenge EXCEPT !.consumed = TRUE]
        /\ used' = IF policy.min = "L0" THEN used ELSE Append(used, v.nonce)
        /\ WroteRowAs(c, w)
    BY <1>4 DEF Write, Consume
  <2>2. /\ r \in [level: Level, proof: SignedProof \cup {NoProof}, answer: Answer \cup {NoAnswer}]
        /\ r # NoRecord /\ r.proof = v.proof
        /\ Rank(r.level) >= Rank(policy.min)
        /\ policy.pin \in {"none", r.proof.uuaid}
        /\ r.level = "L0" <=> policy.min = "L0"
        /\ r.level = "L1p" => r.proof.agent /\ r.proof.derives
        /\ r.proof.agent /\ r.level # "L0" => r.proof.derives
        /\ r.level = "L2" => BadgeOf(r.proof, r.answer)
    BY <1>1, RecordEarned
  <2> HIDE DEF r
  <2>3. policy.min # "L0" => /\ v.nonce = v.proof.nonce /\ v.nonce \in 1..MaxNonces
                             /\ challenge.nonce = v.nonce /\ ~challenge.consumed
    BY <1>1, <1>2, <1>4, IdentityAssumption DEF Earned, AttemptType
  <2>4. w \in AttemptType
    BY <1>2, IdleEarned DEF AttemptType, Steps
  <2>5. w.phase \in {"sign", "idle"}
    BY <1>2 DEF AttemptType, NoAttempt
  <2> HIDE DEF w
  <2>6. PICK u \in AttemptType : u = w
    BY <2>4
  <2>7. /\ attempt' \in [Verifier \cup Asker -> AttemptType]
        /\ \A d \in Verifier \cup Asker : Earned(attempt[d])'
    <3>1. WroteRowAs(c, u) /\ Earned(u)'
      BY <2>1, <2>2, <2>5, <2>6 DEF Earned
    <3> QED
      BY <1>1, <2>1, <2>2, <3>1, WroteKeeps
  <2>8. /\ challenge' \in [nonce: 0..MaxNonces, consumed: BOOLEAN, expired: BOOLEAN]
        /\ used' \in Seq(1..MaxNonces) /\ Spent' /\ NonceForOneRecord'
        /\ \A n \in {used[i] : i \in 1..Len(used)} : n \in {used'[i] : i \in 1..Len(used')}
        /\ policy.min # "L0" => v.proof.nonce \in {used'[i] : i \in 1..Len(used')}
    <3>1. CASE policy.min = "L0"
      <4>1. UNCHANGED <<challenge, used>>
        BY <2>1, <3>1
      <4> QED
        BY <1>2, <2>1, <2>2, <3>1, <4>1 DEF Identity, Typed, Spent, NonceForOneRecord
    <3>2. CASE policy.min # "L0"
      <4>1. /\ challenge' = [challenge EXCEPT !.consumed = TRUE]
            /\ used' = Append(used, v.nonce)
        BY <2>1, <3>2
      <4> QED
        BY <1>2, <2>1, <2>2, <2>3, <3>2, <4>1, SpendsNonce
    <3> QED
      BY <3>1, <3>2
  <2>9. Typed'
    BY <1>1, <1>2, <2>1, <2>2, <2>7, <2>8 DEF Typed
  <2>10. IdentityEarned'
    BY <1>1, <2>1, <2>2, <2>8 DEF IdentityEarned, BadgeOf
  <2> QED
    BY <2>7, <2>8, <2>9, <2>10 DEF Identity
<1> QED
  BY <1>3, <1>4

\* Every step of the specification.
LEMMA IdentityKept ==
  Identity /\ [SNext]_svars => Identity'
<1> SUFFICES ASSUME Identity, [SNext]_svars PROVE Identity'
  OBVIOUS
<1>1. CASE \E c \in Asker : Ask(c) \/ Mint(c)
  BY <1>1, AskKeeps, MintKeeps
<1>2. CASE \E c \in Verifier : \/ Bypass(c) \/ Present(c) \/ Verify(c) \/ AskRegistry(c)
                               \/ Finalize(c) \/ Write(c) \/ Sign(c)
  BY <1>2, BypassKeeps, PresentKeeps, VerifyKeeps, AskRegistryKeeps, FinalizeKeeps, WriteKeeps, SignKeeps
<1>3. CASE Expire
  BY <1>3, ExpireKeeps
<1>4. CASE Close
  BY <1>4, CloseKeeps
<1>5. CASE TurnComes
  BY <1>5, TurnComesKeeps
<1>6. CASE UNCHANGED svars
  BY <1>6 DEF svars, Identity, Typed, Spent, NonceForOneRecord, IdentityEarned, Earned
<1> QED
  BY <1>1, <1>2, <1>3, <1>4, <1>5, <1>6 DEF SNext

LEMMA AlwaysIdentity ==
  SSpec => []Identity
BY StartsIdentity, IdentityKept, PTL DEF SSpec

\* The row and the requests have their types.
THEOREM SignerTypeCorrect ==
  SSpec => []STypeOK
<1>1. Identity => STypeOK
  BY DEF Identity, Typed, STypeOK, AttemptType
<1> QED
  BY <1>1, AlwaysIdentity, PTL

\* finalizeChallenge: however many requests verify a proof over a challenge at once, and
\* however challenges expire and are issued anew meanwhile, one record is written for it.
THEOREM NonceIsForOneRecord ==
  SSpec => []NonceForOneRecord
<1>1. Identity => NonceForOneRecord
  BY DEF Identity
<1> QED
  BY <1>1, AlwaysIdentity, PTL

\* verifySignerIdentity: whatever is presented and whatever the registry answers, a record
\* has the level, the identity and the proof that the policy asks for, at L2 with a badge
\* of the pinned registry key; and whoever has signed under a policy has such a record,
\* but for a request that found the gate shut at first, and was not asked for one.
THEOREM IdentityIsEarned ==
  SSpec => []IdentityEarned
<1>1. Identity => IdentityEarned
  BY DEF Identity
<1> QED
  BY <1>1, AlwaysIdentity, PTL
------------------------------------------------------------------------------
(***************************************************************************)
(* Reminders.  That no more mails go out than fall due, however many calls *)
(* remind at once and whoever dies.  A call appends its entry before it    *)
(* mails, and takes one back if the mail fails - not always its own, since *)
(* it looks for it by its time.  So the argument counts: the mails and the *)
(* entries still owed one are no more than the entries, whichever of them  *)
(* is taken back.                                                          *)
(***************************************************************************)

CallType == [phase: Phases, tries: 0..MaxWrites, fresh: BOOLEAN,
             index: 0..MaxSent, entry: Entry \cup {0}]

\* A call that still has to try again has a try left; one that mails has an entry.
Retries ==
  \A c \in Call :
    /\ call[c].phase \in {"read", "deliver", "undo"} => call[c].tries < MaxWrites
    /\ call[c].phase = "deliver" => call[c].entry \in Entry

\* Entries in the row that were not mailed yet, or not taken back.
Owed == {c \in Call : call[c].phase \in {"deliver", "undo", "restore"}}

\* The row has an entry for every mail, and one for every call that owes one: which
\* entry is taken back does not matter for their number.
Booked ==
  /\ IsFiniteSet(Owed)
  /\ Cardinality(mailed) + Cardinality(Owed) <= Total
  /\ Total <= MaxSent
  /\ \A c \in Call : call[c].phase = "persist" /\ call[c].fresh => Usable

\* One tick at a time, which found a reminder due.
OnSchedule ==
  ~overlapped =>
    /\ Len(scheduled) <= due
    /\ \A c, d \in Tick : call[c].phase # "idle" /\ call[d].phase # "idle" => c = d
    /\ \A c \in Tick : call[c].phase \in {"read", "persist"} => Len(scheduled) < due

RInv == RTypeOK /\ Retries /\ Booked /\ OnSchedule

------------------------------------------------------------------------------
\* A write of one call makes what the others have read stale, and changes nothing else
\* of them.
LEMMA OthersStay ==
  ASSUME call \in [Call -> CallType], NEW c \in Call, NEW v \in CallType,
         Become(c, v) \/ WroteAs(c, v)
  PROVE  /\ call' \in [Call -> CallType]
         /\ call'[c] = v
         /\ \A d \in Call : d # c =>
              /\ call'[d].phase = call[d].phase /\ call'[d].tries = call[d].tries
              /\ call'[d].index = call[d].index /\ call'[d].entry = call[d].entry
              /\ call'[d].fresh => call[d].fresh
         /\ WroteAs(c, v) => \A d \in Call : d # c => ~call'[d].fresh
<1> USE DEF CallType
<1>1. CASE Become(c, v)
  <2>1. call' = [call EXCEPT ![c] = v]
    BY <1>1 DEF Become
  <2>2. WroteAs(c, v) => \A d \in Call : d # c => ~call'[d].fresh
    BY DEF WroteAs
  <2> QED
    BY <2>1, <2>2
<1>2. CASE WroteAs(c, v)
  <2>1. call' = [d \in Call |-> IF d = c THEN v ELSE [call[d] EXCEPT !.fresh = FALSE]]
    BY <1>2 DEF WroteAs
  <2>2. \A d \in Call : d # c => call'[d] = [call[d] EXCEPT !.fresh = FALSE]
    BY <2>1
  <2> QED
    BY <2>1, <2>2, ZenonT(60)
<1> QED
  BY <1>1, <1>2

\* filter keeps entries, and takes out at most one.
LEMMA WithoutOne ==
  ASSUME NEW s \in Seq(Entry), NEW i \in Nat
  PROVE  /\ Without(s, i) \in Seq(Entry)
         /\ Len(Without(s, i)) \in {Len(s), Len(s) - 1}
<1>1. CASE i > Len(s)
  BY <1>1 DEF Without
<1>2. CASE i \in 1..Len(s)
  <2>1. /\ SubSeq(s, 1, i - 1) \in Seq(Entry) /\ Len(SubSeq(s, 1, i - 1)) = i - 1
        /\ SubSeq(s, i + 1, Len(s)) \in Seq(Entry) /\ Len(SubSeq(s, i + 1, Len(s))) = Len(s) - i
    BY <1>2
  <2>a. ~(i > Len(s))
    BY <1>2, LenProperties
  <2>2. Without(s, i) = SubSeq(s, 1, i - 1) \o SubSeq(s, i + 1, Len(s))
    BY <2>a, Zenon DEF Without
  <2>3. (i - 1) + (Len(s) - i) = Len(s) - 1
    BY <1>2
  <2>4. /\ SubSeq(s, 1, i - 1) \o SubSeq(s, i + 1, Len(s)) \in Seq(Entry)
        /\ Len(SubSeq(s, 1, i - 1) \o SubSeq(s, i + 1, Len(s))) = Len(s) - 1
    <3>1. \A a, b \in Seq(Entry) : a \o b \in Seq(Entry) /\ Len(a \o b) = Len(a) + Len(b)
      BY ConcatProperties
    <3> QED
      BY <2>1, <2>3, <3>1, Zenon
  <2> QED
    BY <2>2, <2>4
<1>3. CASE i = 0
  <2>1. /\ SubSeq(s, 1, i - 1) \in Seq(Entry) /\ Len(SubSeq(s, 1, i - 1)) = 0
        /\ SubSeq(s, i + 1, Len(s)) \in Seq(Entry) /\ Len(SubSeq(s, i + 1, Len(s))) = Len(s)
    BY <1>3
  <2> QED
    BY <1>3, <2>1 DEF Without
<1> QED
  BY <1>1, <1>2, <1>3

\* A call that comes to owe an entry, no longer owes one, or goes on as before.
LEMMA OwedChanges ==
  ASSUME RInv, NEW c \in Call,
         \A d \in Call : d # c => call'[d].phase = call[d].phase
  PROVE  /\ IsFiniteSet(Owed')
         /\ c \in Owed <=> c \in Owed' => Owed' = Owed
         /\ c \notin Owed /\ c \in Owed' => Cardinality(Owed') = Cardinality(Owed) + 1
         /\ c \in Owed /\ c \notin Owed' => Cardinality(Owed') = Cardinality(Owed) - 1
<1>1. IsFiniteSet(Owed)
  BY DEF RInv, Booked
<1>2. CASE c \in Owed <=> c \in Owed'
  BY <1>1, <1>2 DEF Owed
<1>3. CASE c \notin Owed /\ c \in Owed'
  <2>1. Owed' = Owed \cup {c}
    BY <1>3 DEF Owed
  <2> QED
    BY <1>1, <1>3, <2>1, FS_AddElement
<1>4. CASE c \in Owed /\ c \notin Owed'
  <2>1. Owed' = Owed \ {c}
    BY <1>4 DEF Owed
  <2> QED
    BY <1>1, <1>4, <2>1, FS_RemoveElement
<1> QED
  BY <1>2, <1>3, <1>4

\* Mails and calls are counted in numbers.
LEMMA Counts ==
  ASSUME RInv
  PROVE  /\ IsFiniteSet(mailed) /\ Cardinality(mailed) \in Nat
         /\ Cardinality(Owed) \in Nat
         /\ Len(scheduled) \in Nat /\ Len(manual) \in Nat
<1>1. MaxSent + MaxTroubles \in Nat
  BY ReminderAssumption
<1>2. IsFiniteSet(Entry)
  BY <1>1, FS_Interval DEF Entry
<1>3. IsFiniteSet(mailed)
  BY <1>2, FS_Subset DEF RInv, RTypeOK
<1> QED
  BY <1>3, FS_CardinalityType DEF RInv, Booked, RTypeOK

\* A tick runs what computeDue finds due; the row is as it was.
LEMMA Starts ==
  ASSUME RInv, NEW c \in Call, TickRuns(c) \/ ToolRuns(c)
  PROVE  RInv'
<1>1. /\ Become(c, [Idle EXCEPT !.phase = "read"])
      /\ call[c].phase = "idle"
      /\ UNCHANGED <<due, ReminderRow, serial, mailed, wasted, trouble>>
  BY DEF TickRuns, ToolRuns, History
<1>2. [Idle EXCEPT !.phase = "read"] \in CallType
  <2>1. Idle \in CallType
    BY ReminderAssumption DEF CallType, Idle, Phases
  <2> QED
    BY <2>1 DEF CallType, Phases
<1>3. call \in [Call -> CallType]
  BY DEF RInv, RTypeOK, CallType
<1>4. /\ call' \in [Call -> CallType]
      /\ call'[c].phase = "read" /\ call'[c].tries = 0
      /\ \A d \in Call : d # c =>
           /\ call'[d].phase = call[d].phase /\ call'[d].tries = call[d].tries
           /\ call'[d].entry = call[d].entry
           /\ call'[d].fresh => call[d].fresh
  BY <1>1, <1>2, <1>3, OthersStay DEF Idle
<1>5. RTypeOK'
  BY <1>1, <1>4, <1>3 DEF RInv, RTypeOK, ReminderRow, CallType, TickRuns, ToolRuns, History
<1>6. Retries'
  BY <1>4, ReminderAssumption DEF RInv, Retries
<1>7. Booked'
  <2>1. Owed' = Owed
    BY <1>1, <1>4 DEF Owed
  <2> QED
    BY <1>1, <1>4, <2>1 DEF RInv, Booked, ReminderRow, Total, Usable
<1>8. OnSchedule'
  <2>1. CASE c \in Tick
    <3>1. c \notin Tool /\ Due /\ overlapped' = (overlapped \/ \E d \in Tick : call[d].phase # "idle")
      BY <2>1, ReminderAssumption DEF TickRuns, ToolRuns
    <3> QED
      BY <1>1, <1>4, <2>1, <3>1 DEF RInv, OnSchedule, Due, Call, ReminderRow
  <2>2. CASE c \notin Tick
    BY <1>1, <1>4, <2>2 DEF RInv, OnSchedule, TickRuns, ToolRuns, Call, ReminderRow, History
  <2> QED
    BY <2>1, <2>2
<1> QED
  BY <1>5, <1>6, <1>7, <1>8 DEF RInv

\* What a call does without writing the row: whoever had read it fresh still has.
LEMMA Unwritten ==
  ASSUME RInv, NEW c \in Call, NEW v \in CallType, Become(c, v),
         UNCHANGED <<ReminderRow, due, overlapped, mailed>>,
         UNCHANGED serial, wasted' \in BOOLEAN, trouble' \in 0..MaxTroubles,
         v.phase # "deliver", v.phase \in {"read", "undo"} => v.tries < MaxWrites,
         v.phase = "persist" /\ v.fresh => Usable,
         v.phase \in {"undo", "restore"} => c \in Owed,
         v.phase # "idle" => call[c].phase # "idle",
         v.phase \in {"read", "persist"} => call[c].phase \in {"read", "persist"}
  PROVE  RInv'
<1>1. call \in [Call -> CallType]
  BY DEF RInv, RTypeOK, CallType
<1>2. /\ call' \in [Call -> CallType]
      /\ call'[c] = v
      /\ \A d \in Call : d # c => 
           /\ call'[d].phase = call[d].phase /\ call'[d].tries = call[d].tries
           /\ call'[d].entry = call[d].entry
           /\ call'[d].fresh => call[d].fresh
  BY <1>1, OthersStay
<1>3. RTypeOK'
  BY <1>2 DEF RInv, RTypeOK, ReminderRow, CallType
<1>4. Retries'
  BY <1>2 DEF RInv, Retries
<1>5. Booked'
  <2>1. IsFiniteSet(Owed') /\ Cardinality(Owed') <= Cardinality(Owed)
    <3>1. c \in Owed' => c \in Owed
      BY <1>2 DEF Owed
    <3> QED
      BY <1>2, <3>1, OwedChanges, Counts
  <2>2. Cardinality(Owed') \in Nat
    BY <2>1, FS_CardinalityType
  <2>3. Total' = Total /\ mailed' = mailed /\ (Usable <=> Usable')
    BY DEF ReminderRow, Total, Usable
  <2>4. \A d \in Call : call'[d].phase = "persist" /\ call'[d].fresh => Usable
    BY <1>2 DEF RInv, Booked
  <2>5. Total \in Nat
    BY Counts DEF Total
  <2>6. Cardinality(mailed') + Cardinality(Owed') <= Total'
    BY <2>1, <2>2, <2>3, <2>5, Counts DEF RInv, Booked
  <2> QED
    BY <2>1, <2>3, <2>4, <2>6 DEF RInv, Booked
<1>6. OnSchedule'
  BY <1>2 DEF RInv, OnSchedule, ReminderRow, Call
<1> QED
  BY <1>3, <1>4, <1>5, <1>6 DEF RInv

LEMMA ReadingStep ==
  ASSUME RInv, NEW c \in Call, ReadAfresh(c) \/ Undo(c) \/ (EmitSent(c) /\ Become(c, Idle))
  PROVE  RInv'
<1>0. Idle \in CallType
  BY ReminderAssumption DEF CallType, Idle, Phases
<1>1. call[c] \in CallType
  BY DEF RInv, RTypeOK, CallType
<1>2. CASE ReadAfresh(c)
  <2> DEFINE v == IF Usable THEN [call[c] EXCEPT !.phase = "persist", !.fresh = TRUE, !.tries = @ + 1]
                  ELSE Idle
  <2>1. Become(c, v) /\ call[c].phase = "read"
        /\ UNCHANGED <<due, ReminderRow, History, trouble>>
    BY <1>2 DEF ReadAfresh
  <2>2. call[c].tries + 1 \in 0..MaxWrites
    BY <1>1, <2>1, ReminderAssumption DEF CallType, RInv, Retries
  <2>3. v \in CallType /\ (v.phase = "persist" => Usable) /\ v.phase \in {"idle", "persist"}
    BY <1>0, <1>1, <2>2 DEF CallType, Phases, Idle
  <2> HIDE DEF v
  <2>4. UNCHANGED <<serial, mailed, overlapped, wasted>> /\ UNCHANGED trouble
    BY <2>1 DEF History
  <2> QED
    BY <2>1, <2>3, <2>4, Unwritten DEF RInv, RTypeOK
<1>3. CASE Undo(c)
  <2> DEFINE v == [call[c] EXCEPT !.phase = "restore", !.fresh = TRUE, !.tries = @ + 1]
  <2>1. Become(c, v) /\ call[c].phase = "undo"
        /\ UNCHANGED <<due, ReminderRow, History, trouble>>
    BY <1>3 DEF Undo
  <2>2. call[c].tries + 1 \in 0..MaxWrites
    BY <1>1, <2>1, ReminderAssumption DEF CallType, RInv, Retries
  <2>3. v \in CallType /\ v.phase = "restore" /\ c \in Owed
    BY <1>1, <2>1, <2>2 DEF CallType, Phases, Owed
  <2> HIDE DEF v
  <2>4. UNCHANGED <<serial, mailed, overlapped, wasted>> /\ UNCHANGED trouble
    BY <2>1 DEF History
  <2> QED
    BY <2>1, <2>3, <2>4, Unwritten DEF RInv, RTypeOK
<1>4. CASE EmitSent(c) /\ Become(c, Idle)
  <2>1. UNCHANGED <<due, ReminderRow, History, trouble>>
    BY <1>4 DEF EmitSent
  <2>2. UNCHANGED <<serial, mailed, overlapped, wasted>> /\ UNCHANGED trouble
    BY <2>1 DEF History
  <2>3. Idle.phase = "idle"
    BY DEF Idle
  <2> QED
    BY <1>0, <1>4, <2>1, <2>2, <2>3, Unwritten DEF RInv, RTypeOK
<1> QED
  BY <1>2, <1>3, <1>4

\* A conflict reads again or gives up; a write adds an entry and a call that owes its mail.
LEMMA PersistStep ==
  ASSUME RInv, NEW c \in Call, Persist(c)
  PROVE  RInv'
<1>0. /\ call \in [Call -> CallType] /\ call[c] \in CallType
      /\ call[c].phase = "persist"
      /\ UNCHANGED <<due, pending, open, link, mailed, overlapped, wasted, trouble>>
  BY DEF RInv, RTypeOK, CallType, Persist
<1>1. CASE ~call[c].fresh
  <2> DEFINE v == IF call[c].tries < MaxWrites THEN [call[c] EXCEPT !.phase = "read"] ELSE Idle
  <2>1. Become(c, v) /\ UNCHANGED <<scheduled, manual, serial>>
    BY <1>1 DEF Persist
  <2>2. Idle \in CallType
    BY ReminderAssumption DEF CallType, Idle, Phases
  <2>3. /\ v \in CallType /\ v.phase \in {"idle", "read"}
        /\ v.phase = "read" => v.tries < MaxWrites
    BY <1>0, <2>2 DEF CallType, Phases, Idle
  <2> HIDE DEF v
  <2> QED
    BY <1>0, <2>1, <2>3, Unwritten DEF RInv, RTypeOK, ReminderRow
<1>2. CASE call[c].fresh
  <2> DEFINE e == serial + 1
             i == 1 + Len(IF c \in Tick THEN scheduled ELSE manual)
             v == [Idle EXCEPT !.phase = "deliver", !.index = i, !.entry = e]
  <2>1. /\ e \in Entry /\ serial' = e
        /\ WroteAs(c, v)
        /\ c \in Tick => scheduled' = Append(scheduled, e) /\ manual' = manual
        /\ c \notin Tick => manual' = Append(manual, e) /\ scheduled' = scheduled
    BY <1>2 DEF Persist, OfSchedule
  <2>2. Usable /\ link /\ Total < MaxSent
    BY <1>0, <1>2 DEF RInv, Booked, Usable
  <2>3. i \in 0..MaxSent
    BY <2>2, Counts, ReminderAssumption DEF Total
  <2>4. v \in CallType /\ v.phase = "deliver" /\ v.tries = 0 /\ v.entry \in Entry
    <3>1. Idle \in CallType
      BY ReminderAssumption DEF CallType, Idle, Phases
    <3> QED
      BY <2>1, <2>3, <3>1 DEF CallType, Idle, Phases
  <2> HIDE DEF v, i
  <2>5. /\ call' \in [Call -> CallType]
        /\ call'[c].phase = "deliver" /\ call'[c].tries = 0 /\ call'[c].entry \in Entry
        /\ \A d \in Call : d # c =>
             /\ call'[d].phase = call[d].phase /\ call'[d].tries = call[d].tries
             /\ call'[d].entry = call[d].entry
             /\ ~call'[d].fresh
    BY <1>0, <2>1, <2>4, OthersStay
  <2>6. /\ scheduled' \in Seq(Entry) /\ manual' \in Seq(Entry)
        /\ c \in Tick => Len(scheduled') = Len(scheduled) + 1
        /\ c \notin Tick => Len(scheduled') = Len(scheduled)
        /\ Total' = Total + 1
    <3>1. scheduled \in Seq(Entry) /\ manual \in Seq(Entry)
      BY DEF RInv, RTypeOK
    <3>a. \A s \in Seq(Entry) : /\ Append(s, e) \in Seq(Entry)
                                /\ Len(Append(s, e)) = Len(s) + 1 /\ Len(s) \in Nat
      BY <2>1
    <3> HIDE DEF e
    <3>b. Total = Len(scheduled) + Len(manual) /\ Total' = Len(scheduled') + Len(manual')
      BY DEF Total
    <3>c. Len(scheduled) \in Nat /\ Len(manual) \in Nat
      BY Counts
    <3>2. CASE c \in Tick
      <4>1. manual' = manual
        BY <2>1, <3>2
      <4>2. scheduled' \in Seq(Entry) /\ Len(scheduled') = Len(scheduled) + 1
        BY <2>1, <3>1, <3>a, <3>2
      <4> QED
        BY <3>1, <3>2, <3>b, <3>c, <4>1, <4>2
    <3>3. CASE c \notin Tick
      <4>1. scheduled' = scheduled
        BY <2>1, <3>3
      <4>2. manual' \in Seq(Entry) /\ Len(manual') = Len(manual) + 1
        BY <2>1, <3>1, <3>a, <3>3
      <4> QED
        BY <3>1, <3>3, <3>b, <3>c, <4>1, <4>2
    <3> QED
      BY <3>2, <3>3
  <2>7. RTypeOK'
    BY <1>0, <2>1, <2>5, <2>6 DEF RInv, RTypeOK, CallType
  <2>8. Retries'
    BY <2>5, ReminderAssumption DEF RInv, Retries
  <2>9. Booked'
    <3>1. c \notin Owed /\ c \in Owed'
      BY <1>0, <2>5 DEF Owed
    <3>2. IsFiniteSet(Owed') /\ Cardinality(Owed') = Cardinality(Owed) + 1
      BY <2>5, <3>1, OwedChanges
    <3>3. Cardinality(mailed') + Cardinality(Owed') <= Total' /\ Total' <= MaxSent
      BY <1>0, <2>2, <2>6, <3>2, Counts, ReminderAssumption, SMTT(40) DEF RInv, Booked, Total
    <3>4. \A d \in Call : ~(call'[d].phase = "persist" /\ call'[d].fresh)
      BY <2>5
    <3> QED
      BY <3>2, <3>3, <3>4 DEF Booked
  <2>10. OnSchedule'
    <3>1. CASE c \in Tick
      <4>1. ASSUME ~overlapped
            PROVE  /\ Len(scheduled) < due
                   /\ \A d \in Tick : call[d].phase # "idle" => d = c
        BY <1>0, <3>1, <4>1 DEF RInv, OnSchedule
      <4>2. Len(scheduled') = Len(scheduled) + 1
        BY <2>6, <3>1
      <4>3. ASSUME ~overlapped, NEW d \in Tick, call'[d].phase # "idle"
            PROVE  d = c
        BY <2>5, <4>1, <4>3 DEF Call
      <4>4. due' = due /\ due \in Int /\ (overlapped' <=> overlapped)
        BY <1>0 DEF RInv, RTypeOK
      <4>5. ~overlapped => Len(scheduled') <= due
        BY <4>1, <4>2, <4>4, Counts
      <4>6. ~overlapped => \A d \in Tick : ~(call'[d].phase \in {"read", "persist"})
        BY <2>5, <4>3
      <4>7. ~overlapped => \A d, f \in Tick : call'[d].phase # "idle" /\ call'[f].phase # "idle" => d = f
        BY <4>3
      <4> QED
        BY <4>4, <4>5, <4>6, <4>7 DEF OnSchedule
    <3>2. CASE c \notin Tick
      BY <1>0, <2>5, <2>6, <3>2 DEF RInv, OnSchedule, Call
    <3> QED
      BY <3>1, <3>2
  <2> QED
    BY <2>7, <2>8, <2>9, <2>10 DEF RInv
<1> QED
  BY <1>1, <1>2

\* A mail that is answered takes the place of the call that owed it.
LEMMA DeliverStep ==
  ASSUME RInv, NEW c \in Call, DeliverReminder(c)
  PROVE  RInv'
<1>0. /\ call \in [Call -> CallType] /\ call[c] \in CallType
      /\ call[c].phase = "deliver"
      /\ UNCHANGED <<due, ReminderRow, serial, overlapped, wasted>>
  BY DEF RInv, RTypeOK, CallType, DeliverReminder
<1>1. CASE Trouble /\ Become(c, [call[c] EXCEPT !.phase = "undo"]) /\ UNCHANGED mailed
  <2> DEFINE v == [call[c] EXCEPT !.phase = "undo"]
  <2>1. v \in CallType /\ v.phase = "undo" /\ v.tries = call[c].tries /\ c \in Owed
    BY <1>0 DEF CallType, Phases, Owed
  <2>2. trouble' \in 0..MaxTroubles
    BY <1>1, ReminderAssumption DEF Trouble, RInv, RTypeOK
  <2>3. call[c].tries < MaxWrites
    BY <1>0 DEF RInv, Retries
  <2>4. Become(c, v)
    BY <1>1
  <2>5. wasted' \in BOOLEAN
    BY <1>0 DEF RInv, RTypeOK
  <2> HIDE DEF v
  <2> QED
    BY <1>0, <1>1, <2>1, <2>2, <2>3, <2>4, <2>5, Unwritten
<1>2. CASE /\ mailed' = mailed \cup {call[c].entry}
           /\ Become(c, [call[c] EXCEPT !.phase = "emit"])
           /\ UNCHANGED trouble
  <2>1. [call[c] EXCEPT !.phase = "emit"] \in CallType
    BY <1>0 DEF CallType, Phases
  <2>2. /\ call' \in [Call -> CallType]
        /\ call'[c].phase = "emit"
        /\ \A d \in Call : d # c =>
             /\ call'[d].phase = call[d].phase /\ call'[d].tries = call[d].tries
             /\ call'[d].entry = call[d].entry
             /\ call'[d].fresh => call[d].fresh
    BY <1>0, <1>2, <2>1, OthersStay DEF CallType
  <2>a. call[c].entry \in Entry
    BY <1>0 DEF RInv, Retries
  <2>3. RTypeOK'
    BY <1>0, <1>2, <2>a, <2>2 DEF RInv, RTypeOK, ReminderRow, CallType
  <2>4. Retries'
    BY <2>2 DEF RInv, Retries
  <2>5. Booked'
    <3>1. c \in Owed /\ c \notin Owed'
      BY <1>0, <2>2 DEF Owed
    <3>2. IsFiniteSet(Owed') /\ Cardinality(Owed') = Cardinality(Owed) - 1
      BY <2>2, <3>1, OwedChanges
    <3>3. Cardinality(mailed') <= Cardinality(mailed) + 1
      <4>1. Cardinality(mailed \cup {call[c].entry}) \in {Cardinality(mailed), Cardinality(mailed) + 1}
        BY Counts, FS_AddElement
      <4> QED
        BY <1>2, <4>1, Counts
    <3>4. Total' = Total /\ (Usable' <=> Usable)
      BY <1>0 DEF ReminderRow, Total, Usable
    <3>5. Cardinality(mailed') + Cardinality(Owed') <= Total'
      <4>1. Cardinality(mailed') \in Nat /\ Cardinality(Owed') \in Nat
        BY <1>2, <3>2, Counts, FS_AddElement, FS_CardinalityType
      <4> QED
        BY <3>2, <3>3, <3>4, <4>1, Counts, SMTT(40) DEF RInv, Booked, Total
    <3> QED
      BY <2>2, <3>2, <3>4, <3>5 DEF RInv, Booked
  <2>6. OnSchedule'
    BY <1>0, <2>2 DEF RInv, OnSchedule, ReminderRow, Call
  <2> QED
    BY <2>3, <2>4, <2>5, <2>6 DEF RInv
<1> QED
  BY <1>1, <1>2 DEF DeliverReminder

\* Whatever filter takes out, it is one entry at most, for a call that owes none any more.
LEMMA RestoreStep ==
  ASSUME RInv, NEW c \in Call, Restore(c)
  PROVE  RInv'
<1>0. /\ call \in [Call -> CallType] /\ call[c] \in CallType
      /\ call[c].phase = "restore"
      /\ UNCHANGED <<due, pending, open, link, serial, mailed, overlapped, trouble>>
      /\ Idle \in CallType
  BY ReminderAssumption DEF RInv, RTypeOK, CallType, Restore, Idle, Phases
<1>1. CASE ~call[c].fresh
  <2> DEFINE v == IF call[c].tries < MaxWrites THEN [call[c] EXCEPT !.phase = "undo"] ELSE Idle
  <2>1. Become(c, v) /\ UNCHANGED <<scheduled, manual>>
    BY <1>1 DEF Restore
  <2>2. /\ v \in CallType /\ v.phase \in {"idle", "undo"}
        /\ v.phase = "undo" => v.tries < MaxWrites
        /\ c \in Owed
    BY <1>0 DEF CallType, Phases, Idle, Owed
  <2> HIDE DEF v
  <2>3. wasted' \in BOOLEAN /\ trouble' \in 0..MaxTroubles
    BY <1>0, <1>1 DEF Restore, RInv, RTypeOK
  <2> QED
    BY <1>0, <2>1, <2>2, <2>3, Unwritten DEF ReminderRow
<1>2. CASE call[c].fresh
  <2>1. /\ WroteAs(c, Idle) /\ UNCHANGED wasted
        /\ c \in Tick => scheduled' = Without(scheduled, call[c].index) /\ manual' = manual
        /\ c \notin Tick => manual' = Without(manual, call[c].index) /\ scheduled' = scheduled
    BY <1>2 DEF Restore, OfSchedule
  <2>2. /\ call' \in [Call -> CallType]
        /\ call'[c].phase = "idle" /\ ~call'[c].fresh
        /\ \A d \in Call : d # c =>
             /\ call'[d].phase = call[d].phase /\ call'[d].tries = call[d].tries
             /\ call'[d].entry = call[d].entry
             /\ ~call'[d].fresh
    BY <1>0, <2>1, OthersStay DEF Idle
  <2>3. /\ scheduled' \in Seq(Entry) /\ manual' \in Seq(Entry)
        /\ Len(scheduled') \in Nat /\ Len(scheduled') <= Len(scheduled)
        /\ Total' \in {Total, Total - 1}
    <3>1. scheduled \in Seq(Entry) /\ manual \in Seq(Entry) /\ call[c].index \in Nat
      BY <1>0 DEF RInv, RTypeOK, CallType
    <3>a. \A s \in Seq(Entry) : /\ Without(s, call[c].index) \in Seq(Entry)
                                /\ Len(s) \in Nat /\ Len(Without(s, call[c].index)) \in Nat
                                /\ Len(Without(s, call[c].index)) \in {Len(s), Len(s) - 1}
      BY <3>1, WithoutOne, LenProperties
    <3>b. Total = Len(scheduled) + Len(manual) /\ Total' = Len(scheduled') + Len(manual')
      BY DEF Total
    <3>c. Len(scheduled) \in Nat /\ Len(manual) \in Nat
      BY Counts
    <3>2. CASE c \in Tick
      <4>1. manual' = manual
        BY <2>1, <3>2
      <4>2. scheduled' \in Seq(Entry) /\ Len(scheduled') \in Nat /\ Len(scheduled') \in {Len(scheduled), Len(scheduled) - 1}
        BY <2>1, <3>1, <3>a, <3>2
      <4> QED
        BY <3>1, <3>2, <3>b, <3>c, <4>1, <4>2
    <3>3. CASE c \notin Tick
      <4>1. scheduled' = scheduled
        BY <2>1, <3>3
      <4>2. manual' \in Seq(Entry) /\ Len(manual') \in Nat /\ Len(manual') \in {Len(manual), Len(manual) - 1}
        BY <2>1, <3>1, <3>a, <3>3
      <4> QED
        BY <3>1, <3>3, <3>b, <3>c, <4>1, <4>2, SMTT(40)
    <3> QED
      BY <3>2, <3>3
  <2>4. RTypeOK'
    BY <1>0, <2>1, <2>2, <2>3 DEF RInv, RTypeOK, CallType
  <2>5. Retries'
    BY <2>2 DEF RInv, Retries
  <2>6. Booked'
    <3>1. c \in Owed /\ c \notin Owed'
      BY <1>0, <2>2 DEF Owed
    <3>2. IsFiniteSet(Owed') /\ Cardinality(Owed') = Cardinality(Owed) - 1
      BY <2>2, <3>1, OwedChanges
    <3>3. Cardinality(mailed') + Cardinality(Owed') <= Total' /\ Total' <= MaxSent
      BY <1>0, <2>3, <3>2, Counts, ReminderAssumption, SMTT(40) DEF RInv, Booked, Total
    <3>4. \A d \in Call : ~call'[d].fresh
      BY <2>2
    <3> QED
      BY <3>2, <3>3, <3>4 DEF Booked
  <2>7. OnSchedule'
    <3>1. due' = due /\ due \in Int /\ overlapped' = overlapped
      BY <1>0 DEF RInv, RTypeOK
    <3>2. ASSUME ~overlapped
          PROVE  /\ Len(scheduled') <= due
                 /\ \A d \in Tick : call[d].phase \in {"read", "persist"} => Len(scheduled') < due
      BY <2>3, <3>1, <3>2, Counts DEF RInv, OnSchedule
    <3> QED
      BY <2>2, <3>1, <3>2 DEF RInv, OnSchedule, Call
  <2> QED
    BY <2>4, <2>5, <2>6, <2>7 DEF RInv
<1> QED
  BY <1>1, <1>2

\* The event of the reminder is a write of the row like any other.
LEMMA EmitStep ==
  ASSUME RInv, NEW c \in Call, EmitSent(c)
  PROVE  RInv'
<1>1. CASE Become(c, Idle)
  BY <1>1, ReadingStep
<1>2. CASE WroteAs(c, Idle)
  <2>1. /\ call \in [Call -> CallType] /\ Idle \in CallType
        /\ call[c].phase = "emit"
        /\ UNCHANGED <<due, ReminderRow, serial, mailed, overlapped, wasted, trouble>>
    BY ReminderAssumption DEF RInv, RTypeOK, CallType, EmitSent, Idle, Phases, History
  <2>2. /\ call' \in [Call -> CallType]
        /\ call'[c].phase = "idle" /\ ~call'[c].fresh
        /\ \A d \in Call : d # c =>
             /\ call'[d].phase = call[d].phase /\ call'[d].tries = call[d].tries
             /\ call'[d].entry = call[d].entry
             /\ ~call'[d].fresh
    BY <1>2, <2>1, OthersStay DEF Idle
  <2>3. Owed' = Owed
    BY <2>1, <2>2 DEF Owed
  <2>4. RTypeOK'
    BY <2>1, <2>2 DEF RInv, RTypeOK, CallType, ReminderRow
  <2>5. Retries'
    BY <2>2 DEF RInv, Retries
  <2>6. Booked'
    BY <2>1, <2>2, <2>3 DEF RInv, Booked, ReminderRow, Total
  <2>7. OnSchedule'
    BY <2>1, <2>2 DEF RInv, OnSchedule, ReminderRow, Call
  <2> QED
    BY <2>4, <2>5, <2>6, <2>7 DEF RInv
<1> QED
  BY <1>1, <1>2 DEF EmitSent

\* What others do leaves the entries and the calls alone; what they write is news to all.
LEMMA OutsideStep ==
  ASSUME RInv, Advance \/ Settle \/ EraseLink
  PROVE  RInv'
<1>1. /\ UNCHANGED <<scheduled, manual, mailed, serial, overlapped, wasted, trouble>>
      /\ due' \in 0..Slots /\ due' >= due
      /\ pending' \in BOOLEAN /\ open' \in BOOLEAN /\ link' \in BOOLEAN
  <2>1. due \in 0..Slots /\ pending \in BOOLEAN /\ open \in BOOLEAN /\ link \in BOOLEAN /\ Slots \in Nat
    BY ReminderAssumption DEF RInv, RTypeOK
  <2>2. CASE Advance
    BY <2>1, <2>2 DEF Advance, ReminderRow, History
  <2>3. CASE Settle
    <3>1. /\ UNCHANGED <<scheduled, manual, mailed, serial, overlapped, wasted, trouble>>
          /\ due' = due /\ link' = link /\ pending' \in {pending, FALSE} /\ open' \in {open, FALSE}
      BY <2>3, Zenon DEF Settle, History
    <3>2. due' \in 0..Slots /\ due' >= due
      BY <2>1, <3>1
    <3> QED
      BY <2>1, <3>1, <3>2, Zenon
  <2>4. CASE EraseLink
    <3>1. /\ UNCHANGED <<scheduled, manual, mailed, serial, overlapped, wasted, trouble>>
          /\ due' = due /\ pending' = pending /\ open' = open /\ link' = FALSE
      BY <2>4, Zenon DEF EraseLink, History
    <3>2. due' \in 0..Slots /\ due' >= due
      BY <2>1, <3>1
    <3> QED
      BY <2>1, <3>1, <3>2, Zenon
  <2> QED
    BY <2>2, <2>3, <2>4
<1>2. /\ call' \in [Call -> CallType]
      /\ \A d \in Call :
           /\ call'[d].phase = call[d].phase /\ call'[d].tries = call[d].tries
           /\ call'[d].entry = call[d].entry
           /\ call'[d].fresh => call[d].fresh /\ link' = link
  <2>1. call \in [Call -> CallType]
    BY DEF RInv, RTypeOK, CallType
  <2>2. CASE Advance
    BY <2>1, <2>2 DEF Advance, ReminderRow
  <2>3. CASE Wrote
    BY <2>1, <2>3 DEF Wrote, CallType
  <2> QED
    BY <2>2, <2>3 DEF Settle, EraseLink
<1>3. Owed' = Owed
  BY <1>2 DEF Owed
<1>4. RTypeOK'
  BY <1>1, <1>2 DEF RInv, RTypeOK, CallType
<1>5. Retries'
  BY <1>2 DEF RInv, Retries
<1>6. Booked'
  BY <1>1, <1>2, <1>3 DEF RInv, Booked, Usable, Total
<1>7. OnSchedule'
  <2>1. due \in Int /\ due' \in Int
    BY <1>1, ReminderAssumption DEF RInv, RTypeOK
  <2> QED
    BY <1>1, <1>2, <2>1, Counts DEF RInv, OnSchedule, Call
<1> QED
  BY <1>4, <1>5, <1>6, <1>7 DEF RInv

\* A crash leaves entries behind, never mails without one.
LEMMA CrashStep ==
  ASSUME RInv, CrashSending
  PROVE  RInv'
<1>1. /\ call' = [c \in Call |-> Idle]
      /\ UNCHANGED <<due, ReminderRow, serial, mailed, overlapped>>
      /\ wasted' \in BOOLEAN /\ trouble' \in 0..MaxTroubles
  BY ReminderAssumption DEF RInv, RTypeOK, CrashSending, Trouble
<1>2. Idle \in CallType /\ Idle.phase = "idle" /\ ~Idle.fresh
  BY ReminderAssumption DEF CallType, Idle, Phases
<1>3. \A c \in Call : call'[c].phase = "idle" /\ ~call'[c].fresh
  BY <1>1, <1>2
<1>4. Owed' = {}
  BY <1>3 DEF Owed
<1>5. RTypeOK'
  BY <1>1, <1>2 DEF RInv, RTypeOK, CallType, ReminderRow
<1>6. Booked'
  BY <1>1, <1>3, <1>4, FS_EmptySet, Counts DEF RInv, Booked, ReminderRow, Total
<1> QED
  BY <1>1, <1>3, <1>5, <1>6 DEF RInv, Retries, OnSchedule, ReminderRow, Call

------------------------------------------------------------------------------
\* Nothing is scheduled at first, and every step keeps the books.
THEOREM RemindersInvariant == RSpec => []RInv
<1>1. RInit => RInv
  <2> SUFFICES ASSUME RInit PROVE RInv
    OBVIOUS
  <2>1. Idle \in CallType /\ Idle.phase = "idle"
    BY ReminderAssumption DEF CallType, Idle, Phases
  <2>2. \A c \in Call : call[c] = Idle
    BY DEF RInit
  <2>3. Owed = {}
    BY <2>1, <2>2 DEF Owed
  <2>4. RTypeOK
    <3>1. <<>> \in Seq(Entry)
      BY EmptySeq
    <3>2. call \in [Call -> CallType]
      BY <2>1 DEF RInit
    <3>3. 0 \in 0..Slots /\ 0 \in 0..MaxTroubles
      BY ReminderAssumption
    <3> QED
      BY <3>1, <3>2, <3>3 DEF RInit, RTypeOK, CallType
  <2>5. Booked
    <3>1. Cardinality({}) = 0 /\ IsFiniteSet({}) /\ Len(<<>>) = 0
      BY FS_EmptySet
    <3> QED
      BY <2>1, <2>2, <2>3, <3>1, ReminderAssumption DEF Booked, RInit, Total
  <2>6. OnSchedule
    BY <2>1, <2>2 DEF RInit, OnSchedule, Call
  <2> QED
    BY <2>1, <2>2, <2>4, <2>5, <2>6 DEF RInv, Retries
<1>2. RInv /\ [RNext]_rvars => RInv'
  <2> SUFFICES ASSUME RInv, [RNext]_rvars PROVE RInv'
    OBVIOUS
  <2>1. ASSUME NEW c \in Call, TickRuns(c) \/ ToolRuns(c) PROVE RInv'
    BY <2>1, Starts
  <2>2. ASSUME NEW c \in Call, Goes(c) PROVE RInv'
    BY <2>2, ReadingStep, PersistStep, DeliverStep, RestoreStep, EmitStep DEF Goes
  <2>3. CASE Advance \/ Settle \/ EraseLink
    BY <2>3, OutsideStep
  <2>4. CASE CrashSending
    BY <2>4, CrashStep
  <2>5. CASE UNCHANGED rvars
    <3>1. UNCHANGED <<due, pending, open, link, scheduled, manual, call, serial, mailed, overlapped, wasted, trouble>>
      BY <2>5 DEF rvars
    <3> QED
      BY <3>1 DEF RInv, RTypeOK, Retries, Owed, Booked, Usable, Total, OnSchedule
  <2> QED
    BY <2>1, <2>2, <2>3, <2>4, <2>5 DEF RNext
<1> QED
  BY <1>1, <1>2, PTL DEF RSpec

\* However many ticks and tools run at once, and however their roll-backs meet, a signer
\* gets at most config.reminders.max mails that were answered, and none before its time
\* while ticks do not overlap.
THEOREM NeverMoreThanDue == RSpec => []NoMoreThanDue
<1>1. RInv => NoMoreThanDue
  <2> SUFFICES ASSUME RInv PROVE NoMoreThanDue
    OBVIOUS
  <2>1. Cardinality(mailed) <= MaxSent
    BY Counts, ReminderAssumption DEF RInv, Booked, Total
  <2> QED
    BY <2>1 DEF RInv, Booked, OnSchedule, NoMoreThanDue
<1> QED
  BY <1>1, RemindersInvariant, PTL

------------------------------------------------------------------------------
(***************************************************************************)
(* EventDelivery.  That a receiver is told every fact once, whatever is    *)
(* retried, and that the log goes back in time only if the clock does.  An *)
(* emission writes on the revision it has read: if nobody has written the  *)
(* row since, nothing in the log is newer than the attempt's event and a   *)
(* guarded fact is not in it.  The queue, the pass and the receiver then   *)
(* know of events of the log only; and whatever waits in the queue, though *)
(* a newer event was taken from it, came behind that one.                  *)
(***************************************************************************)

EmissionType ==
  [phase: {"idle", "read", "update", "audit", "enqueue", "end"}, tries: 0..MaxTries,
   seen: Nat, event: LogEvent \cup {NoEvent}]
PassType ==
  [phase: {"idle", "sending", "recording", "removing", "failing"}, file: File \cup {NoFile}]

DTyped ==
  /\ logRow \in RowState
  /\ emission \in [Emission -> EmissionType]
  /\ clock \in 1..MaxTime
  /\ queue \subseteq File
  /\ delivered \subseteq LogEvent /\ appended \in Seq(LogEvent)
  /\ pass \in PassType
  /\ received \in Seq(LogEvent)
  /\ late \subseteq LogEvent /\ setBack \in BOOLEAN
  /\ mishaps \subseteq Emission
  /\ spoilt \in 0..MaxFaults

\* An attempt that has not written yet: nothing of this emission is in the log, unless its
\* trim was not audited; and if nobody has written the row since it was read, a guarded
\* fact is not in it, and nothing in the log is newer than the attempt, but for a clock
\* that was set back.
AttemptOf(m) == LET v == emission[m] IN
  /\ v.phase \in {"idle", "read"} => v.tries < MaxTries
  /\ v.phase \in {"update", "audit", "enqueue"} => v.event \in LogEvent /\ v.event.of = m
  /\ v.phase \in {"audit", "enqueue"} => v.event \in ToSet(appended)
  /\ v.phase \in {"idle", "read", "update"} =>
       m \in mishaps \/ \A e \in ToSet(appended) : e.of # m
  /\ v.phase = "update" =>
       /\ v.seen <= logRow.rev /\ (~setBack => v.event.at <= clock)
       /\ v.seen = logRow.rev =>
            /\ ~setBack => \A e \in ToSet(appended) : e.at <= v.event.at
            /\ m \in Guarded => ~logRow.recorded

Attempts == \A m \in Emission : AttemptOf(m)

\* The log itself: one event of an emission, one of a guarded fact, in the order of time.
Written ==
  /\ \A e, f \in ToSet(appended) : e.of = f.of => e = f \/ e.of \in mishaps
  /\ \A e, f \in ToSet(appended) : e.of \in Guarded /\ f.of \in Guarded => e = f
  /\ ~logRow.recorded => \A e \in ToSet(appended) : e.of \notin Guarded
  /\ ~setBack => \A e \in ToSet(appended) : e.at <= clock
  /\ ~setBack => \A i, j \in 1..Len(appended) : i < j => appended[i].at <= appended[j].at

\* What the queue, the pass and the receiver know of.
Receipts ==
  /\ \A f \in queue : /\ f.event \in ToSet(appended)
                      /\ ~f.dead => f.attempts < MaxAttempts
  /\ ToSet(received) \subseteq ToSet(appended)
  /\ delivered \subseteq ToSet(received)
  /\ pass.phase # "idle" => /\ pass.file \in File /\ pass.file.attempts < MaxAttempts
                            /\ pass.file.event \in ToSet(appended)
  /\ pass.phase = "recording" => pass.file.event \in ToSet(received)

DInv == DTyped /\ Attempts /\ Written /\ Receipts

------------------------------------------------------------------------------
LEMMA ToSetAppends ==
  ASSUME NEW S, NEW s \in Seq(S), NEW e \in S
  PROVE  /\ ToSet(Append(s, e)) = ToSet(s) \cup {e}
         /\ Append(s, e) \in Seq(S) /\ Len(Append(s, e)) = Len(s) + 1
         /\ \A i \in 1..Len(s) : Append(s, e)[i] = s[i]
         /\ Append(s, e)[Len(s) + 1] = e
<1>1. /\ Append(s, e) \in Seq(S) /\ Len(Append(s, e)) = Len(s) + 1
      /\ \A i \in 1..Len(s) : Append(s, e)[i] = s[i]
      /\ Append(s, e)[Len(s) + 1] = e
      /\ DOMAIN s = 1..Len(s) /\ Len(s) \in Nat
      /\ DOMAIN Append(s, e) = 1..(Len(s) + 1)
  BY AppendProperties, LenProperties
<1>2. ToSet(Append(s, e)) = {Append(s, e)[i] : i \in 1..(Len(s) + 1)}
  BY <1>1 DEF ToSet
<1>3. ToSet(s) = {s[i] : i \in 1..Len(s)}
  BY <1>1 DEF ToSet
<1>4. \A i \in 1..(Len(s) + 1) : i \in 1..Len(s) \/ i = Len(s) + 1
  BY <1>1
<1>5. ToSet(Append(s, e)) \subseteq ToSet(s) \cup {e}
  BY <1>1, <1>2, <1>3, <1>4
<1>6. ToSet(s) \cup {e} \subseteq ToSet(Append(s, e))
  BY <1>1, <1>2, <1>3
<1> QED
  BY <1>1, <1>5, <1>6

\* Events of a set are events.
LEMMA EventsOfLog ==
  ASSUME DInv
  PROVE  /\ \A e \in ToSet(appended) : e \in LogEvent /\ e.at \in Nat /\ e.of \in Emission
         /\ \A m \in Emission : emission[m] \in EmissionType
<1>1. appended \in Seq(LogEvent)
  BY DEF DInv, DTyped
<1>2. \A e \in ToSet(appended) : e \in LogEvent
  BY <1>1, LenProperties, ElementOfSeq DEF ToSet
<1> QED
  BY <1>2 DEF LogEvent, DInv, DTyped

------------------------------------------------------------------------------
(***************************************************************************)
(* emit.                                                                   *)
(***************************************************************************)
LEMMA FreshReadStep ==
  ASSUME DInv, NEW m \in Emission, FreshRead(m)
  PROVE  DInv'
<1>0. /\ emission \in [Emission -> EmissionType] /\ emission[m] \in EmissionType
      /\ emission[m].phase \in {"idle", "read"}
      /\ UNCHANGED <<logRow, clock, setBack, appended, mishaps>>
      /\ UNCHANGED <<queue, delivered, pass, received, late, spoilt>>
  BY DEF DInv, DTyped, FreshRead, Log, Webhook
<1>1. CASE Known(m)
  <2>1. emission' = [emission EXCEPT ![m] = [NewEmission EXCEPT !.phase = "end"]]
    BY <1>1 DEF FreshRead, GoesOn
  <2>2. NewEmission \in EmissionType
    BY LimitAssumption DEF NewEmission, EmissionType
  <2>3. /\ emission' \in [Emission -> EmissionType] /\ emission'[m].phase = "end"
        /\ \A d \in Emission : d # m => emission'[d] = emission[d]
    BY <1>0, <2>1, <2>2 DEF EmissionType, NewEmission
  <2>4. DTyped'
    BY <1>0, <2>1, <2>3 DEF DInv, DTyped
  <2>5. Attempts'
    BY <1>0, <2>1, <2>3 DEF DInv, Attempts, AttemptOf
  <2> QED
    BY <1>0, <2>1, <2>4, <2>5 DEF DInv, Written, Receipts
<1>2. CASE ~Known(m)
  <2> DEFINE v == [phase |-> "update", tries |-> emission[m].tries + 1, seen |-> logRow.rev,
                   event |-> [of |-> m, n |-> emission[m].tries + 1, at |-> clock]]
  <2>1. emission' = [emission EXCEPT ![m] = v]
    BY <1>2 DEF FreshRead
  <2>2. emission[m].tries + 1 \in 1..MaxTries
    BY <1>0, LimitAssumption DEF DInv, Attempts, AttemptOf, EmissionType
  <2>3. /\ v \in EmissionType /\ v.event \in LogEvent /\ v.event.of = m
        /\ v.phase = "update" /\ v.seen = logRow.rev /\ v.event.at = clock
    BY <2>2 DEF EmissionType, LogEvent, DInv, DTyped, RowState
  <2> HIDE DEF v
  <2>4. /\ emission' \in [Emission -> EmissionType] /\ emission'[m] = v
        /\ \A d \in Emission : d # m => emission'[d] = emission[d]
    BY <1>0, <2>1, <2>3
  <2>5. DTyped'
    BY <1>0, <2>1, <2>4 DEF DInv, DTyped
  <2>6. Attempts'
    <3>1. logRow.rev \in Nat /\ clock \in Nat
      BY DEF DInv, DTyped, RowState
    <3>2. m \in Guarded => ~logRow.recorded
      BY <1>2 DEF Known
    <3>3. ~setBack => \A e \in ToSet(appended) : e.at <= clock
      BY DEF DInv, Written
    <3>4. m \in mishaps \/ \A e \in ToSet(appended) : e.of # m
      BY <1>0 DEF DInv, Attempts, AttemptOf
    <3>5. ASSUME NEW d \in Emission, d # m
          PROVE  AttemptOf(d)'
      BY <1>0, <2>4, <3>5 DEF DInv, Attempts, AttemptOf
    <3>6. AttemptOf(m)'
      BY <1>0, <2>3, <2>4, <3>1, <3>2, <3>3, <3>4 DEF AttemptOf
    <3> QED
      BY <3>5, <3>6 DEF Attempts
  <2>7. Written'
    BY <1>0 DEF DInv, Written
  <2> QED
    BY <1>0, <2>5, <2>6, <2>7 DEF DInv, Receipts
<1> QED
  BY <1>1, <1>2

\* The clock goes on, or is set back.
LEMMA ClockStep ==
  ASSUME DInv, ClockMoves
  PROVE  DInv'
<1>1. PICK t \in 1..MaxTime :
        /\ clock' = t
        /\ \/ t > clock /\ UNCHANGED <<setBack, spoilt>>
           \/ t < clock /\ setBack' = TRUE /\ Fault
  BY DEF ClockMoves
<1>2. UNCHANGED <<logRow, emission, appended, mishaps, queue, delivered, pass, received, late>>
  BY DEF ClockMoves, Webhook
<1>3. setBack' \in BOOLEAN /\ clock \in Nat /\ clock' \in Nat
  <2>1. setBack \in BOOLEAN
    BY Zenon DEF DInv, DTyped
  <2>2. setBack' \in BOOLEAN
    BY <1>1, <2>1, Zenon
  <2>3. clock \in 1..MaxTime /\ clock' \in 1..MaxTime
    BY <1>1, Zenon DEF DInv, DTyped
  <2>4. clock \in Nat /\ clock' \in Nat
    BY <2>3, LimitAssumption
  <2> QED
    BY <2>2, <2>4, Zenon
<1>4. ~setBack' => ~setBack /\ clock <= clock'
  <2>1. ~setBack' => ~setBack /\ clock' > clock
    BY <1>1, Zenon
  <2>2. clock' > clock => clock <= clock'
    BY <1>3, SMT
  <2> QED
    BY <2>1, <2>2, Zenon
<1>5. DTyped'
  <2>1. spoilt \in 0..MaxFaults /\ MaxFaults \in Nat
    BY LimitAssumption DEF DInv, DTyped
  <2>2. spoilt' = spoilt \/ (spoilt < MaxFaults /\ spoilt' = spoilt + 1)
    BY <1>1, Zenon DEF Fault
  <2>3. spoilt' \in 0..MaxFaults
    BY <2>1, <2>2, SMT
  <2> QED
    BY <1>1, <1>2, <1>3, <2>3 DEF DInv, DTyped
<1>6. Attempts'
  <2> SUFFICES ASSUME NEW m \in Emission PROVE AttemptOf(m)'
    BY DEF Attempts
  <2>1. AttemptOf(m)
    BY DEF DInv, Attempts
  <2>2. emission[m].phase = "update" /\ ~setBack' => emission[m].event.at <= clock'
    BY <1>3, <1>4, <2>1 DEF AttemptOf, LogEvent
  <2> QED
    BY <1>2, <1>4, <2>1, <2>2 DEF AttemptOf
<1>7. Written'
  <2>1. ~setBack' => \A e \in ToSet(appended) : e.at <= clock'
    BY <1>3, <1>4, EventsOfLog DEF DInv, Written
  <2> QED
    BY <1>2, <1>4, <2>1 DEF DInv, Written
<1> QED
  BY <1>2, <1>5, <1>6, <1>7 DEF DInv, Receipts

\* An emission that goes on, or ends, changes only its own phase.
LEMMA GoingOn ==
  ASSUME DInv, NEW m \in Emission,
         NEW p \in {"read", "audit", "enqueue", "end"}, GoesOn(m, p)
  PROVE  /\ emission' \in [Emission -> EmissionType]
         /\ emission'[m].phase = p
         /\ p # "end" => /\ emission'[m].tries = emission[m].tries
                         /\ emission'[m].event = emission[m].event
         /\ \A d \in Emission : d # m => emission'[d] = emission[d]
<1>1. emission \in [Emission -> EmissionType] /\ emission[m] \in EmissionType
  BY DEF DInv, DTyped
<1>2. NewEmission \in EmissionType
  BY LimitAssumption DEF NewEmission, EmissionType
<1>3. emission' = [emission EXCEPT ![m] =
         [IF p = "end" THEN NewEmission ELSE emission[m] EXCEPT !.phase = p]]
  BY DEF GoesOn
<1>4. CASE p = "end"
  <2>1. [NewEmission EXCEPT !.phase = p] \in EmissionType
    BY <1>2 DEF EmissionType
  <2> QED
    BY <1>1, <1>2, <1>3, <1>4, <2>1 DEF EmissionType
<1>5. CASE p # "end"
  <2>1. [emission[m] EXCEPT !.phase = p] \in EmissionType
    BY <1>1 DEF EmissionType
  <2> QED
    BY <1>1, <1>3, <1>5, <2>1 DEF EmissionType
<1> QED
  BY <1>4, <1>5

\* The attempt that was written: what others have read is older now, and what is in the
\* log is older than it.
LEMMA UpdateWrites ==
  ASSUME DInv, NEW m \in Emission, Update(m), logRow.rev = emission[m].seen,
         logRow' = [rev |-> logRow.rev + 1, log |-> Capped(Append(logRow.log, emission[m].event)),
                    recorded |-> logRow.recorded \/ m \in Guarded],
         appended' = Append(appended, emission[m].event),
         NEW p \in {"audit", "enqueue"}, GoesOn(m, p),
         UNCHANGED spoilt
  PROVE  DInv'
<1> DEFINE v == emission[m]
<1>0. /\ v.phase = "update" /\ v \in EmissionType
      /\ UNCHANGED <<clock, setBack, mishaps, queue, delivered, pass, received, late>>
  BY DEF DInv, DTyped, Update, Webhook
<1>1. /\ v.event \in LogEvent /\ v.event.of = m /\ (~setBack => v.event.at <= clock)
      /\ ~setBack => \A e \in ToSet(appended) : e.at <= v.event.at
      /\ m \in Guarded => ~logRow.recorded
      /\ m \in mishaps \/ \A e \in ToSet(appended) : e.of # m
  BY <1>0 DEF DInv, Attempts, AttemptOf
<1>2. /\ emission' \in [Emission -> EmissionType]
      /\ emission'[m].phase = p
      /\ emission'[m].event = v.event
      /\ \A d \in Emission : d # m => emission'[d] = emission[d]
  BY GoingOn
<1>3. appended \in Seq(LogEvent) /\ clock \in Nat /\ logRow \in RowState
  BY DEF DInv, DTyped
<1>4. /\ ToSet(appended') = ToSet(appended) \cup {v.event}
      /\ appended' \in Seq(LogEvent) /\ Len(appended') = Len(appended) + 1
      /\ \A i \in 1..Len(appended) : appended'[i] = appended[i] /\ appended[i] \in ToSet(appended)
      /\ appended'[Len(appended) + 1] = v.event
  BY <1>1, <1>3, ToSetAppends, SMTT(40) DEF ToSet
<1>5. DTyped'
  <2>1. Capped(Append(logRow.log, v.event)) \in Seq(LogEvent)
    <3>1. logRow.log \in Seq(LogEvent)
      BY <1>3 DEF RowState
    <3>2. Append(logRow.log, v.event) \in Seq(LogEvent) /\ Append(logRow.log, v.event) # <<>>
      BY <1>1, <3>1, AppendProperties
    <3> QED
      BY <3>2, HeadTailProperties DEF Capped
  <2>2. logRow' \in RowState
    BY <1>3, <2>1 DEF RowState
  <2> QED
    BY <1>0, <1>2, <1>4, <2>2 DEF DInv, DTyped
<1>6. Attempts'
  <2>1. logRow'.rev = logRow.rev + 1 /\ logRow.rev \in Nat
    BY <1>3 DEF RowState
  <2>2. ASSUME NEW d \in Emission, d # m
        PROVE  AttemptOf(d)'
    <3>1. emission'[d] = emission[d] /\ emission[d].seen \in Nat
      BY <1>2, <2>2, EventsOfLog DEF EmissionType
    <3>2. emission[d].phase = "update" => emission[d].seen < logRow'.rev
      BY <2>1, <3>1 DEF DInv, Attempts, AttemptOf
    <3>3. \A e \in ToSet(appended') : e \in ToSet(appended) \/ e.of = m
      BY <1>1, <1>4
    <3>4. ToSet(appended) \subseteq ToSet(appended')
      BY <1>4
    <3>5. AttemptOf(d)
      BY DEF DInv, Attempts
    <3>6. emission[d].phase = "update" => emission[d].seen # logRow'.rev /\ emission[d].seen <= logRow'.rev
      BY <2>1, <3>1, <3>2
    <3> QED
      BY <1>0, <2>2, <3>1, <3>3, <3>4, <3>5, <3>6 DEF AttemptOf
  <2>3. AttemptOf(m)'
    BY <1>1, <1>2, <1>4 DEF AttemptOf
  <2> QED
    BY <2>2, <2>3 DEF Attempts
<1>7. Written'
  <2>1. \A e, f \in ToSet(appended') : e.of = f.of => e = f \/ e.of \in mishaps
    BY <1>1, <1>4 DEF DInv, Written
  <2>2. \A e, f \in ToSet(appended') : e.of \in Guarded /\ f.of \in Guarded => e = f
    BY <1>1, <1>4 DEF DInv, Written
  <2>3. ~logRow'.recorded => \A e \in ToSet(appended') : e.of \notin Guarded
    BY <1>1, <1>4 DEF DInv, Written
  <2>4. ~setBack => \A e \in ToSet(appended') : e.at <= clock
    BY <1>1, <1>4 DEF DInv, Written
  <2>5. ASSUME ~setBack, NEW i \in 1..Len(appended'), NEW j \in 1..Len(appended'), i < j
        PROVE  appended'[i].at <= appended'[j].at
    <3>1. Len(appended) \in Nat /\ i \in 1..Len(appended)
      BY <1>3, <1>4, <2>5, LenProperties
    <3>2. CASE j \in 1..Len(appended)
      BY <1>4, <2>5, <3>1, <3>2 DEF DInv, Written
    <3>3. CASE j = Len(appended) + 1
      <4>1. appended'[j] = v.event /\ appended'[i] = appended[i]
        BY <1>4, <3>1, <3>3
      <4>2. appended[i] \in ToSet(appended)
        BY <3>1 DEF ToSet
      <4> QED
        BY <1>1, <2>5, <4>1, <4>2
    <3> QED
      BY <1>4, <3>1, <3>2, <3>3, SMTT(40)
  <2> QED
    BY <1>0, <2>1, <2>2, <2>3, <2>4, <2>5 DEF Written
<1>8. Receipts'
  BY <1>0, <1>4 DEF DInv, Receipts
<1> QED
  BY <1>5, <1>6, <1>7, <1>8 DEF DInv

\* An emission that goes on without having written.
LEMMA GoesOnKeeps ==
  ASSUME DInv, NEW m \in Emission, NEW p \in {"read", "audit", "enqueue", "end"}, GoesOn(m, p),
         p = "read" => /\ emission[m].tries < MaxTries
                       /\ m \in mishaps' \/ \A e \in ToSet(appended) : e.of # m,
         p # "audit",
         p = "enqueue" => emission[m].phase = "audit",
         UNCHANGED <<logRow, clock, setBack, appended>>,
         mishaps \subseteq mishaps', mishaps' \subseteq Emission, spoilt' \in 0..MaxFaults
  PROVE  /\ emission' \in [Emission -> EmissionType]
         /\ Attempts' /\ Written'
<1>1. /\ emission' \in [Emission -> EmissionType]
      /\ emission'[m].phase = p
      /\ p # "end" => /\ emission'[m].tries = emission[m].tries
                      /\ emission'[m].event = emission[m].event
      /\ \A d \in Emission : d # m => emission'[d] = emission[d]
  BY GoingOn
<1>2. ASSUME NEW d \in Emission, d # m PROVE AttemptOf(d)'
  BY <1>1, <1>2 DEF DInv, Attempts, AttemptOf
<1>3. AttemptOf(m)'
  BY <1>1 DEF DInv, Attempts, AttemptOf
<1>4. Written'
  BY DEF DInv, Written
<1> QED
  BY <1>1, <1>2, <1>3, <1>4 DEF Attempts

\* The loop ends, or has a try left.
LEMMA AgainKeeps ==
  ASSUME DInv, NEW m \in Emission, Again(m), emission[m].phase \in {"update", "audit"},
         m \in mishaps' \/ \A e \in ToSet(appended) : e.of # m,
         UNCHANGED <<logRow, clock, setBack, appended>>,
         mishaps \subseteq mishaps', mishaps' \subseteq Emission, spoilt' \in 0..MaxFaults
  PROVE  /\ emission' \in [Emission -> EmissionType]
         /\ Attempts' /\ Written'
<1>1. CASE emission[m].tries < MaxTries
  <2>1. GoesOn(m, "read")
    BY <1>1 DEF Again
  <2> QED
    BY <1>1, <2>1, GoesOnKeeps
<1>2. CASE ~(emission[m].tries < MaxTries)
  <2>1. GoesOn(m, "end")
    BY <1>2 DEF Again
  <2> QED
    BY <2>1, GoesOnKeeps
<1> QED
  BY <1>1, <1>2

LEMMA UpdateStep ==
  ASSUME DInv, NEW m \in Emission, Update(m)
  PROVE  DInv'
<1> DEFINE log == Append(logRow.log, emission[m].event)
<1>0. emission[m].phase = "update" /\ UNCHANGED <<clock, setBack, mishaps, queue, delivered, pass, received, late>>
  BY DEF Update, Webhook
<1>1. CASE /\ logRow.rev = emission[m].seen
           /\ logRow' = [rev |-> logRow.rev + 1, log |-> Capped(log),
                         recorded |-> logRow.recorded \/ m \in Guarded]
           /\ appended' = Append(appended, emission[m].event)
           /\ GoesOn(m, IF Len(log) > MaxEvents THEN "audit" ELSE "enqueue")
           /\ UNCHANGED spoilt
  <2>1. CASE Len(log) > MaxEvents
    <3>1. GoesOn(m, "audit")
      BY <1>1, <2>1
    <3> QED
      BY <1>1, <3>1, UpdateWrites
  <2>2. CASE ~(Len(log) > MaxEvents)
    <3>1. GoesOn(m, "enqueue")
      BY <1>1, <2>2
    <3> QED
      BY <1>1, <3>1, UpdateWrites
  <2> QED
    BY <2>1, <2>2
<1>2. CASE /\ \/ logRow.rev # emission[m].seen /\ UNCHANGED spoilt
              \/ Fault
           /\ Again(m)
           /\ UNCHANGED <<logRow, appended>>
  <2>1. spoilt' \in 0..MaxFaults
    BY <1>2, LimitAssumption DEF Fault, DInv, DTyped
  <2>2. m \in mishaps' \/ \A e \in ToSet(appended) : e.of # m
    BY <1>0 DEF DInv, Attempts, AttemptOf
  <2>3. mishaps' \subseteq Emission
    BY <1>0 DEF DInv, DTyped
  <2>4. /\ emission' \in [Emission -> EmissionType]
        /\ Attempts' /\ Written'
    BY <1>0, <1>2, <2>1, <2>2, <2>3, AgainKeeps
  <2> QED
    BY <1>0, <1>2, <2>1, <2>4 DEF DInv, DTyped, Receipts
<1> QED
  BY <1>1, <1>2 DEF Update

LEMMA AuditTrimStep ==
  ASSUME DInv, NEW m \in Emission, AuditTrim(m)
  PROVE  DInv'
<1>0. /\ emission[m].phase = "audit"
      /\ UNCHANGED <<logRow, clock, setBack, appended, queue, delivered, pass, received, late>>
  BY DEF AuditTrim, Webhook
<1>1. /\ emission' \in [Emission -> EmissionType] /\ Attempts' /\ Written'
      /\ mishaps' \subseteq Emission /\ spoilt' \in 0..MaxFaults
  <2>1. CASE GoesOn(m, "enqueue") /\ UNCHANGED <<mishaps, spoilt>>
    <3>1. mishaps' \subseteq Emission /\ spoilt' \in 0..MaxFaults
      BY <2>1 DEF DInv, DTyped
    <3> QED
      BY <1>0, <2>1, <3>1, GoesOnKeeps
  <2>2. CASE Again(m) /\ Fault /\ mishaps' = mishaps \cup {m}
    <3>1. mishaps' \subseteq Emission /\ spoilt' \in 0..MaxFaults
      BY <2>2, LimitAssumption DEF DInv, DTyped, Fault
    <3> QED
      BY <1>0, <2>2, <3>1, AgainKeeps
  <2> QED
    BY <2>1, <2>2 DEF AuditTrim
<1> QED
  BY <1>0, <1>1 DEF DInv, DTyped, Receipts

\* The queue gets what is in the log.
LEMMA EnqueueStep ==
  ASSUME DInv, NEW m \in Emission, Enqueue(m)
  PROVE  DInv'
<1> DEFINE f == [event |-> emission[m].event, attempts |-> 0, due |-> TRUE, dead |-> FALSE]
<1>0. /\ emission[m].phase = "enqueue" /\ GoesOn(m, "end")
      /\ UNCHANGED <<logRow, clock, setBack, appended, mishaps, delivered, pass, received>>
  BY DEF Enqueue, Log
<1>1. /\ queue' \in {queue, queue \cup {f}} /\ spoilt' \in 0..MaxFaults
      /\ late' \in {late, late \cup {emission[m].event}}
  BY LimitAssumption DEF Enqueue, Fault, DInv, DTyped
<1>2. emission[m].event \in LogEvent /\ emission[m].event \in ToSet(appended)
  BY <1>0 DEF DInv, Attempts, AttemptOf
<1>3. f \in File
  BY <1>2, LimitAssumption DEF File
<1>4. mishaps' \subseteq Emission
  BY <1>0 DEF DInv, DTyped
<1>5. emission' \in [Emission -> EmissionType] /\ Attempts' /\ Written'
  BY <1>0, <1>1, <1>4, GoesOnKeeps
<1>6. Receipts'
  <2>1. f.event \in ToSet(appended) /\ f.attempts < MaxAttempts
    BY <1>2, LimitAssumption
  <2> QED
    BY <1>0, <1>1, <2>1 DEF DInv, Receipts
<1> QED
  BY <1>0, <1>1, <1>2, <1>3, <1>5, <1>6 DEF DInv, DTyped

------------------------------------------------------------------------------
(***************************************************************************)
(* The queue.                                                              *)
(***************************************************************************)
\* What the pass does to the files does not concern the log.
LEMMA LogStays ==
  ASSUME DInv, UNCHANGED <<Log, emission>>
  PROVE  Attempts' /\ Written'
  BY DEF DInv, Log, Attempts, AttemptOf, Written

LEMMA PassStep ==
  ASSUME DInv, Deliver
  PROVE  DInv'
<1>1. UNCHANGED <<Log, emission>> /\ Attempts' /\ Written'
  BY LogStays DEF Deliver, Scan, Send, Record, RemoveFile, Failed
<1>2. UNCHANGED <<logRow, clock, setBack, appended, mishaps, emission, late>>
  BY <1>1 DEF Log, Deliver, Scan, Send, Record, RemoveFile, Failed
<1> SUFFICES /\ queue' \subseteq File /\ delivered' \subseteq LogEvent
             /\ pass' \in PassType /\ received' \in Seq(LogEvent) /\ spoilt' \in 0..MaxFaults
             /\ Receipts'
  BY <1>1, <1>2 DEF DInv, DTyped
<1>3. /\ queue \subseteq File /\ delivered \subseteq LogEvent
      /\ pass \in PassType /\ received \in Seq(LogEvent) /\ spoilt \in 0..MaxFaults
      /\ Receipts /\ NoFile \notin {} /\ MaxFaults \in Nat
  BY LimitAssumption DEF DInv, DTyped
<1>4. ASSUME NEW p \in {"idle", "sending", "recording", "removing", "failing"}, Step(p)
      PROVE  pass' \in PassType /\ pass'.phase = p /\ (p # "idle" => pass'.file = pass.file)
  BY <1>3, <1>4 DEF Step, PassType
<1>5. pass.phase # "idle" => pass.file.event \in LogEvent
  BY <1>3 DEF Receipts, File
<1>6. CASE Scan
  <2>1. PICK f \in Heads : pass' = [phase |-> "sending", file |-> f]
    BY <1>6 DEF Scan
  <2>2. f \in queue /\ ~f.dead
    BY <2>1 DEF Heads, Oldest, Pending
  <2>3. UNCHANGED <<queue, delivered, received, spoilt>>
    BY <1>6 DEF Scan
  <2> QED
    BY <1>2, <1>3, <2>1, <2>2, <2>3 DEF PassType, Receipts
<1>7. CASE Send
  <2>1. pass.phase = "sending" /\ UNCHANGED <<queue, delivered>> /\ spoilt' \in 0..MaxFaults
    BY <1>3, <1>7 DEF Send, Fault
  <2>2. CASE received' = received /\ Step("failing")
    BY <1>2, <1>3, <1>4, <2>1, <2>2 DEF Receipts
  <2>3. CASE received' = Append(received, pass.file.event) /\ (Step("recording") \/ Step("failing"))
    <3>1. ToSet(received') = ToSet(received) \cup {pass.file.event} /\ received' \in Seq(LogEvent)
      BY <1>3, <1>5, <2>1, <2>3, ToSetAppends
    <3>2. pass' \in PassType /\ pass'.phase \in {"recording", "failing"} /\ pass'.file = pass.file
      BY <1>4, <2>3
    <3> QED
      BY <1>2, <1>3, <2>1, <3>1, <3>2 DEF Receipts
  <2> QED
    BY <1>7, <2>2, <2>3 DEF Send
<1>8. CASE Record
  <2>1. /\ pass.phase = "recording" /\ UNCHANGED <<queue, received>> /\ spoilt' \in 0..MaxFaults
        /\ delivered' \in {delivered, delivered \cup {pass.file.event}}
        /\ Step("removing") \/ Step("failing")
    BY <1>3, <1>8 DEF Record, Fault
  <2>2. pass' \in PassType /\ pass'.phase \in {"removing", "failing"} /\ pass'.file = pass.file
    BY <1>4, <2>1
  <2> QED
    BY <1>2, <1>3, <1>5, <2>1, <2>2 DEF Receipts
<1>9. CASE RemoveFile
  <2>1. /\ pass.phase = "removing" /\ UNCHANGED <<delivered, received>> /\ spoilt' \in 0..MaxFaults
        /\ queue' \subseteq queue
        /\ Step("idle") \/ Step("failing")
    BY <1>3, <1>9 DEF RemoveFile, Fault
  <2>2. pass' \in PassType /\ pass'.phase \in {"idle", "failing"}
        /\ (pass'.phase # "idle" => pass'.file = pass.file)
    BY <1>4, <2>1
  <2> QED
    BY <1>2, <1>3, <2>1, <2>2 DEF Receipts
<1>10. CASE Failed
  <2>1. /\ pass.phase = "failing" /\ UNCHANGED <<delivered, received>> /\ spoilt' \in 0..MaxFaults
        /\ queue' \in {queue, (queue \ {pass.file}) \cup {Rewritten(pass.file)}}
        /\ Step("idle")
    BY <1>3, <1>10 DEF Failed, Fault
  <2>2. pass' \in PassType /\ pass'.phase = "idle"
    BY <1>4, <2>1
  <2>3. pass.file \in File /\ pass.file.attempts < MaxAttempts /\ pass.file.event \in ToSet(appended)
    BY <1>3, <2>1 DEF Receipts
  <2>4. /\ Rewritten(pass.file) \in File /\ Rewritten(pass.file).event = pass.file.event
        /\ ~Rewritten(pass.file).dead => Rewritten(pass.file).attempts < MaxAttempts
    <3> DEFINE f == pass.file
    <3>1. f.attempts + 1 \in 0..MaxAttempts /\ f.attempts \in Nat
      BY <2>3, LimitAssumption DEF File
    <3> DEFINE b == f.attempts + 1 >= MaxAttempts
    <3>2. b \in BOOLEAN /\ (~b => f.attempts + 1 < MaxAttempts)
      BY <3>1, LimitAssumption
    <3>3. Rewritten(f) = [f EXCEPT !.attempts = @ + 1, !.due = FALSE, !.dead = b]
      BY Zenon DEF Rewritten
    <3> HIDE DEF b
    <3>4. /\ Rewritten(f) \in File /\ Rewritten(f).event = f.event
          /\ Rewritten(f).attempts = f.attempts + 1 /\ Rewritten(f).dead = b
      BY <2>3, <3>1, <3>2, <3>3 DEF File
    <3> QED
      BY <3>2, <3>4
  <2> QED
    BY <1>2, <1>3, <2>1, <2>2, <2>3, <2>4 DEF Receipts
<1> QED
  BY <1>6, <1>7, <1>8, <1>9, <1>10 DEF Deliver

LEMMA TimeStep ==
  ASSUME DInv, Elapse \/ Prune
  PROVE  DInv'
<1>1. UNCHANGED <<Log, emission, pass, received, late, spoilt>> /\ Attempts' /\ Written'
  BY LogStays DEF Elapse, Prune
<1>2. UNCHANGED <<logRow, clock, setBack, appended, mishaps>>
  BY <1>1 DEF Log
<1>3. /\ queue' \subseteq File /\ delivered' \subseteq delivered
      /\ \A f \in queue' : f.event \in ToSet(appended) /\ (~f.dead => f.attempts < MaxAttempts)
  <2>1. queue \subseteq File /\ Receipts
    BY DEF DInv, DTyped
  <2>2. CASE Elapse
    <3>1. PICK f \in Pending : queue' = (queue \ {f}) \cup {[f EXCEPT !.due = TRUE]}
      BY <2>2 DEF Elapse
    <3>2. f \in queue /\ f \in File
      BY <2>1, <3>1 DEF Pending
    <3>3. /\ [f EXCEPT !.due = TRUE] \in File /\ [f EXCEPT !.due = TRUE].event = f.event
          /\ [f EXCEPT !.due = TRUE].dead = f.dead
          /\ [f EXCEPT !.due = TRUE].attempts = f.attempts
      BY <3>2 DEF File
    <3>4. delivered' = delivered
      BY <2>2 DEF Elapse
    <3> QED
      BY <2>1, <3>1, <3>2, <3>3, <3>4 DEF Receipts
  <2>3. CASE Prune
    BY <2>1, <2>3 DEF Prune, Receipts
  <2> QED
    BY <2>2, <2>3
<1>4. Receipts'
  BY <1>1, <1>2, <1>3 DEF DInv, Receipts
<1> QED
  BY <1>1, <1>2, <1>3, <1>4 DEF DInv, DTyped

\* A crash ends what was under way; what it had written stays.
LEMMA CrashEndsAll ==
  ASSUME DInv, Crash
  PROVE  DInv'
<1>1. /\ UNCHANGED <<logRow, clock, setBack, appended, mishaps, queue, delivered, received, late>>
      /\ pass' = [phase |-> "idle", file |-> NoFile]
      /\ spoilt' \in 0..MaxFaults
      /\ emission' = [m \in Emission |-> IF emission[m].phase = "idle" THEN emission[m]
                                         ELSE [NewEmission EXCEPT !.phase = "end"]]
  BY LimitAssumption DEF Crash, Log, Step, Fault, DInv, DTyped
<1>2. [NewEmission EXCEPT !.phase = "end"] \in EmissionType
  <2>1. NewEmission \in EmissionType
    BY LimitAssumption DEF NewEmission, EmissionType
  <2> QED
    BY <2>1 DEF EmissionType
<1>3. \A m \in Emission : \/ emission'[m] = emission[m] /\ emission[m].phase = "idle"
                          \/ emission'[m] \in EmissionType /\ emission'[m].phase = "end"
  BY <1>1, <1>2 DEF NewEmission
<1>4. DTyped'
  BY <1>1, <1>2 DEF DInv, DTyped, PassType
<1>5. Attempts'
  BY <1>1, <1>3 DEF DInv, Attempts, AttemptOf
<1>6. Written' /\ Receipts'
  BY <1>1 DEF DInv, Written, Receipts
<1> QED
  BY <1>4, <1>5, <1>6 DEF DInv

------------------------------------------------------------------------------
\* Nothing is logged at first, and every step of a delivery keeps what is said of the
\* log, of the attempts and of who was told.
THEOREM DeliveryInvariant == ESpec => []DInv
<1>1. EInit => DInv
  <2> SUFFICES ASSUME EInit PROVE DInv
    OBVIOUS
  <2>1. ToSet(<<>>) = {} /\ <<>> \in Seq(LogEvent) /\ Len(<<>>) = 0
    BY EmptySeq DEF ToSet
  <2>2. NewEmission \in EmissionType /\ NewEmission.phase = "idle" /\ NewEmission.tries < MaxTries
    BY LimitAssumption DEF NewEmission, EmissionType
  <2>3. DTyped
    <3>1. FreshLog \in RowState
      BY <2>1 DEF FreshLog, RowState
    <3>2. [phase |-> "idle", file |-> NoFile] \in PassType
      BY DEF PassType
    <3>3. clock \in 1..MaxTime /\ spoilt \in 0..MaxFaults
      BY LimitAssumption DEF EInit
    <3>4. emission \in [Emission -> EmissionType]
      BY <2>2, Zenon DEF EInit
    <3>5. logRow \in RowState /\ pass \in PassType
      BY <3>1, <3>2, Zenon DEF EInit
    <3>6. appended \in Seq(LogEvent) /\ received \in Seq(LogEvent)
      BY <2>1, Zenon DEF EInit
    <3>7. setBack \in BOOLEAN
      BY DEF EInit
    <3>8. queue \subseteq File /\ delivered \subseteq LogEvent /\ late \subseteq LogEvent
          /\ mishaps \subseteq Emission
      BY Zenon DEF EInit
    <3> QED
      BY <3>3, <3>4, <3>5, <3>6, <3>7, <3>8, Zenon DEF DTyped
  <2>4. Attempts
    BY <2>1, <2>2 DEF EInit, Attempts, AttemptOf
  <2>5. Written /\ Receipts
    BY <2>1 DEF EInit, Written, Receipts
  <2> QED
    BY <2>3, <2>4, <2>5 DEF DInv
<1>2. DInv /\ [ENext]_evars => DInv'
  <2> SUFFICES ASSUME DInv, [ENext]_evars PROVE DInv'
    OBVIOUS
  <2>1. ASSUME NEW m \in Emission, FreshRead(m) \/ Update(m) \/ AuditTrim(m) \/ Enqueue(m)
        PROVE  DInv'
    BY <2>1, FreshReadStep, UpdateStep, AuditTrimStep, EnqueueStep
  <2>2. CASE Deliver \/ Elapse \/ Prune \/ Crash \/ ClockMoves
    BY <2>2, PassStep, TimeStep, CrashEndsAll, ClockStep
  <2>3. CASE UNCHANGED evars
    BY <2>3 DEF evars, DInv, DTyped, Attempts, AttemptOf, Written, Receipts
  <2> QED
    BY <2>1, <2>2, <2>3 DEF ENext
<1> QED
  BY <1>1, <1>2, PTL DEF ESpec

\* Whatever appends overtake each other, and whenever a write fails, an answer is lost or
\* the process dies: one event of an emission but after a trim that was not audited, one
\* of a guarded fact, none of them older than one before it unless the clock was set back,
\* and nothing is told that is not logged.
LEMMA LoggedOnce ==
  ASSUME DInv
  PROVE  ToldOnce
<1>1. Cardinality({e \in ToSet(appended) : e.of \in Guarded}) <= 1
  <2> DEFINE G == {e \in ToSet(appended) : e.of \in Guarded}
  <2>1. CASE G = {}
    BY <2>1, FS_EmptySet
  <2>2. CASE G # {}
    <3>1. PICK e \in G : TRUE
      BY <2>2
    <3>2. G = {e}
      BY <3>1 DEF DInv, Written
    <3> QED
      BY <3>2, FS_Singleton, SMTT(40)
  <2> QED
    BY <2>1, <2>2
<1> QED
  BY <1>1 DEF DInv, Written, Receipts, ToldOnce

------------------------------------------------------------------------------
(***************************************************************************)
(* The order of the queue.                                                 *)
(***************************************************************************)
\* Whatever waits behind what is newer, or is under way behind it, came late.
InTurn ==
  /\ pass.phase = "idle" => pass.file = NoFile
  /\ \A f \in Pending : Overtaken(f.event) => f.event \in late
  /\ pass.phase # "idle" =>
       \A e \in ToSet(received) : pass.file.event.at < e.at => pass.file.event \in late
  /\ OnlyLateOvertaken

\* What is in the queue, under way or received is of a time.
LEMMA TimesOfQueue ==
  ASSUME DInv, InTurn
  PROVE  /\ \A f \in queue : f \in File /\ f.event.at \in Nat
         /\ pass.file.event.at \in Nat
         /\ pass.phase # "idle" => pass.file.event \in LogEvent
         /\ \A e \in ToSet(received) : e.at \in Nat
<1>1. \A e \in LogEvent : e.at \in Nat
  BY DEF LogEvent
<1>2. \A f \in File : f.event \in LogEvent
  BY DEF File
<1>3. queue \subseteq File /\ ToSet(received) \subseteq ToSet(appended)
  BY DEF DInv, DTyped, Receipts
<1>4. pass.phase # "idle" => pass.file.event \in LogEvent
  BY <1>2 DEF DInv, Receipts
<1>5. NoFile.event.at = 0
  BY DEF NoFile, NoEvent
<1> QED
  BY <1>1, <1>2, <1>3, <1>4, <1>5, EventsOfLog DEF InTurn

\* An event that is enqueued behind a newer one is late.
LEMMA EnqueueInTurn ==
  ASSUME DInv, InTurn, NEW m \in Emission, Enqueue(m)
  PROVE  InTurn'
<1> DEFINE e == emission[m].event
<1>1. UNCHANGED <<pass, received>> /\ late \subseteq late'
  BY DEF Enqueue
<1>2. \A f \in Pending' : f \in Pending \/ (f.event = e /\ (Overtaken(e) => e \in late'))
  BY DEF Enqueue, Pending
<1>3. \A f \in Pending' : Overtaken(f.event)' => f.event \in late'
  BY <1>1, <1>2 DEF InTurn, Overtaken
<1> HIDE DEF e
<1> QED
  BY <1>1, <1>3 DEF InTurn, OnlyLateOvertaken

\* The oldest of those that wait is taken, so nothing that waits is overtaken by it.
LEMMA ScanInTurn ==
  ASSUME DInv, InTurn, Scan
  PROVE  InTurn'
<1>1. PICK f \in Heads : pass' = [phase |-> "sending", file |-> f]
  BY DEF Scan
<1>2. UNCHANGED <<queue, received, late>> /\ pass'.phase = "sending" /\ pass'.file = f
  BY <1>1 DEF Scan
<1>3. f \in Pending /\ \A g \in Pending : f.event.at <= g.event.at
  BY <1>1 DEF Heads, Oldest
<1>4. \A g \in Pending : g \in queue
  BY DEF Pending
<1>5. ASSUME NEW g \in Pending, \E e \in ToSet(received) \cup {f.event} : g.event.at < e.at
      PROVE  g.event \in late
  <2>1. \E e \in ToSet(received) : g.event.at < e.at
    BY <1>3, <1>4, <1>5, TimesOfQueue
  <2> QED
    BY <2>1 DEF InTurn, Overtaken
<1>6. ASSUME NEW e \in ToSet(received), f.event.at < e.at PROVE f.event \in late
  BY <1>3, <1>6 DEF InTurn, Overtaken
<1> QED
  BY <1>2, <1>5, <1>6 DEF InTurn, Overtaken, Pending, OnlyLateOvertaken

\* What is received has been under way: it is behind a newer one only if it was late.
LEMMA SendInTurn ==
  ASSUME DInv, InTurn, Send
  PROVE  InTurn'
<1> DEFINE e == pass.file.event
<1>1. /\ pass.phase = "sending" /\ UNCHANGED <<queue, late>>
      /\ pass'.phase \in {"recording", "failing"} /\ pass'.file = pass.file
      /\ received' \in {received, Append(received, e)}
  BY DEF Send, Step
<1>2. e \in LogEvent /\ received \in Seq(LogEvent) /\ e.at \in Nat
  BY <1>1, TimesOfQueue DEF DInv, DTyped
<1>3. CASE received' = received
  BY <1>1, <1>3 DEF InTurn, Overtaken, Pending, OnlyLateOvertaken
<1>4. CASE received' = Append(received, e)
  <2>1. /\ ToSet(received') = ToSet(received) \cup {e}
        /\ Len(received') = Len(received) + 1 /\ Len(received) \in Nat
        /\ \A i \in 1..Len(received) : received'[i] = received[i] /\ received[i] \in ToSet(received)
        /\ received'[Len(received) + 1] = e
    BY <1>2, <1>4, ToSetAppends, LenProperties, SMTT(40) DEF ToSet
  <2>2. \A f \in Pending' : Overtaken(f.event)' => f.event \in late'
    <3>1. ToSet(received') \cup {e} = ToSet(received) \cup {e}
      BY <2>1
    <3>2. Pending' = Pending
      BY <1>1 DEF Pending
    <3> QED
      BY <1>1, <3>1, <3>2 DEF InTurn, Overtaken
  <2>3. \A d \in ToSet(received) : e.at < d.at => e \in late
    BY <1>1 DEF InTurn
  <2>4. \A d \in ToSet(received') : e.at < d.at => e \in late
    BY <1>2, <2>1, <2>3
  <2>5. OnlyLateOvertaken'
    <3> SUFFICES ASSUME NEW i \in 1..Len(received'), NEW j \in 1..Len(received'),
                        i < j, received'[j].at < received'[i].at
                 PROVE  received'[j] \in late
      BY <1>1 DEF OnlyLateOvertaken
    <3>1. i \in 1..Len(received)
      BY <2>1
    <3>2. CASE j \in 1..Len(received)
      BY <2>1, <3>1, <3>2 DEF InTurn, OnlyLateOvertaken
    <3>3. CASE j = Len(received) + 1
      BY <2>1, <2>3, <3>1, <3>3
    <3> QED
      BY <2>1, <3>2, <3>3
  <2> QED
    BY <1>1, <2>2, <2>4, <2>5 DEF InTurn
<1> QED
  BY <1>1, <1>3, <1>4

\* A step that receives nothing, and leaves in the queue what has been there, or puts back
\* what was under way: the pass goes on, or ends.
LEMMA RestInTurn ==
  ASSUME DInv, InTurn, UNCHANGED <<received, late>>,
         \A f \in Pending' : \/ \E g \in Pending : f.event = g.event
                             \/ f.event = pass.file.event /\ pass.phase # "idle" /\ pass'.file = NoFile,
         \/ pass'.file = pass.file /\ (pass'.phase = "idle" <=> pass.phase = "idle")
         \/ pass' = [phase |-> "idle", file |-> NoFile]
  PROVE  InTurn'
<1>1. \A f \in Pending' : Overtaken(f.event)' => f.event \in late'
  <2> SUFFICES ASSUME NEW f \in Pending', NEW e \in ToSet(received) \cup {pass'.file.event},
                      f.event.at < e.at
               PROVE  f.event \in late
    BY DEF Overtaken
  <2>1. NoFile.event.at = 0
    BY DEF NoFile, NoEvent
  <2>2. CASE \E g \in Pending : f.event = g.event
    <3>1. PICK g \in Pending : f.event = g.event
      BY <2>2
    <3>2. g.event.at \in Nat
      BY TimesOfQueue DEF Pending
    <3>3. e \in ToSet(received) \cup {pass.file.event}
      BY <2>1, <3>1, <3>2
    <3> QED
      BY <3>1, <3>3 DEF InTurn, Overtaken
  <2>3. CASE f.event = pass.file.event /\ pass.phase # "idle" /\ pass'.file = NoFile
    <3>1. f.event.at \in Nat
      BY <2>3, TimesOfQueue
    <3>2. e \in ToSet(received)
      BY <2>1, <2>3, <3>1
    <3> QED
      BY <2>3, <3>2 DEF InTurn
  <2> QED
    BY <2>2, <2>3
<1> QED
  BY <1>1 DEF InTurn, OnlyLateOvertaken

LEMMA TakenInTurn ==
  ASSUME DInv, InTurn, Record \/ RemoveFile \/ Failed \/ Elapse \/ Prune \/ Crash
  PROVE  InTurn'
<1>1. UNCHANGED <<received, late>>
  BY DEF Record, RemoveFile, Failed, Elapse, Prune, Crash
<1>2. \/ pass'.file = pass.file /\ (pass'.phase = "idle" <=> pass.phase = "idle")
      \/ pass' = [phase |-> "idle", file |-> NoFile]
  BY DEF Record, RemoveFile, Failed, Elapse, Prune, Crash, Step
<1>3. \A f \in Pending' : \/ \E g \in Pending : f.event = g.event
                          \/ f.event = pass.file.event /\ pass.phase # "idle" /\ pass'.file = NoFile
  <2>1. CASE Record \/ RemoveFile \/ Prune \/ Crash
    <3>1. queue' \subseteq queue
      BY <2>1 DEF Record, RemoveFile, Prune, Crash
    <3> QED
      BY <3>1 DEF Pending
  <2>2. CASE Elapse
    <3>1. PICK g \in Pending : queue' = (queue \ {g}) \cup {[g EXCEPT !.due = TRUE]}
      BY <2>2 DEF Elapse
    <3>2. g \in File
      BY <3>1 DEF Pending, DInv, DTyped
    <3>3. [g EXCEPT !.due = TRUE].event = g.event
      BY <3>2 DEF File
    <3> QED
      BY <3>1, <3>3 DEF Pending
  <2>3. CASE Failed
    <3>1. /\ pass.phase = "failing" /\ pass'.file = NoFile
          /\ queue' \subseteq queue \cup {Rewritten(pass.file)}
      BY <2>3 DEF Failed, Step
    <3>2. Rewritten(pass.file).event = pass.file.event
      <4>1. pass.file \in File
        BY <3>1 DEF DInv, Receipts
      <4> QED
        BY <4>1 DEF Rewritten, File
    <3> QED
      BY <3>1, <3>2 DEF Pending
  <2> QED
    BY <2>1, <2>2, <2>3
<1> QED
  BY <1>1, <1>2, <1>3, RestInTurn

\* Whatever fails, waits, is tried again, given up or lost in a crash: the receiver gets an
\* event behind a newer one only if it was not in the queue when that one was taken.
THEOREM QueueReordersNothing == ESpec => []OnlyLateOvertaken
<1>1. EInit => InTurn
  <2> SUFFICES ASSUME EInit PROVE InTurn
    OBVIOUS
  <2>1. queue = {} /\ received = <<>> /\ pass = [phase |-> "idle", file |-> NoFile]
    BY DEF EInit
  <2>2. Len(<<>>) = 0
    BY EmptySeq
  <2> QED
    BY <2>1, <2>2 DEF InTurn, Pending, OnlyLateOvertaken
<1>2. DInv /\ InTurn /\ [ENext]_evars => InTurn'
  <2> SUFFICES ASSUME DInv, InTurn, [ENext]_evars PROVE InTurn'
    OBVIOUS
  <2>1. CASE UNCHANGED Webhook
    BY <2>1 DEF Webhook, InTurn, Pending, Overtaken, OnlyLateOvertaken
  <2>2. ASSUME NEW m \in Emission, FreshRead(m) \/ Update(m) \/ AuditTrim(m) \/ Enqueue(m)
        PROVE  InTurn'
    BY <2>1, <2>2, EnqueueInTurn DEF FreshRead, Update, AuditTrim
  <2>3. CASE Deliver \/ Elapse \/ Prune \/ Crash
    BY <2>3, ScanInTurn, SendInTurn, TakenInTurn DEF Deliver
  <2>4. CASE ClockMoves \/ UNCHANGED evars
    BY <2>1, <2>4 DEF ClockMoves, evars, Webhook
  <2> QED
    BY <2>2, <2>3, <2>4 DEF ENext
<1>3. InTurn => OnlyLateOvertaken
  BY DEF InTurn
<1> QED
  BY <1>1, <1>2, <1>3, DeliveryInvariant, PTL DEF ESpec

\* Nothing is told twice, nothing that is not logged, and what is in the queue in its
\* order, whatever overtakes, fails, is lost or dies.
THEOREM NothingToldTwice == ESpec => []ToldOnceInOrder
<1>1. DInv /\ OnlyLateOvertaken => ToldOnceInOrder
  BY LoggedOnce DEF ToldOnceInOrder
<1> QED
  BY <1>1, DeliveryInvariant, QueueReordersNothing, PTL

==============================================================================
