---------------------------- MODULE Services_proofs ----------------------------
(***************************************************************************)
(* The services around an envelope: its creation, the signing gateway and  *)
(* the audit chain.                                                        *)
(***************************************************************************)
EXTENDS EnvelopeCreation, Gateway, GatewayAuth, AuditChain, SequenceTheorems, FiniteSetTheorems,
        WellFoundedInduction, TLAPS

(***************************************************************************)
(* That nobody signs an envelope whose row does not yet ask what was asked *)
(* of create, and that create's answer is true, for any calls, requests    *)
(* and configurations.  The argument is the order of create's writes: the  *)
(* links leave last, when policy and strangers are in the row and the      *)
(* audit log (Held), and nobody who writes to the row takes them out.      *)
(***************************************************************************)

Stages == {"asked", "checked", "policy", "strangers", "auditing", "links", "delivering", "audit",
           "emit", "answered", "refused", "failed", "died"}
Before == {"asked", "checked", "policy", "strangers", "auditing", "links"}

CallType == [at: Stages, req: Requests, rev: Nat, strangers: SUBSET Nat, receipts: Seq(BOOLEAN)]
RowType  == [there: BOOLEAN, rev: Nat, open: BOOLEAN, level: Level,
             pins: {<<>>} \cup {Pins(r) : r \in Requests}, strangers: SUBSET Nat, links: BOOLEAN]

Typed ==
  /\ setting \in Settings
  /\ hits \in Nat
  /\ call \in [Call -> CallType]
  /\ stored \in [Call -> RowType]
  /\ mailbox \subseteq Call \X Nat
  /\ session = [c \in Call |-> session[c]]
  /\ journal \subseteq [call: Call, what: {"stranger", "created"}, of: SUBSET Nat]
  /\ \A s \in coming \cup signed :
       s.call \in Call /\ s.place \in Nat /\ s.level \in Level /\ s.asked \in BOOLEAN

\* What the row asks of the signers, and says of those the registry does not know.
Policed(c, w) == NeedsPolicy(c) => w.level = Effective(c) /\ w.pins = Pins(call[c].req)
Named(v, w) == v.strangers \subseteq w.strangers
Audited(c, v, entries) ==
  \A i \in v.strangers : [call |-> c, what |-> "stranger", of |-> {i}] \in entries
Held(c, v, w, entries) == Policed(c, w) /\ Named(v, w) /\ Audited(c, v, entries)

Failed(v) == {p \in 1..Len(v.receipts) : ~v.receipts[p]}

\* What is true of call c, whose record is v, row is w and connection is z, when box and
\* entries are the links that have arrived and the audit log.
FineOf(c, v, w, z, box, entries) ==
  /\ v.at \in Before => v.receipts = <<>> /\ \A p \in Nat : LinkTo(c, p) \notin box
  /\ v.at \in (Before \ {"asked"}) \cup {"delivering"} => v.req.signers # 0
  /\ v.at \in {"strangers", "auditing", "links"} => Policed(c, w)
  /\ v.at \in {"auditing", "links"} => Named(v, w)
  /\ v.at = "links" => Audited(c, v, entries)
  /\ v.at \in {"delivering", "audit", "emit", "answered"} => Held(c, v, w, entries)
  /\ \A p \in Nat : LinkTo(c, p) \in box => Held(c, v, w, entries)
  /\ v.at = "delivering" => Len(v.receipts) < v.req.signers
  /\ v.at \in {"audit", "emit", "answered"} => Len(v.receipts) = v.req.signers
  /\ \A p \in 1..Len(v.receipts) : v.receipts[p] => LinkTo(c, p) \in box
  /\ v.at \in {"emit", "answered"} => [call |-> c, what |-> "created", of |-> Failed(v)] \in entries
  /\ z # Closed => v.at = "delivering" /\ setting.channel = "smtp"

Fine(c) == FineOf(c, call[c], stored[c], session[c], mailbox, journal)

\* What a signature has met, of what was asked of the call.
Wanted(c) == IF call[c].req.level = "none" THEN setting.floor ELSE call[c].req.level
Met(s) ==
  /\ Rank(s.level) >= Rank(setting.floor)
  /\ Rank(s.level) >= Rank(Wanted(s.call))
  /\ Wanted(s.call) # "none" => Pins(call[s.call].req)[s.place] \in {"none", s.uuaid}

Came(s) == LinkTo(s.call, s.place) \in mailbox /\ (s.asked => Met(s))

\* Others go before this signer.
Later(s) ==
  \E q \in 1..call[s.call].req.signers :
    call[s.call].req.order[q] < call[s.call].req.order[s.place]

\* Who comes without being asked either has to wait, or will not sign any more.
Signatures ==
  /\ \A s \in signed : Came(s) /\ (~s.asked => Later(s))
  /\ \A s \in coming :
       Came(s) /\ (~s.asked => Later(s) \/ ~stored[s.call].open \/ HasSigned(s.call, s.place))

\* The inductive invariant.
Creation == Typed /\ (\A c \in Call : Fine(c)) /\ Signatures

------------------------------------------------------------------------------
(***************************************************************************)
(* The levels, the refusals and the types.                                 *)
(***************************************************************************)
\* IDENTITY_LEVEL_ORDER.
LEMMA RankOf ==
  /\ Level = {"none", "L0", "L1", "L1p", "L2"}
  /\ Rank("none") = 1 /\ \A l \in Level : Rank(l) \in 1..5 /\ (Rank(l) = 1 => l = "none")
<1>1. Level = {"none", "L0", "L1", "L1p", "L2"}
  BY DEF Level, Levels
<1>2. \A i \in 1..5 : Rank(Levels[i]) = i
  BY DEF Rank, Levels
<1>3. /\ Rank("none") = 1 /\ Rank("L0") = 2 /\ Rank("L1") = 3 /\ Rank("L1p") = 4
      /\ Rank("L2") = 5
  BY <1>2 DEF Levels
<1> QED
  BY <1>1, <1>3

\* A request that is let through has a signer.
LEMMA SomeSigner == ASSUME NEW c \in Call, Refusal(c) = "ok" PROVE call[c].req.signers # 0
<1> DEFINE r == call[c].req
           needsRegistry == Effective(c) = "L2"
           g1 == <<r.signers = 0, "noSigners">>
           gates == <<
             g1,
             <<r.signers > setting.maxSigners,                    "tooMany">>,
             <<r.source \in {"both", "neither"},                  "exactlyOne">>,
             <<r.source \in {"unreadable", "notPdf"},             "document">>,
             <<~r.fits,                                           "tooLarge">>,
             <<needsRegistry /\ setting.registry = "none",        "noRegistry">>,
             <<needsRegistry /\ setting.registry # "pinned",      "noRegistryKey">>,
             <<\E i \in 1..Len(r.pins) : ~r.pins[i].wellFormed \/ r.pins[i].place > r.signers, "badPin">>,
             <<r.pillar # r.derives,                              "badPillar">> >>
           failing == {i \in 1..Len(gates) : gates[i][1]}
           first == CHOOSE i \in failing : \A j \in failing : i <= j
<1>1. First(gates) = "ok"
  BY Zenon DEF Refusal
<1>2. gates[1] = g1 /\ Len(gates) = 9 /\ g1[2] = "noSigners"
  OBVIOUS
<1> HIDE DEF gates, g1
<1>3. ASSUME g1[1] PROVE FALSE
  <2>1. 1 \in failing /\ \A j \in failing : 1 <= j
    BY <1>2, <1>3
  <2>2. first \in failing /\ first <= 1 /\ 1 <= first
    BY <2>1, SMTT(40)
  <2>3. first = 1
    BY <1>2, <2>2
  <2>4. First(gates) = gates[first][2]
    BY <2>1 DEF First
  <2> QED
    BY <1>1, <1>2, <2>3, <2>4
<1> QED
  BY <1>3, Zenon DEF g1

LEMMA EffectiveLevel ==
  ASSUME Typed, NEW c \in Call
  PROVE  /\ setting.floor \in Level /\ call[c].req.level \in Level
         /\ Effective(c) \in {setting.floor, call[c].req.level}
BY CreationAssumption DEF Typed, CallType, Effective, Raised

LEMMA EmptyRow == NoStored \in RowType
BY RankOf DEF NoStored, RowType

\* A policy is only asked of the row when there is one, and it is what was asked for.
LEMMA PolicyMet ==
  ASSUME Typed, NEW c \in Call, NEW w \in RowType, Policed(c, w),
         NEW p \in 1..call[c].req.signers, NEW proof \in Shown, Admitted(w, p, proof)
  PROVE  /\ Rank(proof.level) >= Rank(setting.floor)
         /\ Rank(proof.level) >= Rank(Wanted(c))
         /\ Wanted(c) # "none" => Pins(call[c].req)[p] \in {"none", proof.uuaid}
<1>1. /\ setting.floor \in Level /\ call[c].req.level \in Level /\ proof.level \in Level
      /\ Effective(c) = Raised(setting.floor, call[c].req.level)
  BY EffectiveLevel, CreationAssumption DEF Effective
<1>2. CASE Effective(c) = "none"
  <2>1. setting.floor = "none" /\ call[c].req.level = "none"
    BY <1>1, <1>2, RankOf DEF Raised
  <2> QED
    BY <1>1, <2>1, RankOf DEF Wanted
<1>3. CASE Effective(c) # "none"
  <2>1. w.level = Effective(c) /\ w.pins = Pins(call[c].req)
    BY <1>3 DEF Policed, NeedsPolicy
  <2>2. Rank(proof.level) >= Rank(Effective(c)) /\ w.pins[p] \in {"none", proof.uuaid}
    BY <1>3, <2>1 DEF Admitted
  <2>3. /\ Rank(Effective(c)) >= Rank(setting.floor) /\ Effective(c) \in Level
        /\ Rank(Effective(c)) >= Rank(call[c].req.level)
    BY <1>1, RankOf DEF Raised
  <2>4. /\ Rank(proof.level) \in 1..5 /\ Rank(setting.floor) \in 1..5
        /\ Rank(Effective(c)) \in 1..5 /\ Rank(call[c].req.level) \in 1..5
    BY <1>1, <2>3, RankOf
  <2>5. /\ Rank(proof.level) >= Rank(setting.floor)
        /\ Rank(proof.level) >= Rank(call[c].req.level)
    BY <2>2, <2>3, <2>4
  <2> QED
    BY <2>1, <2>2, <2>5 DEF Wanted
<1> QED
  BY <1>2, <1>3

------------------------------------------------------------------------------
(***************************************************************************)
(* What a step of one call leaves alone.                                   *)
(***************************************************************************)
Journal == [call: Call, what: {"stranger", "created"}, of: SUBSET Nat]

\* Other calls do not notice.
LEMMA FineStep ==
  ASSUME Creation, NEW c \in Call, NEW v \in CallType, NEW w \in RowType,
         UNCHANGED setting, v.req = call[c].req,
         call' = [call EXCEPT ![c] = v], stored' = [stored EXCEPT ![c] = w],
         \A d \in Call \ {c} : session'[d] = session[d],
         \A d \in Call \ {c}, p \in Nat : LinkTo(d, p) \in mailbox' <=> LinkTo(d, p) \in mailbox,
         journal \subseteq journal',
         FineOf(c, v, w, session'[c], mailbox', journal')
  PROVE  /\ \A d \in Call : Fine(d)'
         /\ call' \in [Call -> CallType] /\ stored' \in [Call -> RowType]
         /\ \A d \in Call : call'[d].req = call[d].req
<1>1. call \in [Call -> CallType] /\ stored \in [Call -> RowType]
  BY DEF Creation, Typed
<1>2. \A d \in Call : /\ call'[d] = IF d = c THEN v ELSE call[d]
                      /\ stored'[d] = IF d = c THEN w ELSE stored[d]
  BY <1>1
<1>3. \A d \in Call : call'[d].req = call[d].req
  BY <1>2
<1>4. \A d \in Call, u \in RowType : Policed(d, u) => Policed(d, u)'
  BY <1>3 DEF Policed, NeedsPolicy, Effective
<1>5. \A d \in Call, x \in CallType, u \in RowType :
        Held(d, x, u, journal') => Held(d, x, u, journal)'
  BY <1>4 DEF Held, Named, Audited
<1>6. Fine(c)'
  BY <1>2, <1>4, <1>5 DEF Fine, FineOf, Named, Audited, LinkTo
<1>7. ASSUME NEW d \in Call, d # c PROVE Fine(d)'
  <2>1. /\ call'[d] = call[d] /\ stored'[d] = stored[d] /\ session'[d] = session[d]
        /\ call[d] \in CallType /\ stored[d] \in RowType
        /\ \A p \in Nat : LinkTo(d, p) \in mailbox' <=> LinkTo(d, p) \in mailbox
    BY <1>1, <1>2, <1>7
  <2>2. Held(d, call[d], stored[d], journal) => Held(d, call[d], stored[d], journal')
    BY DEF Held, Audited
  <2>3. Audited(d, call[d], journal) => Audited(d, call[d], journal')
    BY DEF Audited
  <2>4. \A p \in 1..Len(call[d].receipts) : LinkTo(d, p) \in mailbox => LinkTo(d, p) \in mailbox'
    BY <2>1 DEF CallType
  <2>5. Fine(d)
    BY DEF Creation
  <2>6. FineOf(d, call[d], stored[d], session[d], mailbox', journal')
    BY <2>1, <2>2, <2>3, <2>4, <2>5 DEF Fine, FineOf
  <2> QED
    BY <2>1, <2>6, <1>4, <1>5 DEF Fine, FineOf, Named, Audited, LinkTo
<1> QED
  BY <1>1, <1>3, <1>6, <1>7

\* What leaves the calls and what they wrote alone leaves them in order.
LEMMA StillFine ==
  ASSUME Creation, UNCHANGED <<setting, call, stored, mailbox, session, journal>>
  PROVE  \A c \in Call : Fine(c)'
BY ZenonT(60) DEF Creation, Fine, FineOf, Policed, NeedsPolicy, Effective, Named, Audited, Held

\* Nor do the signatures, as what was asked of a call does not change.
LEMMA CallStep ==
  ASSUME Creation, NEW c \in Call, NEW v \in CallType, NEW w \in RowType,
         UNCHANGED <<setting, coming, signed>>, v.req = call[c].req,
         call' = [call EXCEPT ![c] = v], stored' = [stored EXCEPT ![c] = w],
         session' = [session EXCEPT ![c] = session'[c]],
         hits' \in Nat,
         mailbox \subseteq mailbox', mailbox' \subseteq mailbox \cup ({c} \X Nat),
         journal \subseteq journal', journal' \subseteq Journal,
         w.open => stored[c].open \/ \A p \in Nat : LinkTo(c, p) \notin mailbox,
         FineOf(c, v, w, session'[c], mailbox', journal')
  PROVE  Creation'
<1>1. \A d \in Call \ {c} : session'[d] = session[d]
  BY DEF Creation, Typed
<1>2. \A d \in Call \ {c}, p \in Nat : LinkTo(d, p) \in mailbox' <=> LinkTo(d, p) \in mailbox
  BY DEF LinkTo
<1>3. /\ \A d \in Call : Fine(d)'
      /\ call' \in [Call -> CallType] /\ stored' \in [Call -> RowType]
      /\ \A d \in Call : call'[d].req = call[d].req
  BY <1>1, <1>2, FineStep
<1>4. Typed'
  <2>1. session' = [d \in Call |-> session'[d]]
    BY DEF Creation, Typed
  <2>2. mailbox' \subseteq Call \X Nat
    BY DEF Creation, Typed
  <2> QED
    BY <1>3, <2>1, <2>2 DEF Creation, Typed, Journal
<1>5. Signatures'
  <2>1. \A s \in coming \cup signed : (Came(s) => Came(s)') /\ (Later(s) => Later(s)')
    BY <1>3 DEF Creation, Typed, Came, Met, Wanted, Later
  <2>2. \A s \in coming : stored'[s.call].open => stored[s.call].open
    <3> SUFFICES ASSUME NEW s \in coming, stored'[s.call].open PROVE stored[s.call].open
      OBVIOUS
    <3>1. s.call \in Call /\ s.place \in Nat /\ LinkTo(s.call, s.place) \in mailbox
      BY DEF Creation, Typed, Signatures, Came
    <3>2. stored'[s.call] = IF s.call = c THEN w ELSE stored[s.call]
      BY <3>1 DEF Creation, Typed
    <3> QED
      BY <3>1, <3>2
  <2>3. \A d, p : HasSigned(d, p)' <=> HasSigned(d, p)
    BY DEF HasSigned
  <2> QED
    BY <2>1, <2>2, <2>3 DEF Creation, Signatures
<1> QED
  BY <1>3, <1>4, <1>5 DEF Creation

\* A step that only moves the call on, between two stages of which the same is true.
LEMMA CallOnly ==
  ASSUME Creation, NEW c \in Call, NEW v \in CallType,
         UNCHANGED <<setting, stored, mailbox, session, journal, coming, signed>>, hits' \in Nat,
         v.req = call[c].req, call' = [call EXCEPT ![c] = v],
         FineOf(c, v, stored[c], session[c], mailbox, journal)
  PROVE  Creation'
<1>1. stored[c] \in RowType /\ stored' = [stored EXCEPT ![c] = stored[c]]
  BY DEF Creation, Typed
<1>2. session' = [session EXCEPT ![c] = session'[c]]
  BY DEF Creation, Typed
<1>3. journal' \subseteq Journal
  BY DEF Creation, Typed, Journal
<1> QED
  BY <1>1, <1>2, <1>3, CallStep

\* What a row asks and names, and where a call is, is all that is entries of them.
LEMMA SameFine ==
  ASSUME NEW c \in Call, NEW v \in CallType, NEW u \in CallType,
         NEW w \in RowType, NEW x \in RowType, NEW z, NEW box, NEW entries,
         u.at = v.at, u.req = v.req, u.strangers = v.strangers, u.receipts = v.receipts,
         x.level = w.level, x.pins = w.pins, x.strangers = w.strangers,
         FineOf(c, v, w, z, box, entries)
  PROVE  FineOf(c, u, x, z, box, entries)
<1>1. Policed(c, w) => Policed(c, x)
  BY DEF Policed
<1>2. Held(c, v, w, entries) => Held(c, u, x, entries)
  BY <1>1 DEF Held, Named, Audited
<1>3. Failed(u) = Failed(v)
  BY DEF Failed
<1> QED
  BY <1>1, <1>2, <1>3 DEF FineOf, Named, Audited

\* GoesTo.
LEMMA Gone ==
  ASSUME Creation, NEW c \in Call, NEW at \in Stages
  PROVE  /\ [call[c] EXCEPT !.at = at] \in CallType
         /\ [call[c] EXCEPT !.at = at].at = at
         /\ [call[c] EXCEPT !.at = at].req = call[c].req
         /\ [call[c] EXCEPT !.at = at].strangers = call[c].strangers
         /\ [call[c] EXCEPT !.at = at].receipts = call[c].receipts
         /\ GoesTo(c, at) => call' = [call EXCEPT ![c] = [call[c] EXCEPT !.at = at]]
<1>1. call \in [Call -> CallType] /\ call[c] \in CallType
  BY DEF Creation, Typed
<1> QED
  BY <1>1 DEF CallType, GoesTo

\* A call that is refused or fails before it has sent anything, or without a connection.
LEMMA Over ==
  ASSUME Creation, NEW c \in Call, NEW v \in CallType, v.at \in {"refused", "failed", "died"},
         v.req = call[c].req, v.strangers = call[c].strangers, v.receipts = call[c].receipts
  PROVE  FineOf(c, v, stored[c], Closed, mailbox, journal)
<1>1. Fine(c)
  BY DEF Creation
<1> QED
  BY <1>1 DEF Fine, FineOf, Held, Named, Audited, Before

LEMMA CallEnds ==
  ASSUME Creation, NEW c \in Call, NEW at \in {"refused", "failed"}, GoesTo(c, at),
         call[c].at # "delivering", hits' \in Nat,
         UNCHANGED <<setting, stored, mailbox, session, journal, coming, signed>>
  PROVE  Creation'
<1> DEFINE v == [call[c] EXCEPT !.at = at]
<1>1. at \in Stages
  BY DEF Stages
<1>2. /\ v \in CallType /\ v.at = at /\ v.req = call[c].req
      /\ v.strangers = call[c].strangers /\ v.receipts = call[c].receipts
      /\ call' = [call EXCEPT ![c] = v]
  BY <1>1, Gone
<1> HIDE DEF v
<1>3. session[c] = Closed
  BY DEF Creation, Fine, FineOf
<1>4. FineOf(c, v, stored[c], session[c], mailbox, journal)
  BY <1>2, <1>3, Over
<1> QED
  BY <1>2, <1>4, CallOnly

\* A compare-and-swap of the row, or its failure.
LEMMA SwapStep ==
  ASSUME Creation, NEW c \in Call, NEW row \in RowType, NEW next \in Stages,
         Swap(c, row, next), call[c].at \in {"policy", "strangers", "links"},
         UNCHANGED <<setting, hits, mailbox, session, journal, coming, signed>>,
         FineOf(c, [call[c] EXCEPT !.at = next], row, session[c], mailbox, journal)
  PROVE  Creation'
<1>1. /\ call \in [Call -> CallType] /\ call[c] \in CallType /\ hits \in Nat
      /\ stored \in [Call -> RowType] /\ mailbox \subseteq Call \X Nat
      /\ session' = [session EXCEPT ![c] = session'[c]] /\ journal \subseteq Journal
      /\ call[c].at # "delivering" /\ \A p \in Nat : LinkTo(c, p) \notin mailbox
  BY DEF Creation, Typed, Journal, Fine, FineOf, Before
<1>2. CASE /\ stored' = [stored EXCEPT ![c] = [row EXCEPT !.rev = @ + 1]]
           /\ call' = [call EXCEPT ![c].at = next, ![c].rev = @ + 1]
  <2> DEFINE u == [call[c] EXCEPT !.at = next]
             v == [call[c] EXCEPT !.at = next, !.rev = @ + 1]
             w == [row EXCEPT !.rev = @ + 1]
  <2>0. call' = [call EXCEPT ![c] = v]
    BY <1>2, Zenon
  <2>1. /\ v \in CallType /\ v.at = next /\ v.req = call[c].req
        /\ v.strangers = call[c].strangers /\ v.receipts = call[c].receipts
    <3>1. call[c].rev + 1 \in Nat
      BY <1>1 DEF CallType
    <3>2. \A n \in Nat : LET x == [call[c] EXCEPT !.at = next, !.rev = n]
                        IN  /\ x \in CallType /\ x.at = next /\ x.req = call[c].req
                            /\ x.strangers = call[c].strangers /\ x.receipts = call[c].receipts
      BY <1>1 DEF CallType
    <3> QED
      BY <3>1, <3>2
  <2>2. /\ w \in RowType /\ w.level = row.level /\ w.pins = row.pins
        /\ w.strangers = row.strangers /\ stored' = [stored EXCEPT ![c] = w]
    BY <1>2 DEF RowType
  <2>3. /\ u \in CallType /\ u.at = next /\ u.req = call[c].req
        /\ u.strangers = call[c].strangers /\ u.receipts = call[c].receipts
        /\ FineOf(c, u, row, session[c], mailbox, journal)
    BY Gone
  <2> HIDE DEF u, v, w
  <2>4. FineOf(c, v, w, session[c], mailbox, journal)
    BY <2>1, <2>2, <2>3, SameFine
  <2> QED
    BY <1>1, <2>0, <2>1, <2>2, <2>4, CallStep
<1>3. CASE GoesTo(c, "failed") /\ UNCHANGED stored
  BY <1>1, <1>3, CallEnds
<1> QED
  BY <1>2, <1>3 DEF Swap

------------------------------------------------------------------------------
(***************************************************************************)
(* One lemma per action: before the links leave.                           *)
(***************************************************************************)
LEMMA RefusesStep == ASSUME Creation, NEW c \in Call, RefusesRequest(c) PROVE Creation'
<1>1. hits' \in Nat
  BY DEF Creation, Typed, RefusesRequest
<1> QED
  BY <1>1, CallEnds DEF RefusesRequest

LEMMA RegistryStep == ASSUME Creation, NEW c \in Call, AsksRegistry(c) PROVE Creation'
<1>1. /\ hits' \in Nat /\ call[c] \in CallType /\ call[c].at = "asked" /\ session[c] = Closed
      /\ call[c].req.pillar \subseteq Nat
  BY CreationAssumption DEF Creation, Typed, CallType, Fine, FineOf, AsksRegistry
<1>2. CASE GoesTo(c, "refused")
  BY <1>1, <1>2, CallEnds DEF AsksRegistry
<1>3. ASSUME NEW who \in SUBSET call[c].req.pillar,
             call' = [call EXCEPT ![c].at = "checked", ![c].strangers = who]
      PROVE  Creation'
  <2> DEFINE v == [call[c] EXCEPT !.at = "checked", !.strangers = who]
  <2>1. /\ v \in CallType /\ v.at = "checked" /\ v.req = call[c].req
        /\ v.receipts = call[c].receipts
    BY <1>1 DEF CallType, Stages
  <2>2. call' = [call EXCEPT ![c] = v]
    BY <1>3, Zenon
  <2> HIDE DEF v
  <2>3. FineOf(c, v, stored[c], session[c], mailbox, journal)
    <3>1. call[c].receipts = <<>> /\ \A p \in Nat : LinkTo(c, p) \notin mailbox
      BY <1>1 DEF Creation, Fine, FineOf, Before
    <3>2. v.req.signers # 0
      BY <2>1, SomeSigner DEF AsksRegistry
    <3> QED
      BY <1>1, <2>1, <3>1, <3>2 DEF FineOf, Before
  <2> QED
    BY <1>1, <2>1, <2>2, <2>3, CallOnly DEF AsksRegistry
<1>4. PICK badge \in [call[c].req.pillar -> {"attests", "missing", "other", "down"}] :
        LET asked == setting.registry = "pinned"
        IN  IF asked /\ \E i \in DOMAIN badge : ~Tolerated(badge[i])
            THEN GoesTo(c, "refused")
            ELSE call' = [call EXCEPT ![c].at = "checked",
                            ![c].strangers = {i \in DOMAIN badge : asked /\ badge[i] = "missing"}]
  BY DEF AsksRegistry
<1>5. \/ GoesTo(c, "refused")
      \/ call' = [call EXCEPT ![c].at = "checked",
           ![c].strangers = {i \in DOMAIN badge : setting.registry = "pinned" /\ badge[i] = "missing"}]
  BY <1>4, Zenon
<1>6. {i \in DOMAIN badge : setting.registry = "pinned" /\ badge[i] = "missing"}
        \in SUBSET call[c].req.pillar
  OBVIOUS
<1> QED
  BY <1>2, <1>3, <1>5, <1>6

LEMMA InsertsStep == ASSUME Creation, NEW c \in Call, InsertsEnvelope(c) PROVE Creation'
<1>1. /\ hits \in Nat /\ hits' \in Nat
      /\ call[c] \in CallType /\ call[c].at = "checked" /\ session[c] = Closed
      /\ stored \in [Call -> RowType]
  <2>1. /\ hits \in Nat /\ call[c] \in CallType /\ stored \in [Call -> RowType]
        /\ setting.perHour \in Nat
    BY CreationAssumption DEF Creation, Typed
  <2>2. call[c].at = "checked" /\ hits' \in {hits, hits + 1}
    BY DEF InsertsEnvelope
  <2>3. session[c] = Closed
    BY <2>2 DEF Creation, Fine, FineOf
  <2> QED
    BY <2>1, <2>2, <2>3
<1>2. CASE (GoesTo(c, "refused") \/ GoesTo(c, "failed")) /\ UNCHANGED stored
  BY <1>1, <1>2, CallEnds DEF InsertsEnvelope
<1>3. CASE /\ stored' = [stored EXCEPT ![c] = [NoStored EXCEPT !.there = TRUE, !.open = TRUE]]
           /\ call' = [call EXCEPT ![c].at = "policy", ![c].rev = 0]
  <2> DEFINE v == [call[c] EXCEPT !.at = "policy", !.rev = 0]
             w == [NoStored EXCEPT !.there = TRUE, !.open = TRUE]
  <2>1. /\ v \in CallType /\ v.at = "policy" /\ v.req = call[c].req
        /\ v.receipts = call[c].receipts /\ v.strangers = call[c].strangers
    BY <1>1 DEF CallType, Stages
  <2>2. w \in RowType
    BY EmptyRow DEF RowType
  <2>3. call' = [call EXCEPT ![c] = v] /\ stored' = [stored EXCEPT ![c] = w]
    BY <1>3, Zenon
  <2> HIDE DEF v, w
  <2>0. /\ call[c].receipts = <<>> /\ \A p \in Nat : LinkTo(c, p) \notin mailbox
        /\ call[c].req.signers # 0
    BY <1>1 DEF Creation, Fine, FineOf, Before
  <2>4. FineOf(c, v, w, session[c], mailbox, journal)
    BY <1>1, <2>0, <2>1 DEF FineOf, Before
  <2>5. /\ session' = [session EXCEPT ![c] = session'[c]] /\ journal' \subseteq Journal
        /\ UNCHANGED <<setting, mailbox, session, journal, coming, signed>>
    BY DEF Creation, Typed, Journal, InsertsEnvelope
  <2>6. FineOf(c, v, w, session'[c], mailbox', journal')
    BY <2>4, <2>5
  <2>7. mailbox \subseteq mailbox' /\ mailbox' \subseteq mailbox \cup ({c} \X Nat) /\ journal \subseteq journal'
    BY <2>5
  <2>8. UNCHANGED <<setting, coming, signed>> /\ hits' \in Nat /\ v.req = call[c].req
    BY <1>1, <2>1, <2>5
  <2> QED
    BY <2>0, <2>1, <2>2, <2>3, <2>5, <2>6, <2>7, <2>8, CallStep
<1> QED
  BY <1>2, <1>3 DEF InsertsEnvelope

LEMMA HourStep == ASSUME Creation, HourPasses PROVE Creation'
<1>1. UNCHANGED <<setting, call, stored, mailbox, session, journal, coming, signed>> /\ hits \in Nat /\ hits' \in Nat
  BY DEF HourPasses, Creation, Typed
<1>2. Typed' /\ Signatures'
  BY <1>1 DEF Creation, Typed, Signatures, Came, Met, Wanted, Later, HasSigned
<1>3. \A c \in Call : Fine(c)'
  BY <1>1, StillFine
<1> QED
  BY <1>2, <1>3 DEF Creation

LEMMA PolicyStep == ASSUME Creation, NEW c \in Call, WritesPolicy(c) PROVE Creation'
<1> DEFINE v == [call[c] EXCEPT !.at = "strangers"]
<1>1. /\ call[c] \in CallType /\ call[c].at = "policy" /\ session[c] = Closed /\ hits \in Nat
      /\ stored[c] \in RowType
      /\ call[c].receipts = <<>> /\ \A p \in Nat : LinkTo(c, p) \notin mailbox
      /\ call[c].req.signers # 0
  BY DEF Creation, Typed, Fine, FineOf, WritesPolicy, Before
<1>2. /\ v \in CallType /\ v.at = "strangers" /\ v.req = call[c].req
      /\ v.receipts = call[c].receipts /\ v.strangers = call[c].strangers
      /\ GoesTo(c, "strangers") => call' = [call EXCEPT ![c] = v]
  BY Gone, ZenonT(60) DEF Stages
<1> HIDE DEF v
<1>3. ASSUME NEW w \in RowType, Policed(c, w) PROVE FineOf(c, v, w, session[c], mailbox, journal)
  BY <1>1, <1>2, <1>3 DEF FineOf, Before
<1>4. CASE NeedsPolicy(c)
  <2> DEFINE row == [stored[c] EXCEPT !.level = Effective(c), !.pins = Pins(call[c].req)]
  <2>1. Effective(c) \in Level /\ call[c].req \in Requests
    BY <1>1, EffectiveLevel DEF Creation, CallType
  <2>2. row \in RowType /\ row.level = Effective(c) /\ row.pins = Pins(call[c].req)
    <3>1. \A l \in Level, m \in {Pins(r) : r \in Requests} :
            LET x == [stored[c] EXCEPT !.level = l, !.pins = m]
            IN  x \in RowType /\ x.level = l /\ x.pins = m
      BY <1>1 DEF RowType
    <3> QED
      BY <2>1, <3>1
  <2>3. Swap(c, row, "strangers")
    BY <1>4 DEF WritesPolicy
  <2> HIDE DEF row
  <2>4. FineOf(c, v, row, session[c], mailbox, journal)
    BY <1>3, <2>2 DEF Policed
  <2>5. "strangers" \in Stages /\ UNCHANGED <<setting, hits, mailbox, session, journal, coming, signed>>
    BY DEF Stages, WritesPolicy
  <2> QED
    BY <1>1, <2>2, <2>3, <2>4, <2>5, SwapStep DEF v
<1>5. CASE ~NeedsPolicy(c)
  <2>1. FineOf(c, v, stored[c], session[c], mailbox, journal)
    BY <1>1, <1>3, <1>5 DEF Policed
  <2> QED
    BY <1>1, <1>2, <1>5, <2>1, CallOnly DEF WritesPolicy
<1> QED
  BY <1>4, <1>5

LEMMA StrangersStep == ASSUME Creation, NEW c \in Call, WritesStrangers(c) PROVE Creation'
<1>1. /\ call[c] \in CallType /\ call[c].at = "strangers" /\ session[c] = Closed /\ hits \in Nat
      /\ stored[c] \in RowType /\ Policed(c, stored[c])
      /\ call[c].receipts = <<>> /\ \A p \in Nat : LinkTo(c, p) \notin mailbox
      /\ call[c].req.signers # 0
  BY DEF Creation, Typed, Fine, FineOf, WritesStrangers, Before
<1>2. CASE call[c].strangers = {}
  <2> DEFINE v == [call[c] EXCEPT !.at = "links"]
  <2>1. /\ v \in CallType /\ v.at = "links" /\ v.req = call[c].req
        /\ v.receipts = call[c].receipts /\ v.strangers = call[c].strangers
        /\ GoesTo(c, "links") => call' = [call EXCEPT ![c] = v]
    BY Gone, ZenonT(60) DEF Stages
  <2> HIDE DEF v
  <2>2. FineOf(c, v, stored[c], session[c], mailbox, journal)
    BY <1>1, <1>2, <2>1 DEF FineOf, Before, Named, Audited
  <2> QED
    BY <1>1, <1>2, <2>1, <2>2, CallOnly DEF WritesStrangers
<1>3. CASE call[c].strangers # {}
  <2> DEFINE v   == [call[c] EXCEPT !.at = "auditing"]
             row == [stored[c] EXCEPT !.strangers = call[c].strangers]
  <2>1. /\ v \in CallType /\ v.at = "auditing" /\ v.req = call[c].req
        /\ v.receipts = call[c].receipts /\ v.strangers = call[c].strangers
    BY Gone, ZenonT(60) DEF Stages
  <2>2. /\ row \in RowType /\ row.strangers = call[c].strangers
        /\ row.level = stored[c].level /\ row.pins = stored[c].pins
    BY <1>1 DEF RowType, CallType
  <2>3. Swap(c, row, "auditing") /\ UNCHANGED <<setting, hits, mailbox, session, journal, coming, signed>>
    BY <1>3 DEF WritesStrangers
  <2> HIDE DEF row, v
  <2>4. FineOf(c, v, row, session[c], mailbox, journal)
    BY <1>1, <2>1, <2>2 DEF FineOf, Before, Named, Policed
  <2>5. "auditing" \in Stages
    BY DEF Stages
  <2> QED
    BY <1>1, <2>2, <2>3, <2>4, <2>5, SwapStep DEF v
<1> QED
  BY <1>2, <1>3

LEMMA AuditsStep == ASSUME Creation, NEW c \in Call, AuditsStrangers(c) PROVE Creation'
<1> DEFINE Told(i) == [call |-> c, what |-> "stranger", of |-> {i}]
           known   == {i \in call[c].strangers : Told(i) \in journal}
<1>1. /\ call[c] \in CallType /\ call[c].at = "auditing" /\ session[c] = Closed /\ hits \in Nat
      /\ stored \in [Call -> RowType] /\ Policed(c, stored[c]) /\ Named(call[c], stored[c])
      /\ call[c].receipts = <<>> /\ \A p \in Nat : LinkTo(c, p) \notin mailbox
      /\ call[c].req.signers # 0
  BY DEF Creation, Typed, Fine, FineOf, AuditsStrangers, Before
<1>2. UNCHANGED <<setting, hits, stored, mailbox, session, coming, signed>>
  BY DEF AuditsStrangers
<1>3. CASE GoesTo(c, "failed") /\ UNCHANGED journal
  BY <1>1, <1>2, <1>3, CallEnds
<1>4. ASSUME NEW i \in call[c].strangers,
             journal' = journal \cup {Told(i)},
             IF known \cup {i} = call[c].strangers THEN GoesTo(c, "links") ELSE UNCHANGED call
      PROVE  Creation'
  <2>1. journal \subseteq journal' /\ journal' \subseteq Journal
    <3>1. Told(i) \in Journal
      BY <1>1 DEF Journal, CallType
    <3> QED
      BY <1>4, <3>1 DEF Creation, Typed, Journal
  <2>2. stored' = [stored EXCEPT ![c] = stored[c]] /\ session' = [session EXCEPT ![c] = session'[c]]
    BY <1>1, <1>2 DEF Creation, Typed
  <2>3. CASE known \cup {i} = call[c].strangers
    <3> DEFINE v == [call[c] EXCEPT !.at = "links"]
    <3>1. /\ v \in CallType /\ v.at = "links" /\ v.req = call[c].req
          /\ v.receipts = call[c].receipts /\ v.strangers = call[c].strangers
          /\ call' = [call EXCEPT ![c] = v]
      BY <1>4, <2>3, Gone, ZenonT(60) DEF Stages
    <3> HIDE DEF v
    <3>2. Audited(c, v, journal')
      BY <1>4, <2>3, <3>1 DEF Audited
    <3>3. FineOf(c, v, stored[c], session'[c], mailbox', journal')
      BY <1>1, <1>2, <3>1, <3>2 DEF FineOf, Before, Named
    <3> QED
      BY <1>1, <1>2, <2>1, <2>2, <3>1, <3>3, CallStep
  <2>4. CASE known \cup {i} # call[c].strangers
    <3>1. call' = [call EXCEPT ![c] = call[c]]
      BY <1>4, <2>4 DEF Creation, Typed
    <3>2. FineOf(c, call[c], stored[c], session'[c], mailbox', journal')
      BY <1>1, <1>2 DEF FineOf, Before
    <3> QED
      BY <1>1, <1>2, <2>1, <2>2, <3>1, <3>2, CallStep
  <2> QED
    BY <2>3, <2>4
<1>5. \/ \E i \in call[c].strangers :
           /\ journal' = journal \cup {Told(i)}
           /\ IF known \cup {i} = call[c].strangers THEN GoesTo(c, "links") ELSE UNCHANGED call
      \/ GoesTo(c, "failed") /\ UNCHANGED journal
  BY DEF AuditsStrangers
<1> QED
  BY <1>3, <1>4, <1>5

LEMMA LinksStep == ASSUME Creation, NEW c \in Call, StoresLinks(c) PROVE Creation'
<1> DEFINE v == [call[c] EXCEPT !.at = "delivering"]
<1>1. /\ call[c] \in CallType /\ call[c].at = "links" /\ session[c] = Closed /\ hits \in Nat
      /\ stored[c] \in RowType /\ Held(c, call[c], stored[c], journal)
      /\ call[c].receipts = <<>> /\ \A p \in Nat : LinkTo(c, p) \notin mailbox
      /\ call[c].req.signers # 0
  BY DEF Creation, Typed, Fine, FineOf, StoresLinks, Before, Held
<1>2. /\ v \in CallType /\ v.at = "delivering" /\ v.req = call[c].req
      /\ v.receipts = call[c].receipts /\ v.strangers = call[c].strangers
      /\ GoesTo(c, "delivering") => call' = [call EXCEPT ![c] = v]
  BY Gone, ZenonT(60) DEF Stages
<1> HIDE DEF v
<1>3. Len(call[c].receipts) < call[c].req.signers
  BY <1>1, CreationAssumption, EmptySeq DEF CallType
<1>4. FineOf(c, v, stored[c], session[c], mailbox, journal)
  BY <1>1, <1>2, <1>3 DEF FineOf, Before, Held, Named, Audited, Policed
<1>5. CASE setting.reminders
  <2> DEFINE row == [stored[c] EXCEPT !.links = TRUE]
  <2>1. /\ row \in RowType /\ row.level = stored[c].level /\ row.pins = stored[c].pins
        /\ row.strangers = stored[c].strangers
    BY <1>1 DEF RowType
  <2>2. Swap(c, row, "delivering") /\ UNCHANGED <<setting, hits, mailbox, session, journal, coming, signed>>
    BY <1>5 DEF StoresLinks
  <2> HIDE DEF row
  <2>3. FineOf(c, v, row, session[c], mailbox, journal)
    BY <1>1, <1>2, <1>4, <2>1, SameFine
  <2>4. "delivering" \in Stages
    BY DEF Stages
  <2> QED
    BY <1>1, <2>1, <2>2, <2>3, <2>4, SwapStep DEF v
<1>6. CASE ~setting.reminders
  BY <1>1, <1>2, <1>4, <1>6, CallOnly DEF StoresLinks
<1> QED
  BY <1>5, <1>6

------------------------------------------------------------------------------
(***************************************************************************)
(* One lemma per action: the links.                                        *)
(***************************************************************************)
\* What is known of a call that delivers.
LEMMA Delivering ==
  ASSUME Creation, NEW c \in Call, call[c].at = "delivering"
  PROVE  /\ call[c] \in CallType /\ stored[c] \in RowType /\ hits \in Nat
         /\ call[c].req.signers \in Nat /\ call[c].req.signers # 0
         /\ call[c].receipts \in Seq(BOOLEAN) /\ Len(call[c].receipts) < call[c].req.signers
         /\ Held(c, call[c], stored[c], journal)
         /\ \A p \in 1..Len(call[c].receipts) : call[c].receipts[p] => LinkTo(c, p) \in mailbox
         /\ session[c] # Closed => setting.channel = "smtp"
         /\ stored = [stored EXCEPT ![c] = stored[c]] /\ journal \subseteq Journal
         /\ setting.channel # "smtp" => session = [session EXCEPT ![c] = Closed]
<1>1. /\ call[c] \in CallType /\ stored[c] \in RowType /\ hits \in Nat /\ journal \subseteq Journal
      /\ stored = [stored EXCEPT ![c] = stored[c]] /\ session = [session EXCEPT ![c] = session[c]]
  BY DEF Creation, Typed, Journal
<1>2. call[c].req.signers \in Nat /\ call[c].receipts \in Seq(BOOLEAN)
  BY <1>1, CreationAssumption DEF CallType
<1>3. /\ Held(c, call[c], stored[c], journal)
      /\ Len(call[c].receipts) < call[c].req.signers /\ call[c].req.signers # 0
      /\ \A p \in 1..Len(call[c].receipts) : call[c].receipts[p] => LinkTo(c, p) \in mailbox
      /\ session[c] # Closed => setting.channel = "smtp"
  BY DEF Creation, Fine, FineOf
<1> QED
  BY <1>1, <1>2, <1>3

\* The receipt of the next signer.
LEMMA ReceiptStep ==
  ASSUME Creation, NEW c \in Call, call[c].at = "delivering",
         NEW ok \in BOOLEAN, NEW arrives \in BOOLEAN, ok => arrives,
         Receives(c, ok, arrives), UNCHANGED <<setting, hits, stored, journal, coming, signed>>,
         session' = [session EXCEPT ![c] = Closed]
  PROVE  Creation'
<1> DEFINE old == call[c].receipts
           at  == IF Place(c) = call[c].req.signers THEN "audit" ELSE call[c].at
           v   == [call[c] EXCEPT !.receipts = Append(old, ok), !.at = at]
<1>1. /\ call[c] \in CallType /\ stored[c] \in RowType /\ hits \in Nat
      /\ call[c].req.signers \in Nat /\ old \in Seq(BOOLEAN) /\ Len(old) < call[c].req.signers
      /\ Held(c, call[c], stored[c], journal)
      /\ \A p \in 1..Len(old) : old[p] => LinkTo(c, p) \in mailbox
      /\ stored = [stored EXCEPT ![c] = stored[c]] /\ journal \subseteq Journal
      /\ call[c].req.signers # 0
  BY Delivering
<1>2. /\ Append(old, ok) \in Seq(BOOLEAN) /\ Len(Append(old, ok)) = Len(old) + 1
      /\ \A p \in 1..Len(old) : Append(old, ok)[p] = old[p]
      /\ Append(old, ok)[Len(old) + 1] = ok
  BY <1>1, AppendProperties
<1>3. /\ v \in CallType /\ v.at = at /\ v.req = call[c].req /\ v.strangers = call[c].strangers
      /\ v.receipts = Append(old, ok)
  <2>1. at \in Stages
    BY DEF Stages
  <2> HIDE DEF at
  <2> QED
    BY <1>1, <1>2, <2>1 DEF CallType
<1>4. call' = [call EXCEPT ![c] = v]
  BY Zenon DEF Receives
<1>5. /\ mailbox \subseteq mailbox' /\ mailbox' \subseteq mailbox \cup ({c} \X Nat)
      /\ arrives => LinkTo(c, Len(old) + 1) \in mailbox'
  BY <1>1 DEF Receives, LinkTo, Place
<1>6. session'[c] = Closed /\ session' = [session EXCEPT ![c] = session'[c]]
  BY DEF Creation, Typed
<1>7. \/ at = "audit" /\ Len(old) + 1 = call[c].req.signers
      \/ at = "delivering" /\ Len(old) + 1 < call[c].req.signers
  BY <1>1 DEF Place
<1> HIDE DEF v, at
<1>8. FineOf(c, v, stored[c], session'[c], mailbox', journal')
  <2>1. \A p \in 1..Len(v.receipts) : v.receipts[p] => LinkTo(c, p) \in mailbox'
    <3> SUFFICES ASSUME NEW p \in 1..Len(old) + 1, Append(old, ok)[p]
                 PROVE  LinkTo(c, p) \in mailbox'
      BY <1>2, <1>3
    <3>1. CASE p = Len(old) + 1
      BY <1>2, <1>5, <3>1
    <3>2. CASE p # Len(old) + 1
      BY <1>1, <1>2, <1>5, <3>2, SMTT(40)
    <3> QED
      BY <3>1, <3>2
  <2>2. Held(c, v, stored[c], journal')
    BY <1>1, <1>3 DEF Held, Named, Audited
  <2> QED
    BY <1>1, <1>2, <1>3, <1>6, <1>7, <2>1, <2>2 DEF FineOf, Before
<1> QED
  BY <1>1, <1>3, <1>4, <1>5, <1>6, <1>8, CallStep

LEMMA FileStep == ASSUME Creation, NEW c \in Call, DeliversFile(c) PROVE Creation'
<1> DEFINE n   == call[c].req.signers
           all == {LinkTo(c, p) : p \in 1..n}
<1>1. call[c].at = "delivering" /\ setting.channel # "smtp"
  BY DEF DeliversFile
<1>2. /\ call[c] \in CallType /\ stored[c] \in RowType /\ hits \in Nat /\ n \in Nat /\ n # 0
      /\ Held(c, call[c], stored[c], journal)
      /\ stored = [stored EXCEPT ![c] = stored[c]] /\ journal \subseteq Journal
      /\ session = [session EXCEPT ![c] = Closed]
      /\ \A p \in 1..Len(call[c].receipts) : call[c].receipts[p] => LinkTo(c, p) \in mailbox
      /\ session[c] = Closed
  BY <1>1, Delivering
<1>3. UNCHANGED <<setting, hits, stored, session, journal, coming, signed>>
  BY DEF DeliversFile
<1>4. all \subseteq {c} \X Nat /\ \A p \in 1..n : LinkTo(c, p) \in all
  BY <1>2 DEF LinkTo
<1>5. CASE /\ mailbox' = mailbox \cup all
           /\ call' = [call EXCEPT ![c].receipts = [p \in 1..n |-> TRUE], ![c].at = "audit"]
  <2> DEFINE new == [p \in 1..n |-> TRUE]
             v   == [call[c] EXCEPT !.receipts = new, !.at = "audit"]
  <2>1. new \in Seq(BOOLEAN) /\ Len(new) = n
    <3>1. n \in Nat /\ new = [p \in 1..n |-> TRUE] /\ new \in [1..n -> BOOLEAN]
      BY <1>2
    <3> HIDE DEF n, new
    <3> QED
      BY <3>1, LenProperties
  <2>2. call' = [call EXCEPT ![c] = v]
    BY <1>5, Zenon
  <2> HIDE DEF new
  <2>3. /\ v \in CallType /\ v.at = "audit" /\ v.req = call[c].req
        /\ v.strangers = call[c].strangers /\ v.receipts = new
    BY <1>2, <2>1 DEF CallType, Stages
  <2> HIDE DEF v, all
  <2>4. FineOf(c, v, stored[c], session'[c], mailbox', journal')
    <3>1. Held(c, v, stored[c], journal')
      BY <1>2, <1>3, <2>3 DEF Held, Named, Audited
    <3> QED
      BY <1>2, <1>3, <1>4, <1>5, <2>1, <2>3, <3>1 DEF FineOf, Before
  <2>5. mailbox \subseteq mailbox' /\ mailbox' \subseteq mailbox \cup ({c} \X Nat)
    BY <1>4, <1>5
  <2> QED
    BY <1>2, <1>3, <2>2, <2>3, <2>4, <2>5, CallStep
<1>6. CASE mailbox' \in {mailbox, mailbox \cup all} /\ GoesTo(c, "failed")
  <2> DEFINE v == [call[c] EXCEPT !.at = "failed"]
  <2>1. /\ v \in CallType /\ v.at = "failed" /\ v.req = call[c].req
        /\ v.strangers = call[c].strangers /\ v.receipts = call[c].receipts
        /\ call' = [call EXCEPT ![c] = v]
    BY <1>6, Gone DEF Stages
  <2> HIDE DEF v, all
  <2>2. mailbox \subseteq mailbox' /\ mailbox' \subseteq mailbox \cup ({c} \X Nat)
    BY <1>4, <1>6
  <2>3. FineOf(c, v, stored[c], session'[c], mailbox', journal')
    <3>1. Held(c, v, stored[c], journal')
      BY <1>2, <1>3, <2>1 DEF Held, Named, Audited
    <3> QED
      BY <1>2, <1>3, <2>1, <2>2, <3>1 DEF FineOf, Before
  <2> QED
    BY <1>2, <1>3, <2>1, <2>2, <2>3, CallStep
<1> QED
  BY <1>5, <1>6 DEF DeliversFile

LEMMA RequestedStep ==
  ASSUME Creation, NEW c \in Call, Requested(c), setting.channel # "smtp" PROVE Creation'
<1>1. call[c].at = "delivering" /\ UNCHANGED <<setting, hits, stored, session, journal, coming, signed>>
  BY DEF Requested
<1>2. session' = [session EXCEPT ![c] = Closed]
  BY <1>1, Delivering
<1>3. \E ok, arrives \in BOOLEAN : (ok => arrives) /\ Receives(c, ok, arrives)
  BY DEF Requested
<1> QED
  BY <1>1, <1>2, <1>3, ReceiptStep

\* A step that only goes on with the conversation.
LEMMA TalkStep ==
  ASSUME Creation, NEW c \in Call, call[c].at = "delivering", setting.channel = "smtp",
         session' = [session EXCEPT ![c] = session'[c]],
         UNCHANGED <<setting, hits, call, stored, mailbox, journal, coming, signed>>
  PROVE  Creation'
<1>1. /\ call[c] \in CallType /\ stored[c] \in RowType /\ hits \in Nat
      /\ stored = [stored EXCEPT ![c] = stored[c]] /\ journal \subseteq Journal
      /\ call = [call EXCEPT ![c] = call[c]]
  BY Delivering DEF Creation, Typed
<1>2. FineOf(c, call[c], stored[c], session'[c], mailbox', journal')
  BY DEF Creation, Fine, FineOf
<1> QED
  BY <1>1, <1>2, CallStep

LEMMA ConnectsStep == ASSUME Creation, NEW c \in Call, Connects(c) PROVE Creation'
<1>1. /\ call[c].at = "delivering" /\ setting.channel = "smtp" /\ session[c] = Closed
      /\ UNCHANGED <<setting, hits, stored, journal, coming, signed>>
  BY DEF Connects
<1>2. CASE /\ session' = [session EXCEPT ![c] = [stage |-> 2, word |-> "ehlo", place |-> Place(c)]]
           /\ UNCHANGED <<call, mailbox>>
  <2>1. session' = [session EXCEPT ![c] = session'[c]]
    BY <1>2 DEF Creation, Typed
  <2> QED
    BY <1>1, <1>2, <2>1, TalkStep
<1>3. CASE Receives(c, FALSE, FALSE) /\ UNCHANGED session
  <2>1. session' = [session EXCEPT ![c] = Closed]
    BY <1>1, <1>3 DEF Creation, Typed
  <2> QED
    BY <1>1, <1>3, <2>1, ReceiptStep
<1> QED
  BY <1>2, <1>3 DEF Connects

LEMMA TalksOf ==
  ASSUME Creation, NEW c \in Call, Talks(c)
  PROVE  call[c].at = "delivering" /\ setting.channel = "smtp"
BY DEF Creation, Fine, FineOf, Talks

LEMMA DialogueStep ==
  ASSUME Creation, NEW c \in Call, Agrees(c) \/ Rephrases(c) PROVE Creation'
<1>1. /\ call[c].at = "delivering" /\ setting.channel = "smtp"
      /\ UNCHANGED <<setting, hits, call, stored, mailbox, journal, coming, signed>>
  BY TalksOf DEF Agrees, Rephrases
<1>2. session' = [session EXCEPT ![c] = session'[c]]
  <2>1. session = [d \in Call |-> session[d]]
    BY DEF Creation, Typed
  <2>2. \E n, word : session' = [session EXCEPT ![c].stage = n, ![c].word = word]
                     \/ session' = [session EXCEPT ![c].word = word]
    BY Zenon DEF Agrees, Onwards, Rephrases
  <2> QED
    BY <2>1, <2>2
<1> QED
  BY <1>1, <1>2, TalkStep

LEMMA HangUpStep == ASSUME Creation, NEW c \in Call, GivesUp(c) \/ Mailed(c) PROVE Creation'
<1>1. /\ call[c].at = "delivering" /\ session' = [session EXCEPT ![c] = Closed]
      /\ UNCHANGED <<setting, hits, stored, journal, coming, signed>>
  BY TalksOf DEF GivesUp, Mailed
<1>2. \E ok, arrives \in BOOLEAN : (ok => arrives) /\ Receives(c, ok, arrives)
  BY DEF GivesUp, Mailed
<1> QED
  BY <1>1, <1>2, ReceiptStep

------------------------------------------------------------------------------
(***************************************************************************)
(* One lemma per action: the answer, and the others.                       *)
(***************************************************************************)
LEMMA CreatedStep == ASSUME Creation, NEW c \in Call, AuditsCreation(c) PROVE Creation'
<1> DEFINE entry == [call |-> c, what |-> "created", of |-> Failures(c)]
           v     == [call[c] EXCEPT !.at = "emit"]
<1>1. /\ call[c].at = "audit" /\ call[c] \in CallType /\ stored[c] \in RowType /\ hits \in Nat
      /\ UNCHANGED <<setting, hits, stored, mailbox, session, coming, signed>>
      /\ stored = [stored EXCEPT ![c] = stored[c]] /\ session' = [session EXCEPT ![c] = session'[c]]
      /\ journal \subseteq Journal
  BY DEF Creation, Typed, AuditsCreation, Journal
<1>2. /\ Held(c, call[c], stored[c], journal) /\ session[c] = Closed
      /\ Len(call[c].receipts) = call[c].req.signers
      /\ \A p \in 1..Len(call[c].receipts) : call[c].receipts[p] => LinkTo(c, p) \in mailbox
  BY <1>1 DEF Creation, Fine, FineOf
<1>3. CASE GoesTo(c, "failed") /\ UNCHANGED journal
  BY <1>1, <1>3, CallEnds
<1>4. CASE journal' = journal \cup {entry} /\ GoesTo(c, "emit")
  <2>1. /\ v \in CallType /\ v.at = "emit" /\ v.req = call[c].req
        /\ v.strangers = call[c].strangers /\ v.receipts = call[c].receipts
        /\ call' = [call EXCEPT ![c] = v]
    BY <1>4, Gone, ZenonT(60) DEF Stages
  <2> HIDE DEF v
  <2>2. entry \in Journal /\ entry = [call |-> c, what |-> "created", of |-> Failed(v)]
    BY <2>1, <1>1 DEF Journal, Failures, Failed, CallType
  <2>3. journal \subseteq journal' /\ journal' \subseteq Journal
    BY <1>1, <1>4, <2>2
  <2> HIDE DEF entry
  <2>4. FineOf(c, v, stored[c], session'[c], mailbox', journal')
    <3>1. Held(c, v, stored[c], journal')
      BY <1>2, <2>1, <2>3 DEF Held, Named, Audited
    <3> QED
      BY <1>1, <1>2, <1>4, <2>1, <2>2, <3>1 DEF FineOf, Before
  <2> QED
    BY <1>1, <2>1, <2>3, <2>4, CallStep
<1> QED
  BY <1>3, <1>4 DEF AuditsCreation

\* Others may write to the row, but not to what it asks and names.
LEMMA Touched ==
  ASSUME Creation, NEW c \in Call
  PROVE  LET w == [stored[c] EXCEPT !.open = FALSE, !.rev = @ + 1]
         IN  /\ w \in RowType /\ w.level = stored[c].level /\ w.pins = stored[c].pins
             /\ w.strangers = stored[c].strangers /\ ~w.open
<1>1. stored[c] \in RowType /\ stored[c].rev + 1 \in Nat
  BY DEF Creation, Typed, RowType
<1>2. \A n \in Nat : LET w == [stored[c] EXCEPT !.open = FALSE, !.rev = n]
                     IN  /\ w \in RowType /\ w.level = stored[c].level /\ w.pins = stored[c].pins
                         /\ w.strangers = stored[c].strangers /\ ~w.open
  BY <1>1 DEF RowType
<1> QED
  BY <1>1, <1>2

\* The row is written, and what is said of call and row stays.
LEMMA RowWritten ==
  ASSUME Creation, NEW c \in Call,
         stored' = [stored EXCEPT ![c].open = FALSE, ![c].rev = @ + 1]
         \/ stored' = [stored EXCEPT ![c].rev = @ + 1]
  PROVE  \E w \in RowType : /\ stored' = [stored EXCEPT ![c] = w]
                            /\ w.level = stored[c].level /\ w.pins = stored[c].pins
                            /\ w.strangers = stored[c].strangers /\ (w.open => stored[c].open)
<1>1. stored \in [Call -> RowType] /\ stored[c] \in RowType
  BY DEF Creation, Typed
<1>2. CASE stored' = [stored EXCEPT ![c].open = FALSE, ![c].rev = @ + 1]
  <2> DEFINE w == [stored[c] EXCEPT !.open = FALSE, !.rev = @ + 1]
  <2>1. stored' = [stored EXCEPT ![c] = w]
    BY <1>2, Zenon
  <2>2. /\ w \in RowType /\ w.level = stored[c].level /\ w.pins = stored[c].pins
        /\ w.strangers = stored[c].strangers /\ (w.open => stored[c].open)
    BY Touched
  <2> HIDE DEF w
  <2> QED
    BY <2>1, <2>2
<1>3. CASE stored' = [stored EXCEPT ![c].rev = @ + 1]
  <2> DEFINE w == [stored[c] EXCEPT !.rev = @ + 1]
  <2>1. stored' = [stored EXCEPT ![c] = w]
    BY <1>3, Zenon
  <2>2. /\ w \in RowType /\ w.level = stored[c].level /\ w.pins = stored[c].pins
        /\ w.strangers = stored[c].strangers /\ (w.open => stored[c].open)
    <3>1. stored[c].rev + 1 \in Nat
      BY <1>1 DEF RowType
    <3>2. \A n \in Nat : LET x == [stored[c] EXCEPT !.rev = n]
                        IN  /\ x \in RowType /\ x.level = stored[c].level
                            /\ x.pins = stored[c].pins /\ x.strangers = stored[c].strangers
                            /\ x.open = stored[c].open
      BY <1>1 DEF RowType
    <3> QED
      BY <3>1, <3>2
  <2> HIDE DEF w
  <2> QED
    BY <2>1, <2>2
<1> QED
  BY <1>2, <1>3

LEMMA EmitsStep == ASSUME Creation, NEW c \in Call, EmitsCreation(c) PROVE Creation'
<1> DEFINE v == [call[c] EXCEPT !.at = "answered"]
<1>1. /\ call[c].at = "emit" /\ call[c] \in CallType /\ stored[c] \in RowType /\ hits \in Nat
      /\ UNCHANGED <<setting, hits, mailbox, session, journal, coming, signed>>
      /\ session' = [session EXCEPT ![c] = session'[c]] /\ journal \subseteq Journal
      /\ stored = [stored EXCEPT ![c] = stored[c]]
  BY DEF Creation, Typed, EmitsCreation, Journal
<1>2. /\ v \in CallType /\ v.at = "answered" /\ v.req = call[c].req
      /\ v.strangers = call[c].strangers /\ v.receipts = call[c].receipts
      /\ call' = [call EXCEPT ![c] = v]
  BY Gone, ZenonT(60) DEF Stages, EmitsCreation
<1> HIDE DEF v
<1>3. FineOf(c, v, stored[c], session[c], mailbox, journal)
  <2>1. Fine(c) /\ Failed(v) = Failed(call[c])
    BY <1>2 DEF Creation, Failed
  <2> QED
    BY <1>1, <1>2, <2>1 DEF Fine, FineOf, Before, Held, Named, Audited
<1>4. PICK w \in RowType : /\ stored' = [stored EXCEPT ![c] = w]
                           /\ w.level = stored[c].level /\ w.pins = stored[c].pins
                           /\ w.strangers = stored[c].strangers /\ (w.open => stored[c].open)
  <2>1. CASE stored' = [stored EXCEPT ![c].rev = @ + 1]
    BY <2>1, RowWritten
  <2>2. CASE UNCHANGED stored
    BY <1>1, <2>2
  <2> QED
    BY <2>1, <2>2 DEF EmitsCreation
<1>5. FineOf(c, v, w, session[c], mailbox, journal)
  BY <1>1, <1>2, <1>3, <1>4, SameFine
<1> QED
  BY <1>1, <1>2, <1>4, <1>5, CallStep

LEMMA EndsEnvelopeStep == ASSUME Creation, NEW c \in Call, EndsEnvelope(c) PROVE Creation'
<1>1. /\ call[c] \in CallType /\ stored[c] \in RowType /\ hits \in Nat
      /\ UNCHANGED <<setting, hits, call, mailbox, session, journal, coming, signed>>
      /\ session' = [session EXCEPT ![c] = session'[c]] /\ journal \subseteq Journal
      /\ call' = [call EXCEPT ![c] = call[c]]
  BY DEF Creation, Typed, EndsEnvelope, Journal
<1>2. PICK w \in RowType : /\ stored' = [stored EXCEPT ![c] = w]
                           /\ w.level = stored[c].level /\ w.pins = stored[c].pins
                           /\ w.strangers = stored[c].strangers /\ (w.open => stored[c].open)
  BY RowWritten DEF EndsEnvelope
<1>3. FineOf(c, call[c], w, session[c], mailbox, journal)
  BY <1>1, <1>2, SameFine DEF Creation, Fine
<1> QED
  BY <1>1, <1>2, <1>3, CallStep

\* Why a gate is shut.
LEMMA ComesLater ==
  ASSUME Creation, NEW c \in Call, NEW p \in Nat, ~SignerGate(c, p)
  PROVE  \/ \E q \in 1..call[c].req.signers : call[c].req.order[q] < call[c].req.order[p]
         \/ ~stored[c].open \/ HasSigned(c, p)
<1>1. DOMAIN call[c].req.order = 1..call[c].req.signers
  BY CreationAssumption DEF Creation, Typed, CallType
<1> QED
  BY <1>1 DEF SignerGate

\* Whoever has a link finds the policy in the row.
LEMMA ComesStep == ASSUME Creation, NEW c \in Call, SignerComes(c) PROVE Creation'
<1>1. PICK p \in 1..call[c].req.signers, proof \in Shown :
        LET asked == SignerGate(c, p)
        IN  /\ LinkTo(c, p) \in mailbox /\ Cardinality(coming) < MaxComing
            /\ asked => Admitted(stored[c], p, proof)
            /\ coming' = coming \cup {[call |-> c, place |-> p, asked |-> asked,
                                       level |-> IF asked THEN proof.level ELSE "none",
                                       uuaid |-> IF asked THEN proof.uuaid ELSE "none"]}
            /\ UNCHANGED <<setting, hits, call, stored, mailbox, session, journal, signed>>
  BY DEF SignerComes
<1>2. PICK asked \in BOOLEAN : asked = SignerGate(c, p)
  BY DEF SignerGate
<1>3. PICK level, uuaid : /\ level = IF asked THEN proof.level ELSE "none"
                          /\ uuaid = IF asked THEN proof.uuaid ELSE "none"
  OBVIOUS
<1> DEFINE s0 == [call |-> c, place |-> p, asked |-> asked, level |-> level, uuaid |-> uuaid]
<1>4. /\ coming' = coming \cup {s0} /\ LinkTo(c, p) \in mailbox
      /\ asked => Admitted(stored[c], p, proof)
      /\ UNCHANGED <<setting, hits, call, stored, mailbox, session, journal, signed>>
  BY <1>1, <1>2, <1>3
<1>5. /\ s0.call = c /\ s0.place = p /\ s0.asked = asked /\ s0.level = level /\ s0.uuaid = uuaid
      /\ p \in Nat /\ level \in Level
  <2>1. proof.level \in Level /\ "none" \in Level /\ call[c].req.signers \in Nat
    BY RankOf, CreationAssumption DEF Creation, Typed, CallType
  <2> QED
    BY <1>3, <2>1
<1> HIDE DEF s0
<1>6. Typed'
  BY <1>4, <1>5 DEF Creation, Typed
<1>7. \A d \in Call : Fine(d)'
  BY <1>4, StillFine
<1>8. Came(s0)
  <2>1. CASE asked
    <3>1. Policed(c, stored[c])
      <4>1. Held(c, call[c], stored[c], journal)
        BY <1>4, <1>5 DEF Creation, Fine, FineOf
      <4> QED
        BY <4>1 DEF Held
    <3>2. level = proof.level /\ uuaid = proof.uuaid /\ stored[c] \in RowType
      BY <1>3, <2>1 DEF Creation, Typed
    <3>3. /\ Rank(proof.level) >= Rank(setting.floor)
          /\ Rank(proof.level) >= Rank(Wanted(c))
          /\ Wanted(c) # "none" => Pins(call[c].req)[p] \in {"none", proof.uuaid}
      BY <1>4, <2>1, <3>1, <3>2, PolicyMet DEF Creation
    <3> QED
      BY <1>4, <1>5, <3>2, <3>3 DEF Came, Met
  <2> QED
    BY <1>4, <1>5, <2>1 DEF Came
<1>9. ~s0.asked => Later(s0) \/ ~stored[c].open \/ HasSigned(c, p)
  BY <1>2, <1>5, ComesLater DEF Later
<1>10. Signatures'
  <2>1. \A s : /\ Came(s) => Came(s)'
               /\ Later(s) => Later(s)'
               /\ HasSigned(s.call, s.place) => HasSigned(s.call, s.place)'
    BY <1>4 DEF Came, Met, Wanted, Later, HasSigned
  <2> QED
    BY <1>4, <1>5, <1>8, <1>9, <2>1 DEF Creation, Signatures
<1> QED
  BY <1>6, <1>7, <1>10 DEF Creation

LEMMA SignsStep == ASSUME Creation, NEW c \in Call, SignerSigns(c) PROVE Creation'
<1>1. PICK s0 \in coming :
        /\ s0.call = c
        /\ coming' = coming \ {s0}
        /\ IF SignerGate(c, s0.place)
           THEN /\ signed' = signed \cup {s0}
                /\ stored' = [stored EXCEPT ![c].rev = @ + 1]
           ELSE UNCHANGED <<signed, stored>>
        /\ UNCHANGED <<setting, hits, call, mailbox, session, journal>>
  BY DEF SignerSigns
<1>2. /\ call[c] \in CallType /\ stored[c] \in RowType
      /\ call' = [call EXCEPT ![c] = call[c]] /\ stored = [stored EXCEPT ![c] = stored[c]]
  BY <1>1 DEF Creation, Typed
<1>3. PICK w \in RowType : /\ stored' = [stored EXCEPT ![c] = w]
                           /\ w.level = stored[c].level /\ w.pins = stored[c].pins
                           /\ w.strangers = stored[c].strangers /\ (w.open => stored[c].open)
  <2>1. CASE stored' = [stored EXCEPT ![c].rev = @ + 1]
    BY <2>1, RowWritten
  <2>2. CASE UNCHANGED stored
    BY <1>2, <2>2
  <2> QED
    BY <1>1, <2>1, <2>2
<1>4. FineOf(c, call[c], w, session[c], mailbox, journal)
  BY <1>2, <1>3, SameFine DEF Creation, Fine
<1>5. /\ \A d \in Call : Fine(d)'
      /\ call' \in [Call -> CallType] /\ stored' \in [Call -> RowType]
  BY <1>1, <1>2, <1>3, <1>4, FineStep
<1>6. coming' \subseteq coming /\ signed \subseteq signed' /\ signed' \subseteq signed \cup {s0}
  BY <1>1
<1>7. Typed'
  BY <1>1, <1>5, <1>6 DEF Creation, Typed
<1>8. Signatures'
  <2>1. \A s : /\ Came(s) => Came(s)'
               /\ Later(s) => Later(s)'
               /\ HasSigned(s.call, s.place) => HasSigned(s.call, s.place)'
    BY <1>1, <1>6 DEF Came, Met, Wanted, Later, HasSigned
  <2>2. \A s \in coming : stored'[s.call].open => stored[s.call].open
    BY <1>3 DEF Creation, Typed
  <2>3. s0 \in signed' => s0 \in signed \/ SignerGate(c, s0.place)
    BY <1>1
  <2>4. SignerGate(c, s0.place) => stored[s0.call].open /\ ~HasSigned(s0.call, s0.place)
    BY <1>1 DEF SignerGate
  <2>5. \A s \in signed' : Came(s) /\ (~s.asked => Later(s))
    BY <1>6, <2>3, <2>4 DEF Creation, Signatures
  <2>6. \A s \in coming' : /\ Came(s)
                           /\ ~s.asked => Later(s) \/ ~stored[s.call].open \/ HasSigned(s.call, s.place)
    BY <1>6 DEF Creation, Signatures
  <2> QED
    BY <1>6, <2>1, <2>2, <2>5, <2>6 DEF Signatures
<1> QED
  BY <1>5, <1>7, <1>8 DEF Creation

\* The server stops: what its calls have written is there.
LEMMA DiesStep == ASSUME Creation, Dies PROVE Creation'
<1> DEFINE Ended(c) == call[c].at \in {"asked", "refused", "failed", "answered"}
<1>1. /\ call' = [c \in Call |-> IF Ended(c) THEN call[c] ELSE [call[c] EXCEPT !.at = "died"]]
      /\ session' = [c \in Call |-> Closed] /\ hits' = 0
      /\ coming' = {} /\ UNCHANGED <<setting, stored, mailbox, journal, signed>>
  BY DEF Dies
<1>2. \A c \in Call : /\ call'[c] \in CallType /\ call'[c].req = call[c].req
                      /\ call'[c].strangers = call[c].strangers
                      /\ call'[c].receipts = call[c].receipts
                      /\ call'[c] = call[c] \/ call'[c].at = "died"
  <2> SUFFICES ASSUME NEW c \in Call
               PROVE  /\ call'[c] \in CallType /\ call'[c].req = call[c].req
                      /\ call'[c].strangers = call[c].strangers
                      /\ call'[c].receipts = call[c].receipts
                      /\ call'[c] = call[c] \/ call'[c].at = "died"
    OBVIOUS
  <2>1. call[c] \in CallType /\ "died" \in Stages
    BY DEF Creation, Typed, Stages
  <2>2. CASE Ended(c)
    BY <1>1, <2>1, <2>2
  <2>3. CASE ~Ended(c)
    <3>1. call'[c] = [call[c] EXCEPT !.at = "died"]
      BY <1>1, <2>3
    <3> QED
      BY <2>1, <3>1, Gone
  <2> QED
    BY <2>2, <2>3
<1>3. call' = [c \in Call |-> call'[c]]
  BY <1>1
<1>4. Typed'
  BY <1>1, <1>2, <1>3 DEF Creation, Typed
<1>5. ASSUME NEW c \in Call PROVE Fine(c)'
  <2>1. /\ call[c] \in CallType /\ stored[c] \in RowType /\ session'[c] = Closed
    BY <1>1 DEF Creation, Typed
  <2>2. FineOf(c, call'[c], stored[c], Closed, mailbox, journal)
    <3>1. CASE call'[c] = call[c]
      BY <3>1 DEF Creation, Fine, FineOf
    <3>2. CASE call'[c].at = "died"
      <4>1. \A v \in CallType : v.at = "died" /\ v.req = call[c].req
              /\ v.strangers = call[c].strangers /\ v.receipts = call[c].receipts
              => FineOf(c, v, stored[c], Closed, mailbox, journal)
        <5> SUFFICES ASSUME NEW v \in CallType, v.at = "died", v.req = call[c].req,
                            v.strangers = call[c].strangers, v.receipts = call[c].receipts
                     PROVE  FineOf(c, v, stored[c], Closed, mailbox, journal)
          OBVIOUS
        <5>1. Fine(c)
          BY DEF Creation
        <5> QED
          BY <5>1 DEF Fine, FineOf, Held, Named, Audited, Before
      <4> QED
        BY <1>2, <3>2, <4>1
    <3> QED
      BY <1>2, <3>1, <3>2
  <2>3. Policed(c, stored[c]) => Policed(c, stored[c])'
    BY <1>1, <1>2, SMTT(40) DEF Policed, NeedsPolicy, Effective
  <2> QED
    BY <1>1, <2>1, <2>2, <2>3 DEF Fine, FineOf, Held, Named, Audited, LinkTo, Failed
<1>6. Signatures'
  BY <1>1, <1>2 DEF Creation, Typed, Signatures, Came, Met, Wanted, Later
<1> QED
  BY <1>4, <1>5, <1>6 DEF Creation

LEMMA CreationInit == NInit => Creation
<1> SUFFICES ASSUME NInit PROVE Creation
  OBVIOUS
<1>1. PICK r \in [Call -> Requests] :
        call = [c \in Call |-> [at |-> "asked", req |-> r[c], rev |-> 0, strangers |-> {},
                                receipts |-> <<>>]]
  BY DEF NInit
<1>2. call \in [Call -> CallType]
  <2>1. <<>> \in Seq(BOOLEAN) /\ "asked" \in Stages
    BY EmptySeq DEF Stages
  <2>2. \A q \in Requests :
          [at |-> "asked", req |-> q, rev |-> 0, strangers |-> {}, receipts |-> <<>>] \in CallType
    BY <2>1 DEF CallType
  <2> QED
    BY <1>1, <2>2
<1>3. \A c \in Call : /\ call[c].at = "asked" /\ call[c].receipts = <<>>
                      /\ stored[c] = NoStored /\ session[c] = Closed
  BY <1>1 DEF NInit
<1>4. stored \in [Call -> RowType] /\ hits \in Nat
  BY EmptyRow, CreationAssumption DEF NInit
<1>5. Typed
  BY <1>2, <1>4 DEF NInit, Typed
<1>6. \A c \in Call : Fine(c)
  BY <1>3, EmptySeq DEF NInit, Fine, FineOf
<1>7. Signatures
  BY DEF NInit, Signatures
<1> QED
  BY <1>5, <1>6, <1>7 DEF Creation

LEMMA CreationNext == Creation /\ [NNext]_nvars => Creation'
<1> SUFFICES ASSUME Creation, [NNext]_nvars PROVE Creation'
  OBVIOUS
<1>1. CASE UNCHANGED nvars
  BY <1>1 DEF nvars, Creation, Typed, Fine, FineOf, Policed, NeedsPolicy, Effective, Named,
     Audited, Held, Signatures, Came, Met, Wanted, Later, HasSigned
<1>2. CASE HourPasses \/ Dies
  BY <1>2, HourStep, DiesStep
<1>3. ASSUME NEW c \in Call,
             \/ RefusesRequest(c) \/ AsksRegistry(c) \/ InsertsEnvelope(c)
             \/ WritesPolicy(c) \/ WritesStrangers(c) \/ AuditsStrangers(c) \/ StoresLinks(c)
      PROVE  Creation'
  BY <1>3, RefusesStep, RegistryStep, InsertsStep, PolicyStep, StrangersStep, AuditsStep, LinksStep
<1>4. ASSUME NEW c \in Call,
             \/ DeliversFile(c) \/ Posts(c) \/ SendsBySes(c)
             \/ Connects(c) \/ Agrees(c) \/ Rephrases(c) \/ GivesUp(c) \/ Mailed(c)
      PROVE  Creation'
  BY <1>4, FileStep, RequestedStep, ConnectsStep, DialogueStep, HangUpStep DEF Posts, SendsBySes
<1>5. ASSUME NEW c \in Call,
             \/ AuditsCreation(c) \/ EmitsCreation(c) \/ EndsEnvelope(c)
             \/ SignerComes(c) \/ SignerSigns(c)
      PROVE  Creation'
  BY <1>5, CreatedStep, EmitsStep, EndsEnvelopeStep, ComesStep, SignsStep
<1> QED
  BY <1>1, <1>2, <1>3, <1>4, <1>5 DEF NNext

LEMMA CreationInvariant == NSpec => []Creation
BY CreationInit, CreationNext, PTL DEF NSpec

------------------------------------------------------------------------------
\* At whatever moment of create a link is used, and wherever create failed or died: who
\* signs has met the level and the pin that server and agent asked for, or has not been
\* asked, as one whose turn had not come; and a signer the registry does not know is in
\* the row and the audit log.
THEOREM SignersMeetTheRequest == NSpec => []SignedAsAsked
<1>1. Creation => SignedAsAsked
  <2> SUFFICES ASSUME Creation, NEW s \in signed
               PROVE  /\ s.asked => Met(s)
                      /\ ~s.asked => Later(s)
                      /\ s.place \in call[s.call].strangers =>
                           /\ s.place \in stored[s.call].strangers
                           /\ [call |-> s.call, what |-> "stranger", of |-> {s.place}] \in journal
    BY DEF SignedAsAsked, Met, Wanted, Later
  <2>1. /\ s.call \in Call /\ s.place \in Nat /\ LinkTo(s.call, s.place) \in mailbox
        /\ s.asked => Met(s)
        /\ ~s.asked => Later(s)
    BY DEF Creation, Typed, Signatures, Came
  <2>2. Held(s.call, call[s.call], stored[s.call], journal)
    BY <2>1 DEF Creation, Fine, FineOf
  <2> QED
    BY <2>1, <2>2 DEF Held, Named, Audited
<1> QED
  BY <1>1, CreationInvariant, PTL

\* An answer of create comes with its audit row, and a signer that row does not name as a
\* failure has the link - by whatever channel, and whatever the SMTP server says.
THEOREM AnswersAreTrue == NSpec => []AnsweredTruly
<1>1. Creation => AnsweredTruly
  <2> SUFFICES ASSUME Creation, NEW c \in Call, call[c].at = "answered"
               PROVE  \E r \in journal :
                        /\ r.call = c /\ r.what = "created"
                        /\ \A p \in (1..call[c].req.signers) \ r.of : LinkTo(c, p) \in mailbox
    BY DEF AnsweredTruly
  <2> DEFINE r == [call |-> c, what |-> "created", of |-> Failed(call[c])]
  <2>1. /\ r \in journal /\ Len(call[c].receipts) = call[c].req.signers
        /\ \A p \in 1..Len(call[c].receipts) : call[c].receipts[p] => LinkTo(c, p) \in mailbox
    BY DEF Creation, Fine, FineOf
  <2>2. \A p \in (1..call[c].req.signers) \ r.of : LinkTo(c, p) \in mailbox
    BY <2>1 DEF Failed
  <2>3. r.call = c /\ r.what = "created"
    OBVIOUS
  <2> QED
    BY <2>1, <2>2, <2>3
<1> QED
  BY <1>1, CreationInvariant, PTL
------------------------------------------------------------------------------
(***************************************************************************)
(* The signing gateway, for any requests, partitions, slots and deaths of  *)
(* the process, and its authentication, for any tokens, key sets and sizes *)
(* of the replay cache.                                                    *)
(*                                                                         *)
(* Slots: the count of the semaphore is the number of signs under way, and *)
(* whoever waits is in line, once; the deadline touches neither.  Files:   *)
(* every copy of a key file in somebody's hands has at most one active row *)
(* of each partition, and an insert leaves one that has again.  Tokens: an *)
(* accepted token is in the cache until it ends, was pushed out, or the    *)
(* process restarts.                                                       *)
(***************************************************************************)

File  == {"certs", "pq"}
Stage == {"away", "queued", "settled"} \cup Running
Name  == Dossier \cup {Nobody}

KeyRow == [id: Dossier, key: Partition, active: BOOLEAN, valid: BOOLEAN, from: Name]

Job == [at: Stage, in: File, to: {"insert", "retire"}, rows: SUBSET KeyRow, old: Name, cert: Name]

GTyped ==
  /\ keyFiles \in [File -> SUBSET KeyRow]
  /\ auditRows \in SUBSET [dossier: Dossier, cert: Name]
  /\ lockedBy \in [Partition -> Name]
  /\ active \in Int /\ line \in Seq(Dossier)
  /\ work \in [Dossier -> Job]
  /\ told \in [Dossier -> {"nothing", "200", "429", "504", "error", "cut"}]
  /\ gateEvents \in [expiries: Nat, stops: Nat]

\* At most one active row of each partition.
Single(rows) == \A r, s \in rows : r.active /\ s.active /\ r.key = s.key => r = s

Copies ==
  /\ \A f \in File : Single(keyFiles[f])
  /\ \A d \in Dossier : Single(work[d].rows)

Busy == {d \in Dossier : work[d].at \in Running}

\* The semaphore counts the signs under way; the line has those who wait, each once, and
\* there is one only while every slot is taken.
Slots ==
  /\ IsFiniteSet(Busy) /\ Cardinality(Busy) = active /\ active <= Limit
  /\ \A i, j \in 1..Len(line) : line[i] = line[j] => i = j
  /\ \A d \in Dossier : work[d].at = "queued" <=> \E i \in 1..Len(line) : line[i] = d
  /\ line # <<>> => active = Limit

\* The holder of a mutex is at work on the files of its partition.
Locked ==
  \A d \in Dossier : work[d].at \in Holding <=> lockedBy[KeyOf[d]] = d

GInv == GTyped /\ Copies /\ Slots /\ Locked

\* Whoever waits in line waits because every slot is taken.
WaitsForASlot == (\E d \in Dossier : work[d].at = "queued") => Cardinality(Busy) = Limit

\* The files of a partition are worked on by one request at a time.
OnePerPartition ==
  \A d, e \in Dossier :
    work[d].at \in Holding /\ work[e].at \in Holding /\ KeyOf[d] = KeyOf[e] => d = e

------------------------------------------------------------------------------
Token == UNION {Presents[b] : b \in Bearer}

Asking == [stage: {"away", "lookup", "awaiting", "select", "verify", "accepted", "replayed", "refused"},
           token: Token, now: Int, round: Nat, at: Int]

ATyped ==
  /\ clock \in Int
  /\ bearer \in [Bearer -> Asking]

\* An accepted token is remembered until it ends, unless it was forgotten early; and what
\* is remembered was accepted.
Remembered ==
  /\ \A b \in Bearer :
       /\ bearer[b].token \in Presents[b] /\ bearer[b].now <= clock
       /\ bearer[b].stage = "accepted" =>
            /\ KeyFits(bearer[b].token)
            /\ \/ [jti |-> bearer[b].token.jti, exp |-> bearer[b].token.exp] \in seen
               \/ bearer[b].token.jti \in forgotten
               \/ bearer[b].token.exp <= clock
  /\ \A e \in seen : \E b \in Bearer :
       bearer[b].stage = "accepted" /\ e = [jti |-> bearer[b].token.jti, exp |-> bearer[b].token.exp]

AInv == ATyped /\ Remembered /\ UsedOnce

------------------------------------------------------------------------------
(***************************************************************************)
(* The gateway.                                                            *)
(***************************************************************************)
LEMMA IdleJob ==
  /\ Idle \in Job /\ Single(Idle.rows) /\ Idle.at = "away"
  /\ \A at \in Stage : /\ [Idle EXCEPT !.at = at] \in Job
                       /\ [Idle EXCEPT !.at = at].at = at
                       /\ [Idle EXCEPT !.at = at].rows = {}
BY DEF Idle, Job, Stage, Name, Nobody, File, Single

\* The gateway starts with empty files and nothing to do.
LEMMA GatewayStarts ==
  GInit => GInv
<1> SUFFICES ASSUME GInit PROVE GInv
  OBVIOUS
<1>1. GTyped
  BY IdleJob DEF GInit, GTyped, File, Name
<1>2. Copies
  BY IdleJob DEF GInit, Copies, Single, File
<1>3. Slots
  <2>1. Busy = {}
    BY IdleJob DEF GInit, Busy, Running
  <2>2. IsFiniteSet({}) /\ Cardinality({}) = 0
    BY FS_EmptySet
  <2>3. \A d \in Dossier : work[d].at = "away"
    BY IdleJob DEF GInit
  <2>4. line = <<>> /\ Len(line) = 0 /\ active = 0
    BY DEF GInit
  <2> QED
    BY <2>1, <2>2, <2>3, <2>4, GatewayAssumption DEF Slots
<1>4. Locked
  <2>1. \A d \in Dossier : work[d].at = "away" /\ KeyOf[d] \in Partition
    BY IdleJob DEF GInit, Partition
  <2>2. \A d \in Dossier : lockedBy[KeyOf[d]] = Nobody /\ d # Nobody
    BY <2>1, GatewayAssumption DEF GInit, Nobody
  <2> QED
    BY <2>1, <2>2 DEF Locked, Holding
<1> QED
  BY <1>1, <1>2, <1>3, <1>4 DEF GInv

\* A step that moves no request into the slots or the line, or out of them.
LEMMA SlotsKept ==
  ASSUME Slots, UNCHANGED Semaphore,
         \A e \in Dossier : /\ work'[e].at \in Running <=> work[e].at \in Running
                            /\ work'[e].at = "queued" <=> work[e].at = "queued"
  PROVE  Slots'
<1>1. Busy' = Busy
  BY DEF Busy
<1> QED
  BY <1>1 DEF Slots, Semaphore

\* A step of a sign under way, which stays under way.
LEMMA OwnStep ==
  ASSUME GInv, NEW d \in Dossier, work[d].at \in Running,
         \E j \in Job : /\ work' = [work EXCEPT ![d] = j]
                        /\ j.at \in Running /\ Single(j.rows)
                        /\ j.at \in Holding <=> lockedBy'[KeyOf[d]] = d,
         UNCHANGED <<Semaphore, gateEvents, told>>,
         keyFiles' \in [File -> SUBSET KeyRow], \A f \in File : Single(keyFiles'[f]),
         auditRows' \in SUBSET [dossier: Dossier, cert: Name],
         lockedBy' \in [Partition -> Name],
         \A e \in Dossier : e # d => (lockedBy'[KeyOf[e]] = e <=> lockedBy[KeyOf[e]] = e)
  PROVE  GInv'
<1>1. PICK j \in Job : /\ work' = [work EXCEPT ![d] = j]
                       /\ j.at \in Running /\ Single(j.rows)
                       /\ j.at \in Holding <=> lockedBy'[KeyOf[d]] = d
  OBVIOUS
<1>2. GTyped'
  BY <1>1 DEF GInv, GTyped, Semaphore
<1>3. work'[d] = j /\ \A e \in Dossier : e # d => work'[e] = work[e]
  BY <1>1 DEF GInv, GTyped
<1>4. Copies'
  BY <1>1, <1>3 DEF GInv, Copies, Single
<1>5. Slots'
  BY <1>1, <1>3, SlotsKept DEF GInv, Running
<1>6. Locked'
  BY <1>1, <1>3 DEF GInv, Locked
<1> QED
  BY <1>2, <1>4, <1>5, <1>6 DEF GInv

\* Somebody who is answered meanwhile.
LEMMA DeadlineKeeps ==
  ASSUME GInv, NEW d \in Dossier, Deadline(d)
  PROVE  GInv'
<1>1. GTyped'
  BY DEF Deadline, GInv, GTyped, Disk, Semaphore
<1>2. Copies' /\ Locked'
  BY DEF Deadline, GInv, Copies, Locked, Disk, Single
<1>3. Slots'
  BY SlotsKept DEF Deadline, GInv
<1> QED
  BY <1>1, <1>2, <1>3 DEF GInv

\* acquire: a slot that is free, the end of the line, or 429.
LEMMA AcquireKeeps ==
  ASSUME GInv, NEW d \in Dossier, Acquires(d)
  PROVE  GInv'
<1>1. /\ work[d].at = "away" /\ UNCHANGED <<keyFiles, auditRows, lockedBy, gateEvents>>
      /\ work \in [Dossier -> Job] /\ line \in Seq(Dossier) /\ active \in Int
  BY DEF Acquires, Disk, GInv, GTyped
<1>2. ASSUME NEW at \in {"rendering", "queued", "settled"}, Now(d, at)
      PROVE  /\ work' \in [Dossier -> Job] /\ work'[d].at = at
             /\ \A e \in Dossier : e # d => work'[e] = work[e]
             /\ Copies' /\ Locked'
  <2> DEFINE j == [work[d] EXCEPT !.at = at]
  <2>1. j \in Job /\ j.at = at /\ j.rows = work[d].rows
    BY <1>1 DEF Job, Stage, Running
  <2>2. work' = [work EXCEPT ![d] = j]
    BY <1>1, <1>2 DEF Now
  <2> HIDE DEF j
  <2>3. /\ work' \in [Dossier -> Job] /\ work'[d] = j
        /\ \A e \in Dossier : e # d => work'[e] = work[e]
    BY <1>1, <2>1, <2>2
  <2>4. Copies'
    BY <1>1, <2>1, <2>3 DEF GInv, Copies, Single
  <2>5. Locked'
    BY <1>1, <1>2, <2>1, <2>3 DEF GInv, Locked, Holding
  <2> QED
    BY <2>1, <2>3, <2>4, <2>5
<1>3. CASE active < Limit /\ active' = active + 1 /\ Now(d, "rendering") /\ UNCHANGED <<line, told>>
  <2>1. GTyped'
    BY <1>1, <1>2, <1>3 DEF GInv, GTyped
  <2>2. Busy' = Busy \cup {d} /\ d \notin Busy
    BY <1>1, <1>2, <1>3 DEF Busy, Running
  <2>3. IsFiniteSet(Busy') /\ Cardinality(Busy') = active'
    BY <1>3, <2>2, FS_AddElement DEF GInv, Slots
  <2>4. line = <<>>
    BY <1>3, GatewayAssumption DEF GInv, Slots
  <2>5. \A e \in Dossier : work'[e].at = "queued" <=> work[e].at = "queued"
    BY <1>1, <1>2, <1>3
  <2>6. Slots'
    BY <1>1, <1>3, <2>3, <2>4, <2>5, GatewayAssumption DEF GInv, Slots
  <2> QED
    BY <1>2, <1>3, <2>1, <2>6 DEF GInv
<1>4. CASE active >= Limit /\ line' = Append(line, d) /\ Now(d, "queued") /\ UNCHANGED <<active, told>>
  <2>1. GTyped'
    BY <1>1, <1>2, <1>4 DEF GInv, GTyped
  <2>2. Busy' = Busy
    BY <1>1, <1>2, <1>4 DEF Busy, Running
  <2>3. /\ Len(line) \in Nat /\ Len(line') = Len(line) + 1 /\ line'[Len(line) + 1] = d
        /\ \A i \in 1..Len(line) : line'[i] = line[i]
    BY <1>1, <1>4, AppendProperties, LenProperties
  <2>4. \A i \in 1..Len(line) : line[i] # d
    BY <1>1 DEF GInv, Slots
  <2>5. \A i, j \in 1..Len(line') : line'[i] = line'[j] => i = j
    BY <2>3, <2>4 DEF GInv, Slots
  <2>6. ASSUME NEW e \in Dossier
        PROVE  work'[e].at = "queued" <=> \E i \in 1..Len(line') : line'[i] = e
    <3>1. work[e].at = "queued" <=> \E i \in 1..Len(line) : line[i] = e
      BY DEF GInv, Slots
    <3>2. (\E i \in 1..Len(line') : line'[i] = e) <=> e = d \/ \E i \in 1..Len(line) : line[i] = e
      BY <2>3
    <3>3. work'[e].at = "queued" <=> e = d \/ work[e].at = "queued"
      BY <1>2, <1>4
    <3> QED
      BY <3>1, <3>2, <3>3
  <2>7. active' = Limit
    BY <1>1, <1>4, GatewayAssumption DEF GInv, Slots
  <2>8. Slots'
    BY <1>4, <2>2, <2>5, <2>6, <2>7 DEF GInv, Slots
  <2> QED
    BY <1>2, <1>4, <2>1, <2>8 DEF GInv
<1>5. CASE told' = [told EXCEPT ![d] = "429"] /\ Now(d, "settled") /\ UNCHANGED Semaphore
  <2>1. GTyped'
    BY <1>1, <1>2, <1>5 DEF GInv, GTyped, Semaphore
  <2>2. Slots'
    BY <1>1, <1>2, <1>5, SlotsKept DEF GInv, Running
  <2> QED
    BY <1>2, <1>5, <2>1, <2>2 DEF GInv
<1> QED
  BY <1>3, <1>4, <1>5 DEF Acquires

\* release: the slot is free again, or it is the first's in line; nobody else moves.
LEMMA ReleaseKeeps ==
  ASSUME GInv, NEW d \in Dossier, work[d].at \in Running,
         Releases([work EXCEPT ![d] = [Idle EXCEPT !.at = "settled"]])
  PROVE  /\ work' \in [Dossier -> Job] /\ line' \in Seq(Dossier) /\ active' \in Int
         /\ Slots'
         /\ work'[d].at = "settled" /\ work'[d].rows = {}
         /\ \A e \in Dossier \ {d} :
              \/ work'[e] = work[e]
              \/ work[e].at = "queued" /\ work'[e].at = "rendering" /\ work'[e].rows = work[e].rows
<1> DEFINE z == [Idle EXCEPT !.at = "settled"]
           after == [work EXCEPT ![d] = z]
<1>1. z \in Job /\ z.at = "settled" /\ z.rows = {}
  BY IdleJob DEF Stage
<1>2. /\ work \in [Dossier -> Job] /\ line \in Seq(Dossier) /\ active \in Int
      /\ Slots /\ Len(line) \in Nat
  BY LenProperties DEF GInv, GTyped
<1> HIDE DEF z
<1>3. /\ after \in [Dossier -> Job] /\ after[d] = z
      /\ \A e \in Dossier : e # d => after[e] = work[e]
  BY <1>1, <1>2
<1>4. Releases(after)
  BY DEF z
<1>5. d \in Busy /\ IsFiniteSet(Busy) /\ Cardinality(Busy) = active
  BY DEF Busy, Slots, GInv
<1>6. IsFiniteSet(Busy \ {d}) /\ Cardinality(Busy \ {d}) = active - 1
  BY <1>5, FS_RemoveElement
<1> HIDE DEF after
<1>7. CASE line = <<>>
  <2>1. work' = after /\ active' = active - 1 /\ line' = line
    BY <1>4, <1>7 DEF Releases
  <2>2. Busy' = Busy \ {d}
    BY <1>1, <1>3, <2>1 DEF Busy, Running
  <2>3. \A e \in Dossier : work'[e].at = "queued" <=> work[e].at = "queued"
    BY <1>1, <1>3, <2>1 DEF Running
  <2>4. Slots'
    BY <1>2, <1>6, <1>7, <2>1, <2>2, <2>3, GatewayAssumption DEF Slots
  <2> QED
    BY <1>1, <1>2, <1>3, <2>1, <2>4
<1>8. CASE line # <<>>
  <2> DEFINE h == Head(line)
             j == [after[h] EXCEPT !.at = "rendering"]
  <2>1. work' = [after EXCEPT ![h].at = "rendering"] /\ line' = Tail(line) /\ active' = active
    BY <1>4, <1>8 DEF Releases
  <2>2. /\ h \in Dossier /\ h = line[1] /\ 1 \in 1..Len(line)
        /\ line' \in Seq(Dossier) /\ Len(line') = Len(line) - 1
        /\ \A i \in 1..Len(line') : line'[i] = line[i + 1] /\ i + 1 \in 1..Len(line)
    BY <1>2, <1>8, <2>1, HeadTailProperties
  <2>3. work[h].at = "queued" /\ h # d
    BY <1>2, <2>2 DEF Slots, Running
  <2>4. after[h] = work[h] /\ j \in Job /\ j.at = "rendering" /\ j.rows = work[h].rows
    BY <1>2, <1>3, <2>2, <2>3, ZenonT(60) DEF Job, Stage, Running
  <2>5. work' = [after EXCEPT ![h] = j]
    BY <1>3, <2>1, <2>2
  <2> HIDE DEF h, j
  <2>6. /\ work' \in [Dossier -> Job] /\ work'[h] = j /\ work'[d] = z
        /\ \A e \in Dossier : e # d /\ e # h => work'[e] = work[e]
    BY <1>3, <2>2, <2>3, <2>4, <2>5
  <2>7. Busy' = (Busy \ {d}) \cup {h} /\ h \notin Busy \ {d}
    BY <1>1, <2>2, <2>3, <2>4, <2>6 DEF Busy, Running
  <2>8. IsFiniteSet(Busy') /\ Cardinality(Busy') = active'
    <3> DEFINE B == Busy \ {d}
    <3>1. IsFiniteSet(B) /\ Cardinality(B) = active - 1 /\ h \notin B /\ Busy' = B \cup {h}
      BY <1>6, <2>7
    <3> HIDE DEF B
    <3>2. IsFiniteSet(B \cup {h}) /\ Cardinality(B \cup {h}) = Cardinality(B) + 1
      BY <3>1, FS_AddElement
    <3> QED
      BY <1>2, <2>1, <3>1, <3>2
  <2>9. ASSUME NEW i \in 1..Len(line'), NEW k \in 1..Len(line'), line'[i] = line'[k]
        PROVE  i = k
    <3>1. line[i + 1] = line[k + 1] /\ i + 1 \in 1..Len(line) /\ k + 1 \in 1..Len(line)
      BY <2>2, <2>9
    <3>2. i + 1 = k + 1
      BY <1>2, <3>1 DEF Slots
    <3> QED
      BY <3>2
  <2>10. ASSUME NEW e \in Dossier
         PROVE  work'[e].at = "queued" <=> \E i \in 1..Len(line') : line'[i] = e
    <3>1. work[e].at = "queued" <=> \E i \in 1..Len(line) : line[i] = e
      BY <1>2 DEF Slots
    <3>2. CASE e = h
      <4>1. ASSUME NEW i \in 1..Len(line'), line'[i] = e PROVE FALSE
        <5>1. line[i + 1] = line[1] /\ i + 1 \in 1..Len(line)
          BY <2>2, <3>2, <4>1
        <5>2. i + 1 = 1
          BY <1>2, <2>2, <5>1 DEF Slots
        <5> QED
          BY <5>2
      <4> QED
        BY <2>4, <2>6, <3>2, <4>1
    <3>3. CASE e # h
      <4>1. (\E i \in 1..Len(line) : line[i] = e) => \E i \in 1..Len(line') : line'[i] = e
        <5>1. SUFFICES ASSUME NEW i \in 1..Len(line), line[i] = e
                       PROVE  \E k \in 1..Len(line') : line'[k] = e
          OBVIOUS
        <5>2. i # 1
          BY <2>2, <3>3, <5>1
        <5>3. i - 1 \in 1..Len(line') /\ (i - 1) + 1 = i
          BY <1>2, <2>2, <5>2
        <5>4. line'[i - 1] = e
          BY <2>2, <5>1, <5>3
        <5> QED
          BY <5>3, <5>4
      <4>2. (\E i \in 1..Len(line') : line'[i] = e) => \E i \in 1..Len(line) : line[i] = e
        BY <2>2
      <4>3. work'[e].at = "queued" <=> work[e].at = "queued"
        BY <1>1, <2>6, <3>3 DEF Running
      <4> QED
        BY <3>1, <4>1, <4>2, <4>3
    <3> QED
      BY <3>2, <3>3
  <2>11. active = Limit
    BY <1>2, <1>8 DEF Slots
  <2>12. Slots'
    BY <1>2, <2>1, <2>8, <2>9, <2>10, <2>11 DEF Slots
  <2> QED
    BY <1>1, <1>2, <2>1, <2>2, <2>3, <2>4, <2>6, <2>12
<1> QED
  BY <1>7, <1>8

\* A sign that comes to its end, with whatever answer: it holds no mutex any more.
LEMMA SettleKeeps ==
  ASSUME GInv, NEW d \in Dossier, work[d].at \in Running,
         NEW answer \in {"200", "error"}, Settles(d, answer),
         UNCHANGED <<keyFiles, gateEvents>>,
         auditRows' \in SUBSET [dossier: Dossier, cert: Name],
         lockedBy' = IF work[d].at \in Holding THEN [lockedBy EXCEPT ![KeyOf[d]] = Nobody] ELSE lockedBy
  PROVE  GInv'
<1>1. Releases([work EXCEPT ![d] = [Idle EXCEPT !.at = "settled"]])
  BY DEF Settles
<1>2. /\ work' \in [Dossier -> Job] /\ line' \in Seq(Dossier) /\ active' \in Int
      /\ Slots'
      /\ work'[d].at = "settled" /\ work'[d].rows = {}
      /\ \A e \in Dossier \ {d} :
           \/ work'[e] = work[e]
           \/ work[e].at = "queued" /\ work'[e].at = "rendering" /\ work'[e].rows = work[e].rows
  BY <1>1, ReleaseKeeps
<1>3. GTyped /\ KeyOf[d] \in Partition
  BY DEF GInv, Partition
<1>4. GTyped'
  <2>1. told' \in [Dossier -> {"nothing", "200", "429", "504", "error", "cut"}]
    BY <1>3 DEF Settles, GTyped
  <2>2. lockedBy' \in [Partition -> Name]
    BY <1>3 DEF GTyped, Name
  <2> QED
    BY <1>2, <1>3, <2>1, <2>2 DEF GTyped
<1>5. Copies'
  BY <1>2 DEF GInv, Copies, Single
<1>6. Locked'
  <2>1. d # Nobody
    BY GatewayAssumption DEF Nobody
  <2>2. lockedBy'[KeyOf[d]] # d
    BY <1>3, <2>1 DEF GInv, GTyped, Locked
  <2>3. ASSUME NEW e \in Dossier, e # d
        PROVE  work'[e].at \in Holding <=> lockedBy'[KeyOf[e]] = e
    <3>1. work'[e].at \in Holding <=> work[e].at \in Holding
      BY <1>2, <2>3 DEF Holding
    <3>2. e # Nobody /\ KeyOf[e] \in Partition
      BY GatewayAssumption DEF Nobody, Partition
    <3>3. lockedBy'[KeyOf[e]] = e <=> lockedBy[KeyOf[e]] = e
      BY <1>3, <2>3, <3>2 DEF GInv, GTyped, Locked
    <3> QED
      BY <3>1, <3>3 DEF GInv, Locked
  <2> QED
    BY <1>2, <2>2, <2>3 DEF Locked, Holding
<1> QED
  BY <1>2, <1>4, <1>5, <1>6 DEF GInv

\* The steps of a sign that leave the files alone, and the mutex.
LEMMA QuietStep ==
  ASSUME GInv, NEW d \in Dossier, work[d].at \in Running,
         \E j \in Job : /\ work' = [work EXCEPT ![d] = j]
                        /\ j.at \in Running /\ Single(j.rows)
                        /\ j.at \in Holding <=> work[d].at \in Holding,
         UNCHANGED <<Disk, lockedBy, Semaphore, gateEvents, told>>
  PROVE  GInv'
<1>1. /\ keyFiles' \in [File -> SUBSET KeyRow] /\ \A f \in File : Single(keyFiles'[f])
      /\ auditRows' \in SUBSET [dossier: Dossier, cert: Name]
      /\ lockedBy' \in [Partition -> Name]
  BY DEF GInv, GTyped, Copies, Disk
<1>2. \E j \in Job : /\ work' = [work EXCEPT ![d] = j]
                     /\ j.at \in Running /\ Single(j.rows)
                     /\ j.at \in Holding <=> lockedBy'[KeyOf[d]] = d
  BY DEF GInv, Locked
<1> QED
  BY <1>1, <1>2, OwnStep

\* The page is rendered, or refused.
LEMMA RenderKeeps ==
  ASSUME GInv, NEW d \in Dossier, Renders(d) \/ Refuses(d)
  PROVE  GInv'
<1>1. work[d].at = "rendering" /\ work[d].at \in Running /\ work[d].at \notin Holding
  BY DEF Renders, Refuses, Running, Holding
<1>2. CASE Renders(d)
  <2> DEFINE j == [work[d] EXCEPT !.at = "locking"]
  <2>1. j \in Job /\ j.at = "locking" /\ j.rows = work[d].rows
    BY ZenonT(60) DEF GInv, GTyped, Job, Stage, Running
  <2>2. work' = [work EXCEPT ![d] = j]
    BY <1>2 DEF Renders, Now, GInv, GTyped
  <2> HIDE DEF j
  <2>3. Single(j.rows)
    BY <2>1 DEF GInv, Copies
  <2> QED
    BY <1>1, <1>2, <2>1, <2>2, <2>3, QuietStep DEF Renders, Running, Holding
<1>3. CASE Refuses(d)
  BY <1>1, <1>3, SettleKeeps DEF Refuses, Disk, GInv, GTyped
<1> QED
  BY <1>2, <1>3

\* mutex.run.
LEMMA LockKeeps ==
  ASSUME GInv, NEW d \in Dossier, Locks(d)
  PROVE  GInv'
<1> DEFINE j == [work[d] EXCEPT !.at = "finding"]
<1>1. j \in Job /\ j.at = "finding" /\ j.rows = work[d].rows
  BY ZenonT(60) DEF GInv, GTyped, Job, Stage, Running
<1>2. work' = [work EXCEPT ![d] = j]
  BY DEF Locks, Now, GInv, GTyped
<1> HIDE DEF j
<1>3. Single(j.rows) /\ j.at \in Running /\ j.at \in Holding /\ work[d].at \in Running
  BY <1>1 DEF GInv, Copies, Running, Holding, Locks
<1>4. KeyOf[d] \in Partition /\ lockedBy \in [Partition -> Name]
  BY DEF Partition, GInv, GTyped
<1>5. /\ lockedBy' \in [Partition -> Name] /\ lockedBy'[KeyOf[d]] = d
      /\ \A e \in Dossier : e # d => (lockedBy'[KeyOf[e]] = e <=> lockedBy[KeyOf[e]] = e)
  <2>1. lockedBy' = [lockedBy EXCEPT ![KeyOf[d]] = d] /\ lockedBy[KeyOf[d]] = Nobody
    BY DEF Locks
  <2>2. \A e \in Dossier : KeyOf[e] \in Partition /\ e # Nobody
    BY GatewayAssumption DEF Partition, Nobody
  <2> QED
    BY <1>4, <2>1, <2>2 DEF Name
<1>6. /\ keyFiles' \in [File -> SUBSET KeyRow] /\ \A f \in File : Single(keyFiles'[f])
      /\ auditRows' \in SUBSET [dossier: Dossier, cert: Name]
  BY DEF Locks, Disk, GInv, GTyped, Copies
<1> QED
  BY <1>1, <1>2, <1>3, <1>5, <1>6, OwnStep DEF Locks

\* With the row of this file in hand: the other file, or out of the mutex.
LEMMA ProceedKeeps ==
  ASSUME GInv, NEW d \in Dossier, work[d].at \in Holding, NEW id \in Dossier, Proceeds(d, id),
         UNCHANGED <<auditRows, Semaphore, gateEvents, told>>,
         keyFiles' \in [File -> SUBSET KeyRow], \A f \in File : Single(keyFiles'[f])
  PROVE  GInv'
<1>1. /\ KeyOf[d] \in Partition /\ lockedBy \in [Partition -> Name] /\ lockedBy[KeyOf[d]] = d
      /\ work[d] \in Job /\ id \in Name /\ work[d].at \in Running
      /\ auditRows' \in SUBSET [dossier: Dossier, cert: Name]
  BY DEF Partition, GInv, GTyped, Locked, Name, Holding, Running
<1>2. \A e \in Dossier : KeyOf[e] \in Partition /\ e # Nobody
  BY GatewayAssumption DEF Partition, Nobody
<1>3. CASE work[d].in = "certs" /\ PqSeal
  <2> DEFINE j == [Idle EXCEPT !.at = "finding", !.in = "pq", !.cert = id]
  <2>1. j \in Job /\ j.at = "finding" /\ j.rows = {}
    BY <1>1 DEF Idle, Job, Stage, Running, File, Name
  <2>2. work' = [work EXCEPT ![d] = j] /\ UNCHANGED lockedBy
    BY <1>3 DEF Proceeds
  <2> HIDE DEF j
  <2>3. Single(j.rows) /\ j.at \in Running /\ j.at \in Holding
    BY <2>1 DEF Single, Running, Holding
  <2> QED
    BY <1>1, <2>1, <2>2, <2>3, OwnStep
<1>4. CASE ~(work[d].in = "certs" /\ PqSeal)
  <2> DEFINE j == [Idle EXCEPT !.at = "signing",
                               !.cert = IF work[d].in = "certs" THEN id ELSE Idle.cert]
  <2>1. j \in Job /\ j.at = "signing" /\ j.rows = {}
    BY <1>1 DEF Idle, Job, Stage, Running, File, Name
  <2>2. work' = [work EXCEPT ![d] = j] /\ lockedBy' = [lockedBy EXCEPT ![KeyOf[d]] = Nobody]
    BY <1>4 DEF Proceeds
  <2> HIDE DEF j
  <2>3. Single(j.rows) /\ j.at \in Running /\ j.at \notin Holding
    BY <2>1 DEF Single, Running, Holding
  <2>4. /\ lockedBy' \in [Partition -> Name] /\ lockedBy'[KeyOf[d]] # d
        /\ \A e \in Dossier : e # d => (lockedBy'[KeyOf[e]] = e <=> lockedBy[KeyOf[e]] = e)
    BY <1>1, <1>2, <2>2 DEF Name
  <2> QED
    BY <1>1, <2>1, <2>2, <2>3, <2>4, OwnStep
<1> QED
  BY <1>3, <1>4

\* findActive: the active row is taken, or what is to be written is read first.
LEMMA FindKeeps ==
  ASSUME GInv, NEW d \in Dossier, Finds(d)
  PROVE  GInv'
<1>1. /\ work[d] \in Job /\ work \in [Dossier -> Job] /\ work[d].at = "finding"
      /\ work[d].at \in Holding /\ work[d].at \in Running
      /\ UNCHANGED <<Disk, Semaphore, told, gateEvents>>
      /\ \A r \in ActiveOf(d) : r \in KeyRow
  BY DEF Finds, GInv, GTyped, Holding, Running, ActiveOf, Job
<1>2. /\ keyFiles' \in [File -> SUBSET KeyRow] /\ \A f \in File : Single(keyFiles'[f])
      /\ UNCHANGED auditRows
  BY <1>1 DEF Disk, GInv, GTyped, Copies
<1>3. CASE \E r \in ActiveOf(d) : r.valid /\ Proceeds(d, r.id)
  <2>1. PICK r \in ActiveOf(d) : Proceeds(d, r.id) /\ r.id \in Dossier
    BY <1>1, <1>3 DEF KeyRow
  <2> QED
    BY <1>1, <1>2, <2>1, ProceedKeeps
<1>4. ASSUME NEW j \in Job, work' = [work EXCEPT ![d] = j], j.at = "reading",
             j.rows = work[d].rows, UNCHANGED lockedBy
      PROVE  GInv'
  <2>1. j.at \in Running /\ Single(j.rows) /\ (j.at \in Holding <=> work[d].at \in Holding)
    BY <1>1, <1>4 DEF Running, Holding, GInv, Copies
  <2> QED
    BY <1>1, <1>4, <2>1, QuietStep
<1>5. CASE \E r \in ActiveOf(d) :
             /\ ~r.valid
             /\ work' = [work EXCEPT ![d].at = "reading", ![d].to = "retire", ![d].old = r.id]
             /\ UNCHANGED lockedBy
  <2>1. PICK r \in ActiveOf(d) :
             /\ work' = [work EXCEPT ![d].at = "reading", ![d].to = "retire", ![d].old = r.id]
             /\ UNCHANGED lockedBy
    BY <1>5
  <2> DEFINE j == [work[d] EXCEPT !.at = "reading", !.to = "retire", !.old = r.id]
  <2>2. j \in Job /\ j.at = "reading" /\ j.rows = work[d].rows
    BY <1>1 DEF KeyRow, Job, Stage, Running, Name
  <2>3. work' = [work EXCEPT ![d] = j]
    BY <1>1, <2>1
  <2> HIDE DEF j
  <2> QED
    BY <1>4, <2>1, <2>2, <2>3
<1>6. CASE Now(d, "reading") /\ UNCHANGED lockedBy
  <2> DEFINE j == [work[d] EXCEPT !.at = "reading"]
  <2>1. j \in Job /\ j.at = "reading" /\ j.rows = work[d].rows
    BY <1>1 DEF Job, Stage, Running
  <2>2. work' = [work EXCEPT ![d] = j]
    BY <1>1, <1>6 DEF Now
  <2> HIDE DEF j
  <2> QED
    BY <1>4, <1>6, <2>1, <2>2
<1> QED
  BY <1>3, <1>5, <1>6 DEF Finds

\* The file is read: a copy has what the file has.
LEMMA ReadKeeps ==
  ASSUME GInv, NEW d \in Dossier, Reads(d)
  PROVE  GInv'
<1>1. /\ work[d] \in Job /\ work \in [Dossier -> Job] /\ work[d].at = "reading" /\ work[d].in \in File
      /\ keyFiles[work[d].in] \in SUBSET KeyRow /\ Single(keyFiles[work[d].in])
  BY DEF Reads, GInv, GTyped, Job, Copies
<1> DEFINE j == [work[d] EXCEPT !.at = "writing", !.rows = keyFiles[work[d].in]]
<1>2. j \in Job /\ j.at = "writing" /\ j.rows = keyFiles[work[d].in]
  BY <1>1 DEF Job, Stage, Running
<1>3. work' = [work EXCEPT ![d] = j]
  BY <1>1 DEF Reads
<1> HIDE DEF j
<1>4. /\ j.at \in Running /\ Single(j.rows) /\ (j.at \in Holding <=> work[d].at \in Holding)
      /\ work[d].at \in Running
  BY <1>1, <1>2 DEF Running, Holding
<1> QED
  BY <1>2, <1>3, <1>4, QuietStep DEF Reads

\* A row that is turned off is active no more, and the others are what they were.
LEMMA OffFacts ==
  ASSUME NEW rows \in SUBSET KeyRow, NEW off \in SUBSET rows
  PROVE  /\ Off(rows, off) \in SUBSET KeyRow
         /\ \A r \in Off(rows, off) : r.active => r \in rows \ off
         /\ Single(rows) => Single(Off(rows, off))
<1>1. \A r \in rows : /\ [r EXCEPT !.active = FALSE] \in KeyRow
                      /\ ~[r EXCEPT !.active = FALSE].active
  BY DEF KeyRow
<1>2. Off(rows, off) \in SUBSET KeyRow /\ \A r \in Off(rows, off) : r.active => r \in rows \ off
  BY <1>1 DEF Off
<1> QED
  BY <1>2 DEF Single

\* deactivate writes the copy with the old row off.
LEMMA RetireKeeps ==
  ASSUME GInv, NEW d \in Dossier, Retires(d)
  PROVE  GInv'
<1>1. /\ work[d] \in Job /\ work \in [Dossier -> Job] /\ work[d].at = "writing" /\ work[d].in \in File
      /\ work[d].rows \in SUBSET KeyRow /\ Single(work[d].rows)
      /\ keyFiles \in [File -> SUBSET KeyRow] /\ \A f \in File : Single(keyFiles[f])
      /\ auditRows \in SUBSET [dossier: Dossier, cert: Name] /\ lockedBy \in [Partition -> Name]
  BY DEF Retires, GInv, GTyped, Job, Copies
<1>2. /\ keyFiles' \in [File -> SUBSET KeyRow] /\ \A f \in File : Single(keyFiles'[f])
  <2> DEFINE old == {r \in work[d].rows : r.id = work[d].old}
             new == Off(work[d].rows, old)
  <2>1. keyFiles' = keyFiles \/ keyFiles' = [keyFiles EXCEPT ![work[d].in] = new]
    BY DEF Retires
  <2>2. new \in SUBSET KeyRow /\ Single(new)
    <3>1. old \in SUBSET work[d].rows
      OBVIOUS
    <3> HIDE DEF old
    <3> QED
      BY <1>1, <3>1, OffFacts
  <2> HIDE DEF new
  <2> QED
    BY <1>1, <2>1, <2>2
<1> DEFINE j == [work[d] EXCEPT !.at = "reading", !.to = "insert", !.rows = {}]
<1>3. j \in Job /\ j.at = "reading" /\ j.rows = {}
  BY <1>1 DEF Job, Stage, Running
<1>4. work' = [work EXCEPT ![d] = j]
  BY <1>1 DEF Retires
<1> HIDE DEF j
<1>5. /\ j.at \in Running /\ Single(j.rows) /\ work[d].at \in Running
      /\ j.at \in Holding <=> lockedBy'[KeyOf[d]] = d
  BY <1>1, <1>3 DEF Running, Holding, Single, Retires, GInv, Locked
<1> QED
  BY <1>1, <1>2, <1>3, <1>4, <1>5, OwnStep DEF Retires

\* insert writes the copy with the other rows of the partition off and the new one on.
LEMMA InsertKeeps ==
  ASSUME GInv, NEW d \in Dossier, Inserts(d)
  PROVE  GInv'
<1>1. /\ work[d] \in Job /\ work[d].at = "writing" /\ work[d].at \in Holding /\ work[d].in \in File
      /\ work[d].rows \in SUBSET KeyRow /\ Single(work[d].rows) /\ work[d].old \in Name
      /\ keyFiles \in [File -> SUBSET KeyRow] /\ \A f \in File : Single(keyFiles[f])
  BY DEF Inserts, GInv, GTyped, Job, Copies, Holding
<1> DEFINE off == {r \in work[d].rows : r.key = KeyOf[d]}
           new == [id |-> d, key |-> KeyOf[d], active |-> TRUE, valid |-> TRUE, from |-> work[d].old]
           rest == Off(work[d].rows, off)
<1>2. keyFiles' = [keyFiles EXCEPT ![work[d].in] = rest \cup {new}]
  BY DEF Inserts, Others
<1>3. new \in KeyRow /\ new.key = KeyOf[d]
  BY <1>1 DEF KeyRow, Partition
<1>4. /\ rest \in SUBSET KeyRow /\ Single(rest)
      /\ \A r \in rest : r.active => r.key # KeyOf[d]
  <2>1. off \in SUBSET work[d].rows
    OBVIOUS
  <2>2. \A r \in work[d].rows \ off : r.key # KeyOf[d]
    OBVIOUS
  <2> HIDE DEF off
  <2> QED
    BY <1>1, <2>1, <2>2, OffFacts
<1> HIDE DEF new, rest
<1>5. Single(rest \cup {new})
  BY <1>3, <1>4 DEF Single
<1>6. /\ keyFiles' \in [File -> SUBSET KeyRow] /\ \A f \in File : Single(keyFiles'[f])
  BY <1>1, <1>2, <1>3, <1>4, <1>5
<1> QED
  BY <1>1, <1>6, ProceedKeeps DEF Inserts

\* The signature, its audit row, and an error at any step of the work.
LEMMA SignKeeps ==
  ASSUME GInv, NEW d \in Dossier, Signs(d)
  PROVE  GInv'
<1>1. /\ work[d] \in Job /\ work \in [Dossier -> Job] /\ work[d].at = "signing"
      /\ work[d].at \in Running /\ work[d].at \notin Holding /\ UNCHANGED <<Disk, lockedBy, gateEvents>>
  BY DEF Signs, GInv, GTyped, Running, Holding
<1>2. CASE Now(d, "auditing") /\ UNCHANGED <<told, Semaphore>>
  <2> DEFINE j == [work[d] EXCEPT !.at = "auditing"]
  <2>1. j \in Job /\ j.at = "auditing" /\ j.rows = work[d].rows
    BY <1>1 DEF Job, Stage, Running
  <2>2. work' = [work EXCEPT ![d] = j]
    BY <1>1, <1>2 DEF Now
  <2> HIDE DEF j
  <2>3. j.at \in Running /\ Single(j.rows) /\ (j.at \in Holding <=> work[d].at \in Holding)
    BY <1>1, <2>1 DEF Running, Holding, GInv, Copies
  <2> QED
    BY <1>1, <1>2, <2>1, <2>2, <2>3, QuietStep
<1>3. CASE Settles(d, "error")
  <2>1. /\ UNCHANGED <<keyFiles, gateEvents>> /\ auditRows' \in SUBSET [dossier: Dossier, cert: Name]
        /\ lockedBy' = IF work[d].at \in Holding THEN [lockedBy EXCEPT ![KeyOf[d]] = Nobody] ELSE lockedBy
    BY <1>1 DEF Disk, GInv, GTyped
  <2> QED
    BY <1>1, <1>3, <2>1, SettleKeeps
<1> QED
  BY <1>2, <1>3 DEF Signs

LEMMA AuditKeeps ==
  ASSUME GInv, NEW d \in Dossier, Audits(d) \/ FailsAt(d)
  PROVE  GInv'
<1>1. work[d] \in Job /\ work[d].at \in Running
  BY DEF Audits, FailsAt, GInv, GTyped, Running, Holding
<1>2. CASE Audits(d)
  <2>1. work[d].at \notin Holding /\ UNCHANGED <<keyFiles, lockedBy, gateEvents>> /\ Settles(d, "200")
    BY <1>2 DEF Audits, Holding
  <2>2. auditRows' \in SUBSET [dossier: Dossier, cert: Name]
    BY <1>1, <1>2 DEF Audits, GInv, GTyped, Job
  <2> QED
    BY <1>1, <2>1, <2>2, SettleKeeps
<1>3. CASE FailsAt(d)
  BY <1>1, <1>3, SettleKeeps DEF FailsAt, Disk, GInv, GTyped
<1> QED
  BY <1>2, <1>3

\* A certificate that has ended is as active as it was, in the file and in the copies.
LEMMA EndsFacts ==
  ASSUME NEW rows \in SUBSET KeyRow, Single(rows), NEW id, NEW B \in BOOLEAN
  PROVE  LET ended == {IF s.id = id /\ B THEN [s EXCEPT !.valid = FALSE] ELSE s : s \in rows}
         IN  ended \in SUBSET KeyRow /\ Single(ended)
<1> DEFINE End(s) == IF s.id = id /\ B THEN [s EXCEPT !.valid = FALSE] ELSE s
           ended == {End(s) : s \in rows}
<1>1. \A s \in rows : End(s) \in KeyRow /\ End(s).active = s.active /\ End(s).key = s.key
  BY DEF KeyRow
<1> HIDE DEF End
<1>2. ended \in SUBSET KeyRow
  BY <1>1
<1>3. Single(ended)
  BY <1>1 DEF Single
<1> QED
  BY <1>2, <1>3 DEF End

LEMMA CertEndsKeeps ==
  ASSUME GInv, CertEnds
  PROVE  GInv'
<1>1. PICK r \in keyFiles["certs"] :
       /\ keyFiles' = [keyFiles EXCEPT !["certs"] =
            {IF s.id = r.id THEN [s EXCEPT !.valid = FALSE] ELSE s : s \in keyFiles["certs"]}]
       /\ work' = [d \in Dossier |-> [work[d] EXCEPT !.rows =
            {IF s.id = r.id /\ work[d].in = "certs" THEN [s EXCEPT !.valid = FALSE] ELSE s : s \in work[d].rows}]]
  BY DEF CertEnds
<1>2. /\ GTyped /\ UNCHANGED <<auditRows, lockedBy, Semaphore, told>>
      /\ gateEvents' \in [expiries: Nat, stops: Nat]
  BY DEF CertEnds, GInv, GTyped
<1>3. /\ keyFiles' \in [File -> SUBSET KeyRow] /\ \A f \in File : Single(keyFiles'[f])
  <2> DEFINE new == {IF s.id = r.id THEN [s EXCEPT !.valid = FALSE] ELSE s : s \in keyFiles["certs"]}
  <2>1. keyFiles["certs"] \in SUBSET KeyRow /\ Single(keyFiles["certs"])
    BY <1>2 DEF GTyped, GInv, Copies, File
  <2>2. {IF s.id = r.id /\ TRUE THEN [s EXCEPT !.valid = FALSE] ELSE s : s \in keyFiles["certs"]} = new
    OBVIOUS
  <2>3. new \in SUBSET KeyRow /\ Single(new)
    <3> HIDE DEF new
    <3> QED
      BY <2>1, <2>2, EndsFacts
  <2>4. keyFiles' = [keyFiles EXCEPT !["certs"] = new]
    BY <1>1
  <2> HIDE DEF new
  <2> QED
    BY <1>2, <2>3, <2>4 DEF GTyped, GInv, Copies, File
<1>4. ASSUME NEW d \in Dossier
      PROVE  work'[d] \in Job /\ work'[d].at = work[d].at /\ Single(work'[d].rows)
  <2> DEFINE B == work[d].in = "certs"
             new == {IF s.id = r.id /\ B THEN [s EXCEPT !.valid = FALSE] ELSE s : s \in work[d].rows}
  <2>1. work[d] \in Job /\ work[d].rows \in SUBSET KeyRow /\ Single(work[d].rows)
    BY <1>2 DEF GTyped, GInv, Copies, Job
  <2>2. new \in SUBSET KeyRow /\ Single(new)
    <3>1. B \in BOOLEAN
      OBVIOUS
    <3> HIDE DEF B
    <3> QED
      BY <2>1, <3>1, EndsFacts
  <2>3. work'[d] = [work[d] EXCEPT !.rows = new]
    BY <1>1
  <2> HIDE DEF new
  <2> QED
    BY <2>1, <2>2, <2>3 DEF Job
<1>5. work' \in [Dossier -> Job]
  BY <1>1, <1>4
<1>6. GTyped'
  BY <1>2, <1>3, <1>5 DEF GTyped, Semaphore
<1>7. Copies'
  BY <1>3, <1>4 DEF Copies
<1>8. Slots'
  BY <1>2, <1>4, SlotsKept DEF GInv
<1>9. Locked'
  BY <1>2, <1>4 DEF GInv, Locked
<1> QED
  BY <1>6, <1>7, <1>8, <1>9 DEF GInv

\* The process dies: nobody is under way, in line or in a mutex.
LEMMA StopKeeps ==
  ASSUME GInv, GatewayStops
  PROVE  GInv'
<1>1. GTyped
  BY DEF GInv
<1> DEFINE z == [Idle EXCEPT !.at = "settled"]
<1>2. z \in Job /\ z.at = "settled" /\ z.rows = {}
  BY IdleJob DEF Stage
<1>3. work' = [d \in Dossier |-> IF work[d].at = "away" THEN work[d] ELSE z]
  BY DEF GatewayStops
<1> HIDE DEF z
<1>4. /\ work' \in [Dossier -> Job]
      /\ \A d \in Dossier : work'[d].at \in {"away", "settled"} /\ Single(work'[d].rows)
  BY <1>1, <1>2, <1>3 DEF GInv, GTyped, Copies, Single
<1>5. told' \in [Dossier -> {"nothing", "200", "429", "504", "error", "cut"}]
  BY <1>1 DEF GatewayStops, GTyped
<1>6. GTyped' /\ Copies'
  <2>1. /\ gateEvents' \in [expiries: Nat, stops: Nat]
        /\ lockedBy' \in [Partition -> Name]
    BY <1>1 DEF GatewayStops, GTyped, Name
  <2>2. line' \in Seq(Dossier) /\ active' \in Int /\ UNCHANGED <<keyFiles, auditRows>>
    BY DEF GatewayStops, Disk
  <2>3. GTyped'
    BY <1>1, <1>4, <1>5, <2>1, <2>2 DEF GTyped
  <2> QED
    BY <1>4, <2>2, <2>3 DEF GInv, Copies
<1>7. Slots'
  <2>1. Busy' = {}
    BY <1>4 DEF Busy, Running
  <2>2. IsFiniteSet(Busy') /\ Cardinality(Busy') = 0
    BY <2>1, FS_EmptySet
  <2>3. \A d \in Dossier : work'[d].at # "queued"
    BY <1>4
  <2>4. line' = <<>> /\ Len(line') = 0 /\ active' = 0
    BY DEF GatewayStops
  <2> QED
    BY <2>2, <2>3, <2>4, GatewayAssumption DEF Slots
<1>8. Locked'
  <2>1. \A d \in Dossier : KeyOf[d] \in Partition /\ d # Nobody
    BY GatewayAssumption DEF Partition, Nobody
  <2> QED
    BY <1>4, <2>1 DEF GatewayStops, Locked, Holding
<1> QED
  BY <1>6, <1>7, <1>8 DEF GInv

\* Every step of the gateway.
LEMMA GatewayKept ==
  GInv /\ [GNext]_gvars => GInv'
<1> SUFFICES ASSUME GInv, [GNext]_gvars PROVE GInv'
  OBVIOUS
<1>1. ASSUME NEW d \in Dossier, Works(d) PROVE GInv'
  BY <1>1, RenderKeeps, LockKeeps, FindKeeps, ReadKeeps, RetireKeeps, InsertKeeps, SignKeeps,
     AuditKeeps DEF Works
<1>2. CASE \E d \in Dossier : Acquires(d) \/ Deadline(d) \/ Works(d)
  BY <1>1, <1>2, AcquireKeeps, DeadlineKeeps
<1>3. CASE CertEnds
  BY <1>3, CertEndsKeeps
<1>4. CASE GatewayStops
  BY <1>4, StopKeeps
<1>5. CASE UNCHANGED gvars
  <2>1. GTyped'
    BY <1>5 DEF gvars, GInv, GTyped
  <2>2. Copies' /\ Locked'
    BY <1>5 DEF gvars, GInv, Copies, Single, Locked
  <2>3. Slots'
    BY <1>5, SlotsKept DEF gvars, GInv, Semaphore
  <2> QED
    BY <2>1, <2>2, <2>3 DEF GInv
<1> QED
  BY <1>2, <1>3, <1>4, <1>5 DEF GNext

LEMMA AlwaysGateway ==
  GInit /\ [][GNext]_gvars => []GInv
BY GatewayStarts, GatewayKept, PTL

\* Semaphore, withDeadline: never more signs under way than slots, however many deadlines
\* fire and slots change hands.
THEOREM SlotsAreHeld ==
  GInit /\ [][GNext]_gvars => []SlotsHold
<1>1. GInv => SlotsHold
  BY DEF GInv, Slots, SlotsHold, Busy
<1> QED
  BY <1>1, AlwaysGateway, PTL

\* Semaphore.release: no slot is free while somebody waits in line, so none is lost to a
\* sign that failed, or that outlived its deadline.
THEOREM NoSlotIsLost ==
  GInit /\ [][GNext]_gvars => []WaitsForASlot
<1>1. GInv => WaitsForASlot
  <2> SUFFICES ASSUME GInv, NEW d \in Dossier, work[d].at = "queued"
               PROVE  Cardinality(Busy) = Limit
    BY DEF WaitsForASlot
  <2>1. \E i \in 1..Len(line) : line[i] = d
    BY DEF GInv, Slots
  <2>2. line # <<>>
    BY <2>1
  <2> QED
    BY <2>2 DEF GInv, Slots
<1> QED
  BY <1>1, AlwaysGateway, PTL

\* The contract of CertStore and PqKeyStore: at most one active row of a partition, in a
\* file that requests of other partitions write back from copies they have read before.
THEOREM OneActive ==
  GInit /\ [][GNext]_gvars => []SingleActive
<1>1. GInv => SingleActive
  BY DEF GInv, GTyped, Copies, Single, SingleActive
<1> QED
  BY <1>1, AlwaysGateway, PTL

\* ensureActiveCert and ensureActivePqKeys run for one request of a partition at a time,
\* whatever fails in them.
THEOREM PartitionIsExclusive ==
  GInit /\ [][GNext]_gvars => []OnePerPartition
<1>1. GInv => OnePerPartition
  BY DEF GInv, Locked, OnePerPartition
<1> QED
  BY <1>1, AlwaysGateway, PTL

------------------------------------------------------------------------------
(***************************************************************************)
(* Its authentication.                                                     *)
(***************************************************************************)
Entry(b) == [jti |-> bearer[b].token.jti, exp |-> bearer[b].token.exp]

LEMMA AuthStarts ==
  AInit => AInv
<1> SUFFICES ASSUME AInit PROVE AInv
  OBVIOUS
<1>1. /\ bearer \in [Bearer -> {[stage |-> "away", token |-> t, now |-> 0, round |-> 0, at |-> 0] : t \in Token}]
      /\ \A b \in Bearer : bearer[b].token \in Presents[b]
      /\ clock = 0 /\ seen = {}
  BY DEF AInit, Token
<1>2. \A b \in Bearer : bearer[b] \in Asking /\ bearer[b].stage = "away" /\ bearer[b].now = 0
  BY <1>1 DEF Asking
<1>3. ATyped
  BY <1>1, <1>2 DEF ATyped
<1>4. Remembered
  BY <1>1, <1>2 DEF Remembered
<1>5. UsedOnce
  BY <1>2 DEF UsedOnce
<1> QED
  BY <1>3, <1>4, <1>5 DEF AInv

\* A step that accepts nobody and replays nobody, and forgets what it drops early.
LEMMA NobodyAccepted ==
  ASSUME AInv, clock' \in Int, clock <= clock', forgotten \subseteq forgotten',
         bearer' \in [Bearer -> Asking],
         \A b \in Bearer :
           /\ bearer'[b].token = bearer[b].token /\ bearer'[b].now <= clock'
           /\ bearer[b].stage \in {"accepted", "replayed"} \/ bearer'[b].stage \in {"accepted", "replayed"}
                => bearer'[b] = bearer[b],
         seen' \subseteq seen,
         \A e \in seen \ seen' : e.jti \in forgotten' \/ e.exp <= clock'
  PROVE  AInv'
<1>1. ATyped'
  BY DEF ATyped
<1>2. \A b \in Bearer : bearer[b] \in Asking /\ bearer[b].token \in Presents[b] /\ bearer[b].token.exp \in Int
  BY TokenAssumption DEF AInv, ATyped, Remembered
<1>3. ASSUME NEW b \in Bearer
      PROVE  /\ bearer'[b].token \in Presents[b] /\ bearer'[b].now <= clock'
             /\ bearer'[b].stage = "accepted" =>
                  /\ KeyFits(bearer'[b].token)
                  /\ \/ [jti |-> bearer'[b].token.jti, exp |-> bearer'[b].token.exp] \in seen'
                     \/ bearer'[b].token.jti \in forgotten'
                     \/ bearer'[b].token.exp <= clock'
  <2>1. bearer'[b].token \in Presents[b] /\ bearer'[b].now <= clock'
    BY <1>2
  <2>2. ASSUME bearer'[b].stage = "accepted"
        PROVE  /\ KeyFits(bearer'[b].token)
               /\ \/ [jti |-> bearer'[b].token.jti, exp |-> bearer'[b].token.exp] \in seen'
                  \/ bearer'[b].token.jti \in forgotten'
                  \/ bearer'[b].token.exp <= clock'
    <3> DEFINE e == [jti |-> bearer[b].token.jti, exp |-> bearer[b].token.exp]
    <3>1. bearer'[b] = bearer[b] /\ KeyFits(bearer[b].token)
      BY <2>2 DEF AInv, Remembered
    <3>2. e \in seen \/ bearer[b].token.jti \in forgotten \/ bearer[b].token.exp <= clock
      BY <2>2, <3>1 DEF AInv, Remembered
    <3>3. e.jti = bearer[b].token.jti /\ e.exp = bearer[b].token.exp
      OBVIOUS
    <3>4. clock \in Int
      BY DEF AInv, ATyped
    <3> HIDE DEF e
    <3>5. e \in seen' \/ bearer[b].token.jti \in forgotten' \/ bearer[b].token.exp <= clock'
      BY <1>2, <3>2, <3>3, <3>4
    <3> QED
      BY <3>1, <3>5 DEF e
  <2> QED
    BY <2>1, <2>2
<1>4. \A e \in seen' : \E b \in Bearer :
        bearer'[b].stage = "accepted" /\ e = [jti |-> bearer'[b].token.jti, exp |-> bearer'[b].token.exp]
  <2> SUFFICES ASSUME NEW e \in seen'
               PROVE  \E b \in Bearer : /\ bearer'[b].stage = "accepted"
                                        /\ e = [jti |-> bearer'[b].token.jti, exp |-> bearer'[b].token.exp]
    OBVIOUS
  <2>1. PICK b \in Bearer : /\ bearer[b].stage = "accepted"
                            /\ e = [jti |-> bearer[b].token.jti, exp |-> bearer[b].token.exp]
    BY DEF AInv, Remembered
  <2>2. bearer'[b] = bearer[b]
    BY <2>1
  <2> QED
    BY <2>1, <2>2
<1>5. Remembered'
  BY <1>3, <1>4 DEF Remembered
<1>6. UsedOnce'
  <2>1. \A b \in Bearer : \/ bearer'[b] = bearer[b]
                          \/ bearer'[b].stage \notin {"accepted", "replayed"}
    OBVIOUS
  <2>2. ASSUME NEW b \in Bearer, NEW c \in Bearer, b # c,
               bearer'[b].stage = "accepted", bearer'[b].at < bearer'[b].token.exp,
               bearer'[c].stage = "accepted", bearer'[c].at < bearer'[c].token.exp,
               bearer'[b].token.jti = bearer'[c].token.jti
        PROVE  bearer'[b].token.jti \in forgotten'
    <3>1. bearer'[b] = bearer[b] /\ bearer'[c] = bearer[c]
      BY <2>1, <2>2
    <3>2. bearer[b].token.jti \in forgotten
      BY <2>2, <3>1 DEF AInv, UsedOnce
    <3> QED
      BY <3>1, <3>2
  <2>3. ASSUME NEW b \in Bearer, bearer'[b].stage = "replayed"
        PROVE  \E c \in Bearer : bearer'[c].stage = "accepted" /\ bearer'[c].token.jti = bearer'[b].token.jti
    <3>1. bearer'[b] = bearer[b]
      BY <2>1, <2>3
    <3>2. PICK c \in Bearer : bearer[c].stage = "accepted" /\ bearer[c].token.jti = bearer[b].token.jti
      BY <2>3, <3>1 DEF AInv, UsedOnce
    <3>3. bearer'[c] = bearer[c]
      BY <3>2
    <3> QED
      BY <3>1, <3>2, <3>3
  <2> QED
    BY <2>2, <2>3 DEF UsedOnce
<1> QED
  BY <1>1, <1>5, <1>6 DEF AInv

\* One request goes on, and is neither accepted nor replayed.
LEMMA OneGoesOn ==
  ASSUME AInv, NEW b \in Bearer, UNCHANGED <<clock, seen, forgotten>>,
         bearer[b].stage \notin {"accepted", "replayed"},
         \E w \in Asking : /\ bearer' = [bearer EXCEPT ![b] = w]
                           /\ w.token = bearer[b].token /\ w.now <= clock
                           /\ w.stage \notin {"accepted", "replayed"}
  PROVE  AInv'
<1>1. PICK w \in Asking : /\ bearer' = [bearer EXCEPT ![b] = w]
                          /\ w.token = bearer[b].token /\ w.now <= clock
                          /\ w.stage \notin {"accepted", "replayed"}
  OBVIOUS
<1>2. clock \in Int /\ bearer \in [Bearer -> Asking] /\ \A c \in Bearer : bearer[c].now <= clock
  BY DEF AInv, ATyped, Remembered
<1>3. bearer' \in [Bearer -> Asking] /\ bearer'[b] = w /\ \A c \in Bearer : c # b => bearer'[c] = bearer[c]
  BY <1>1, <1>2
<1>4. \A c \in Bearer :
        /\ bearer'[c].token = bearer[c].token /\ bearer'[c].now <= clock'
        /\ bearer[c].stage \in {"accepted", "replayed"} \/ bearer'[c].stage \in {"accepted", "replayed"}
             => bearer'[c] = bearer[c]
  BY <1>1, <1>2, <1>3
<1>5. clock' \in Int /\ clock <= clock' /\ forgotten \subseteq forgotten' /\ seen' \subseteq seen
      /\ \A e \in seen \ seen' : e.jti \in forgotten' \/ e.exp <= clock'
  BY <1>2
<1> QED
  BY <1>3, <1>4, <1>5, NobodyAccepted

LEMMA ArriveKeeps ==
  ASSUME AInv, NEW b \in Bearer, Arrives(b)
  PROVE  AInv'
<1>1. bearer[b] \in Asking /\ bearer \in [Bearer -> Asking] /\ clock \in Int /\ bearer[b].stage = "away"
  BY DEF AInv, ATyped, Arrives
<1> DEFINE at == IF PeerKnown(bearer[b].token) /\ WellFormed(bearer[b].token) THEN "lookup" ELSE "refused"
           w  == [bearer[b] EXCEPT !.now = clock, !.stage = at]
<1>2. at \in {"lookup", "refused"}
  OBVIOUS
<1>3. bearer' = [bearer EXCEPT ![b].now = clock, ![b].stage = at]
  BY DEF Arrives
<1> HIDE DEF at
<1>4. w \in Asking /\ w.token = bearer[b].token /\ w.now = clock /\ w.stage = at
  BY <1>1, <1>2 DEF Asking
<1>5. bearer' = [bearer EXCEPT ![b] = w]
  BY <1>1, <1>3
<1> HIDE DEF w
<1>6. w.now <= clock /\ w.stage \notin {"accepted", "replayed"} /\ UNCHANGED <<clock, seen, forgotten>>
  BY <1>1, <1>2, <1>4 DEF Arrives
<1> QED
  BY <1>1, <1>4, <1>5, <1>6, OneGoesOn

\* To another stage on the way to the key.
LEMMA StageKeeps ==
  ASSUME AInv, NEW b \in Bearer, NEW stage \in {"lookup", "select", "verify", "refused"},
         bearer' = To(b, stage), bearer[b].stage \in {"lookup", "select", "verify"},
         UNCHANGED <<clock, seen, forgotten>>
  PROVE  AInv'
<1>1. bearer[b] \in Asking /\ bearer \in [Bearer -> Asking] /\ bearer[b].now <= clock
  BY DEF AInv, ATyped, Remembered
<1> DEFINE w == [bearer[b] EXCEPT !.stage = stage]
<1>2. w \in Asking /\ w.token = bearer[b].token /\ w.now = bearer[b].now /\ w.stage = stage
  BY <1>1 DEF Asking
<1>3. bearer' = [bearer EXCEPT ![b] = w]
  BY <1>1 DEF To
<1> HIDE DEF w
<1>4. w.now <= clock /\ w.stage \notin {"accepted", "replayed"} /\ bearer[b].stage \notin {"accepted", "replayed"}
  BY <1>1, <1>2
<1> QED
  BY <1>2, <1>3, <1>4, OneGoesOn

LEMMA AwaitKeeps ==
  ASSUME AInv, NEW b \in Bearer, Await(b), bearer[b].stage \in {"lookup", "select"}
  PROVE  AInv'
<1>1. bearer[b] \in Asking /\ bearer \in [Bearer -> Asking] /\ bearer[b].now <= clock
  BY DEF AInv, ATyped, Remembered
<1> DEFINE w == [bearer[b] EXCEPT !.stage = "awaiting", !.round = bearer[b].round + 1]
<1>2. w \in Asking /\ w.token = bearer[b].token /\ w.now = bearer[b].now /\ w.stage = "awaiting"
  <2>1. bearer[b].round + 1 \in Nat
    BY <1>1 DEF Asking
  <2> QED
    BY <1>1, <2>1 DEF Asking
<1>3. bearer' = [bearer EXCEPT ![b] = w]
  BY <1>1 DEF Await
<1> HIDE DEF w
<1>4. w.now <= clock /\ w.stage \notin {"accepted", "replayed"} /\ bearer[b].stage \notin {"accepted", "replayed"}
  BY <1>1, <1>2
<1>5. UNCHANGED <<clock, seen, forgotten>>
  BY DEF Await
<1> QED
  BY <1>2, <1>3, <1>4, <1>5, OneGoesOn

LEMMA LookKeeps ==
  ASSUME AInv, NEW b \in Bearer, LooksUp(b) \/ Selects(b)
  PROVE  AInv'
<1>1. CASE Await(b)
  <2>1. bearer[b].stage \in {"lookup", "select"}
    BY DEF LooksUp, Selects
  <2> QED
    BY <1>1, <2>1, AwaitKeeps
<1>2. CASE ~Await(b)
  <2>1. /\ bearer[b].stage \in {"lookup", "select", "verify"} /\ UNCHANGED <<clock, seen, forgotten>>
        /\ \E stage \in {"lookup", "select", "verify", "refused"} : bearer' = To(b, stage)
    BY <1>2 DEF LooksUp, Selects, Refused
  <2> QED
    BY <2>1, StageKeeps
<1> QED
  BY <1>1, <1>2

\* The fetch ends for everybody who awaits it; and a restart cuts those under way.
LEMMA AllMoved ==
  ASSUME AInv, NEW S \in SUBSET {"lookup", "awaiting", "select", "verify"}, NEW stage \in {"select", "refused"},
         bearer' = [b \in Bearer |-> IF bearer[b].stage \in S
                                     THEN [bearer[b] EXCEPT !.stage = stage] ELSE bearer[b]]
  PROVE  /\ bearer' \in [Bearer -> Asking]
         /\ \A b \in Bearer :
              /\ bearer'[b].token = bearer[b].token /\ bearer'[b].now <= clock
              /\ bearer[b].stage \in {"accepted", "replayed"} \/ bearer'[b].stage \in {"accepted", "replayed"}
                   => bearer'[b] = bearer[b]
<1>1. ASSUME NEW b \in Bearer
      PROVE  /\ bearer'[b] \in Asking /\ bearer'[b].token = bearer[b].token /\ bearer'[b].now <= clock
             /\ bearer[b].stage \in {"accepted", "replayed"} \/ bearer'[b].stage \in {"accepted", "replayed"}
                  => bearer'[b] = bearer[b]
  <2>1. bearer[b] \in Asking /\ bearer[b].now <= clock
    BY DEF AInv, ATyped, Remembered
  <2> DEFINE w == [bearer[b] EXCEPT !.stage = stage]
  <2>2. w \in Asking /\ w.token = bearer[b].token /\ w.now = bearer[b].now /\ w.stage = stage
    BY <2>1 DEF Asking
  <2>3. bearer'[b] = IF bearer[b].stage \in S THEN w ELSE bearer[b]
    OBVIOUS
  <2> HIDE DEF w
  <2> QED
    BY <2>1, <2>2, <2>3
<1> QED
  BY <1>1

LEMMA FetchKeeps ==
  ASSUME AInv, FetchFails \/ \E published \in KeySet : FetchAnswers(published)
  PROVE  AInv'
<1>1. \E stage \in {"select", "refused"} : Awaited(stage)
  BY DEF FetchFails, FetchAnswers
<1>2. PICK stage \in {"select", "refused"} :
        bearer' = [b \in Bearer |-> IF bearer[b].stage \in {"awaiting"}
                                    THEN [bearer[b] EXCEPT !.stage = stage] ELSE bearer[b]]
  BY <1>1 DEF Awaited
<1>3. UNCHANGED <<clock, seen, forgotten>> /\ clock \in Int
  BY DEF FetchFails, FetchAnswers, AInv, ATyped
<1>4. {"awaiting"} \in SUBSET {"lookup", "awaiting", "select", "verify"}
  OBVIOUS
<1>5. /\ bearer' \in [Bearer -> Asking]
      /\ \A b \in Bearer :
           /\ bearer'[b].token = bearer[b].token /\ bearer'[b].now <= clock
           /\ bearer[b].stage \in {"accepted", "replayed"} \/ bearer'[b].stage \in {"accepted", "replayed"}
                => bearer'[b] = bearer[b]
  BY <1>2, <1>4, AllMoved
<1> QED
  BY <1>3, <1>5, NobodyAccepted

LEMMA TickKeeps ==
  ASSUME AInv, Tick
  PROVE  AInv'
<1>1. /\ clock \in Int /\ clock' = clock + 1 /\ UNCHANGED <<seen, bearer, forgotten>>
      /\ bearer \in [Bearer -> Asking] /\ \A b \in Bearer : bearer[b].now \in Int /\ bearer[b].now <= clock
  BY DEF Tick, AInv, ATyped, Remembered, Asking
<1>2. \A b \in Bearer : bearer'[b].now <= clock'
  BY <1>1
<1> QED
  BY <1>1, <1>2, NobodyAccepted

\* A restart loses the cache: what was in it is forgotten.
LEMMA RestartKeeps ==
  ASSUME AInv, GatewayRestarts
  PROVE  AInv'
<1>1. /\ UNCHANGED clock /\ clock \in Int /\ seen' = {}
      /\ forgotten' = forgotten \cup {e.jti : e \in seen}
      /\ bearer' = [b \in Bearer |->
           IF bearer[b].stage \in {"lookup", "awaiting", "select", "verify"}
           THEN [bearer[b] EXCEPT !.stage = "refused"] ELSE bearer[b]]
  BY DEF GatewayRestarts, AInv, ATyped
<1>2. {"lookup", "awaiting", "select", "verify"} \in SUBSET {"lookup", "awaiting", "select", "verify"}
  OBVIOUS
<1>3. /\ bearer' \in [Bearer -> Asking]
      /\ \A b \in Bearer :
           /\ bearer'[b].token = bearer[b].token /\ bearer'[b].now <= clock
           /\ bearer[b].stage \in {"accepted", "replayed"} \/ bearer'[b].stage \in {"accepted", "replayed"}
                => bearer'[b] = bearer[b]
  BY <1>1, <1>2, AllMoved
<1>4. \A e \in seen \ seen' : e.jti \in forgotten'
  BY <1>1
<1> QED
  BY <1>1, <1>3, <1>4, NobodyAccepted, SMTT(40)

\* ReplayCache.use: what it drops has ended, or is forgotten.
LEMMA JudgedKeeps ==
  ASSUME AInv, NEW b \in Bearer, Verifies(b), ~Refused(b)
  PROVE  AInv'
<1> DEFINE t == bearer[b].token
           live == Unexpired(bearer[b].now)
<1>1. /\ clock \in Int /\ bearer \in [Bearer -> Asking] /\ bearer[b] \in Asking
      /\ bearer[b].stage = "verify" /\ t \in Presents[b] /\ bearer[b].now \in Int /\ bearer[b].now <= clock
      /\ UNCHANGED clock
  BY DEF AInv, ATyped, Remembered, Asking, Verifies
<1>2. \A c \in Bearer : bearer[c].token \in Presents[c] /\ bearer[c].token.exp \in Int
  BY TokenAssumption DEF AInv, Remembered
<1>3. KeyFits(t) /\ ClaimsHold(t, bearer[b].now)
  BY DEF Verifies, Judged
<1>4. PICK gone \in SUBSET live, stage \in {"accepted", "replayed"} :
        /\ seen' = (live \ gone) \cup (IF stage = "accepted" THEN {Entry(b)} ELSE {})
        /\ forgotten' = forgotten \cup {e.jti : e \in gone}
        /\ bearer' = IF stage = "accepted" THEN [bearer EXCEPT ![b].stage = stage, ![b].at = clock]
                                           ELSE [bearer EXCEPT ![b].stage = stage]
        /\ stage = "replayed" <=> InUse(b)
  <2>1. CASE InUse(b)
    <3>1. bearer' = [bearer EXCEPT ![b].stage = "replayed"] /\ seen' = live /\ forgotten' = forgotten
      BY <1>3, <2>1 DEF Verifies, Judged, Replayed, To
    <3>2. seen' = (live \ {}) \cup {} /\ forgotten' = forgotten \cup {e.jti : e \in {}} /\ {} \in SUBSET live
      BY <3>1
    <3> HIDE DEF live
    <3> QED
      BY <2>1, <3>1, <3>2
  <2>2. CASE ~InUse(b)
    <3>1. PICK gone \in Evictions(live) :
            /\ seen' = (live \ gone) \cup {Entry(b)}
            /\ forgotten' = forgotten \cup {e.jti : e \in gone}
            /\ bearer' = [bearer EXCEPT ![b].stage = "accepted", ![b].at = clock]
      BY <1>3, <2>2 DEF Verifies, Judged, Uses, Entry
    <3>2. gone \in SUBSET live
      BY DEF Evictions
    <3> HIDE DEF live
    <3> QED
      BY <2>2, <3>1, <3>2
  <2> QED
    BY <2>1, <2>2
<1>5. /\ bearer' \in [Bearer -> Asking] /\ bearer'[b].stage = stage /\ bearer'[b].token = t
      /\ bearer'[b].now = bearer[b].now /\ (stage = "accepted" => bearer'[b].at = clock)
      /\ \A c \in Bearer : c # b => bearer'[c] = bearer[c]
  <2> DEFINE w == IF stage = "accepted" THEN [bearer[b] EXCEPT !.stage = stage, !.at = clock]
                                        ELSE [bearer[b] EXCEPT !.stage = stage]
  <2>1. /\ w \in Asking /\ w.stage = stage /\ w.token = t /\ w.now = bearer[b].now
        /\ stage = "accepted" => w.at = clock
    BY <1>1 DEF Asking
  <2>2. bearer' = [bearer EXCEPT ![b] = w]
    BY <1>1, <1>4
  <2> HIDE DEF w
  <2> QED
    BY <1>1, <2>1, <2>2
<1>6. \A e \in seen : e \in live \/ e.exp <= clock
  <2> SUFFICES ASSUME NEW e \in seen, ~(e.exp > bearer[b].now) PROVE e.exp <= clock
    BY DEF Unexpired
  <2>1. e.exp \in Int
    <3>1. PICK c \in Bearer : e = [jti |-> bearer[c].token.jti, exp |-> bearer[c].token.exp]
      BY DEF AInv, Remembered
    <3> QED
      BY <1>2, <3>1
  <2> QED
    BY <1>1, <2>1
<1>7. \A e \in seen : e \in seen' \/ e.jti \in forgotten' \/ e.exp <= clock
  BY <1>4, <1>6
<1>8. ATyped'
  BY <1>1, <1>5 DEF ATyped
<1>9. ASSUME NEW c \in Bearer
      PROVE  /\ bearer'[c].token \in Presents[c] /\ bearer'[c].now <= clock'
             /\ bearer'[c].stage = "accepted" =>
                  /\ KeyFits(bearer'[c].token)
                  /\ \/ [jti |-> bearer'[c].token.jti, exp |-> bearer'[c].token.exp] \in seen'
                     \/ bearer'[c].token.jti \in forgotten'
                     \/ bearer'[c].token.exp <= clock'
  <2>1. CASE c = b
    <3>1. stage = "accepted" => [jti |-> t.jti, exp |-> t.exp] \in seen'
      BY <1>4 DEF Entry
    <3> QED
      BY <1>1, <1>3, <1>5, <2>1, <3>1
  <2>2. CASE c # b
    <3> DEFINE e == [jti |-> bearer[c].token.jti, exp |-> bearer[c].token.exp]
    <3>1. bearer'[c] = bearer[c]
      BY <1>5, <2>2
    <3>2. /\ bearer[c].token \in Presents[c] /\ bearer[c].now <= clock
          /\ bearer[c].stage = "accepted" =>
               /\ KeyFits(bearer[c].token)
               /\ e \in seen \/ bearer[c].token.jti \in forgotten \/ bearer[c].token.exp <= clock
      BY DEF AInv, Remembered
    <3>3. e.jti = bearer[c].token.jti /\ e.exp = bearer[c].token.exp
      OBVIOUS
    <3> HIDE DEF e
    <3>4. e \in seen => e \in seen' \/ bearer[c].token.jti \in forgotten' \/ bearer[c].token.exp <= clock
      BY <1>7, <3>3
    <3>5. forgotten \subseteq forgotten' /\ clock' = clock
      BY <1>1, <1>4
    <3> QED
      BY <3>1, <3>2, <3>4, <3>5 DEF e
  <2> QED
    BY <2>1, <2>2
<1>10. ASSUME NEW e \in seen'
       PROVE  \E c \in Bearer : /\ bearer'[c].stage = "accepted"
                                /\ e = [jti |-> bearer'[c].token.jti, exp |-> bearer'[c].token.exp]
  <2>1. CASE e \in seen
    <3>1. PICK c \in Bearer : /\ bearer[c].stage = "accepted"
                              /\ e = [jti |-> bearer[c].token.jti, exp |-> bearer[c].token.exp]
      BY <2>1 DEF AInv, Remembered
    <3>2. bearer'[c] = bearer[c]
      BY <1>1, <1>5, <3>1
    <3> QED
      BY <3>1, <3>2
  <2>2. CASE e \notin seen
    <3>1. stage = "accepted" /\ e = Entry(b)
      BY <1>4, <2>2 DEF Unexpired
    <3> QED
      BY <1>5, <3>1 DEF Entry
  <2> QED
    BY <2>1, <2>2
<1>11. Remembered'
  BY <1>9, <1>10 DEF Remembered
<1>12. ASSUME NEW c \in Bearer, c # b, stage = "accepted", bearer'[b].at < bearer'[b].token.exp,
              bearer'[c].stage = "accepted", bearer'[b].token.jti = bearer'[c].token.jti
       PROVE  t.jti \in forgotten'
  <2> DEFINE e == [jti |-> bearer[c].token.jti, exp |-> bearer[c].token.exp]
  <2>1. /\ bearer[c].stage = "accepted" /\ KeyFits(bearer[c].token) /\ t.jti = bearer[c].token.jti
        /\ e \in seen \/ bearer[c].token.jti \in forgotten \/ bearer[c].token.exp <= clock
    BY <1>5, <1>12 DEF AInv, Remembered
  <2>2. bearer[c].token.exp = t.exp /\ t.exp \in Int
    BY <1>1, <1>2, <1>3, <2>1, TokenAssumption
  <2>3. ~(t.exp <= clock)
    BY <1>1, <1>5, <1>12, <2>2
  <2>4. e \notin seen
    <3>1. e.exp > bearer[b].now /\ e.jti = t.jti
      BY <1>3, <2>1, <2>2 DEF ClaimsHold
    <3> HIDE DEF e
    <3> QED
      BY <1>4, <1>12, <3>1 DEF InUse, Unexpired
  <2> QED
    BY <1>4, <2>1, <2>2, <2>3, <2>4
<1>13. ASSUME NEW c \in Bearer, NEW d \in Bearer, c # d,
              bearer'[c].stage = "accepted", bearer'[c].at < bearer'[c].token.exp,
              bearer'[d].stage = "accepted", bearer'[d].at < bearer'[d].token.exp,
              bearer'[c].token.jti = bearer'[d].token.jti
       PROVE  bearer'[c].token.jti \in forgotten'
  <2>1. CASE c = b
    BY <1>5, <1>12, <1>13, <2>1
  <2>2. CASE d = b
    BY <1>5, <1>12, <1>13, <2>2
  <2>3. CASE c # b /\ d # b
    <3>1. bearer'[c] = bearer[c] /\ bearer'[d] = bearer[d]
      BY <1>5, <2>3
    <3>2. bearer[c].token.jti \in forgotten
      BY <1>13, <3>1 DEF AInv, UsedOnce
    <3>3. forgotten \subseteq forgotten'
      BY <1>4
    <3> QED
      BY <3>1, <3>2, <3>3
  <2> QED
    BY <2>1, <2>2, <2>3
<1>14. ASSUME NEW d \in Bearer, bearer'[d].stage = "replayed"
       PROVE  \E c \in Bearer : bearer'[c].stage = "accepted" /\ bearer'[c].token.jti = bearer'[d].token.jti
  <2>1. PICK c \in Bearer : bearer[c].stage = "accepted" /\ bearer[c].token.jti = bearer[d].token.jti
    <3>1. CASE d = b
      <4>1. PICK e \in seen : e.jti = t.jti
        BY <1>4, <1>5, <1>14, <3>1 DEF InUse, Unexpired
      <4>2. PICK c \in Bearer : /\ bearer[c].stage = "accepted"
                                /\ e = [jti |-> bearer[c].token.jti, exp |-> bearer[c].token.exp]
        BY DEF AInv, Remembered
      <4> QED
        BY <3>1, <4>1, <4>2
    <3>2. CASE d # b
      BY <1>5, <1>14, <3>2 DEF AInv, UsedOnce
    <3> QED
      BY <3>1, <3>2
  <2>2. bearer'[c] = bearer[c] /\ bearer'[d].token = bearer[d].token
    BY <1>1, <1>5, <2>1
  <2> QED
    BY <2>1, <2>2
<1>15. UsedOnce'
  BY <1>13, <1>14 DEF UsedOnce
<1> QED
  BY <1>8, <1>11, <1>15 DEF AInv

\* Every step of the authentication.
LEMMA AuthKept ==
  AInv /\ [ANext]_avars => AInv'
<1> SUFFICES ASSUME AInv, [ANext]_avars PROVE AInv'
  OBVIOUS
<1>1. ASSUME NEW b \in Bearer, Verifies(b) PROVE AInv'
  <2>1. CASE Refused(b)
    <3>1. /\ bearer' = To(b, "refused") /\ bearer[b].stage = "verify"
          /\ UNCHANGED <<clock, seen, forgotten>>
      <4>1. bearer[b].stage = "verify" /\ bearer' = To(b, "refused") /\ UNCHANGED clock
        BY <1>1, <2>1 DEF Verifies, Refused
      <4>2. bearer'[b].stage = "refused" /\ bearer \in [Bearer -> Asking]
        BY <4>1 DEF To, AInv, ATyped, Asking
      <4>3. ~Replayed(b) /\ ~Uses(b, "accepted")
        BY <4>2 DEF Replayed, Uses, To, Asking
      <4> QED
        BY <1>1, <4>1, <4>3 DEF Verifies, Judged
    <3> QED
      BY <3>1, StageKeeps
  <2>2. CASE ~Refused(b)
    BY <1>1, <2>2, JudgedKeeps
  <2> QED
    BY <2>1, <2>2
<1>2. CASE \E b \in Bearer : Arrives(b) \/ LooksUp(b) \/ Selects(b) \/ Verifies(b)
  BY <1>1, <1>2, ArriveKeeps, LookKeeps
<1>3. CASE \E published \in KeySet : FetchAnswers(published)
  BY <1>3, FetchKeeps
<1>4. CASE FetchFails
  BY <1>4, FetchKeeps
<1>5. CASE Tick
  BY <1>5, TickKeeps
<1>6. CASE GatewayRestarts
  BY <1>6, RestartKeeps
<1>7. CASE UNCHANGED avars
  BY <1>7 DEF avars, AInv, ATyped, Remembered, UsedOnce
<1> QED
  BY <1>2, <1>3, <1>4, <1>5, <1>6, <1>7 DEF ANext

\* ReplayCache: whatever the order in which requests come back from the key set and sweep
\* the cache, a token that the cache has not forgotten to a restart or for want of room is
\* accepted once in its lifetime; and nobody is told of a replay of what nobody had used.
THEOREM TokenUsedOnce ==
  AInit /\ [][ANext]_avars => []UsedOnce
<1>1. AInv => UsedOnce
  BY DEF AInv
<1> QED
  BY <1>1, AuthStarts, AuthKept, PTL

------------------------------------------------------------------------------
(***************************************************************************)
(* That the audit chain verifies whatever order its rows are inserted and  *)
(* migrated in, that a verification which passes has read all of it, and   *)
(* that an export fixes everything before it, for any transactions, any    *)
(* size of page, any cap on pages and any tampering.  The argument: a      *)
(* chain that verifies is determined by its sequence of payloads (Chain),  *)
(* and each state is described by such sequences.  What the backfill and   *)
(* chaining anew compute is a recursion over the rows; it is solved by a   *)
(* closed form (Filled), which a least counterexample shows to be the only *)
(* solution.                                                               *)
(***************************************************************************)
Said    == Content \cup {Nothing}
Payload == Said \X Int
Row     == [seq: Nat \cup {Unset}, said: Said, canon: {NoHash} \cup Payload, prev: Seq(Payload),
            hash: Seq(Payload), born: Int]

\* The chain of a sequence of payloads.
Upto(c, k)  == [m \in 1..k |-> c[m]]
RowAt(c, k) == [seq |-> k - 1, said |-> c[k][1], canon |-> c[k], prev |-> Upto(c, k - 1),
                hash |-> Upto(c, k), born |-> c[k][2]]
Chain(c)    == {RowAt(c, k) : k \in 1..Len(c)}
Whole(rows) == \E c \in Seq(Payload) : rows = Chain(c)

ChainedOf(rows) == {r \in rows : r.seq # Unset}

\* Rows that seq, or created_at of those without, tells apart.
Apart(rows) == \A r, s \in rows : r.seq = s.seq /\ (r.seq # Unset \/ r.born = s.born) => r = s

------------------------------------------------------------------------------
(***************************************************************************)
(* Numbers and finite sets.                                                *)
(***************************************************************************)
LEMMA LeastNumber ==
  ASSUME NEW T, T \subseteq Nat, T # {}
  PROVE  \E n \in T : \A m \in T : n <= m
<1>1. IsWellFoundedOn(OpToRel(<, Nat), Nat)
  BY NatLessThanWellFounded
<1>2. PICK n \in T : \A m \in T : ~(<<m, n>> \in OpToRel(<, Nat))
  BY <1>1, WFMin, Zenon
<1>3. \A m \in T : ~(m < n)
  BY <1>2 DEF OpToRel
<1> QED
  BY <1>3

LEMMA GreatestNumber ==
  ASSUME NEW S, IsFiniteSet(S), S \subseteq Int, S # {}
  PROVE  \E b \in S : \A c \in S : c <= b
<1> DEFINE Bad == {X \in SUBSET S : X # {} /\ ~\E b \in X : \A c \in X : c <= b}
<1>1. SUFFICES ASSUME Bad # {} PROVE FALSE
  OBVIOUS
<1>2. \A X \in SUBSET S : IsFiniteSet(X) /\ Cardinality(X) \in Nat
  BY FS_Subset, FS_CardinalityType
<1> DEFINE Sizes == {Cardinality(X) : X \in Bad}
<1>3. Sizes \subseteq Nat /\ Sizes # {}
  BY <1>1, <1>2
<1> HIDE DEF Sizes
<1>4. PICK n \in Sizes : \A m \in Sizes : n <= m
  BY <1>3, LeastNumber
<1>5. PICK X \in Bad : \A Y \in Bad : Cardinality(X) <= Cardinality(Y)
  BY <1>4 DEF Sizes
<1>6. PICK x \in X : TRUE
  BY <1>5
<1>7. ~(X \ {x} \in Bad)
  <2>1. IsFiniteSet(X) /\ Cardinality(X) \in Nat
    BY <1>2, <1>5
  <2>2. Cardinality(X \ {x}) = Cardinality(X) - 1
    BY <1>6, <2>1, FS_RemoveElement
  <2>3. ~(Cardinality(X) <= Cardinality(X) - 1)
    BY <2>1
  <2> HIDE DEF Bad
  <2> QED
    BY <1>5, <2>2, <2>3
<1>8. X \ {x} # {}
  BY <1>6
<1>9. PICK b \in X \ {x} : \A c \in X \ {x} : c <= b
  BY <1>7, <1>8
<1> QED
  <2>1. x \in Int /\ b \in Int /\ b \in X /\ x \in X /\ X \subseteq Int
    BY <1>6, <1>9
  <2>2. CASE x <= b
    BY <1>9, <2>1, <2>2
  <2>3. CASE ~(x <= b)
    <3>1. \A c \in X : c <= x
      BY <1>9, <2>1, <2>3
    <3> QED
      BY <2>1, <3>1
  <2> QED
    BY <2>2, <2>3

------------------------------------------------------------------------------
(***************************************************************************)
(* The order of the rows.                                                  *)
(***************************************************************************)
Ahead(r, s) == \/ r.seq # Unset /\ (s.seq = Unset \/ r.seq < s.seq)
               \/ r.seq = s.seq /\ r.born < s.born

PlaceIn(rows, r) == Cardinality({s \in rows : Ahead(s, r)})

LEMMA InOrderIs ==
  ASSUME NEW rows
  PROVE  InOrder(rows) = [i \in 1..Cardinality(rows) |-> CHOOSE r \in rows : PlaceIn(rows, r) = i - 1]
BY DEF InOrder, PlaceIn, Ahead

LEMMA AheadIsOrder ==
  /\ \A r \in Row : ~Ahead(r, r)
  /\ \A r, s, t \in Row : Ahead(r, s) /\ Ahead(s, t) => Ahead(r, t)
  /\ \A rows \in SUBSET Row : Apart(rows) =>
       \A r, s \in rows : r = s \/ Ahead(r, s) \/ Ahead(s, r)
<1>1. \A r \in Row : r.seq \in Int /\ r.born \in Int /\ (r.seq # Unset => r.seq > Unset) /\ Unset \in Int
  BY DEF Row, Unset
<1> QED
  BY <1>1 DEF Ahead, Apart

LEMMA PlaceIs ==
  ASSUME NEW rows \in SUBSET Row, IsFiniteSet(rows)
  PROVE  /\ Cardinality(rows) \in Nat
         /\ \A r \in rows : PlaceIn(rows, r) \in 0..(Cardinality(rows) - 1)
         /\ \A r, s \in rows : Ahead(r, s) => PlaceIn(rows, r) < PlaceIn(rows, s)
<1>1. Cardinality(rows) \in Nat
  BY FS_CardinalityType
<1>2. ASSUME NEW r \in rows
      PROVE  PlaceIn(rows, r) \in 0..(Cardinality(rows) - 1)
  <2> DEFINE before == {s \in rows : Ahead(s, r)}
  <2>1. before \in SUBSET rows /\ r \notin before
    BY <1>2, AheadIsOrder
  <2>2. IsFiniteSet(before) /\ Cardinality(before) \in Nat /\ Cardinality(before) <= Cardinality(rows)
        /\ Cardinality(before) # Cardinality(rows)
    BY <1>2, <2>1, FS_Subset, FS_CardinalityType
  <2> QED
    BY <1>1, <2>2 DEF PlaceIn
<1>3. ASSUME NEW r \in rows, NEW s \in rows, Ahead(r, s)
      PROVE  PlaceIn(rows, r) < PlaceIn(rows, s)
  <2> DEFINE A == {t \in rows : Ahead(t, r)}
             B == {t \in rows : Ahead(t, s)}
  <2>1. A \in SUBSET B /\ r \in B /\ r \notin A /\ B \in SUBSET rows
    BY <1>3, AheadIsOrder
  <2>2. IsFiniteSet(B) /\ IsFiniteSet(A)
    BY <2>1, FS_Subset
  <2>3. Cardinality(A) \in Nat /\ Cardinality(B) \in Nat /\ Cardinality(A) <= Cardinality(B)
        /\ Cardinality(A) # Cardinality(B)
    BY <2>1, <2>2, FS_Subset, FS_CardinalityType
  <2> QED
    BY <2>3 DEF PlaceIn
<1> QED
  BY <1>1, <1>2, <1>3

\* InOrder has each row in one place, and every place has one.
LEMMA InOrderHasAll ==
  ASSUME NEW rows \in SUBSET Row, IsFiniteSet(rows), Apart(rows)
  PROVE  /\ InOrder(rows) \in Seq(rows) /\ Len(InOrder(rows)) = Cardinality(rows)
         /\ \A i \in 1..Len(InOrder(rows)) :
              InOrder(rows)[i] \in rows /\ PlaceIn(rows, InOrder(rows)[i]) = i - 1
         /\ \A r \in rows : \E i \in 1..Len(InOrder(rows)) : InOrder(rows)[i] = r
<1> DEFINE n == Cardinality(rows)
           f == [r \in rows |-> PlaceIn(rows, r)]
<1>1. n \in Nat /\ \A r \in rows : PlaceIn(rows, r) \in 0..(n - 1)
  BY PlaceIs
<1>2. \A r, s \in rows : PlaceIn(rows, r) = PlaceIn(rows, s) => r = s
  BY <1>1, PlaceIs, AheadIsOrder
<1>3. f \in Injection(rows, 0..(n - 1))
  BY <1>1, <1>2 DEF Injection, IsInjective
<1>4. IsFiniteSet(0..(n - 1)) /\ Cardinality(0..(n - 1)) = n
  BY <1>1, FS_Interval, SMTT(40)
<1>5. f \in Surjection(rows, 0..(n - 1))
  BY <1>3, <1>4, FS_Injection
<1>6. \A k \in 0..(n - 1) : \E r \in rows : PlaceIn(rows, r) = k
  BY <1>5 DEF Surjection
<1>7. InOrder(rows) = [i \in 1..n |-> CHOOSE r \in rows : PlaceIn(rows, r) = i - 1]
  BY InOrderIs
<1>8. \A i \in 1..n : i - 1 \in 0..(n - 1)
  BY <1>1
<1>9. \A i \in 1..n : InOrder(rows)[i] \in rows /\ PlaceIn(rows, InOrder(rows)[i]) = i - 1
  BY <1>6, <1>7, <1>8
<1> HIDE DEF n
<1>10. InOrder(rows) \in Seq(rows) /\ Len(InOrder(rows)) = n
  BY <1>1, <1>7, <1>9
<1>11. ASSUME NEW r \in rows PROVE \E i \in 1..n : InOrder(rows)[i] = r
  <2>1. PlaceIn(rows, r) + 1 \in 1..n /\ (PlaceIn(rows, r) + 1) - 1 = PlaceIn(rows, r)
    BY <1>1
  <2> QED
    BY <1>2, <1>9, <2>1
<1> QED
  BY <1>9, <1>10, <1>11 DEF n

------------------------------------------------------------------------------
(***************************************************************************)
(* A whole chain.                                                          *)
(***************************************************************************)
LEMMA UptoIs ==
  ASSUME NEW c \in Seq(Payload), NEW k \in 0..Len(c)
  PROVE  /\ Upto(c, k) \in Seq(Payload) /\ Len(Upto(c, k)) = k
         /\ k = Len(c) => Upto(c, k) = c
         /\ k # 0 => Upto(c, k) = Append(Upto(c, k - 1), c[k])
<1>1. Len(c) \in Nat /\ c \in [1..Len(c) -> Payload] /\ k \in Nat
  BY LenProperties
<1>2. \A m \in 1..k : c[m] \in Payload
  BY <1>1
<1>3. Upto(c, k) \in Seq(Payload) /\ Len(Upto(c, k)) = k
  BY <1>1, <1>2 DEF Upto
<1>4. k = Len(c) => Upto(c, k) = c
  BY <1>1 DEF Upto
<1>5. ASSUME k # 0 PROVE Upto(c, k) = Append(Upto(c, k - 1), c[k])
  <2> DEFINE before == Upto(c, k - 1)
  <2>1. before \in Seq(Payload) /\ Len(before) = k - 1 /\ c[k] \in Payload
    BY <1>1, <1>2, <1>5 DEF Upto
  <2>2. \A i \in 1..(k - 1) : before[i] = c[i]
    BY <1>1 DEF Upto
  <2> HIDE DEF before
  <2> DEFINE longer == Append(before, c[k])
  <2>3. /\ longer \in Seq(Payload) /\ Len(longer) = (k - 1) + 1
        /\ \A i \in 1..(k - 1) : longer[i] = before[i]
        /\ longer[(k - 1) + 1] = c[k]
    BY <2>1, AppendProperties
  <2> HIDE DEF longer
  <2>4. \A i \in 1..k : longer[i] = c[i]
    <3> SUFFICES ASSUME NEW i \in 1..k PROVE longer[i] = c[i]
      OBVIOUS
    <3>1. CASE i = k
      BY <1>1, <2>3, <3>1
    <3>2. CASE i # k
      BY <1>1, <2>2, <2>3, <3>2
    <3> QED
      BY <3>1, <3>2
  <2>5. \A i \in 1..k : Upto(c, k)[i] = c[i]
    BY DEF Upto
  <2>6. Len(longer) = k
    BY <1>1, <2>3
  <2>7. Upto(c, k) = longer
    BY <1>3, <2>3, <2>4, <2>5, <2>6, SeqEqual
  <2> QED
    BY <2>7 DEF longer, before
<1> QED
  BY <1>3, <1>4, <1>5

LEMMA RowAtIs ==
  ASSUME NEW c \in Seq(Payload), NEW k \in 1..Len(c)
  PROVE  /\ RowAt(c, k) \in Row /\ RowAt(c, k).seq = k - 1 /\ RowAt(c, k).seq # Unset
         /\ Canonical(RowAt(c, k)) = c[k] /\ RowAt(c, k).canon = c[k]
         /\ RowAt(c, k).prev = Upto(c, k - 1) /\ RowAt(c, k).hash = Upto(c, k)
         /\ Upto(c, k) = Hash(Upto(c, k - 1), c[k])
<1>1. c[k] \in Payload /\ Len(c) \in Nat
  BY ElementOfSeq, LenProperties
<1>2. PICK what \in Said, born \in Int : c[k] = <<what, born>>
  BY <1>1 DEF Payload
<1>3. Upto(c, k) \in Seq(Payload) /\ Upto(c, k - 1) \in Seq(Payload)
      /\ Upto(c, k) = Append(Upto(c, k - 1), c[k])
  <2>1. k \in 0..Len(c) /\ k - 1 \in 0..Len(c) /\ k # 0
    BY <1>1
  <2> QED
    BY <2>1, UptoIs
<1> QED
  BY <1>1, <1>2, <1>3 DEF RowAt, Row, Canonical, Hash, Unset

LEMMA ChainPlace ==
  ASSUME NEW c \in Seq(Payload), NEW k \in 1..Len(c)
  PROVE  PlaceIn(Chain(c), RowAt(c, k)) = k - 1
<1> DEFINE before == {s \in Chain(c) : Ahead(s, RowAt(c, k))}
           g == [j \in 1..(k - 1) |-> RowAt(c, j)]
<1>1. Len(c) \in Nat /\ k \in Int
  BY LenProperties
<1>2. \A i, j \in 1..Len(c) : Ahead(RowAt(c, i), RowAt(c, j)) <=> i < j
  <2>1. \A i \in 1..Len(c) : RowAt(c, i).seq = i - 1 /\ RowAt(c, i).seq # Unset
    BY RowAtIs
  <2>2. \A i, j \in 1..Len(c) : (i - 1 < j - 1 <=> i < j) /\ (i - 1 = j - 1 => i = j)
    BY <1>1
  <2> SUFFICES ASSUME NEW i \in 1..Len(c), NEW j \in 1..Len(c)
               PROVE  Ahead(RowAt(c, i), RowAt(c, j)) <=> i < j
    OBVIOUS
  <2> DEFINE r == RowAt(c, i)
             s == RowAt(c, j)
  <2>3. r.seq = i - 1 /\ s.seq = j - 1 /\ r.seq # Unset /\ s.seq # Unset
    BY <2>1
  <2>4. i = j => r.born = s.born /\ r.born \in Int
    BY RowAtIs DEF Row
  <2> HIDE DEF r, s
  <2>5. Ahead(r, s) <=> i - 1 < j - 1 \/ (i - 1 = j - 1 /\ r.born < s.born)
    BY <2>3 DEF Ahead
  <2>6. ~(i - 1 = j - 1 /\ r.born < s.born)
    BY <2>2, <2>4
  <2> QED
    BY <2>2, <2>5, <2>6 DEF r, s
<1>3. before = {RowAt(c, j) : j \in 1..(k - 1)}
  BY <1>1, <1>2 DEF Chain
<1>4. g \in Bijection(1..(k - 1), before)
  <2>1. \A i, j \in 1..(k - 1) : RowAt(c, i) = RowAt(c, j) => i = j
    BY <1>1, RowAtIs
  <2> QED
    BY <1>3, <2>1 DEF Bijection, Injection, Surjection, IsInjective
<1>5. Cardinality(before) = Cardinality(1..(k - 1))
  BY <1>1, <1>4, FS_Interval, FS_Bijection DEF ExistsBijection
<1> QED
  BY <1>1, <1>5, FS_Interval DEF PlaceIn

LEMMA ChainIs ==
  ASSUME NEW c \in Seq(Payload)
  PROVE  /\ Chain(c) \in SUBSET Row /\ IsFiniteSet(Chain(c)) /\ Cardinality(Chain(c)) = Len(c)
         /\ Apart(Chain(c)) /\ ChainedOf(Chain(c)) = Chain(c)
         /\ InOrder(Chain(c)) = [k \in 1..Len(c) |-> RowAt(c, k)]
<1> DEFINE g == [k \in 1..Len(c) |-> RowAt(c, k)]
<1>1. Len(c) \in Nat
  BY LenProperties
<1>2. \A i, j \in 1..Len(c) : RowAt(c, i).seq = RowAt(c, j).seq => i = j
  BY <1>1, RowAtIs
<1>3. g \in Bijection(1..Len(c), Chain(c))
  BY <1>2 DEF Bijection, Injection, Surjection, IsInjective, Chain
<1>4. IsFiniteSet(Chain(c)) /\ Cardinality(Chain(c)) = Len(c)
  <2>1. IsFiniteSet(1..Len(c)) /\ Cardinality(1..Len(c)) = Len(c)
    BY <1>1, FS_Interval, SMTT(40)
  <2>2. ExistsBijection(1..Len(c), Chain(c))
    BY <1>3, Zenon DEF ExistsBijection
  <2> QED
    BY <2>1, <2>2, FS_Bijection
<1>5. Chain(c) \in SUBSET Row /\ Apart(Chain(c)) /\ ChainedOf(Chain(c)) = Chain(c)
  BY <1>2, RowAtIs DEF Chain, Apart, ChainedOf
<1>6. \A k \in 1..Len(c) : InOrder(Chain(c))[k] = RowAt(c, k)
  <2> SUFFICES ASSUME NEW k \in 1..Len(c) PROVE InOrder(Chain(c))[k] = RowAt(c, k)
    OBVIOUS
  <2>1. InOrder(Chain(c))[k] \in Chain(c) /\ PlaceIn(Chain(c), InOrder(Chain(c))[k]) = k - 1
    BY <1>4, <1>5, InOrderHasAll
  <2>2. PICK j \in 1..Len(c) : InOrder(Chain(c))[k] = RowAt(c, j)
    BY <2>1 DEF Chain
  <2>3. j - 1 = k - 1
    BY <2>1, <2>2, ChainPlace
  <2>4. j = k
    BY <1>1, <2>3
  <2> QED
    BY <2>2, <2>4
<1>7. InOrder(Chain(c)) = [k \in 1..Len(c) |-> InOrder(Chain(c))[k]]
  BY <1>4, InOrderIs
<1> QED
  BY <1>4, <1>5, <1>6, <1>7

LEMMA CrossedIs ==
  ASSUME NEW c \in Seq(Payload), NEW k \in 1..Len(c)
  PROVE  LET r == RowAt(c, k)
         IN  /\ r.canon # NoHash
             /\ r.canon = <<[r.said EXCEPT !.metadata = r.canon[1].metadata], r.born>>
<1>1. c[k] \in Payload
  BY ElementOfSeq
<1>2. PICK what \in Said, born \in Int : c[k] = <<what, born>>
  BY <1>1 DEF Payload
<1>3. what = [scalars |-> what.scalars, metadata |-> what.metadata]
  BY ContentAssumption DEF Said, Nothing
<1>4. [what EXCEPT !.metadata = what.metadata] = what
  BY <1>3
<1> QED
  BY <1>2, <1>4 DEF RowAt, NoHash

\* A whole chain verifies.
LEMMA WholeHolds ==
  ASSUME NEW rows, Whole(rows)
  PROVE  RowsHold(InOrder(rows))
<1>1. PICK c \in Seq(Payload) : rows = Chain(c)
  BY DEF Whole
<1> DEFINE all == InOrder(rows)
<1>2. all = [k \in 1..Len(c) |-> RowAt(c, k)] /\ Len(c) \in Nat
  BY <1>1, ChainIs, LenProperties
<1>3. Len(all) = Len(c) /\ \A k \in 1..Len(c) : all[k] = RowAt(c, k)
  BY <1>2
<1> HIDE DEF all
<1>4. ASSUME NEW i \in 1..Len(c)
      PROVE  Contiguous(all, i) /\ Linked(all, i) /\ SelfConsistent(all, i) /\ CrossChecked(all, i)
  <2>1. PrevOf(all, i) = Upto(c, i - 1)
    <3>1. CASE i = 1
      BY <1>2, <3>1 DEF PrevOf, Upto, NoHash
    <3>2. CASE i # 1
      <4>1. i - 1 \in 1..Len(c)
        BY <1>2, <3>2
      <4> QED
        BY <1>3, <3>2, <4>1, RowAtIs DEF PrevOf
    <3> QED
      BY <3>1, <3>2
  <2> QED
    <3>1. Contiguous(all, i) /\ Linked(all, i) /\ SelfConsistent(all, i)
      BY <1>3, <2>1, RowAtIs DEF Contiguous, Linked, SelfConsistent
    <3>2. CrossChecked(all, i)
      BY <1>3, CrossedIs DEF CrossChecked
    <3> QED
      BY <3>1, <3>2
<1> QED
  BY <1>3, <1>4 DEF RowsHold, all

------------------------------------------------------------------------------
(***************************************************************************)
(* What the next row is linked to.                                         *)
(***************************************************************************)
LEMMA NextIsBehind ==
  ASSUME NEW rows \in SUBSET Row, IsFiniteSet(rows)
  PROVE  /\ NextSeq(rows) \in Nat /\ LastHash(rows) \in Seq(Payload)
         /\ \A r \in rows : r.seq < NextSeq(rows)
<1>1. \A r \in rows : r.seq \in Int /\ r.seq >= Unset /\ (r.seq # Unset => r.seq \in Nat)
                      /\ r.hash \in Seq(Payload)
  BY DEF Row, Unset
<1>2. CASE Last(rows) = {}
  <2>1. \A r \in rows : r.seq = Unset
    <3> DEFINE S == {r.seq : r \in rows}
    <3>1. SUFFICES ASSUME NEW r \in rows, r.seq # Unset PROVE FALSE
      OBVIOUS
    <3>2. IsFiniteSet(S) /\ S \subseteq Int /\ S # {}
      <4>1. [q \in rows |-> q.seq] \in Surjection(rows, S)
        BY DEF Surjection
      <4> QED
        BY <1>1, <3>1, <4>1, FS_Surjection
    <3> HIDE DEF S
    <3>3. PICK b \in S : \A d \in S : d <= b
      BY <3>2, GreatestNumber
    <3>4. PICK q \in rows : q.seq = b /\ \A s \in rows : s.seq <= b
      BY <3>3 DEF S
    <3>5. q.seq # Unset
      BY <1>1, <3>1, <3>4 DEF Unset
    <3> QED
      BY <1>2, <3>4, <3>5 DEF Last
  <2>2. <<>> \in Seq(Payload)
    BY EmptySeq
  <2> QED
    BY <1>2, <2>1, <2>2 DEF NextSeq, LastHash, NoHash, Unset
<1>3. CASE Last(rows) # {}
  <2> DEFINE last == CHOOSE r \in Last(rows) : TRUE
  <2>1. last \in rows /\ last.seq # Unset /\ \A s \in rows : s.seq <= last.seq
    BY <1>3 DEF Last
  <2>2. NextSeq(rows) = last.seq + 1 /\ LastHash(rows) = last.hash
    BY <1>3 DEF NextSeq, LastHash
  <2> HIDE DEF last
  <2> QED
    BY <1>1, <2>1, <2>2
<1> QED
  BY <1>2, <1>3

LEMMA NextOfLast ==
  ASSUME NEW rows, NEW last \in rows, last.seq \in Nat, \A s \in rows : s.seq \in Int,
         \A s \in rows : s # last => s.seq < last.seq
  PROVE  NextSeq(rows) = last.seq + 1 /\ LastHash(rows) = last.hash
<1>1. Last(rows) = {last}
  BY DEF Last, Unset
<1> QED
  BY <1>1 DEF NextSeq, LastHash

LEMMA NextOfChain ==
  ASSUME NEW rows \in SUBSET Row, NEW c \in Seq(Payload), ChainedOf(rows) = Chain(c)
  PROVE  NextSeq(rows) = Len(c) /\ LastHash(rows) = c
<1>1. Len(c) \in Nat
  BY LenProperties
<1>2. \A r \in rows : r.seq = Unset \/ r \in Chain(c)
  BY DEF ChainedOf
<1>3. CASE Len(c) = 0
  <2>1. Chain(c) = {} /\ c = <<>>
    BY <1>3, EmptySeq DEF Chain
  <2>2. Last(rows) = {}
    BY <1>2, <2>1 DEF Last
  <2> QED
    BY <1>3, <2>1, <2>2 DEF NextSeq, LastHash, NoHash
<1>4. CASE Len(c) # 0
  <2> DEFINE last == RowAt(c, Len(c))
  <2>1. Len(c) \in 1..Len(c)
    BY <1>1, <1>4
  <2>2. last \in rows /\ last.seq = Len(c) - 1 /\ last.hash = c
    <3>1. last \in Chain(c)
      BY <2>1 DEF Chain
    <3>2. Upto(c, Len(c)) = c
      BY <1>1, UptoIs
    <3> QED
      BY <2>1, <3>1, <3>2, RowAtIs DEF ChainedOf
  <2>3. ASSUME NEW s \in rows, s # last PROVE s.seq < last.seq
    <3>1. CASE s.seq = Unset
      BY <1>1, <1>4, <2>2, <3>1 DEF Unset
    <3>2. CASE s \in Chain(c)
      <4>1. PICK k \in 1..Len(c) : s = RowAt(c, k)
        BY <3>2 DEF Chain
      <4>2. k # Len(c) /\ s.seq = k - 1
        BY <2>3, <4>1, RowAtIs
      <4> QED
        BY <1>1, <2>2, <4>2
    <3> QED
      BY <1>2, <3>1, <3>2
  <2>4. \A s \in rows : s.seq \in Int
    BY DEF Row, Unset
  <2>5. last.seq \in Nat /\ last.seq + 1 = Len(c)
    BY <1>1, <1>4, <2>2
  <2> HIDE DEF last
  <2> QED
    BY <2>2, <2>3, <2>4, <2>5, NextOfLast
<1> QED
  BY <1>3, <1>4

LEMMA LinkType ==
  ASSUME NEW rows \in SUBSET Row, IsFiniteSet(rows), NEW row \in Row
  PROVE  /\ Link(row, rows) \in Row /\ Canonical(row) \in Payload
         /\ Link(row, rows).seq = NextSeq(rows) /\ Link(row, rows).seq # Unset
         /\ Link(row, rows).hash = Append(LastHash(rows), Canonical(row))
         /\ Link(row, rows).born = row.born
         /\ Link(Link(row, rows), rows) = Link(row, rows)
<1>1. NextSeq(rows) \in Nat /\ LastHash(rows) \in Seq(Payload)
  BY NextIsBehind
<1>2. Canonical(row) \in Payload
  BY DEF Canonical, Row, Payload
<1>3. Append(LastHash(rows), Canonical(row)) \in Seq(Payload)
  BY <1>1, <1>2, AppendProperties
<1>4. Link(row, rows) = [seq |-> NextSeq(rows), said |-> row.said, canon |-> Canonical(row),
                         prev |-> LastHash(rows), hash |-> Append(LastHash(rows), Canonical(row)),
                         born |-> row.born]
  BY DEF Link, Row, Hash
<1>5. Canonical(Link(row, rows)) = Canonical(row)
  BY <1>4 DEF Canonical
<1>6. Link(row, rows) \in Row
  BY <1>1, <1>2, <1>3, <1>4 DEF Row
<1>7. Link(row, rows).said = row.said /\ Link(row, rows).born = row.born
  BY <1>4
<1>8. Link(Link(row, rows), rows) = Link(row, rows)
  BY <1>5, <1>7 DEF Link
<1>9. Link(row, rows).seq = NextSeq(rows) /\ Link(row, rows).seq # Unset
  BY <1>1, <1>4 DEF Unset
<1>10. Link(row, rows).hash = Append(LastHash(rows), Canonical(row))
  BY <1>4
<1> QED
  BY <1>2, <1>6, <1>7, <1>8, <1>9, <1>10

\* A row linked behind a whole chain makes it one longer.
LEMMA ChainGrows ==
  ASSUME NEW rows \in SUBSET Row, NEW c \in Seq(Payload), ChainedOf(rows) = Chain(c), NEW row \in Row
  PROVE  LET d == Append(c, Canonical(row))
         IN  /\ d \in Seq(Payload) /\ Len(d) = Len(c) + 1
             /\ Link(row, rows) = RowAt(d, Len(c) + 1)
             /\ Chain(d) = Chain(c) \cup {Link(row, rows)}
<1> DEFINE p == Canonical(row)
           d == Append(c, p)
<1>1. p \in Payload /\ p = <<row.said, row.born>>
  BY DEF Canonical, Row, Payload
<1>2. /\ d \in Seq(Payload) /\ Len(d) = Len(c) + 1 /\ d[Len(c) + 1] = p
      /\ \A i \in 1..Len(c) : d[i] = c[i]
      /\ Len(c) \in Nat
  BY <1>1, AppendProperties, LenProperties
<1>3. NextSeq(rows) = Len(c) /\ LastHash(rows) = c
  BY NextOfChain
<1> HIDE DEF p
<1>4. Link(row, rows) = [seq |-> Len(c), said |-> row.said, canon |-> p, prev |-> c, hash |-> d,
                         born |-> row.born]
  BY <1>3 DEF Link, Row, Hash, p
<1> HIDE DEF d
<1>5. \A k \in 0..Len(c) : Upto(d, k) = Upto(c, k)
  BY <1>2 DEF Upto
<1>6. Upto(d, Len(c)) = c /\ Upto(d, Len(c) + 1) = d
  <2>1. Len(c) \in 0..Len(c) /\ Len(d) \in 0..Len(d)
    BY <1>2
  <2> QED
    BY <1>2, <1>5, <2>1, UptoIs
<1>7. RowAt(d, Len(c) + 1) = Link(row, rows)
  <2>1. d[Len(c) + 1][1] = row.said /\ d[Len(c) + 1][2] = row.born /\ (Len(c) + 1) - 1 = Len(c)
    BY <1>1, <1>2
  <2>2. RowAt(d, Len(c) + 1) = [seq |-> Len(c), said |-> row.said, canon |-> p, prev |-> c, hash |-> d,
                                born |-> row.born]
    BY <1>2, <1>6, <2>1 DEF RowAt
  <2> QED
    BY <1>4, <2>2
<1>8. \A k \in 1..Len(c) : RowAt(d, k) = RowAt(c, k)
  BY <1>2, <1>5 DEF RowAt
<1>9. Chain(d) = Chain(c) \cup {Link(row, rows)}
  <2>1. 1..Len(d) = 1..Len(c) \cup {Len(c) + 1}
    BY <1>2
  <2> QED
    BY <1>7, <1>8, <2>1 DEF Chain
<1> QED
  BY <1>2, <1>7, <1>9 DEF d, p

------------------------------------------------------------------------------
(***************************************************************************)
(* Rows chained one after the other: the recursion of ChainedBehind is     *)
(* solved by the rows that Behind gives, and by nothing else.              *)
(***************************************************************************)
HashAt(h, rows, k) ==
  [m \in 1..(Len(h) + k) |-> IF m <= Len(h) THEN h[m] ELSE Canonical(rows[m - Len(h)])]

Behind(rows, there, k) ==
  [seq |-> NextSeq(there) + (k - 1), said |-> rows[k].said, canon |-> Canonical(rows[k]),
   prev |-> HashAt(LastHash(there), rows, k - 1), hash |-> HashAt(LastHash(there), rows, k),
   born |-> rows[k].born]

Filled(rows, there, n) == there \cup {Behind(rows, there, k) : k \in 1..n}

LEMMA HashAtIs ==
  ASSUME NEW h \in Seq(Payload), NEW rows \in Seq(Row), NEW k \in 0..Len(rows)
  PROVE  /\ HashAt(h, rows, k) \in Seq(Payload) /\ Len(HashAt(h, rows, k)) = Len(h) + k
         /\ k = 0 => HashAt(h, rows, k) = h
         /\ k # 0 => HashAt(h, rows, k) = Append(HashAt(h, rows, k - 1), Canonical(rows[k]))
<1>1. /\ Len(h) \in Nat /\ h \in [1..Len(h) -> Payload] /\ k \in Nat
      /\ Len(rows) \in Nat /\ rows \in [1..Len(rows) -> Row]
  BY LenProperties
<1>2. \A j \in 1..Len(rows) : Canonical(rows[j]) \in Payload
  BY <1>1 DEF Canonical, Row, Payload
<1>3. ASSUME NEW j \in 0..Len(rows)
      PROVE  HashAt(h, rows, j) \in Seq(Payload) /\ Len(HashAt(h, rows, j)) = Len(h) + j
  <2>1. \A m \in 1..(Len(h) + j) :
          (IF m <= Len(h) THEN h[m] ELSE Canonical(rows[m - Len(h)])) \in Payload
    <3> SUFFICES ASSUME NEW m \in 1..(Len(h) + j)
                 PROVE  (IF m <= Len(h) THEN h[m] ELSE Canonical(rows[m - Len(h)])) \in Payload
      OBVIOUS
    <3>1. CASE m <= Len(h)
      BY <1>1, <3>1
    <3>2. CASE ~(m <= Len(h))
      <4>1. m - Len(h) \in 1..Len(rows)
        BY <1>1, <3>2
      <4> QED
        BY <1>2, <3>2, <4>1
    <3> QED
      BY <3>1, <3>2
  <2>2. Len(h) + j \in Nat
    BY <1>1
  <2> QED
    BY <2>1, <2>2 DEF HashAt
<1>4. k = 0 => HashAt(h, rows, k) = h
  BY <1>1 DEF HashAt
<1>5. ASSUME k # 0 PROVE HashAt(h, rows, k) = Append(HashAt(h, rows, k - 1), Canonical(rows[k]))
  <2> DEFINE before == HashAt(h, rows, k - 1)
             p == Canonical(rows[k])
             n == Len(h) + k
  <2>0. k \in 1..Len(rows) /\ k - 1 \in 0..Len(rows) /\ n \in Nat /\ n - 1 \in Nat
    BY <1>1, <1>5
  <2>1. before \in Seq(Payload) /\ Len(before) = n - 1 /\ p \in Payload
    <3>1. Len(h) + (k - 1) = n - 1
      BY <1>1, <2>0
    <3> QED
      BY <1>2, <1>3, <2>0, <3>1
  <2>2. \A i \in 1..(n - 1) :
          before[i] = IF i <= Len(h) THEN h[i] ELSE Canonical(rows[i - Len(h)])
    BY <1>1, <2>0 DEF HashAt
  <2> HIDE DEF before
  <2> DEFINE longer == Append(before, p)
  <2>3. /\ longer \in Seq(Payload) /\ Len(longer) = (n - 1) + 1
        /\ \A i \in 1..(n - 1) : longer[i] = before[i]
        /\ longer[(n - 1) + 1] = p
    <3> HIDE DEF p, n
    <3> QED
      BY <2>1, AppendProperties
  <2>4. Len(longer) = n /\ longer[n] = p
    BY <2>0, <2>3
  <2> HIDE DEF longer
  <2>5. \A i \in 1..n :
          longer[i] = IF i <= Len(h) THEN h[i] ELSE Canonical(rows[i - Len(h)])
    <3> SUFFICES ASSUME NEW i \in 1..n
                 PROVE  longer[i] = IF i <= Len(h) THEN h[i] ELSE Canonical(rows[i - Len(h)])
      OBVIOUS
    <3>1. CASE i = n
      <4>1. ~(i <= Len(h)) /\ i - Len(h) = k
        BY <1>1, <2>0, <3>1
      <4> QED
        BY <2>4, <3>1, <4>1
    <3>2. CASE i # n
      <4>1. i \in 1..(n - 1)
        BY <2>0, <3>2
      <4> QED
        BY <2>2, <2>3, <4>1
    <3> QED
      BY <3>1, <3>2
  <2>6. \A i \in 1..n :
          HashAt(h, rows, k)[i] = IF i <= Len(h) THEN h[i] ELSE Canonical(rows[i - Len(h)])
    BY DEF HashAt
  <2>7. HashAt(h, rows, k) \in Seq(Payload) /\ Len(HashAt(h, rows, k)) = n
    BY <1>3
  <2>8. HashAt(h, rows, k) = longer
    <3> HIDE DEF n
    <3> QED
      BY <2>3, <2>4, <2>5, <2>6, <2>7, SeqEqual
  <2> QED
    BY <2>8 DEF longer, before
<1> QED
  BY <1>3, <1>4, <1>5

LEMMA BehindIs ==
  ASSUME NEW there \in SUBSET Row, IsFiniteSet(there), NEW rows \in Seq(Row), NEW k \in 1..Len(rows)
  PROVE  /\ Behind(rows, there, k) \in Row
         /\ Behind(rows, there, k).seq = NextSeq(there) + (k - 1)
         /\ Behind(rows, there, k).seq \in Nat
         /\ Behind(rows, there, k).born = rows[k].born
         /\ Behind(rows, there, k).hash = HashAt(LastHash(there), rows, k)
<1>1. NextSeq(there) \in Nat /\ LastHash(there) \in Seq(Payload)
  BY NextIsBehind
<1>2. Len(rows) \in Nat /\ rows[k] \in Row /\ k \in 0..Len(rows) /\ k - 1 \in 0..Len(rows)
  BY LenProperties, ElementOfSeq
<1>3. /\ HashAt(LastHash(there), rows, k) \in Seq(Payload)
      /\ HashAt(LastHash(there), rows, k - 1) \in Seq(Payload)
  BY <1>1, <1>2, HashAtIs
<1>4. NextSeq(there) + (k - 1) \in Nat
  BY <1>1, <1>2
<1>5. Canonical(rows[k]) \in Payload /\ rows[k].said \in Said /\ rows[k].born \in Int
  BY <1>2 DEF Canonical, Row, Payload
<1> QED
  BY <1>3, <1>4, <1>5 DEF Behind, Row

LEMMA FilledIs ==
  ASSUME NEW there \in SUBSET Row, IsFiniteSet(there), NEW rows \in Seq(Row), NEW n \in 0..Len(rows)
  PROVE  /\ Filled(rows, there, n) \in SUBSET Row /\ IsFiniteSet(Filled(rows, there, n))
         /\ NextSeq(Filled(rows, there, n)) = NextSeq(there) + n
         /\ LastHash(Filled(rows, there, n)) = HashAt(LastHash(there), rows, n)
<1> DEFINE more == {Behind(rows, there, k) : k \in 1..n}
<1>1. Len(rows) \in Nat /\ n \in Nat /\ \A k \in 1..n : k \in 1..Len(rows)
  BY LenProperties
<1>2. Filled(rows, there, n) \in SUBSET Row
  BY <1>1, BehindIs DEF Filled
<1>3. IsFiniteSet(Filled(rows, there, n))
  <2>1. [k \in 1..n |-> Behind(rows, there, k)] \in Surjection(1..n, more)
    BY DEF Surjection
  <2>2. IsFiniteSet(1..n)
    BY <1>1, FS_Interval
  <2>3. IsFiniteSet(more)
    BY <2>1, <2>2, FS_Surjection
  <2> HIDE DEF more
  <2>4. IsFiniteSet(there \cup more)
    BY <2>3, FS_Union
  <2> QED
    BY <2>4 DEF Filled, more
<1>4. /\ NextSeq(there) \in Nat /\ LastHash(there) \in Seq(Payload)
      /\ \A r \in there : r.seq < NextSeq(there) /\ r.seq \in Int
  BY NextIsBehind DEF Row, Unset
<1>5. CASE n = 0
  <2>1. Filled(rows, there, n) = there
    BY <1>5 DEF Filled
  <2> QED
    BY <1>1, <1>2, <1>3, <1>4, <1>5, <2>1, HashAtIs
<1>6. CASE n # 0
  <2> DEFINE last == Behind(rows, there, n)
             all == Filled(rows, there, n)
  <2>1. n \in 1..n /\ n \in 1..Len(rows)
    BY <1>1, <1>6
  <2>2. /\ last \in all /\ last.seq = NextSeq(there) + (n - 1) /\ last.seq \in Nat
        /\ last.hash = HashAt(LastHash(there), rows, n)
    BY <2>1, BehindIs DEF Filled
  <2>3. ASSUME NEW s \in all, s # last PROVE s.seq < last.seq
    <3>1. CASE s \in there
      BY <1>1, <1>4, <1>6, <2>2, <3>1
    <3>2. CASE s \notin there
      <4>1. PICK k \in 1..n : s = Behind(rows, there, k)
        BY <3>2 DEF Filled
      <4>2. k # n /\ k \in 1..Len(rows)
        BY <1>1, <2>3, <4>1
      <4>3. s.seq = NextSeq(there) + (k - 1)
        BY <4>1, <4>2, BehindIs
      <4> QED
        BY <1>1, <1>4, <2>2, <4>2, <4>3
    <3> QED
      BY <3>1, <3>2
  <2>4. \A s \in all : s.seq \in Int
    BY <1>2 DEF Row, Unset
  <2>5. NextSeq(all) = last.seq + 1 /\ LastHash(all) = last.hash
    <3> HIDE DEF last, all
    <3> QED
      BY <2>2, <2>3, <2>4, NextOfLast
  <2>6. last.seq + 1 = NextSeq(there) + n
    BY <1>1, <1>4, <2>2
  <2> QED
    BY <1>2, <1>3, <2>2, <2>5, <2>6
<1> QED
  BY <1>5, <1>6

LEMMA FilledNext ==
  ASSUME NEW there \in SUBSET Row, IsFiniteSet(there), NEW rows \in Seq(Row), NEW n \in 1..Len(rows)
  PROVE  Filled(rows, there, n)
           = Filled(rows, there, n - 1) \cup {Link(rows[n], Filled(rows, there, n - 1))}
<1>1. Len(rows) \in Nat /\ n \in Int /\ n - 1 \in 0..Len(rows) /\ n \in 0..Len(rows) /\ n # 0
  BY LenProperties
<1>2. LastHash(there) \in Seq(Payload)
  BY NextIsBehind
<1>3. HashAt(LastHash(there), rows, n) = Append(HashAt(LastHash(there), rows, n - 1), Canonical(rows[n]))
  BY <1>1, <1>2, HashAtIs
<1>4. Link(rows[n], Filled(rows, there, n - 1)) = Behind(rows, there, n)
  BY <1>1, <1>3, FilledIs DEF Link, Behind, Hash
<1>5. 1..n = 1..(n - 1) \cup {n}
  BY <1>1
<1> QED
  BY <1>4, <1>5 DEF Filled

LEMMA ChainedBehindIs ==
  ASSUME NEW there \in SUBSET Row, IsFiniteSet(there), NEW rows \in Seq(Row)
  PROVE  ChainedBehind(rows, there) = Filled(rows, there, Len(rows))
<1> DEFINE N == Len(rows)
           Fills(f) == f = [n \in 0..N |-> IF n = 0 THEN there
                                           ELSE f[n - 1] \cup {Link(rows[n], f[n - 1])}]
           G == [n \in 0..N |-> Filled(rows, there, n)]
<1>1. N \in Nat
  BY LenProperties
<1>2. Fills(G)
  <2>1. \A n \in 0..N :
          Filled(rows, there, n) = IF n = 0 THEN there
                                   ELSE G[n - 1] \cup {Link(rows[n], G[n - 1])}
    <3> SUFFICES ASSUME NEW n \in 0..N
                 PROVE  Filled(rows, there, n) = IF n = 0 THEN there
                                   ELSE G[n - 1] \cup {Link(rows[n], G[n - 1])}
      OBVIOUS
    <3>1. CASE n = 0
      BY <3>1 DEF Filled
    <3>2. CASE n # 0
      <4>1. n \in 1..N /\ n - 1 \in 0..N
        BY <1>1, <3>2
      <4> QED
        BY <3>2, <4>1, FilledNext
    <3> QED
      BY <3>1, <3>2
  <2> QED
    BY <2>1
<1>3. ASSUME NEW f, Fills(f), NEW n \in 0..N PROVE f[n] = Filled(rows, there, n)
  <2> DEFINE Bad == {m \in 0..N : f[m] # Filled(rows, there, m)}
  <2>1. SUFFICES ASSUME Bad # {} PROVE FALSE
    BY <1>3
  <2>2. PICK m \in Bad : \A k \in Bad : m <= k
    <3>1. Bad \subseteq Nat
      BY <1>1
    <3> HIDE DEF Bad
    <3> QED
      BY <2>1, <3>1, LeastNumber
  <2>3. f[0] = Filled(rows, there, 0)
    BY <1>1, <1>3 DEF Filled
  <2>4. m \in 1..N /\ m - 1 \in 0..N /\ m - 1 \notin Bad
    BY <1>1, <2>2, <2>3
  <2>5. f[m - 1] = Filled(rows, there, m - 1)
    BY <2>4
  <2>6. f[m] = f[m - 1] \cup {Link(rows[m], f[m - 1])}
    <3> DEFINE g == [x \in 0..N |-> IF x = 0 THEN there ELSE f[x - 1] \cup {Link(rows[x], f[x - 1])}]
    <3>1. g[m] = f[m - 1] \cup {Link(rows[m], f[m - 1])}
      BY <1>1, <2>4
    <3>2. f = g
      BY <1>3
    <3> HIDE DEF g
    <3>3. f[m] = g[m]
      BY <3>2
    <3> QED
      BY <3>1, <3>3
  <2>7. f[m] = Filled(rows, there, m)
    BY <2>4, <2>5, <2>6, FilledNext
  <2> QED
    BY <2>2, <2>7
<1>4. ChainedBehind(rows, there) = (CHOOSE f : Fills(f))[N]
  BY DEF ChainedBehind
<1> HIDE DEF Fills
<1>5. Fills(CHOOSE f : Fills(f))
  BY <1>2
<1>6. N \in 0..N
  BY <1>1
<1> QED
  BY <1>3, <1>4, <1>5, <1>6

\* Behind a whole chain, they make it a longer one.
LEMMA FilledWhole ==
  ASSUME NEW c \in Seq(Payload), NEW rows \in Seq(Row)
  PROVE  Whole(Filled(rows, Chain(c), Len(rows)))
<1> DEFINE N == Len(rows)
           d == HashAt(c, rows, N)
<1>1. /\ N \in Nat /\ Len(c) \in Nat /\ Chain(c) \in SUBSET Row /\ IsFiniteSet(Chain(c))
      /\ ChainedOf(Chain(c)) = Chain(c)
  BY ChainIs, LenProperties
<1>2. NextSeq(Chain(c)) = Len(c) /\ LastHash(Chain(c)) = c
  BY <1>1, NextOfChain
<1>3. N \in 0..Len(rows)
  BY <1>1
<1>4. d \in Seq(Payload) /\ Len(d) = Len(c) + N
  BY <1>3, HashAtIs
<1>5. \A k \in 0..N : Upto(d, Len(c) + k) = HashAt(c, rows, k)
  <2> SUFFICES ASSUME NEW k \in 0..N PROVE Upto(d, Len(c) + k) = HashAt(c, rows, k)
    OBVIOUS
  <2>1. \A m \in 1..(Len(c) + k) : m \in 1..(Len(c) + N)
    BY <1>1
  <2> QED
    BY <2>1 DEF Upto, HashAt
<1>6. \A k \in 0..Len(c) : Upto(d, k) = Upto(c, k)
  BY <1>1 DEF Upto, HashAt
<1>7. \A k \in 1..Len(c) : d[k] = c[k]
  BY <1>1 DEF HashAt
<1>8. \A k \in 1..N : d[Len(c) + k] = Canonical(rows[k])
  <2> SUFFICES ASSUME NEW k \in 1..N PROVE d[Len(c) + k] = Canonical(rows[k])
    OBVIOUS
  <2>1. Len(c) + k \in 1..(Len(c) + N) /\ ~(Len(c) + k <= Len(c)) /\ (Len(c) + k) - Len(c) = k
    BY <1>1
  <2> QED
    BY <2>1 DEF HashAt
<1> HIDE DEF d
<1>9. \A k \in 1..Len(c) : RowAt(d, k) = RowAt(c, k)
  BY <1>1, <1>6, <1>7 DEF RowAt
<1>10. ASSUME NEW k \in 1..N PROVE RowAt(d, Len(c) + k) = Behind(rows, Chain(c), k)
  <2>1. /\ (Len(c) + k) - 1 = Len(c) + (k - 1) /\ k \in 0..N /\ k - 1 \in 0..N
    BY <1>1
  <2>2. Upto(d, (Len(c) + k) - 1) = HashAt(c, rows, k - 1) /\ Upto(d, Len(c) + k) = HashAt(c, rows, k)
    BY <1>5, <2>1
  <2>3. Canonical(rows[k]) = d[Len(c) + k] /\ d[Len(c) + k][1] = rows[k].said
        /\ d[Len(c) + k][2] = rows[k].born
    BY <1>8 DEF Canonical
  <2>4. RowAt(d, Len(c) + k)
          = [seq |-> Len(c) + (k - 1), said |-> rows[k].said, canon |-> Canonical(rows[k]),
             prev |-> HashAt(c, rows, k - 1), hash |-> HashAt(c, rows, k), born |-> rows[k].born]
    BY <2>1, <2>2, <2>3 DEF RowAt
  <2> QED
    BY <1>2, <2>4 DEF Behind
<1>11. Chain(d) = Filled(rows, Chain(c), N)
  <2>1. 1..Len(d) = 1..Len(c) \cup {Len(c) + k : k \in 1..N}
    <3>1. \A m \in 1..Len(d) : m \in 1..Len(c) \/ \E k \in 1..N : m = Len(c) + k
      <4> SUFFICES ASSUME NEW m \in 1..Len(d), m \notin 1..Len(c) PROVE \E k \in 1..N : m = Len(c) + k
        OBVIOUS
      <4>1. m - Len(c) \in 1..N /\ m = Len(c) + (m - Len(c))
        BY <1>1, <1>4
      <4> QED
        BY <4>1
    <3>2. \A k \in 1..N : Len(c) + k \in 1..Len(d)
      BY <1>1, <1>4
    <3>3. \A k \in 1..Len(c) : k \in 1..Len(d)
      BY <1>1, <1>4
    <3> QED
      BY <3>1, <3>2, <3>3
  <2> QED
    BY <1>9, <1>10, <2>1, ZenonT(60) DEF Chain, Filled
<1> QED
  BY <1>4, <1>11 DEF Whole

\* And each can be told apart.
LEMMA FilledApart ==
  ASSUME NEW there \in SUBSET Row, IsFiniteSet(there), NEW rows \in Seq(Row), Apart(there),
         \A r \in there : r.seq # Unset
  PROVE  Apart(Filled(rows, there, Len(rows))) /\ \A r \in Filled(rows, there, Len(rows)) : r.seq # Unset
<1>1. \A k \in 1..Len(rows) : /\ Behind(rows, there, k).seq = NextSeq(there) + (k - 1)
                              /\ Behind(rows, there, k).seq \in Nat
  BY BehindIs
<1>2. /\ NextSeq(there) \in Nat /\ Len(rows) \in Nat
      /\ \A r \in there : r.seq < NextSeq(there) /\ r.seq \in Nat
  BY NextIsBehind, LenProperties DEF Row
<1>3. \A k \in 1..Len(rows) : NextSeq(there) + (k - 1) >= NextSeq(there)
  BY <1>2
<1>4. \A j, k \in 1..Len(rows) : NextSeq(there) + (k - 1) = NextSeq(there) + (j - 1) => j = k
  BY <1>2
<1>5. \A r \in Filled(rows, there, Len(rows)) : r.seq # Unset
  BY <1>1 DEF Filled, Unset
<1>6. ASSUME NEW r \in Filled(rows, there, Len(rows)), NEW s \in Filled(rows, there, Len(rows)),
             r.seq = s.seq
      PROVE  r = s
  <2>1. CASE r \in there /\ s \in there
    BY <1>6, <2>1 DEF Apart
  <2>2. ASSUME NEW q \in there, NEW k \in 1..Len(rows) PROVE q.seq # Behind(rows, there, k).seq
    BY <1>1, <1>2, <1>3
  <2>3. CASE r \notin there /\ s \notin there
    BY <1>1, <1>4, <1>6, <2>3 DEF Filled
  <2> QED
    BY <1>6, <2>1, <2>2, <2>3 DEF Filled
<1> QED
  BY <1>5, <1>6 DEF Apart

------------------------------------------------------------------------------
(***************************************************************************)
(* The invariant.  As long as nobody has tampered with it, the log is the  *)
(* chain of some payloads, every snapshot in use is a beginning of it, and *)
(* a row that waits to be committed is the next one.                       *)
(***************************************************************************)
Transaction == [at: {"away", "open", "locked", "inserted", "refused", "done"},
                level: Isolation \cup {"committed"}, sees: SUBSET Row, row: Row]

AuditTyped ==
  /\ log \in SUBSET Row /\ IsFiniteSet(log)
  /\ tx \in [Inserter -> Transaction] /\ \A w \in Inserter : IsFiniteSet(tx[w].sees)
  /\ lockOwner \in Inserter \cup {Unlocked}
  /\ migrated \in {"old", "filled", "strict", "chained"}
  /\ reader \in [at: {"idle", "reading", "read"}, got: Seq(Row), there: SUBSET Row, cap: Nat,
                 undisturbed: BOOLEAN]
  /\ exports \in SUBSET [key: Int \X Int, rows: SUBSET Row]
  /\ anchors \in SUBSET [key: Int \X Int, rows: SUBSET Row, chain: SUBSET Row]
  /\ tampers \in Nat

\* What the migration has left behind at each of its stages.
Migrating ==
  /\ migrated # "chained" => tampers = 0 /\ exports = {} /\ anchors = {} /\ reader = NotRead
  /\ migrated \in {"strict", "chained"} => \A r \in log : r.seq # Unset

\* Until the trigger is there, a row to come has a created_at of its own.
Dated ==
  migrated # "chained" =>
    \A w \in Inserter : tx[w].at = "open" =>
      /\ tx[w].row.seq = Unset
      /\ \A r \in log : r.born # tx[w].row.born
      /\ \A v \in Inserter : v # w /\ tx[v].at = "open" => tx[v].row.born # tx[w].row.born

Locking ==
  \A w \in Inserter :
    tx[w].at \in {"locked", "inserted"} =>
      /\ lockOwner = w /\ migrated = "chained"
      /\ tx[w].at = "inserted" => tx[w].row.seq # Unset

\* What a transaction knows of the chain.
Knows(t) ==
  /\ t.at \in {"open", "locked"} => Whole(ChainedOf(t.sees)) /\ ChainedOf(t.sees) \subseteq log
  /\ t.at = "inserted" => t.row = Link(t.row, log)

Kept == tampers = 0 => Whole(Chained) /\ \A w \in Inserter : Knows(tx[w])

\* What an undisturbed verification has read.
Undisturbed ==
  reader.at # "idle" /\ reader.undisturbed =>
    /\ tampers = 0 /\ migrated = "chained"
    /\ Whole(reader.there) /\ reader.there \subseteq log
    /\ \A i \in 1..Len(reader.got) : reader.got[i] \in log

\* An anchor is a stretch of a chain, with the chain up to its end, and its
\* object stays what it was.
CutFrom(x, c) ==
  \E i, j \in 1..Len(c) : /\ i <= j
                          /\ x.rows = {RowAt(c, k) : k \in i..j}
                          /\ x.chain = {RowAt(c, k) : k \in 1..j}
Cut ==
  \A a \in anchors : /\ \E c \in Seq(Payload) : CutFrom(a, c)
                     /\ \E x \in exports : x.key = a.key
                     /\ \A x \in exports : x.key = a.key => x.rows = a.rows

Sound == Apart(log) /\ Migrating /\ Dated /\ Locking /\ Kept /\ Undisturbed /\ Cut

LEMMA BareIs ==
  ASSUME NEW c \in Said, NEW b \in Int
  PROVE  Bare(c, b) \in Row /\ Bare(c, b).seq = Unset /\ Bare(c, b).born = b
<1>1. <<>> \in Seq(Payload)
  BY EmptySeq
<1> QED
  BY <1>1 DEF Bare, Row, NoHash

LEMMA AwayIs == Away \in Transaction /\ Away.at = "away" /\ Away.sees = {} /\ IsFiniteSet(Away.sees)
<1>1. Bare(Nothing, 0) \in Row
  BY BareIs DEF Said
<1> QED
  BY <1>1, FS_EmptySet DEF Away, Transaction

LEMMA InitSound == CInit => AuditTyped /\ Sound
<1> SUFFICES ASSUME CInit PROVE AuditTyped /\ Sound
  OBVIOUS
<1>1. PICK said \in [1..Legacy -> Content] : log = {Bare(said[i], i) : i \in 1..Legacy}
  BY DEF CInit
<1>2. Legacy \in Nat /\ \A i \in 1..Legacy : said[i] \in Said /\ i \in Int
  BY SizeAssumption DEF Said
<1>3. \A i \in 1..Legacy : Bare(said[i], i) \in Row /\ Bare(said[i], i).seq = Unset /\ Bare(said[i], i).born = i
  BY <1>2, BareIs
<1>4. log \in SUBSET Row /\ IsFiniteSet(log) /\ Apart(log) /\ Chained = {}
  <2>1. [i \in 1..Legacy |-> Bare(said[i], i)] \in Surjection(1..Legacy, log)
    BY <1>1 DEF Surjection
  <2>2. IsFiniteSet(1..Legacy)
    BY <1>2, FS_Interval
  <2>3. IsFiniteSet(log)
    BY <2>1, <2>2, FS_Surjection
  <2> QED
    BY <1>1, <1>3, <2>3 DEF Apart, Chained
<1>5. Whole({})
  <2>1. <<>> \in Seq(Payload) /\ Chain(<<>>) = {}
    BY EmptySeq DEF Chain
  <2> QED
    BY <2>1 DEF Whole
<1>6. tx = [w \in Inserter |-> Away] /\ lockOwner = Unlocked /\ reader = NotRead /\ exports = {} /\ anchors = {} /\ tampers = 0
      /\ migrated = IF Legacy = 0 THEN "chained" ELSE "old"
  BY DEF CInit
<1>7. AuditTyped
  <2>1. NotRead \in [at: {"idle", "reading", "read"}, got: Seq(Row), there: SUBSET Row, cap: Nat, undisturbed: BOOLEAN]
    BY EmptySeq DEF NotRead
  <2>2. tx \in [Inserter -> Transaction] /\ \A w \in Inserter : IsFiniteSet(tx[w].sees)
    BY <1>6, AwayIs
  <2> QED
    BY <1>4, <1>6, <2>1, <2>2 DEF AuditTyped
<1>8. \A w \in Inserter : tx[w].at = "away"
  BY <1>6, AwayIs
<1>9. Migrating
  <2>1. Legacy = 0 => log = {}
    BY <1>1
  <2> QED
    BY <1>6, <2>1 DEF Migrating
<1>10. Kept /\ Undisturbed /\ Cut
  BY <1>4, <1>5, <1>6, <1>8 DEF Kept, Knows, Undisturbed, Cut, NotRead
<1> QED
  BY <1>4, <1>7, <1>8, <1>9, <1>10 DEF Sound, Dated, Locking

------------------------------------------------------------------------------
(***************************************************************************)
(* Steps of a transaction.                                                 *)
(***************************************************************************)
\* One that changes nothing but the transaction and the lock.
LEMMA TxMoves ==
  ASSUME AuditTyped, Sound, NEW w \in Inserter, NEW t \in Transaction, IsFiniteSet(t.sees),
         tx' = [tx EXCEPT ![w] = t], lockOwner' \in Inserter \cup {Unlocked},
         UNCHANGED <<log, migrated, reader, exports, anchors, tampers>>,
         t.at = "open" /\ migrated # "chained" =>
           /\ t.row.seq = Unset
           /\ \A r \in log : r.born # t.row.born
           /\ \A v \in Inserter : v # w /\ tx[v].at = "open" => tx[v].row.born # t.row.born,
         t.at \in {"locked", "inserted"} => lockOwner' = w /\ migrated = "chained",
         t.at = "inserted" => t.row.seq # Unset,
         \A v \in Inserter : v # w /\ tx[v].at \in {"locked", "inserted"} => lockOwner' = lockOwner,
         tampers = 0 => Knows(t)
  PROVE  AuditTyped' /\ Sound'
<1>0. /\ tx \in [Inserter -> Transaction]
      /\ tx'[w] = t /\ \A v \in Inserter : v # w => tx'[v] = tx[v]
  BY DEF AuditTyped
<1>1. AuditTyped'
  BY <1>0 DEF AuditTyped
<1>2. Apart(log)' /\ Migrating' /\ Undisturbed' /\ Cut'
  BY DEF Sound, Apart, Migrating, Undisturbed, Cut, CutFrom
<1>3. Dated'
  <2> SUFFICES ASSUME migrated # "chained", NEW v \in Inserter, tx'[v].at = "open"
               PROVE  /\ tx'[v].row.seq = Unset
                      /\ \A r \in log : r.born # tx'[v].row.born
                      /\ \A u \in Inserter : u # v /\ tx'[u].at = "open" => tx'[u].row.born # tx'[v].row.born
    BY DEF Dated
  <2>1. CASE v = w
    BY <1>0, <2>1
  <2>2. CASE v # w
    BY <1>0, <2>2 DEF Sound, Dated
  <2> QED
    BY <2>1, <2>2
<1>4. Locking'
  <2> SUFFICES ASSUME NEW v \in Inserter, tx'[v].at \in {"locked", "inserted"}
               PROVE  /\ lockOwner' = v /\ migrated = "chained"
                      /\ tx'[v].at = "inserted" => tx'[v].row.seq # Unset
    BY DEF Locking
  <2> QED
    BY <1>0 DEF Sound, Locking
<1>5. Kept'
  <2>1. SUFFICES ASSUME tampers = 0 PROVE Whole(Chained) /\ \A v \in Inserter : Knows(tx'[v])
    BY DEF Kept, Chained, Knows
  <2> QED
    BY <1>0, <2>1 DEF Sound, Kept
<1> QED
  BY <1>1, <1>2, <1>3, <1>4, <1>5 DEF Sound

LEMMA EndIs ==
  ASSUME NEW at \in {"done", "refused"}
  PROVE  LET t == [Away EXCEPT !.at = at]
         IN  t \in Transaction /\ t.at = at /\ IsFiniteSet(t.sees) /\ Knows(t)
BY AwayIs DEF Transaction, Knows

\* created_at is newer than any there is.
LEMMA NewestIs ==
  ASSUME AuditTyped
  PROVE  /\ Newest \in Int
         /\ \A r \in log : r.born <= Newest
         /\ \A w \in Inserter : tx[w].row.born <= Newest
<1> DEFINE B1 == {r.born : r \in log}
           B2 == {tx[w].row.born : w \in Inserter}
           all == B1 \cup B2 \cup {0}
<1>1. all \subseteq Int
  BY DEF AuditTyped, Row, Transaction
<1>2. IsFiniteSet(B1)
  <2>1. [r \in log |-> r.born] \in Surjection(log, B1)
    BY DEF Surjection
  <2> QED
    BY <2>1, FS_Surjection DEF AuditTyped
<1>3. IsFiniteSet(B2)
  <2>1. [w \in Inserter |-> tx[w].row.born] \in Surjection(Inserter, B2)
    BY DEF Surjection
  <2> QED
    BY <2>1, FS_Surjection, InserterAssumption
<1>4. IsFiniteSet(all)
  <2> HIDE DEF B1, B2
  <2>1. IsFiniteSet({0})
    BY FS_Singleton
  <2>2. IsFiniteSet(B1 \cup B2)
    BY <1>2, <1>3, FS_Union
  <2> QED
    BY <2>1, <2>2, FS_Union
<1>5. Newest = CHOOSE b \in all : \A c \in all : c <= b
  BY DEF Newest
<1>6. all # {}
  OBVIOUS
<1>7. Newest \in all /\ \A c \in all : c <= Newest
  <2> HIDE DEF all
  <2>1. \E b \in all : \A c \in all : c <= b
    BY <1>1, <1>4, <1>6, GreatestNumber
  <2> QED
    BY <1>5, <2>1
<1> QED
  BY <1>1, <1>7

LEMMA KeptOpens ==
  ASSUME AuditTyped, Sound, NEW w \in Inserter, Opens(w)
  PROVE  AuditTyped' /\ Sound'
<1>1. PICK c \in Content, level \in Isolation :
        tx' = [tx EXCEPT ![w] = [at |-> "open", level |-> level, sees |-> log, row |-> Bare(c, Newest + 1)]]
  BY DEF Opens
<1> DEFINE t == [at |-> "open", level |-> level, sees |-> log, row |-> Bare(c, Newest + 1)]
<1>2. Bare(c, Newest + 1) \in Row /\ Bare(c, Newest + 1).seq = Unset /\ Bare(c, Newest + 1).born = Newest + 1
  BY NewestIs, BareIs DEF Said
<1>3. t \in Transaction /\ IsFiniteSet(t.sees)
  BY <1>2 DEF AuditTyped, Transaction
<1>4. /\ \A r \in log : r.born # Newest + 1
      /\ \A v \in Inserter : tx[v].row.born # Newest + 1
  <2>1. /\ \A r \in log : r.born \in Int
        /\ \A v \in Inserter : tx[v].row.born \in Int
    BY DEF AuditTyped, Row, Transaction
  <2> QED
    BY <2>1, NewestIs
<1>5. tampers = 0 => Knows(t)
  BY DEF Knows, Sound, Kept, Chained, ChainedOf
<1>6. UNCHANGED <<log, lockOwner, migrated, reader, exports, anchors, tampers>> /\ lockOwner \in Inserter \cup {Unlocked}
  BY DEF Opens, AuditTyped
<1>7. /\ t.at = "open" /\ t.row.seq = Unset /\ \A r \in log : r.born # t.row.born
      /\ \A v \in Inserter : tx[v].row.born # t.row.born
  BY <1>2, <1>4
<1>8. tx' = [tx EXCEPT ![w] = t]
  BY <1>1
<1> HIDE DEF t
<1> QED
  BY <1>3, <1>5, <1>6, <1>7, <1>8, TxMoves

LEMMA KeptRejectedBare ==
  ASSUME AuditTyped, Sound, NEW w \in Inserter, RejectedBare(w)
  PROVE  AuditTyped' /\ Sound'
<1> DEFINE t == [Away EXCEPT !.at = "done"]
<1>1. t \in Transaction /\ t.at = "done" /\ IsFiniteSet(t.sees) /\ Knows(t)
  BY EndIs
<1>2. /\ UNCHANGED <<log, lockOwner, migrated, reader, exports, anchors, tampers>> /\ lockOwner \in Inserter \cup {Unlocked}
      /\ tx' = [tx EXCEPT ![w] = t]
  BY DEF RejectedBare, Ends, AuditTyped
<1> HIDE DEF t
<1> QED
  BY <1>1, <1>2, TxMoves

LEMMA KeptRollsBack ==
  ASSUME AuditTyped, Sound, NEW w \in Inserter, RollsBack(w)
  PROVE  AuditTyped' /\ Sound'
<1> DEFINE t == [Away EXCEPT !.at = "done"]
<1>1. t \in Transaction /\ t.at = "done" /\ IsFiniteSet(t.sees) /\ Knows(t)
  BY EndIs
<1>2. /\ UNCHANGED <<log, migrated, reader, exports, anchors, tampers>> /\ lockOwner' = Unlocked
      /\ tx' = [tx EXCEPT ![w] = t]
  BY DEF RollsBack, Ends
<1>3. \A v \in Inserter : v # w => tx[v].at \notin {"locked", "inserted"}
  BY DEF RollsBack, Sound, Locking
<1> HIDE DEF t
<1> QED
  BY <1>1, <1>2, <1>3, TxMoves

LEMMA KeptLocksChain ==
  ASSUME AuditTyped, Sound, NEW w \in Inserter, LocksChain(w)
  PROVE  AuditTyped' /\ Sound'
<1> DEFINE t == [tx[w] EXCEPT !.at = "locked"]
<1>1. tx[w] \in Transaction /\ tx[w].at = "open" /\ IsFiniteSet(tx[w].sees)
  BY DEF LocksChain, AuditTyped
<1>2. t \in Transaction /\ IsFiniteSet(t.sees) /\ t.at = "locked" /\ t.sees = tx[w].sees
  BY <1>1 DEF Transaction
<1>3. tampers = 0 => Knows(t)
  BY <1>1, <1>2 DEF Sound, Kept, Knows
<1>4. /\ UNCHANGED <<log, migrated, reader, exports, anchors, tampers>> /\ lockOwner' = w /\ migrated = "chained"
      /\ tx' = [tx EXCEPT ![w] = t]
  BY DEF LocksChain, ToTx
<1>5. \A v \in Inserter : tx[v].at \notin {"locked", "inserted"}
  BY InserterAssumption DEF LocksChain, Unlocked, Sound, Locking
<1> HIDE DEF t
<1> QED
  BY <1>2, <1>3, <1>4, <1>5, TxMoves

\* A row linked behind a snapshot that is no longer the whole chain takes a
\* seq that is taken; one that is not taken is linked behind the whole chain.
LEMMA LinkedBehindAll ==
  ASSUME AuditTyped, Sound, tampers = 0, NEW t \in Transaction, Knows(t), t.at = "locked", IsFiniteSet(t.sees),
         ~Taken(Link(t.row, t.sees))
  PROVE  Link(t.row, t.sees) = Link(t.row, log)
<1>1. PICK c \in Seq(Payload) : Chained = Chain(c)
  BY DEF Sound, Kept, Whole
<1>2. PICK d \in Seq(Payload) : ChainedOf(t.sees) = Chain(d)
  BY DEF Knows, Whole
<1>3. t.sees \in SUBSET Row /\ log \in SUBSET Row /\ ChainedOf(log) = Chain(c)
  BY <1>1 DEF AuditTyped, Transaction, Chained, ChainedOf
<1>4. Chain(d) \subseteq Chain(c)
  BY <1>2, <1>3 DEF Knows, ChainedOf
<1>5. Len(c) \in Nat /\ Len(d) \in Nat
  BY LenProperties
<1>6. NextSeq(t.sees) = Len(d)
  BY <1>2, <1>3, NextOfChain
<1>7. ~(Len(d) < Len(c))
  <2>1. SUFFICES ASSUME Len(d) < Len(c) PROVE FALSE
    OBVIOUS
  <2>2. Len(d) + 1 \in 1..Len(c)
    BY <1>5, <2>1
  <2>3. RowAt(c, Len(d) + 1) \in log /\ RowAt(c, Len(d) + 1).seq = Len(d)
    <3>1. RowAt(c, Len(d) + 1) \in Chain(c)
      BY <2>2 DEF Chain
    <3>2. RowAt(c, Len(d) + 1).seq = (Len(d) + 1) - 1
      BY <2>2, RowAtIs
    <3> QED
      BY <1>3, <1>5, <3>1, <3>2 DEF ChainedOf
  <2>4. Link(t.row, t.sees).seq = Len(d)
    BY <1>6 DEF Link
  <2> QED
    BY <2>3, <2>4 DEF Taken
<1>8. Chain(d) = Chain(c)
  <2>1. IsFiniteSet(Chain(c)) /\ Cardinality(Chain(c)) = Len(c) /\ Cardinality(Chain(d)) = Len(d)
    BY ChainIs
  <2> QED
    BY <1>4, <1>5, <1>7, <2>1, FS_Subset
<1>9. NextSeq(t.sees) = Len(c) /\ LastHash(t.sees) = c /\ NextSeq(log) = Len(c) /\ LastHash(log) = c
  BY <1>2, <1>3, <1>8, NextOfChain
<1> QED
  BY <1>9 DEF Link

LEMMA KeptInsertsRow ==
  ASSUME AuditTyped, Sound, NEW w \in Inserter, InsertsRow(w)
  PROVE  AuditTyped' /\ Sound'
<1> DEFINE row == Link(tx[w].row, Visible(w))
<1>1. /\ tx[w].at = "locked" /\ tx[w] \in Transaction /\ IsFiniteSet(tx[w].sees) /\ IsFiniteSet(log)
      /\ tx[w].sees \in SUBSET Row /\ log \in SUBSET Row /\ tx[w].row \in Row
      /\ UNCHANGED <<log, migrated, reader, exports, anchors, tampers>>
  BY DEF InsertsRow, AuditTyped, Transaction
<1>2. \A v \in Inserter : v # w => tx[v].at \notin {"locked", "inserted"}
  BY <1>1 DEF Sound, Locking
<1>3. CASE Taken(row)
  <2> DEFINE t == [Away EXCEPT !.at = "refused"]
  <2>1. t \in Transaction /\ t.at = "refused" /\ IsFiniteSet(t.sees) /\ Knows(t)
    BY EndIs
  <2>2. lockOwner' = Unlocked /\ tx' = [tx EXCEPT ![w] = t]
    BY <1>3 DEF InsertsRow, Ends
  <2> HIDE DEF t
  <2> QED
    BY <1>1, <1>2, <2>1, <2>2, TxMoves
<1>4. CASE ~Taken(row)
  <2> DEFINE t == [tx[w] EXCEPT !.at = "inserted", !.row = row]
  <2>1. row \in Row /\ row.seq # Unset
    BY <1>1, LinkType DEF Visible
  <2>2. t \in Transaction /\ t.at = "inserted" /\ t.row = row /\ IsFiniteSet(t.sees) /\ t.row.seq # Unset
    BY <1>1, <2>1 DEF Transaction
  <2>3. ASSUME tampers = 0 PROVE Knows(t)
    <3>1. row = Link(tx[w].row, log)
      <4>1. CASE tx[w].level = "repeatable"
        <5>1. Knows(tx[w])
          BY <2>3 DEF Sound, Kept
        <5>2. ~Taken(Link(tx[w].row, tx[w].sees)) /\ row = Link(tx[w].row, tx[w].sees)
          BY <1>4, <4>1 DEF Visible
        <5> HIDE DEF row
        <5> QED
          BY <1>1, <2>3, <5>1, <5>2, LinkedBehindAll
      <4>2. CASE tx[w].level # "repeatable"
        BY <4>2 DEF Visible
      <4> QED
        BY <4>1, <4>2
    <3>2. Link(row, log) = row
      BY <1>1, <3>1, LinkType
    <3> QED
      BY <2>2, <3>2 DEF Knows
  <2>4. lockOwner' = lockOwner /\ lockOwner = w /\ migrated = "chained"
    BY <1>1, <1>4 DEF InsertsRow, Sound, Locking
  <2>5. tx' = [tx EXCEPT ![w] = t]
    BY <1>4 DEF InsertsRow
  <2> HIDE DEF t
  <2> QED
    BY <1>1, <1>2, <2>2, <2>3, <2>4, <2>5, TxMoves
<1> QED
  BY <1>3, <1>4

\* A transaction ends, and the log has one more row.
LEMMA KeptCommitsBare ==
  ASSUME AuditTyped, Sound, NEW w \in Inserter, CommitsBare(w)
  PROVE  AuditTyped' /\ Sound'
<1> DEFINE t == [Away EXCEPT !.at = "done"]
           row == tx[w].row
<1>1. t \in Transaction /\ t.at = "done" /\ IsFiniteSet(t.sees) /\ Knows(t)
  BY EndIs
<1>2. /\ log' = log \cup {row} /\ tx' = [tx EXCEPT ![w] = t] /\ migrated \in {"old", "filled"} /\ tx[w].at = "open"
      /\ UNCHANGED <<lockOwner, migrated, reader, exports, anchors, tampers>>
  BY DEF CommitsBare, Ends
<1>3. row \in Row /\ row.seq = Unset /\ \A r \in log : r.born # row.born
  BY <1>2 DEF AuditTyped, Transaction, Sound, Dated
<1> HIDE DEF t
<1>4. tx'[w] = t /\ \A v \in Inserter : v # w => tx'[v] = tx[v]
  BY <1>2 DEF AuditTyped
<1>5. AuditTyped'
  <2>1. IsFiniteSet(log')
    BY <1>2, FS_AddElement DEF AuditTyped
  <2> QED
    BY <1>1, <1>2, <1>3, <1>4, <2>1 DEF AuditTyped
<1>6. Apart(log)'
  BY <1>2, <1>3 DEF Sound, Apart
<1>7. Migrating' /\ Undisturbed' /\ Cut' /\ Locking'
  BY <1>1, <1>2, <1>4 DEF Sound, Migrating, Undisturbed, Cut, CutFrom, Locking, NotRead
<1>8. Dated'
  <2> SUFFICES ASSUME NEW v \in Inserter, tx'[v].at = "open"
               PROVE  /\ tx'[v].row.seq = Unset
                      /\ \A r \in log' : r.born # tx'[v].row.born
                      /\ \A u \in Inserter : u # v /\ tx'[u].at = "open" => tx'[u].row.born # tx'[v].row.born
    BY DEF Dated
  <2>1. v # w
    BY <1>1, <1>4
  <2>2. /\ tx[v].row.seq = Unset /\ \A r \in log : r.born # tx[v].row.born
        /\ \A u \in Inserter : u # v /\ tx[u].at = "open" => tx[u].row.born # tx[v].row.born
    BY <1>2, <1>4, <2>1 DEF Sound, Dated
  <2>3. row.born # tx[v].row.born
    BY <1>2, <2>1, <2>2
  <2> QED
    BY <1>1, <1>2, <1>4, <2>1, <2>2, <2>3
<1>9. Kept'
  <2>1. SUFFICES ASSUME tampers = 0 PROVE Whole(Chained') /\ \A v \in Inserter : Knows(tx[v])'
    BY <1>2 DEF Kept
  <2>2. Chained' = Chained
    BY <1>2, <1>3 DEF Chained
  <2>3. \A v \in Inserter : Knows(tx[v])'
    <3> SUFFICES ASSUME NEW v \in Inserter PROVE Knows(tx[v])'
      OBVIOUS
    <3>1. CASE v = w
      BY <1>1, <1>4, <3>1 DEF Knows
    <3>2. CASE v # w
      <4>1. Knows(tx[v]) /\ tx'[v] = tx[v] /\ tx[v].at # "inserted"
        BY <1>2, <1>4, <2>1, <3>2 DEF Sound, Kept, Locking
      <4> QED
        BY <1>2, <4>1 DEF Knows
    <3> QED
      BY <3>1, <3>2
  <2> QED
    BY <2>1, <2>2, <2>3 DEF Sound, Kept
<1> QED
  BY <1>5, <1>6, <1>7, <1>8, <1>9 DEF Sound

LEMMA KeptCommitsRow ==
  ASSUME AuditTyped, Sound, NEW w \in Inserter, CommitsRow(w)
  PROVE  AuditTyped' /\ Sound'
<1> DEFINE row == tx[w].row
<1>1. /\ tx[w].at = "inserted" /\ row \in Row /\ migrated = "chained" /\ lockOwner' = Unlocked
      /\ UNCHANGED <<migrated, reader, exports, anchors, tampers>>
  BY DEF CommitsRow, AuditTyped, Transaction, Sound, Locking
<1>2. \A v \in Inserter : v # w => tx[v].at \notin {"locked", "inserted"}
  BY <1>1 DEF Sound, Locking
<1>3. CASE Taken(row)
  <2> DEFINE t == [Away EXCEPT !.at = "refused"]
  <2>1. t \in Transaction /\ t.at = "refused" /\ IsFiniteSet(t.sees) /\ Knows(t)
    BY EndIs
  <2>2. log' = log /\ tx' = [tx EXCEPT ![w] = t]
    BY <1>3 DEF CommitsRow, Ends
  <2> HIDE DEF t
  <2> QED
    BY <1>1, <1>2, <2>1, <2>2, TxMoves
<1>4. CASE ~Taken(row)
  <2> DEFINE t == [Away EXCEPT !.at = "done"]
  <2>1. t \in Transaction /\ t.at = "done" /\ IsFiniteSet(t.sees) /\ Knows(t)
    BY EndIs
  <2>2. log' = log \cup {row} /\ tx' = [tx EXCEPT ![w] = t]
    BY <1>4 DEF CommitsRow, Ends
  <2> HIDE DEF t
  <2>3. tx'[w] = t /\ \A v \in Inserter : v # w => tx'[v] = tx[v]
    BY <2>2 DEF AuditTyped
  <2>4. AuditTyped'
    <3>1. IsFiniteSet(log)
      BY DEF AuditTyped
    <3>2. IsFiniteSet(log \cup {row})
      BY <3>1, FS_AddElement
    <3> QED
      BY <1>1, <2>1, <2>2, <2>3, <3>2 DEF AuditTyped
  <2>5. tampers = 0 => row = Link(row, log)
    BY <1>1 DEF Sound, Kept, Knows
  <2>6. \A r \in log : r.seq # row.seq
    BY <1>4 DEF Taken
  <2>7. Apart(log)'
    BY <2>2, <2>6 DEF Sound, Apart
  <2>8. row.seq # Unset
    BY <1>1 DEF Sound, Locking
  <2>9. Migrating' /\ Dated' /\ Locking' /\ Cut'
    BY <1>1, <1>2, <2>1, <2>2, <2>3, <2>8 DEF Sound, Migrating, Dated, Locking, Cut, CutFrom
  <2>10. Undisturbed'
    BY <1>1, <2>2 DEF Sound, Undisturbed
  <2>11. Kept'
    <3>1. SUFFICES ASSUME tampers = 0 PROVE Whole(Chained') /\ \A v \in Inserter : Knows(tx[v])'
      BY <1>1 DEF Kept
    <3>2. Whole(Chained')
      <4>1. PICK c \in Seq(Payload) : Chained = Chain(c)
        BY <3>1 DEF Sound, Kept, Whole
      <4>2. log \in SUBSET Row /\ ChainedOf(log) = Chain(c)
        BY <4>1 DEF AuditTyped, Chained, ChainedOf
      <4> DEFINE d == Append(c, Canonical(row))
      <4>3. d \in Seq(Payload) /\ Chain(d) = Chain(c) \cup {row}
        BY <1>1, <2>5, <3>1, <4>2, ChainGrows
      <4>4. Chained' = Chained \cup {row}
        BY <2>2, <2>8 DEF Chained
      <4> QED
        BY <4>1, <4>3, <4>4 DEF Whole
    <3>3. \A v \in Inserter : Knows(tx[v])'
      <4> SUFFICES ASSUME NEW v \in Inserter PROVE Knows(tx[v])'
        OBVIOUS
      <4>1. CASE v = w
        BY <2>1, <2>3, <4>1 DEF Knows
      <4>2. CASE v # w
        <5>1. Knows(tx[v]) /\ tx'[v] = tx[v] /\ tx[v].at # "inserted"
          BY <1>2, <2>3, <3>1, <4>2 DEF Sound, Kept
        <5> QED
          BY <2>2, <5>1 DEF Knows
      <4> QED
        BY <4>1, <4>2
    <3> QED
      BY <3>2, <3>3
  <2> QED
    BY <2>4, <2>7, <2>9, <2>10, <2>11 DEF Sound
<1> QED
  BY <1>3, <1>4

------------------------------------------------------------------------------
(***************************************************************************)
(* Steps of the migration.                                                 *)
(***************************************************************************)
LEMMA KeptBackfill ==
  ASSUME AuditTyped, Sound, Backfill
  PROVE  AuditTyped' /\ Sound'
<1> DEFINE bare == {r \in log : r.seq = Unset}
           rows == InOrder(bare)
           n == Len(rows)
<1>1. migrated = "old" /\ migrated' = "filled" /\ log' = Backfilled
      /\ UNCHANGED <<tx, lockOwner, reader, exports, anchors, tampers>>
  BY DEF Backfill
<1>2. bare \in SUBSET Row /\ IsFiniteSet(bare) /\ Apart(bare) /\ bare \subseteq log
  <2>1. bare \subseteq log /\ IsFiniteSet(log)
    BY DEF AuditTyped
  <2>2. IsFiniteSet(bare)
    BY <2>1, FS_Subset
  <2> QED
    BY <2>1, <2>2 DEF AuditTyped, Sound, Apart
<1>3. Chained \in SUBSET Row /\ IsFiniteSet(Chained) /\ Apart(Chained) /\ Chained \subseteq log
      /\ \A r \in Chained : r.seq # Unset
  <2>1. Chained \subseteq log /\ IsFiniteSet(log)
    BY DEF AuditTyped, Chained
  <2>2. IsFiniteSet(Chained)
    BY <2>1, FS_Subset
  <2> QED
    BY <2>1, <2>2 DEF AuditTyped, Sound, Apart, Chained
<1> HIDE DEF bare
<1>4. rows \in Seq(Row) /\ n \in Nat /\ \A k \in 1..n : rows[k] \in log
  <2>1. rows \in Seq(bare) /\ n \in Nat /\ \A k \in 1..n : rows[k] \in bare
    BY <1>2, InOrderHasAll, LenProperties
  <2> HIDE DEF rows
  <2>2. \A k \in 1..n : rows[k] \in Row
    BY <1>2, <2>1
  <2>3. rows = [k \in 1..n |-> rows[k]]
    BY <2>1
  <2> QED
    BY <1>2, <2>1, <2>2, <2>3
<1> HIDE DEF rows
<1>5. log' = Filled(rows, Chained, n)
  <2>1. Backfilled = ChainedBehind(rows, Chained)
    BY DEF Backfilled, rows, bare
  <2> QED
    BY <1>1, <1>3, <1>4, <2>1, ChainedBehindIs
<1>6. n \in 0..Len(rows)
  BY <1>4
<1>7. log' \in SUBSET Row /\ IsFiniteSet(log')
  BY <1>3, <1>4, <1>5, <1>6, FilledIs
<1>8. Apart(log') /\ \A r \in log' : r.seq # Unset
  BY <1>3, <1>4, <1>5, FilledApart
<1>9. AuditTyped'
  BY <1>1, <1>7 DEF AuditTyped
<1>10. Chained \subseteq log' /\ Chained' = log'
  BY <1>5, <1>8 DEF Filled, Chained
<1>11. \A r \in log' : \E s \in log : s.born = r.born
  <2> SUFFICES ASSUME NEW r \in log' PROVE \E s \in log : s.born = r.born
    OBVIOUS
  <2>1. CASE r \in Chained
    BY <1>3, <2>1
  <2>2. CASE r \notin Chained
    <3>1. PICK k \in 1..n : r = Behind(rows, Chained, k)
      BY <1>5, <2>2 DEF Filled
    <3>2. r.born = rows[k].born
      BY <3>1 DEF Behind
    <3> QED
      BY <1>4, <3>2
  <2> QED
    BY <2>1, <2>2
<1>12. Migrating' /\ Locking' /\ Undisturbed' /\ Cut'
  BY <1>1 DEF Sound, Migrating, Locking, Undisturbed, Cut, CutFrom, NotRead
<1>13. Dated'
  BY <1>1, <1>11 DEF Sound, Dated
<1>14. Kept'
  <2>1. SUFFICES ASSUME tampers = 0 PROVE Whole(Chained') /\ \A w \in Inserter : Knows(tx[w])'
    BY <1>1 DEF Kept
  <2>2. Whole(Chained')
    <3>1. PICK c \in Seq(Payload) : Chained = Chain(c)
      BY <2>1 DEF Sound, Kept, Whole
    <3> QED
      BY <1>4, <1>5, <1>10, <3>1, FilledWhole
  <2>3. ASSUME NEW w \in Inserter PROVE Knows(tx[w])'
    <3>1. Knows(tx[w]) /\ tx[w].at # "inserted"
      BY <1>1, <2>1 DEF Sound, Kept, Locking
    <3> QED
      BY <1>1, <1>10, <3>1 DEF Knows, ChainedOf, Chained
  <2> QED
    BY <2>2, <2>3
<1> QED
  BY <1>8, <1>9, <1>12, <1>13, <1>14 DEF Sound

LEMMA KeptRequire ==
  ASSUME AuditTyped, Sound, Require \/ CreateTriggers
  PROVE  AuditTyped' /\ Sound'
<1>1. /\ migrated \in {"filled", "strict"} /\ migrated' \in {"old", "strict", "chained"}
      /\ migrated' \in {"strict", "chained"} => \A r \in log : r.seq # Unset
      /\ UNCHANGED <<log, tx, lockOwner, reader, exports, anchors, tampers>>
  BY DEF Require, CreateTriggers, Chained, Sound, Migrating
<1>2. AuditTyped'
  BY <1>1 DEF AuditTyped
<1>3. Apart(log)' /\ Migrating' /\ Dated' /\ Locking' /\ Undisturbed' /\ Cut'
  BY <1>1 DEF Sound, Apart, Migrating, Dated, Locking, Undisturbed, Cut, CutFrom, NotRead
<1>4. Kept'
  BY <1>1 DEF Sound, Kept, Knows, Chained
<1> QED
  BY <1>2, <1>3, <1>4 DEF Sound

------------------------------------------------------------------------------
(***************************************************************************)
(* Steps of the verifier.                                                  *)
(***************************************************************************)
LEMMA PageIs ==
  ASSUME AuditTyped, Sound, NEW from \in Nat, NEW cap \in Nat
  PROVE  Page(from, cap) \in Seq(log)
<1> DEFINE all == InOrder(log)
           n == Least(Len(all), from + Least(PageSize, cap))
<1>1. all \in Seq(log) /\ Len(all) \in Nat /\ \A i \in 1..Len(all) : all[i] \in log
  BY InOrderHasAll, LenProperties DEF AuditTyped, Sound
<1> HIDE DEF all
<1>2. from + 1 \in Int /\ n \in Int /\ \A i \in (from + 1)..n : i \in 1..Len(all)
  BY <1>1, SizeAssumption DEF Least
<1> HIDE DEF n
<1>3. SubSeq(all, from + 1, n) \in Seq(log)
  <2>1. \A i \in (from + 1)..n : all[i] \in log
    BY <1>1, <1>2
  <2> QED
    BY <1>2, <2>1, SubSeqProperties
<1> QED
  BY <1>3 DEF Page, all, n

LEMMA KeptReadsFirst ==
  ASSUME AuditTyped, Sound, ReadsFirst
  PROVE  AuditTyped' /\ Sound'
<1>1. PICK cap \in Caps :
        reader' = [at |-> IF Len(Page(0, cap)) < PageSize THEN "read" ELSE "reading",
                   got |-> Page(0, cap), there |-> log, cap |-> cap, undisturbed |-> tampers = 0]
  BY DEF ReadsFirst
<1>2. migrated = "chained" /\ UNCHANGED <<log, tx, lockOwner, migrated, exports, anchors, tampers>>
  BY DEF ReadsFirst
<1> DEFINE page == Page(0, cap)
<1>3. page \in Seq(log) /\ cap \in Nat
  BY PageIs, SizeAssumption
<1>4. page \in Seq(Row) /\ \A i \in 1..Len(page) : page[i] \in log
  <2> HIDE DEF page
  <2>1. \A i \in 1..Len(page) : page[i] \in log /\ page[i] \in Row
    BY <1>3, ElementOfSeq DEF AuditTyped
  <2>2. Len(page) \in Nat /\ page = [i \in 1..Len(page) |-> page[i]]
    BY <1>3, LenProperties
  <2> QED
    BY <2>1, <2>2
<1> HIDE DEF page
<1>5. /\ reader'.at \in {"reading", "read"} /\ reader'.got = page /\ reader'.there = log
      /\ reader'.undisturbed = (tampers = 0)
      /\ reader' \in [at: {"idle", "reading", "read"}, got: Seq(Row), there: SUBSET Row, cap: Nat,
                      undisturbed: BOOLEAN]
  BY <1>1, <1>3, <1>4 DEF page, AuditTyped
<1>6. AuditTyped'
  BY <1>2, <1>5 DEF AuditTyped
<1>7. Apart(log)' /\ Migrating' /\ Dated' /\ Locking' /\ Cut'
  BY <1>2 DEF Sound, Apart, Migrating, Dated, Locking, Cut, CutFrom
<1>8. Kept'
  BY <1>2 DEF Sound, Kept, Knows, Chained
<1>9. Undisturbed'
  <2>1. tampers = 0 => Whole(log)
    BY <1>2 DEF Sound, Kept, Migrating, Chained
  <2> QED
    BY <1>2, <1>4, <1>5, <2>1 DEF Undisturbed
<1> QED
  BY <1>6, <1>7, <1>8, <1>9 DEF Sound

LEMMA KeptReadsNext ==
  ASSUME AuditTyped, Sound, ReadsNext
  PROVE  AuditTyped' /\ Sound'
<1> DEFINE page == Page(Len(reader.got), reader.cap)
<1>1. /\ reader.at = "reading" /\ UNCHANGED <<log, tx, lockOwner, migrated, exports, anchors, tampers>>
      /\ reader' = [reader EXCEPT !.at = IF Len(page) < PageSize THEN "read" ELSE @, !.got = @ \o page]
  BY DEF ReadsNext
<1>2. reader.got \in Seq(Row) /\ Len(reader.got) \in Nat /\ reader.cap \in Nat
  BY LenProperties DEF AuditTyped
<1>3. page \in Seq(log)
  BY <1>2, PageIs
<1>4. page \in Seq(Row) /\ Len(page) \in Nat /\ \A i \in 1..Len(page) : page[i] \in log
  <2> HIDE DEF page
  <2>1. \A i \in 1..Len(page) : page[i] \in log /\ page[i] \in Row
    BY <1>3, ElementOfSeq DEF AuditTyped
  <2>2. Len(page) \in Nat /\ page = [i \in 1..Len(page) |-> page[i]]
    BY <1>3, LenProperties
  <2> QED
    BY <2>1, <2>2
<1> HIDE DEF page
<1> DEFINE got == reader.got \o page
<1>5. /\ got \in Seq(Row) /\ Len(got) = Len(reader.got) + Len(page)
      /\ \A i \in 1..(Len(reader.got) + Len(page)) :
           got[i] = IF i <= Len(reader.got) THEN reader.got[i] ELSE page[i - Len(reader.got)]
  BY <1>2, <1>4, ConcatProperties
<1> HIDE DEF got
<1>6. /\ reader'.got = got /\ reader'.there = reader.there /\ reader'.undisturbed = reader.undisturbed
      /\ reader'.at \in {"reading", "read"}
      /\ reader' \in [at: {"idle", "reading", "read"}, got: Seq(Row), there: SUBSET Row, cap: Nat,
                      undisturbed: BOOLEAN]
  BY <1>1, <1>5 DEF AuditTyped, got
<1>7. AuditTyped'
  BY <1>1, <1>6 DEF AuditTyped
<1>8. Apart(log)' /\ Migrating' /\ Dated' /\ Locking' /\ Cut'
  BY <1>1 DEF Sound, Apart, Migrating, Dated, Locking, Cut, CutFrom, NotRead
<1>9. Kept'
  BY <1>1 DEF Sound, Kept, Knows, Chained
<1>10. Undisturbed'
  <2>1. SUFFICES ASSUME reader.undisturbed PROVE \A i \in 1..Len(got) : got[i] \in log
    BY <1>1, <1>6 DEF Sound, Undisturbed
  <2>2. \A i \in 1..Len(reader.got) : reader.got[i] \in log
    BY <1>1, <2>1 DEF Sound, Undisturbed
  <2> SUFFICES ASSUME NEW i \in 1..Len(got) PROVE got[i] \in log
    OBVIOUS
  <2>3. CASE i <= Len(reader.got)
    BY <1>2, <1>4, <1>5, <2>2, <2>3
  <2>4. CASE ~(i <= Len(reader.got))
    <3>1. i - Len(reader.got) \in 1..Len(page)
      BY <1>2, <1>4, <1>5, <2>4
    <3> QED
      BY <1>4, <1>5, <2>4, <3>1
  <2> QED
    BY <2>3, <2>4
<1> QED
  BY <1>7, <1>8, <1>9, <1>10 DEF Sound

------------------------------------------------------------------------------
(***************************************************************************)
(* Tampering, and exports.                                                 *)
(***************************************************************************)
LEMMA RelinkedIs ==
  ASSUME AuditTyped, Apart(log), \A r \in log : r.seq # Unset,
         NEW rows \in Seq(Row), NEW i \in 1..(Len(rows) + 1), \A k \in 1..(i - 1) : rows[k] \in log
  PROVE  /\ Relinked(rows, i) \in SUBSET Row /\ IsFiniteSet(Relinked(rows, i))
         /\ Apart(Relinked(rows, i)) /\ \A r \in Relinked(rows, i) : r.seq # Unset
<1> DEFINE there == {rows[k] : k \in 1..(i - 1)}
           rest == SubSeq(rows, i, Len(rows))
<1>1. Len(rows) \in Nat /\ i \in Int /\ \A k \in i..Len(rows) : rows[k] \in Row
  BY LenProperties, ElementOfSeq
<1>2. rest \in Seq(Row)
  BY <1>1, SubSeqProperties
<1>3. there \subseteq log /\ IsFiniteSet(log) /\ log \in SUBSET Row
  BY DEF AuditTyped
<1>4. there \in SUBSET Row /\ IsFiniteSet(there) /\ Apart(there) /\ \A r \in there : r.seq # Unset
  <2> HIDE DEF there
  <2>1. IsFiniteSet(there)
    BY <1>3, FS_Subset
  <2> QED
    BY <1>3, <2>1 DEF Apart
<1>5. Relinked(rows, i) = ChainedBehind(rest, there)
  BY DEF Relinked
<1> HIDE DEF there, rest
<1>6. Relinked(rows, i) = Filled(rest, there, Len(rest)) /\ Len(rest) \in 0..Len(rest)
  <2>1. Len(rest) \in Nat
    BY <1>2, LenProperties
  <2> QED
    BY <1>2, <1>4, <1>5, <2>1, ChainedBehindIs
<1>7. Relinked(rows, i) \in SUBSET Row /\ IsFiniteSet(Relinked(rows, i))
  BY <1>2, <1>4, <1>6, FilledIs
<1>8. Apart(Relinked(rows, i)) /\ \A r \in Relinked(rows, i) : r.seq # Unset
  BY <1>2, <1>4, <1>6, FilledApart
<1> QED
  BY <1>7, <1>8

LEMMA EditsAre ==
  ASSUME NEW r \in Row, NEW c \in Content, NEW e \in Edits(r, c)
  PROVE  e \in Row /\ e.seq = r.seq
<1> DEFINE says  == [r EXCEPT !.said = c]
           canon == [says EXCEPT !.canon = Canonical(says)]
           anew  == [canon EXCEPT !.hash = Hash(r.prev, canon.canon)]
<1>1. says \in Row /\ says.seq = r.seq
  BY DEF Row, Said
<1>2. Canonical(says) \in Payload
  <2> HIDE DEF says
  <2> QED
    BY <1>1 DEF Canonical, Row, Payload
<1>3. canon \in Row /\ canon.seq = r.seq /\ canon.canon = Canonical(says)
  <2> HIDE DEF says
  <2> QED
    BY <1>1, <1>2 DEF Row
<1>4. Hash(r.prev, canon.canon) \in Seq(Payload)
  <2>1. r.prev \in Seq(Payload) /\ canon.canon \in Payload
    <3> HIDE DEF canon, says
    <3> QED
      BY <1>2, <1>3 DEF Row
  <2> HIDE DEF canon, says
  <2> QED
    BY <2>1, AppendProperties DEF Hash
<1>5. anew \in Row /\ anew.seq = r.seq
  <2> HIDE DEF canon
  <2> QED
    BY <1>3, <1>4 DEF Row
<1>6. e \in {says, canon, anew}
  BY DEF Edits
<1> QED
  <2> HIDE DEF says, canon, anew
  <2> QED
    BY <1>1, <1>3, <1>5, <1>6

\* Whatever is done to it, the log has a row for each seq.
LEMMA TamperedIs ==
  ASSUME AuditTyped, Apart(log), \A r \in log : r.seq # Unset, Tampered
  PROVE  log' \in SUBSET Row /\ IsFiniteSet(log') /\ Apart(log') /\ \A r \in log' : r.seq # Unset
<1> DEFINE all == InOrder(log)
           n == Len(all)
<1>1. n \in Nat /\ all \in Seq(Row) /\ \A k \in 1..n : all[k] \in log /\ all[k] \in Row
  <2>1. all \in Seq(log) /\ n \in Nat /\ log \in SUBSET Row
    BY InOrderHasAll, LenProperties DEF AuditTyped
  <2> HIDE DEF all
  <2>2. \A k \in 1..n : all[k] \in log /\ all[k] \in Row
    BY <2>1, ElementOfSeq
  <2>3. all = [k \in 1..n |-> all[k]]
    BY <2>1
  <2> QED
    BY <2>1, <2>2, <2>3
<1> DEFINE Without(i) == [j \in 1..(n - 1) |-> IF j < i THEN all[j] ELSE all[j + 1]]
<1>2. PICK i \in 1..n :
        \/ log' = log \ {all[i]}
        \/ log' = Relinked(Without(i), i)
        \/ \E c \in Content \ {all[i].said} :
             \/ \E e \in Edits(all[i], c) : log' = (log \ {all[i]}) \cup {e}
             \/ log' = Relinked([all EXCEPT ![i].said = c], i)
  BY DEF Tampered
<1> HIDE DEF all
<1>3. log \in SUBSET Row /\ IsFiniteSet(log) /\ all[i] \in log /\ all[i] \in Row
      /\ IsFiniteSet(log \ {all[i]})
  BY <1>1, FS_Subset DEF AuditTyped
<1>4. CASE log' = log \ {all[i]}
  BY <1>3, <1>4 DEF Apart
<1>5. CASE log' = Relinked(Without(i), i)
  <2> DEFINE rows == Without(i)
  <2>1. rows \in Seq(Row) /\ Len(rows) = n - 1
    <3>1. n - 1 \in Nat /\ \A j \in 1..(n - 1) : j \in 1..n /\ j + 1 \in 1..n
      BY <1>1
    <3>2. \A j \in 1..(n - 1) : (IF j < i THEN all[j] ELSE all[j + 1]) \in Row
      BY <1>1, <3>1
    <3> QED
      BY <3>1, <3>2
  <2>2. i \in 1..(Len(rows) + 1)
    <3> HIDE DEF rows
    <3> QED
      BY <1>1, <2>1
  <2>3. \A k \in 1..(i - 1) : rows[k] \in log
    BY <1>1
  <2> HIDE DEF rows
  <2> QED
    BY <1>5, <2>1, <2>2, <2>3, RelinkedIs DEF rows
<1>6. ASSUME NEW c \in Content \ {all[i].said}, NEW e \in Edits(all[i], c), log' = (log \ {all[i]}) \cup {e}
      PROVE  log' \in SUBSET Row /\ IsFiniteSet(log') /\ Apart(log') /\ \A r \in log' : r.seq # Unset
  <2>1. e \in Row /\ e.seq = all[i].seq
    BY <1>3, <1>6, EditsAre
  <2>2. IsFiniteSet((log \ {all[i]}) \cup {e})
    <3> DEFINE others == log \ {all[i]}
    <3> HIDE DEF others
    <3>1. IsFiniteSet(others \cup {e})
      BY <1>3, FS_AddElement DEF others
    <3> QED
      BY <3>1 DEF others
  <2>3. \A r \in log \ {all[i]} : r.seq # e.seq
    BY <1>3, <2>1 DEF Apart
  <2> QED
    BY <1>3, <1>6, <2>1, <2>2, <2>3 DEF Apart
<1>7. ASSUME NEW c \in Content \ {all[i].said}, log' = Relinked([all EXCEPT ![i].said = c], i)
      PROVE  log' \in SUBSET Row /\ IsFiniteSet(log') /\ Apart(log') /\ \A r \in log' : r.seq # Unset
  <2> DEFINE e == [all[i] EXCEPT !.said = c]
             rows == [all EXCEPT ![i] = e]
  <2>1. e \in Row
    BY <1>3 DEF Row, Said
  <2>2. [all EXCEPT ![i].said = c] = rows
    OBVIOUS
  <2> HIDE DEF e
  <2>3. rows \in Seq(Row) /\ Len(rows) = n /\ \A k \in 1..n : rows[k] = IF k = i THEN e ELSE all[k]
    BY <1>1, <2>1, ExceptSeq
  <2> HIDE DEF rows
  <2>4. i \in 1..(Len(rows) + 1) /\ \A k \in 1..(i - 1) : rows[k] \in log
    BY <1>1, <2>3
  <2> QED
    BY <1>7, <2>2, <2>3, <2>4, RelinkedIs
<1> HIDE DEF Without, n
<1> QED
  BY <1>2, <1>4, <1>5, <1>6, <1>7

LEMMA KeptTampers ==
  ASSUME AuditTyped, Sound, Tampers
  PROVE  AuditTyped' /\ Sound'
<1>1. /\ migrated = "chained" /\ Tampered /\ tampers' = tampers + 1 /\ tampers' \in Nat /\ tampers' # 0
      /\ reader' = [reader EXCEPT !.undisturbed = FALSE]
      /\ UNCHANGED <<tx, lockOwner, migrated, exports, anchors>>
  BY DEF Tampers, AuditTyped
<1>2. log' \in SUBSET Row /\ IsFiniteSet(log') /\ Apart(log') /\ \A r \in log' : r.seq # Unset
  BY <1>1, TamperedIs DEF Sound, Migrating
<1>3. ~reader'.undisturbed
  BY <1>1 DEF AuditTyped
<1>4. AuditTyped'
  BY <1>1, <1>2 DEF AuditTyped
<1>5. Migrating' /\ Dated' /\ Locking' /\ Kept' /\ Undisturbed' /\ Cut'
  BY <1>1, <1>2, <1>3 DEF Sound, Migrating, Dated, Locking, Kept, Undisturbed, Cut, CutFrom
<1> QED
  BY <1>2, <1>4, <1>5 DEF Sound

LEMMA KeptExports ==
  ASSUME AuditTyped, Sound, Exports
  PROVE  AuditTyped' /\ Sound'
<1> DEFINE all == InOrder(log)
           Key(i, j) == <<Second(all[i]), Second(all[j])>>
           Between(i, j) == {all[k] : k \in i..j}
<1>1. migrated = "chained" /\ UNCHANGED <<log, tx, lockOwner, migrated, reader, tampers>>
  BY DEF Exports
<1>2. PICK i, j \in 1..Len(all) :
        /\ i <= j /\ Free(Key(i, j))
        /\ exports' = exports \cup {[key |-> Key(i, j), rows |-> Between(i, j)]}
        /\ anchors' = IF tampers > 0 THEN anchors
                      ELSE anchors \cup {[key |-> Key(i, j), rows |-> Between(i, j), chain |-> Between(1, j)]}
  BY DEF Exports
<1>3. Len(all) \in Nat /\ \A k \in 1..Len(all) : all[k] \in Row /\ Second(all[k]) \in Int
  <2>1. /\ InOrder(log) \in Seq(log) /\ \A k \in 1..Len(InOrder(log)) : InOrder(log)[k] \in log
    BY InOrderHasAll DEF AuditTyped, Sound
  <2> HIDE DEF all
  <2>2. Len(all) \in Nat /\ \A k \in 1..Len(all) : all[k] \in Row
    BY <2>1, LenProperties DEF AuditTyped, all
  <2>3. \A r \in Row : Second(r) \in Int
    BY DEF Row, Second
  <2> QED
    BY <2>2, <2>3
<1> HIDE DEF all
<1>4. Key(i, j) \in Int \X Int /\ Between(i, j) \in SUBSET Row /\ Between(1, j) \in SUBSET Row
  <2>1. \A k \in i..j : k \in 1..Len(all)
    BY <1>2, <1>3
  <2>2. \A k \in 1..j : k \in 1..Len(all)
    BY <1>2, <1>3
  <2> QED
    BY <1>2, <1>3, <2>1, <2>2
<1>5. PICK key \in Int \X Int, rows \in SUBSET Row, chain \in SUBSET Row :
        key = Key(i, j) /\ rows = Between(i, j) /\ chain = Between(1, j)
  BY <1>4
<1> DEFINE a == [key |-> key, rows |-> rows, chain |-> chain]
<1>6. tampers = 0 => \E c \in Seq(Payload) : CutFrom(a, c)
  <2> SUFFICES ASSUME tampers = 0 PROVE \E c \in Seq(Payload) : CutFrom(a, c)
    OBVIOUS
  <2>1. PICK c \in Seq(Payload) : log = Chain(c)
    BY <1>1 DEF Sound, Kept, Migrating, Chained, Whole
  <2>2. Len(all) = Len(c) /\ Len(c) \in Nat /\ \A k \in 1..Len(c) : all[k] = RowAt(c, k)
    <3>1. all = [k \in 1..Len(c) |-> RowAt(c, k)] /\ Len(c) \in Nat
      BY <2>1, ChainIs, LenProperties DEF all
    <3> QED
      BY <3>1
  <2>3. i \in 1..Len(c) /\ j \in 1..Len(c) /\ i <= j
    BY <1>2, <2>2
  <2>4. \A k \in i..j : all[k] = RowAt(c, k)
    BY <2>2, <2>3
  <2>5. \A k \in 1..j : all[k] = RowAt(c, k)
    BY <2>2, <2>3
  <2>6. Between(i, j) = {RowAt(c, k) : k \in i..j}
    BY <2>4
  <2>7. Between(1, j) = {RowAt(c, k) : k \in 1..j}
    BY <2>5
  <2>8. a.rows = {RowAt(c, k) : k \in i..j} /\ a.chain = {RowAt(c, k) : k \in 1..j}
    BY <1>5, <2>6, <2>7
  <2> HIDE DEF a
  <2> QED
    BY <2>3, <2>8 DEF CutFrom
<1>7. /\ \A x \in exports : x.key # key
      /\ exports' = exports \cup {[key |-> key, rows |-> rows]}
      /\ anchors' = IF tampers > 0 THEN anchors ELSE anchors \cup {a}
  BY <1>2, <1>5 DEF Free
<1> HIDE DEF Key, Between
<1>8. AuditTyped'
  BY <1>1, <1>7 DEF AuditTyped
<1>9. Apart(log)' /\ Migrating' /\ Dated' /\ Locking' /\ Undisturbed'
  BY <1>1 DEF Sound, Apart, Migrating, Dated, Locking, Undisturbed
<1>10. Kept'
  BY <1>1 DEF Sound, Kept, Knows, Chained
<1>11. Cut'
  <2>1. ASSUME NEW b \in anchors', b \in anchors
        PROVE  /\ \E c \in Seq(Payload) : CutFrom(b, c)
               /\ \E x \in exports' : x.key = b.key
               /\ \A x \in exports' : x.key = b.key => x.rows = b.rows
    <3>1. /\ \E c \in Seq(Payload) : CutFrom(b, c)
          /\ \E x \in exports : x.key = b.key
          /\ \A x \in exports : x.key = b.key => x.rows = b.rows
      BY <2>1 DEF Sound, Cut
    <3>2. b.key # key
      BY <1>7, <3>1
    <3> QED
      BY <1>7, <3>1, <3>2
  <2>2. ASSUME tampers = 0
        PROVE  /\ \E c \in Seq(Payload) : CutFrom(a, c)
               /\ \E x \in exports' : x.key = a.key
               /\ \A x \in exports' : x.key = a.key => x.rows = a.rows
    <3>0. a.key = key /\ a.rows = rows
      OBVIOUS
    <3> DEFINE object == [key |-> key, rows |-> rows]
    <3>1. \E x \in exports' : x.key = a.key
      <4>1. object \in exports' /\ object.key = a.key
        BY <1>7, <3>0
      <4> QED
        BY <4>1
    <3>2. \A x \in exports' : x.key = a.key => x.rows = a.rows
      <4>1. object.rows = a.rows
        BY <3>0
      <4> QED
        BY <1>7, <3>0, <4>1
    <3>3. \E c \in Seq(Payload) : CutFrom(a, c)
      BY <1>6, <2>2, Zenon
    <3> HIDE DEF a
    <3> QED
      BY <3>1, <3>2, <3>3, Zenon
  <2>3. \A b \in anchors' : b \in anchors \/ (b = a /\ tampers = 0)
    BY <1>7 DEF AuditTyped
  <2> HIDE DEF a
  <2>4. \A b \in anchors' : /\ \E c \in Seq(Payload) : CutFrom(b, c)
                            /\ \E x \in exports' : x.key = b.key
                            /\ \A x \in exports' : x.key = b.key => x.rows = b.rows
    BY <2>1, <2>2, <2>3, Zenon
  <2> QED
    BY <2>4, Zenon DEF Cut, CutFrom
<1> QED
  BY <1>8, <1>9, <1>10, <1>11 DEF Sound

LEMMA NextSound == AuditTyped /\ Sound /\ [CNext]_cvars => AuditTyped' /\ Sound'
<1> SUFFICES ASSUME AuditTyped, Sound, [CNext]_cvars PROVE AuditTyped' /\ Sound'
  OBVIOUS
<1>1. ASSUME NEW w \in Inserter, Opens(w) PROVE AuditTyped' /\ Sound'
  BY <1>1, KeptOpens
<1>2. ASSUME NEW w \in Inserter, CommitsBare(w) PROVE AuditTyped' /\ Sound'
  BY <1>2, KeptCommitsBare
<1>3. ASSUME NEW w \in Inserter, RejectedBare(w) PROVE AuditTyped' /\ Sound'
  BY <1>3, KeptRejectedBare
<1>4. ASSUME NEW w \in Inserter, LocksChain(w) PROVE AuditTyped' /\ Sound'
  BY <1>4, KeptLocksChain
<1>5. ASSUME NEW w \in Inserter, InsertsRow(w) PROVE AuditTyped' /\ Sound'
  BY <1>5, KeptInsertsRow
<1>6. ASSUME NEW w \in Inserter, CommitsRow(w) PROVE AuditTyped' /\ Sound'
  BY <1>6, KeptCommitsRow
<1>7. ASSUME NEW w \in Inserter, RollsBack(w) PROVE AuditTyped' /\ Sound'
  BY <1>7, KeptRollsBack
<1>8. CASE Backfill
  BY <1>8, KeptBackfill
<1>9. CASE Require \/ CreateTriggers
  BY <1>9, KeptRequire
<1>10. CASE ReadsFirst
  BY <1>10, KeptReadsFirst
<1>11. CASE ReadsNext
  BY <1>11, KeptReadsNext
<1>12. CASE Tampers
  BY <1>12, KeptTampers
<1>13. CASE Exports
  BY <1>13, KeptExports
<1>14. CASE UNCHANGED cvars
  <2>1. UNCHANGED <<log, tx, lockOwner, migrated, reader, exports, anchors, tampers>>
    BY <1>14 DEF cvars
  <2>2. AuditTyped'
    BY <2>1 DEF AuditTyped
  <2>3. Kept' /\ Undisturbed' /\ Cut'
    BY <2>1 DEF Sound, Kept, Knows, Chained, Undisturbed, Cut, CutFrom
  <2>4. Apart(log)' /\ Migrating' /\ Dated' /\ Locking'
    BY <2>1 DEF Sound, Apart, Migrating, Dated, Locking
  <2> QED
    BY <2>2, <2>3, <2>4 DEF Sound
<1> QED
  BY <1>1, <1>2, <1>3, <1>4, <1>5, <1>6, <1>7, <1>8, <1>9, <1>10, <1>11, <1>12, <1>13, <1>14 DEF CNext

------------------------------------------------------------------------------
(***************************************************************************)
(* What verifies, and what an export fixes.                                *)
(***************************************************************************)
\* The stored columns of the audit log, the transactions that insert into it,
\* a verification of it and the exports keep their types.
THEOREM AuditTypeCorrect == CSpec => []AuditTyped
<1>1. AuditTyped /\ Sound /\ [CNext]_cvars => (AuditTyped /\ Sound)'
  BY NextSound
<1> QED
  BY <1>1, InitSound, PTL DEF CSpec

LEMMA AlwaysSound == CSpec => [](AuditTyped /\ Sound)
<1>1. AuditTyped /\ Sound /\ [CNext]_cvars => (AuditTyped /\ Sound)'
  BY NextSound
<1> QED
  BY <1>1, InitSound, PTL DEF CSpec

\* "seq = 0-origin, contiguous per tenant": whatever transactions overlap,
\* roll back or read old snapshots, and whatever comes in between the steps
\* of the migration, the rows that are chained verify.
THEOREM ChainStaysWhole == CSpec => []ChainWhole
<1>1. Sound => ChainWhole
  BY WholeHolds DEF Sound, Kept, ChainWhole
<1> QED
  BY <1>1, AlwaysSound, PTL

\* "a short page would otherwise read as end-of-chain": a verification that
\* finds the rows in order, as many as were counted, has read them all.
THEOREM WholeChainIsRead == CSpec => []NoPrefixPasses
<1>1. AuditTyped /\ Sound => NoPrefixPasses
  <2> SUFFICES ASSUME AuditTyped, Sound, Verified, reader.undisturbed, NEW r \in reader.there
               PROVE  \E i \in 1..Len(reader.got) : reader.got[i] = r
    BY DEF NoPrefixPasses
  <2> DEFINE got == reader.got
  <2>1. /\ tampers = 0 /\ migrated = "chained" /\ Whole(reader.there) /\ reader.there \subseteq log
        /\ \A i \in 1..Len(got) : got[i] \in log
    BY DEF Verified, Sound, Undisturbed
  <2>2. PICK c \in Seq(Payload) : reader.there = Chain(c)
    BY <2>1 DEF Whole
  <2>3. Len(got) = Len(c) /\ Len(c) \in Nat
    BY <2>2, ChainIs, LenProperties DEF Verified, Counted
  <2>4. PICK k \in 1..Len(c) : r = RowAt(c, k)
    BY <2>2 DEF Chain
  <2>5. r.seq = k - 1 /\ r.seq # Unset /\ r \in log
    BY <2>1, <2>4, RowAtIs
  <2>6. got[k].seq = k - 1 /\ got[k] \in log
    BY <2>1, <2>3 DEF Verified, RowsHold, Contiguous
  <2>7. got[k] = r
    BY <2>5, <2>6 DEF Sound, Apart
  <2> QED
    BY <2>3, <2>7
<1> QED
  BY <1>1, AlwaysSound, PTL

\* A row of the log against the row of a whole chain: its metadata may differ.
Matches(s, c, k) ==
  /\ s.seq = k - 1 /\ s.canon = c[k] /\ s.prev = Upto(c, k - 1) /\ s.hash = Upto(c, k)
  /\ s.born = c[k][2] /\ s.said.scalars = c[k][1].scalars

\* What has the hash of a row of a whole chain, and verifies, matches it.
LEMMA HashDecides ==
  ASSUME NEW all \in Seq(Row), RowsHold(all), NEW c \in Seq(Payload), NEW i \in 1..Len(all), i \in 1..Len(c),
         all[i].hash = Upto(c, i)
  PROVE  Matches(all[i], c, i)
<1>1. Len(c) \in Nat /\ Len(all) \in Nat /\ all[i] \in Row
  BY LenProperties, ElementOfSeq
<1>2. /\ all[i].seq = i - 1 /\ all[i].hash = Append(all[i].prev, all[i].canon)
      /\ all[i].canon # NoHash
      /\ all[i].canon = <<[all[i].said EXCEPT !.metadata = all[i].canon[1].metadata], all[i].born>>
  BY DEF RowsHold, Contiguous, SelfConsistent, CrossChecked, Hash
<1>3. all[i].prev = Upto(c, i - 1) /\ all[i].canon = c[i]
  <2>1. i \in 0..Len(c) /\ i - 1 \in 0..Len(c) /\ i # 0
    BY <1>1
  <2>2. Upto(c, i) = Append(Upto(c, i - 1), c[i]) /\ Upto(c, i - 1) \in Seq(Payload) /\ c[i] \in Payload
    BY <2>1, UptoIs, ElementOfSeq
  <2>3. all[i].prev \in Seq(Payload) /\ all[i].canon \in Payload
    BY <1>1, <1>2 DEF Row
  <2> DEFINE P == all[i].prev
             q == all[i].canon
             U == Upto(c, i - 1)
  <2>4. Append(P, q) = Append(U, c[i])
    BY <1>2, <2>2
  <2>5. P \in Seq(Payload) /\ q \in Payload /\ U \in Seq(Payload) /\ c[i] \in Payload
    BY <2>2, <2>3
  <2> HIDE DEF P, q, U
  <2>6. P = U /\ q = c[i]
    BY <2>4, <2>5, AppendInjective
  <2> QED
    BY <2>6 DEF P, q, U
<1>4. all[i].born = c[i][2] /\ all[i].said.scalars = c[i][1].scalars
  <2>1. all[i].said \in Said
    BY <1>1 DEF Row
  <2>2. PICK what \in Said : all[i].said = what
    BY <2>1
  <2>3. what = [scalars |-> what.scalars, metadata |-> what.metadata]
    BY ContentAssumption DEF Said, Nothing
  <2>4. PICK m : m = all[i].canon[1].metadata
    OBVIOUS
  <2>5. c[i] = <<[what EXCEPT !.metadata = m], all[i].born>>
    BY <1>2, <1>3, <2>2, <2>4
  <2>6. [what EXCEPT !.metadata = m].scalars = what.scalars
    BY <2>3
  <2>7. PICK said : said = [what EXCEPT !.metadata = m]
    OBVIOUS
  <2>8. c[i] = <<said, all[i].born>> /\ said.scalars = all[i].said.scalars
    BY <2>2, <2>5, <2>6, <2>7
  <2> QED
    BY <2>8
<1> QED
  BY <1>2, <1>3, <1>4 DEF Matches

\* A row of a log that verifies, with all the rows before it.
LEMMA AnchorIs ==
  ASSUME NEW all \in Seq(Row), RowsHold(all), NEW c \in Seq(Payload), NEW j \in 1..Len(c), j <= Len(all),
         all[j].hash = Upto(c, j), NEW k \in 1..j
  PROVE  Matches(all[k], c, k)
<1> DEFINE Bad == {m \in 0..(j - 1) : all[j - m].hash # Upto(c, j - m)}
<1>1. Len(c) \in Nat /\ Len(all) \in Nat /\ j \in Nat
  BY LenProperties
<1>2. SUFFICES ASSUME Bad # {} PROVE FALSE
  <2>1. j - k \in 0..(j - 1) /\ j - (j - k) = k /\ k \in 1..Len(all) /\ k \in 1..Len(c)
    BY <1>1
  <2>2. all[k].hash = Upto(c, k)
    BY <1>2, <2>1
  <2> QED
    BY <2>1, <2>2, HashDecides
<1>3. PICK m \in Bad : \A n \in Bad : m <= n
  <2>1. Bad \subseteq Nat
    OBVIOUS
  <2> HIDE DEF Bad
  <2> QED
    BY <1>2, <2>1, LeastNumber
<1>4. m # 0 /\ m - 1 \in 0..(j - 1) /\ m - 1 \notin Bad /\ m \in 0..(j - 1)
  <2>1. m # 0
    BY <1>1, <1>3
  <2>2. m - 1 \in 0..(j - 1) /\ ~(m <= m - 1) /\ m \in 0..(j - 1)
    BY <1>1, <1>3, <2>1
  <2> QED
    BY <1>3, <2>1, <2>2
<1> DEFINE i == j - m
<1>5. i \in 1..Len(c) /\ i + 1 \in 1..Len(c) /\ i \in 1..Len(all) /\ i + 1 \in 1..Len(all) /\ i + 1 # 1
      /\ j - (m - 1) = i + 1 /\ (i + 1) - 1 = i
  BY <1>1, <1>4
<1>6. all[i + 1].hash = Upto(c, i + 1) /\ all[i].hash # Upto(c, i)
  BY <1>3, <1>4, <1>5
<1> HIDE DEF i, Bad
<1>7. all[i + 1].prev = Upto(c, i)
  BY <1>5, <1>6, HashDecides DEF Matches
<1>8. all[i].hash = Upto(c, i)
  BY <1>5, <1>7 DEF RowsHold, Linked, PrevOf
<1> QED
  BY <1>6, <1>8

\* A row that differs from a row of a whole chain in its metadata only.
LEMMA MatchIs ==
  ASSUME NEW c \in Seq(Payload), NEW k \in 1..Len(c), NEW s \in Row
  PROVE  SameButMetadata(RowAt(c, k), s) <=> Matches(s, c, k)
<1> DEFINE r == RowAt(c, k)
<1>1. r.said.scalars = c[k][1].scalars
  BY DEF RowAt
<1>2. [r EXCEPT !.said = s.said] =
        [seq |-> k - 1, said |-> s.said, canon |-> c[k], prev |-> Upto(c, k - 1), hash |-> Upto(c, k),
         born |-> c[k][2]]
  BY DEF RowAt
<1>3. s = [seq |-> s.seq, said |-> s.said, canon |-> s.canon, prev |-> s.prev, hash |-> s.hash, born |-> s.born]
  BY DEF Row
<1>4. s = [r EXCEPT !.said = s.said] <=>
        /\ s.seq = k - 1 /\ s.canon = c[k] /\ s.prev = Upto(c, k - 1) /\ s.hash = Upto(c, k) /\ s.born = c[k][2]
  BY <1>2, <1>3
<1> HIDE DEF r
<1>5. SameButMetadata(r, s) <=> s = [r EXCEPT !.said = s.said] /\ s.said.scalars = r.said.scalars
  BY DEF SameButMetadata
<1> QED
  BY <1>1, <1>4, <1>5 DEF r, Matches

\* "anchor the latest row_hash externally": whatever is changed, taken out or
\* chained anew, and whatever is exported afterwards, a log that verifies and
\* has the rows of the object that was exported has every row that came before
\* them, but for its metadata.
THEOREM ExportsAnchor == CSpec => []Anchored
<1>1. AuditTyped /\ Sound => Anchored
  <2> SUFFICES ASSUME AuditTyped, Sound, NEW a \in anchors, NEW x \in exports, x.key = a.key,
                      RowsHold(InOrder(log)), Remain(x.rows)
               PROVE  Remain(a.chain)
    BY DEF Anchored
  <2> DEFINE all == InOrder(log)
  <2>1. x.rows = a.rows /\ \E c \in Seq(Payload) : CutFrom(a, c)
    BY DEF Sound, Cut
  <2>2. PICK c \in Seq(Payload) : CutFrom(a, c)
    BY <2>1
  <2>3. PICK i, j \in 1..Len(c) : /\ i <= j
                                  /\ x.rows = {RowAt(c, k) : k \in i..j}
                                  /\ a.chain = {RowAt(c, k) : k \in 1..j}
    BY <2>1, <2>2 DEF CutFrom
  <2>4. Len(c) \in Nat
    BY LenProperties
  <2>5. /\ all \in Seq(Row) /\ Len(all) \in Nat /\ \A k \in 1..Len(all) : all[k] \in log
        /\ \A r \in log : \E k \in 1..Len(all) : all[k] = r
    <3>1. log \in SUBSET Row /\ IsFiniteSet(log) /\ Apart(log)
      BY DEF AuditTyped, Sound
    <3>2. /\ all \in Seq(log) /\ \A k \in 1..Len(all) : all[k] \in log
          /\ \A r \in log : \E k \in 1..Len(all) : all[k] = r
      BY <3>1, InOrderHasAll
    <3> HIDE DEF all
    <3>3. Len(all) \in Nat /\ all = [k \in 1..Len(all) |-> all[k]] /\ \A k \in 1..Len(all) : all[k] \in Row
      BY <3>1, <3>2, LenProperties
    <3> QED
      BY <3>2, <3>3
  <2>6. PICK s \in log : SameButMetadata(RowAt(c, j), s)
    <3>1. j \in i..j
      BY <2>3, <2>4
    <3> QED
      BY <2>3, <3>1 DEF Remain
  <2>7. Matches(s, c, j)
    BY <2>6, MatchIs DEF AuditTyped
  <2> HIDE DEF all
  <2>8. PICK p \in 1..Len(all) : all[p] = s
    BY <2>5, <2>6
  <2>9. p = j
    <3>1. all[p].seq = p - 1
      BY DEF RowsHold, Contiguous, all
    <3>2. all[p].seq = j - 1
      BY <2>7, <2>8 DEF Matches
    <3> QED
      BY <2>4, <2>5, <3>1, <3>2
  <2>10. j <= Len(all) /\ all[j].hash = Upto(c, j) /\ RowsHold(all)
    BY <2>5, <2>7, <2>8, <2>9 DEF all, Matches
  <2>11. ASSUME NEW k \in 1..j PROVE \E q \in log : SameButMetadata(RowAt(c, k), q)
    <3>1. Matches(all[k], c, k)
      BY <2>5, <2>10, AnchorIs
    <3>2. k \in 1..Len(all) /\ k \in 1..Len(c)
      BY <2>4, <2>5, <2>10
    <3>3. all[k] \in log /\ all[k] \in Row
      BY <2>5, <3>2 DEF AuditTyped
    <3> QED
      BY <3>1, <3>2, <3>3, MatchIs
  <2> QED
    BY <2>3, <2>11 DEF Remain
<1> QED
  BY <1>1, AlwaysSound, PTL
==============================================================================
