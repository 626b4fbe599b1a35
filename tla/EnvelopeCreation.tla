---------------------------- MODULE EnvelopeCreation ----------------------------
(***************************************************************************)
(* esig_create_envelope: EnvelopeService.create of                         *)
(* packages/esig-mcp/src/envelopes.ts, which inserts an envelope and then  *)
(* writes to its row up to three times more before it hands out the        *)
(* links, and the channels that deliver them (delivery.ts, email/).        *)
(*                                                                         *)
(* A call creates at most one envelope, which goes by the name of the      *)
(* call.  Contents are left out; a uuaid is a name, a link is the pair of  *)
(* a call and the place of its signer.  Other writers move the row's       *)
(* revision: the void tool, the expiry sweep and whoever has a link.  Of   *)
(* sign there is what decides who signs: two looks at the gate of the      *)
(* signer, and the proof between them (in full in SignerIdentity).         *)
(***************************************************************************)
EXTENDS IdentityGates, FiniteSets

CONSTANTS
  Call,      \* the calls of the tool
  Requests,  \* what a call can ask for (see Refusal)
  Settings,  \* the configurations of the server (see Refusal)
  Shown,     \* the proofs a signer can show [level, uuaid]
  MaxComing  \* bound: the calls of sign under way

\* What the configuration and the tool's schema let through: levels that there are,
\* and pillar identities of signers.
ASSUME CreationAssumption ==
  /\ \A s \in Settings : s.floor \in Level /\ s.perHour \in Nat
  /\ \A r \in Requests :
       /\ r.level \in Level /\ r.signers \in Nat /\ r.pillar \subseteq Nat
       /\ r.order \in [1..r.signers -> Nat]
  /\ \A proof \in Shown : proof.level \in Level

VARIABLES
  setting,   \* the configuration
  hits,      \* the creations of the last hour, HourlyRateLimiter.hits
  call,      \* what each call is doing
  stored,    \* the rows of the store
  mailbox,   \* the links that have arrived
  session,   \* the SMTP connection of each call
  journal,   \* the audit log
  coming,    \* the calls of sign behind their first look [call, place, level, uuaid, asked]
  signed     \* those that have signed

nvars == <<setting, hits, call, stored, mailbox, session, journal, coming, signed>>

NoStored == [there |-> FALSE, rev |-> 0, open |-> FALSE, level |-> "none", pins |-> <<>>,
             strangers |-> {}, links |-> FALSE]
Closed == [stage |-> 0, word |-> "none", place |-> 0]

NInit ==
  /\ setting \in Settings
  /\ hits \in 0..setting.perHour
  /\ call \in {[c \in Call |-> [at |-> "asked", req |-> r[c], rev |-> 0, strangers |-> {},
                                receipts |-> <<>>]] : r \in [Call -> Requests]}
  /\ stored = [c \in Call |-> NoStored]
  /\ mailbox = {} /\ journal = {} /\ coming = {} /\ signed = {}
  /\ session = [c \in Call |-> Closed]

GoesTo(c, at) == call' = [call EXCEPT ![c].at = at]

------------------------------------------------------------------------------
(***************************************************************************)
(* Before the first write.                                                 *)
(***************************************************************************)
\* Mutation: a request takes the floor's place.
Lowered(floor, asked) == asked

\* maxIdentityLevel
Raised(floor, asked) == IF Rank(floor) >= Rank(asked) THEN floor ELSE asked

Effective(c) == Raised(setting.floor, call[c].req.level)

\* What create refuses, in its order.  A pin with place 0 names a signerId,
\* which no check can find wrong: the ids are drawn later.
Refusal(c) ==
  LET r == call[c].req
      needsRegistry == Effective(c) = "L2"
  IN  First(<<
        <<r.signers = 0,                                     "noSigners">>,
        <<r.signers > setting.maxSigners,                    "tooMany">>,
        <<r.source \in {"both", "neither"},                  "exactlyOne">>,
        <<r.source \in {"unreadable", "notPdf"},             "document">>,
        <<~r.fits,                                           "tooLarge">>,
        <<needsRegistry /\ setting.registry = "none",        "noRegistry">>,
        <<needsRegistry /\ setting.registry # "pinned",      "noRegistryKey">>,
        <<\E i \in 1..Len(r.pins) : ~r.pins[i].wellFormed \/ r.pins[i].place > r.signers, "badPin">>,
        <<r.pillar # r.derives,                              "badPillar">> >>)

RefusesRequest(c) ==
  /\ call[c].at = "asked" /\ Refusal(c) # "ok"
  /\ GoesTo(c, "refused")
  /\ UNCHANGED <<setting, hits, stored, mailbox, session, journal, coming, signed>>

\* A signer the registry does not know is let through only on request.
Tolerated(badge) == badge = "attests" \/ (badge = "missing" /\ setting.allow)

\* The registry is asked of every signer with a pillar identity.
AsksRegistry(c) ==
  /\ call[c].at = "asked" /\ Refusal(c) = "ok"
  /\ \E badge \in [call[c].req.pillar -> {"attests", "missing", "other", "down"}] :
       LET asked == setting.registry = "pinned"
       IN  IF asked /\ \E i \in DOMAIN badge : ~Tolerated(badge[i])
           THEN GoesTo(c, "refused")
           ELSE call' = [call EXCEPT ![c].at = "checked",
                           ![c].strangers = {i \in DOMAIN badge : asked /\ badge[i] = "missing"}]
  /\ UNCHANGED <<setting, hits, stored, mailbox, session, journal, coming, signed>>

\* The limiter, and the checks of core's createEnvelope, which the budget is
\* spent on.  The insert itself can fail.
InsertsEnvelope(c) ==
  /\ call[c].at = "checked"
  /\ IF hits >= setting.perHour
     THEN GoesTo(c, "refused") /\ UNCHANGED <<hits, stored>>
     ELSE /\ hits' = hits + 1
          /\ \/ /\ call[c].req.sound
                /\ stored' = [stored EXCEPT ![c] = [NoStored EXCEPT !.there = TRUE, !.open = TRUE]]
                /\ call' = [call EXCEPT ![c].at = "policy", ![c].rev = 0]
             \/ GoesTo(c, "failed") /\ UNCHANGED stored
  /\ UNCHANGED <<setting, mailbox, session, journal, coming, signed>>

\* The oldest creation is more than an hour ago.
HourPasses ==
  /\ hits > 0
  /\ hits' = hits - 1
  /\ UNCHANGED <<setting, call, stored, mailbox, session, journal, coming, signed>>

------------------------------------------------------------------------------
(***************************************************************************)
(* The writes that follow the insert, each a compare-and-swap on the       *)
(* envelope the call holds.  One that meets another writer throws.         *)
(***************************************************************************)
\* What row becomes is written over it if nobody else has been there.
Swap(c, row, next) ==
  \/ /\ stored[c].rev = call[c].rev
     /\ stored' = [stored EXCEPT ![c] = [row EXCEPT !.rev = @ + 1]]
     /\ call' = [call EXCEPT ![c].at = next, ![c].rev = @ + 1]
  \/ GoesTo(c, "failed") /\ UNCHANGED stored

\* A later pin of a signer takes the place of an earlier one.
Pins(req) ==
  LET Of(p) == {i \in 1..Len(req.pins) : req.pins[i].place = p}
  IN  [p \in 1..req.signers |->
         IF Of(p) = {} THEN "none"
         ELSE req.pins[CHOOSE i \in Of(p) : \A j \in Of(p) : j <= i].uuaid]

NeedsPolicy(c) == Effective(c) # "none" \/ call[c].req.pins # <<>>

WritesPolicy(c) ==
  /\ call[c].at = "policy"
  /\ IF NeedsPolicy(c)
     THEN Swap(c, [stored[c] EXCEPT !.level = Effective(c), !.pins = Pins(call[c].req)], "strangers")
     ELSE GoesTo(c, "strangers") /\ UNCHANGED stored
  /\ UNCHANGED <<setting, hits, mailbox, session, journal, coming, signed>>

WritesStrangers(c) ==
  /\ call[c].at = "strangers"
  /\ IF call[c].strangers = {}
     THEN GoesTo(c, "links") /\ UNCHANGED stored
     ELSE Swap(c, [stored[c] EXCEPT !.strangers = call[c].strangers], "auditing")
  /\ UNCHANGED <<setting, hits, mailbox, session, journal, coming, signed>>

\* signer.pillar_unregistered, one row after the other; an insert can fail.
AuditsStrangers(c) ==
  /\ call[c].at = "auditing"
  /\ LET told == {i \in call[c].strangers : [call |-> c, what |-> "stranger", of |-> {i}] \in journal}
     IN  \/ \E i \in call[c].strangers \ told :
              /\ \A j \in call[c].strangers \ told : i <= j
              /\ journal' = journal \cup {[call |-> c, what |-> "stranger", of |-> {i}]}
              /\ IF told \cup {i} = call[c].strangers THEN GoesTo(c, "links") ELSE UNCHANGED call
         \/ GoesTo(c, "failed") /\ UNCHANGED journal
  /\ UNCHANGED <<setting, hits, stored, mailbox, session, coming, signed>>

\* Reminders need the links later: they are stored, encrypted.
StoresLinks(c) ==
  /\ call[c].at = "links"
  /\ IF setting.reminders
     THEN Swap(c, [stored[c] EXCEPT !.links = TRUE], "delivering")
     ELSE GoesTo(c, "delivering") /\ UNCHANGED stored
  /\ UNCHANGED <<setting, hits, mailbox, session, journal, coming, signed>>

------------------------------------------------------------------------------
(***************************************************************************)
(* Delivery: a receipt for each signer, in order.                          *)
(***************************************************************************)
Place(c) == Len(call[c].receipts) + 1
LinkTo(c, p) == <<c, p>>

\* The receipt of the signer whose turn it is, and whether the link arrived.
Receives(c, ok, arrives) ==
  /\ mailbox' = IF arrives THEN mailbox \cup {LinkTo(c, Place(c))} ELSE mailbox
  /\ call' = [call EXCEPT ![c].receipts = Append(@, ok),
                          ![c].at = IF Place(c) = call[c].req.signers THEN "audit" ELSE @]

\* ConsoleDelivery, and FileDelivery, whose one file has all links: when it
\* fails after the write, the file is there all the same.
DeliversFile(c) ==
  /\ call[c].at = "delivering" /\ setting.channel \in {"console", "file"}
  /\ LET all == {LinkTo(c, p) : p \in 1..call[c].req.signers}
     IN  \/ /\ mailbox' = mailbox \cup all
            /\ call' = [call EXCEPT ![c].receipts = [p \in 1..call[c].req.signers |-> TRUE], ![c].at = "audit"]
         \/ /\ setting.channel = "file"
            /\ mailbox' \in {mailbox, mailbox \cup all}
            /\ GoesTo(c, "failed")
  /\ UNCHANGED <<setting, hits, stored, session, journal, coming, signed>>

\* A request that times out may have been received; nothing is thrown.
Requested(c) ==
  /\ call[c].at = "delivering"
  /\ \/ Receives(c, TRUE, TRUE)
     \/ \E arrives \in BOOLEAN : Receives(c, FALSE, arrives)
  /\ UNCHANGED <<setting, hits, stored, session, journal, coming, signed>>

\* WebhookDelivery.
Posts(c) == setting.channel = "post" /\ Requested(c)

\* SesTransport.
SendsBySes(c) == setting.channel = "ses" /\ Requested(c)

\* A connection that is not TLS from the start becomes so.
Upgrades == ~setting.secure /\ ~setting.plaintext

\* SmtpTransport.send: what is said, in this order.
Dialogue ==
  <<"connect", "ehlo">>
  \o (IF Upgrades THEN <<"starttls", "upgrade", "ehlo">> ELSE <<>>)
  \o (IF setting.login THEN <<"auth">> ELSE <<>>)
  \o <<"mail", "rcpt", "data", "body">>

\* What is tried when the server refuses a word.
SecondTry(word) ==
  CASE word = "ehlo" -> "helo" [] word = "auth" -> "login" [] OTHER -> "none"

Connects(c) ==
  /\ call[c].at = "delivering" /\ setting.channel = "smtp" /\ session[c] = Closed
  /\ \/ /\ session' = [session EXCEPT ![c] = [stage |-> 2, word |-> "ehlo", place |-> Place(c)]]
        /\ UNCHANGED <<call, mailbox>>
     \/ Receives(c, FALSE, FALSE) /\ UNCHANGED session
  /\ UNCHANGED <<setting, hits, stored, journal, coming, signed>>

Talks(c) == session[c] # Closed
Onwards(c) ==
  LET next == session[c].stage + 1
  IN  session' = [session EXCEPT ![c].stage = next, ![c].word = Dialogue[next]]

\* The server agrees to what was said.
Agrees(c) ==
  /\ Talks(c) /\ session[c].word # "body"
  /\ Onwards(c)
  /\ UNCHANGED <<setting, hits, call, stored, mailbox, journal, coming, signed>>

\* It refuses, and there is another way of saying it: HELO, or AUTH LOGIN
\* after a 5xx.
Rephrases(c) ==
  /\ Talks(c) /\ SecondTry(session[c].word) # "none"
  /\ session' = [session EXCEPT ![c].word = SecondTry(session[c].word)]
  /\ UNCHANGED <<setting, hits, call, stored, mailbox, journal, coming, signed>>

\* It refuses, hangs up or goes silent; the socket is destroyed.
GivesUp(c) ==
  /\ Talks(c)
  /\ \E arrives \in IF session[c].word = "body" THEN BOOLEAN ELSE {FALSE} : Receives(c, FALSE, arrives)
  /\ session' = [session EXCEPT ![c] = Closed]
  /\ UNCHANGED <<setting, hits, stored, journal, coming, signed>>

\* 250 to the message; QUIT's answer does not matter.
Mailed(c) ==
  /\ Talks(c) /\ session[c].word = "body"
  /\ Receives(c, TRUE, TRUE)
  /\ session' = [session EXCEPT ![c] = Closed]
  /\ UNCHANGED <<setting, hits, stored, journal, coming, signed>>

------------------------------------------------------------------------------
(***************************************************************************)
(* The audit row, the event, the answer; and the others.                   *)
(***************************************************************************)
\* Mutation: the failures are those of the last signer.
LastFailure(c) == {p \in {Len(call[c].receipts)} : ~call[c].receipts[p]}

Failures(c) == {p \in 1..Len(call[c].receipts) : ~call[c].receipts[p]}

AuditsCreation(c) ==
  /\ call[c].at = "audit"
  /\ \/ /\ journal' = journal \cup {[call |-> c, what |-> "created", of |-> Failures(c)]}
        /\ GoesTo(c, "emit")
     \/ GoesTo(c, "failed") /\ UNCHANGED journal
  /\ UNCHANGED <<setting, hits, stored, mailbox, session, coming, signed>>

\* emit writes the event to the row it reads afresh and never throws: without
\* the event the answer is the same.
EmitsCreation(c) ==
  /\ call[c].at = "emit"
  /\ \/ stored' = [stored EXCEPT ![c].rev = @ + 1]
     \/ UNCHANGED stored
  /\ GoesTo(c, "answered")
  /\ UNCHANGED <<setting, hits, mailbox, session, journal, coming, signed>>

\* esig_void_envelope, which finds the id by esig_list_envelopes, or the
\* expiry sweep.
EndsEnvelope(c) ==
  /\ stored[c].there /\ stored[c].open
  /\ stored' = [stored EXCEPT ![c].open = FALSE, ![c].rev = @ + 1]
  /\ UNCHANGED <<setting, hits, call, mailbox, session, journal, coming, signed>>

HasSigned(c, p) == \E s \in signed : s.call = c /\ s.place = p

\* resolveSigningToken answers "ok": those of a lower order have signed.
SignerGate(c, p) ==
  LET order == call[c].req.order
  IN  /\ stored[c].open /\ ~HasSigned(c, p)
      /\ \A q \in DOMAIN order : order[q] < order[p] => HasSigned(c, q)

\* What the row asks of a signer: a pin counts only under a level.
Admitted(row, p, proof) ==
  row.level # "none" =>
    (Rank(proof.level) >= Rank(row.level) /\ row.pins[p] \in {"none", proof.uuaid})

\* sign, up to its second look.  Behind a gate that is shut nobody asks for a
\* proof: that the gate is shut is left for recordSignature to find.
SignerComes(c) ==
  \E p \in 1..call[c].req.signers, proof \in Shown :
    LET asked == SignerGate(c, p)
    IN  /\ LinkTo(c, p) \in mailbox /\ Cardinality(coming) < MaxComing
        /\ asked => Admitted(stored[c], p, proof)
        /\ coming' = coming \cup {[call |-> c, place |-> p, asked |-> asked,
                                   level |-> IF asked THEN proof.level ELSE "none",
                                   uuaid |-> IF asked THEN proof.uuaid ELSE "none"]}
        /\ UNCHANGED <<setting, hits, call, stored, mailbox, session, journal, signed>>

\* recordSignature, which looks again.
SignerSigns(c) ==
  \E s \in coming :
    /\ s.call = c
    /\ coming' = coming \ {s}
    /\ IF SignerGate(c, s.place)
       THEN /\ signed' = signed \cup {s}
            /\ stored' = [stored EXCEPT ![c].rev = @ + 1]
       ELSE UNCHANGED <<signed, stored>>
    /\ UNCHANGED <<setting, hits, call, mailbox, session, journal>>

\* The server stops in the middle of its calls.
Dies ==
  /\ \E c \in Call : call[c].at \notin {"asked", "refused", "failed", "answered", "died"}
  /\ call' = [c \in Call |-> IF call[c].at \in {"asked", "refused", "failed", "answered"} THEN call[c]
                             ELSE [call[c] EXCEPT !.at = "died"]]
  /\ session' = [c \in Call |-> Closed]
  /\ hits' = 0 /\ coming' = {}
  /\ UNCHANGED <<setting, stored, mailbox, journal, signed>>

NNext ==
  \/ \E c \in Call :
       \/ RefusesRequest(c) \/ AsksRegistry(c) \/ InsertsEnvelope(c)
       \/ WritesPolicy(c) \/ WritesStrangers(c) \/ AuditsStrangers(c) \/ StoresLinks(c)
       \/ DeliversFile(c) \/ Posts(c) \/ SendsBySes(c)
       \/ Connects(c) \/ Agrees(c) \/ Rephrases(c) \/ GivesUp(c) \/ Mailed(c)
       \/ AuditsCreation(c) \/ EmitsCreation(c)
       \/ EndsEnvelope(c) \/ SignerComes(c) \/ SignerSigns(c)
  \/ HourPasses \/ Dies

NSpec == NInit /\ [][NNext]_nvars

------------------------------------------------------------------------------
\* Whoever signs, at whatever moment of create and of its failures, has met
\* the level the server and the agent asked for and the pin of their place -
\* unless nobody asked, which happens only to a signer whom others go before;
\* and a signer the registry does not know is in the row and the audit log.
SignedAsAsked ==
  \A s \in signed :
    LET req    == call[s.call].req
        wanted == IF req.level = "none" THEN setting.floor ELSE req.level
    IN  /\ s.asked =>
             /\ Rank(s.level) >= Rank(setting.floor)
             /\ Rank(s.level) >= Rank(wanted)
             /\ wanted # "none" => Pins(req)[s.place] \in {"none", s.uuaid}
        /\ ~s.asked => \E q \in 1..req.signers : req.order[q] < req.order[s.place]
        /\ s.place \in call[s.call].strangers =>
             /\ s.place \in stored[s.call].strangers
             /\ [call |-> s.call, what |-> "stranger", of |-> {s.place}] \in journal

\* "the envelope is still created, but the failure is on the audit trail": an
\* answer comes with an audit row, and a signer it does not name has the link.
AnsweredTruly ==
  \A c \in Call : call[c].at = "answered" =>
    \E r \in journal :
      /\ r.call = c /\ r.what = "created"
      /\ \A p \in (1..call[c].req.signers) \ r.of : LinkTo(c, p) \in mailbox

==============================================================================
