------------------------------ MODULE MCServices ------------------------------
(***************************************************************************)
(* What goes before the signing ceremony and beside it, in one run: the    *)
(* creation of an envelope, the signing gateway, its authentication, and   *)
(* the audit chain.  They share nothing here: a behaviour runs one of the  *)
(* machines, and the others stay as they were, with nobody in them whom    *)
(* there would be a duty to be fair to.                                    *)
(***************************************************************************)
EXTENDS EnvelopeCreation, Gateway, GatewayAuth, AuditChain

CONSTANT Machines    \* the machines a run has

(***************************************************************************)
(* Creation: a server with a pinned registry, one with a floor that mails  *)
(* over STARTTLS, one over TLS, one with neither, one in the clear, SES,   *)
(* the file outbox; requests with and without a level, pins, pillar        *)
(* identities and an order of signing.                                     *)
(***************************************************************************)
Server == [floor |-> "none", registry |-> "none", allow |-> FALSE, maxSigners |-> 2, perHour |-> 1,
           channel |-> "smtp", reminders |-> FALSE, secure |-> FALSE, plaintext |-> FALSE, login |-> FALSE]
MCSettings ==
  {[Server EXCEPT !.registry = "pinned", !.allow = TRUE, !.channel = "post"],
   [Server EXCEPT !.floor = "L1", !.reminders = TRUE, !.login = TRUE],
   [Server EXCEPT !.floor = "L1", !.reminders = TRUE, !.secure = TRUE],
   Server,
   [Server EXCEPT !.plaintext = TRUE],
   [Server EXCEPT !.registry = "url", !.channel = "file"],
   [Server EXCEPT !.channel = "ses"]}

Pin(place, uuaid) == [place |-> place, uuaid |-> uuaid, wellFormed |-> TRUE]
Plain == [signers |-> 2, source |-> "html", fits |-> TRUE, level |-> "none", pins |-> <<>>,
          pillar |-> {}, derives |-> {}, order |-> <<1, 1>>, sound |-> TRUE]
MCRequests ==
  {Plain,
   [Plain EXCEPT !.level = "L2", !.pillar = {1, 2}, !.derives = {1, 2}, !.pins = <<Pin(1, "u"), Pin(1, "v")>>],
   [Plain EXCEPT !.source = "doc", !.level = "L1", !.pins = <<Pin(2, "u"), Pin(0, "v")>>, !.order = <<1, 2>>],
   [Plain EXCEPT !.signers = 1, !.order = <<1>>, !.sound = FALSE]}
MCShown == {[level |-> "none", uuaid |-> "none"], [level |-> "L1", uuaid |-> "u"], [level |-> "L2", uuaid |-> "v"]}

(***************************************************************************)
(* The gateway: two partitions in one process, or the dossiers of one      *)
(* key; three dossiers, two slots and one place in the queue.              *)
(***************************************************************************)
MCKeyOf == [d \in Dossier |-> IF d = "d3" THEN "b" ELSE "a"]

\* A good token sent twice, or first with a fault, and one of a newer key.
Token(jti, kid, exp, faults) == [jti |-> jti, kid |-> kid, exp |-> exp, faults |-> faults]
Fine == Token("j", "k1", 2, {})
MCPresents ==
  << {Fine}, {Fine, [Fine EXCEPT !.faults = {"claims"}]},
     {Token("i", "k2", 3, {})} >>

(***************************************************************************)
(* The audit chain: rows are written with one content - their born tells   *)
(* them apart - and can be changed in their columns or in their metadata.  *)
(***************************************************************************)
Says(scalars, metadata) == [scalars |-> scalars, metadata |-> metadata]
MCContent == {Says("x", "m"), Says("y", "m"), Says("x", "n")}
Written   == {Says("x", "m"), Nothing}

VARIABLE machine

MCInit ==
  /\ machine \in Machines
  /\ NInit /\ GInit /\ AInit /\ CInit
  /\ machine # "creation" => setting = Server /\ hits = 0 /\ \A c \in Call : call[c].req = Plain
  /\ machine # "auth" => \A b \in Bearer : bearer[b].token = CHOOSE t \in Presents[b] : TRUE
  /\ \A row \in log : row.said \in Written

MCNext ==
  /\ \/ machine = "creation" /\ NNext /\ UNCHANGED <<gvars, avars, cvars>>
     \/ machine = "gateway"  /\ GNext /\ UNCHANGED <<nvars, avars, cvars>>
     \/ machine = "auth"     /\ ANext /\ UNCHANGED <<nvars, gvars, cvars>>
     \/ machine = "chain"    /\ CNext /\ UNCHANGED <<nvars, gvars, avars>>
                             /\ \A w \in Inserter : tx'[w].row.said \in Written
  /\ UNCHANGED machine

MCSpec ==
  /\ MCInit /\ [][MCNext]_<<machine, nvars, gvars, avars, cvars>>
  /\ GFairness
==============================================================================
