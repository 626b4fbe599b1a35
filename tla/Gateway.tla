-------------------------------- MODULE Gateway --------------------------------
(***************************************************************************)
(* POST /v1/sign of packages/esig-gateway, for callers that passed         *)
(* GatewayAuth: the bounded number of signs under way, the deadline, the   *)
(* certificate and the post-quantum keys of the partition, the signature   *)
(* and its audit row.  The keys live in two JSON files of                  *)
(* packages/esig-core/src/fs-adapters.ts and stores.ts, certs and pq, each *)
(* read and written back as a whole; the mutex is held for each partition  *)
(* of its own, while a file holds them all.                                *)
(*                                                                         *)
(* The mutex is KeyedMutex, here one holder for each partition.  A row is  *)
(* named after the dossier that brought it; bytes, keys and the PDF are    *)
(* left out.                                                               *)
(***************************************************************************)
EXTENDS Integers, Sequences, FiniteSets

CONSTANTS
  Dossier,      \* the sign requests
  KeyOf,        \* certKeyFor: the partition, tenant/alias, of each
  Limit,        \* maxConcurrentSigns
  MaxLine,      \* maxQueue
  PqSeal,       \* pqSeal of the binding
  TsaRequired,  \* tsa.required
  MaxExpiries,  \* bound: the certificates that end
  MaxStops      \* bound: the times the process dies

ASSUME GatewayAssumption ==
  /\ "nobody" \notin Dossier
  /\ Limit \in Nat \ {0} /\ MaxLine \in Nat

VARIABLES
  keyFiles,     \* the rows [id, key, active, valid, from] of each file
  auditRows,    \* audit-log.ndjson
  lockedBy,     \* the holder of the mutex of each partition
  active, line, \* Semaphore
  work,         \* what each request is doing
  told,         \* what its caller was told
  gateEvents    \* how often a certificate ended and the process died

gvars == <<keyFiles, auditRows, lockedBy, active, line, work, told, gateEvents>>

Nobody    == "nobody"
Partition == {KeyOf[d] : d \in Dossier}
Idle      == [at |-> "away", in |-> "certs", to |-> "insert", rows |-> {}, old |-> Nobody,
              cert |-> Nobody]
Running   == {"rendering", "locking", "finding", "reading", "writing", "signing", "auditing"}
Holding   == {"finding", "reading", "writing"}

GInit ==
  /\ keyFiles = [f \in {"certs", "pq"} |-> {}]
  /\ auditRows = {}
  /\ lockedBy = [k \in Partition |-> Nobody]
  /\ active = 0 /\ line = <<>>
  /\ work = [d \in Dossier |-> Idle]
  /\ told = [d \in Dossier |-> "nothing"]
  /\ gateEvents = [expiries |-> 0, stops |-> 0]

Now(d, at) == work' = [work EXCEPT ![d].at = at]
Disk       == <<keyFiles, auditRows>>
Semaphore  == <<active, line>>

------------------------------------------------------------------------------
(***************************************************************************)
(* The semaphore and the deadline.                                         *)
(***************************************************************************)
\* acquire: a slot, a place in line, or 429.
Acquires(d) ==
  /\ work[d].at = "away"
  /\ \/ /\ active < Limit
        /\ active' = active + 1 /\ Now(d, "rendering") /\ UNCHANGED <<line, told>>
     \/ /\ active >= Limit /\ Len(line) < MaxLine
        /\ line' = Append(line, d) /\ Now(d, "queued") /\ UNCHANGED <<active, told>>
     \/ /\ active >= Limit /\ Len(line) >= MaxLine
        /\ told' = [told EXCEPT ![d] = "429"] /\ Now(d, "settled") /\ UNCHANGED Semaphore
  /\ UNCHANGED <<Disk, lockedBy, gateEvents>>

\* Mutation: a slot is given back, nobody in line is told.
Forgets(after) ==
  /\ work' = after /\ active' = active - 1 /\ UNCHANGED line

\* release: the slot goes to the first in line.  In the code the count goes down
\* and up again one microtask later; that nobody asks in between is assumed.
Releases(after) ==
  IF line = <<>>
  THEN work' = after /\ active' = active - 1 /\ UNCHANGED line
  ELSE work' = [after EXCEPT ![Head(line)].at = "rendering"] /\ line' = Tail(line) /\ UNCHANGED active

\* The work of d settles: its slot is released, its caller told, unless the
\* deadline has told it already.
Settles(d, answer) ==
  /\ Releases([work EXCEPT ![d] = [Idle EXCEPT !.at = "settled"]])
  /\ told' = IF told[d] = "nothing" THEN [told EXCEPT ![d] = answer] ELSE told

\* Mutation: the slot is released when the deadline fires.
DeadlineReleases(d) ==
  /\ work[d].at \in Running /\ told[d] = "nothing"
  /\ told' = [told EXCEPT ![d] = "504"]
  /\ Releases(work)
  /\ UNCHANGED <<Disk, lockedBy, gateEvents>>

\* withDeadline: the caller is answered, the work goes on.
Deadline(d) ==
  /\ work[d].at \in Running /\ told[d] = "nothing"
  /\ told' = [told EXCEPT ![d] = "504"]
  /\ UNCHANGED <<Disk, lockedBy, Semaphore, work, gateEvents>>

------------------------------------------------------------------------------
(***************************************************************************)
(* Signer.sign.                                                            *)
(***************************************************************************)
\* The binding, the tenant of the credential, the timestamp and the HTML are
\* fine, and the page is rendered.
Renders(d) ==
  /\ work[d].at = "rendering"
  /\ Now(d, "locking")
  /\ UNCHANGED <<Disk, lockedBy, Semaphore, told, gateEvents>>

\* A refusal, or an error of the renderer.
Refuses(d) ==
  /\ work[d].at = "rendering"
  /\ Settles(d, "error")
  /\ UNCHANGED <<Disk, lockedBy, gateEvents>>

\* mutex.run of the partition.
Locks(d) ==
  /\ work[d].at = "locking" /\ lockedBy[KeyOf[d]] = Nobody
  /\ lockedBy' = [lockedBy EXCEPT ![KeyOf[d]] = d]
  /\ Now(d, "finding")
  /\ UNCHANGED <<Disk, Semaphore, told, gateEvents>>

\* With the row of this file in hand: the other file, or out of the mutex.
Proceeds(d, id) ==
  IF work[d].in = "certs" /\ PqSeal
  THEN /\ work' = [work EXCEPT ![d] = [Idle EXCEPT !.at = "finding", !.in = "pq", !.cert = id]]
       /\ UNCHANGED lockedBy
  ELSE /\ work' = [work EXCEPT ![d] = [Idle EXCEPT !.at = "signing",
                                       !.cert = IF work[d].in = "certs" THEN id ELSE @]]
       /\ lockedBy' = [lockedBy EXCEPT ![KeyOf[d]] = Nobody]

ActiveOf(d) == {r \in keyFiles[work[d].in] : r.key = KeyOf[d] /\ r.active}

\* findActive of ensureActiveCert and ensureActivePqKeys.  A certificate that
\* has ended is deactivated first, and replaced.
Finds(d) ==
  /\ work[d].at = "finding"
  /\ \/ \E r \in ActiveOf(d) : r.valid /\ Proceeds(d, r.id)
     \/ \E r \in ActiveOf(d) :
          /\ ~r.valid
          /\ work' = [work EXCEPT ![d].at = "reading", ![d].to = "retire", ![d].old = r.id]
          /\ UNCHANGED lockedBy
     \/ ActiveOf(d) = {} /\ Now(d, "reading") /\ UNCHANGED lockedBy
  /\ UNCHANGED <<Disk, Semaphore, told, gateEvents>>

\* rows, of deactivate and of insert.
Reads(d) ==
  /\ work[d].at = "reading"
  /\ work' = [work EXCEPT ![d].at = "writing", ![d].rows = keyFiles[work[d].in]]
  /\ UNCHANGED <<Disk, lockedBy, Semaphore, told, gateEvents>>

Off(rows, off) == {IF r \in off THEN [r EXCEPT !.active = FALSE] ELSE r : r \in rows}

\* deactivate, which writes only when it has found the row.
Retires(d) ==
  /\ work[d].at = "writing" /\ work[d].to = "retire"
  /\ LET old == {r \in work[d].rows : r.id = work[d].old}
     IN  keyFiles' = IF old = {} THEN keyFiles
                     ELSE [keyFiles EXCEPT ![work[d].in] = Off(work[d].rows, old)]
  /\ work' = [work EXCEPT ![d].at = "reading", ![d].to = "insert", ![d].rows = {}]
  /\ UNCHANGED <<auditRows, lockedBy, Semaphore, told, gateEvents>>

\* Mutation: insert trusts deactivate to have turned the old row off.
LeavesOthersActive(d) == work[d].rows

\* The other rows of the partition, of which none stays active.
Others(d) == Off(work[d].rows, {r \in work[d].rows : r.key = KeyOf[d]})

\* insert.
Inserts(d) ==
  /\ work[d].at = "writing" /\ work[d].to = "insert"
  /\ keyFiles' = [keyFiles EXCEPT ![work[d].in] =
       Others(d) \cup {[id |-> d, key |-> KeyOf[d], active |-> TRUE, valid |-> TRUE, from |-> work[d].old]}]
  /\ Proceeds(d, d)
  /\ UNCHANGED <<auditRows, Semaphore, told, gateEvents>>

\* TsaPool: the authorities in their order; one of them answers, or none.
Stampings == BOOLEAN

\* signPdf: the seal, the signature on top of it, and its timestamp, without
\* which nothing is returned if it is required.
SignsPdf(stamped) == TsaRequired => stamped

\* The result is verified before it is used.
Signs(d) ==
  /\ work[d].at = "signing"
  /\ \E stamped \in Stampings :
       \/ SignsPdf(stamped) /\ Now(d, "auditing") /\ UNCHANGED <<told, Semaphore>>
       \/ ~SignsPdf(stamped) /\ Settles(d, "error")
  /\ UNCHANGED <<Disk, lockedBy, gateEvents>>

\* The audit row, and the answer.
Audits(d) ==
  /\ work[d].at = "auditing"
  /\ auditRows' = auditRows \cup {[dossier |-> d, cert |-> work[d].cert]}
  /\ Settles(d, "200")
  /\ UNCHANGED <<keyFiles, lockedBy, gateEvents>>

\* A file cannot be read or written, or signing throws.
FailsAt(d) ==
  /\ work[d].at \in Holding \cup {"signing", "auditing"}
  /\ lockedBy' = IF work[d].at \in Holding THEN [lockedBy EXCEPT ![KeyOf[d]] = Nobody] ELSE lockedBy
  /\ Settles(d, "error")
  /\ UNCHANGED <<Disk, gateEvents>>

------------------------------------------------------------------------------
\* A certificate ends.
CertEnds ==
  /\ gateEvents.expiries < MaxExpiries
  /\ \E r \in keyFiles["certs"] :
       /\ r.active /\ r.valid
       /\ keyFiles' = [keyFiles EXCEPT !["certs"] =
            {IF s.id = r.id THEN [s EXCEPT !.valid = FALSE] ELSE s : s \in @}]
       /\ work' = [d \in Dossier |-> [work[d] EXCEPT !.rows =
            {IF s.id = r.id /\ work[d].in = "certs" THEN [s EXCEPT !.valid = FALSE] ELSE s : s \in @}]]
  /\ gateEvents' = [gateEvents EXCEPT !.expiries = @ + 1]
  /\ UNCHANGED <<auditRows, lockedBy, Semaphore, told>>

\* The process dies; a file is replaced in one rename, so none is half written.
GatewayStops ==
  /\ gateEvents.stops < MaxStops
  /\ gateEvents' = [gateEvents EXCEPT !.stops = @ + 1]
  /\ told' = [d \in Dossier |-> IF work[d].at \in Running \cup {"queued"} /\ told[d] = "nothing"
                                THEN "cut" ELSE told[d]]
  /\ work' = [d \in Dossier |-> IF work[d].at = "away" THEN work[d] ELSE [Idle EXCEPT !.at = "settled"]]
  /\ lockedBy' = [k \in Partition |-> Nobody]
  /\ active' = 0 /\ line' = <<>>
  /\ UNCHANGED Disk

Works(d) ==
  \/ Renders(d) \/ Refuses(d) \/ Locks(d) \/ Finds(d) \/ Reads(d) \/ Retires(d)
  \/ Inserts(d) \/ Signs(d) \/ Audits(d) \/ FailsAt(d)

GNext ==
  \/ \E d \in Dossier : Acquires(d) \/ Deadline(d) \/ Works(d)
  \/ CertEnds \/ GatewayStops

\* A sign that has its slot comes to an end, with a result or an error.
GFairness == \A d \in Dossier : WF_gvars(Works(d))

------------------------------------------------------------------------------
\* "a timed-out sign still holds its Chromium process, and releasing early
\* would let the gateway over-subscribe itself": never more signs under way
\* than slots, also with deadlines that fire and slots that change hands.
SlotsHold == Cardinality({d \in Dossier : work[d].at \in Running}) <= Limit

\* Whoever gets a slot or a place in line is told something, also behind signs
\* that fail or outlive their deadline: again and again nobody is waiting.
EveryCallerTold == []<>(\A d \in Dossier : work[d].at # "away" => told[d] # "nothing")

\* "At most one active" (CertStore and PqKeyStore contracts), of a partition,
\* although a stale copy of the file can bring a retired row back to life.
SingleActive ==
  \A f \in DOMAIN keyFiles : \A r, s \in keyFiles[f] :
    r.active /\ s.active /\ r.key = s.key => r = s

(***************************************************************************)
(* What the repository says of the file stores and the code does not keep. *)
(***************************************************************************)
\* Reading and writing back the file "serializes within one process": the
\* certificate an audit row names is in the store.
CertificateKept == \A a \in auditRows : \E r \in keyFiles["certs"] : r.id = a.cert
==============================================================================
