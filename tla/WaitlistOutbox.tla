---------------------------- MODULE WaitlistOutbox ----------------------------
(***************************************************************************)
(* The waitlist of infra/waitlist/src: handler.js stores a submission and  *)
(* its outbox row in one transaction; the stream of the outbox table feeds *)
(* notifier.js, which tells the broker; reader.js looks a submission up by *)
(* the id the broker was told.  Before the stream is connected, an         *)
(* operator runs backfill-outbox.js, which gives rows of earlier versions  *)
(* an opaque id and an outbox row, and replay-outbox.js, which notifies    *)
(* what the stream no longer holds (scripts/deploy.sh); meanwhile people   *)
(* submit, rows expire, and another deployment may run a backfill too.     *)
(*                                                                         *)
(* A request that a gate of the handler refuses, or that fills in the      *)
(* honeypot, changes nothing and is left out.  Ids are drawn in sequence.  *)
(***************************************************************************)
EXTENDS Integers, SequencesExt

CONSTANTS
  Person,      \* the submission keys: an address and an offer
  Smoke,       \* those with an address of example.com
  Backfiller,  \* those who run backfill-outbox.js, the deployment among them
  Deployment,
  Setting,     \* the table an earlier version left, and what is to come: which runs,
               \* how many mishaps, and when the time ends
  Retention,   \* how long a submission is kept
  Passes,      \* of backfill and replay (3 in the code)
  MaxRetries,  \* MaximumRetryAttempts of the mapping (5 in the template)
  Batch,       \* its BatchSize (10 in the template)
  MaxNow, MaxIds   \* bounds

ASSUME WaitlistAssumption ==
  /\ Smoke \subseteq Person /\ Deployment \in Backfiller
  /\ {Retention, Passes, Batch, MaxNow, MaxIds} \subseteq Nat \ {0}
  /\ MaxRetries \in Nat

VARIABLES
  table,     \* the private table
  outbox,    \* the outbox table
  stream,    \* the INSERTs of the outbox table, oldest first
  tries,     \* how often the first of them failed
  told,      \* the ids the broker was told of
  letters,   \* the ids in the dead-letter queue of the mapping
  enabled,   \* the mapping from the stream to the notifier
  backfill,  \* the runs of backfill-outbox.js
  replay,    \* the run of replay-outbox.js
  clock, drawn, mishaps,
  setting

tables  == <<table, outbox, drawn>>
wvars   == <<table, outbox, stream, tries, told, letters, enabled, backfill, replay,
             clock, drawn, mishaps, setting>>

\* A row; without random-v1 its id is one of an earlier version (0: none).  A
\* row that is not whole has an id and nothing else, not even an expiry.
NoRow    == [there |-> FALSE, id |-> 0, v1 |-> FALSE, until |-> 0, whole |-> TRUE]
Never    == MaxNow + 1
Live(r)  == r.until > clock
Real     == Person \ Smoke

\* What an earlier deployment can have left: each id is one person's, and a row
\* that is not whole has the id of this version.
SourceRow == [there: BOOLEAN, id: Nat, v1: BOOLEAN, until: Nat, whole: BOOLEAN]
LeftBehind(t) ==
  /\ t \in [Person -> SourceRow]
  /\ \A p \in Person :
       /\ ~t[p].there => t[p] = NoRow
       /\ t[p].v1 => t[p].id # 0
       /\ ~t[p].whole => t[p].v1 /\ t[p].until = Never
       /\ t[p].id <= MaxIds
       /\ \A q \in Person \ {p} : t[p].id = t[q].id => t[p].id = 0

ASSUME SettingAssumption ==
  /\ Person # {}
  /\ \A s \in Setting : /\ LeftBehind(s.table) /\ s.runs \subseteq Backfiller
                        /\ s.mishaps \in Nat /\ s.ends \in 0..MaxNow

\* createSubmission, and createNotificationOutbox.
NewRow(id)       == [there |-> TRUE, id |-> id, v1 |-> TRUE, until |-> clock + Retention,
                     whole |-> TRUE]
Notice(p, r)     == [id |-> r.id, of |-> p, until |-> r.until]
Noticed(id)      == \E o \in outbox : o.id = id

NoReplay == [at |-> "idle", since |-> 0, pass |-> 1, left |-> {}, done |-> {}, news |-> FALSE]

NoRun == [at |-> "idle", since |-> 0, pass |-> 1, items |-> [p \in Person |-> NoRow],
          dirty |-> FALSE]

Failed(r) == [NoRun EXCEPT !.at = "failed", !.since = r.since]

\* Rows of earlier versions, with their notices; what they told is forgotten.
WInit ==
  /\ setting \in Setting /\ table = setting.table
  /\ \E known \in SUBSET {p \in Real : table[p].id # 0} :
       outbox = {Notice(p, table[p]) : p \in known}
  /\ drawn = Max({table[p].id : p \in Person})
  /\ stream = <<>> /\ tries = 0
  /\ told = {} /\ letters = {} /\ enabled = FALSE
  /\ backfill = [b \in Backfiller |-> NoRun]
  /\ replay = NoReplay
  /\ clock = 0 /\ mishaps = 0

Mishap == mishaps < setting.mishaps /\ mishaps' = mishaps + 1
Draw   == drawn < MaxIds /\ drawn' = drawn + 1

\* Rows put into the outbox table appear in its stream.
Put(new)        == outbox' = outbox \cup new /\ stream' = stream \o SetToSeq(new)
Replace(old, new) ==
  outbox' = (outbox \ {o \in outbox : o.id = old}) \cup new /\ stream' = stream \o SetToSeq(new)

------------------------------------------------------------------------------
(***************************************************************************)
(* The handler.                                                            *)
(***************************************************************************)
\* putSubmission: the row, and a notice of it unless it is a smoke test, in one
\* transaction.  Whoever is on the list is told the same and nothing is written.
Submit(p) ==
  /\ ~table[p].there
  /\ Draw
  /\ table' = [table EXCEPT ![p] = NewRow(drawn')]
  /\ Put(IF p \in Real THEN {Notice(p, NewRow(drawn'))} ELSE {})
  /\ UNCHANGED <<tries, told, letters, enabled, backfill, replay, clock, mishaps, setting>>

Tick ==
  /\ clock < setting.ends /\ clock' = clock + 1
  /\ UNCHANGED <<tables, stream, tries, told, letters, enabled, backfill, replay, mishaps, setting>>

\* DynamoDB deletes what has expired, some time later.
Purge ==
  /\ \/ \E p \in Person : /\ table[p].there /\ ~Live(table[p])
                          /\ table' = [table EXCEPT ![p] = NoRow]
                          /\ UNCHANGED outbox
     \/ \E o \in outbox : ~Live(o) /\ outbox' = outbox \ {o} /\ UNCHANGED table
  /\ UNCHANGED <<stream, tries, told, letters, enabled, backfill, replay, clock, drawn, mishaps, setting>>

------------------------------------------------------------------------------
(***************************************************************************)
(* The notifier.                                                           *)
(***************************************************************************)
\* buildBrokerPayload has nothing to send for what has expired.
Tell(notices) == told' = told \cup {o.id : o \in {n \in notices : Live(n)}}

\* Mutation: the failed records are not reported.
AllHandled(n, failed) == n

\* batchItemFailures: what comes before the first record that failed is done.
Handled(n, failed) == IF failed = {} THEN n ELSE Min(failed) - 1

\* A batch of the stream.  Records after one that failed are sent, and come again
\* with it; one that failed too often is put aside.
Notify ==
  LET n == Min({Batch, Len(stream)})
  IN
  /\ enabled /\ n > 0
  /\ \E failed \in SUBSET (1..n) :
       LET done == Handled(n, failed)
           again == IF done = 0 THEN tries + 1 ELSE 1
           rest == SubSeq(stream, done + 1, Len(stream))
       IN
       /\ IF failed = {} THEN UNCHANGED mishaps ELSE Mishap
       /\ Tell({stream[i] : i \in (1..n) \ failed})
       /\ IF done = n
          THEN stream' = rest /\ tries' = 0 /\ UNCHANGED letters
          ELSE IF again > MaxRetries
          THEN /\ stream' = Tail(rest) /\ tries' = 0
               /\ letters' = letters \cup {Head(rest).id}
          ELSE stream' = rest /\ tries' = again /\ UNCHANGED letters
  /\ UNCHANGED <<tables, enabled, backfill, replay, clock, setting>>

\* A stream keeps a day: what waits longer is gone.  From the first scan of the
\* replay to the mapping takes less.
Trim ==
  /\ ~enabled /\ replay.at = "idle" /\ stream # <<>>
  /\ stream' = Tail(stream)
  /\ UNCHANGED <<tables, tries, told, letters, enabled, backfill, replay, clock, mishaps, setting>>

------------------------------------------------------------------------------
(***************************************************************************)
(* backfill-outbox.js.                                                     *)
(***************************************************************************)
Becomes(b, r)   == backfill' = [backfill EXCEPT ![b] = r]
Elsewhere         == UNCHANGED <<tries, told, letters, enabled, replay, clock, setting>>

BeginBackfill(b) ==
  /\ b \in setting.runs /\ backfill[b].at \in {"idle", "cut", "failed"}
  /\ Becomes(b, [NoRun EXCEPT !.at = "scanning", !.since = clock])
  /\ Elsewhere /\ UNCHANGED <<tables, stream, mishaps>>

\* scanAll; rows are read at different moments, and handled each for itself.
Scan(b) ==
  /\ backfill[b].at = "scanning"
  /\ Becomes(b, [backfill[b] EXCEPT !.items = table, !.at = "working"])
  /\ Elsewhere /\ UNCHANGED <<tables, stream, mishaps>>

\* The condition of migrateSource.  Attributes that do not exist: those of a row
\* that is gone are among them.
Unmigrated(p, item) == ~table[p].v1 /\ table[p].id = item.id

\* The transaction of migrateSource; an expired row, or a smoke test, gets an id
\* and no notice.
Migrate(p, item, since) ==
  LET new == [item EXCEPT !.id = drawn', !.v1 = TRUE]
  IN
  /\ Draw
  /\ table' = [table EXCEPT ![p] =
       [new EXCEPT !.whole = table[p].there, !.until = IF table[p].there THEN @ ELSE Never]]
  /\ Replace(item.id, IF p \in Real /\ item.until > since THEN {Notice(p, new)} ELSE {})

\* A row of this version lacks at most its notice.
Complete(p, item, since) ==
  /\ Put(IF p \in Real /\ item.until > since /\ ~Noticed(item.id)
         THEN {Notice(p, item)} ELSE {})
  /\ UNCHANGED <<table, drawn>>

\* What the run does about a row it scanned, and whether another pass has to see.
\* The verifying read that follows a write is part of it.
Fill(p, item, since) ==
  IF ~item.v1
  THEN IF Unmigrated(p, item) THEN Migrate(p, item, since) ELSE UNCHANGED <<tables, stream>>
  ELSE Complete(p, item, since)

\* Mutation: what one pass did counts for the next.
StillDirty(r) == r.dirty

\* The counters are set to zero for every pass.
DirtyAtFirst(r) == FALSE

Work(b) ==
  LET r == backfill[b]
  IN
  /\ r.at = "working"
  /\ \E p \in {q \in Person : r.items[q].there} :
       IF ~r.items[p].whole
       THEN /\ Becomes(b, Failed(r))
            /\ UNCHANGED <<tables, stream>>
       ELSE /\ Fill(p, r.items[p], r.since)
            /\ Becomes(b, [r EXCEPT !.items[p] = NoRow,
                                    !.dirty = @ \/ ~r.items[p].v1 \/ outbox # outbox'])
  /\ Elsewhere /\ UNCHANGED mishaps

EndPass(b) ==
  LET r == backfill[b]
  IN
  /\ r.at = "working" /\ \A p \in Person : ~r.items[p].there
  /\ Becomes(b, IF ~r.dirty THEN [NoRun EXCEPT !.at = "verified"]
                ELSE IF r.pass = Passes THEN Failed(r)
                ELSE [r EXCEPT !.at = "scanning", !.pass = @ + 1,
                               !.dirty = DirtyAtFirst(r)])
  /\ Elsewhere /\ UNCHANGED <<tables, stream, mishaps>>

\* A call fails, or the process is stopped: what it was about to write may have
\* been written.
BackfillFails(b) ==
  LET r == backfill[b]
  IN
  /\ r.at \in {"scanning", "working"} /\ Mishap
  /\ \/ UNCHANGED <<tables, stream>>
     \/ /\ r.at = "working"
        /\ \E p \in {q \in Person : r.items[q].there /\ r.items[q].whole} :
             Fill(p, r.items[p], r.since)
  /\ Becomes(b, [NoRun EXCEPT !.at = "cut"])
  /\ Elsewhere

------------------------------------------------------------------------------
(***************************************************************************)
(* replay-outbox.js, and the mapping.                                      *)
(***************************************************************************)
ReplayBecomes(r) ==
  /\ replay' = r
  /\ UNCHANGED <<tables, stream, tries, letters, backfill, clock, setting>>

\* deploy.sh goes on when the backfill printed "verified".
BeginReplay ==
  /\ replay.at = "idle" /\ ~enabled /\ backfill[Deployment].at = "verified"
  /\ ReplayBecomes([NoReplay EXCEPT !.at = "scanning", !.since = clock])
  /\ UNCHANGED <<told, enabled, mishaps>>

ReplayScan ==
  LET pending == {o \in outbox : o.until > replay.since /\ o.id \notin replay.done}
  IN
  /\ replay.at = "scanning"
  /\ ReplayBecomes([replay EXCEPT !.at = "invoking", !.left = pending, !.news = pending # {}])
  /\ UNCHANGED <<told, enabled, mishaps>>

\* The notifier is invoked with an event made up from the row.
Invoke ==
  /\ replay.at = "invoking"
  /\ \E o \in replay.left :
       /\ Tell({o})
       /\ ReplayBecomes([replay EXCEPT !.left = @ \ {o}, !.done = @ \cup {o.id}])
  /\ UNCHANGED <<enabled, mishaps>>

EndReplayPass ==
  /\ replay.at = "invoking" /\ replay.left = {}
  /\ ReplayBecomes(IF ~replay.news THEN [NoReplay EXCEPT !.at = "verified"]
                   ELSE IF replay.pass = Passes THEN NoReplay
                   ELSE [replay EXCEPT !.at = "scanning", !.pass = @ + 1])
  /\ UNCHANGED <<told, enabled, mishaps>>

ReplayFails ==
  /\ replay.at \in {"scanning", "invoking"} /\ Mishap
  /\ ReplayBecomes(NoReplay)
  /\ UNCHANGED <<told, enabled>>

Enable ==
  /\ replay.at = "verified" /\ ~enabled
  /\ enabled' = TRUE
  /\ ReplayBecomes(NoReplay)
  /\ UNCHANGED <<told, mishaps>>

WNext ==
  \/ \E p \in Person : Submit(p)
  \/ Tick \/ Purge \/ Notify \/ Trim
  \/ \E b \in Backfiller : BeginBackfill(b) \/ Scan(b) \/ Work(b) \/ EndPass(b) \/ BackfillFails(b)
  \/ BeginReplay \/ ReplayScan \/ Invoke \/ EndReplayPass \/ ReplayFails \/ Enable

WSpec == WInit /\ [][WNext]_wvars

------------------------------------------------------------------------------
(***************************************************************************)
(* Properties.                                                             *)
(***************************************************************************)
\* reader.js: whose submission an id is.
Found(id) == {p \in Person : table[p].v1 /\ table[p].id = id}

\* Once the mapping is enabled, nobody on the list is forgotten: the broker was
\* told of each, or the stream still has it to tell, or it is among the dead
\* letters - rows of earlier versions, those submitted while the backfill and
\* the replay ran, and those the stream dropped before.
NobodyForgotten ==
  enabled =>
    \A p \in Real :
      table[p].there /\ table[p].whole /\ Live(table[p]) =>
        \/ table[p].id \in told \cup letters
        \/ \E i \in 1..Len(stream) : stream[i].id = table[p].id

\* A notice names a submission the reader finds, although runs of the backfill
\* change ids next to each other: of a notice that is live, and not of an earlier
\* version, the id is its person's, and nobody else's.
NoticesFound ==
  \A o \in outbox :
    Live(o) => Found(o.id) = {o.of} \/ table[o.of] = [table[o.of] EXCEPT !.id = o.id, !.v1 = FALSE]

\* The broker gets to know everybody, by notices that lead to the right person.
EverybodyReached == NobodyForgotten /\ NoticesFound

\* Three passes are enough: a backfill that is not cut short fails on a row that
\* is not whole, or when rows expire while it runs, but not because others write
\* the tables.
BackfillConverges ==
  \A b \in Backfiller :
    backfill[b].at = "failed" =>
      backfill[b].since < clock \/ \E p \in Person : ~table[p].whole
==============================================================================
