------------------------------- MODULE AuditChain -------------------------------
(***************************************************************************)
(* The hash chain of one tenant's audit log: the migration that chains the *)
(* rows that are there and its insert trigger                              *)
(* (migrations/0002_esig_audit_hashchain.sql), the verifier that pages     *)
(* through it (packages/esig-supabase/src/audit-chain.ts), and exports of  *)
(* its rows to write-once storage (packages/esig-worm).                    *)
(*                                                                         *)
(* Somebody who disables the triggers can change rows.  A row says its     *)
(* scalar columns and its metadata, beside its created_at; the payload has *)
(* the metadata as an md5, and no two metadata have the same.  The columns *)
(* that payload_canonical does not name are left out.  A hash is the       *)
(* sequence of the payloads that went into it, so that two hashes are      *)
(* equal only when everything before them is.  NULL is NoHash.             *)
(***************************************************************************)
EXTENDS Integers, Sequences, FiniteSets

CONSTANTS
  Inserter,     \* the transactions that insert a row
  Content,      \* what a row can say [scalars, metadata]
  Isolation,    \* the isolation levels in use, of "committed" and "repeatable"
  Legacy,       \* the rows there before the migration
  PageSize,     \* pageSize of the verifier
  Caps,         \* max-rows of the server, as a verification may find it
  MaxTampers,   \* bound: the changes made with the triggers disabled
  MaxExports    \* bound: the exports

ASSUME InserterAssumption == IsFiniteSet(Inserter) /\ "unlocked" \notin Inserter
ASSUME ContentAssumption  == \A c \in Content : c = [scalars |-> c.scalars, metadata |-> c.metadata]
ASSUME SizeAssumption     == Legacy \in Nat /\ PageSize \in Nat \ {0} /\ Caps \subseteq Nat

VARIABLES
  log,          \* the committed rows
  tx,           \* the transactions
  lockOwner,    \* the advisory lock of the tenant
  migrated,     \* how far the migration has come
  reader,       \* a verification under way
  exports,      \* the locked objects [key, rows]
  anchors,      \* exports of a chain as it was written, with the chain they end (a history)
  tampers

cvars == <<log, tx, lockOwner, migrated, reader, exports, anchors, tampers>>

NoHash   == <<>>
Unlocked == "unlocked"
Unset    == 0 - 1
NotRead  == [at |-> "idle", got |-> <<>>, there |-> {}, cap |-> 0, undisturbed |-> TRUE]

\* A row before it is chained; born is the order of created_at and id.
Bare(c, born) == [seq |-> Unset, said |-> c, canon |-> NoHash, prev |-> NoHash, hash |-> NoHash, born |-> born]

Nothing == [scalars |-> "none", metadata |-> "none"]
Away == [at |-> "away", level |-> "committed", sees |-> {}, row |-> Bare(Nothing, 0)]

CInit ==
  /\ \E said \in [1..Legacy -> Content] : log = {Bare(said[i], i) : i \in 1..Legacy}
  /\ tx = [w \in Inserter |-> Away]
  /\ lockOwner = Unlocked
  /\ migrated = IF Legacy = 0 THEN "chained" ELSE "old"
  /\ reader = NotRead
  /\ exports = {} /\ anchors = {}
  /\ tampers = 0

Chained == {r \in log : r.seq # Unset}
Last(rows) == {r \in rows : r.seq # Unset /\ \A s \in rows : s.seq <= r.seq}

------------------------------------------------------------------------------
(***************************************************************************)
(* The chain.                                                              *)
(***************************************************************************)
\* esig_audit_canonical.
Canonical(r) == <<r.said, r.born>>

\* esig_audit_row_hash.
Hash(prev, canon) == Append(prev, canon)

NextSeq(rows)  == IF Last(rows) = {} THEN 0 ELSE (CHOOSE r \in Last(rows) : TRUE).seq + 1
LastHash(rows) == IF Last(rows) = {} THEN NoHash ELSE (CHOOSE r \in Last(rows) : TRUE).hash

\* One row chained behind the rows that are visible.
Link(row, rows) ==
  [seq |-> NextSeq(rows), said |-> row.said, canon |-> Canonical(row), prev |-> LastHash(rows),
   hash |-> Hash(LastHash(rows), Canonical(row)), born |-> row.born]

\* Rows chained one after the other behind those that are there.
ChainedBehind(rows, there) ==
  LET Fill[n \in 0..Len(rows)] ==
        IF n = 0 THEN there
        ELSE LET before == Fill[n - 1] IN before \cup {Link(rows[n], before)}
  IN  Fill[Len(rows)]

\* The rows in the order of seq, nulls last.
InOrder(rows) ==
  LET Before(r, s) == \/ r.seq # Unset /\ (s.seq = Unset \/ r.seq < s.seq)
                      \/ r.seq = s.seq /\ r.born < s.born
  IN  [i \in 1..Cardinality(rows) |->
        CHOOSE r \in rows : Cardinality({s \in rows : Before(s, r)}) = i - 1]

\* The rows without a hash, chained in the order of created_at and id.
Backfilled == ChainedBehind(InOrder({r \in log : r.seq = Unset}), Chained)

\* Section 3 of the migration; it can be run again.
Backfill ==
  /\ migrated = "old"
  /\ log' = Backfilled
  /\ migrated' = "filled"
  /\ UNCHANGED <<tx, lockOwner, reader, exports, anchors, tampers>>

\* SET NOT NULL: fails on a row that came after the backfill.
Require ==
  /\ migrated = "filled"
  /\ migrated' = IF Chained = log THEN "strict" ELSE "old"
  /\ UNCHANGED <<log, tx, lockOwner, reader, exports, anchors, tampers>>

\* The insert trigger and the append-only triggers.
CreateTriggers ==
  /\ migrated = "strict"
  /\ migrated' = "chained"
  /\ UNCHANGED <<log, tx, lockOwner, reader, exports, anchors, tampers>>

------------------------------------------------------------------------------
(***************************************************************************)
(* Inserts.                                                                *)
(***************************************************************************)
ToTx(w, at) == tx' = [tx EXCEPT ![w].at = at]
Ends(w, at) == tx' = [tx EXCEPT ![w] = [Away EXCEPT !.at = at]]

\* created_at, which the rows of the log and of other transactions precede.
Newest ==
  LET all == {r.born : r \in log} \cup {tx[w].row.born : w \in Inserter} \cup {0}
  IN  CHOOSE b \in all : \A c \in all : c <= b

\* SupabaseAuditLogStore.insert: the statement takes its snapshot.
Opens(w) ==
  /\ tx[w].at = "away"
  /\ \E c \in Content, level \in Isolation :
       tx' = [tx EXCEPT ![w] = [at |-> "open", level |-> level, sees |-> log, row |-> Bare(c, Newest + 1)]]
  /\ UNCHANGED <<log, lockOwner, migrated, reader, exports, anchors, tampers>>

\* Before the trigger is there: a row with no chain columns, until they are
\* required.
CommitsBare(w) ==
  /\ tx[w].at = "open"
  /\ migrated \in {"old", "filled"}
  /\ log' = log \cup {tx[w].row}
  /\ Ends(w, "done")
  /\ UNCHANGED <<lockOwner, migrated, reader, exports, anchors, tampers>>

RejectedBare(w) ==
  /\ tx[w].at = "open" /\ migrated = "strict"
  /\ Ends(w, "done")
  /\ UNCHANGED <<log, lockOwner, migrated, reader, exports, anchors, tampers>>

\* pg_advisory_xact_lock.
LocksChain(w) ==
  /\ tx[w].at = "open" /\ migrated = "chained"
  /\ lockOwner = Unlocked
  /\ lockOwner' = w
  /\ ToTx(w, "locked")
  /\ UNCHANGED <<log, migrated, reader, exports, anchors, tampers>>

\* What the trigger's query sees: what is committed now, or, of a transaction
\* that repeats its reads, what was committed when it began.
Visible(w) == IF tx[w].level = "repeatable" THEN tx[w].sees ELSE log

\* Mutation: no unique index on (tenant, seq).
NoIndex(row) == FALSE

\* esig_audit_log_tenant_seq_key.
Taken(row) == \E r \in log : r.seq = row.seq

\* esig_audit_log_chain.
InsertsRow(w) ==
  /\ tx[w].at = "locked"
  /\ LET row == Link(tx[w].row, Visible(w))
     IN  IF Taken(row)
         THEN Ends(w, "refused") /\ lockOwner' = Unlocked
         ELSE tx' = [tx EXCEPT ![w].at = "inserted", ![w].row = row] /\ UNCHANGED lockOwner
  /\ UNCHANGED <<log, migrated, reader, exports, anchors, tampers>>

\* The index is asked again when another transaction has committed meanwhile.
CommitsRow(w) ==
  /\ tx[w].at = "inserted"
  /\ IF Taken(tx[w].row)
     THEN Ends(w, "refused") /\ UNCHANGED log
     ELSE log' = log \cup {tx[w].row} /\ Ends(w, "done")
  /\ lockOwner' = Unlocked
  /\ UNCHANGED <<migrated, reader, exports, anchors, tampers>>

RollsBack(w) ==
  /\ tx[w].at \in {"locked", "inserted"}
  /\ Ends(w, "done") /\ lockOwner' = Unlocked
  /\ UNCHANGED <<log, migrated, reader, exports, anchors, tampers>>

------------------------------------------------------------------------------
(***************************************************************************)
(* verifyAuditChain.                                                       *)
(***************************************************************************)
Least(i, j) == IF i <= j THEN i ELSE j

\* range(from, from + pageSize - 1), cut short by the server's own limit.
Page(from, cap) ==
  LET all == InOrder(log) IN SubSeq(all, from + 1, Least(Len(all), from + Least(PageSize, cap)))

\* The first page comes with the exact count, of the rows that are there.
ReadsFirst ==
  /\ reader.at = "idle" /\ migrated = "chained"
  /\ \E cap \in Caps :
       reader' = [at |-> IF Len(Page(0, cap)) < PageSize THEN "read" ELSE "reading",
                  got |-> Page(0, cap), there |-> log, cap |-> cap, undisturbed |-> tampers = 0]
  /\ UNCHANGED <<log, tx, lockOwner, migrated, exports, anchors, tampers>>

\* A page that is not full is the last one.
ReadsNext ==
  /\ reader.at = "reading"
  /\ LET page == Page(Len(reader.got), reader.cap)
     IN  reader' = [reader EXCEPT !.at = IF Len(page) < PageSize THEN "read" ELSE @,
                                  !.got = @ \o page]
  /\ UNCHANGED <<log, tx, lockOwner, migrated, exports, anchors, tampers>>

PrevOf(rows, i) == IF i = 1 THEN NoHash ELSE rows[i - 1].hash

\* Mutation: the stored hash is taken as it is.
NotRecomputed(rows, i) == TRUE

\* (a) to (d) of the verifier, of the row in place i.
Contiguous(rows, i)     == rows[i].seq = i - 1
Linked(rows, i)         == rows[i].prev = PrevOf(rows, i)
SelfConsistent(rows, i) == rows[i].hash = Hash(rows[i].prev, rows[i].canon)

\* The payload is built anew from the columns, but for the metadata, whose md5
\* is taken from the payload as it is.
CrossChecked(rows, i) ==
  LET r == rows[i]
  IN  /\ r.canon # NoHash
      /\ r.canon = <<[r.said EXCEPT !.metadata = r.canon[1].metadata], r.born>>

RowsHold(rows) ==
  \A i \in 1..Len(rows) :
    Contiguous(rows, i) /\ Linked(rows, i) /\ SelfConsistent(rows, i) /\ CrossChecked(rows, i)

\* Mutation: what came is taken for everything.
Uncounted == TRUE

\* "a row cap is truncating pages"
Counted == Len(reader.got) = Cardinality(reader.there)

Verified == reader.at = "read" /\ Counted /\ RowsHold(reader.got)

------------------------------------------------------------------------------
(***************************************************************************)
(* Tampering, and exports.                                                 *)
(***************************************************************************)
\* The rows from place i on chained anew, as somebody who can compute a hash
\* would leave them.
Relinked(rows, i) == ChainedBehind(SubSeq(rows, i, Len(rows)), {rows[k] : k \in 1..(i - 1)})

\* What a row can be turned into: its columns alone, its payload too, or its
\* hash as well.
Edits(r, c) ==
  LET says  == [r EXCEPT !.said = c]
      canon == [says EXCEPT !.canon = Canonical(says)]
  IN  {says, canon, [canon EXCEPT !.hash = Hash(r.prev, canon.canon)]}

\* A row is changed or taken out, and the rest is left as it is or chained anew.
Tampered ==
  LET all == InOrder(log)
  IN  \E i \in 1..Len(all) :
        \/ log' = log \ {all[i]}
        \/ log' = Relinked([j \in 1..(Len(all) - 1) |-> IF j < i THEN all[j] ELSE all[j + 1]], i)
        \/ \E c \in Content \ {all[i].said} :
             \/ \E e \in Edits(all[i], c) : log' = (log \ {all[i]}) \cup {e}
             \/ log' = Relinked([all EXCEPT ![i].said = c], i)

Tampers ==
  /\ tampers < MaxTampers /\ migrated = "chained"
  /\ Tampered
  /\ tampers' = tampers + 1
  /\ reader' = [reader EXCEPT !.undisturbed = FALSE]
  /\ UNCHANGED <<tx, lockOwner, migrated, exports, anchors>>

\* The second a row was created in, which is all a key keeps of it.
Second(r) == r.born \div 2

\* WormPdfStorageStore.upload: nothing is written over.
Free(key) == \A x \in exports : x.key # key

\* exportAuditRowsToWorm of a stretch of the rows that are there.  Under a key
\* that is taken it throws.
Exports ==
  /\ Cardinality(exports) < MaxExports /\ migrated = "chained"
  /\ LET all == InOrder(log)
     IN  \E i, j \in 1..Len(all) :
           LET object == [key |-> <<Second(all[i]), Second(all[j])>>, rows |-> {all[k] : k \in i..j}]
           IN  /\ i <= j /\ Free(object.key)
               /\ exports' = exports \cup {object}
               /\ anchors' = IF tampers > 0 THEN anchors
                             ELSE anchors \cup {[key |-> object.key, rows |-> object.rows,
                                                 chain |-> {all[k] : k \in 1..j}]}
  /\ UNCHANGED <<log, tx, lockOwner, migrated, reader, tampers>>

CNext ==
  \/ \E w \in Inserter :
       \/ Opens(w) \/ CommitsBare(w) \/ RejectedBare(w) \/ LocksChain(w)
       \/ InsertsRow(w) \/ CommitsRow(w) \/ RollsBack(w)
  \/ Backfill \/ Require \/ CreateTriggers
  \/ ReadsFirst \/ ReadsNext
  \/ Tampers \/ Exports

CSpec == CInit /\ [][CNext]_cvars

------------------------------------------------------------------------------
\* "seq = 0-origin, contiguous per tenant", and linked: transactions that
\* overlap, roll back or read an old snapshot leave a chain that verifies, and
\* so does a migration that rows come in between.
ChainWhole == tampers = 0 => RowsHold(InOrder(Chained))

\* The log has these rows, but for metadata.
SameButMetadata(r, s) == s = [r EXCEPT !.said = s.said] /\ s.said.scalars = r.said.scalars
Remain(rows) == \A r \in rows : \E s \in log : SameButMetadata(r, s)

\* "anchor the latest row_hash externally": an export fixes everything up to
\* its last row.  As long as the chain verifies and has the rows of the object
\* under its key, whoever exports what later, the rows before them, exported or
\* not, are the ones that were there, but for their metadata, which are not
\* compared with their md5.
Anchored ==
  \A a \in anchors, x \in exports :
    x.key = a.key /\ RowsHold(InOrder(log)) /\ Remain(x.rows) => Remain(a.chain)

\* "a short page would otherwise read as end-of-chain and silently verify only
\* a prefix": a chain that is found in order was read to its end.
NoPrefixPasses ==
  Verified /\ reader.undisturbed => \A r \in reader.there : \E i \in 1..Len(reader.got) : reader.got[i] = r
==============================================================================
