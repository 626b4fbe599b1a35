-------------------------- MODULE EnvelopeFileStore --------------------------
(***************************************************************************)
(* ConcurrencySafeEnvelopeStore of packages/esig-mcp/src/stores.ts over    *)
(* FsEnvelopeStore of packages/esig-core/src/fs-adapters.ts: all envelopes *)
(* live in one file, every insert and update reads the whole file and      *)
(* writes it back, and one mutex with one key serialises them.             *)
(*                                                                         *)
(* The contents of an envelope are abstracted to the set of writes that    *)
(* went into it: a write adds itself to the copy its caller holds, so a    *)
(* row that lacks a write has lost it.                                     *)
(***************************************************************************)
EXTENDS KeyedMutex

CONSTANTS
  Id,          \* the envelope ids in play; create draws a fresh one
  MaxWrites    \* bound: MaxWrites[c] is how many writes c attempts

ASSUME IdAssumption        == Id # {}
ASSUME MaxWritesAssumption == MaxWrites \in [Caller -> Nat]

VARIABLES
  file,     \* envelopes.json: a row for each id, "there" when it has one
  step,     \* what each caller is doing
  target,   \* the envelope it works on
  hand,     \* its in-memory envelope, "there" when it has one
  buf,      \* the rows it has read to write them back
  outcome,  \* what the write in progress will answer
  made,     \* the writes each caller has begun
  acked     \* the writes answered with success, of each envelope (a history)

fvars == <<tail, prev, stage, file, step, target, hand, buf, outcome, made, acked>>

Write   == UNION {{c} \X (1..MaxWrites[c]) : c \in Caller}
FileRow == [there: BOOLEAN, rev: Nat, writes: SUBSET Write]
NoRow   == [there |-> FALSE, rev |-> 0, writes |-> {}]
Step    == {"idle", "inserting", "updating", "checking", "loading", "renaming", "leaving"}

NoFile == [i \in Id |-> NoRow]

FTypeOK ==
  /\ MutexTypeOK
  /\ file \in [Id -> FileRow]
  /\ step \in [Caller -> Step]
  /\ target \in [Caller -> Id]
  /\ hand \in [Caller -> FileRow]
  /\ buf \in [Caller -> [Id -> FileRow]]
  /\ outcome \in [Caller -> {"none", "ok", "conflict", "failed"}]
  /\ made \in [Caller -> Nat]
  /\ acked \in [Id -> SUBSET Write]

\* What a process finds in memory when it starts.
NothingInMemory ==
  /\ step = [c \in Caller |-> "idle"]
  /\ hand = [c \in Caller |-> NoRow]
  /\ buf = [c \in Caller |-> NoFile]
  /\ outcome = [c \in Caller |-> "none"]

FInit ==
  /\ MutexInit
  /\ NothingInMemory
  /\ file = NoFile
  /\ target = [c \in Caller |-> CHOOSE i \in Id : TRUE]
  /\ made = [c \in Caller |-> 0]
  /\ acked = [i \in Id |-> {}]

\* The write c is about to make, or is making.
NextWrite(c)   == <<c, made[c] + 1>>
CurrentWrite(c) == <<c, made[c]>>

------------------------------------------------------------------------------
(***************************************************************************)
(* Before the lock.                                                        *)
(***************************************************************************)
\* createEnvelope: a new envelope under an id nobody else uses.
NewEnvelope(c, i) ==
  /\ step[c] = "idle" /\ made[c] < MaxWrites[c]
  /\ ~file[i].there
  /\ \A d \in Caller : hand[d].there => target[d] # i
  /\ target' = [target EXCEPT ![c] = i]
  /\ hand' = [hand EXCEPT ![c] = [there |-> TRUE, rev |-> 0, writes |-> {NextWrite(c)}]]
  /\ made' = [made EXCEPT ![c] = @ + 1]
  /\ UNCHANGED <<file, buf, outcome, acked>>

\* Mutation (D1): insert is not run through the mutex.
UnlockedInsert(c, i) ==
  /\ NewEnvelope(c, i)
  /\ step' = [step EXCEPT ![c] = "loading"]
  /\ stage' = [stage EXCEPT ![c] = "in"]
  /\ UNCHANGED <<tail, prev>>

\* insert.
BeginInsert(c, i) ==
  /\ NewEnvelope(c, i)
  /\ step' = [step EXCEPT ![c] = "inserting"]
  /\ Request(c)

\* findById, findByTokenHash: reads take no lock, a rename is atomic.
Find(c, i) ==
  /\ step[c] = "idle" /\ made[c] < MaxWrites[c]
  /\ file[i].there
  /\ target' = [target EXCEPT ![c] = i]
  /\ hand' = [hand EXCEPT ![c] = file[i]]
  /\ UNCHANGED <<mutexVars, file, step, buf, outcome, made, acked>>

\* update, on an envelope read earlier or on the one update returned last: it
\* is the same object, at the revision it was written with.
BeginUpdate(c) ==
  /\ step[c] = "idle" /\ made[c] < MaxWrites[c]
  /\ hand[c].there
  /\ hand' = [hand EXCEPT ![c].writes = @ \cup {NextWrite(c)}]
  /\ made' = [made EXCEPT ![c] = @ + 1]
  /\ step' = [step EXCEPT ![c] = "updating"]
  /\ Request(c)
  /\ UNCHANGED <<file, target, buf, outcome, acked>>

------------------------------------------------------------------------------
(***************************************************************************)
(* Under the lock.                                                         *)
(***************************************************************************)
Admit(c) ==
  /\ Enter(c)
  /\ step' = [step EXCEPT ![c] = IF step[c] = "inserting" THEN "loading" ELSE "checking"]
  /\ UNCHANGED <<file, target, hand, buf, outcome, made, acked>>

\* Mutation: FsEnvelopeStore.update, which compares nothing.
Unchecked(c) == TRUE

\* The revision on disk is the one the caller read.
Current(c) == file[target[c]].there /\ file[target[c]].rev = hand[c].rev

Check(c) ==
  /\ step[c] = "checking"
  /\ \/ /\ Current(c)
        /\ hand' = [hand EXCEPT ![c].rev = file[target[c]].rev + 1]
        /\ step' = [step EXCEPT ![c] = "loading"]
        /\ UNCHANGED outcome
     \/ /\ ~Current(c)
        /\ outcome' = [outcome EXCEPT ![c] = "conflict"]
        /\ step' = [step EXCEPT ![c] = "leaving"]
        /\ UNCHANGED hand
  /\ UNCHANGED <<mutexVars, file, target, buf, made, acked>>

\* rows: the whole file is read.
Load(c) ==
  /\ step[c] = "loading"
  /\ buf' = [buf EXCEPT ![c] = file]
  /\ step' = [step EXCEPT ![c] = "renaming"]
  /\ UNCHANGED <<mutexVars, file, target, hand, outcome, made, acked>>

\* writeJsonAtomic: the rename replaces the whole file.
Rename(c) ==
  /\ step[c] = "renaming"
  /\ file' = [buf[c] EXCEPT ![target[c]] = hand[c]]
  /\ outcome' = [outcome EXCEPT ![c] = "ok"]
  /\ step' = [step EXCEPT ![c] = "leaving"]
  /\ UNCHANGED <<mutexVars, target, hand, buf, made, acked>>

\* Reading or writing the file throws: the old file stays.
Fail(c) ==
  /\ step[c] \in {"checking", "loading", "renaming"}
  /\ outcome' = [outcome EXCEPT ![c] = "failed"]
  /\ step' = [step EXCEPT ![c] = "leaving"]
  /\ UNCHANGED <<mutexVars, file, target, hand, buf, made, acked>>

\* What the caller is left with: the object it wrote, or an exception.
Return(c) ==
  /\ step[c] = "leaving"
  /\ step' = [step EXCEPT ![c] = "idle"]
  /\ buf' = [buf EXCEPT ![c] = NoFile]
  /\ outcome' = [outcome EXCEPT ![c] = "none"]
  /\ hand' = IF outcome[c] = "ok" THEN hand ELSE [hand EXCEPT ![c] = NoRow]
  /\ acked' = IF outcome[c] = "ok"
              THEN [acked EXCEPT ![target[c]] = @ \cup {CurrentWrite(c)}]
              ELSE acked
  /\ UNCHANGED <<file, target, made>>

\* Mutation: the lock is released after success only, not in a finally block.
AnswerUnguarded(c) ==
  /\ Return(c)
  /\ IF outcome[c] = "ok" THEN Leave(c) ELSE UNCHANGED mutexVars

Settle(c) == Return(c) /\ Leave(c)

\* The process dies and starts again; the file is all it finds.
Crash ==
  /\ tail' = NoOne
  /\ prev' = [c \in Caller |-> NoOne]
  /\ stage' = [c \in Caller |-> "out"]
  /\ step' = [c \in Caller |-> "idle"]
  /\ hand' = [c \in Caller |-> NoRow]
  /\ buf' = [c \in Caller |-> NoFile]
  /\ outcome' = [c \in Caller |-> "none"]
  /\ UNCHANGED <<file, target, made, acked>>

Locked(c) == Check(c) \/ Load(c) \/ Rename(c) \/ Fail(c) \/ Settle(c)

FNext ==
  \/ \E c \in Caller :
       \/ \E i \in Id : BeginInsert(c, i) \/ Find(c, i)
       \/ BeginUpdate(c)
       \/ Admit(c)
       \/ Locked(c)
  \/ Crash

\* The event loop runs a call that has begun to its end, and file operations
\* come back, with success or with an error.
FFairness == \A c \in Caller : WF_fvars(Admit(c)) /\ WF_fvars(Locked(c))

FSpec == FInit /\ [][FNext]_fvars
------------------------------------------------------------------------------
(***************************************************************************)
(* Properties.                                                             *)
(***************************************************************************)
\* No write that was answered with success is ever missing from its row: not
\* to a stale copy, not to another envelope's write of the whole file, not to
\* a crash (I3 and D1 of stores.ts).
NoLostWrite == \A i \in Id : acked[i] \subseteq file[i].writes

\* Everybody in line gets the lock and an answer, also behind callers whose
\* write conflicts or throws.
EveryWriteAnswered == \A c \in Caller : step[c] # "idle" ~> step[c] = "idle"

Rows == INSTANCE VersionedRows WITH rows <- file

\* Reading and writing back the whole file in several steps amounts to atomic
\* inserts and compare-and-swaps of single rows.
ImplementsRows == Rows!Spec
==============================================================================
