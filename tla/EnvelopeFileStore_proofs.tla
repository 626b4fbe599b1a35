---------------------- MODULE EnvelopeFileStore_proofs ----------------------
(***************************************************************************)
(* EnvelopeFileStore is proved for any number of callers, envelopes and    *)
(* writes: from the line behind the mutex follows that a file that was     *)
(* read under the lock is still the file when it is written back.          *)
(***************************************************************************)
EXTENDS EnvelopeFileStore, TLAPS

------------------------------------------------------------------------------
(***************************************************************************)
(* The line behind a KeyedMutex.  Nothing in the code numbers the callers, *)
(* but their promises form a chain: there is a numbering in which each     *)
(* caller waits for its immediate predecessor and the entry in tails is    *)
(* the last.  That chain is inductive under the mutex's own steps.         *)
(***************************************************************************)
InLine(c) == stage[c] # "out"

\* f numbers the callers in the order in which they came.
Chain(f) ==
  /\ \A c \in Caller : prev[c] # NoOne =>
       /\ stage[c] = "queued"
       /\ InLine(prev[c])
       /\ f[prev[c]] < f[c]
       /\ \A e \in Caller : InLine(e) => ~(f[prev[c]] < f[e] /\ f[e] < f[c])
  /\ \A c, d \in Caller : InLine(c) /\ InLine(d) /\ c # d =>
       /\ f[c] # f[d]
       /\ f[c] < f[d] => prev[d] # NoOne
  /\ \A c \in Caller : InLine(c) => tail # NoOne /\ f[c] <= f[tail]
  /\ tail # NoOne => InLine(tail)

LineInv == MutexTypeOK /\ \E f \in [Caller -> Nat] : Chain(f)

LEMMA LineInit == MutexInit => LineInv
<1> SUFFICES ASSUME MutexInit PROVE LineInv
  OBVIOUS
<1>1. MutexTypeOK
  BY DEF MutexInit, MutexTypeOK
<1>2. [c \in Caller |-> 0] \in [Caller -> Nat]
  OBVIOUS
<1>3. Chain([c \in Caller |-> 0])
  BY DEF MutexInit, Chain, InLine
<1> QED
  BY <1>1, <1>2, <1>3 DEF LineInv

LEMMA LineRequest ==
  ASSUME LineInv, NEW c \in Caller, Request(c)
  PROVE  LineInv'
<1>1. PICK f \in [Caller -> Nat] : Chain(f)
  BY DEF LineInv
<1>2. MutexTypeOK /\ stage[c] = "out" /\ ~InLine(c) /\ prev[c] = NoOne
  <2>1. MutexTypeOK /\ stage[c] = "out" /\ ~InLine(c)
    BY DEF LineInv, Request, InLine
  <2> QED
    BY <1>1, <2>1 DEF Chain
<1>3. /\ tail' = c /\ prev'[c] = tail /\ stage'[c] = "queued"
      /\ \A d \in Caller : d # c => prev'[d] = prev[d] /\ stage'[d] = stage[d]
  BY <1>2 DEF Request, MutexTypeOK
<1>4. MutexTypeOK'
  BY <1>2 DEF Request, MutexTypeOK
<1>n. PICK n \in Nat : n = IF tail = NoOne THEN 0 ELSE f[tail] + 1
  BY <1>2 DEF MutexTypeOK
<1>5. PICK g \in [Caller -> Nat] : g[c] = n /\ \A d \in Caller : d # c => g[d] = f[d]
  <2>1. [f EXCEPT ![c] = n] \in [Caller -> Nat]
    OBVIOUS
  <2> QED
    BY <2>1
<1>6. \A d \in Caller : InLine(d) => d # c /\ tail # NoOne /\ f[d] <= f[tail] /\ f[d] < n
  <2> SUFFICES ASSUME NEW d \in Caller, InLine(d)
               PROVE  d # c /\ tail # NoOne /\ f[d] <= f[tail] /\ f[d] < n
    OBVIOUS
  <2>1. d # c /\ tail # NoOne /\ f[d] <= f[tail]
    BY <1>1, <1>2 DEF Chain
  <2>2. tail \in Caller
    BY <1>2, <2>1 DEF MutexTypeOK
  <2> QED
    BY <1>n, <2>1, <2>2
<1>7. \A d \in Caller : InLine(d)' <=> (d = c \/ InLine(d))
  BY <1>2, <1>3 DEF InLine
<1>8. ASSUME NEW d \in Caller, prev'[d] # NoOne
      PROVE  /\ stage'[d] = "queued"
             /\ stage'[prev'[d]] # "out"
             /\ g[prev'[d]] < g[d]
             /\ \A e \in Caller : InLine(e)' => ~(g[prev'[d]] < g[e] /\ g[e] < g[d])
  <2>1. CASE d = c
    <3>1. prev'[d] = tail /\ tail \in Caller /\ InLine(tail)
      BY <1>1, <1>2, <1>3, <1>8, <2>1 DEF Chain, MutexTypeOK
    <3>2. tail # c /\ g[tail] = f[tail] /\ f[tail] < n
      BY <1>5, <1>6, <3>1
    <3>3. ASSUME NEW e \in Caller, InLine(e)' PROVE ~(g[tail] < g[e] /\ g[e] < g[d])
      <4>1. CASE e = c
        BY <1>5, <2>1, <4>1
      <4>2. CASE e # c
        BY <1>5, <1>6, <1>7, <3>1, <3>2, <3>3, <4>2
      <4> QED
        BY <4>1, <4>2
    <3>4. stage'[tail] # "out"
      BY <1>3, <3>1, <3>2 DEF InLine
    <3> QED
      BY <1>3, <1>5, <2>1, <3>1, <3>2, <3>3, <3>4
  <2>2. CASE d # c
    <3>1. prev'[d] = prev[d] /\ stage'[d] = stage[d] /\ prev[d] \in Caller
      BY <1>2, <1>3, <1>8, <2>2 DEF MutexTypeOK
    <3>2. /\ stage[d] = "queued" /\ InLine(d) /\ InLine(prev[d]) /\ f[prev[d]] < f[d]
          /\ \A e \in Caller : InLine(e) => ~(f[prev[d]] < f[e] /\ f[e] < f[d])
      BY <1>1, <1>8, <3>1 DEF Chain, InLine
    <3>3. prev[d] # c /\ g[prev[d]] = f[prev[d]] /\ g[d] = f[d]
      BY <1>2, <1>5, <2>2, <3>1, <3>2
    <3>4. ASSUME NEW e \in Caller, InLine(e)' PROVE ~(f[prev[d]] < g[e] /\ g[e] < f[d])
      <4>1. CASE e = c
        BY <1>5, <1>6, <3>2, <4>1
      <4>2. CASE e # c
        BY <1>5, <1>7, <3>2, <3>4, <4>2
      <4> QED
        BY <4>1, <4>2
    <3>5. stage'[prev[d]] # "out"
      BY <1>3, <3>1, <3>2, <3>3 DEF InLine
    <3> QED
      BY <3>1, <3>2, <3>3, <3>4, <3>5
  <2> QED
    BY <2>1, <2>2
<1>9. ASSUME NEW d \in Caller, NEW e \in Caller, InLine(d)', InLine(e)', d # e
      PROVE  g[d] # g[e] /\ (g[d] < g[e] => prev'[e] # NoOne)
  <2>1. CASE d = c
    BY <1>5, <1>6, <1>7, <1>9, <2>1
  <2>2. CASE e = c
    BY <1>3, <1>5, <1>6, <1>7, <1>9, <2>2
  <2>3. CASE d # c /\ e # c
    BY <1>1, <1>3, <1>5, <1>7, <1>9, <2>3 DEF Chain
  <2> QED
    BY <2>1, <2>2, <2>3
<1>10. ASSUME NEW d \in Caller, InLine(d)' PROVE tail' # NoOne /\ g[d] <= g[tail']
  <2>1. CASE d = c
    BY <1>3, <1>5, <2>1, NoOneAssumption
  <2>2. CASE d # c
    BY <1>3, <1>5, <1>6, <1>7, <1>10, <2>2, NoOneAssumption
  <2> QED
    BY <2>1, <2>2
<1>11. stage'[tail'] # "out"
  BY <1>3
<1>12. Chain(g)'
  BY <1>8, <1>9, <1>10, <1>11 DEF Chain, InLine
<1>13. (\E h \in [Caller -> Nat] : Chain(h))'
  BY <1>5, <1>12
<1> QED
  BY <1>4, <1>13 DEF LineInv

LEMMA LineEnter ==
  ASSUME LineInv, NEW c \in Caller, Enter(c)
  PROVE  LineInv'
<1>1. PICK f \in [Caller -> Nat] : Chain(f)
  BY DEF LineInv
<1>2. MutexTypeOK /\ MutexTypeOK'
  BY DEF LineInv, Enter, MutexTypeOK
<1>3. prev' = prev /\ tail' = tail /\ prev[c] = NoOne /\ stage[c] = "queued"
  BY DEF Enter
<1>4. stage'[c] = "in" /\ \A d \in Caller : d # c => stage'[d] = stage[d]
  BY <1>2 DEF Enter, MutexTypeOK
<1>5. \A d \in Caller : InLine(d)' <=> InLine(d)
  BY <1>3, <1>4 DEF InLine
<1>6. \A d \in Caller : prev[d] # NoOne => d # c /\ prev[d] \in Caller
  BY <1>2, <1>3 DEF MutexTypeOK
<1>7. tail # NoOne => tail \in Caller
  BY <1>2 DEF MutexTypeOK
<1>8. Chain(f)'
  <2>1. ASSUME NEW d \in Caller, prev'[d] # NoOne
        PROVE  /\ stage'[d] = "queued" /\ stage'[prev'[d]] # "out" /\ f[prev'[d]] < f[d]
               /\ \A e \in Caller : InLine(e)' => ~(f[prev'[d]] < f[e] /\ f[e] < f[d])
    BY <1>1, <1>3, <1>4, <1>5, <1>6, <2>1 DEF Chain, InLine
  <2>2. ASSUME NEW d \in Caller, NEW e \in Caller, InLine(d)', InLine(e)', d # e
        PROVE  f[d] # f[e] /\ (f[d] < f[e] => prev'[e] # NoOne)
    BY <1>1, <1>3, <1>5, <2>2 DEF Chain
  <2>3. ASSUME NEW d \in Caller, InLine(d)' PROVE tail' # NoOne /\ f[d] <= f[tail']
    BY <1>1, <1>3, <1>5, <2>3 DEF Chain
  <2>4. tail' # NoOne => stage'[tail'] # "out"
    BY <1>1, <1>3, <1>4, <1>7 DEF Chain, InLine
  <2> QED
    BY <2>1, <2>2, <2>3, <2>4 DEF Chain, InLine
<1>9. (\E h \in [Caller -> Nat] : Chain(h))'
  BY <1>8
<1> QED
  BY <1>2, <1>9 DEF LineInv

LEMMA LineLeave ==
  ASSUME LineInv, NEW c \in Caller, Leave(c)
  PROVE  LineInv'
<1>1. PICK f \in [Caller -> Nat] : Chain(f)
  BY DEF LineInv
<1>2. MutexTypeOK /\ MutexTypeOK'
  BY DEF LineInv, Leave, TailAfter, MutexTypeOK
<1>3. stage[c] = "in" /\ InLine(c) /\ prev[c] = NoOne
  <2>1. stage[c] = "in" /\ InLine(c)
    BY DEF Leave, InLine
  <2> QED
    BY <1>1, <2>1 DEF Chain
<1>4. /\ \A d \in Caller : prev'[d] = IF prev[d] = c THEN NoOne ELSE prev[d]
      /\ stage'[c] = "out" /\ \A d \in Caller : d # c => stage'[d] = stage[d]
      /\ tail' = IF tail = c THEN NoOne ELSE tail
  BY <1>2 DEF Leave, TailAfter, MutexTypeOK
<1>5. \A d \in Caller : InLine(d)' <=> (d # c /\ InLine(d))
  BY <1>4 DEF InLine
<1>6. \A d \in Caller : InLine(d) /\ d # c => f[c] < f[d]
  \* c waits for nobody, so nobody in line came before it
  BY <1>1, <1>3 DEF Chain
<1>7. tail = c => \A d \in Caller : ~InLine(d)'
  <2> SUFFICES ASSUME tail = c, NEW d \in Caller, InLine(d), d # c PROVE FALSE
    BY <1>5
  <2>1. f[d] <= f[c] /\ f[c] < f[d]
    BY <1>1, <1>6 DEF Chain
  <2> QED
    BY <2>1
<1>8. Chain(f)'
  <2>1. ASSUME NEW d \in Caller, prev'[d] # NoOne
        PROVE  /\ stage'[d] = "queued" /\ stage'[prev'[d]] # "out" /\ f[prev'[d]] < f[d]
               /\ \A e \in Caller : InLine(e)' => ~(f[prev'[d]] < f[e] /\ f[e] < f[d])
    <3>1. prev'[d] = prev[d] /\ prev[d] # NoOne /\ prev[d] # c /\ prev[d] \in Caller /\ d # c
      BY <1>2, <1>3, <1>4, <2>1 DEF MutexTypeOK
    <3> QED
      BY <1>1, <1>4, <1>5, <3>1 DEF Chain, InLine
  <2>2. ASSUME NEW d \in Caller, NEW e \in Caller, InLine(d)', InLine(e)', d # e
        PROVE  f[d] # f[e] /\ (f[d] < f[e] => prev'[e] # NoOne)
    <3>1. d # c /\ e # c /\ InLine(d) /\ InLine(e) /\ f[c] < f[d]
      BY <1>5, <1>6, <2>2
    <3>2. f[d] # f[e] /\ (f[d] < f[e] => prev[e] # NoOne)
      BY <1>1, <2>2, <3>1 DEF Chain
    <3>3. f[d] < f[e] => prev[e] # c
      BY <1>1, <3>1 DEF Chain
    <3> QED
      BY <1>4, <3>2, <3>3
  <2>3. ASSUME NEW d \in Caller, InLine(d)' PROVE tail' # NoOne /\ f[d] <= f[tail']
    BY <1>1, <1>4, <1>5, <1>7, <2>3 DEF Chain
  <2>4. tail' # NoOne => stage'[tail'] # "out"
    BY <1>1, <1>2, <1>4 DEF Chain, InLine, MutexTypeOK
  <2> QED
    BY <2>1, <2>2, <2>3, <2>4 DEF Chain, InLine
<1>9. (\E h \in [Caller -> Nat] : Chain(h))'
  BY <1>8
<1> QED
  BY <1>2, <1>9 DEF LineInv

LEMMA LineStutter ==
  ASSUME LineInv, UNCHANGED mutexVars
  PROVE  LineInv'
<1>1. PICK f \in [Caller -> Nat] : Chain(f)
  BY DEF LineInv
<1>2. tail' = tail /\ prev' = prev /\ stage' = stage
  BY DEF mutexVars
<1>3. Chain(f)'
  BY <1>1, <1>2 DEF Chain, InLine
<1>4. (\E h \in [Caller -> Nat] : Chain(h))' /\ MutexTypeOK'
  BY <1>2, <1>3 DEF LineInv, MutexTypeOK
<1> QED
  BY <1>4 DEF LineInv

\* Any step of a caller in run keeps the line.
LEMMA LineStep ==
  ASSUME LineInv,
         \/ \E c \in Caller : Request(c) \/ Enter(c) \/ Leave(c)
         \/ UNCHANGED mutexVars
  PROVE  LineInv'
  BY LineRequest, LineEnter, LineLeave, LineStutter

LEMMA LineExcludes == LineInv => MutualExclusion
<1> SUFFICES ASSUME LineInv, NEW c \in Caller, NEW d \in Caller,
                    stage[c] = "in", stage[d] = "in", c # d
             PROVE  FALSE
  BY DEF MutualExclusion
<1>1. PICK f \in [Caller -> Nat] : Chain(f)
  BY DEF LineInv
<1>2. prev[c] = NoOne /\ prev[d] = NoOne /\ InLine(c) /\ InLine(d)
  BY <1>1 DEF Chain, InLine
<1>3. f[c] # f[d] /\ (f[c] < f[d] => prev[d] # NoOne) /\ (f[d] < f[c] => prev[c] # NoOne)
  BY <1>1, <1>2 DEF Chain
<1> QED
  BY <1>2, <1>3

LEMMA LineDrops == LineInv => EntryDropped
<1> SUFFICES ASSUME LineInv PROVE EntryDropped
  OBVIOUS
<1>1. PICK f \in [Caller -> Nat] : Chain(f)
  BY DEF LineInv
<1>2. tail # NoOne => tail \in Caller
  BY DEF LineInv, MutexTypeOK
<1> QED
  BY <1>1, <1>2 DEF Chain, InLine, EntryDropped

------------------------------------------------------------------------------
(***************************************************************************)
(* The store.                                                              *)
(***************************************************************************)
Inside  == {"checking", "loading", "renaming", "leaving"}
Pending == {"inserting", "updating", "checking", "loading", "renaming"}

\* Whoever works on the file is in the lock.
StageInv(c) ==
  /\ step[c] = "idle" <=> stage[c] = "out"
  /\ step[c] \in Inside <=> stage[c] = "in"

\* c is about to make a new row, or to replace the one it has read.
Inserts(c) ==
  /\ ~file[target[c]].there
  /\ hand[c] = [there |-> TRUE, rev |-> 0, writes |-> {CurrentWrite(c)}]

Replaces(c) ==
  /\ file[target[c]].there
  /\ hand[c] = [there  |-> TRUE,
                rev    |-> file[target[c]].rev + 1,
                writes |-> file[target[c]].writes \cup {CurrentWrite(c)}]

\* A copy taken at the revision of the row is the row, but for what its holder
\* has added.
CopyOf(c, added) ==
  /\ file[target[c]].there
  /\ hand[c].rev <= file[target[c]].rev
  /\ hand[c].rev = file[target[c]].rev =>
       hand[c].writes = file[target[c]].writes \cup added

HandInv(c) ==
  /\ step[c] = "idle" /\ hand[c].there => CopyOf(c, {})
  /\ step[c] = "inserting" => Inserts(c)
  /\ step[c] \in {"updating", "checking"} =>
       hand[c].there /\ CopyOf(c, {CurrentWrite(c)})
  /\ step[c] \in {"loading", "renaming"} => Inserts(c) \/ Replaces(c)
  /\ step[c] = "renaming" => buf[c] = file
  /\ outcome[c] = "ok" =>
       /\ step[c] = "leaving"
       /\ file[target[c]] = hand[c]
       /\ hand[c].there
       /\ CurrentWrite(c) \in hand[c].writes

\* A write under way is in no row yet, and is one of those c may make.
PendingInv(c) ==
  step[c] \in Pending =>
    CurrentWrite(c) \in Write /\ \A i \in Id : CurrentWrite(c) \notin file[i].writes

\* Nobody holds an envelope that somebody else is inserting.
OwnInsert ==
  \A c, d \in Caller :
    c # d /\ hand[c].there /\ hand[d].there /\ target[c] = target[d]
      => file[target[c]].there

WritesMade ==
  /\ \A c \in Caller : made[c] <= MaxWrites[c]
  /\ \A i \in Id : \A w \in file[i].writes : w[2] <= made[w[1]]

AbsentEmpty == \A i \in Id : ~file[i].there => file[i].writes = {}

IInv ==
  /\ FTypeOK
  /\ LineInv
  /\ \A c \in Caller : StageInv(c) /\ HandInv(c) /\ PendingInv(c)
  /\ OwnInsert
  /\ WritesMade
  /\ AbsentEmpty
  /\ NoLostWrite

------------------------------------------------------------------------------
(***************************************************************************)
(* Type correctness.                                                       *)
(***************************************************************************)
LEMMA NoRowType == NoRow \in FileRow /\ NoFile \in [Id -> FileRow]
  BY DEF NoRow, NoFile, FileRow

LEMMA WriteType ==
  /\ \A c \in Caller, n \in Nat : 1 <= n /\ n <= MaxWrites[c] => <<c, n>> \in Write
  /\ \A w \in Write : w = <<w[1], w[2]>> /\ w[1] \in Caller /\ w[2] \in Nat
  BY MaxWritesAssumption DEF Write

LEMMA InitType == FInit => FTypeOK
<1> SUFFICES ASSUME FInit PROVE FTypeOK
  OBVIOUS
<1>1. MutexTypeOK
  BY LineInit DEF FInit, LineInv
<1>2. (CHOOSE i \in Id : TRUE) \in Id
  BY IdAssumption
<1> QED
  BY <1>1, <1>2, NoRowType DEF FInit, NothingInMemory, FTypeOK, Step

\* The write a caller may begin.
LEMMA NextWriteType ==
  ASSUME FTypeOK, NEW c \in Caller, made[c] < MaxWrites[c]
  PROVE  NextWrite(c) \in Write /\ made[c] \in Nat /\ MaxWrites[c] \in Nat
<1>1. made[c] \in Nat /\ MaxWrites[c] \in Nat
  BY MaxWritesAssumption DEF FTypeOK
<1> QED
  BY <1>1, WriteType DEF NextWrite

LEMMA BeginType ==
  ASSUME FTypeOK, LineInv', NEW c \in Caller,
         \/ \E i \in Id : BeginInsert(c, i) \/ Find(c, i)
         \/ BeginUpdate(c)
  PROVE  FTypeOK'
<1>1. MutexTypeOK'
  BY DEF LineInv
<1>2. ASSUME NEW i \in Id, BeginInsert(c, i) PROVE FTypeOK'
  <2>1. NextWrite(c) \in Write /\ made[c] + 1 \in Nat
    BY <1>2, NextWriteType DEF BeginInsert, NewEnvelope
  <2>2. [there |-> TRUE, rev |-> 0, writes |-> {NextWrite(c)}] \in FileRow
    BY <2>1 DEF FileRow
  <2> QED
    BY <1>1, <1>2, <2>1, <2>2 DEF BeginInsert, NewEnvelope, FTypeOK, Step
<1>3. ASSUME NEW i \in Id, Find(c, i) PROVE FTypeOK'
  BY <1>1, <1>3 DEF Find, FTypeOK
<1>4. ASSUME BeginUpdate(c) PROVE FTypeOK'
  <2>1. NextWrite(c) \in Write /\ made[c] + 1 \in Nat
    BY <1>4, NextWriteType DEF BeginUpdate
  <2>2. hand[c] \in FileRow
    BY DEF FTypeOK
  <2>3. [hand[c] EXCEPT !.writes = hand[c].writes \cup {NextWrite(c)}] \in FileRow
    BY <2>1, <2>2 DEF FileRow
  <2>4. hand' \in [Caller -> FileRow]
    BY <1>4, <2>3 DEF BeginUpdate, FTypeOK
  <2> QED
    BY <1>1, <1>4, <2>1, <2>4 DEF BeginUpdate, FTypeOK, Step
<1> QED
  BY <1>2, <1>3, <1>4

LEMMA LockedType ==
  ASSUME FTypeOK, LineInv', NEW c \in Caller,
         \A d \in Caller : outcome[d] = "ok" => CurrentWrite(d) \in Write,
         Admit(c) \/ Locked(c)
  PROVE  FTypeOK'
<1>1. MutexTypeOK'
  BY DEF LineInv
<1>2. target[c] \in Id /\ hand[c] \in FileRow /\ file[target[c]] \in FileRow /\ buf[c] \in [Id -> FileRow]
  BY DEF FTypeOK
<1>3. CASE Admit(c)
  BY <1>1, <1>3 DEF Admit, FTypeOK, Step
<1>4. CASE Check(c)
  <2>1. [hand[c] EXCEPT !.rev = file[target[c]].rev + 1] \in FileRow
    BY <1>2 DEF FileRow
  <2>2. hand' \in [Caller -> FileRow]
    BY <1>4, <2>1 DEF Check, FTypeOK
  <2> QED
    BY <1>1, <1>4, <2>2 DEF Check, FTypeOK, Step
<1>5. CASE Load(c)
  BY <1>1, <1>5 DEF Load, FTypeOK, Step
<1>6. CASE Rename(c)
  BY <1>1, <1>2, <1>6 DEF Rename, FTypeOK, Step
<1>7. CASE Fail(c)
  BY <1>1, <1>7 DEF Fail, FTypeOK, Step
<1>8. CASE Settle(c)
  <2>1. acked' \in [Id -> SUBSET Write]
    BY <1>2, <1>8 DEF Settle, Return, FTypeOK
  <2>2. hand' \in [Caller -> FileRow] /\ buf' \in [Caller -> [Id -> FileRow]]
    BY <1>8, NoRowType DEF Settle, Return, FTypeOK
  <2> QED
    BY <1>1, <1>8, <2>1, <2>2 DEF Settle, Return, FTypeOK, Step
<1> QED
  BY <1>3, <1>4, <1>5, <1>6, <1>7, <1>8 DEF Locked

LEMMA CrashType == FTypeOK /\ LineInv' /\ Crash => FTypeOK'
  BY NoRowType DEF LineInv, Crash, FTypeOK, Step

(***************************************************************************)
(* The line.                                                               *)
(***************************************************************************)
LEMMA LineNext == LineInv /\ [FNext]_fvars => LineInv'
<1> SUFFICES ASSUME LineInv, [FNext]_fvars PROVE LineInv'
  OBVIOUS
<1>1. CASE Crash
  <2>1. MutexInit'
    BY <1>1 DEF Crash, MutexInit
  <2>2. MutexInit' => LineInv'
    BY LineInit, PTL
  <2> QED
    BY <2>1, <2>2
<1>2. CASE \/ \E c \in Caller : Request(c) \/ Enter(c) \/ Leave(c)
           \/ UNCHANGED mutexVars
  BY <1>2, LineStep
<1>3. ASSUME NEW c \in Caller,
             \/ \E i \in Id : BeginInsert(c, i) \/ Find(c, i)
             \/ BeginUpdate(c) \/ Admit(c) \/ Locked(c)
      PROVE  \/ \E d \in Caller : Request(d) \/ Enter(d) \/ Leave(d)
             \/ UNCHANGED mutexVars
  BY <1>3 DEF BeginInsert, Find, BeginUpdate, Admit, Locked, Check, Load, Rename, Fail, Settle
<1>4. CASE UNCHANGED fvars
  BY <1>4, LineStep DEF fvars, mutexVars
<1> QED
  BY <1>1, <1>2, <1>3, <1>4 DEF FNext

------------------------------------------------------------------------------
(***************************************************************************)
(* Steps that leave the file alone.                                        *)
(***************************************************************************)
CallerInv(c) == StageInv(c) /\ HandInv(c) /\ PendingInv(c)

Untouched(d) ==
  /\ stage'[d] = stage[d] /\ step'[d] = step[d] /\ target'[d] = target[d]
  /\ hand'[d] = hand[d] /\ buf'[d] = buf[d] /\ outcome'[d] = outcome[d]
  /\ made'[d] = made[d]

LEMMA CallerKept ==
  ASSUME NEW d \in Caller, CallerInv(d), Untouched(d), file' = file
  PROVE  CallerInv(d)'
  BY DEF CallerInv, Untouched, StageInv, HandInv, PendingInv, Inserts, Replaces, CopyOf,
         CurrentWrite

\* What remains to be shown of a step of c that does not write the file.
LEMMA QuietStep ==
  ASSUME IInv, FTypeOK', LineInv', NEW c \in Caller,
         file' = file, NoLostWrite',
         \A d \in Caller : d # c => Untouched(d),
         CallerInv(c)',
         made'[c] \in {made[c], made[c] + 1}, made'[c] <= MaxWrites[c],
         \/ ~hand'[c].there
         \/ hand[c].there /\ target'[c] = target[c]
         \/ file[target'[c]].there
         \/ \A d \in Caller : hand[d].there => target[d] # target'[c]
  PROVE  IInv'
<1>1. \A d \in Caller : CallerInv(d)'
  BY CallerKept DEF IInv, CallerInv
<1>2. OwnInsert'
  BY DEF IInv, OwnInsert, Untouched
<1>3. WritesMade'
  <2>1. \A d \in Caller : made[d] \in Nat /\ made[d] <= made'[d] /\ made'[d] <= MaxWrites[d]
    <3>1. \A d \in Caller : made[d] \in Nat /\ made[d] <= MaxWrites[d]
      BY DEF IInv, FTypeOK, WritesMade
    <3>2. \A d \in Caller : d # c => made'[d] = made[d]
      BY DEF Untouched
    <3> QED
      BY <3>1, <3>2
  <2>2. \A i \in Id : \A w \in file[i].writes : w[1] \in Caller /\ w[2] \in Nat
    BY WriteType DEF IInv, FTypeOK, FileRow
  <2>3. ASSUME NEW i \in Id, NEW w \in file[i].writes PROVE w[2] <= made'[w[1]]
    <3>1. w[2] <= made[w[1]] /\ w[1] \in Caller /\ w[2] \in Nat
      BY <2>2 DEF IInv, WritesMade
    <3>2. made[w[1]] \in Nat /\ made'[w[1]] \in Nat /\ made[w[1]] <= made'[w[1]]
      BY <2>1, <3>1 DEF FTypeOK
    <3> QED
      BY <3>1, <3>2
  <2> QED
    BY <2>1, <2>3 DEF WritesMade
<1>4. AbsentEmpty'
  BY DEF IInv, AbsentEmpty
<1> QED
  BY <1>1, <1>2, <1>3, <1>4 DEF IInv, CallerInv

LEMMA AcksKept ==
  ASSUME IInv, UNCHANGED <<file, acked>>
  PROVE  NoLostWrite'
  BY DEF IInv, NoLostWrite

\* A caller that takes its next write has not made it before.
LEMMA NextWriteNew ==
  ASSUME IInv, NEW c \in Caller, made[c] < MaxWrites[c], made'[c] = made[c] + 1
  PROVE  /\ CurrentWrite(c)' = NextWrite(c) /\ NextWrite(c) \in Write
         /\ \A i \in Id : NextWrite(c) \notin file[i].writes
<1>1. NextWrite(c) \in Write /\ made[c] \in Nat
  BY NextWriteType DEF IInv
<1>2. \A i \in Id : NextWrite(c) \notin file[i].writes
  BY <1>1 DEF IInv, WritesMade, NextWrite
<1> QED
  BY <1>1, <1>2 DEF CurrentWrite, NextWrite

LEMMA BeginInsertStep ==
  ASSUME IInv, FTypeOK', LineInv', NEW c \in Caller, NEW i \in Id, BeginInsert(c, i)
  PROVE  IInv'
<1>1. /\ FTypeOK /\ MutexTypeOK /\ CallerInv(c) /\ made[c] < MaxWrites[c] /\ step[c] = "idle"
      /\ UNCHANGED <<file, acked>>
  BY DEF IInv, LineInv, CallerInv, BeginInsert, NewEnvelope
<1>2. /\ \A d \in Caller : d # c => Untouched(d)
      /\ step'[c] = "inserting" /\ stage'[c] = "queued" /\ target'[c] = i
      /\ hand'[c] = [there |-> TRUE, rev |-> 0, writes |-> {NextWrite(c)}]
      /\ made'[c] = made[c] + 1 /\ outcome'[c] = outcome[c]
  BY <1>1 DEF BeginInsert, NewEnvelope, Request, Untouched, FTypeOK, MutexTypeOK
<1>3. made[c] \in Nat /\ MaxWrites[c] \in Nat /\ made'[c] <= MaxWrites[c]
  BY <1>1, <1>2, NextWriteType
<1>4. /\ CurrentWrite(c)' = NextWrite(c) /\ NextWrite(c) \in Write
      /\ \A j \in Id : NextWrite(c) \notin file[j].writes
  BY <1>1, <1>2, NextWriteNew
<1>5. outcome[c] # "ok" /\ ~file[i].there /\ \A d \in Caller : hand[d].there => target[d] # i
  BY <1>1 DEF CallerInv, HandInv, BeginInsert, NewEnvelope
<1>6. CallerInv(c)'
  BY <1>1, <1>2, <1>4, <1>5
     DEF CallerInv, StageInv, HandInv, PendingInv, Inserts, Inside, Pending
<1> QED
  BY <1>1, <1>2, <1>3, <1>5, <1>6, QuietStep, AcksKept

LEMMA FindStep ==
  ASSUME IInv, FTypeOK', LineInv', NEW c \in Caller, NEW i \in Id, Find(c, i)
  PROVE  IInv'
<1>1. /\ FTypeOK /\ MutexTypeOK /\ CallerInv(c) /\ step[c] = "idle" /\ file[i].there
      /\ UNCHANGED <<file, acked>> /\ made'[c] = made[c] /\ made[c] <= MaxWrites[c]
      /\ file[i] \in FileRow
  BY DEF IInv, LineInv, CallerInv, Find, WritesMade, FTypeOK
<1>2. /\ \A d \in Caller : d # c => Untouched(d)
      /\ step'[c] = "idle" /\ stage'[c] = stage[c] /\ target'[c] = i
      /\ hand'[c] = file[i] /\ outcome'[c] = outcome[c]
  BY <1>1 DEF Find, mutexVars, Untouched, FTypeOK, MutexTypeOK
<1>3. CallerInv(c)'
  BY <1>1, <1>2 DEF CallerInv, StageInv, HandInv, PendingInv, CopyOf, Inside, Pending, FileRow
<1> QED
  BY <1>1, <1>2, <1>3, QuietStep, AcksKept

LEMMA BeginUpdateStep ==
  ASSUME IInv, FTypeOK', LineInv', NEW c \in Caller, BeginUpdate(c)
  PROVE  IInv'
<1>1. /\ FTypeOK /\ MutexTypeOK /\ CallerInv(c) /\ made[c] < MaxWrites[c] /\ step[c] = "idle"
      /\ hand[c].there /\ hand[c] \in FileRow /\ UNCHANGED <<file, acked>>
  BY DEF IInv, LineInv, CallerInv, BeginUpdate, FTypeOK
<1>2. /\ \A d \in Caller : d # c => Untouched(d)
      /\ step'[c] = "updating" /\ stage'[c] = "queued" /\ target'[c] = target[c]
      /\ hand'[c] = [hand[c] EXCEPT !.writes = hand[c].writes \cup {NextWrite(c)}]
      /\ made'[c] = made[c] + 1 /\ outcome'[c] = outcome[c]
  BY <1>1 DEF BeginUpdate, Request, Untouched, FTypeOK, MutexTypeOK
<1>3. made[c] \in Nat /\ MaxWrites[c] \in Nat /\ made'[c] <= MaxWrites[c]
  BY <1>1, <1>2, NextWriteType
<1>4. /\ CurrentWrite(c)' = NextWrite(c) /\ NextWrite(c) \in Write
      /\ \A j \in Id : NextWrite(c) \notin file[j].writes
  BY <1>1, <1>2, NextWriteNew
<1>5. outcome[c] # "ok" /\ CopyOf(c, {})
  BY <1>1 DEF CallerInv, HandInv
<1>6. /\ hand'[c].there /\ hand'[c].rev = hand[c].rev
      /\ hand'[c].writes = hand[c].writes \cup {NextWrite(c)}
  BY <1>1, <1>2 DEF FileRow
<1>7. CopyOf(c, {CurrentWrite(c)})'
  BY <1>1, <1>2, <1>4, <1>5, <1>6 DEF CopyOf
<1>8. CallerInv(c)'
  BY <1>1, <1>2, <1>4, <1>5, <1>6, <1>7
     DEF CallerInv, StageInv, HandInv, PendingInv, Inside, Pending
<1> QED
  BY <1>1, <1>2, <1>3, <1>8, QuietStep, AcksKept

LEMMA AdmitStep ==
  ASSUME IInv, FTypeOK', LineInv', NEW c \in Caller, Admit(c)
  PROVE  IInv'
<1>1. /\ FTypeOK /\ MutexTypeOK /\ CallerInv(c) /\ UNCHANGED <<file, acked>>
      /\ made[c] <= MaxWrites[c] /\ stage[c] = "queued" /\ step[c] \in Step
  BY DEF IInv, LineInv, CallerInv, Admit, Enter, WritesMade, FTypeOK
<1>2. /\ \A d \in Caller : d # c => Untouched(d)
      /\ step'[c] = IF step[c] = "inserting" THEN "loading" ELSE "checking"
      /\ stage'[c] = "in" /\ target'[c] = target[c] /\ hand'[c] = hand[c]
      /\ made'[c] = made[c] /\ outcome'[c] = outcome[c]
  BY <1>1 DEF Admit, Enter, Untouched, FTypeOK, MutexTypeOK
<1>3. step[c] \in {"inserting", "updating"} /\ hand[c].there /\ outcome[c] # "ok"
  BY <1>1 DEF CallerInv, StageInv, HandInv, Inserts, Inside, Step
<1>4. StageInv(c)'
  BY <1>2, <1>3 DEF StageInv, Inside
<1>5. PendingInv(c)'
  BY <1>1, <1>2, <1>3 DEF CallerInv, PendingInv, CurrentWrite, Pending
<1>6. HandInv(c)'
  BY <1>1, <1>2, <1>3 DEF CallerInv, HandInv, Inserts, CopyOf, CurrentWrite
<1> QED
  BY <1>1, <1>2, <1>3, <1>4, <1>5, <1>6, QuietStep, AcksKept DEF CallerInv

LEMMA CheckStep ==
  ASSUME IInv, FTypeOK', LineInv', NEW c \in Caller, Check(c)
  PROVE  IInv'
<1>1. /\ FTypeOK /\ MutexTypeOK /\ CallerInv(c) /\ UNCHANGED <<file, acked>>
      /\ made[c] <= MaxWrites[c] /\ step[c] = "checking" /\ hand[c] \in FileRow
      /\ target[c] \in Id /\ file[target[c]] \in FileRow
  BY DEF IInv, LineInv, CallerInv, Check, WritesMade, FTypeOK
<1>2. hand[c].there /\ CopyOf(c, {CurrentWrite(c)}) /\ outcome[c] # "ok"
  BY <1>1 DEF CallerInv, HandInv
<1>3. /\ \A d \in Caller : d # c => Untouched(d)
      /\ stage'[c] = stage[c] /\ target'[c] = target[c] /\ made'[c] = made[c]
  BY <1>1 DEF Check, mutexVars, Untouched, FTypeOK
<1>4. CASE Current(c) /\ step' = [step EXCEPT ![c] = "loading"] /\ UNCHANGED outcome
           /\ hand' = [hand EXCEPT ![c].rev = file[target[c]].rev + 1]
  <2>1. step'[c] = "loading" /\ outcome'[c] # "ok"
        /\ hand'[c] = [hand[c] EXCEPT !.rev = file[target[c]].rev + 1]
    BY <1>1, <1>2, <1>4 DEF FTypeOK
  <2>2. hand[c].writes = file[target[c]].writes \cup {CurrentWrite(c)} /\ file[target[c]].there
    BY <1>2, <1>4 DEF CopyOf, Current
  <2>3. hand'[c] = [there |-> TRUE, rev |-> file[target[c]].rev + 1,
                    writes |-> file[target[c]].writes \cup {CurrentWrite(c)}]
    BY <1>1, <1>2, <2>1, <2>2 DEF FileRow
  <2>4. HandInv(c)'
    BY <1>1, <1>3, <2>1, <2>2, <2>3 DEF HandInv, Replaces, CurrentWrite
  <2>5. StageInv(c)' /\ PendingInv(c)'
    BY <1>1, <1>3, <2>1
       DEF CallerInv, StageInv, PendingInv, CurrentWrite, Inside, Pending
  <2>6. CallerInv(c)' /\ hand'[c].there
    BY <2>3, <2>4, <2>5 DEF CallerInv
  <2> QED
    BY <1>1, <1>2, <1>3, <2>6, QuietStep, AcksKept
<1>5. CASE outcome' = [outcome EXCEPT ![c] = "conflict"] /\ UNCHANGED hand
           /\ step' = [step EXCEPT ![c] = "leaving"]
  <2>1. step'[c] = "leaving" /\ outcome'[c] = "conflict" /\ hand'[c] = hand[c]
    BY <1>1, <1>5 DEF FTypeOK
  <2>2. CallerInv(c)'
    BY <1>1, <1>3, <2>1 DEF CallerInv, StageInv, HandInv, PendingInv, Inside, Pending
  <2> QED
    BY <1>1, <1>2, <1>3, <2>1, <2>2, QuietStep, AcksKept
<1> QED
  BY <1>4, <1>5 DEF Check

LEMMA LoadStep ==
  ASSUME IInv, FTypeOK', LineInv', NEW c \in Caller, Load(c)
  PROVE  IInv'
<1>1. /\ FTypeOK /\ MutexTypeOK /\ CallerInv(c) /\ UNCHANGED <<file, acked>>
      /\ made[c] <= MaxWrites[c] /\ step[c] = "loading"
  BY DEF IInv, LineInv, CallerInv, Load, WritesMade
<1>2. /\ \A d \in Caller : d # c => Untouched(d)
      /\ step'[c] = "renaming" /\ buf'[c] = file /\ hand'[c] = hand[c] /\ stage'[c] = stage[c]
      /\ target'[c] = target[c] /\ made'[c] = made[c] /\ outcome'[c] = outcome[c]
  BY <1>1 DEF Load, mutexVars, Untouched, FTypeOK
<1>3. outcome[c] # "ok" /\ (Inserts(c) \/ Replaces(c))
  BY <1>1 DEF CallerInv, HandInv
<1>4. HandInv(c)'
  BY <1>1, <1>2, <1>3 DEF HandInv, Inserts, Replaces, CurrentWrite
<1>5. StageInv(c)' /\ PendingInv(c)'
  BY <1>1, <1>2 DEF CallerInv, StageInv, PendingInv, CurrentWrite, Inside, Pending
<1>6. hand[c].there
  BY <1>3 DEF Inserts, Replaces
<1> QED
  BY <1>1, <1>2, <1>4, <1>5, <1>6, QuietStep, AcksKept DEF CallerInv

LEMMA FailStep ==
  ASSUME IInv, FTypeOK', LineInv', NEW c \in Caller, Fail(c)
  PROVE  IInv'
<1>1. /\ FTypeOK /\ MutexTypeOK /\ CallerInv(c) /\ UNCHANGED <<file, acked>>
      /\ made[c] <= MaxWrites[c] /\ step[c] \in {"checking", "loading", "renaming"}
  BY DEF IInv, LineInv, CallerInv, Fail, WritesMade
<1>2. /\ \A d \in Caller : d # c => Untouched(d)
      /\ step'[c] = "leaving" /\ outcome'[c] = "failed" /\ hand'[c] = hand[c]
      /\ stage'[c] = stage[c] /\ target'[c] = target[c] /\ made'[c] = made[c]
  BY <1>1 DEF Fail, mutexVars, Untouched, FTypeOK
<1>3. CallerInv(c)'
  BY <1>1, <1>2 DEF CallerInv, StageInv, HandInv, PendingInv, Inside, Pending
<1> QED
  BY <1>1, <1>2, <1>3, QuietStep, AcksKept

LEMMA AnswerStep ==
  ASSUME IInv, FTypeOK', LineInv', NEW c \in Caller, Settle(c)
  PROVE  IInv'
<1>1. /\ FTypeOK /\ MutexTypeOK /\ CallerInv(c) /\ file' = file
      /\ made[c] <= MaxWrites[c] /\ step[c] = "leaving" /\ target[c] \in Id
  BY DEF IInv, LineInv, CallerInv, Settle, Return, WritesMade, FTypeOK
<1>2. /\ \A d \in Caller : d # c => Untouched(d)
      /\ step'[c] = "idle" /\ outcome'[c] = "none" /\ stage'[c] = "out"
      /\ hand'[c] = IF outcome[c] = "ok" THEN hand[c] ELSE NoRow
      /\ target'[c] = target[c] /\ made'[c] = made[c]
  BY <1>1 DEF Settle, Return, Leave, Untouched, FTypeOK, MutexTypeOK
<1>3. outcome[c] = "ok" =>
        /\ file[target[c]] = hand[c] /\ hand[c].there /\ hand[c].rev \in Nat
        /\ CurrentWrite(c) \in file[target[c]].writes
  BY <1>1 DEF CallerInv, HandInv, FTypeOK, FileRow
<1>4. NoLostWrite'
  <2> SUFFICES ASSUME NEW i \in Id PROVE acked'[i] \subseteq file[i].writes
    BY <1>1 DEF NoLostWrite
  <2>1. acked[i] \subseteq file[i].writes
    BY DEF IInv, NoLostWrite
  <2>2. acked'[i] = acked[i] \/ (outcome[c] = "ok" /\ i = target[c]
                               /\ acked'[i] = acked[i] \cup {CurrentWrite(c)})
    BY <1>1 DEF Settle, Return, FTypeOK
  <2> QED
    BY <1>3, <2>1, <2>2
<1>5. CallerInv(c)'
  BY <1>1, <1>2, <1>3
     DEF CallerInv, StageInv, HandInv, PendingInv, CopyOf, NoRow, Inside, Pending
<1>6. ~hand'[c].there \/ hand[c].there
  BY <1>2 DEF NoRow
<1> QED
  BY <1>1, <1>2, <1>4, <1>5, <1>6, QuietStep

LEMMA CrashStep ==
  ASSUME IInv, FTypeOK', LineInv', Crash
  PROVE  IInv'
<1>1. \A c \in Caller : /\ stage'[c] = "out" /\ step'[c] = "idle"
                        /\ hand'[c] = NoRow /\ outcome'[c] = "none"
  BY DEF Crash
<1>2. \A c \in Caller : CallerInv(c)'
  BY <1>1 DEF CallerInv, StageInv, HandInv, PendingInv, NoRow, Inside, Pending
<1>3. UNCHANGED <<file, acked, made>>
  BY DEF Crash
<1>4. OwnInsert' /\ WritesMade' /\ AbsentEmpty' /\ NoLostWrite'
  BY <1>1, <1>3 DEF IInv, OwnInsert, WritesMade, AbsentEmpty, NoLostWrite, NoRow
<1> QED
  BY <1>2, <1>4 DEF IInv, CallerInv

------------------------------------------------------------------------------
(***************************************************************************)
(* The rename: what was read under the lock is still the file.             *)
(***************************************************************************)
LEMMA RenameEffect ==
  ASSUME IInv, NEW c \in Caller, Rename(c)
  PROVE  /\ file' = [file EXCEPT ![target[c]] = hand[c]]
         /\ Inserts(c) \/ Replaces(c)
         /\ CurrentWrite(c) \in Write
         /\ \A i \in Id : CurrentWrite(c) \notin file[i].writes
<1>1. step[c] = "renaming" /\ HandInv(c) /\ PendingInv(c)
  BY DEF IInv, Rename
<1>2. buf[c] = file
  BY <1>1 DEF HandInv
<1> QED
  BY <1>1, <1>2 DEF Rename, HandInv, PendingInv, Pending

LEMMA RenameOther ==
  ASSUME IInv, FTypeOK', NEW c \in Caller, NEW d \in Caller, d # c, Rename(c)
  PROVE  CallerInv(d)'
<1>1. /\ FTypeOK /\ CallerInv(d) /\ step[c] = "renaming" /\ step[d] \in Step
      /\ target[c] \in Id /\ target[d] \in Id /\ hand[d] \in FileRow
      /\ file[target[c]] \in FileRow /\ hand[c].there
  <2>1. Inserts(c) \/ Replaces(c)
    BY RenameEffect
  <2> QED
    BY <2>1 DEF IInv, CallerInv, Rename, FTypeOK, Inserts, Replaces
<1>2. step[d] \notin Inside
  <2>1. stage[c] = "in"
    BY <1>1 DEF IInv, StageInv, Inside
  <2>2. MutualExclusion
    BY LineExcludes DEF IInv
  <2> QED
    BY <1>1, <2>1, <2>2 DEF CallerInv, StageInv, MutualExclusion
<1>3. Untouched(d)
  BY <1>1 DEF Rename, mutexVars, Untouched, FTypeOK
<1>4. file'[target[c]] = hand[c] /\ \A i \in Id : i # target[c] => file'[i] = file[i]
  BY <1>1, RenameEffect DEF FTypeOK
<1>5. StageInv(d)'
  BY <1>1, <1>3 DEF CallerInv, StageInv, Untouched
<1>6. PendingInv(d)'
  <2> SUFFICES ASSUME step[d] \in Pending, NEW i \in Id
               PROVE  CurrentWrite(d) \in Write /\ CurrentWrite(d) \notin file'[i].writes
    BY <1>3, IdAssumption DEF PendingInv, CurrentWrite, Untouched
  <2>1. CurrentWrite(d) \in Write /\ CurrentWrite(d) \notin file[i].writes
    BY <1>1 DEF CallerInv, PendingInv
  <2>2. ASSUME i = target[c]
        PROVE  file'[i].writes \subseteq file[i].writes \cup {CurrentWrite(c)}
    <3>1. file'[i].writes = hand[c].writes
      BY <1>4, <2>2
    <3>2. CASE Inserts(c)
      BY <3>1, <3>2 DEF Inserts
    <3>3. CASE Replaces(c)
      BY <2>2, <3>1, <3>3 DEF Replaces
    <3> QED
      BY <3>2, <3>3, RenameEffect
  <2>3. CurrentWrite(c) # CurrentWrite(d)
    BY DEF CurrentWrite
  <2>4. CASE i # target[c]
    BY <1>4, <2>1, <2>4
  <2>5. CASE i = target[c]
    BY <2>1, <2>2, <2>3, <2>5
  <2> QED
    BY <2>4, <2>5
<1>7. HandInv(d)'
  <2>1. step[d] \in {"idle", "inserting", "updating"} /\ outcome'[d] # "ok"
    BY <1>1, <1>2, <1>3 DEF CallerInv, HandInv, Step, Inside, Untouched
  <2>2. ASSUME NEW added, CopyOf(d, added)
        PROVE  /\ file'[target[d]].there
               /\ hand[d].rev <= file'[target[d]].rev
               /\ hand[d].rev = file'[target[d]].rev =>
                    hand[d].writes = file'[target[d]].writes \cup added
    <3>1. CASE target[d] # target[c]
      BY <1>1, <1>4, <2>2, <3>1 DEF CopyOf
    <3>2. CASE target[d] = target[c]
      <4>1. file[target[c]].there /\ hand[d].rev <= file[target[c]].rev
        BY <2>2, <3>2 DEF CopyOf
      <4>2. hand[c].rev = file[target[c]].rev + 1 /\ hand[c].there
        <5>1. Replaces(c)
          BY <4>1, RenameEffect DEF Inserts
        <5> QED
          BY <5>1 DEF Replaces
      <4>3. hand[d].rev \in Nat /\ file[target[c]].rev \in Nat
        BY <1>1 DEF FileRow
      <4> QED
        BY <1>4, <3>2, <4>1, <4>2, <4>3
    <3> QED
      BY <3>1, <3>2
  <2>3. CASE step[d] = "idle"
    <3>1. hand[d].there => CopyOf(d, {})
      BY <1>1, <2>3 DEF CallerInv, HandInv
    <3>2. hand[d].there => CopyOf(d, {})'
      BY <1>3, <2>2, <3>1, ZenonT(60) DEF CopyOf, Untouched
    <3> QED
      BY <1>3, <2>1, <2>3, <3>2 DEF HandInv, Untouched
  <2>4. CASE step[d] = "updating"
    <3>1. hand[d].there /\ CopyOf(d, {CurrentWrite(d)})
      BY <1>1, <2>4 DEF CallerInv, HandInv
    <3>2. CopyOf(d, {CurrentWrite(d)})'
      <4>1. CurrentWrite(d)' = CurrentWrite(d)
        BY <1>3 DEF CurrentWrite, Untouched
      <4> QED
        BY <1>3, <2>2, <3>1, <4>1, ZenonT(60) DEF CopyOf, Untouched
    <3> QED
      BY <1>3, <2>1, <2>4, <3>1, <3>2 DEF HandInv, Untouched
  <2>5. CASE step[d] = "inserting"
    <3>1. Inserts(d)
      BY <1>1, <2>5 DEF CallerInv, HandInv
    <3>2. target[d] # target[c]
      BY <1>1, <3>1 DEF IInv, OwnInsert, Inserts
    <3>3. Inserts(d)'
      BY <1>1, <1>3, <1>4, <3>1, <3>2 DEF Inserts, CurrentWrite, Untouched
    <3> QED
      BY <1>3, <2>1, <2>5, <3>3 DEF HandInv, Untouched
  <2> QED
    BY <2>1, <2>3, <2>4, <2>5
<1> QED
  BY <1>5, <1>6, <1>7 DEF CallerInv

LEMMA RenameStep ==
  ASSUME IInv, FTypeOK', LineInv', NEW c \in Caller, Rename(c)
  PROVE  IInv'
<1>1. /\ FTypeOK /\ CallerInv(c) /\ step[c] = "renaming" /\ target[c] \in Id
      /\ UNCHANGED <<stage, target, hand, made, acked>>
  BY DEF IInv, CallerInv, Rename, mutexVars, FTypeOK
<1>2. /\ Inserts(c) \/ Replaces(c)
      /\ CurrentWrite(c) \in Write
      /\ file'[target[c]] = hand[c] /\ \A i \in Id : i # target[c] => file'[i] = file[i]
  BY <1>1, RenameEffect DEF FTypeOK
<1>3. step'[c] = "leaving" /\ outcome'[c] = "ok"
  BY <1>1 DEF Rename, FTypeOK
<1>4. hand[c].there /\ CurrentWrite(c) \in hand[c].writes
      /\ file[target[c]].writes \subseteq hand[c].writes \cup file[target[c]].writes
      /\ hand[c].writes \subseteq file[target[c]].writes \cup {CurrentWrite(c)}
  BY <1>2 DEF Inserts, Replaces
<1>5. CallerInv(c)'
  BY <1>1, <1>2, <1>3, <1>4
     DEF CallerInv, StageInv, HandInv, PendingInv, CurrentWrite, Inside, Pending
<1>6. \A d \in Caller : CallerInv(d)'
  BY <1>5, RenameOther
<1>7. OwnInsert'
  BY <1>1, <1>2, <1>4 DEF IInv, OwnInsert, FTypeOK
<1>8. WritesMade'
  <2>1. ASSUME NEW i \in Id, NEW w \in file'[i].writes PROVE w[2] <= made[w[1]]
    <3>1. CASE w \in file[i].writes
      BY <3>1 DEF IInv, WritesMade
    <3>2. CASE w = CurrentWrite(c)
      BY <1>1, <3>2 DEF CurrentWrite, FTypeOK
    <3> QED
      BY <1>2, <1>4, <2>1, <3>1, <3>2
  <2> QED
    BY <1>1, <2>1 DEF IInv, WritesMade
<1>9. NoLostWrite'
  <2> SUFFICES ASSUME NEW i \in Id PROVE acked[i] \subseteq file'[i].writes
    BY <1>1 DEF NoLostWrite
  <2>1. acked[i] \subseteq file[i].writes
    BY DEF IInv, NoLostWrite
  <2>2. CASE i # target[c]
    BY <1>2, <2>1, <2>2
  <2>3. CASE i = target[c] /\ Replaces(c)
    BY <1>2, <2>1, <2>3 DEF Replaces
  <2>4. CASE i = target[c] /\ Inserts(c)
    BY <1>1, <2>1, <2>4 DEF Inserts, IInv, AbsentEmpty
  <2> QED
    BY <1>2, <2>2, <2>3, <2>4
<1>10. AbsentEmpty'
  BY <1>2, <1>4 DEF IInv, AbsentEmpty
<1> QED
  BY <1>6, <1>7, <1>8, <1>9, <1>10 DEF IInv, CallerInv

(***************************************************************************)
(* The invariant.                                                          *)
(***************************************************************************)
LEMMA InvInit == FInit => IInv
<1> SUFFICES ASSUME FInit PROVE IInv
  OBVIOUS
<1>1. FTypeOK /\ LineInv
  BY InitType, LineInit DEF FInit
<1>2. /\ \A c \in Caller : /\ stage[c] = "out" /\ step[c] = "idle" /\ hand[c] = NoRow
                           /\ outcome[c] = "none" /\ made[c] = 0
      /\ \A i \in Id : file[i] = NoRow /\ acked[i] = {}
  BY DEF FInit, MutexInit, NothingInMemory, NoFile
<1>3. ASSUME NEW c \in Caller PROVE CallerInv(c)
  <2>1. stage[c] = "out" /\ step[c] = "idle" /\ ~hand[c].there /\ outcome[c] = "none"
    BY <1>2 DEF NoRow
  <2>2. StageInv(c)
    BY <2>1 DEF StageInv, Inside
  <2>3. HandInv(c)
    BY <2>1 DEF HandInv
  <2>4. PendingInv(c)
    BY <2>1 DEF PendingInv, Pending
  <2> QED
    BY <2>2, <2>3, <2>4 DEF CallerInv
<1>4. \A c \in Caller : MaxWrites[c] \in Nat
  BY MaxWritesAssumption
<1>5. OwnInsert /\ WritesMade /\ AbsentEmpty /\ NoLostWrite
  BY <1>2, <1>4 DEF OwnInsert, WritesMade, AbsentEmpty, NoLostWrite, NoRow
<1> QED
  BY <1>1, <1>3, <1>5 DEF IInv, CallerInv

LEMMA InvNext == IInv /\ [FNext]_fvars => IInv'
<1> SUFFICES ASSUME IInv, [FNext]_fvars PROVE IInv'
  OBVIOUS
<1>1. LineInv'
  BY LineNext DEF IInv
<1>2. FTypeOK /\ \A d \in Caller : outcome[d] = "ok" => CurrentWrite(d) \in Write
  <2>1. ASSUME NEW d \in Caller, outcome[d] = "ok" PROVE CurrentWrite(d) \in Write
    <3>1. CurrentWrite(d) \in file[target[d]].writes
      BY <2>1 DEF IInv, HandInv
    <3> QED
      BY <3>1 DEF IInv, FTypeOK, FileRow
  <2> QED
    BY <2>1 DEF IInv
<1>3. ASSUME NEW c \in Caller, NEW i \in Id, BeginInsert(c, i) PROVE IInv'
  BY <1>1, <1>2, <1>3, BeginType, BeginInsertStep
<1>4. ASSUME NEW c \in Caller, NEW i \in Id, Find(c, i) PROVE IInv'
  BY <1>1, <1>2, <1>4, BeginType, FindStep
<1>5. ASSUME NEW c \in Caller, BeginUpdate(c) PROVE IInv'
  BY <1>1, <1>2, <1>5, BeginType, BeginUpdateStep
<1>6. ASSUME NEW c \in Caller, Admit(c) \/ Locked(c) PROVE IInv'
  <2>1. FTypeOK'
    BY <1>1, <1>2, <1>6, LockedType
  <2> QED
    BY <1>1, <1>6, <2>1, AdmitStep, CheckStep, LoadStep, RenameStep, FailStep, AnswerStep
       DEF Locked
<1>7. CASE Crash
  BY <1>1, <1>2, <1>7, CrashType, CrashStep
<1>8. CASE UNCHANGED fvars
  <2>1. /\ file' = file /\ acked' = acked /\ made' = made /\ hand' = hand /\ target' = target
        /\ \A d \in Caller : Untouched(d)
    BY <1>8 DEF fvars, Untouched
  <2>2. \A d \in Caller : CallerInv(d)'
    BY <2>1, CallerKept DEF IInv, CallerInv
  <2>3. FTypeOK'
    BY <1>1, <1>2, <1>8 DEF fvars, FTypeOK, LineInv
  <2>4. (OwnInsert /\ WritesMade /\ AbsentEmpty /\ NoLostWrite)'
    BY <2>1 DEF IInv, OwnInsert, WritesMade, AbsentEmpty, NoLostWrite
  <2> QED
    BY <1>1, <2>2, <2>3, <2>4 DEF IInv, CallerInv
<1> QED
  BY <1>3, <1>4, <1>5, <1>6, <1>7, <1>8 DEF FNext

LEMMA Inductive == FSpec => []IInv
  BY InvInit, InvNext, PTL DEF FSpec

\* Every variable keeps its type.
THEOREM TypeCorrect == FSpec => []FTypeOK
<1>1. IInv => FTypeOK
  BY DEF IInv
<1> QED
  BY <1>1, Inductive, PTL

\* KeyedMutex lets one caller at a time work on the file, for any number of
\* them and however the process crashes and restarts.
THEOREM OneAtATime == FSpec => []MutualExclusion
<1>1. IInv => MutualExclusion
  BY LineExcludes DEF IInv
<1> QED
  BY <1>1, Inductive, PTL

\* The mutex holds an entry exactly while somebody is in line (the delete in
\* the finally block of KeyedMutex.run).
THEOREM EntryIsDropped == FSpec => []EntryDropped
<1>1. IInv => EntryDropped
  BY LineDrops DEF IInv
<1> QED
  BY <1>1, Inductive, PTL

\* A write that ConcurrencySafeEnvelopeStore answered with success is in its
\* row for good.
THEOREM NothingLost == FSpec => []NoLostWrite
<1>1. IInv => NoLostWrite
  BY DEF IInv
<1> QED
  BY <1>1, Inductive, PTL

(***************************************************************************)
(* Refinement: the rename is the one step that changes rows.               *)
(***************************************************************************)
LEMMA RenameImplements ==
  ASSUME IInv, NEW c \in Caller, Rename(c)
  PROVE  Rows!Next
<1>1. /\ file \in [Id -> FileRow] /\ target[c] \in Id
      /\ file' = [file EXCEPT ![target[c]] = hand[c]]
      /\ Inserts(c) \/ Replaces(c)
      /\ CurrentWrite(c) \in Write /\ CurrentWrite(c) \notin file[target[c]].writes
  BY RenameEffect DEF IInv, FTypeOK
<1>2. CASE Inserts(c)
  <2>1. Rows!Insert(target[c], CurrentWrite(c))
    BY <1>1, <1>2 DEF Inserts, Rows!Insert
  <2> QED
    BY <1>1, <2>1 DEF Rows!Next
<1>3. CASE Replaces(c)
  <2>1. Rows!Replace(target[c], CurrentWrite(c))
    BY <1>1, <1>3 DEF Replaces, Rows!Replace
  <2> QED
    BY <1>1, <2>1 DEF Rows!Next
<1> QED
  BY <1>1, <1>2, <1>3

LEMMA StepImplements == IInv /\ [FNext]_fvars => [Rows!Next]_file
<1> SUFFICES ASSUME IInv, [FNext]_fvars PROVE [Rows!Next]_file
  OBVIOUS
<1>1. ASSUME NEW c \in Caller, Rename(c) PROVE Rows!Next
  BY <1>1, RenameImplements
<1> QED
  BY <1>1
     DEF FNext, BeginInsert, NewEnvelope, Find, BeginUpdate, Admit, Locked, Check, Load, Fail,
         Settle, Return, Crash, fvars

\* Reading and writing back the whole file under the mutex implements atomic
\* inserts and compare-and-swaps of single rows: what EnvelopeSigning assumes.
THEOREM Implements == FSpec => ImplementsRows
<1>1. FInit => Rows!Init
  BY DEF FInit, NoFile, NoRow, Rows!Init, Rows!NoRow
<1> QED
  BY <1>1, Inductive, StepImplements, PTL DEF FSpec, ImplementsRows, Rows!Spec
==============================================================================
