------------------------------ MODULE KeyedMutex ------------------------------
(***************************************************************************)
(* KeyedMutex.run for one key: packages/esig-mcp/src/stores.ts, and the    *)
(* same class in packages/esig-gateway/src/stores.ts.                      *)
(*                                                                         *)
(* The map tails holds, per key, the promise of the last caller in line.   *)
(* A caller takes it as prev, puts its own in its place and awaits prev.   *)
(* Here a promise is named after its caller, and prev[c] is forgotten when *)
(* the promise resolves: "await prev" returns once prev[c] is NoOne.       *)
(***************************************************************************)
EXTENDS Integers

CONSTANTS
  Caller,   \* the callers that can be under way together
  NoOne     \* no entry in tails, or a promise that has resolved

ASSUME NoOneAssumption == NoOne \notin Caller

VARIABLES
  tail,     \* tails.get(key)
  prev,     \* the promise each caller waits for
  stage     \* where each caller is in run

mutexVars == <<tail, prev, stage>>

MutexTypeOK ==
  /\ tail \in Caller \cup {NoOne}
  /\ prev \in [Caller -> Caller \cup {NoOne}]
  /\ stage \in [Caller -> {"out", "queued", "in"}]

MutexInit ==
  /\ tail = NoOne
  /\ prev = [c \in Caller |-> NoOne]
  /\ stage = [c \in Caller |-> "out"]

\* run up to "await prev": one synchronous step.
Request(c) ==
  /\ stage[c] = "out"
  /\ prev' = [prev EXCEPT ![c] = tail]
  /\ tail' = c
  /\ stage' = [stage EXCEPT ![c] = "queued"]

\* "await prev" returns, fn starts.
Enter(c) ==
  /\ stage[c] = "queued"
  /\ prev[c] = NoOne
  /\ stage' = [stage EXCEPT ![c] = "in"]
  /\ UNCHANGED <<tail, prev>>

\* The entry of c is dropped only while c is the last in line.
TailAfter(c) == IF tail = c THEN NoOne ELSE tail

\* The finally block: release resolves the promise of c, and whoever awaits it
\* may go on.
Leave(c) ==
  /\ stage[c] = "in"
  /\ prev' = [d \in Caller |-> IF prev[d] = c THEN NoOne ELSE prev[d]]
  /\ tail' = TailAfter(c)
  /\ stage' = [stage EXCEPT ![c] = "out"]

\* One caller at a time runs its function, although each caller only ever
\* looks at the entry it found in tails when it came.
MutualExclusion ==
  \A c, d \in Caller : stage[c] = "in" /\ stage[d] = "in" => c = d

\* The map stays bounded: it holds an entry only while somebody is in line
\* ("Drop the entry only if nobody queued behind us").
EntryDropped == tail = NoOne <=> \A c \in Caller : stage[c] = "out"
==============================================================================
