---------------------------- MODULE EventDelivery ----------------------------
(***************************************************************************)
(* The lifecycle events of one envelope: the log in its row                *)
(* (events/log.ts), the webhook queue on disk (events/queue.ts), and emit  *)
(* of envelopes.ts, which appends to one and then writes to the other.     *)
(* The sinks come after that, each on its own, and keep nothing.           *)
(*                                                                         *)
(* Every append reads the row afresh and writes it under its revision; the *)
(* queue has one pass at a time, which attempts the oldest pending event.  *)
(* Emissions run at once, and a crash ends them all and the pass.  Times   *)
(* are those of the wall clock, in milliseconds: it may stand still        *)
(* between two events, and be set back.                                    *)
(***************************************************************************)
EXTENDS Integers, Sequences, SequencesExt, FiniteSets

CONSTANTS
  Emission,      \* calls of emit for this envelope
  Guarded,       \* those of one fact (a signer has viewed): its guard is in build
  MaxEvents,     \* MAX_EVENTS of the log (200 in the code)
  MaxTries,      \* MAX_ATTEMPTS of appendEvent (5 in the code)
  MaxAttempts,   \* the steps of the backoff (6 in the code)
  MaxTime,       \* bound: the times the clock can show
  MaxFaults      \* bound: crashes, failed writes, lost answers, settings back of the clock

ASSUME EmissionAssumption == Guarded \subseteq Emission
ASSUME LimitAssumption ==
  /\ MaxEvents \in Nat \ {0} /\ MaxTries \in Nat \ {0} /\ MaxAttempts \in Nat \ {0}
  /\ MaxTime \in Nat \ {0} /\ MaxFaults \in Nat

VARIABLES
  logRow,      \* the envelope's row: revision, log, and the guarded fact
  emission,    \* the emissions
  clock,       \* the time
  queue,       \* the files of events/queue
  delivered,   \* the files of events/delivered
  pass,        \* the pass over the queue
  appended,    \* the log with what was trimmed from it (a history)
  received,    \* what the receiver got (a history)
  late,        \* events enqueued behind a newer one that was under way (a history)
  setBack,     \* the clock was set back (a history)
  mishaps,     \* emissions whose trim was not audited (a history)
  spoilt       \* faults so far

evars == <<logRow, emission, clock, queue, delivered, pass, appended, received, late, setBack,
           mishaps, spoilt>>

LogEvent == [of: Emission, n: 1..MaxTries, at: 1..MaxTime]
NoEvent  == [of |-> "none", n |-> 0, at |-> 0]
RowState == [rev: Nat, log: Seq(LogEvent), recorded: BOOLEAN]
File     == [event: LogEvent, attempts: 0..MaxAttempts, due: BOOLEAN, dead: BOOLEAN]
NoFile   == [event |-> NoEvent, attempts |-> 0, due |-> FALSE, dead |-> FALSE]
FreshLog == [rev |-> 0, log |-> <<>>, recorded |-> FALSE]
NewEmission == [phase |-> "idle", tries |-> 0, seen |-> 0, event |-> NoEvent]

ETypeOK ==
  /\ logRow \in RowState
  /\ \A m \in Emission :
       /\ emission[m].phase \in {"idle", "read", "update", "audit", "enqueue", "end"}
       /\ emission[m].tries \in 0..MaxTries
       /\ emission[m].seen \in Nat
       /\ emission[m].event \in LogEvent \cup {NoEvent}
  /\ clock \in 1..MaxTime
  /\ queue \subseteq File
  /\ delivered \subseteq LogEvent /\ appended \in Seq(LogEvent)
  /\ pass.phase \in {"idle", "sending", "recording", "removing", "failing"}
  /\ pass.file \in File \cup {NoFile}
  /\ received \in Seq(LogEvent)
  /\ late \subseteq LogEvent /\ setBack \in BOOLEAN
  /\ mishaps \subseteq Emission
  /\ spoilt \in 0..MaxFaults

EInit ==
  /\ logRow = FreshLog
  /\ emission = [m \in Emission |-> NewEmission]
  /\ clock = 1
  /\ queue = {} /\ delivered = {}
  /\ pass = [phase |-> "idle", file |-> NoFile]
  /\ appended = <<>> /\ received = <<>> /\ mishaps = {} /\ late = {} /\ setBack = FALSE
  /\ spoilt = 0

Log     == <<logRow, clock, setBack, appended, mishaps>>
Webhook == <<queue, delivered, pass, received, late>>

Fault == spoilt < MaxFaults /\ spoilt' = spoilt + 1
GoesOn(m, phase) ==
  emission' = [emission EXCEPT
    ![m] = [IF phase = "end" THEN NewEmission ELSE @ EXCEPT !.phase = phase]]

------------------------------------------------------------------------------
(***************************************************************************)
(* emit: appendEvent, and then the queue.                                  *)
(***************************************************************************)
\* Mutation: build looks at the row of the first attempt.
KnownFromFirst(m) == m \in Guarded /\ emission[m].tries = 0 /\ logRow.recorded

\* build returns false: the fact is already in the row.
Known(m) == m \in Guarded /\ logRow.recorded

\* findById, build and the time of the attempt, taken after the read.
FreshRead(m) ==
  /\ emission[m].phase \in {"idle", "read"}
  /\ IF Known(m)
     THEN GoesOn(m, "end")
     ELSE emission' = [emission EXCEPT ![m] =
               [phase |-> "update", tries |-> @.tries + 1, seen |-> logRow.rev,
                event |-> [of |-> m, n |-> @.tries + 1, at |-> clock]]]
  /\ UNCHANGED <<Log, Webhook, spoilt>>

\* Time passes, or the clock is set back.
ClockMoves ==
  /\ \E t \in 1..MaxTime :
       /\ clock' = t
       /\ \/ t > clock /\ UNCHANGED <<setBack, spoilt>>
          \/ t < clock /\ setBack' = TRUE /\ Fault
  /\ UNCHANGED <<logRow, emission, appended, mishaps, Webhook>>

\* The loop of appendEvent, after anything in its try has thrown; emit swallows
\* the last error.
Again(m) == GoesOn(m, IF emission[m].tries < MaxTries THEN "read" ELSE "end")

\* appendEventInMemory: at most MaxEvents are kept.
Capped(log) == IF Len(log) > MaxEvents THEN Tail(log) ELSE log

Update(m) ==
  LET v   == emission[m]
      log == Append(logRow.log, v.event)
  IN  /\ v.phase = "update"
      /\ \/ /\ logRow.rev = v.seen
            /\ logRow' = [rev |-> logRow.rev + 1, log |-> Capped(log),
                       recorded |-> logRow.recorded \/ m \in Guarded]
            /\ appended' = Append(appended, v.event)
            /\ GoesOn(m, IF Len(log) > MaxEvents THEN "audit" ELSE "enqueue")
            /\ UNCHANGED spoilt
         \/ /\ \/ logRow.rev # v.seen /\ UNCHANGED spoilt
               \/ Fault
            /\ Again(m)
            /\ UNCHANGED <<logRow, appended>>
      /\ UNCHANGED <<clock, setBack, mishaps, Webhook>>

\* events.trimmed: when this insert throws, the event is in the log already.
AuditTrim(m) ==
  /\ emission[m].phase = "audit"
  /\ \/ GoesOn(m, "enqueue") /\ UNCHANGED <<mishaps, spoilt>>
     \/ Again(m) /\ Fault /\ mishaps' = mishaps \cup {m}
  /\ UNCHANGED <<logRow, clock, setBack, appended, Webhook>>

\* The pass has sent a newer event, or is about to.
Overtaken(e) ==
  \E f \in ToSet(received) \cup {pass.file.event} : e.at < f.at

Enqueue(m) ==
  /\ emission[m].phase = "enqueue"
  /\ \/ /\ queue' = queue \cup {[event |-> emission[m].event, attempts |-> 0,
                                 due |-> TRUE, dead |-> FALSE]}
        /\ late' = IF Overtaken(emission[m].event) THEN late \cup {emission[m].event} ELSE late
        /\ UNCHANGED spoilt
     \/ Fault /\ UNCHANGED <<queue, late>>
  /\ GoesOn(m, "end")
  /\ UNCHANGED <<Log, delivered, pass, received>>

------------------------------------------------------------------------------
(***************************************************************************)
(* The queue.                                                              *)
(***************************************************************************)
Pending == {f \in queue : ~f.dead}

\* Mutation: one that is not due does not hold up those behind it.
DueFirst(files) == {f \in files : f.due /\ \A g \in files : g.due => f.event.at <= g.event.at}

Oldest(files) == {f \in files : \A g \in files : f.event.at <= g.event.at}

\* The oldest pending event - of several of one time, any -, if it is due: those
\* behind it wait with it.
Heads == {f \in Oldest(Pending) : f.due}

Scan ==
  /\ pass.phase = "idle"
  /\ \E f \in Heads : pass' = [phase |-> "sending", file |-> f]
  /\ UNCHANGED <<Log, emission, queue, delivered, received, late, spoilt>>

Step(phase) ==
  pass' = [phase |-> phase, file |-> IF phase = "idle" THEN NoFile ELSE pass.file]

\* sendWebhook: a 2xx, anything else, or a 2xx that was not seen.
Send ==
  /\ pass.phase = "sending"
  /\ \/ received' = Append(received, pass.file.event) /\ Step("recording") /\ UNCHANGED spoilt
     \/ UNCHANGED <<received, spoilt>> /\ Step("failing")
     \/ received' = Append(received, pass.file.event) /\ Step("failing") /\ Fault
  /\ UNCHANGED <<Log, emission, queue, delivered, late>>

Record ==
  /\ pass.phase = "recording"
  /\ \/ delivered' = delivered \cup {pass.file.event} /\ Step("removing") /\ UNCHANGED spoilt
     \/ Step("failing") /\ Fault /\ UNCHANGED delivered
  /\ UNCHANGED <<Log, emission, queue, received, late>>

RemoveFile ==
  /\ pass.phase = "removing"
  /\ \/ queue' = queue \ {pass.file} /\ Step("idle") /\ UNCHANGED spoilt
     \/ Step("failing") /\ Fault /\ UNCHANGED queue
  /\ UNCHANGED <<Log, emission, delivered, received, late>>

\* Mutation: the file keeps its count.
RewrittenUncounted(f) == [f EXCEPT !.due = FALSE]

\* The last attempt leaves a dead letter, another one waits.
Rewritten(f) ==
  [f EXCEPT !.attempts = @ + 1, !.due = FALSE, !.dead = f.attempts + 1 >= MaxAttempts]

Failed ==
  /\ pass.phase = "failing"
  /\ Step("idle")
  /\ \/ queue' = (queue \ {pass.file}) \cup {Rewritten(pass.file)} /\ UNCHANGED spoilt
     \/ Fault /\ UNCHANGED queue
  /\ UNCHANGED <<Log, emission, delivered, received, late>>

\* The backoff runs out.
Elapse ==
  /\ \E f \in Pending : ~f.due /\ queue' = (queue \ {f}) \cup {[f EXCEPT !.due = TRUE]}
  /\ UNCHANGED <<Log, emission, delivered, pass, received, late, spoilt>>

\* pruneDelivered, a day later.
Prune ==
  /\ \E e \in delivered : delivered' = delivered \ {e}
  /\ UNCHANGED <<Log, emission, queue, pass, received, late, spoilt>>

Crash ==
  /\ Fault
  /\ \/ pass.phase # "idle"
     \/ \E m \in Emission : emission[m].phase \notin {"idle", "end"}
  /\ emission' = [m \in Emission |->
                    IF emission[m].phase = "idle" THEN emission[m]
                    ELSE [NewEmission EXCEPT !.phase = "end"]]
  /\ Step("idle")
  /\ UNCHANGED <<Log, queue, delivered, received, late>>

Deliver == Scan \/ Send \/ Record \/ RemoveFile \/ Failed

ENext ==
  \/ \E m \in Emission : FreshRead(m) \/ Update(m) \/ AuditTrim(m) \/ Enqueue(m)
  \/ Deliver \/ Elapse \/ Prune \/ Crash \/ ClockMoves

\* The timer of the queue keeps firing, and time passes; crashes are bounded.
EFairness == WF_evars(Deliver) /\ WF_evars(Elapse)

ESpec == EInit /\ [][ENext]_evars /\ EFairness

------------------------------------------------------------------------------
(***************************************************************************)
(* Properties.                                                             *)
(***************************************************************************)
\* Nothing is told twice, or out of thin air: an emission is one event, except one
\* whose trim was not audited (log.ts writes it into the log again); a fact behind a
\* guard is one event whatever happens; what the queue and the receiver know of was in
\* the log first, and a receipt is of something the receiver has.  Whatever appends
\* overtake each other, the log goes back in time only if the clock does; events of one
\* millisecond have the same time.
ToldOnce ==
  /\ \A e, f \in ToSet(appended) : e.of = f.of => e = f \/ e.of \in mishaps
  /\ Cardinality({e \in ToSet(appended) : e.of \in Guarded}) <= 1
  /\ ToSet(received) \cup {f.event : f \in queue} \subseteq ToSet(appended)
  /\ delivered \subseteq ToSet(received)
  /\ ~setBack => \A i, j \in 1..Len(appended) : i < j => appended[i].at <= appended[j].at

\* Whatever fails, waits, is tried again or given up for dead, the queue reorders
\* nothing: an event the receiver gets behind a newer one was not in the queue yet when
\* that one was taken.  Such events there are: an emission can be overtaken between the
\* log and the queue.
OnlyLateOvertaken ==
  \A i, j \in 1..Len(received) :
    i < j /\ received[j].at < received[i].at => received[j] \in late

\* What is logged of an emission is told once, and what is in the queue in its order.
ToldOnceInOrder == ToldOnce /\ OnlyLateOvertaken

\* Every event in the queue is delivered or becomes a dead letter: once the last
\* emission is through (there are finitely many), nothing stays pending.
QueueSettles == <>[](Pending = {})
==============================================================================
