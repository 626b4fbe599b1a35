------------------------------ MODULE Reminders ------------------------------
(***************************************************************************)
(* The reminders of one signer: computeDue and the Scheduler of            *)
(* reminders.ts, and sendReminder / sendOneReminder of envelopes.ts, which *)
(* writes the reminder into the row, sends the mail, and takes the entry   *)
(* back when the mail could not be sent.                                   *)
(*                                                                         *)
(* The timer does not wait for its last tick, tools are called at any      *)
(* time, and the signer may sign meanwhile: calls run at once, and every   *)
(* write of the row makes what the others have read stale.                 *)
(***************************************************************************)
EXTENDS Integers, Sequences, FiniteSets

CONSTANTS
  Tick,        \* ticks of the scheduler that may run at once
  Tool,        \* calls of esig_send_reminder that may run at once
  Slots,       \* the length of the schedule
  MaxSent,     \* config.reminders.max
  MaxWrites,   \* MAX_ATTEMPTS of updateWithRetry (5 in the code)
  MaxTroubles  \* bound: crashes, mails that fail

ASSUME ReminderAssumption ==
  /\ Tick \cap Tool = {}
  /\ Slots \in Nat \ {0} /\ MaxSent \in Nat \ {0} /\ MaxWrites \in Nat \ {0}
  /\ MaxTroubles \in Nat

VARIABLES
  due,         \* how many reminders of the schedule are due by now
  pending,     \* the signer is pending
  open,        \* the envelope is neither voided nor expired
  link,        \* the signing link is stored
  scheduled,   \* sentAt of the signer
  manual,      \* manualSentAt
  call,        \* the ticks and tool calls
  serial,      \* entries so far; an entry is its serial number
  mailed,      \* entries whose mail was answered with success (a history)
  overlapped,  \* two ticks have run at once (a history)
  wasted,      \* an entry was left behind by a crash, or by a conflict too many (a history)
  trouble      \* faults so far

rvars == <<due, pending, open, link, scheduled, manual, call, serial, mailed, overlapped,
           wasted, trouble>>

Call   == Tick \cup Tool
Entry  == 1..(MaxSent + MaxTroubles)
Phases == {"idle", "read", "persist", "deliver", "undo", "restore", "emit"}
Idle   == [phase |-> "idle", tries |-> 0, fresh |-> FALSE, index |-> 0, entry |-> 0]

RTypeOK ==
  /\ due \in 0..Slots
  /\ pending \in BOOLEAN /\ open \in BOOLEAN /\ link \in BOOLEAN
  /\ scheduled \in Seq(Entry) /\ manual \in Seq(Entry)
  /\ call \in [Call -> [phase: Phases, tries: 0..MaxWrites, fresh: BOOLEAN,
                        index: 0..MaxSent, entry: Entry \cup {0}]]
  /\ serial \in Entry \cup {0}
  /\ mailed \subseteq Entry
  /\ overlapped \in BOOLEAN /\ wasted \in BOOLEAN
  /\ trouble \in 0..MaxTroubles

RInit ==
  /\ due = 0
  /\ pending = TRUE /\ open = TRUE /\ link = TRUE
  /\ scheduled = <<>> /\ manual = <<>>
  /\ call = [c \in Call |-> Idle]
  /\ serial = 0 /\ mailed = {}
  /\ overlapped = FALSE /\ wasted = FALSE
  /\ trouble = 0

ReminderRow     == <<pending, open, link, scheduled, manual>>
History == <<serial, mailed, overlapped, wasted>>

Trouble == trouble < MaxTroubles /\ trouble' = trouble + 1
Become(c, v) == call' = [call EXCEPT ![c] = v]

\* c wrote the row and goes on as v: what everybody else has read of it is stale.
WroteAs(c, v) ==
  call' = [d \in Call |-> IF d = c THEN v ELSE [call[d] EXCEPT !.fresh = FALSE]]
Wrote == call' = [d \in Call |-> [call[d] EXCEPT !.fresh = FALSE]]

Total == Len(scheduled) + Len(manual)

------------------------------------------------------------------------------
\* computeDue of the envelope as it was listed.
Due ==
  /\ pending /\ open
  /\ Len(scheduled) < Slots /\ Total < MaxSent
  /\ Len(scheduled) < due

TickRuns(c) ==
  /\ c \in Tick /\ call[c].phase = "idle"
  /\ Due
  /\ Become(c, [Idle EXCEPT !.phase = "read"])
  /\ overlapped' = (overlapped \/ \E d \in Tick : call[d].phase # "idle")
  /\ UNCHANGED <<due, ReminderRow, serial, mailed, wasted, trouble>>

\* sendReminder asks for the signer's status, not for the envelope's.
ToolRuns(c) ==
  /\ c \in Tool /\ call[c].phase = "idle"
  /\ pending
  /\ Become(c, [Idle EXCEPT !.phase = "read"])
  /\ UNCHANGED <<due, ReminderRow, History, trouble>>

\* What sendOneReminder asks of the row it has just read; otherwise it throws.
Usable == link /\ Total < MaxSent

ReadAfresh(c) ==
  /\ call[c].phase = "read"
  /\ Become(c, IF Usable THEN [call[c] EXCEPT !.phase = "persist", !.fresh = TRUE,
                                 !.tries = @ + 1]
               ELSE Idle)
  /\ UNCHANGED <<due, ReminderRow, History, trouble>>

\* Mutation: every reminder advances the schedule.
AnyKind(c) == TRUE

OfSchedule(c) == c \in Tick

\* The entry is written before the mail is sent; a conflict reads again.
Persist(c) ==
  /\ call[c].phase = "persist"
  /\ IF call[c].fresh
     THEN LET e == serial + 1
              i == 1 + Len(IF OfSchedule(c) THEN scheduled ELSE manual)
          IN  /\ e \in Entry
              /\ IF OfSchedule(c) THEN scheduled' = Append(scheduled, e) /\ UNCHANGED manual
                 ELSE manual' = Append(manual, e) /\ UNCHANGED scheduled
              /\ serial' = e
              /\ WroteAs(c, [Idle EXCEPT !.phase = "deliver", !.index = i, !.entry = e])
     ELSE /\ Become(c, IF call[c].tries < MaxWrites THEN [call[c] EXCEPT !.phase = "read"]
                       ELSE Idle)
          /\ UNCHANGED <<scheduled, manual, serial>>
  /\ UNCHANGED <<due, pending, open, link, mailed, overlapped, wasted, trouble>>

DeliverReminder(c) ==
  /\ call[c].phase = "deliver"
  /\ \/ /\ mailed' = mailed \cup {call[c].entry}
        /\ Become(c, [call[c] EXCEPT !.phase = "emit"])
        /\ UNCHANGED trouble
     \/ /\ Trouble
        /\ Become(c, [call[c] EXCEPT !.phase = "undo"])
        /\ UNCHANGED mailed
  /\ UNCHANGED <<due, ReminderRow, serial, overlapped, wasted>>

Undo(c) ==
  /\ call[c].phase = "undo"
  /\ Become(c, [call[c] EXCEPT !.phase = "restore", !.fresh = TRUE, !.tries = @ + 1])
  /\ UNCHANGED <<due, ReminderRow, History, trouble>>

\* Mutation: the entry stays.
Kept(entries, index) == entries

\* filter((_, i) => i !== index)
Without(entries, index) ==
  IF index > Len(entries) THEN entries
  ELSE SubSeq(entries, 1, index - 1) \o SubSeq(entries, index + 1, Len(entries))

Restore(c) ==
  /\ call[c].phase = "restore"
  /\ IF call[c].fresh
     THEN /\ IF OfSchedule(c)
             THEN scheduled' = Without(scheduled, call[c].index) /\ UNCHANGED manual
             ELSE manual' = Without(manual, call[c].index) /\ UNCHANGED scheduled
          /\ WroteAs(c, Idle)
          /\ UNCHANGED wasted
     ELSE /\ IF call[c].tries < MaxWrites
             THEN Become(c, [call[c] EXCEPT !.phase = "undo"]) /\ UNCHANGED wasted
             ELSE Become(c, Idle) /\ wasted' = TRUE
          /\ UNCHANGED <<scheduled, manual>>
  /\ UNCHANGED <<due, pending, open, link, serial, mailed, overlapped, trouble>>

\* envelope.reminder_sent is appended to the row, or not.
EmitSent(c) ==
  /\ call[c].phase = "emit"
  /\ \/ WroteAs(c, Idle)
     \/ Become(c, Idle)
  /\ UNCHANGED <<due, ReminderRow, History, trouble>>

------------------------------------------------------------------------------
\* Time passes: another reminder of the schedule is due.
Advance ==
  /\ due < Slots
  /\ due' = due + 1
  /\ UNCHANGED <<ReminderRow, call, History, trouble>>

\* The signer signs or declines, or the envelope is voided or expires.
Settle ==
  /\ pending /\ open
  /\ \/ pending' = FALSE /\ UNCHANGED open
     \/ open' = FALSE /\ UNCHANGED pending
  /\ Wrote
  /\ UNCHANGED <<due, link, scheduled, manual, History, trouble>>

\* The event of it erases the link, in a write of its own (eraseStoredLinks).
EraseLink ==
  /\ ~(pending /\ open) /\ link
  /\ link' = FALSE
  /\ Wrote
  /\ UNCHANGED <<due, pending, open, scheduled, manual, History, trouble>>

CrashSending ==
  /\ Trouble
  /\ \E c \in Call : call[c].phase # "idle"
  /\ call' = [c \in Call |-> Idle]
  /\ wasted' = (wasted \/ \E c \in Call : call[c].phase \in {"deliver", "undo", "restore"})
  /\ UNCHANGED <<due, ReminderRow, serial, mailed, overlapped>>

Goes(c) ==
  \/ ReadAfresh(c) \/ Persist(c) \/ DeliverReminder(c) \/ Undo(c) \/ Restore(c) \/ EmitSent(c)

RNext ==
  \/ \E c \in Call : TickRuns(c) \/ ToolRuns(c) \/ Goes(c)
  \/ Advance \/ Settle \/ EraseLink \/ CrashSending

\* The timer keeps firing, and what was begun goes on.
RFairness == \A c \in Call : WF_rvars(TickRuns(c)) /\ WF_rvars(Goes(c))

RSpec == RInit /\ [][RNext]_rvars /\ RFairness

------------------------------------------------------------------------------
(***************************************************************************)
(* Properties.                                                             *)
(***************************************************************************)
InFlight(c) == call[c].phase \in {"deliver", "undo", "restore", "emit"}
Entries == {scheduled[i] : i \in 1..Len(scheduled)} \cup {manual[i] : i \in 1..Len(manual)}

\* However many ticks and tools run at once, a signer gets at most MaxSent mails that
\* were answered, and the row holds at most that many entries; and a reminder of the
\* schedule is not sent before its time, whatever is sent by hand (as long as ticks do
\* not overlap: then two of them send two at once).
NoMoreThanDue ==
  /\ Total <= MaxSent /\ Cardinality(mailed) <= MaxSent
  /\ ~overlapped => Len(scheduled) <= due

\* A mail that failed does not use up its reminder: those due are sent in the end,
\* unless the signer has settled, the envelope ended, the limit is reached, ticks
\* overlapped, or an entry was left behind.
DueAreSent ==
  <>[](\/ ~(pending /\ open) \/ Total >= MaxSent \/ overlapped \/ wasted
       \/ Cardinality({i \in 1..Len(scheduled) : scheduled[i] \in mailed}) >= due)
==============================================================================
