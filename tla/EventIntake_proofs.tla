-------------------------- MODULE EventIntake_proofs --------------------------
(***************************************************************************)
(* Billing: the reducer, then the way of an event from Stripe to the order *)
(* that is reduced, for any events, replicas, requests, deaths, lost       *)
(* answers and late writes.                                                *)
(***************************************************************************)
EXTENDS EventIntake, TLAPS

(***************************************************************************)
(* The reducer.  The argument: an order is determined by the set of events *)
(* it has reduced (IInv), whatever their order and repetitions.  Once there *)
(* is a refund it is refunded; else, once there is a cancellation, it is   *)
(* canceled; else the event with the greatest cursor decides, and cursors  *)
(* are totally ordered because ids are.                                    *)
(***************************************************************************)
\* The billing state of o is the one the events D determine.
Settled(o, D) ==
  \/ o.billingState = "refunded" /\ \E e \in D : e.desired = "refunded"
  \/ /\ o.billingState = "canceled"
     /\ \E e \in D : e.desired = "canceled"
     /\ \A f \in D : f.desired # "refunded"
  \/ \E e \in D :
       /\ o.billingState = e.desired
       /\ o.stateCursor = Cursor(e)
       /\ \A f \in D : f.desired \notin Terminal /\ ~After(Cursor(f), Cursor(e))

\* The latest event of o is the latest one of D.
LatestOf(o, D) ==
  \E e \in D :
    /\ o.latestEventCreatedAt = e.createdAt
    /\ o.latestEventId = e.id
    /\ \A f \in D : \/ f.createdAt < e.createdAt
                    \/ f.createdAt = e.createdAt /\ f.id <= e.id

\* The inductive invariant of one replica.
Determined(o, D) ==
  /\ o.there <=> D # {}
  /\ IF o.there THEN Settled(o, D) /\ LatestOf(o, D) ELSE o = NoOrder
  /\ o.known = UNION {e.knows : e \in D}

IInv == TypeOK /\ \A r \in Replica : Determined(order[r], delivered[r])

------------------------------------------------------------------------------
\* The cursor of an event has the type of a cursor.
LEMMA CursorTyped ==
  ASSUME NEW e \in Event
  PROVE  /\ e \in EventType
         /\ Cursor(e) \in CursorType
         /\ Cursor(e).createdAt = e.createdAt
         /\ Cursor(e).precedence = STATE_PRECEDENCE[e.desired]
         /\ Cursor(e).id = e.id
<1>1. e \in EventType
  BY EventAssumption
<1>2. STATE_PRECEDENCE[e.desired] \in 1..5
  BY <1>1 DEF EventType, BillingState, STATE_PRECEDENCE
<1> QED
  BY <1>1, <1>2 DEF Cursor, CursorType, EventType

\* compareCursor is a strict order on cursors.
LEMMA AfterOrder ==
  ASSUME NEW c \in CursorType, NEW d \in CursorType, NEW b \in CursorType
  PROVE  /\ ~After(c, c)
         /\ ~After(d, c) /\ After(b, c) => After(b, d) 
         /\ ~After(d, c) /\ ~After(c, b) => ~After(d, b)
BY DEF After, CursorType

\* Two events neither of which comes after the other are the same event: the
\* tie is broken by the id.
LEMMA CursorUnique ==
  ASSUME NEW e \in Event, NEW f \in Event,
         ~After(Cursor(e), Cursor(f)), ~After(Cursor(f), Cursor(e))
  PROVE  e = f
<1>1. e.id = f.id
  BY CursorTyped DEF After, CursorType
<1> QED
  BY <1>1, EventAssumption

------------------------------------------------------------------------------
\* The first event of an order determines it.
LEMMA CreatedDetermined ==
  ASSUME NEW e \in Event
  PROVE  Created(e) \in OrderType /\ Determined(Created(e), {e})
<1> DEFINE o == Created(e)
<1>1. /\ o.there = TRUE
      /\ o.billingState = e.desired
      /\ o.stateCursor = Cursor(e)
      /\ o.latestEventCreatedAt = e.createdAt
      /\ o.latestEventId = e.id
      /\ o.known = e.knows
  BY DEF Created
<1>2. o \in OrderType
  BY CursorTyped DEF Created, OrderType, EventType
<1>3. ~After(Cursor(e), Cursor(e))
  BY CursorTyped, AfterOrder
<1>4. Settled(o, {e})
  <2>1. CASE e.desired \notin Terminal
    BY <1>1, <1>3, <2>1 DEF Settled
  <2>2. CASE e.desired \in Terminal
    BY <1>1, <2>2 DEF Settled, Terminal
  <2> QED
    BY <2>1, <2>2
<1>5. LatestOf(o, {e})
  BY <1>1, CursorTyped DEF LatestOf, EventType
<1>6. o.known = UNION {f.knows : f \in {e}}
  BY <1>1
<1> QED
  BY <1>1, <1>2, <1>4, <1>5, <1>6 DEF Determined

\* One more event, new or delivered before, keeps the billing state settled.
LEMMA UpdatedSettled ==
  ASSUME NEW o \in OrderType, NEW D \in SUBSET Event, NEW e \in Event,
         Settled(o, D)
  PROVE  Settled(Updated(o, e), D \cup {e})
<1>1. /\ Updated(o, e).billingState = IF Takes(o, e) THEN e.desired ELSE o.billingState
      /\ Updated(o, e).stateCursor = IF Takes(o, e) THEN Cursor(e) ELSE o.stateCursor
  BY DEF Updated
<1>2. e.desired \in BillingState /\ \A f \in D : f.desired \in BillingState
  BY CursorTyped DEF EventType
<1>3. CASE o.billingState = "refunded"
  <2>1. PICK f \in D : f.desired = "refunded"
    BY <1>3, <1>2 DEF Settled, Terminal
  <2>2. ~Takes(o, e)
    BY <1>3 DEF Takes, Terminal
  <2> QED
    BY <1>1, <1>3, <2>1, <2>2 DEF Settled
<1>4. CASE o.billingState # "refunded" /\ e.desired = "refunded"
  BY <1>1, <1>4 DEF Settled, Takes
<1>5. CASE o.billingState = "canceled" /\ e.desired # "refunded"
  <2>1. PICK f \in D : f.desired = "canceled"
    BY <1>5 DEF Settled, Terminal
  <2>2. \A g \in D : g.desired # "refunded"
    BY <1>5 DEF Settled, Terminal
  <2>3. ~Takes(o, e)
    BY <1>5 DEF Takes, Terminal
  <2> QED
    BY <1>1, <1>5, <2>1, <2>2, <2>3 DEF Settled
<1>6. CASE o.billingState \notin Terminal
  <2>1. PICK m \in D : /\ o.billingState = m.desired
                       /\ o.stateCursor = Cursor(m)
                       /\ \A f \in D : f.desired \notin Terminal /\ ~After(Cursor(f), Cursor(m))
    BY <1>6 DEF Settled, Terminal
  <2>2. CASE e.desired = "canceled"
    BY <1>1, <1>6, <2>1, <2>2 DEF Settled, Takes, Terminal
  <2>3. CASE e.desired \notin Terminal /\ After(Cursor(e), Cursor(m))
    <3>1. Takes(o, e)
      BY <1>6, <2>1, <2>3 DEF Takes
    <3>2. \A f \in D : ~After(Cursor(f), Cursor(e))
      <4> TAKE f \in D
      <4>1. Cursor(f) \in CursorType /\ Cursor(e) \in CursorType /\ Cursor(m) \in CursorType
        BY CursorTyped
      <4>2. ~After(Cursor(f), Cursor(m))
        BY <2>1
      <4>3. After(Cursor(e), Cursor(f))
        BY <2>3, <4>1, <4>2, AfterOrder
      <4> QED
        BY <4>1, <4>3 DEF After, CursorType
    <3>3. ~After(Cursor(e), Cursor(e))
      BY CursorTyped, AfterOrder
    <3> QED
      BY <1>1, <2>1, <2>3, <3>1, <3>2, <3>3 DEF Settled
  <2>4. CASE e.desired \notin Terminal /\ ~After(Cursor(e), Cursor(m))
    <3>1. ~Takes(o, e)
      BY <2>1, <2>4 DEF Takes, Terminal
    <3> QED
      BY <1>1, <2>1, <2>4, <3>1 DEF Settled
  <2>5. CASE e.desired = "refunded"
    BY <1>4, <1>6, <2>5 DEF Terminal
  <2> QED
    BY <2>2, <2>3, <2>4, <2>5 DEF Terminal
<1>7. o.billingState = "refunded" \/ o.billingState = "canceled" \/ o.billingState \notin Terminal
  BY DEF Terminal
<1> QED
  BY <1>3, <1>4, <1>5, <1>6, <1>7

\* One more event keeps the latest event the latest.
LEMMA UpdatedLatest ==
  ASSUME NEW o \in OrderType, NEW D \in SUBSET Event, NEW e \in Event,
         LatestOf(o, D)
  PROVE  LatestOf(Updated(o, e), D \cup {e})
<1>1. PICK m \in D : /\ o.latestEventCreatedAt = m.createdAt
                     /\ o.latestEventId = m.id
                     /\ \A f \in D : \/ f.createdAt < m.createdAt
                                     \/ f.createdAt = m.createdAt /\ f.id <= m.id
  BY DEF LatestOf
<1>2. \A f \in Event : f.createdAt \in Nat /\ f.id \in Nat
  BY CursorTyped DEF EventType
<1>3. m \in Event
  OBVIOUS
<1>4. CASE IsLatest(o, e)
  <2>1. Updated(o, e).latestEventCreatedAt = e.createdAt /\ Updated(o, e).latestEventId = e.id
    BY <1>4 DEF Updated
  <2>2. e.createdAt > m.createdAt \/ (e.createdAt = m.createdAt /\ e.id > m.id)
    BY <1>1, <1>4 DEF IsLatest
  <2>3. \A f \in D \cup {e} : f.createdAt < e.createdAt \/ (f.createdAt = e.createdAt /\ f.id <= e.id)
    BY <1>1, <1>2, <1>3, <2>2
  <2> QED
    BY <2>1, <2>3 DEF LatestOf
<1>5. CASE ~IsLatest(o, e)
  <2>1. Updated(o, e).latestEventCreatedAt = m.createdAt /\ Updated(o, e).latestEventId = m.id
    BY <1>1, <1>5 DEF Updated
  <2>2. e.createdAt < m.createdAt \/ (e.createdAt = m.createdAt /\ e.id <= m.id)
    BY <1>1, <1>2, <1>3, <1>5 DEF IsLatest
  <2> QED
    BY <1>1, <2>1, <2>2 DEF LatestOf
<1> QED
  BY <1>4, <1>5

\* Every delivery keeps the order typed and determined by what was delivered.
LEMMA ReduceDetermined ==
  ASSUME NEW o \in OrderType, NEW D \in SUBSET Event, NEW e \in Event,
         Determined(o, D)
  PROVE  /\ reduceBillingEvent(o, e) \in OrderType
         /\ Determined(reduceBillingEvent(o, e), D \cup {e})
<1>1. CASE ~o.there
  <2>1. D \cup {e} = {e}
    BY <1>1 DEF Determined
  <2> QED
    BY <1>1, <2>1, CreatedDetermined DEF reduceBillingEvent
<1>2. CASE o.there
  <2>1. reduceBillingEvent(o, e) = Updated(o, e)
    BY <1>2 DEF reduceBillingEvent
  <2>2. Updated(o, e) \in OrderType
    BY CursorTyped DEF Updated, MergedPlan, OrderType, EventType
  <2>3. Settled(Updated(o, e), D \cup {e}) /\ LatestOf(Updated(o, e), D \cup {e})
    BY <1>2, UpdatedSettled, UpdatedLatest DEF Determined
  <2>4. Updated(o, e).there = TRUE /\ Updated(o, e).known = o.known \cup e.knows
    BY DEF Updated
  <2>5. o.known \cup e.knows = UNION {f.knows : f \in D \cup {e}}
    BY DEF Determined
  <2> QED
    BY <2>1, <2>2, <2>3, <2>4, <2>5 DEF Determined
<1> QED
  BY <1>1, <1>2

------------------------------------------------------------------------------
LEMMA Initially == Init => IInv
<1> SUFFICES ASSUME Init PROVE IInv
  OBVIOUS
<1>1. NoOrder \in OrderType
  BY DEF NoOrder, OrderType, BillingState, CursorType
<1>2. Determined(NoOrder, {})
  BY DEF NoOrder, Determined
<1> QED
  BY <1>1, <1>2 DEF Init, IInv, TypeOK

LEMMA Inductive == IInv /\ [Next]_vars => IInv'
<1> SUFFICES ASSUME IInv, [Next]_vars PROVE IInv'
  OBVIOUS
<1>1. ASSUME NEW r \in Replica, NEW e \in Event, Deliver(r, e) PROVE IInv'
  <2>1. order[r] \in OrderType /\ delivered[r] \in SUBSET Event /\ Determined(order[r], delivered[r])
    BY DEF IInv, TypeOK
  <2>2. PICK n \in OrderType : /\ n = reduceBillingEvent(order[r], e)
                               /\ Determined(n, delivered[r] \cup {e})
    BY <2>1, ReduceDetermined
  <2>3. order' = [order EXCEPT ![r] = n] /\ delivered' = [delivered EXCEPT ![r] = delivered[r] \cup {e}]
    BY <1>1, <2>2 DEF Deliver
  <2>4. TypeOK'
    BY <2>1, <2>2, <2>3 DEF IInv, TypeOK
  <2>5. ASSUME NEW q \in Replica PROVE Determined(order'[q], delivered'[q])
    <3>1. CASE q = r
      <4>1. order'[q] = n /\ delivered'[q] = delivered[r] \cup {e}
        BY <2>3, <3>1 DEF IInv, TypeOK
      <4> QED
        BY <2>2, <4>1
    <3>2. CASE q # r
      <4>1. order'[q] = order[q] /\ delivered'[q] = delivered[q]
        BY <2>3, <3>2 DEF IInv, TypeOK
      <4> QED
        BY <4>1 DEF IInv
    <3> QED
      BY <3>1, <3>2
  <2>6. (\A q \in Replica : Determined(order[q], delivered[q]))'
    BY <2>5
  <2> QED
    BY <2>4, <2>6 DEF IInv
<1>2. CASE UNCHANGED vars
  BY <1>2 DEF IInv, TypeOK, vars
<1> QED
  BY <1>1, <1>2 DEF Next

\* The settled billing state depends on the events only.
LEMMA SettledUnique ==
  ASSUME NEW o, NEW p, NEW D \in SUBSET Event, Settled(o, D), Settled(p, D)
  PROVE  o.billingState = p.billingState
<1>1. CASE \E e \in D : e.desired \in Terminal
  BY <1>1 DEF Settled, Terminal
<1>2. CASE \A e \in D : e.desired \notin Terminal
  <2>1. PICK e \in D : /\ o.billingState = e.desired
                       /\ \A f \in D : ~After(Cursor(f), Cursor(e))
    BY <1>2 DEF Settled, Terminal
  <2>2. PICK g \in D : /\ p.billingState = g.desired
                       /\ \A f \in D : ~After(Cursor(f), Cursor(g))
    BY <1>2 DEF Settled, Terminal
  <2>3. e = g
    BY <2>1, <2>2, CursorUnique
  <2> QED
    BY <2>1, <2>2, <2>3
<1> QED
  BY <1>1, <1>2

\* So does the latest event.
LEMMA LatestUnique ==
  ASSUME NEW o, NEW p, NEW D \in SUBSET Event, LatestOf(o, D), LatestOf(p, D)
  PROVE  /\ o.latestEventCreatedAt = p.latestEventCreatedAt
         /\ o.latestEventId = p.latestEventId
<1>1. \A f \in D : f.createdAt \in Nat /\ f.id \in Nat
  BY CursorTyped DEF EventType
<1> QED
  BY <1>1 DEF LatestOf

\* Replicas that reduced the same events agree.
LEMMA Agreement == IInv => BillingConverges
<1> SUFFICES ASSUME IInv, NEW q \in Replica, NEW r \in Replica, delivered[q] = delivered[r]
             PROVE  /\ order[q].billingState = order[r].billingState
                    /\ order[q].latestEventCreatedAt = order[r].latestEventCreatedAt
                    /\ order[q].latestEventId = order[r].latestEventId
                    /\ order[q].known = order[r].known
  BY DEF BillingConverges, Same
<1>1. PICK D \in SUBSET Event : D = delivered[q] /\ D = delivered[r]
  BY DEF IInv, TypeOK
<1>2. PICK o \in OrderType : o = order[q]
  BY DEF IInv, TypeOK
<1>3. PICK p \in OrderType : p = order[r]
  BY DEF IInv, TypeOK
<1>4. Determined(o, D) /\ Determined(p, D)
  BY <1>1, <1>2, <1>3 DEF IInv
<1>5. CASE D = {}
  BY <1>2, <1>3, <1>4, <1>5 DEF Determined
<1>6. CASE D # {}
  <2>1. Settled(o, D) /\ LatestOf(o, D) /\ Settled(p, D) /\ LatestOf(p, D) /\ o.known = p.known
    BY <1>4, <1>6 DEF Determined
  <2>2. o.billingState = p.billingState
    BY <2>1, SettledUnique
  <2>3. o.latestEventCreatedAt = p.latestEventCreatedAt /\ o.latestEventId = p.latestEventId
    BY <2>1, LatestUnique
  <2> QED
    BY <1>2, <1>3, <2>1, <2>2, <2>3
<1> QED
  BY <1>5, <1>6

\* A terminal order takes no event that would resurrect it.
LEMMA StaysTerminal ==
  ASSUME IInv, [Next]_vars, NEW r \in Replica
  PROVE  /\ order[r].billingState = "refunded" => order'[r].billingState = "refunded"
         /\ order[r].billingState = "canceled" => order'[r].billingState \in Terminal
<1>1. ASSUME NEW e \in Event, Deliver(r, e)
      PROVE  /\ order[r].billingState = "refunded" => order'[r].billingState = "refunded"
             /\ order[r].billingState = "canceled" => order'[r].billingState \in Terminal
  <2>1. order'[r] = reduceBillingEvent(order[r], e)
    BY <1>1 DEF Deliver, IInv, TypeOK
  <2>2. CASE order[r].there
    BY <2>1, <2>2 DEF reduceBillingEvent, Updated, Takes, Terminal
  <2>3. CASE ~order[r].there
    <3>1. order[r] = NoOrder
      BY <2>3 DEF IInv, Determined
    <3> QED
      BY <3>1 DEF NoOrder
  <2> QED
    BY <2>2, <2>3
<1>2. ASSUME NEW q \in Replica, NEW e \in Event, Deliver(q, e), q # r
      PROVE  order'[r] = order[r]
  BY <1>2 DEF Deliver, IInv, TypeOK
<1>3. CASE UNCHANGED vars
  BY <1>3 DEF vars, Terminal
<1> QED
  BY <1>1, <1>2, <1>3 DEF Next, Terminal

------------------------------------------------------------------------------
\* Every order is a typed record, and so is the history.
THEOREM TypeCorrect == Spec => []TypeOK
BY Initially, Inductive, PTL DEF Spec, IInv

\* Delivery permutations converge for everything but the plan: the reducer's
\* billing state, latest event and facts are functions of the delivered set.
THEOREM Converges == Spec => []BillingConverges
BY Initially, Inductive, Agreement, PTL DEF Spec

\* No event resurrects a canceled or refunded subscription.
THEOREM Final == Spec => NeverResurrected
<1> DEFINE Stays == \A r \in Replica :
       /\ order[r].billingState = "refunded" => order'[r].billingState = "refunded"
       /\ order[r].billingState = "canceled" => order'[r].billingState \in Terminal
<1>1. IInv /\ [Next]_vars => [Stays]_vars
  BY StaysTerminal
<1>2. Spec => [][Stays]_vars
  BY Initially, Inductive, <1>1, PTL DEF Spec
<1> QED
  BY <1>2 DEF NeverResurrected

------------------------------------------------------------------------------
(***************************************************************************)
(* The intake.  Two arguments.  The order row is written under its version *)
(* only, so every write reduces one event into the order as it is (Put):   *)
(* the row implements the reducer, and what is shown of the reducer above  *)
(* holds of the row.  And whoever answers 2xx to an event has seen it      *)
(* enqueued, or remembered by the queue, which forgets an id only when no  *)
(* request can rely on it (Kept).                                          *)
(***************************************************************************)
CallPhase == {"idle", "verifying", "claiming", "looking", "taking", "enqueuing", "marking"}

Worker == [event: Event \cup {NoEvent}, phase: {"idle", "reading", "writing"}, read: Row,
           tries: Nat]

\* The worker works on the first message of the group.
Backlog ==
  /\ queue \in Seq(Accepted)
  /\ worker \in Worker
  /\ worker.phase # "idle" => queue # <<>> /\ worker.event = Head(queue)

\* What the claim of an event says of the event and of its requests.
Claims ==
  /\ \A e \in Event : /\ ledger[e].status \in {"pending", "enqueued"} => e \in Accepted
                      /\ ledger[e].status = "ignored" => e \in Ignored
  /\ \A c \in Request : /\ call[c] \in {"taking", "enqueuing", "marking"} => c[1] \in Accepted
                        /\ call[c] = "looking" => ledger[c[1]].status # "absent"

Queued(q, e) == \E i \in 1..Len(q) : q[i] = e

\* The event is reduced, set aside, or still to be delivered to the worker.
Handled(e) == e \in reduced \/ e \in dead \/ Queued(queue, e)

\* Who relies on the event being in the queue or beyond.
Kept ==
  /\ \A e \in Event : e \in recent \/ ledger[e].status = "enqueued" => Handled(e)
  /\ \A c \in Request : call[c] = "marking" => Handled(c[1])
  /\ \A e \in acked : ledger[e].status \in {"enqueued", "ignored"}

Intake == /\ ITypeOK /\ Backlog /\ Claims /\ Kept
          /\ Determined(row.order, reduced)

------------------------------------------------------------------------------
(***************************************************************************)
(* Queues.                                                                 *)
(***************************************************************************)
LEMMA QueuedAppend ==
  ASSUME NEW q \in Seq(Accepted), NEW x \in Accepted
  PROVE  /\ Append(q, x) \in Seq(Accepted)
         /\ q # <<>> => Append(q, x) # <<>> /\ Head(Append(q, x)) = Head(q)
         /\ \A e : Queued(q, e) \/ e = x => Queued(Append(q, x), e)
<1>1. /\ Append(q, x) \in Seq(Accepted) /\ Len(Append(q, x)) = Len(q) + 1 /\ Len(q) \in Nat
      /\ \A i \in 1..Len(q) : Append(q, x)[i] = q[i]
      /\ Append(q, x)[Len(q) + 1] = x
  OBVIOUS
<1>2. q # <<>> => Append(q, x) # <<>> /\ Head(Append(q, x)) = Head(q)
  OBVIOUS
<1>3. ASSUME NEW e, Queued(q, e) \/ e = x PROVE Queued(Append(q, x), e)
  <2>1. CASE e = x
    BY <1>1, <2>1 DEF Queued
  <2>2. CASE Queued(q, e)
    <3>1. PICK i \in 1..Len(q) : q[i] = e
      BY <2>2 DEF Queued
    <3> QED
      BY <1>1, <3>1 DEF Queued
  <2> QED
    BY <1>3, <2>1, <2>2
<1> QED
  BY <1>1, <1>2, <1>3

LEMMA QueuedTail ==
  ASSUME NEW q \in Seq(Accepted), q # <<>>
  PROVE  /\ Tail(q) \in Seq(Accepted) /\ Head(q) \in Accepted
         /\ \A e : Queued(q, e) => e = Head(q) \/ Queued(Tail(q), e)
<1>1. /\ Tail(q) \in Seq(Accepted) /\ Len(Tail(q)) = Len(q) - 1 /\ Len(q) \in Nat /\ Len(q) > 0
      /\ \A i \in 1..Len(Tail(q)) : Tail(q)[i] = q[i + 1]
      /\ Head(q) = q[1] /\ Head(q) \in Accepted
  OBVIOUS
<1>2. ASSUME NEW e, Queued(q, e), e # Head(q) PROVE Queued(Tail(q), e)
  <2>1. PICK i \in 1..Len(q) : q[i] = e
    BY <1>2 DEF Queued
  <2>2. i - 1 \in 1..Len(Tail(q)) /\ (i - 1) + 1 = i
    BY <1>1, <1>2, <2>1
  <2> QED
    BY <1>1, <2>1, <2>2 DEF Queued
<1> QED
  BY <1>1, <1>2

------------------------------------------------------------------------------
(***************************************************************************)
(* The write of the order.                                                 *)
(***************************************************************************)
LEMMA AcceptedEvents == Accepted \subseteq Event
  BY DEF Accepted

\* The reducer seen through the instance is the reducer.
LEMMA SameReducer ==
  ASSUME NEW o, NEW e
  PROVE  Reducer!reduceBillingEvent(o, e) = reduceBillingEvent(o, e)
BY DEF Reducer!reduceBillingEvent, Reducer!Updated, Reducer!Created, Reducer!MergedPlan,
   Reducer!MayReplacePlan, Reducer!IsLatest, Reducer!Takes, Reducer!After, Reducer!Cursor,
   Reducer!STATE_PRECEDENCE, Reducer!Terminal,
   reduceBillingEvent, Updated, Created, MergedPlan, MayReplacePlan, IsLatest, Takes, After,
   Cursor, STATE_PRECEDENCE, Terminal

\* A conditional write either reduces the event into the stored order, or does
\* nothing.
LEMMA PutStep ==
  ASSUME NEW e \in Accepted, NEW read \in Row, Put(e, read),
         row \in Row, reduced \subseteq Accepted, Determined(row.order, reduced)
  PROVE  /\ row' \in Row /\ reduced' \subseteq Accepted /\ reduced \subseteq reduced'
         /\ Determined(row'.order, reduced')
         /\ row' # row => /\ row'.order = reduceBillingEvent(row.order, e)
                          /\ reduced' = reduced \cup {e}
         /\ row' = row => reduced' = reduced
<1>1. CASE row = read
  <2>1. row'.order = reduceBillingEvent(row.order, e) /\ row'.version = row.version + 1
        /\ reduced' = reduced \cup {e}
        /\ row' = [order |-> reduceBillingEvent(row.order, e), version |-> row.version + 1]
    BY <1>1 DEF Put
  <2>2. row.order \in OrderType /\ row.version \in Nat /\ reduced \in SUBSET Event /\ e \in Event
    BY AcceptedEvents DEF Row
  <2>3. row'.order \in OrderType /\ Determined(row'.order, reduced')
    BY <2>1, <2>2, ReduceDetermined
  <2>4. row' \in Row
    BY <2>1, <2>2, <2>3 DEF Row
  <2>5. row' # row
    BY <2>1, <2>2
  <2> QED
    BY <2>1, <2>3, <2>4, <2>5
<1>2. CASE row # read
  BY <1>2 DEF Put
<1> QED
  BY <1>1, <1>2

------------------------------------------------------------------------------
(***************************************************************************)
(* The webhook.                                                            *)
(***************************************************************************)
\* A request is one of an event.
LEMMA RequestOf ==
  ASSUME NEW r \in Request
  PROVE  /\ r = <<r[1], r[2]>> /\ r[1] \in Event /\ r[2] \in Nat
         /\ <<r[1], r[2]>> \in Request
BY IgnoredAssumption

LEMMA GotoCall ==
  ASSUME ITypeOK, NEW e \in Event, NEW s \in Nat, <<e, s>> \in Request,
         NEW phase \in CallPhase, Goto(e, s, phase)
  PROVE  /\ call' \in [Request -> CallPhase]
         /\ \A c \in Request : call'[c] = IF c = <<e, s>> THEN phase ELSE call[c]
BY DEF ITypeOK, Goto, CallPhase

\* A step of a request that touches neither queue nor table.  It may move the
\* claim of its event, never back to absent nor away from enqueued or ignored.
LEMMA RequestStep ==
  ASSUME Intake, NEW e \in Event, NEW s \in Nat, <<e, s>> \in Request,
         NEW phase \in CallPhase, Goto(e, s, phase),
         NEW claim \in Claim, ledger' = [ledger EXCEPT ![e] = claim],
         acked' \in {acked, acked \cup {e}},
         UNCHANGED <<scene, backlog, table, worker>>, secret' = secret,
         faults' \in 0..MaxFaults,
         ledger[e].status \in {"enqueued", "ignored"} => claim.status = ledger[e].status,
         ledger[e].status # "absent" => claim.status # "absent",
         claim.status = "pending" => e \in Accepted,
         claim.status = "enqueued" => e \in Accepted /\ Handled(e),
         claim.status = "ignored" => e \in Ignored,
         e \in acked' => claim.status \in {"enqueued", "ignored"},
         phase \in {"taking", "enqueuing"} => e \in Accepted,
         phase = "looking" => claim.status # "absent",
         phase # "marking"
  PROVE  Intake'
<1> USE DEF Intake
<1>1. /\ call' \in [Request -> CallPhase]
      /\ \A c \in Request : call'[c] = IF c = <<e, s>> THEN phase ELSE call[c]
  BY GotoCall
<1>2. /\ ledger' \in [Event -> Claim]
      /\ \A f \in Event : ledger'[f] = IF f = e THEN claim ELSE ledger[f]
  BY DEF ITypeOK
<1>3. ITypeOK'
  BY <1>1, <1>2 DEF ITypeOK, CallPhase, backlog, table
<1>4. Backlog'
  BY DEF Backlog, backlog
<1>5. Claims'
  <2>1. \A f \in Event : /\ ledger'[f].status \in {"pending", "enqueued"} => f \in Accepted
                         /\ ledger'[f].status = "ignored" => f \in Ignored
    BY <1>2 DEF Claims
  <2>2. ASSUME NEW c \in Request
        PROVE  /\ call'[c] \in {"taking", "enqueuing", "marking"} => c[1] \in Accepted
               /\ call'[c] = "looking" => ledger'[c[1]].status # "absent"
    <3>1. c[1] \in Event
      BY RequestOf
    <3>2. CASE c = <<e, s>>
      BY <1>1, <1>2, <3>2
    <3>3. CASE c # <<e, s>>
      BY <1>1, <1>2, <3>1, <3>3 DEF Claims
    <3> QED
      BY <3>2, <3>3
  <2> QED
    BY <2>1, <2>2 DEF Claims
<1>6. \A f : Handled(f)' <=> Handled(f)
  BY DEF Handled, Queued, backlog, table
<1>7. Kept'
  <2>1. \A f \in Event : f \in recent' \/ ledger'[f].status = "enqueued" => Handled(f)
    BY <1>2 DEF Kept, backlog
  <2>2. \A c \in Request : call'[c] = "marking" => Handled(c[1])
    BY <1>1 DEF Kept
  <2>3. \A f \in acked' : ledger'[f].status \in {"enqueued", "ignored"}
    <3> TAKE f \in acked'
    <3>1. f \in Event
      BY DEF ITypeOK
    <3>2. CASE f = e
      BY <1>2, <3>2
    <3>3. CASE f # e
      BY <1>2, <3>1, <3>3 DEF Kept
    <3> QED
      BY <3>2, <3>3
  <2> QED
    BY <1>6, <2>1, <2>2, <2>3 DEF Kept
<1>8. Determined(row.order, reduced)'
  BY DEF table
<1> QED
  BY <1>3, <1>4, <1>5, <1>7, <1>8

\* Most steps of a request leave the claim as it is.
LEMMA LookingStep ==
  ASSUME Intake, NEW e \in Event, NEW s \in Nat, <<e, s>> \in Request,
         NEW phase \in CallPhase \ {"marking"}, Goto(e, s, phase),
         UNCHANGED <<scene, ledger, backlog, table, secret, worker>>,
         \/ UNCHANGED acked
         \/ acked' = acked \cup {e} /\ ledger[e].status \in {"enqueued", "ignored"},
         faults' \in 0..MaxFaults,
         phase \in {"taking", "enqueuing"} => e \in Accepted,
         phase = "looking" => ledger[e].status # "absent"
  PROVE  Intake'
<1> DEFINE claim == ledger[e]
<1>1. claim \in Claim /\ ledger' = [ledger EXCEPT ![e] = claim]
  BY DEF Intake, ITypeOK
<1>2. /\ e \in acked' => claim.status \in {"enqueued", "ignored"}
      /\ claim.status = "enqueued" => Handled(e)
      /\ claim.status \in {"pending", "enqueued"} => e \in Accepted
      /\ claim.status = "ignored" => e \in Ignored
  BY DEF Intake, Kept, Claims
<1>3. acked' \in {acked, acked \cup {e}}
  OBVIOUS
<1>4. phase = "looking" => claim.status # "absent"
  OBVIOUS
<1> HIDE DEF claim
<1>5. /\ ledger[e].status \in {"enqueued", "ignored"} => claim.status = ledger[e].status
      /\ ledger[e].status # "absent" => claim.status # "absent"
  BY DEF claim
<1> QED
  BY <1>1, <1>2, <1>3, <1>4, <1>5, RequestStep

LEMMA WebhookStep ==
  ASSUME Intake, NEW e \in Event, NEW s \in Nat, <<e, s>> \in Request,
         Send(e, s) \/ Verify(e, s) \/ ClaimEvent(e, s) \/ Look(e, s) \/ TakeOver(e, s)
           \/ MarkEnqueued(e, s) \/ StepFails(e, s)
  PROVE  Intake'
<1>1. {"idle", "verifying", "claiming", "looking", "taking", "enqueuing"} \subseteq CallPhase \ {"marking"}
  BY DEF CallPhase
<1>2. faults' \in 0..MaxFaults
  BY BoundsAssumption DEF Intake, ITypeOK, Send, Verify, ClaimEvent, Look, TakeOver,
     MarkEnqueued, StepFails, Fault
<1>3. CASE Send(e, s)
  BY <1>1, <1>2, <1>3, LookingStep DEF Send
<1>4. CASE Verify(e, s)
  BY <1>1, <1>2, <1>4, LookingStep DEF Verify, Proceed, Refuse
<1>5. CASE StepFails(e, s)
  BY <1>1, <1>2, <1>5, LookingStep DEF StepFails, Refuse
<1>6. CASE Look(e, s)
  <2>1. UNCHANGED <<scene, ledger, backlog, table, secret, worker>>
    BY <1>6 DEF Look
  <2>2. ledger[e].status # "absent" /\ ledger[e].status \in {"absent", "pending", "enqueued", "ignored"}
    <3>1. call[<<e, s>>] = "looking" /\ <<e, s>>[1] = e
      BY <1>6 DEF Look
    <3> QED
      BY <3>1 DEF Intake, Claims, ITypeOK, Claim
  <2>3. CASE ledger[e].status \in {"enqueued", "ignored"}
    BY <1>1, <1>2, <1>6, <2>1, <2>3, LookingStep DEF Look, Accept
  <2>4. CASE ledger[e].status = "pending" /\ ledger[e].leased
    BY <1>1, <1>2, <1>6, <2>1, <2>4, LookingStep DEF Look, Refuse
  <2>5. CASE ledger[e].status = "pending" /\ ~ledger[e].leased
    <3>1. e \in Accepted
      BY <2>5 DEF Intake, Claims
    <3> QED
      BY <1>1, <1>2, <1>6, <2>1, <2>5, <3>1, LookingStep DEF Look, Proceed
  <2> QED
    BY <2>2, <2>3, <2>4, <2>5
<1>7. CASE ClaimEvent(e, s)
  <2>1. UNCHANGED <<scene, backlog, table, secret, worker>>
    BY <1>7 DEF ClaimEvent
  <2>2. CASE /\ ledger[e].status # "absent" /\ UNCHANGED ledger
             /\ Proceed(e, s, "looking")
    BY <1>1, <1>2, <2>1, <2>2, LookingStep DEF Proceed
  <2>3. CASE /\ ledger[e].status = "absent" /\ e \in Ignored
             /\ ledger' = [ledger EXCEPT ![e].status = "ignored"]
             /\ Accept(e, s)
    <3> DEFINE claim == [ledger[e] EXCEPT !.status = "ignored"]
    <3>1. claim \in Claim /\ claim.status = "ignored"
      BY DEF Intake, ITypeOK, Claim
    <3>2. ledger' = [ledger EXCEPT ![e] = claim]
      BY <2>3
    <3> HIDE DEF claim
    <3> QED
      BY <1>1, <1>2, <2>1, <2>3, <3>1, <3>2, RequestStep DEF Accept
  <2>4. CASE /\ ledger[e].status = "absent" /\ e \notin Ignored
             /\ ledger' = [ledger EXCEPT ![e] = [status |-> "pending", owner |-> s, leased |-> TRUE]]
             /\ Proceed(e, s, "enqueuing")
    <3> DEFINE claim == [status |-> "pending", owner |-> s, leased |-> TRUE]
    <3>1. claim \in Claim /\ claim.status = "pending"
      BY DEF Claim
    <3>2. ledger' = [ledger EXCEPT ![e] = claim]
      BY <2>4
    <3>3. e \in Accepted /\ e \notin acked
      BY <2>4 DEF Accepted, Intake, Kept
    <3> HIDE DEF claim
    <3> QED
      BY <1>1, <1>2, <2>1, <2>4, <3>1, <3>2, <3>3, RequestStep DEF Proceed
  <2> QED
    BY <1>7, <2>2, <2>3, <2>4 DEF ClaimEvent
<1>8. CASE TakeOver(e, s)
  <2>1. UNCHANGED <<scene, backlog, table, secret, worker>>
    BY <1>8 DEF TakeOver
  <2>2. CASE Refuse(e, s) /\ UNCHANGED ledger
    BY <1>1, <1>2, <2>1, <2>2, LookingStep DEF Refuse
  <2>3. CASE /\ ledger[e].status = "pending"
             /\ ledger' = [ledger EXCEPT ![e].owner = s, ![e].leased = TRUE]
             /\ Proceed(e, s, "enqueuing")
    <3> DEFINE claim == [ledger[e] EXCEPT !.owner = s, !.leased = TRUE]
    <3>1. claim \in Claim /\ claim.status = "pending"
      <4>1. ledger[e] \in Claim
        BY DEF Intake, ITypeOK
      <4> QED
        BY <2>3, <4>1 DEF Claim
    <3>2. ledger' = [ledger EXCEPT ![e] = claim]
      BY <2>3 DEF Intake, ITypeOK
    <3>3. e \in Accepted /\ e \notin acked
      BY <2>3 DEF Intake, Kept, Claims
    <3> HIDE DEF claim
    <3> QED
      BY <1>1, <1>2, <2>1, <2>3, <3>1, <3>2, <3>3, RequestStep DEF Proceed
  <2> QED
    BY <1>8, <2>2, <2>3 DEF TakeOver
<1>9. CASE MarkEnqueued(e, s)
  <2>1. UNCHANGED <<scene, backlog, table, secret, worker>> /\ call[<<e, s>>] = "marking"
    BY <1>9 DEF MarkEnqueued
  <2>2. CASE Refuse(e, s) /\ UNCHANGED ledger
    BY <1>1, <1>2, <2>1, <2>2, LookingStep DEF Refuse
  <2>3. CASE /\ ledger[e].status = "pending"
             /\ ledger' = [ledger EXCEPT ![e] = [status |-> "enqueued", owner |-> NoOwner,
                                                 leased |-> FALSE]]
             /\ Accept(e, s)
    <3> DEFINE claim == [status |-> "enqueued", owner |-> NoOwner, leased |-> FALSE]
    <3>1. claim \in Claim /\ claim.status = "enqueued"
      BY DEF Claim, NoOwner
    <3>2. ledger' = [ledger EXCEPT ![e] = claim]
      BY <2>3
    <3>3. e \in Accepted /\ Handled(e)
      <4>1. <<e, s>>[1] = e
        OBVIOUS
      <4> QED
        BY <2>1, <4>1 DEF Intake, Claims, Kept
    <3> HIDE DEF claim
    <3> QED
      BY <1>1, <1>2, <2>1, <2>3, <3>1, <3>2, <3>3, RequestStep, ZenonT(60) DEF Accept
  <2> QED
    BY <1>9, <2>2, <2>3 DEF MarkEnqueued
<1> QED
  BY <1>3, <1>4, <1>5, <1>6, <1>7, <1>8, <1>9

\* SendMessage: an id the queue remembers stands for a message that was sent.
LEMMA EnqueueStep ==
  ASSUME Intake, NEW e \in Event, NEW s \in Nat, <<e, s>> \in Request, Enqueue(e, s)
  PROVE  Intake'
<1> USE DEF Intake
<1>1. /\ call[<<e, s>>] = "enqueuing"
      /\ queue' = IF e \in recent THEN queue ELSE Append(queue, e)
      /\ recent' = recent \cup {e} /\ Goto(e, s, "marking")
      /\ UNCHANGED <<scene, ledger, receives, dead, row, reduced, late, secret, worker, faults,
                     acked>>
  BY DEF Enqueue, Proceed, table
<1>2. "marking" \in CallPhase
  BY DEF CallPhase
<1>3. /\ call' \in [Request -> CallPhase]
      /\ \A c \in Request : call'[c] = IF c = <<e, s>> THEN "marking" ELSE call[c]
  BY <1>1, <1>2, GotoCall
<1>4. e \in Accepted
  <2>1. <<e, s>>[1] = e
    OBVIOUS
  <2> QED
    BY <1>1, <2>1 DEF Claims
<1>5. /\ queue' \in Seq(Accepted)
      /\ queue # <<>> => queue' # <<>> /\ Head(queue') = Head(queue)
      /\ \A f : Queued(queue, f) => Queued(queue', f)
      /\ e \notin recent => Queued(queue', e)
  BY <1>1, <1>4, QueuedAppend DEF Backlog
<1>6. /\ \A f : Handled(f) => Handled(f)'
      /\ Handled(e)'
  BY <1>1, <1>5 DEF Handled, Kept
<1>7. ITypeOK'
  <2>1. \A i \in 1..Len(queue') : queue'[i] \in Accepted
    BY <1>5
  <2> QED
    BY <1>1, <1>3, <1>4, <2>1 DEF ITypeOK, CallPhase
<1>8. Backlog'
  BY <1>1, <1>5 DEF Backlog
<1>9. Claims'
  BY <1>1, <1>3, <1>4 DEF Claims
<1>10. Kept'
  BY <1>1, <1>3, <1>6 DEF Kept
<1>11. Determined(row.order, reduced)'
  BY <1>1
<1> QED
  BY <1>7, <1>8, <1>9, <1>10, <1>11

\* Leases expire, ids are forgotten, the secret is rotated.
LEMMA TimeStep ==
  ASSUME Intake, (\E e \in Event : LeaseExpires(e) \/ Forget(e)) \/ Rotate
  PROVE  Intake'
<1> USE DEF Intake
<1>1. ASSUME NEW e \in Event, LeaseExpires(e) PROVE Intake'
  <2>1. /\ ledger' = [ledger EXCEPT ![e].leased = FALSE]
        /\ UNCHANGED <<scene, queue, recent, receives, dead, row, reduced, late, secret, call,
                       worker, acked>>
    BY <1>1 DEF LeaseExpires, backlog, table
  <2>2. /\ ledger' \in [Event -> Claim]
        /\ \A f \in Event : ledger'[f].status = ledger[f].status
    BY <2>1 DEF ITypeOK, Claim
  <2>3. faults' \in 0..MaxFaults
    BY <1>1, BoundsAssumption DEF LeaseExpires, Fault, ITypeOK
  <2>4. \A f : Handled(f)' <=> Handled(f)
    BY <2>1 DEF Handled, Queued
  <2>5. ITypeOK'
    BY <2>1, <2>2, <2>3 DEF ITypeOK
  <2>6. Claims'
    BY <2>1, <2>2, RequestOf DEF Claims
  <2>7. Kept'
    BY <2>1, <2>2, <2>4 DEF Kept, ITypeOK
  <2> QED
    BY <2>1, <2>5, <2>6, <2>7 DEF Backlog
<1>2. CASE (\E e \in Event : Forget(e)) \/ Rotate
  <2>1. /\ recent' \subseteq recent /\ secret' \in {"old", "stored", "new"}
        /\ UNCHANGED <<scene, ledger, queue, receives, dead, row, reduced, late, call,
                       worker, acked, faults>>
    BY <1>2 DEF Forget, Rotate, backlog, table, ITypeOK
  <2>2. \A f : Handled(f)' <=> Handled(f)
    BY <2>1 DEF Handled, Queued
  <2> QED
    BY <2>1, <2>2 DEF ITypeOK, Backlog, Claims, Kept
<1> QED
  BY <1>1, <1>2

------------------------------------------------------------------------------
(***************************************************************************)
(* The worker.                                                             *)
(***************************************************************************)
LEMMA IdleWorker == Idle \in Worker /\ Idle.phase = "idle"
<1>1. NoOrder \in OrderType
  BY DEF NoOrder, OrderType, BillingState, CursorType
<1> QED
  BY <1>1 DEF Idle, Worker, Row

\* A step of the worker: what leaves the queue has been reduced or set aside.
LEMMA WorkerStep ==
  ASSUME Intake, UNCHANGED <<scene, ledger, recent, secret, call, acked>>,
         faults' \in 0..MaxFaults, receives' \in 0..MaxReceives,
         row' \in Row, reduced' \subseteq Accepted, reduced \subseteq reduced',
         Determined(row'.order, reduced'),
         late' \subseteq [event: Accepted, read: Row],
         dead' \subseteq Accepted, dead \subseteq dead', worker' \in Worker,
         queue' = queue \/ (queue # <<>> /\ queue' = Tail(queue)),
         queue' # queue => Head(queue) \in reduced' \cup dead' /\ worker'.phase = "idle",
         worker'.phase # "idle" => queue # <<>> /\ worker'.event = Head(queue)
  PROVE  Intake'
<1> USE DEF Intake
<1>1. /\ queue' \in Seq(Accepted)
      /\ \A e : Queued(queue, e) => Queued(queue', e) \/ e \in reduced' \cup dead'
  <2>1. CASE queue' = queue
    BY <2>1 DEF Backlog
  <2>2. CASE queue' # queue
    BY <2>2, QueuedTail DEF Backlog
  <2> QED
    BY <2>1, <2>2
<1>2. \A e : Handled(e) => Handled(e)'
  BY <1>1 DEF Handled
<1>3. ITypeOK'
  <2>1. \A i \in 1..Len(queue') : queue'[i] \in Accepted
    BY <1>1
  <2> QED
    BY <2>1 DEF ITypeOK, Worker
<1>4. Backlog'
  BY <1>1 DEF Backlog
<1>5. Claims'
  BY DEF Claims
<1>6. Kept'
  BY <1>2 DEF Kept
<1> QED
  BY <1>3, <1>4, <1>5, <1>6

LEMMA ReceiveStep == ASSUME Intake, Receive PROVE Intake'
<1>1. /\ queue # <<>> /\ Head(queue) \in Accepted /\ worker \in Worker /\ worker.phase = "idle"
      /\ UNCHANGED <<scene, ledger, recent, secret, call, acked, row, reduced, late, faults>>
      /\ row \in Row /\ reduced \subseteq Accepted /\ late \subseteq [event: Accepted, read: Row]
      /\ dead \subseteq Accepted /\ faults \in 0..MaxFaults /\ receives \in 0..MaxReceives
      /\ Determined(row.order, reduced)
  BY QueuedTail DEF Receive, Intake, Backlog, table, ITypeOK
<1>2. CASE receives = MaxReceives
  <2>1. /\ dead' = dead \cup {Head(queue)} /\ queue' = Tail(queue) /\ receives' = 0
        /\ worker' = worker
    BY <1>2 DEF Receive
  <2>2. receives' \in 0..MaxReceives
    BY <2>1, BoundsAssumption
  <2> QED
    BY <1>1, <2>1, <2>2, WorkerStep
<1>3. CASE receives # MaxReceives
  <2> DEFINE w == [Idle EXCEPT !.event = Head(queue), !.phase = "reading"]
  <2>1. receives' = receives + 1 /\ worker' = w /\ UNCHANGED <<dead, queue>>
    BY <1>3 DEF Receive
  <2>2. w \in Worker /\ w.event = Head(queue)
    BY <1>1, IdleWorker, AcceptedEvents DEF Worker
  <2>3. receives' \in 0..MaxReceives
    BY <1>1, <1>3, <2>1, BoundsAssumption
  <2> HIDE DEF w
  <2> QED
    BY <1>1, <2>1, <2>2, <2>3, WorkerStep
<1> QED
  BY <1>2, <1>3

LEMMA GetOrderStep == ASSUME Intake, GetOrder PROVE Intake'
<1> DEFINE w == [worker EXCEPT !.phase = "writing", !.read = row, !.tries = @ + 1]
<1>1. /\ worker \in Worker /\ queue # <<>> /\ worker.event = Head(queue)
      /\ UNCHANGED <<scene, ledger, queue, recent, receives, dead, secret, call, acked, row,
                     reduced, late, faults>>
      /\ row \in Row /\ reduced \subseteq Accepted /\ late \subseteq [event: Accepted, read: Row]
      /\ dead \subseteq Accepted /\ faults \in 0..MaxFaults /\ receives \in 0..MaxReceives
      /\ Determined(row.order, reduced)
  BY DEF GetOrder, Intake, Backlog, backlog, table, ITypeOK
<1>2. worker' = w /\ w.event = worker.event
  BY <1>1 DEF GetOrder, Worker
<1>3. w \in Worker
  <2>1. worker.tries + 1 \in Nat
    BY <1>1 DEF Worker
  <2> QED
    BY <1>1, <2>1 DEF Worker
<1> HIDE DEF w
<1> QED
  BY <1>1, <1>2, <1>3, WorkerStep

\* The event and the row the worker writes with.
LEMMA WritingFacts ==
  ASSUME Intake, worker.phase # "idle"
  PROVE  /\ worker \in Worker /\ worker.event \in Accepted /\ worker.read \in Row
         /\ queue # <<>> /\ worker.event = Head(queue)
         /\ row \in Row /\ reduced \subseteq Accepted /\ late \subseteq [event: Accepted, read: Row]
         /\ dead \subseteq Accepted /\ faults \in 0..MaxFaults /\ receives \in 0..MaxReceives
         /\ Determined(row.order, reduced)
BY QueuedTail DEF Intake, Backlog, ITypeOK, Worker

LEMMA PutOrderStep == ASSUME Intake, PutOrder PROVE Intake'
<1>1. /\ worker.phase = "writing" /\ Put(worker.event, worker.read)
      /\ UNCHANGED <<scene, ledger, recent, dead, late, secret, call, acked, faults>>
  BY DEF PutOrder
<1>2. /\ row' \in Row /\ reduced' \subseteq Accepted /\ reduced \subseteq reduced'
      /\ Determined(row'.order, reduced')
      /\ row' # row => reduced' = reduced \cup {worker.event}
  BY <1>1, WritingFacts, PutStep
<1>3. CASE row # row'
  <2>1. worker' = Idle /\ queue' = Tail(queue) /\ receives' = 0
    BY <1>3 DEF PutOrder
  <2>2. receives' \in 0..MaxReceives /\ Head(queue) \in reduced'
    BY <1>1, <1>2, <1>3, <2>1, WritingFacts, BoundsAssumption
  <2> QED
    BY <1>1, <1>2, <2>1, <2>2, WritingFacts, IdleWorker, WorkerStep
<1>4. CASE row = row'
  <2>1. /\ worker' \in {[worker EXCEPT !.phase = "reading"], Idle}
        /\ UNCHANGED <<queue, receives>>
    BY <1>4 DEF PutOrder
  <2>2. /\ [worker EXCEPT !.phase = "reading"] \in Worker
        /\ [worker EXCEPT !.phase = "reading"].event = worker.event
    BY <1>1, WritingFacts DEF Worker
  <2>3. worker' \in Worker /\ (worker'.phase # "idle" => worker'.event = Head(queue))
    BY <1>1, <2>1, <2>2, WritingFacts, IdleWorker
  <2> QED
    BY <1>1, <1>2, <2>1, <2>3, WritingFacts, WorkerStep
<1> QED
  BY <1>3, <1>4

LEMMA WorkerDiesStep == ASSUME Intake, WorkerDies PROVE Intake'
<1>1. /\ worker.phase # "idle" /\ worker' = Idle
      /\ UNCHANGED <<scene, ledger, queue, recent, receives, dead, secret, call, acked>>
      /\ faults' \in 0..MaxFaults
  BY WritingFacts, BoundsAssumption DEF WorkerDies, Fault, backlog
<1>2. /\ row' \in Row /\ reduced' \subseteq Accepted /\ reduced \subseteq reduced'
      /\ Determined(row'.order, reduced') /\ late' \subseteq [event: Accepted, read: Row]
  <2>1. CASE UNCHANGED table
    BY <1>1, <2>1, WritingFacts DEF table
  <2>2. CASE Put(worker.event, worker.read) /\ UNCHANGED late
    BY <1>1, <2>2, WritingFacts, PutStep
  <2>3. CASE /\ late' = late \cup {[event |-> worker.event, read |-> worker.read]}
             /\ UNCHANGED <<row, reduced>>
    BY <1>1, <2>3, WritingFacts
  <2> QED
    BY <2>1, <2>2, <2>3 DEF WorkerDies
<1> QED
  BY <1>1, <1>2, WritingFacts, IdleWorker, WorkerStep

\* A write that was given up long ago arrives.
LEMMA LatePutStep == ASSUME Intake, LatePut PROVE Intake'
<1>1. PICK p \in late : Put(p.event, p.read) /\ late' = late \ {p}
  BY DEF LatePut
<1>2. UNCHANGED <<scene, ledger, queue, recent, receives, dead, secret, call, worker, acked, faults>>
  BY DEF LatePut, backlog
<1>3. /\ p.event \in Accepted /\ p.read \in Row /\ late \subseteq [event: Accepted, read: Row]
      /\ row \in Row /\ reduced \subseteq Accepted /\ Determined(row.order, reduced)
      /\ dead \subseteq Accepted /\ faults \in 0..MaxFaults /\ receives \in 0..MaxReceives
      /\ worker \in Worker
      /\ worker.phase # "idle" => queue # <<>> /\ worker.event = Head(queue)
  BY <1>1 DEF Intake, ITypeOK, Backlog
<1>4. /\ row' \in Row /\ reduced' \subseteq Accepted /\ reduced \subseteq reduced'
      /\ Determined(row'.order, reduced')
  BY <1>1, <1>3, PutStep
<1>5. late' \subseteq [event: Accepted, read: Row]
  BY <1>1, <1>3
<1> QED
  BY <1>2, <1>3, <1>4, <1>5, WorkerStep

------------------------------------------------------------------------------
LEMMA IntakeInit == IInit => Intake
<1> SUFFICES ASSUME IInit PROVE Intake
  OBVIOUS
<1>1. NoOrder \in OrderType
  BY DEF NoOrder, OrderType, BillingState, CursorType
<1>2. row \in Row /\ Determined(row.order, reduced)
  BY <1>1 DEF IInit, Row, Determined, NoOrder
<1>3. ledger \in [Event -> Claim] /\ \A e \in Event : ledger[e].status = "absent"
  BY DEF IInit, Claim, NoOwner
<1>4. call \in [Request -> CallPhase] /\ \A c \in Request : call[c] = "idle"
  BY DEF IInit, CallPhase
<1>5. queue \in Seq(Accepted) /\ queue = <<>>
  BY DEF IInit
<1>6. receives \in 0..MaxReceives
  BY BoundsAssumption DEF IInit
<1>7. worker \in Worker /\ worker.phase = "idle"
  BY IdleWorker DEF IInit
<1>8. ITypeOK
  <2>1. \A i \in 1..Len(queue) : queue[i] \in Accepted
    BY <1>5
  <2>2. /\ recent \subseteq Accepted /\ dead \subseteq Accepted /\ reduced \subseteq Accepted
        /\ late \subseteq [event: Accepted, read: Row] /\ scene \in Scene
        /\ secret \in {"old", "stored", "new"} /\ acked \subseteq Event /\ faults \in 0..MaxFaults
    BY DEF IInit
  <2>3. worker.phase \in {"idle", "reading", "writing"}
    BY <1>7
  <2> QED
    BY <1>2, <1>3, <1>4, <1>6, <2>1, <2>2, <2>3 DEF ITypeOK, CallPhase
<1>9. Backlog /\ Claims /\ Kept
  BY <1>3, <1>4, <1>5, <1>7 DEF Backlog, Claims, Kept, IInit
<1> QED
  BY <1>2, <1>8, <1>9 DEF Intake

LEMMA IntakeNext == Intake /\ [INext]_ivars => Intake'
<1> SUFFICES ASSUME Intake, [INext]_ivars PROVE Intake'
  OBVIOUS
<1>1. ASSUME NEW r \in Request,
             Send(r[1], r[2]) \/ Step(r[1], r[2]) \/ StepFails(r[1], r[2])
      PROVE  Intake'
  BY <1>1, RequestOf, WebhookStep, EnqueueStep DEF Step
<1>2. CASE UNCHANGED ivars
  <2>1. \A e : Handled(e)' <=> Handled(e)
    BY <1>2 DEF ivars, Handled, Queued
  <2> QED
    BY <1>2, <2>1 DEF ivars, Intake, ITypeOK, Backlog, Claims, Kept
<1> QED
  BY <1>1, <1>2, TimeStep, ReceiveStep, GetOrderStep, PutOrderStep, WorkerDiesStep, LatePutStep
     DEF INext

LEMMA IntakeInvariant == ISpec => []Intake
BY IntakeInit, IntakeNext, PTL DEF ISpec

------------------------------------------------------------------------------
(***************************************************************************)
(* The row implements the reducer.                                         *)
(***************************************************************************)
\* A write of the row is a delivery to the reducer, and everything else leaves
\* the row alone.
LEMMA RowStep ==
  Intake /\ [INext]_ivars =>
    \/ UNCHANGED <<row, reduced>>
    \/ \E e \in Accepted : /\ row'.order = reduceBillingEvent(row.order, e)
                           /\ reduced' = reduced \cup {e}
<1> SUFFICES ASSUME Intake, [INext]_ivars
             PROVE  \/ UNCHANGED <<row, reduced>>
                    \/ \E e \in Accepted : /\ row'.order = reduceBillingEvent(row.order, e)
                                           /\ reduced' = reduced \cup {e}
  OBVIOUS
<1>1. ASSUME NEW e \in Accepted, NEW read \in Row, Put(e, read)
      PROVE  \/ UNCHANGED <<row, reduced>>
             \/ /\ row'.order = reduceBillingEvent(row.order, e)
                /\ reduced' = reduced \cup {e}
  <2>1. row \in Row /\ reduced \subseteq Accepted /\ Determined(row.order, reduced)
    BY DEF Intake, ITypeOK
  <2> QED
    BY <1>1, <2>1, PutStep
<1>2. CASE PutOrder
  <2>1. /\ worker.event \in Accepted /\ worker.read \in Row /\ Put(worker.event, worker.read)
    BY <1>2, WritingFacts DEF PutOrder
  <2> QED
    BY <1>1, <2>1
<1>3. CASE WorkerDies
  <2>1. worker.event \in Accepted /\ worker.read \in Row
    BY <1>3, WritingFacts DEF WorkerDies
  <2>2. UNCHANGED <<row, reduced>> \/ Put(worker.event, worker.read)
    BY <1>3 DEF WorkerDies, table
  <2> QED
    BY <1>1, <2>1, <2>2
<1>4. CASE LatePut
  <2>1. PICK p \in late : Put(p.event, p.read)
    BY <1>4 DEF LatePut
  <2>2. p.event \in Accepted /\ p.read \in Row
    BY <2>1, SMTT(40) DEF Intake, ITypeOK
  <2> QED
    BY <1>1, <2>1, <2>2
<1>5. CASE \/ \E r \in Request : Send(r[1], r[2]) \/ Step(r[1], r[2]) \/ StepFails(r[1], r[2])
           \/ \E e \in Event : LeaseExpires(e) \/ Forget(e)
           \/ Rotate \/ Receive \/ GetOrder
  BY <1>5 DEF Send, Step, Verify, ClaimEvent, Look, TakeOver, Enqueue, MarkEnqueued, StepFails,
     LeaseExpires, Forget, Rotate, Receive, GetOrder, table
<1> QED
  BY <1>2, <1>3, <1>4, <1>5 DEF INext, ivars

LEMMA RefinedInit == IInit => Reducer!Init
  BY DEF IInit, Reducer!Init, NoOrder, Reducer!NoOrder

LEMMA RefinedStep == Intake /\ [INext]_ivars => [Reducer!Next]_<<row, reduced>>
<1> SUFFICES ASSUME NEW e \in Accepted, row'.order = reduceBillingEvent(row.order, e),
                    reduced' = reduced \cup {e}
             PROVE  Reducer!Next
  BY RowStep
<1>1. Reducer!Deliver("order", e)
  BY SameReducer DEF Reducer!Deliver
<1> QED
  BY <1>1, AcceptedEvents DEF Reducer!Next

(***************************************************************************)
(* The theorems.                                                           *)
(***************************************************************************)
\* Type correctness: an event that is ignored never gets into the queue, a
\* late write or the order.
THEOREM IntakeTypeCorrect == ISpec => []ITypeOK
<1>1. Intake => ITypeOK
  BY DEF Intake
<1> QED
  BY <1>1, IntakeInvariant, PTL

\* reduceAndStoreOrder under the version of the row, by workers that die or are
\* given up while their write is under way, implements reduceBillingEvent one
\* event at a time.
THEOREM RowImplementsReducer == ISpec => ImplementsReducer
<1>1. ISpec => Reducer!Init
  BY RefinedInit DEF ISpec
<1>2. ISpec => [][Reducer!Next]_<<row, reduced>>
  BY IntakeInvariant, RefinedStep, PTL DEF ISpec
<1> QED
  BY <1>1, <1>2 DEF ImplementsReducer

\* The stored order depends on the set of reduced events alone: whatever was
\* repeated, reordered or late, billing state, latest event and facts are those
\* of any other run that reduced the same events.
THEOREM StoredOrderDetermined ==
  ASSUME NEW o \in OrderType, NEW D \in SUBSET Event, Determined(o, D)
  PROVE  ISpec => [](reduced = D =>
                       /\ row.order.billingState = o.billingState
                       /\ row.order.latestEventCreatedAt = o.latestEventCreatedAt
                       /\ row.order.latestEventId = o.latestEventId
                       /\ row.order.known = o.known)
<1>1. Intake => (reduced = D =>
                   /\ row.order.billingState = o.billingState
                   /\ row.order.latestEventCreatedAt = o.latestEventCreatedAt
                   /\ row.order.latestEventId = o.latestEventId
                   /\ row.order.known = o.known)
  <2> SUFFICES ASSUME Intake, reduced = D
               PROVE  /\ row.order.billingState = o.billingState
                      /\ row.order.latestEventCreatedAt = o.latestEventCreatedAt
                      /\ row.order.latestEventId = o.latestEventId
                      /\ row.order.known = o.known
    OBVIOUS
  <2>1. PICK p : p = row.order /\ Determined(p, D)
    BY DEF Intake
  <2>2. CASE D = {}
    BY <2>1, <2>2 DEF Determined
  <2>3. CASE D # {}
    <3>1. Settled(o, D) /\ LatestOf(o, D) /\ Settled(p, D) /\ LatestOf(p, D) /\ o.known = p.known
      BY <2>1, <2>3 DEF Determined
    <3> QED
      BY <2>1, <3>1, SettledUnique, LatestUnique
  <2> QED
    BY <2>2, <2>3
<1> QED
  BY <1>1, IntakeInvariant, PTL

\* What Stripe got a 2xx for is not lost: it is reduced, in the dead-letter
\* queue, or still in the queue, although claims are taken over and an id the
\* queue remembers is dropped.
AnsweredIsKept == \A e \in acked \cap Accepted : Handled(e)

THEOREM NothingAnsweredIsLost == ISpec => []AnsweredIsKept
<1>1. Intake => AnsweredIsKept
  BY DEF AnsweredIsKept, Intake, Kept, Claims, Accepted, ITypeOK
<1> QED
  BY <1>1, IntakeInvariant, PTL
==============================================================================
