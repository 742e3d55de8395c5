---------------------------- MODULE WdcNetProofs ----------------------------
(***************************************************************************)
(* Proofs about the event queue (WdcEvents) and the network mediator over  *)
(* it (WdcNet), for a ring of any capacity, counters of any width, and any *)
(* event types, resources and policies.                                    *)
(***************************************************************************)
EXTENDS WdcNet, SequenceTheorems, TLAPS

-----------------------------------------------------------------------------
(***************************************************************************)
(* The ring's index arithmetic.                                            *)
(***************************************************************************)

\* The place of the k-th event (from 0) of a ring whose head is at h.
Slot(h, k) == (h + k) % Capacity

\* Places stay inside the array and differ within a capacity, and moving the
\* head by one moves every event one place forward.
LEMMA SlotFacts ==
    ASSUME NEW h \in Index
    PROVE  /\ \A k \in 0..Capacity : Slot(h, k) \in Index
           /\ \A j, k \in 0..Capacity - 1 : Slot(h, j) = Slot(h, k) => j = k
           /\ \A k \in 0..Capacity - 1 : Slot(Slot(h, 1), k) = Slot(h, k + 1)
           /\ Slot(h, 0) = h
<1>1. Capacity \in Nat \ {0} /\ h \in 0..Capacity - 1
  BY QueueAssumption DEF Index
<1>2. ASSUME NEW x \in 0..Capacity - 1
      PROVE  x % Capacity = x /\ (x + Capacity) % Capacity = x
  BY <1>1, <1>2
<1>3. ASSUME NEW g \in 0..Capacity - 1, NEW k \in 0..Capacity
      PROVE  Slot(g, k) = IF g + k < Capacity THEN g + k ELSE g + k - Capacity
  <2>1. CASE g + k < Capacity
    BY <1>1, <1>2, <2>1 DEF Slot
  <2>2. CASE g + k >= Capacity
    <3>1. g + k - Capacity \in 0..Capacity - 1
      BY <1>1, <2>2
    <3>2. (g + k - Capacity + Capacity) % Capacity = g + k - Capacity
      BY <1>2, <3>1
    <3>3. g + k - Capacity + Capacity = g + k
      BY <1>1
    <3>. QED  BY <1>1, <2>2, <3>2, <3>3 DEF Slot
  <2>. QED  BY <1>1, <2>1, <2>2
<1>4. \A k \in 0..Capacity : Slot(h, k) \in 0..Capacity - 1
  BY <1>1, <1>3
<1>5. \A j, k \in 0..Capacity - 1 : Slot(h, j) = Slot(h, k) => j = k
  BY <1>1, <1>3
<1>6. \A k \in 0..Capacity - 1 : Slot(Slot(h, 1), k) = Slot(h, k + 1)
  <2>1. Slot(h, 1) \in 0..Capacity - 1
    BY <1>1, <1>4
  <2>. QED  BY <1>1, <1>3, <2>1
<1>7. Slot(h, 0) = h
  BY <1>1, <1>3
<1>. QED  BY <1>4, <1>5, <1>6, <1>7 DEF Index

-----------------------------------------------------------------------------
(***************************************************************************)
(* Event ids: 1..IdModulus - 1 in a circle, because wdc_event_queue_push   *)
(* skips 0.                                                                *)
(***************************************************************************)

EventIds == 1..IdModulus - 1

\* The id j steps before id n.
Before(n, j) == IF n > j THEN n - j ELSE n - j + IdModulus - 1

LEMMA IdFacts ==
    ASSUME NEW n \in EventIds
    PROVE  /\ IdAfter(n) \in EventIds
           /\ \A j \in 0..Capacity : Before(n, j) \in EventIds
           /\ \A j \in 1..Capacity : Before(n, j) # n
           /\ \A j \in 0..Capacity - 1 : Before(IdAfter(n), j + 1) = Before(n, j)
           /\ Before(n, 0) = n
<1>1. IdModulus \in Nat /\ Capacity \in Nat \ {0} /\ IdModulus > Capacity + 1
  BY QueueAssumption
<1>2. IdAfter(n) = IF n = IdModulus - 1 THEN 1 ELSE n + 1
  <2>1. CASE n = IdModulus - 1
    <3>1. (n + 1) % IdModulus = 0
      BY <1>1, <2>1
    <3>. QED  BY <2>1, <3>1 DEF IdAfter
  <2>2. CASE n # IdModulus - 1
    <3>1. (n + 1) % IdModulus = n + 1
      BY <1>1, <2>2 DEF EventIds
    <3>. QED  BY <1>1, <2>2, <3>1 DEF IdAfter, EventIds
  <2>. QED  BY <2>1, <2>2
<1>. QED  BY <1>1, <1>2 DEF EventIds, Before


-----------------------------------------------------------------------------
(***************************************************************************)
(* What a step of the mediator is to the queue, and the invariant of the   *)
(* ring: the ids of the queued events lead up to the next one.             *)
(***************************************************************************)

\* wdc_event_queue_push, on a queue with room and on a full one.
Enqueue(k) ==
    /\ count < Capacity
    /\ items' = [items EXCEPT ![Slot(head, count)] = [kind |-> k, id |-> next_event_id]]
    /\ next_event_id' = IdAfter(next_event_id)
    /\ count' = count + 1
    /\ UNCHANGED <<head, dropped>>

DropNewest ==
    /\ count >= Capacity /\ dropped < MaxDropped
    /\ dropped' = dropped + 1
    /\ UNCHANGED <<head, count, items, next_event_id>>

LEMMA PushCases ==
    ASSUME NEW k
    PROVE  Push(k) <=> Enqueue(k) \/ DropNewest
BY DEF Push, Enqueue, DropNewest, TailIndex, Slot

BootMoves == boot' \in {boot, "self_test"} /\ UNCHANGED self_test

LEMMA QueueSteps ==
    ASSUME [NetNext]_netVars
    PROVE  \/ UNCHANGED queue /\ BootMoves
           \/ (\E k \in Kind : Push(k)) /\ BootMoves
           \/ Pop /\ UNCHANGED <<boot, self_test>>
           \/ SelfTest
<1>0. /\ "net_connected" \in Kind /\ "net_disconnected" \in Kind
      /\ "safety_state_changed" \in Kind
  BY NetAssumption, QueueAssumption DEF LinkKinds
<1>1. ASSUME NEW s, SetState(s)
      PROVE  (UNCHANGED queue \/ \E k \in Kind : Push(k)) /\ BootMoves
  BY <1>0, <1>1 DEF SetState, BootMoves
<1>2. ASSUME NEW r, Reject(r) \/ RejectLong(r) \/ Take(r)
      PROVE  UNCHANGED queue /\ BootMoves
  BY <1>2 DEF Reject, RejectLong, Take, netVars, vars, queue, BootMoves
<1>3. CASE NetDrain
  BY <1>3 DEF NetDrain, DrainOne
<1>4. CASE OtherEvents
  BY <1>0, <1>4 DEF OtherEvents, SafetyPosts, Post, BootMoves
<1>5. CASE UNCHANGED netVars
  BY <1>5 DEF netVars, vars, queue, BootMoves
<1>. QED  BY <1>1, <1>2, <1>3, <1>4, <1>5 DEF NetNext

IdsInOrder ==
    \A k \in 0..count - 1 :
        items[Slot(head, k)].id = Before(next_event_id, count - k)

RingInv == TypeOK /\ IdsInOrder

LEMMA RingInit == NetInit => RingInv
<1>. SUFFICES ASSUME NetInit PROVE RingInv
  OBVIOUS
<1>1. Init
  BY DEF NetInit
<1>2. TypeOK
  BY <1>1, QueueAssumption DEF Init, TypeOK, Index, Event
<1>3. IdsInOrder
  BY <1>1 DEF Init, IdsInOrder
<1>. QED  BY <1>2, <1>3 DEF RingInv

\* A push keeps the ring in order.
LEMMA PushRing ==
    ASSUME RingInv, NEW k \in Kind, Push(k)
    PROVE  /\ head' \in Index /\ count' \in 0..Capacity
           /\ items' \in [Index -> Event]
           /\ next_event_id' \in EventIds /\ dropped' \in 0..MaxDropped
           /\ IdsInOrder'
<1>0. Capacity \in Nat \ {0} /\ MaxDropped \in Nat /\ IdModulus \in Nat
  BY QueueAssumption
<1>1. /\ head \in Index /\ count \in 0..Capacity /\ items \in [Index -> Event]
      /\ next_event_id \in EventIds /\ dropped \in 0..MaxDropped /\ IdsInOrder
  BY DEF RingInv, TypeOK, EventIds
<1>2. CASE DropNewest
  BY <1>0, <1>1, <1>2 DEF DropNewest, IdsInOrder
<1>3. CASE Enqueue(k)
  <2>1. PICK e : e = [kind |-> k, id |-> next_event_id]
    OBVIOUS
  <2>2. e \in Event /\ e.id = next_event_id
    BY <1>0, <1>1, <2>1 DEF Event, EventIds
  <2>3. /\ count < Capacity /\ count' = count + 1 /\ head' = head /\ dropped' = dropped
        /\ items' = [items EXCEPT ![Slot(head, count)] = e]
        /\ next_event_id' = IdAfter(next_event_id)
    BY <1>3, <2>1 DEF Enqueue
  <2>4. Slot(head, count) \in Index
    BY <1>0, <1>1, SlotFacts
  <2>5. next_event_id' \in EventIds
    BY <1>1, <2>3, IdFacts
  <2>6. ASSUME NEW j \in 0..count' - 1
        PROVE  items'[Slot(head', j)].id = Before(next_event_id', count' - j)
    <3>1. CASE j = count
      <4>1. items'[Slot(head, count)] = e
        BY <1>1, <2>3, <2>4
      <4>2. Before(IdAfter(next_event_id), 0 + 1) = Before(next_event_id, 0)
            /\ Before(next_event_id, 0) = next_event_id
        BY <1>0, <1>1, IdFacts
      <4>3. count' - j = 0 + 1
        BY <1>0, <1>1, <2>3, <3>1
      <4>. QED  BY <2>2, <2>3, <3>1, <4>1, <4>2, <4>3
    <3>2. CASE j # count
      <4>1. j \in 0..count - 1 /\ j \in 0..Capacity - 1 /\ count \in 0..Capacity - 1
        BY <1>0, <1>1, <2>3, <3>2
      <4>2. Slot(head, j) # Slot(head, count) /\ Slot(head, j) \in Index
        BY <1>0, <1>1, <3>2, <4>1, SlotFacts
      <4>3. items'[Slot(head, j)].id = Before(next_event_id, count - j)
        BY <1>1, <2>3, <2>4, <4>1, <4>2 DEF IdsInOrder
      <4>4. count - j \in 0..Capacity - 1 /\ count' - j = (count - j) + 1
        BY <1>0, <1>1, <2>3, <4>1
      <4>5. Before(IdAfter(next_event_id), (count - j) + 1) = Before(next_event_id, count - j)
        BY <1>1, <4>4, IdFacts
      <4>. QED  BY <2>3, <4>3, <4>4, <4>5
    <3>. QED  BY <3>1, <3>2
  <2>. QED  BY <1>0, <1>1, <2>2, <2>3, <2>4, <2>5, <2>6 DEF IdsInOrder
<1>. QED  BY <1>2, <1>3, PushCases

\* So does a pop ...
LEMMA PopRing ==
    ASSUME RingInv, Pop
    PROVE  /\ head' \in Index /\ count' \in 0..Capacity /\ IdsInOrder'
<1>0. Capacity \in Nat \ {0}
  BY QueueAssumption
<1>1. head \in Index /\ count \in 0..Capacity /\ IdsInOrder
  BY DEF RingInv, TypeOK
<1>2. /\ count > 0 /\ head' = Slot(head, 1) /\ count' = count - 1
      /\ UNCHANGED <<items, next_event_id, dropped>>
  BY DEF Pop, Slot
<1>3. head' \in Index
  BY <1>0, <1>1, <1>2, SlotFacts
<1>4. ASSUME NEW j \in 0..count' - 1
      PROVE  items'[Slot(head', j)].id = Before(next_event_id', count' - j)
  <2>1. j + 1 \in 0..count - 1 /\ j \in 0..Capacity - 1 /\ count' - j = count - (j + 1)
    BY <1>0, <1>1, <1>2
  <2>2. Slot(head', j) = Slot(head, j + 1)
    BY <1>1, <1>2, <2>1, SlotFacts
  <2>3. items[Slot(head, j + 1)].id = Before(next_event_id, count - (j + 1))
    BY <1>1, <2>1 DEF IdsInOrder
  <2>. QED  BY <1>2, <2>1, <2>2, <2>3
<1>. QED  BY <1>0, <1>1, <1>2, <1>3, <1>4 DEF IdsInOrder

\* ... and the self-test's push and pop in one.
LEMMA SelfTestRing ==
    ASSUME RingInv, SelfTest
    PROVE  /\ head' \in Index /\ items' \in [Index -> Event]
           /\ next_event_id' \in EventIds
           /\ self_test' \in Kind \cup {Blank}
           /\ IdsInOrder'
<1>0. Capacity \in Nat \ {0} /\ IdModulus \in Nat /\ "system_boot" \in Kind
  BY QueueAssumption
<1>1. /\ head \in Index /\ count \in 0..Capacity /\ items \in [Index -> Event]
      /\ next_event_id \in EventIds /\ IdsInOrder
  BY DEF RingInv, TypeOK, EventIds
<1>2. PICK e : e = [kind |-> "system_boot", id |-> next_event_id]
  OBVIOUS
<1>3. e \in Event /\ e.id = next_event_id
  BY <1>0, <1>1, <1>2 DEF Event, EventIds
<1>4. /\ count < Capacity /\ count' = count /\ head' = Slot(head, 1)
      /\ items' = [items EXCEPT ![Slot(head, count)] = e]
      /\ next_event_id' = IdAfter(next_event_id)
      /\ self_test' = items'[head].kind
  BY <1>2 DEF SelfTest, TailIndex, Slot
<1>5. Slot(head, count) \in Index /\ head' \in Index
  BY <1>0, <1>1, <1>4, SlotFacts
<1>6. items' \in [Index -> Event]
  BY <1>1, <1>3, <1>4, <1>5
<1>7. next_event_id' \in EventIds
  BY <1>1, <1>4, IdFacts
<1>8. self_test' \in Kind \cup {Blank}
  BY <1>1, <1>4, <1>6 DEF Event
<1>9. ASSUME NEW j \in 0..count' - 1
      PROVE  items'[Slot(head', j)].id = Before(next_event_id', count' - j)
  <2>0. j \in 0..Capacity - 1 /\ j + 1 \in 0..count /\ count - (j + 1) \in 0..Capacity - 1
        /\ count - j = (count - (j + 1)) + 1
    BY <1>0, <1>1, <1>4
  <2>1. Slot(head', j) = Slot(head, j + 1)
    BY <1>1, <1>4, <2>0, SlotFacts
  <2>2. Before(IdAfter(next_event_id), (count - (j + 1)) + 1)
            = Before(next_event_id, count - (j + 1))
    BY <1>1, <2>0, IdFacts
  <2>3. CASE j + 1 = count
    <3>1. items'[Slot(head, count)] = e
      BY <1>1, <1>4, <1>5
    <3>2. Before(next_event_id, 0) = next_event_id /\ count - (j + 1) = 0
      BY <1>0, <1>1, <2>3, IdFacts
    <3>. QED  BY <1>3, <1>4, <2>0, <2>1, <2>2, <2>3, <3>1, <3>2
  <2>4. CASE j + 1 # count
    <3>1. j + 1 \in 0..count - 1 /\ j + 1 \in 0..Capacity - 1 /\ count \in 0..Capacity - 1
      BY <1>0, <1>1, <1>4, <2>0, <2>4
    <3>2. Slot(head, j + 1) # Slot(head, count) /\ Slot(head, j + 1) \in Index
      BY <1>0, <1>1, <2>4, <3>1, SlotFacts
    <3>3. items'[Slot(head, j + 1)] = items[Slot(head, j + 1)]
      BY <1>1, <1>4, <1>5, <3>2
    <3>4. items[Slot(head, j + 1)].id = Before(next_event_id, count - (j + 1))
      BY <1>1, <3>1 DEF IdsInOrder
    <3>. QED  BY <1>4, <2>0, <2>1, <2>2, <3>3, <3>4
  <2>. QED  BY <2>3, <2>4
<1>. QED  BY <1>5, <1>6, <1>7, <1>8, <1>9 DEF IdsInOrder

LEMMA RingStep == RingInv /\ [NetNext]_netVars => RingInv'
<1>. SUFFICES ASSUME RingInv, [NetNext]_netVars PROVE RingInv'
  OBVIOUS
<1>0. /\ head \in Index /\ count \in 0..Capacity /\ items \in [Index -> Event]
      /\ next_event_id \in 1..IdModulus - 1 /\ dropped \in 0..MaxDropped /\ IdsInOrder
      /\ boot \in {"safety", "self_test", "up"} /\ self_test \in Kind \cup {Blank}
  BY DEF RingInv, TypeOK
<1>1. CASE UNCHANGED queue /\ BootMoves
  BY <1>0, <1>1 DEF queue, BootMoves, RingInv, TypeOK, IdsInOrder
<1>2. ASSUME NEW k \in Kind, Push(k), BootMoves PROVE RingInv'
  BY <1>0, <1>2, PushRing DEF BootMoves, RingInv, TypeOK, EventIds
<1>3. CASE Pop /\ UNCHANGED <<boot, self_test>>
  <2>1. UNCHANGED <<items, next_event_id, dropped, boot, self_test>>
    BY <1>3 DEF Pop
  <2>. QED  BY <1>0, <1>3, <2>1, PopRing DEF RingInv, TypeOK
<1>4. CASE SelfTest
  <2>1. UNCHANGED <<count, dropped>> /\ boot' = "up"
    BY <1>4 DEF SelfTest
  <2>. QED  BY <1>0, <1>4, <2>1, SelfTestRing DEF RingInv, TypeOK, EventIds
<1>. QED  BY <1>1, <1>2, <1>3, <1>4, QueueSteps

\* The ring's invariant holds, whoever posts and drains in whatever order.
THEOREM NetRingInv == NetSpec => []RingInv
<1>. QED  BY RingInit, RingStep, PTL DEF NetSpec

\* The ring's indices stay inside the array and the queue's counters keep their
\* types, for a ring of any capacity.
THEOREM NetTypeOK == NetSpec => []TypeOK
<1>1. RingInv => TypeOK
  BY DEF RingInv
<1>. QED  BY <1>1, NetRingInv, PTL

-----------------------------------------------------------------------------
(***************************************************************************)
(* The ring is a FIFO.                                                     *)
(***************************************************************************)

\* The events in the queue, oldest first.
Queued(h, n, ring) == [k \in 1..n |-> ring[(h + k - 1) % Capacity]]

\* The k-th of them is the one at place k - 1.
LEMMA QueuedFacts ==
    ASSUME NEW h \in Index, NEW n \in 0..Capacity, NEW ring \in [Index -> Event]
    PROVE  /\ Queued(h, n, ring) \in Seq(Event) /\ Len(Queued(h, n, ring)) = n
           /\ \A k \in 1..n : Queued(h, n, ring)[k] = ring[Slot(h, k - 1)]
<1>0. Capacity \in Nat \ {0} /\ h \in Int
  BY QueueAssumption DEF Index
<1>1. ASSUME NEW k \in 1..n
      PROVE  ring[(h + k - 1) % Capacity] = ring[Slot(h, k - 1)] /\ Slot(h, k - 1) \in Index
  <2>1. k - 1 \in 0..Capacity /\ h + k - 1 = h + (k - 1)
    BY <1>0
  <2>. QED  BY <2>1, SlotFacts DEF Slot
<1>2. \A k \in 1..n : ring[(h + k - 1) % Capacity] \in Event
  BY <1>1
<1>3. n \in Nat
  BY <1>0
<1>. QED  BY <1>1, <1>2, <1>3 DEF Queued

\* The id of the next event is not in the queue.
LEMMA NextIdIsFresh ==
    ASSUME RingInv
    PROVE  \A k \in 1..count : Queued(head, count, items)[k].id # next_event_id
<1>0. /\ Capacity \in Nat \ {0} /\ head \in Index /\ count \in 0..Capacity
      /\ items \in [Index -> Event] /\ next_event_id \in EventIds
  BY QueueAssumption DEF RingInv, TypeOK, EventIds
<1>. SUFFICES ASSUME NEW k \in 1..count
              PROVE  Queued(head, count, items)[k].id # next_event_id
  OBVIOUS
<1>1. k - 1 \in 0..count - 1 /\ count - (k - 1) \in 1..Capacity
  BY <1>0
<1>2. items[Slot(head, k - 1)].id = Before(next_event_id, count - (k - 1))
  BY <1>1 DEF RingInv, IdsInOrder
<1>3. Before(next_event_id, count - (k - 1)) # next_event_id
  BY <1>0, <1>1, IdFacts
<1>. QED  BY <1>0, <1>2, <1>3, QueuedFacts

\* w is the ring with event e written at place i.
Writes(w, ring, i, e) ==
    /\ w \in [Index -> Event] /\ w[i] = e
    /\ \A j \in Index : j # i => w[j] = ring[j]

\* Writing at the tail place appends; moving the head drops the first.
LEMMA WriteIsAppend ==
    ASSUME NEW h \in Index, NEW n \in 0..Capacity - 1, NEW ring \in [Index -> Event],
           NEW e \in Event, NEW w, Writes(w, ring, Slot(h, n), e)
    PROVE  Queued(h, n + 1, w) = Append(Queued(h, n, ring), e)
<1>0. Capacity \in Nat \ {0} /\ n \in Nat /\ n \in 0..Capacity /\ n + 1 \in 0..Capacity
  BY QueueAssumption
<1>1. /\ w \in [Index -> Event] /\ w[Slot(h, n)] = e
      /\ \A i \in Index : i # Slot(h, n) => w[i] = ring[i]
  BY DEF Writes
<1>3. /\ Queued(h, n, ring) \in Seq(Event) /\ Len(Queued(h, n, ring)) = n
      /\ \A k \in 1..n : Queued(h, n, ring)[k] = ring[Slot(h, k - 1)]
  BY <1>0, QueuedFacts
<1>4. /\ Queued(h, n + 1, w) \in Seq(Event) /\ Len(Queued(h, n + 1, w)) = n + 1
      /\ \A k \in 1..n + 1 : Queued(h, n + 1, w)[k] = w[Slot(h, k - 1)]
  BY <1>0, <1>1, QueuedFacts
<1>5. ASSUME NEW k \in 1..n PROVE w[Slot(h, k - 1)] = ring[Slot(h, k - 1)]
  <2>1. k - 1 \in 0..Capacity - 1 /\ k - 1 \in 0..Capacity /\ k - 1 # n
    BY <1>0
  <2>2. Slot(h, k - 1) # Slot(h, n) /\ Slot(h, k - 1) \in Index
    BY <2>1, SlotFacts
  <2>. QED  BY <1>1, <2>2
<1>6. w[Slot(h, (n + 1) - 1)] = e
  BY <1>0, <1>1
<1>7. PICK s, t : s = Queued(h, n + 1, w) /\ t = Append(Queued(h, n, ring), e)
  OBVIOUS
<1>8. /\ t \in Seq(Event) /\ Len(t) = n + 1
      /\ \A k \in 1..n : t[k] = Queued(h, n, ring)[k]
      /\ t[n + 1] = e
  BY <1>0, <1>3, <1>7
<1>9. \A k \in 1..n : t[k] = w[Slot(h, k - 1)]
  BY <1>3, <1>5, <1>8
<1>10. ASSUME NEW k \in 1..n + 1 PROVE s[k] = t[k]
  <2>1. s[k] = w[Slot(h, k - 1)]
    BY <1>4, <1>7
  <2>2. CASE k = n + 1
    BY <1>6, <1>8, <2>1, <2>2
  <2>3. CASE k \in 1..n
    BY <1>9, <2>1, <2>3
  <2>. QED  BY <1>0, <2>2, <2>3
<1>11. s = t
  BY <1>4, <1>7, <1>8, <1>10, SeqEqual
<1>. QED  BY <1>7, <1>11

LEMMA AdvanceIsTail ==
    ASSUME NEW h \in Index, NEW n \in 1..Capacity, NEW ring \in [Index -> Event]
    PROVE  Queued(Slot(h, 1), n - 1, ring) = Tail(Queued(h, n, ring))
<1>0. Capacity \in Nat \ {0} /\ n \in Nat /\ n \in 0..Capacity /\ n - 1 \in 0..Capacity
  BY QueueAssumption
<1>1. Slot(h, 1) \in Index
  BY <1>0, SlotFacts
<1>2. /\ Queued(h, n, ring) \in Seq(Event) /\ Len(Queued(h, n, ring)) = n
      /\ \A k \in 1..n : Queued(h, n, ring)[k] = ring[Slot(h, k - 1)]
  BY <1>0, QueuedFacts
<1>3. /\ Queued(Slot(h, 1), n - 1, ring) \in Seq(Event)
      /\ Len(Queued(Slot(h, 1), n - 1, ring)) = n - 1
      /\ \A k \in 1..n - 1 : Queued(Slot(h, 1), n - 1, ring)[k] = ring[Slot(Slot(h, 1), k - 1)]
  BY <1>0, <1>1, QueuedFacts
<1>4. ASSUME NEW k \in 1..n - 1 PROVE Slot(Slot(h, 1), k - 1) = Slot(h, (k + 1) - 1)
  <2>1. k - 1 \in 0..Capacity - 1 /\ (k - 1) + 1 = (k + 1) - 1
    BY <1>0
  <2>. QED  BY <2>1, SlotFacts
<1>5. PICK q, s, t : q = Queued(h, n, ring) /\ s = Queued(Slot(h, 1), n - 1, ring) /\ t = Tail(q)
  OBVIOUS
<1>6. q # <<>>
  BY <1>0, <1>2, <1>5
<1>7. /\ t \in Seq(Event) /\ Len(t) = n - 1
      /\ \A k \in 1..n - 1 : t[k] = q[k + 1]
  BY <1>0, <1>2, <1>5, <1>6, HeadTailProperties
<1>8. ASSUME NEW k \in 1..n - 1 PROVE s[k] = t[k]
  <2>1. k + 1 \in 1..n
    BY <1>0
  <2>. QED  BY <1>2, <1>3, <1>4, <1>5, <1>7, <2>1
<1>9. s = t
  BY <1>3, <1>5, <1>7, <1>8, SeqEqual
<1>. QED  BY <1>5, <1>9

\* Every step of the mediator is a step of the FIFO.
LEMMA FifoStep ==
    ASSUME RingInv, [NetNext]_netVars
    PROVE  [Fifo!Next]_(Fifo!vars)
<1>. DEFINE q == Queued(head, count, items)
<1>0. /\ Capacity \in Nat \ {0} /\ head \in Index /\ count \in 0..Capacity
      /\ items \in [Index -> Event] /\ next_event_id \in EventIds
      /\ IdModulus \in Nat /\ "system_boot" \in Kind
  BY QueueAssumption DEF RingInv, TypeOK, EventIds
<1>1. /\ q = [k \in 1..count |-> items[(head + k - 1) % Capacity]]
      /\ Queued(head', count', items')
            = [k \in 1..count |-> items[(head + k - 1) % Capacity]]'
  BY DEF Queued
<1>2. q \in Seq(Event) /\ Len(q) = count /\ DOMAIN q = 1..count
  BY <1>0, QueuedFacts
<1>3. next_event_id \in (1..IdModulus - 1) \ {e.id : e \in Fifo!ToSet(q)}
  BY <1>0, <1>2, NextIdIsFresh DEF EventIds, Fifo!ToSet
<1>4. CASE UNCHANGED queue /\ BootMoves
  BY <1>4 DEF queue, Fifo!vars
<1>5. ASSUME NEW k \in Kind, Push(k) PROVE Fifo!Next
  <2>1. CASE DropNewest
    <3>1. count = Capacity /\ dropped' = dropped + 1 /\ UNCHANGED <<head, count, items>>
      BY <1>0, <2>1 DEF DropNewest
    <3>2. Fifo!Refuse
      BY <1>1, <1>2, <3>1 DEF Fifo!Refuse
    <3>. QED  BY <3>2 DEF Fifo!Next
  <2>2. CASE Enqueue(k)
    <3>1. PICK e : e = [kind |-> k, id |-> next_event_id]
      OBVIOUS
    <3>2. e \in Event
      BY <1>0, <3>1 DEF Event, EventIds
    <3>3. /\ count \in 0..Capacity - 1 /\ count' = count + 1 /\ head' = head
          /\ dropped' = dropped /\ items' = [items EXCEPT ![Slot(head, count)] = e]
      BY <1>0, <2>2, <3>1 DEF Enqueue
    <3>4. Queued(head', count', items') = Append(q, e)
      <4>1. PICK w : w = items'
        OBVIOUS
      <4>s. Slot(head, count) \in Index
        BY <1>0, SlotFacts
      <4>2. /\ w \in [Index -> Event] /\ w[Slot(head, count)] = e
            /\ \A i \in Index : i # Slot(head, count) => w[i] = items[i]
        BY <1>0, <3>2, <3>3, <4>1, <4>s
      <4>3. Queued(head, count + 1, w) = Append(Queued(head, count, items), e)
        <5>1. head \in Index /\ count \in 0..Capacity - 1 /\ items \in [Index -> Event]
          BY <1>0, <3>3
        <5>2. Writes(w, items, Slot(head, count), e)
          BY <4>2 DEF Writes
        <5>. QED  BY <3>2, <5>1, <5>2, WriteIsAppend
      <4>. QED  BY <3>3, <4>1, <4>3
    <3>5. Len(q) < Capacity
      BY <1>0, <1>2, <3>3
    <3>. HIDE DEF q
    <3>6. Fifo!Accept(k)
      BY <1>1, <1>3, <3>1, <3>3, <3>4, <3>5 DEF Fifo!Accept
    <3>. QED  BY <3>6 DEF Fifo!Next
  <2>. QED  BY <1>5, <2>1, <2>2, PushCases
<1>6. CASE Pop
  <2>1. /\ count \in 1..Capacity /\ head' = Slot(head, 1) /\ count' = count - 1
        /\ UNCHANGED <<items, dropped>>
    BY <1>0, <1>6 DEF Pop, Slot
  <2>2. Queued(head', count', items') = Tail(q)
    BY <1>0, <2>1, AdvanceIsTail
  <2>3. q # <<>>
    BY <1>2, <2>1
  <2>. HIDE DEF q
  <2>4. Fifo!Take
    BY <1>1, <2>1, <2>2, <2>3 DEF Fifo!Take
  <2>. QED  BY <2>4 DEF Fifo!Next
<1>7. CASE SelfTest
  <2>1. PICK e : e = [kind |-> "system_boot", id |-> next_event_id]
    OBVIOUS
  <2>2. e \in Event
    BY <1>0, <2>1 DEF Event, EventIds
  <2>3. /\ count \in 0..Capacity - 1 /\ count' = count /\ head' = Slot(head, 1)
        /\ dropped' = dropped /\ items' = [items EXCEPT ![Slot(head, count)] = e]
    BY <1>0, <1>7, <2>1 DEF SelfTest, TailIndex, Slot
  <2>4. items' \in [Index -> Event] /\ Queued(head, count + 1, items') = Append(q, e)
    <3>1. PICK w : w = items'
      OBVIOUS
    <3>s. Slot(head, count) \in Index
      BY <1>0, SlotFacts
    <3>2. /\ w \in [Index -> Event] /\ w[Slot(head, count)] = e
          /\ \A i \in Index : i # Slot(head, count) => w[i] = items[i]
      BY <1>0, <2>2, <2>3, <3>1, <3>s
    <3>3. Queued(head, count + 1, w) = Append(Queued(head, count, items), e)
      <4>1. head \in Index /\ count \in 0..Capacity - 1 /\ items \in [Index -> Event]
        BY <1>0, <2>3
      <4>2. Writes(w, items, Slot(head, count), e)
        BY <3>2 DEF Writes
      <4>. QED  BY <2>2, <4>1, <4>2, WriteIsAppend
    <3>. QED  BY <3>1, <3>2, <3>3
  <2>5. count + 1 \in 1..Capacity /\ (count + 1) - 1 = count
    BY <1>0, <2>3
  <2>6. Queued(head', count', items') = Tail(Append(q, e))
    BY <1>0, <2>3, <2>4, <2>5, AdvanceIsTail
  <2>7. Len(q) < Capacity
    BY <1>0, <1>2, <2>3
  <2>. HIDE DEF q
  <2>8. Fifo!AcceptAndTake("system_boot")
    BY <1>1, <1>3, <2>1, <2>3, <2>6, <2>7 DEF Fifo!AcceptAndTake
  <2>. QED  BY <1>0, <2>8 DEF Fifo!Next
<1>. QED  BY <1>4, <1>5, <1>6, <1>7, QueueSteps

\* wdc_event_queue is a FIFO: events come out in the order they went in, also
\* past the end of the array; a full queue refuses the newest and loses nothing
\* it holds; ids of queued events are distinct and never 0, also when the
\* counter wraps.  Here for any capacity and any id width above it.
THEOREM NetImplementsFifo == NetSpec => ImplementsFifo
<1>1. NetInit => Fifo!Init
  BY DEF NetInit, Init, Fifo!Init
<1>2. RingInv /\ [NetNext]_netVars => [Fifo!Next]_(Fifo!vars)
  BY FifoStep
<1>. QED  BY <1>1, <1>2, NetRingInv, PTL DEF NetSpec, ImplementsFifo, Fifo!Spec

-----------------------------------------------------------------------------
(***************************************************************************)
(* Request ids: 1..RequestModulus - 1 in a circle, because 0 is skipped    *)
(* when the counter has wrapped.                                           *)
(***************************************************************************)

RequestIds == 1..RequestModulus - 1

\* The id d steps after id n, for d below a round.
Later(n, d) == IF n + d < RequestModulus THEN n + d ELSE n + d - (RequestModulus - 1)

\* The ids given out follow each other, and so does the next one.
IdsFollow ==
    /\ next_request_id \in 0..RequestModulus - 1
    /\ ids \in Seq(RequestIds)
    /\ \A k \in 1..Len(ids) : \A l \in k + 1..Len(ids) :
          l - k < RequestModulus - 1 => ids[l] = Later(ids[k], l - k)
    /\ \A k \in 1..Len(ids) :
          Len(ids) + 1 - k < RequestModulus - 1
             => RequestId = Later(ids[k], Len(ids) + 1 - k)

LEMMA LaterFacts ==
    ASSUME NEW n \in RequestIds
    PROVE  /\ \A d \in 1..RequestModulus - 2 : Later(n, d) \in RequestIds /\ Later(n, d) # n
           /\ \A d \in 0..RequestModulus - 3 : Later(n, d + 1) = Later(Later(n, d), 1)
           /\ Later(n, 0) = n
BY NetAssumption DEF Later, RequestIds

\* next_request_id moves to the next id.
LEMMA RequestIdFacts ==
    ASSUME next_request_id \in 0..RequestModulus - 1
    PROVE  /\ RequestId \in RequestIds
           /\ next_request_id' = (RequestId + 1) % RequestModulus
                => /\ next_request_id' \in 0..RequestModulus - 1
                   /\ RequestId' = Later(RequestId, 1)
<1>0. RequestModulus \in Nat /\ RequestModulus > 2
  BY NetAssumption
<1>1. RequestId \in RequestIds
  BY <1>0 DEF RequestId, RequestIds
<1>2. CASE RequestId + 1 < RequestModulus
  <2>1. (RequestId + 1) % RequestModulus = RequestId + 1
    BY <1>0, <1>1, <1>2 DEF RequestIds
  <2>2. next_request_id' = RequestId + 1
          => RequestId' = RequestId + 1 /\ next_request_id' \in 0..RequestModulus - 1
    <3>1. RequestId' = IF next_request_id' = 0 THEN 1 ELSE next_request_id'
      BY DEF RequestId
    <3>. QED  BY <1>0, <1>1, <1>2, <3>1 DEF RequestIds
  <2>. QED  BY <1>1, <1>2, <2>1, <2>2 DEF Later
<1>3. CASE RequestId + 1 = RequestModulus
  <2>1. (RequestId + 1) % RequestModulus = 0
    BY <1>0, <1>1, <1>3
  <2>2. RequestId' = IF next_request_id' = 0 THEN 1 ELSE next_request_id'
    BY DEF RequestId
  <2>3. Later(RequestId, 1) = 1
    BY <1>0, <1>1, <1>3 DEF Later, RequestIds
  <2>. QED  BY <1>0, <1>1, <2>1, <2>2, <2>3
<1>. QED  BY <1>0, <1>1, <1>2, <1>3 DEF RequestIds

LEMMA TakeIds ==
    ASSUME IdsFollow, ids' = Append(ids, RequestId),
           next_request_id' = (RequestId + 1) % RequestModulus
    PROVE  IdsFollow'
<1>. DEFINE n == Len(ids)
            new == RequestId
<1>0. RequestModulus \in Nat /\ RequestModulus > 2
  BY NetAssumption
<1>1. /\ new \in RequestIds /\ next_request_id' \in 0..RequestModulus - 1
      /\ RequestId' = Later(new, 1)
  BY RequestIdFacts DEF IdsFollow
<1>2. ids \in Seq(RequestIds) /\ n \in Nat
  BY DEF IdsFollow
<1>3. /\ ids' \in Seq(RequestIds) /\ Len(ids') = n + 1
      /\ \A k \in 1..n : ids'[k] = ids[k] /\ ids[k] \in RequestIds
      /\ ids'[n + 1] = new
  BY <1>1, <1>2
<1>4. ASSUME NEW k \in 1..n, n + 1 - k < RequestModulus - 1
      PROVE  new = Later(ids[k], n + 1 - k)
  BY <1>4 DEF IdsFollow
<1>. HIDE DEF new
<1>5. ASSUME NEW k \in 1..Len(ids'), NEW l \in k + 1..Len(ids'), l - k < RequestModulus - 1
      PROVE  ids'[l] = Later(ids'[k], l - k)
  <2>1. CASE l = n + 1
    <3>1. k \in 1..n
      BY <1>2, <1>3, <2>1
    <3>2. new = Later(ids[k], n + 1 - k)
      BY <1>4, <1>5, <2>1, <3>1
    <3>. QED  BY <1>3, <2>1, <3>1, <3>2
  <2>2. CASE l # n + 1
    <3>1. k \in 1..n /\ l \in k + 1..n /\ l \in 1..n
      BY <1>2, <1>3, <2>2
    <3>2. ids[l] = Later(ids[k], l - k)
      BY <1>5, <3>1 DEF IdsFollow
    <3>. QED  BY <1>3, <3>1, <3>2
  <2>. QED  BY <2>1, <2>2
<1>6. ASSUME NEW k \in 1..Len(ids'), Len(ids') + 1 - k < RequestModulus - 1
      PROVE  Later(new, 1) = Later(ids'[k], Len(ids') + 1 - k)
  <2>1. CASE k = n + 1
    BY <1>2, <1>3, <2>1
  <2>2. CASE k # n + 1
    <3>1. k \in 1..n /\ n + 1 - k \in 0..RequestModulus - 3
      BY <1>0, <1>2, <1>3, <1>6, <2>2
    <3>2. new = Later(ids[k], n + 1 - k)
      BY <1>0, <1>2, <1>4, <3>1
    <3>3. Later(ids[k], (n + 1 - k) + 1) = Later(Later(ids[k], n + 1 - k), 1)
      BY <1>3, <3>1, LaterFacts
    <3>4. Len(ids') + 1 - k = (n + 1 - k) + 1
      BY <1>2, <1>3, <3>1
    <3>. QED  BY <1>3, <3>1, <3>2, <3>3, <3>4
  <2>. QED  BY <2>1, <2>2
<1>. QED  BY <1>1, <1>3, <1>5, <1>6 DEF IdsFollow, new

LEMMA IdsInit == NetInit => IdsFollow
<1>. SUFFICES ASSUME NetInit PROVE IdsFollow
  OBVIOUS
<1>1. ids = <<>> /\ next_request_id = 1
  BY DEF NetInit
<1>2. ids \in Seq(RequestIds) /\ Len(ids) = 0
  BY <1>1
<1>. QED  BY <1>1, <1>2, NetAssumption DEF IdsFollow

LEMMA IdsStep == IdsFollow /\ [NetNext]_netVars => IdsFollow'
<1>. SUFFICES ASSUME IdsFollow, [NetNext]_netVars PROVE IdsFollow'
  OBVIOUS
<1>1. CASE UNCHANGED <<next_request_id, ids>>
  <2>1. RequestId' = RequestId
    BY <1>1 DEF RequestId
  <2>. QED  BY <1>1, <2>1 DEF IdsFollow
<1>2. ASSUME NEW r, Take(r) PROVE IdsFollow'
  <2>1. ids' = Append(ids, RequestId) /\ next_request_id' = (RequestId + 1) % RequestModulus
    BY <1>2 DEF Take
  <2>. QED  BY <2>1, TakeIds
<1>3. ASSUME NEW r, Reject(r) \/ RejectLong(r) PROVE IdsFollow'
  BY <1>1, <1>3 DEF Reject, RejectLong, netVars, mediator, history
<1>4. ASSUME NEW s, SetState(s) PROVE IdsFollow'
  BY <1>1, <1>4 DEF SetState
<1>5. CASE NetDrain \/ OtherEvents \/ UNCHANGED netVars
  BY <1>1, <1>5 DEF NetDrain, OtherEvents, netVars, mediator, history
<1>. QED  BY <1>2, <1>3, <1>4, <1>5 DEF NetNext

\* No request is numbered 0, and any RequestModulus - 1 requests in a row, of
\* whatever operations, have different numbers, also across the wrap of
\* wdc_net's counter, for every width.
THEOREM NetRequestIdsDistinct == NetSpec => []RequestIdsDistinct
<1>1. NetSpec => []IdsFollow
  BY IdsInit, IdsStep, PTL DEF NetSpec
<1>2. IdsFollow => RequestIdsDistinct
  <2>. SUFFICES ASSUME IdsFollow, NEW k \in DOMAIN ids
                PROVE  /\ ids[k] # 0
                       /\ \A l \in k + 1..Len(ids) :
                             l < k + RequestModulus - 1 => ids[k] # ids[l]
    BY DEF RequestIdsDistinct
  <2>0. RequestModulus \in Nat
    BY NetAssumption
  <2>1. /\ ids \in Seq(RequestIds) /\ k \in 1..Len(ids) /\ Len(ids) \in Nat
        /\ ids[k] \in RequestIds
    BY DEF IdsFollow
  <2>2. ASSUME NEW l \in k + 1..Len(ids), l < k + RequestModulus - 1
        PROVE  ids[k] # ids[l]
    <3>1. l - k \in 1..RequestModulus - 2 /\ l - k < RequestModulus - 1
      BY <2>0, <2>1, <2>2
    <3>2. ids[l] = Later(ids[k], l - k)
      BY <2>1, <2>2, <3>1 DEF IdsFollow
    <3>. QED  BY <2>1, <3>1, <3>2, LaterFacts
  <2>. QED  BY <2>1, <2>2 DEF RequestIds
<1>. QED  BY <1>1, <1>2, PTL

-----------------------------------------------------------------------------
(***************************************************************************)
(* The mediator's records.                                                 *)
(***************************************************************************)

Records == [id : 0..RequestModulus - 1,
            text : Text \cup {"", "missing", "foreign", "long"},
            method : Allowed \cup {"", "missing", "other"}]

\* An operation without a method never gets one.
RecordInv ==
    /\ record \in [Requests -> Records] /\ taken \in [Requests -> Records]
    /\ RecordsTellTaken
    /\ \A op \in Requests : op # "http" => record[op].method = ""

\* What a rejected and what a taken request do to the records.
LEMMA CopyRecord ==
    ASSUME RecordInv, NEW op \in Requests, NEW m \in Allowed \cup {"", "missing", "other"},
           op # "http" => m = "",
           record' = [record EXCEPT ![op].method = m], taken' = taken
    PROVE  RecordInv'
<1>1. record \in [Requests -> Records] /\ taken \in [Requests -> Records]
  BY DEF RecordInv
<1>2. PICK e : e = [record[op] EXCEPT !.method = m]
  OBVIOUS
<1>3. /\ e \in Records /\ e.id = record[op].id /\ e.text = record[op].text /\ e.method = m
      /\ m = record[op].method => e = record[op]
  BY <1>1, <1>2 DEF Records
<1>4. record' = [record EXCEPT ![op] = e]
  BY <1>1, <1>2
<1>5. /\ record' \in [Requests -> Records] /\ record'[op] = e
      /\ \A x \in Requests : x # op => record'[x] = record[x]
  BY <1>1, <1>3, <1>4
<1>6. op # "http" => e = record[op]
  BY <1>3 DEF RecordInv
<1>. QED  BY <1>1, <1>3, <1>5, <1>6 DEF RecordInv, RecordsTellTaken

LEMMA TakeRecord ==
    ASSUME RecordInv, NEW op \in Requests, NEW e \in Records, op # "http" => e.method = "",
           record' = [record EXCEPT ![op] = e], taken' = [taken EXCEPT ![op] = e]
    PROVE  RecordInv'
<1>1. record \in [Requests -> Records] /\ taken \in [Requests -> Records]
  BY DEF RecordInv
<1>2. /\ record' \in [Requests -> Records] /\ taken' \in [Requests -> Records]
      /\ record'[op] = e /\ taken'[op] = e
      /\ \A x \in Requests : x # op => record'[x] = record[x] /\ taken'[x] = taken[x]
  BY <1>1
<1>. QED  BY <1>2 DEF RecordInv, RecordsTellTaken

LEMMA RecordInit == NetInit => RecordInv
<1>. SUFFICES ASSUME NetInit PROVE RecordInv
  OBVIOUS
<1>1. record = [op \in Requests |-> NoRecord] /\ taken = [op \in Requests |-> NoRecord]
  BY DEF NetInit
<1>2. NoRecord \in Records /\ NoRecord.method = ""
  BY NetAssumption DEF NoRecord, Records
<1>. QED  BY <1>1, <1>2 DEF RecordInv, RecordsTellTaken

LEMMA RecordStep == RecordInv /\ IdsFollow /\ [NetNext]_netVars => RecordInv'
<1>. SUFFICES ASSUME RecordInv, IdsFollow, [NetNext]_netVars PROVE RecordInv'
  OBVIOUS
<1>1. CASE UNCHANGED <<record, taken>>
  BY <1>1 DEF RecordInv, RecordsTellTaken
<1>r. ASSUME NEW r \in Request
      PROVE  /\ r.op \in Requests /\ r.text \in Text \cup {"", "missing", "foreign", "long"}
             /\ r.method \in Allowed \cup {"", "missing", "other"}
             /\ r.op # "http" => r.method = ""
  BY <1>r DEF Request, AnyRequest
<1>2. ASSUME NEW r \in Request, Take(r) PROVE RecordInv'
  <2>1. PICK e : e = [id |-> RequestId, text |-> r.text, method |-> r.method]
    OBVIOUS
  <2>2. RequestId \in 0..RequestModulus - 1
    BY RequestIdFacts, NetAssumption DEF IdsFollow, RequestIds
  <2>3. e \in Records /\ e.method = r.method
    BY <1>r, <2>1, <2>2 DEF Records
  <2>4. record' = [record EXCEPT ![r.op] = e] /\ taken' = [taken EXCEPT ![r.op] = e]
    BY <1>2, <2>1 DEF Take
  <2>. QED  BY <1>r, <2>3, <2>4, TakeRecord
<1>3. ASSUME NEW r \in Request, RejectLong(r) PROVE RecordInv'
  <2>1. record' = [record EXCEPT ![r.op].method = r.method] /\ taken' = taken
    BY <1>3 DEF RejectLong, CopyFails, history
  <2>. QED  BY <1>r, <2>1, CopyRecord
<1>4. ASSUME NEW r, Reject(r) PROVE RecordInv'
  BY <1>1, <1>4 DEF Reject, netVars, mediator, history
<1>5. ASSUME NEW s, SetState(s) PROVE RecordInv'
  BY <1>1, <1>5 DEF SetState
<1>6. CASE NetDrain \/ OtherEvents \/ UNCHANGED netVars
  BY <1>1, <1>6 DEF NetDrain, OtherEvents, netVars, mediator, history
<1>. QED  BY <1>2, <1>3, <1>4, <1>5, <1>6 DEF NetNext

\* The mediator's record of an operation is of the last request taken for it,
\* id and text together, over any mix of rejected requests: wdc_net copies the
\* method of an HTTP request before it knows that the URL fits, and nothing
\* else.
THEOREM NetRecordsTellTaken == NetSpec => []RecordsTellTaken
<1>1. NetSpec => []IdsFollow
  BY IdsInit, IdsStep, PTL DEF NetSpec
<1>2. NetSpec => []RecordInv
  BY <1>1, RecordInit, RecordStep, PTL DEF NetSpec
<1>3. RecordInv => RecordsTellTaken
  BY DEF RecordInv
<1>. QED  BY <1>2, <1>3, PTL


-----------------------------------------------------------------------------
(***************************************************************************)
(* The story of the link: a line of kinds at 0..n, 0 for what was drained  *)
(* last, that ends in c.                                                   *)
(***************************************************************************)

IsLast(L, n, k) == L[k] \in LinkKinds /\ \A j \in 0..n : L[j] \in LinkKinds => j <= k

AreNext(L, n, j, k) ==
    /\ j < k /\ L[j] \in LinkKinds /\ L[k] \in LinkKinds
    /\ \A i \in 0..n : L[i] \in LinkKinds => i <= j \/ k <= i

Tells(L, n, c) ==
    /\ \A k \in 0..n : IsLast(L, n, k) => L[k] = c
    /\ \A j, k \in 0..n : AreNext(L, n, j, k) => L[j] # L[k]

\* An event of another kind leaves the story as it is; a link event goes on
\* with it when it differs from its end.
LEMMA TellsMore ==
    ASSUME NEW n \in Nat, NEW L, NEW M, NEW c, NEW d,
           Tells(L, n, c), \A k \in 0..n : M[k] = L[k],
           \/ M[n + 1] \notin LinkKinds /\ d = c
           \/ M[n + 1] \in LinkKinds /\ M[n + 1] = d /\ d # c
    PROVE  Tells(M, n + 1, d)
<1>1. ASSUME NEW k \in 0..n + 1, IsLast(M, n + 1, k) PROVE M[k] = d
  <2>1. CASE k = n + 1
    BY <1>1, <2>1 DEF IsLast
  <2>2. CASE k # n + 1
    <3>1. k \in 0..n
      BY <2>2
    <3>2. M[n + 1] \notin LinkKinds
      BY <1>1, <3>1 DEF IsLast
    <3>3. IsLast(L, n, k)
      BY <1>1, <3>1 DEF IsLast
    <3>. QED  BY <3>1, <3>2, <3>3 DEF Tells
  <2>. QED  BY <2>1, <2>2
<1>2. ASSUME NEW j \in 0..n + 1, NEW k \in 0..n + 1, AreNext(M, n + 1, j, k)
      PROVE  M[j] # M[k]
  <2>1. CASE k = n + 1
    <3>1. j \in 0..n
      BY <1>2, <2>1 DEF AreNext
    <3>2. IsLast(L, n, j)
      BY <1>2, <2>1, <3>1 DEF AreNext, IsLast
    <3>3. L[j] = c
      BY <3>1, <3>2 DEF Tells
    <3>. QED  BY <1>2, <2>1, <3>1, <3>3 DEF AreNext
  <2>2. CASE k # n + 1
    <3>1. j \in 0..n /\ k \in 0..n
      BY <1>2, <2>2 DEF AreNext
    <3>2. AreNext(L, n, j, k)
      BY <1>2, <3>1 DEF AreNext
    <3>. QED  BY <3>1, <3>2 DEF Tells
  <2>. QED  BY <2>1, <2>2
<1>. QED  BY <1>1, <1>2 DEF Tells

\* Draining the oldest event keeps the story.
LEMMA TellsOn ==
    ASSUME NEW n \in Nat, NEW L, NEW M, NEW c, Tells(L, n + 1, c), L[0] \in LinkKinds,
           \A k \in 1..n : M[k] = L[k + 1],
           M[0] = IF L[1] \in LinkKinds THEN L[1] ELSE L[0]
    PROVE  Tells(M, n, c)
<1>. DEFINE f(k) == IF k = 0 THEN (IF L[1] \in LinkKinds THEN 1 ELSE 0) ELSE k + 1
<1>1. /\ \A k \in 0..n : f(k) \in 0..n + 1 /\ M[k] = L[f(k)]
      /\ \A j, k \in 0..n : j <= k <=> f(j) <= f(k)
  OBVIOUS
<1>2. \A i \in 0..n + 1 : L[i] \in LinkKinds => i = 0 \/ \E k \in 0..n : f(k) = i
  <2>. SUFFICES ASSUME NEW i \in 0..n + 1, L[i] \in LinkKinds, i # 0
                PROVE  \E k \in 0..n : f(k) = i
    OBVIOUS
  <2>1. i = 1 => f(0) = i
    OBVIOUS
  <2>2. i # 1 => i - 1 \in 0..n /\ f(i - 1) = i
    OBVIOUS
  <2>. QED  BY <2>1, <2>2
<1>3. \A k \in 0..n : 0 <= f(k)
  BY <1>1
<1>. HIDE DEF f
<1>4. ASSUME NEW k \in 0..n, IsLast(M, n, k) PROVE M[k] = c
  <2>1. ASSUME NEW i \in 0..n + 1, L[i] \in LinkKinds PROVE i <= f(k)
    <3>1. CASE i = 0
      BY <1>3, <3>1
    <3>2. ASSUME NEW j \in 0..n, f(j) = i PROVE i <= f(k)
      <4>1. M[j] \in LinkKinds
        BY <1>1, <2>1, <3>2
      <4>2. j <= k
        BY <1>4, <4>1 DEF IsLast
      <4>. QED  BY <1>1, <3>2, <4>2
    <3>. QED  BY <1>2, <2>1, <3>1, <3>2
  <2>2. IsLast(L, n + 1, f(k))
    BY <1>1, <1>4, <2>1 DEF IsLast
  <2>. QED  BY <1>1, <2>2 DEF Tells
<1>5. ASSUME NEW j \in 0..n, NEW k \in 0..n, AreNext(M, n, j, k) PROVE M[j] # M[k]
  <2>1. f(j) < f(k)
    BY <1>1, <1>5 DEF AreNext
  <2>2. ASSUME NEW i \in 0..n + 1, L[i] \in LinkKinds PROVE i <= f(j) \/ f(k) <= i
    <3>1. CASE i = 0
      BY <1>3, <3>1
    <3>2. ASSUME NEW l \in 0..n, f(l) = i PROVE i <= f(j) \/ f(k) <= i
      <4>1. M[l] \in LinkKinds
        BY <1>1, <2>2, <3>2
      <4>2. l <= j \/ k <= l
        BY <1>5, <4>1 DEF AreNext
      <4>. QED  BY <1>1, <3>2, <4>2
    <3>. QED  BY <1>2, <2>2, <3>1, <3>2
  <2>3. AreNext(L, n + 1, f(j), f(k))
    BY <1>1, <1>5, <2>1, <2>2 DEF AreNext
  <2>. QED  BY <1>1, <2>3 DEF Tells
<1>. QED  BY <1>4, <1>5 DEF Tells

\* The kinds of what was drained last and of the queued events.
Line(h, n, ring, t) ==
    [k \in 0..n |-> IF k = 0 THEN t ELSE ring[(h + k - 1) % Capacity].kind]

Ending == IF Connected THEN "net_connected" ELSE "net_disconnected"

\* Before the shell is up the link has no events.
Quiet ==
    /\ told = "net_disconnected" /\ ~Connected
    /\ \A k \in 1..count : Line(head, count, items, told)[k] \notin LinkKinds

StoryInv ==
    /\ told \in LinkKinds
    /\ link_lost = FALSE => Tells(Line(head, count, items, told), count, Ending)
    /\ link_lost \in BOOLEAN
    /\ boot # "up" => Quiet

LEMMA LineFacts ==
    ASSUME NEW h \in Index, NEW n \in 0..Capacity, NEW ring, NEW t
    PROVE  /\ Line(h, n, ring, t)[0] = t
           /\ \A k \in 1..n : Line(h, n, ring, t)[k] = ring[Slot(h, k - 1)].kind
<1>0. Capacity \in Nat \ {0} /\ h \in Int /\ n \in Nat
  BY QueueAssumption DEF Index
<1>1. ASSUME NEW k \in 1..n PROVE (h + k - 1) % Capacity = Slot(h, k - 1)
  <2>1. h + k - 1 = h + (k - 1)
    BY <1>0
  <2>. QED  BY <2>1 DEF Slot
<1>2. 0 \in 0..n /\ Line(h, n, ring, t)[0] = t
  BY <1>0 DEF Line
<1>3. ASSUME NEW k \in 1..n
      PROVE  Line(h, n, ring, t)[k] = ring[(h + k - 1) % Capacity].kind
  BY <1>0 DEF Line
<1>. QED  BY <1>1, <1>2, <1>3

\* An event that is queued goes to the end of the line ...
LEMMA EnqueueLine ==
    ASSUME RingInv, NEW k \in Kind, Enqueue(k), told' = told
    PROVE  LET L == Line(head, count, items, told)
               M == Line(head', count', items', told')
           IN  /\ count' = count + 1 /\ count \in Nat
               /\ \A j \in 0..count : M[j] = L[j]
               /\ M[count + 1] = k
<1>. DEFINE L == Line(head, count, items, told)
            M == Line(head', count', items', told')
<1>0. /\ Capacity \in Nat \ {0} /\ head \in Index /\ count \in 0..Capacity /\ count < Capacity
      /\ items \in [Index -> Event] /\ count' = count + 1 /\ head' = head
  BY QueueAssumption DEF RingInv, TypeOK, Enqueue
<1>1. PICK e : e = [kind |-> k, id |-> next_event_id]
  OBVIOUS
<1>2. e.kind = k /\ items' = [items EXCEPT ![Slot(head, count)] = e]
  BY <1>1 DEF Enqueue
<1>3. Slot(head, count) \in Index
  BY <1>0, SlotFacts
<1>4. /\ items'[Slot(head, count)] = e
      /\ \A i \in Index : i # Slot(head, count) => items'[i] = items[i]
  BY <1>0, <1>2, <1>3
<1>5. /\ L[0] = told /\ \A j \in 1..count : L[j] = items[Slot(head, j - 1)].kind
      /\ M[0] = told' /\ \A j \in 1..count' : M[j] = items'[Slot(head, j - 1)].kind
  <2>1. count' \in 0..Capacity
    BY <1>0
  <2>. QED  BY <1>0, <2>1, LineFacts
<1>. HIDE DEF L, M
<1>6. ASSUME NEW j \in 1..count PROVE M[j] = L[j]
  <2>1. j - 1 \in 0..Capacity - 1 /\ count \in 0..Capacity - 1 /\ j - 1 # count
        /\ j \in 1..count'
    BY <1>0
  <2>2. Slot(head, j - 1) # Slot(head, count) /\ Slot(head, j - 1) \in Index
    BY <1>0, <2>1, SlotFacts
  <2>. QED  BY <1>4, <1>5, <2>1, <2>2
<1>7. M[count + 1] = k
  <2>1. count + 1 \in 1..count' /\ (count + 1) - 1 = count
    BY <1>0
  <2>. QED  BY <1>2, <1>4, <1>5, <2>1
<1>. QED  BY <1>0, <1>5, <1>6, <1>7 DEF L, M

\* ... and one that is drained moves the line on.
LEMMA PopLine ==
    ASSUME RingInv, Pop
    PROVE  LET L == Line(head, count, items, told)
               M == Line(head', count', items', told')
           IN  /\ count = count' + 1 /\ count' \in Nat
               /\ \A j \in 1..count' : M[j] = L[j + 1]
               /\ L[0] = told /\ M[0] = told' /\ L[1] = items[head].kind
<1>. DEFINE L == Line(head, count, items, told)
            M == Line(head', count', items', told')
<1>0. /\ Capacity \in Nat \ {0} /\ head \in Index /\ count \in 1..Capacity
      /\ count' = count - 1 /\ items' = items /\ head' = Slot(head, 1)
  BY QueueAssumption DEF RingInv, TypeOK, Pop, Slot
<1>1. head' \in Index /\ count' \in 0..Capacity /\ count \in 0..Capacity /\ Slot(head, 0) = head
  BY <1>0, SlotFacts
<1>2. L[0] = told /\ \A j \in 1..count : L[j] = items[Slot(head, j - 1)].kind
  BY <1>0, <1>1, LineFacts
<1>3. M[0] = told' /\ \A j \in 1..count' : M[j] = items'[Slot(head', j - 1)].kind
  BY <1>1, LineFacts
<1>. HIDE DEF L, M
<1>4. ASSUME NEW j \in 1..count' PROVE M[j] = L[j + 1]
  <2>1. j + 1 \in 1..count /\ j - 1 \in 0..Capacity - 1 /\ (j - 1) + 1 = (j + 1) - 1
    BY <1>0
  <2>2. Slot(head', j - 1) = Slot(head, (j - 1) + 1)
    BY <1>0, <2>1, SlotFacts
  <2>. QED  BY <1>0, <1>2, <1>3, <2>1, <2>2
<1>5. L[1] = items[head].kind
  BY <1>0, <1>1, <1>2
<1>. QED  BY <1>0, <1>2, <1>3, <1>4, <1>5 DEF L, M

\* Before the link has events there is only the beginning of the story.
LEMMA FirstTells ==
    ASSUME NEW n \in Nat, NEW L, NEW c, L[0] = c, \A k \in 1..n : L[k] \notin LinkKinds
    PROVE  Tells(L, n, c)
<1>1. \A k \in 0..n : L[k] \in LinkKinds => k = 0
  OBVIOUS
<1>. QED  BY <1>1 DEF Tells, IsLast, AreNext

LEMMA StoryInit == NetInit => StoryInv
<1>. SUFFICES ASSUME NetInit PROVE StoryInv
  OBVIOUS
<1>1. /\ told = "net_disconnected" /\ ~Connected /\ count = 0 /\ link_lost = FALSE
      /\ RingInv
  BY RingInit DEF NetInit, Init, Connected
<1>2. Quiet
  BY <1>1 DEF Quiet
<1>3. Line(head, count, items, told)[0] = told /\ Ending = told
  BY <1>1, LineFacts DEF RingInv, TypeOK, Ending
<1>4. Tells(Line(head, count, items, told), count, Ending)
  BY <1>1, <1>3, FirstTells
<1>. QED  BY <1>1, <1>2, <1>4 DEF StoryInv, LinkKinds

\* A push of another kind of event, or of none when the queue is full.
LEMMA PushOther ==
    ASSUME RingInv, StoryInv, NEW k \in Kind, Push(k), k \notin LinkKinds,
           UNCHANGED <<mediator, history>>
    PROVE  /\ link_lost = FALSE => Tells(Line(head', count', items', told'), count', Ending')
           /\ Quiet => Quiet'
<1>. DEFINE L == Line(head, count, items, told)
            M == Line(head', count', items', told')
<1>0. UNCHANGED <<net_state, told, link_lost>> /\ Ending' = Ending
  BY DEF mediator, history, Ending, Connected
<1>1. CASE DropNewest
  BY <1>0, <1>1 DEF DropNewest, StoryInv, Quiet, Connected
<1>2. CASE Enqueue(k)
  <2>1. /\ count' = count + 1 /\ count \in Nat /\ M[count + 1] = k
        /\ \A j \in 0..count : M[j] = L[j]
    BY <1>0, <1>2, EnqueueLine
  <2>. HIDE DEF L, M
  <2>2. ASSUME link_lost = FALSE PROVE Tells(M, count', Ending')
    <3>1. Tells(L, count, Ending)
      BY <2>2 DEF StoryInv, L
    <3>2. Tells(M, count + 1, Ending)
      BY <2>1, <3>1, TellsMore
    <3>. QED  BY <1>0, <2>1, <3>2
  <2>3. ASSUME Quiet PROVE Quiet'
    <3>1. \A j \in 1..count : L[j] \notin LinkKinds
      BY <2>3 DEF Quiet, L
    <3>2. \A j \in 1..count' : M[j] \notin LinkKinds
      BY <2>1, <3>1
    <3>. QED  BY <1>0, <2>3, <3>2 DEF Quiet, M, Connected
  <2>. QED  BY <2>2, <2>3 DEF M
<1>. QED  BY <1>1, <1>2, PushCases

\* wdc_net_set_state: a link event is queued when it goes on with the story.
LEMMA SetStateStory ==
    ASSUME RingInv, StoryInv, NEW s, SetState(s)
    PROVE  StoryInv'
<1>. DEFINE L == Line(head, count, items, told)
            M == Line(head', count', items', told')
            k == IF s = "connected" THEN "net_connected" ELSE "net_disconnected"
<1>0. boot = "up" /\ boot' = boot /\ told' = told /\ net_state' = s /\ k \in Kind
      /\ k \in LinkKinds
  BY NetAssumption DEF SetState, LinkKinds
<1>1. Ending' = k
  BY <1>0 DEF Ending, Connected
<1>2. CASE ~LinkChanges(s)
  <2>1. UNCHANGED <<queue, link_lost>>
    BY <1>2 DEF SetState
  <2>2. Ending' = Ending
    BY <1>0, <1>1, <1>2 DEF LinkChanges, Ending, Connected
  <2>. QED  BY <1>0, <2>1, <2>2 DEF StoryInv, queue
<1>3. CASE LinkChanges(s)
  <2>1. Push(k) /\ link_lost' = (link_lost \/ dropped' # dropped)
    BY <1>3 DEF SetState
  <2>2. Ending # k
    BY <1>3 DEF LinkChanges, Ending, Connected
  <2>3. link_lost' \in BOOLEAN
    BY <2>1
  <2>. HIDE DEF k
  <2>4. CASE DropNewest
    <3>1. dropped' # dropped
      BY <2>4, QueueAssumption DEF DropNewest, RingInv, TypeOK
    <3>2. link_lost' = TRUE
      BY <2>1, <3>1
    <3>. QED  BY <1>0, <2>3, <3>2 DEF StoryInv
  <2>5. CASE Enqueue(k)
    <3>1. /\ count' = count + 1 /\ count \in Nat /\ M[count + 1] = k
          /\ \A j \in 0..count : M[j] = L[j]
      BY <1>0, <2>5, EnqueueLine
    <3>2. link_lost' = link_lost
      <4>1. dropped' = dropped /\ link_lost \in BOOLEAN
        BY <2>5 DEF Enqueue, StoryInv
      <4>. QED  BY <2>1, <4>1
    <3>. HIDE DEF L, M
    <3>3. ASSUME link_lost = FALSE PROVE Tells(M, count', Ending')
      <4>1. Tells(L, count, Ending)
        BY <3>3 DEF StoryInv, L
      <4>2. Tells(M, count + 1, k)
        BY <1>0, <2>2, <3>1, <4>1, TellsMore
      <4>. QED  BY <1>1, <3>1, <4>2
    <3>. QED  BY <1>0, <2>3, <3>2, <3>3 DEF StoryInv, M
  <2>. QED  BY <1>0, <2>1, <2>4, <2>5, PushCases
<1>. QED  BY <1>2, <1>3

LEMMA DrainStory ==
    ASSUME RingInv, StoryInv, NetDrain
    PROVE  StoryInv'
<1>. DEFINE L == Line(head, count, items, told)
            M == Line(head', count', items', told')
<1>0. /\ Pop /\ boot = "up" /\ boot' = boot /\ link_lost' = link_lost /\ Ending' = Ending
      /\ told' = IF items[head].kind \in LinkKinds THEN items[head].kind ELSE told
  BY DEF NetDrain, DrainOne, mediator, Ending, Connected
<1>1. /\ count = count' + 1 /\ count' \in Nat /\ \A j \in 1..count' : M[j] = L[j + 1]
      /\ L[0] = told /\ M[0] = told' /\ L[1] = items[head].kind
  BY <1>0, PopLine
<1>2. told \in LinkKinds /\ told' \in LinkKinds
  BY <1>0 DEF StoryInv
<1>. HIDE DEF L, M
<1>3. ASSUME link_lost = FALSE PROVE Tells(M, count', Ending')
  <2>1. Tells(L, count' + 1, Ending)
    BY <1>1, <1>3 DEF StoryInv, L
  <2>2. Tells(M, count', Ending)
    BY <1>0, <1>1, <1>2, <2>1, TellsOn
  <2>. QED  BY <1>0, <2>2
<1>. QED  BY <1>0, <1>2, <1>3 DEF StoryInv, M

\* The self-test pushes and pops while the link is quiet.
LEMMA SelfTestStory ==
    ASSUME RingInv, RingInv', Quiet, SelfTest, UNCHANGED <<mediator, history>>
    PROVE  Quiet'
<1>. DEFINE L == Line(head, count, items, told)
            M == Line(head', count', items', told')
<1>0. UNCHANGED <<net_state, told>>
  BY DEF mediator, history
<1>1. PICK e : e = [kind |-> "system_boot", id |-> next_event_id]
  OBVIOUS
<1>2. /\ count < Capacity /\ count' = count /\ head' = Slot(head, 1)
      /\ items' = [items EXCEPT ![Slot(head, count)] = e] /\ e.kind \notin LinkKinds
  BY <1>1 DEF SelfTest, TailIndex, Slot, LinkKinds
<1>3. /\ Capacity \in Nat \ {0} /\ head \in Index /\ head' \in Index
      /\ count \in 0..Capacity /\ items \in [Index -> Event]
  BY QueueAssumption DEF RingInv, TypeOK
<1>4. \A j \in 1..count : L[j] = items[Slot(head, j - 1)].kind
  BY <1>3, LineFacts
<1>5. \A j \in 1..count : M[j] = items'[Slot(head', j - 1)].kind
  <2>1. count' \in 0..Capacity /\ 1..count' = 1..count
    BY <1>2, <1>3
  <2>2. \A j \in 1..count' : M[j] = items'[Slot(head', j - 1)].kind
    BY <1>3, <2>1, LineFacts
  <2>. QED  BY <2>1, <2>2
<1>. HIDE DEF L, M
<1>6. ASSUME NEW j \in 1..count PROVE M[j] \notin LinkKinds
  <2>1. j - 1 \in 0..Capacity - 1 /\ (j - 1) + 1 = j /\ j \in 0..Capacity - 1
        /\ count \in 0..Capacity - 1
    BY <1>2, <1>3
  <2>2. Slot(head', j - 1) = Slot(head, j)
    BY <1>2, <1>3, <2>1, SlotFacts
  <2>3. Slot(head, j) \in Index /\ Slot(head, count) \in Index
        /\ (Slot(head, j) = Slot(head, count) => j = count)
    BY <1>3, <2>1, SlotFacts
  <2>4. CASE j = count
    BY <1>2, <1>3, <1>5, <2>2, <2>3, <2>4
  <2>5. CASE j # count
    <3>1. j + 1 \in 1..count /\ (j + 1) - 1 = j
      BY <1>3, <2>5
    <3>2. items'[Slot(head, j)] = items[Slot(head, j)]
      BY <1>2, <1>3, <2>3, <2>5
    <3>3. L[j + 1] \notin LinkKinds /\ L[j + 1] = items[Slot(head, j)].kind
      BY <1>4, <3>1 DEF Quiet, L
    <3>. QED  BY <1>5, <2>2, <3>2, <3>3
  <2>. QED  BY <2>4, <2>5
<1>. QED  BY <1>0, <1>2, <1>6 DEF Quiet, Connected, M

LEMMA StoryStep == RingInv /\ StoryInv /\ [NetNext]_netVars => StoryInv'
<1>. SUFFICES ASSUME RingInv, StoryInv, [NetNext]_netVars PROVE StoryInv'
  OBVIOUS
<1>0. "safety_state_changed" \in Kind /\ "safety_state_changed" \notin LinkKinds
  BY QueueAssumption DEF LinkKinds
<1>1. ASSUME UNCHANGED <<queue, net_state, told, link_lost>>, boot' = boot \/ boot # "up"
      PROVE  StoryInv'
  <2>1. Ending' = Ending /\ (Connected' <=> Connected)
    BY <1>1 DEF Ending, Connected
  <2>2. Quiet' <=> Quiet
    BY <1>1, <2>1 DEF Quiet, queue
  <2>. QED  BY <1>1, <2>1, <2>2 DEF StoryInv, queue
<1>2. ASSUME NEW r, Reject(r) \/ RejectLong(r) \/ Take(r) PROVE StoryInv'
  BY <1>1, <1>2 DEF Reject, RejectLong, Take, netVars, vars, queue, mediator, history
<1>3. ASSUME NEW s, SetState(s) PROVE StoryInv'
  BY <1>3, SetStateStory
<1>4. CASE NetDrain
  BY <1>4, DrainStory
<1>5. CASE OtherEvents
  <2>0. UNCHANGED <<mediator, history>> /\ UNCHANGED <<net_state, told, link_lost>>
    BY <1>5 DEF OtherEvents, mediator, history
  <2>1. ASSUME Push("safety_state_changed"), boot' = boot \/ boot # "up" PROVE StoryInv'
    <3>1. /\ link_lost = FALSE => Tells(Line(head', count', items', told'), count', Ending')
          /\ Quiet => Quiet'
      BY <1>0, <2>0, <2>1, PushOther
    <3>. QED  BY <2>0, <2>1, <3>1 DEF StoryInv
  <2>2. CASE SafetyPosts
    BY <1>1, <2>0, <2>1, <2>2 DEF SafetyPosts
  <2>3. CASE Post("safety_state_changed")
    BY <2>1, <2>3 DEF Post
  <2>4. CASE SelfTest
    <3>1. Quiet /\ boot' = "up"
      BY <2>4 DEF SelfTest, StoryInv
    <3>2. RingInv'
      BY RingStep
    <3>3. Quiet'
      BY <2>0, <2>4, <3>1, <3>2, SelfTestStory
    <3>4. Tells(Line(head', count', items', told'), count', Ending')
      <4>1. /\ head' \in Index /\ count' \in 0..Capacity /\ count' \in Nat
        BY <3>2, QueueAssumption DEF RingInv, TypeOK
      <4>2. Line(head', count', items', told')[0] = told'
        BY <4>1, LineFacts
      <4>3. Ending' = told' /\ \A k \in 1..count' :
                Line(head', count', items', told')[k] \notin LinkKinds
        BY <3>3 DEF Quiet, Ending, Connected
      <4>. QED  BY <4>1, <4>2, <4>3, FirstTells
    <3>. QED  BY <2>0, <3>1, <3>3, <3>4 DEF StoryInv
  <2>. QED  BY <1>5, <2>2, <2>3, <2>4 DEF OtherEvents
<1>6. CASE UNCHANGED netVars
  BY <1>1, <1>6 DEF netVars, vars, queue, mediator, history
<1>. QED  BY <1>2, <1>3, <1>4, <1>5, <1>6 DEF NetNext

\* Unless a full queue dropped a link event, the events wdc_net_set_state posts
\* tell the connection's story, through draining, the ring's wrap and the
\* events of others: they alternate, and the last says what the connection is.
THEOREM NetLinkIsTold == NetSpec => []LinkIsTold
<1>1. NetSpec => []StoryInv
  BY NetRingInv, StoryInit, StoryStep, PTL DEF NetSpec
<1>2. RingInv /\ StoryInv => LinkIsTold
  <2>. SUFFICES ASSUME RingInv, StoryInv, link_lost = FALSE
                PROVE  /\ \A k \in LinkStory :
                             (\A j \in LinkStory : j <= k) => LinkAt(k) = Ending
                       /\ \A j, k \in LinkStory :
                             j < k /\ (\A i \in LinkStory : i <= j \/ k <= i)
                                => LinkAt(j) # LinkAt(k)
    BY DEF LinkIsTold, Ending, StoryInv
  <2>. DEFINE L == Line(head, count, items, told)
  <2>1. Tells(L, count, Ending)
    BY DEF StoryInv
  <2>2. \A k \in 0..count : LinkAt(k) = L[k]
    BY DEF LinkAt, Line
  <2>3. \A k : k \in LinkStory <=> k \in 0..count /\ L[k] \in LinkKinds
    BY <2>2 DEF LinkStory
  <2>. HIDE DEF L
  <2>4. ASSUME NEW k \in LinkStory, \A j \in LinkStory : j <= k PROVE LinkAt(k) = Ending
    <3>1. IsLast(L, count, k)
      BY <2>3, <2>4 DEF IsLast
    <3>. QED  BY <2>1, <2>2, <2>3, <3>1 DEF Tells
  <2>5. ASSUME NEW j \in LinkStory, NEW k \in LinkStory, j < k,
               \A i \in LinkStory : i <= j \/ k <= i
        PROVE  LinkAt(j) # LinkAt(k)
    <3>1. AreNext(L, count, j, k)
      BY <2>3, <2>5 DEF AreNext
    <3>. QED  BY <2>1, <2>2, <2>3, <3>1 DEF Tells
  <2>. QED  BY <2>4, <2>5
<1>. QED  BY <1>1, <1>2, NetRingInv, PTL

=============================================================================
