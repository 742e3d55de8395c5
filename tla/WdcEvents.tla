----------------------------- MODULE WdcEvents -----------------------------
(***************************************************************************)
(* The shell's internal event queue (wdc_event_queue.c): a ring of fixed   *)
(* capacity that drops the newest event when full and numbers the events   *)
(* it takes in, skipping id 0 when the 32-bit counter wraps; and the order *)
(* in which shell_main first uses it.                                      *)
(*                                                                         *)
(* An event is its type and its id: wdc_event_make leaves the id 0, so it  *)
(* is always the queue that assigns it.  Queue and users run on one task.  *)
(***************************************************************************)
EXTENDS Integers

CONSTANTS
    Kind,         \* event types
    Capacity,     \* WDC_EVENT_QUEUE_CAPACITY_DEFAULT
    IdModulus,    \* 2^32, the size of a uint32_t
    MaxDropped    \* bound: how many events are dropped

ASSUME QueueAssumption ==
    /\ {"system_boot", "safety_state_changed"} \subseteq Kind
    /\ Capacity \in Nat \ {0}
    /\ IdModulus \in Nat /\ IdModulus > Capacity + 1
    /\ MaxDropped \in Nat

VARIABLES
    head, count, items, next_event_id, dropped,   \* WdcEventQueue
    boot,       \* how far shell_main is: "safety", "self_test", "up"
    self_test   \* the event type the internal event self-test got back

queue == <<head, count, items, next_event_id, dropped>>
vars == <<head, count, items, next_event_id, dropped, boot, self_test>>

Index == 0..Capacity - 1
Blank == "blank"
Event == [kind : Kind \cup {Blank}, id : 0..IdModulus - 1]

\* wdc_event_queue_init
Init ==
    /\ head = 0 /\ count = 0 /\ dropped = 0
    /\ items = [i \in Index |-> [kind |-> Blank, id |-> 0]]
    /\ next_event_id = 1
    /\ boot = "safety" /\ self_test = Blank

TailIndex == (head + count) % Capacity

IdAfter_m1(id) == (id + 1) % IdModulus   \* mutant: 0 is used as an id
IdAfter(id) == LET n == (id + 1) % IdModulus IN IF n = 0 THEN 1 ELSE n

\* wdc_event_queue_push
Push(k) ==
    \/ /\ count >= Capacity
       /\ dropped < MaxDropped
       /\ dropped' = dropped + 1
       /\ UNCHANGED <<head, count, items, next_event_id>>
    \/ /\ count < Capacity
       /\ items' = [items EXCEPT ![TailIndex] = [kind |-> k, id |-> next_event_id]]
       /\ next_event_id' = IdAfter(next_event_id)
       /\ count' = count + 1
       /\ UNCHANGED <<head, dropped>>

\* wdc_event_queue_pop
Pop_m1 ==   \* mutant: the head does not wrap
    /\ count > 0
    /\ head' = head + 1
    /\ count' = count - 1
    /\ UNCHANGED <<items, next_event_id, dropped>>
Pop ==
    /\ count > 0
    /\ head' = (head + 1) % Capacity
    /\ count' = count - 1
    /\ UNCHANGED <<items, next_event_id, dropped>>

-----------------------------------------------------------------------------

\* wdc_safety_init, after wdc_events_init, posts its state unless it fails.
SafetyPosts ==
    /\ boot = "safety"
    /\ boot' = "self_test"
    /\ Push("safety_state_changed") \/ UNCHANGED queue
    /\ UNCHANGED self_test

\* wdc_shell_run_internal_event_self_test: post a SYSTEM_BOOT event, take the
\* oldest event.
SelfTest ==
    /\ boot = "self_test"
    /\ boot' = "up"
    /\ count < Capacity
    /\ items' = [items EXCEPT ![TailIndex] =
                    [kind |-> "system_boot", id |-> next_event_id]]
    /\ self_test' = items'[head].kind
    /\ next_event_id' = IdAfter(next_event_id)
    /\ head' = (head + 1) % Capacity
    /\ UNCHANGED <<count, dropped>>

\* From then on the safety supervisor and the network mediator post, and the
\* shell task drains.
Post(k) ==
    /\ boot = "up"
    /\ Push(k)
    /\ UNCHANGED <<boot, self_test>>

DrainOne ==
    /\ boot = "up"
    /\ Pop
    /\ UNCHANGED <<boot, self_test>>

Next ==
    \/ SafetyPosts \/ SelfTest
    \/ \E k \in Kind : Post(k)
    \/ DrainOne

Spec == Init /\ [][Next]_vars

-----------------------------------------------------------------------------
(***************************************************************************)
(* Properties                                                              *)
(***************************************************************************)

\* The ring's indices stay inside the array and its counters keep their types.
TypeOK ==
    /\ head \in Index /\ count \in 0..Capacity
    /\ items \in [Index -> Event]
    /\ next_event_id \in 1..IdModulus - 1
    /\ dropped \in 0..MaxDropped
    /\ boot \in {"safety", "self_test", "up"}
    /\ self_test \in Kind \cup {Blank}

Fifo == INSTANCE EventFifo WITH
    Ids   <- 1..IdModulus - 1,
    queue <- [k \in 1..count |-> items[(head + k - 1) % Capacity]],
    lost  <- dropped

\* The ring is a FIFO: events come out in the order they went in, also past
\* the end of the array; a full queue refuses the newest and loses nothing it
\* holds; ids of queued events are distinct and never 0, also past 2^32.
ImplementsFifo == Fifo!Spec

\* The internal event self-test gets back the event it posted ("if
\* (out.event_type != WDC_EVENT_SYSTEM_BOOT || ...) return WDC_ERR_BAD_ENCODING",
\* shell_main.c).
SelfTestPasses == boot = "up" => self_test = "system_boot"

=============================================================================
