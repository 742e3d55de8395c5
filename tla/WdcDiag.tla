------------------------------- MODULE WdcDiag -------------------------------
(***************************************************************************)
(* The diagnostic log (wdc_diag.c): a ring that overwrites its oldest      *)
(* record when full, its counters, and the breadcrumb of the last fault.   *)
(* A record is its number and its level: texts and times are left out.     *)
(***************************************************************************)
EXTENDS Naturals, Sequences, FiniteSets

CONSTANT RingCapacity   \* WDC_DIAG_RING_CAPACITY

ASSUME DiagAssumption == RingCapacity \in Nat \ {0}

VARIABLES
    diag,      \* s_ring, s_head, s_count, s_next_seq, s_dropped, s_fault_count
    crumb,     \* s_breadcrumb; its generation is 0 until there is one
    logged     \* history: every level logged since wdc_diag_init

diagVars == <<diag, crumb, logged>>

NoRecord == [seq |-> 0, level |-> "none"]
NoCrumb == [generation |-> 0, kind |-> "none", status |-> "OK",
            outcome |-> "not_started"]

\* wdc_diag_init
DiagInit ==
    /\ diag = [ring |-> [i \in 0..RingCapacity - 1 |-> NoRecord], head |-> 0,
               count |-> 0, next |-> 1, dropped |-> 0, faults |-> 0]
    /\ crumb = NoCrumb
    /\ logged = <<>>

\* The slot wdc_diag_log takes, in a ring that has room and in a full one.
LogSlot_m1(d) == (d.head + d.count - 1) % RingCapacity   \* mutant: the newest
LogSlot(d) == IF d.count < RingCapacity THEN (d.head + d.count) % RingCapacity
              ELSE d.head

\* wdc_diag_log
WithRecord(d, level) ==
    LET full == d.count = RingCapacity
    IN  [ring    |-> [d.ring EXCEPT ![LogSlot(d)] =
                        [seq |-> d.next, level |-> level]],
         head    |-> IF full THEN (d.head + 1) % RingCapacity ELSE d.head,
         count   |-> IF full THEN d.count ELSE d.count + 1,
         next    |-> d.next + 1,
         dropped |-> IF full THEN d.dropped + 1 ELSE d.dropped,
         faults  |-> IF level = "error" THEN d.faults + 1 ELSE d.faults]

\* A call for each of the levels, in their order.
WithRecords(d, levels) ==
    LET after[n \in 0..Len(levels)] ==
            IF n = 0 THEN d ELSE WithRecord(after[n - 1], levels[n])
    IN  after[Len(levels)]

Log(levels) ==
    /\ diag' = WithRecords(diag, levels)
    /\ logged' = logged \o levels

\* wdc_diag_record_breadcrumb
RecordBreadcrumb(kind, status, outcome) ==
    crumb' = [generation |-> crumb.generation + 1, kind |-> kind,
              status |-> status, outcome |-> outcome]

\* wdc_diag_get
DiagGet(i) == diag.ring[(diag.head + i) % RingCapacity]

-----------------------------------------------------------------------------
(***************************************************************************)
(* Properties                                                              *)
(***************************************************************************)

\* What wdc_diag_get returns, oldest first, is the tail of everything logged,
\* numbered without a gap, and the metrics count what is missing and how many
\* records, kept or not, were errors.
LogKeepsTail ==
    LET n == Len(logged)
    IN  /\ diag.count + diag.dropped = n
        /\ \A i \in 0..diag.count - 1 :
              LET at == diag.dropped + i + 1
              IN  DiagGet(i) = [seq |-> at, level |-> logged[at]]
        /\ diag.faults = Cardinality({k \in 1..n : logged[k] = "error"})

=============================================================================
