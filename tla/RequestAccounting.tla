------------------------- MODULE RequestAccounting -------------------------
(***************************************************************************)
(* The host-owned request accounting of a decision runtime                 *)
(* (src/crates/termivar-scanner/src/runtime_budget.rs) together with the   *)
(* metered HTTP collector that spends it (collect_built_request in         *)
(* http_evidence/request_broker.rs).                                       *)
(*                                                                         *)
(* Every clone of a RequestAccountingBroker shares one mutex-guarded state *)
(* and one async gate.  A collector takes a lease before it dispatches,    *)
(* holds the gate around each body read, charges every delivered byte, and *)
(* leaves a receipt when its lease is dropped, however it ended.  A step   *)
(* here is one critical section of the state lock, or the code between two *)
(* awaits of a collector.                                                  *)
(*                                                                         *)
(* Left out: action ids, elapsed times and the per-origin breakdown of the *)
(* passive counter, which no limit reads.  The additions saturate at u64   *)
(* and u32 far above the limits that stop them, and the one that is        *)
(* checked (request bodies) refuses at an overflow exactly what the limit  *)
(* would refuse.                                                           *)
(***************************************************************************)
EXTENDS Integers, Sequences, FiniteSets, Functions

CONSTANTS
    Collectors,               \* tasks that share the accounting authority
    None,                     \* Option::None, and the free gate
    \* RuntimeBudget
    max_total_requests, max_response_bytes, max_request_body_bytes,
    max_active_verifications,
    max_dispatch_receipts,    \* HARD_MAX_TRANSPORT_DISPATCH_RECEIPTS
    max_body_bytes,           \* HttpEvidencePolicy: bytes retained per response
    \* the requests made and the peers met
    RequestBodies,            \* sizes of a request body
    ContentLengths,           \* declared lengths of a response body
    MaxChunk                  \* largest chunk transport delivers

(***************************************************************************)
(* Zero is a valid, fail-closed value of every budget dimension.           *)
(***************************************************************************)
ASSUME CollectorsAssumption == None \notin Collectors /\ IsFiniteSet(Collectors)
ASSUME BudgetAssumption ==
    /\ max_total_requests \in Nat
    /\ max_response_bytes \in Nat
    /\ max_request_body_bytes \in Nat
    /\ max_active_verifications \in Nat
    /\ max_dispatch_receipts \in Nat
    /\ max_body_bytes \in Nat
ASSUME PeerAssumption ==
    /\ RequestBodies \subseteq Nat
    /\ ContentLengths \subseteq Nat
    /\ None \notin ContentLengths
    /\ MaxChunk \in Nat \ {0}

Stages == {"Passive", "Active"}
TransportDispatchOutcome ==
    {"Completed", "TransportFailure", "RequestTimeout", "ResponseBudgetReached",
     "Cancelled"}

\* An unclassified outcome is none of these.
ASSUME OutcomeAssumption == None \notin TransportDispatchOutcome

(***************************************************************************)
(* Where a collector is: `prepared` has an advisory preflight,             *)
(* `requesting` awaits the response head, `reading` awaits the read gate,  *)
(* `gated` holds it and awaits a chunk, `closing` has left the timeout     *)
(* future and is about to drop its lease.                                  *)
(***************************************************************************)
InFlight == {"requesting", "reading", "gated"}
Phases   == {"idle", "prepared", "closing"} \cup InFlight

TransportDispatchReceipt ==
    [sequence : Nat, stage : Stages, request_body_bytes : Nat,
     response_bytes : Nat, outcome : TransportDispatchOutcome]

\* A collector with its RequestAccountingLease and the response it assembles:
\* body_limit caps `retained`, the bytes kept of the `response_bytes` charged.
Collector ==
    [phase : Phases, stage : Stages, body_limit : Nat, sequence : Nat,
     request_body_bytes : Nat, response_bytes : Nat,
     response_budget_reached : BOOLEAN, expected : ContentLengths \cup {None},
     retained : Nat, truncated : BOOLEAN, body_complete : BOOLEAN,
     outcome : TransportDispatchOutcome \cup {None}]

IdleCollector ==
    [phase |-> "idle", stage |-> "Passive", body_limit |-> 0, sequence |-> 0,
     request_body_bytes |-> 0, response_bytes |-> 0,
     response_budget_reached |-> FALSE, expected |-> None,
     retained |-> 0, truncated |-> FALSE, body_complete |-> FALSE,
     outcome |-> None]

VARIABLES
    snapshot,                   \* RequestAccountingState.snapshot
    next_dispatch_sequence,
    dispatch_receipts,          \* in the order the leases were dropped
    omitted_dispatch_receipts,
    response_read_gate,         \* the collector that holds it, or None
    collector                   \* collector[c], each task's own state

accounting == <<snapshot, next_dispatch_sequence, dispatch_receipts,
                omitted_dispatch_receipts>>
vars == <<snapshot, next_dispatch_sequence, dispatch_receipts,
          omitted_dispatch_receipts, response_read_gate, collector>>

RequestAccountingSnapshot ==
    [total_requests : Nat, passive_requests : Nat, active_verifications : Nat,
     request_body_bytes : Nat, response_bytes : Nat]

Init ==
    /\ snapshot = [total_requests |-> 0, passive_requests |-> 0,
                   active_verifications |-> 0, request_body_bytes |-> 0,
                   response_bytes |-> 0]
    /\ next_dispatch_sequence = 0
    /\ dispatch_receipts = <<>>
    /\ omitted_dispatch_receipts = 0
    /\ response_read_gate = None
    /\ collector = [c \in Collectors |-> IdleCollector]

Lesser(a, b) == IF a <= b THEN a ELSE b
SaturatingSub(a, b) == IF a >= b THEN a - b ELSE 0

RemainingResponseBytes ==
    SaturatingSub(max_response_bytes, snapshot.response_bytes)

(***************************************************************************)
(* Admission                                                               *)
(***************************************************************************)
CheckRequestLimits(stage, body) ==
    /\ snapshot.total_requests < max_total_requests
    /\ snapshot.response_bytes < max_response_bytes
    /\ snapshot.request_body_bytes + body <= max_request_body_bytes
    /\ stage = "Active" => snapshot.active_verifications < max_active_verifications

\* The runtime asks before it commits to an action; nothing is reserved, and
\* what it learns becomes the response allowance of the execution.
Preflight(c, stage) ==
    /\ collector[c].phase = "idle"
    /\ CheckRequestLimits(stage, 0)
    /\ collector' = [collector EXCEPT
           ![c] = [IdleCollector EXCEPT
               !.phase = "prepared", !.stage = stage,
               !.body_limit = Lesser(max_body_bytes, RemainingResponseBytes)]]
    /\ UNCHANGED <<accounting, response_read_gate>>

\* Bug: the advisory preflight is trusted.
AdmittedByPreflight(stage, body) == body <= max_request_body_bytes

\* The guards of a dispatch, evaluated again under the lock that records it.
Admitted(stage, body) == CheckRequestLimits(stage, body)

RecordDispatch(stage, body) ==
    IF stage = "Passive"
    THEN [snapshot EXCEPT !.total_requests = @ + 1, !.request_body_bytes = @ + body,
                          !.passive_requests = @ + 1]
    ELSE [snapshot EXCEPT !.total_requests = @ + 1, !.request_body_bytes = @ + body,
                          !.active_verifications = @ + 1]

\* Bug: a dispatch is numbered by the receipts already recorded.
NextSequenceByReceipts == Len(dispatch_receipts)

NextSequence == next_dispatch_sequence + 1

\* A lease is taken and the request handed to transport.  Callers that carry
\* no execution limits come here without a preflight.
TryBegin(c, stage, body) ==
    /\ \/ collector[c].phase = "idle"
       \/ collector[c].phase = "prepared" /\ collector[c].stage = stage
    /\ Admitted(stage, body)
    /\ snapshot' = RecordDispatch(stage, body)
    /\ next_dispatch_sequence' = NextSequence
    /\ collector' = [collector EXCEPT
           ![c] = [IdleCollector EXCEPT
               !.phase = "requesting", !.stage = stage,
               !.sequence = next_dispatch_sequence, !.request_body_bytes = body,
               !.body_limit = IF collector[c].phase = "prepared"
                              THEN collector[c].body_limit ELSE max_body_bytes]]
    /\ UNCHANGED <<dispatch_receipts, omitted_dispatch_receipts, response_read_gate>>

\* The preflight is stale: the dispatch is refused and nothing is charged.
RefuseDispatch(c, body) ==
    /\ collector[c].phase = "prepared"
    /\ ~Admitted(collector[c].stage, body)
    /\ collector' = [collector EXCEPT ![c] = IdleCollector]
    /\ UNCHANGED <<accounting, response_read_gate>>

(***************************************************************************)
(* Collection                                                              *)
(***************************************************************************)
ReceiveHead(c, expected) ==
    /\ collector[c].phase = "requesting"
    /\ collector' = [collector EXCEPT ![c].phase = "reading", ![c].expected = expected]
    /\ UNCHANGED <<accounting, response_read_gate>>

PerRequestRemaining(c) == SaturatingSub(collector[c].body_limit, collector[c].retained)

\* May the holder of the gate read on?
MayRead(c) == PerRequestRemaining(c) > 0 /\ RemainingResponseBytes > 0

\* Bug: reads are not serialized.
GateFreeAlways == TRUE

GateFree == response_read_gate = None

\* The gate is taken and the allowances are looked at: no await lies between.
\* What they allow is read after an await, when only the gate protects it.
AcquireResponseRead(c) ==
    /\ collector[c].phase = "reading"
    /\ GateFree
    /\ MayRead(c)
    /\ response_read_gate' = c
    /\ collector' = [collector EXCEPT ![c].phase = "gated"]
    /\ UNCHANGED accounting

\* The outcome of a response that was collected.
CollectedOutcome(reached) == IF reached THEN "ResponseBudgetReached" ELSE "Completed"

\* Bug: only a declared length tells that a response was cut short.
StoppedShortDeclared(l) == IF l.expected = None THEN FALSE ELSE l.retained < l.expected

\* A response whose length is unknown is cut short wherever its reading stops.
StoppedShort(l) == IF l.expected = None THEN TRUE ELSE l.retained < l.expected

StopReading(c) ==
    /\ collector[c].phase = "reading"
    /\ GateFree
    /\ ~MayRead(c)
    /\ collector' = [collector EXCEPT
           ![c].phase = "closing",
           ![c].truncated = StoppedShort(collector[c]),
           ![c].outcome = CollectedOutcome(collector[c].response_budget_reached)]
    /\ UNCHANGED <<accounting, response_read_gate>>

\* A guard is dropped at the end of a turn of the loop, and wherever it is left.
GateReleasedBy(c) == IF response_read_gate = c THEN None ELSE response_read_gate

\* Transport never delivers more than a declared length (hyper).
Deliverable(c, bytes) ==
    collector[c].expected # None =>
        collector[c].response_bytes + bytes <= collector[c].expected

ReachesBudget(bytes, session) == bytes > 0 /\ bytes >= session

\* How much of a chunk is kept, within both remaining allowances.
RetainedOf(c, bytes) ==
    Lesser(Lesser(bytes, RemainingResponseBytes), PerRequestRemaining(c))

\* A chunk that does not fit is the last one.
CutsShort(c, bytes) == RetainedOf(c, bytes) < bytes

ReadChunk(c, bytes) ==
    /\ collector[c].phase = "gated"
    /\ Deliverable(c, bytes)
    /\ LET reached == \/ collector[c].response_budget_reached
                      \/ ReachesBudget(bytes, RemainingResponseBytes)
           cut == CutsShort(c, bytes)
       IN  collector' = [collector EXCEPT
               ![c].response_bytes = @ + bytes,
               ![c].response_budget_reached = reached,
               ![c].retained = @ + RetainedOf(c, bytes),
               ![c].truncated = cut,
               ![c].phase = IF cut THEN "closing" ELSE "reading",
               ![c].outcome = IF cut THEN CollectedOutcome(reached) ELSE None]
    /\ snapshot' = [snapshot EXCEPT !.response_bytes = @ + bytes]
    /\ response_read_gate' = GateReleasedBy(c)
    /\ UNCHANGED <<next_dispatch_sequence, dispatch_receipts, omitted_dispatch_receipts>>

MeetsLength(l) == l.expected # None => l.response_bytes = l.expected

\* End of body; hyper reports an end before the declared length as an error.
ReadEnd(c) ==
    /\ collector[c].phase = "gated"
    /\ MeetsLength(collector[c])
    /\ collector' = [collector EXCEPT
           ![c].phase = "closing", ![c].body_complete = TRUE,
           ![c].outcome = CollectedOutcome(collector[c].response_budget_reached)]
    /\ response_read_gate' = GateReleasedBy(c)
    /\ UNCHANGED accounting

\* Every failure drops the response and, with it, the guard held.
Abandon(c, outcome) ==
    /\ collector' = [collector EXCEPT
           ![c].phase = "closing", ![c].retained = 0, ![c].outcome = outcome]
    /\ response_read_gate' = GateReleasedBy(c)
    /\ UNCHANGED accounting

TransportFailure(c) ==
    /\ collector[c].phase \in {"requesting", "gated"}
    /\ Abandon(c, "TransportFailure")

\* Bug: the timeout stops at the response head.
TimeoutCoversHead(c) == collector[c].phase = "requesting"

\* The timeout covers every await, the wait for another reader's gate included.
TimeoutCovers(c) == collector[c].phase \in InFlight

RequestTimeout(c) ==
    /\ TimeoutCovers(c)
    /\ Abandon(c, "RequestTimeout")

\* The caller drops the future at an await: the outcome stays unclassified.
Cancel(c) ==
    /\ collector[c].phase \in InFlight
    /\ Abandon(c, None)

(***************************************************************************)
(* Drop: the receipt, and never a refund                                   *)
(***************************************************************************)

Receipt(l) ==
    [sequence |-> l.sequence, stage |-> l.stage,
     request_body_bytes |-> l.request_body_bytes,
     response_bytes |-> l.response_bytes,
     outcome |-> IF l.outcome = None THEN "Cancelled" ELSE l.outcome]

DropLease(c) ==
    /\ collector[c].phase = "closing"
    /\ IF Len(dispatch_receipts) < max_dispatch_receipts
       THEN /\ dispatch_receipts' = Append(dispatch_receipts, Receipt(collector[c]))
            /\ UNCHANGED omitted_dispatch_receipts
       ELSE /\ omitted_dispatch_receipts' = omitted_dispatch_receipts + 1
            /\ UNCHANGED dispatch_receipts
    /\ collector' = [collector EXCEPT ![c] = IdleCollector]
    /\ UNCHANGED <<snapshot, next_dispatch_sequence, response_read_gate>>

Next == \E c \in Collectors :
    \/ \E stage \in Stages : Preflight(c, stage)
    \/ \E stage \in Stages, body \in RequestBodies : TryBegin(c, stage, body)
    \/ \E body \in RequestBodies : RefuseDispatch(c, body)
    \/ \E expected \in ContentLengths \cup {None} : ReceiveHead(c, expected)
    \/ AcquireResponseRead(c)
    \/ StopReading(c)
    \/ \E bytes \in 0..MaxChunk : ReadChunk(c, bytes)
    \/ ReadEnd(c)
    \/ TransportFailure(c)
    \/ RequestTimeout(c)
    \/ Cancel(c)
    \/ DropLease(c)

Spec == Init /\ [][Next]_vars

(***************************************************************************)
(* tokio::time::timeout bounds every request, so its timer fires while the *)
(* request lasts; a lease leaves scope without a further await.            *)
(***************************************************************************)
Fairness == \A c \in Collectors :
    WF_vars(RequestTimeout(c)) /\ WF_vars(DropLease(c))

LiveSpec == Spec /\ Fairness

(***************************************************************************)
(* Properties                                                              *)
(***************************************************************************)
TypeOK ==
    /\ snapshot \in RequestAccountingSnapshot
    /\ next_dispatch_sequence \in Nat
    /\ dispatch_receipts \in Seq(TransportDispatchReceipt)
    /\ omitted_dispatch_receipts \in Nat
    /\ response_read_gate \in Collectors \cup {None}
    /\ collector \in [Collectors -> Collector]

Leased == {c \in Collectors : collector[c].phase \in InFlight \cup {"closing"}}

\* However preflights and dispatches of several collectors interleave, no more
\* requests, request-body bytes or active verifications are dispatched than
\* the budget allows (try_begin repeats every guard under the recording lock).
DispatchesWithinBudget ==
    /\ snapshot.total_requests <= max_total_requests
    /\ snapshot.request_body_bytes <= max_request_body_bytes
    /\ snapshot.active_verifications <= max_active_verifications

\* Response bytes exceed their threshold by less than one chunk, however many
\* responses are in flight (the read gate of collect_built_request).
OneCrossingChunk ==
    snapshot.response_bytes > 0 => snapshot.response_bytes < max_response_bytes + MaxChunk

\* Once the threshold is reached nothing more is read and nothing more is
\* dispatched, by collectors already in flight included.
NothingAfterCrossing ==
    [][snapshot.response_bytes >= max_response_bytes => snapshot' = snapshot]_vars

\* The crossing is attributed to one dispatch: at most one lease or retained
\* receipt says that its chunk reached the session's threshold, and none says
\* so before the threshold is reached (response_budget_reached).
CrossingIsAttributedOnce ==
    LET leases   == {c \in Leased : collector[c].response_budget_reached}
        receipts == {i \in DOMAIN dispatch_receipts :
                        dispatch_receipts[i].outcome = "ResponseBudgetReached"}
    IN  /\ Cardinality(leases) + Cardinality(receipts) <= 1
        /\ leases # {} \/ receipts # {} => snapshot.response_bytes >= max_response_bytes

\* An audit in which every dispatch completed means that the threshold was not
\* reached: the lease whose chunk reached it knows, and its receipt says so
\* unless that request then failed, timed out or was cancelled.
CrossingIsNoticed ==
    (snapshot.response_bytes >= max_response_bytes /\ snapshot.response_bytes > 0) =>
        \/ \E c \in Leased : collector[c].response_budget_reached
        \/ \E i \in DOMAIN dispatch_receipts :
               dispatch_receipts[i].outcome \in
                   {"ResponseBudgetReached", "RequestTimeout", "TransportFailure", "Cancelled"}
        \/ omitted_dispatch_receipts > 0

\* The audit accounts for every dispatch exactly once: each is in flight, in a
\* receipt or among the omitted ones, under a sequence number of its own.
DispatchesAreAudited ==
    /\ Len(dispatch_receipts) + omitted_dispatch_receipts + Cardinality(Leased)
           = snapshot.total_requests
    /\ \A c, d \in Leased : c # d => collector[c].sequence # collector[d].sequence
    /\ \A i \in DOMAIN dispatch_receipts :
        /\ \A c \in Leased : dispatch_receipts[i].sequence # collector[c].sequence
        /\ \A j \in DOMAIN dispatch_receipts :
               i # j => dispatch_receipts[i].sequence # dispatch_receipts[j].sequence

\* The bytes of the receipts and of the leases in flight add up to what the
\* session was charged, whether a dispatch completed, failed, timed out or was
\* cancelled (while no receipt has been omitted).
BytesAreAudited ==
    omitted_dispatch_receipts = 0 =>
        /\ snapshot.response_bytes =
               SumFunction([i \in DOMAIN dispatch_receipts |-> dispatch_receipts[i].response_bytes])
             + SumFunction([c \in Leased |-> collector[c].response_bytes])
        /\ snapshot.request_body_bytes =
               SumFunction([i \in DOMAIN dispatch_receipts |->
                               dispatch_receipts[i].request_body_bytes])
             + SumFunction([c \in Leased |-> collector[c].request_body_bytes])

\* What the collectors hold in memory stays within both allowances, though
\* each one's own limit came from a preflight that others have outdated.
RetainedWithinAllowances ==
    /\ \A c \in Collectors : collector[c].retained <= collector[c].body_limit
    /\ SumFunction([c \in Collectors |-> collector[c].retained]) <= max_response_bytes

\* A response handed back as not truncated is whole: every byte charged to it
\* was retained, and its end was seen or its declared length met.
UntruncatedIsWhole ==
    \A c \in Collectors :
        (/\ collector[c].outcome \in {"Completed", "ResponseBudgetReached"}
         /\ ~collector[c].truncated) =>
            /\ collector[c].retained = collector[c].response_bytes
            /\ \/ collector[c].body_complete
               \/ collector[c].expected = collector[c].response_bytes

\* Whatever happens to a response, the accounts say so: its bytes, the crossing of the
\* threshold and a missing rest are recorded exactly, and no more is kept than allowed
\* (collect_built_request and the lease it charges).
ResponsesAreAccounted ==
    /\ TypeOK
    /\ CrossingIsAttributedOnce /\ CrossingIsNoticed
    /\ BytesAreAudited
    /\ RetainedWithinAllowances /\ UntruncatedIsWhole

\* Every dispatch ends in a receipt, though its peer stalls or another
\* collector holds the gate while its own peer stalls.
DispatchesEnd ==
    \A c \in Collectors : collector[c].phase \in InFlight ~> collector[c].phase = "idle"
=============================================================================
