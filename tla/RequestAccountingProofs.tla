---------------------- MODULE RequestAccountingProofs ----------------------
(***************************************************************************)
(* Proofs about request accounting, for every number of collectors, every  *)
(* budget (zero included) and every chunk size.                            *)
(***************************************************************************)
EXTENDS RequestAccounting, FiniteSums

\* The gate is held by the collector that is inside its read, and by no other.
GateHeld == \A c \in Collectors : collector[c].phase = "gated" <=> response_read_gate = c

\* What a reader was allowed when it took the gate it still is: only the holder
\* of the gate charges response bytes.
ReadsAuthorised ==
    \A c \in Collectors :
        collector[c].phase = "gated" => snapshot.response_bytes < max_response_bytes

\* Sequence numbers are handed out in order: whatever is leased or receipted
\* was numbered before the next one.
Sequenced ==
    /\ next_dispatch_sequence = snapshot.total_requests
    /\ \A c \in Leased : collector[c].sequence < next_dispatch_sequence
    /\ \A i \in DOMAIN dispatch_receipts :
           dispatch_receipts[i].sequence < next_dispatch_sequence

\* The inductive invariant.  OneCrossingChunk needs ReadsAuthorised, since the chunk
\* arrives after the check, and that needs GateHeld; DispatchesAreAudited needs
\* Sequenced, for a new number to be new.
IInv ==
    /\ TypeOK
    /\ GateHeld
    /\ ReadsAuthorised
    /\ DispatchesWithinBudget
    /\ OneCrossingChunk
    /\ Sequenced
    /\ DispatchesAreAudited

HasLease(l) == l.phase \in InFlight \cup {"closing"}

USE DEF InFlight

LEMMA LeasedFinite == IsFiniteSet(Leased) /\ Cardinality(Leased) \in Nat
<1>1. Leased \subseteq Collectors
    BY DEF Leased
<1> QED
    BY <1>1, CollectorsAssumption, FS_Subset, FS_CardinalityType

LEMMA Subtraction ==
    ASSUME NEW a \in Nat, NEW b \in Nat
    PROVE  /\ SaturatingSub(a, b) \in Nat
           /\ Lesser(a, b) \in Nat
           /\ SaturatingSub(a, b) > 0 => b < a
BY DEF SaturatingSub, Lesser

\* A step of one collector that neither takes nor drops a lease leaves the audit alone.
LEMMA LeasesKept ==
    ASSUME IInv, NEW c \in Collectors,
           \A d \in Collectors \ {c} : collector'[d] = collector[d],
           HasLease(collector[c]) <=> HasLease(collector[c]'),
           HasLease(collector[c]) => collector'[c].sequence = collector[c].sequence,
           snapshot'.total_requests = snapshot.total_requests,
           UNCHANGED <<next_dispatch_sequence, dispatch_receipts,
                       omitted_dispatch_receipts>>
    PROVE  Sequenced' /\ DispatchesAreAudited'
<1>1. Leased' = Leased
    BY DEF Leased, HasLease
<1>2. \A d \in Leased : collector'[d].sequence = collector[d].sequence
    BY DEF Leased, HasLease
<1> QED
    BY <1>1, <1>2 DEF IInv, Sequenced, DispatchesAreAudited

\* A step that releases or keeps the gate keeps it where the phases say it is.
LEMMA GateReleased ==
    ASSUME IInv, NEW c \in Collectors,
           \A d \in Collectors \ {c} : collector'[d] = collector[d],
           collector'[c].phase # "gated",
           response_read_gate' = GateReleasedBy(c)
    PROVE  GateHeld' /\ response_read_gate' \in Collectors \cup {None}
BY CollectorsAssumption DEF IInv, TypeOK, GateHeld, GateReleasedBy

LEMMA GateKept ==
    ASSUME IInv, NEW c \in Collectors,
           \A d \in Collectors \ {c} : collector'[d] = collector[d],
           collector[c].phase # "gated", collector'[c].phase # "gated",
           UNCHANGED response_read_gate
    PROVE  GateHeld'
BY DEF IInv, GateHeld

\* No reader comes into its read, and nothing is charged.
LEMMA AuthorityKept ==
    ASSUME IInv, NEW c \in Collectors,
           \A d \in Collectors \ {c} : collector'[d] = collector[d],
           collector'[c].phase # "gated",
           snapshot'.response_bytes = snapshot.response_bytes
    PROVE  ReadsAuthorised'
BY DEF IInv, ReadsAuthorised

LEMMA IdleTyped == IdleCollector \in Collector
BY DEF IdleCollector, Collector, Phases, Stages

LEMMA InitIInv == Init => IInv
<1> SUFFICES ASSUME Init PROVE IInv
    OBVIOUS
<1>1. TypeOK
    BY IdleTyped DEF Init, TypeOK, RequestAccountingSnapshot
<1>2. Leased = {}
    BY DEF Init, Leased, IdleCollector
<1>3. Cardinality(Leased) = 0
    BY <1>2, FS_EmptySet
<1>4. GateHeld
    BY CollectorsAssumption DEF Init, GateHeld, IdleCollector
<1>5. DispatchesWithinBudget /\ OneCrossingChunk /\ ReadsAuthorised
    BY BudgetAssumption
    DEF Init, DispatchesWithinBudget, OneCrossingChunk, ReadsAuthorised, IdleCollector
<1>6. Sequenced /\ DispatchesAreAudited
    BY <1>2, <1>3 DEF Init, Sequenced, DispatchesAreAudited
<1> QED
    BY <1>1, <1>4, <1>5, <1>6 DEF IInv

LEMMA PreflightStep ==
    ASSUME IInv, NEW c \in Collectors, NEW stage \in Stages, Preflight(c, stage)
    PROVE  IInv'
<1>1. RemainingResponseBytes \in Nat
    BY BudgetAssumption, Subtraction
    DEF IInv, TypeOK, RequestAccountingSnapshot, RemainingResponseBytes
<1>2. Lesser(max_body_bytes, RemainingResponseBytes) \in Nat
    BY <1>1, BudgetAssumption, Subtraction
<1>3. /\ collector' = [collector EXCEPT ![c] = collector'[c]]
      /\ collector'[c] \in Collector /\ collector'[c].phase = "prepared"
    BY <1>2, IdleTyped DEF Preflight, IInv, TypeOK, Collector, IdleCollector, Phases
<1>4. TypeOK'
    BY <1>3 DEF Preflight, accounting, IInv, TypeOK
<1>5. \A d \in Collectors \ {c} : collector'[d] = collector[d]
    BY <1>3 DEF IInv, TypeOK
<1>6. GateHeld'
    BY <1>3, <1>5, GateKept DEF Preflight
<1>7. Sequenced' /\ DispatchesAreAudited'
    BY <1>3, <1>5, LeasesKept DEF Preflight, accounting, HasLease
<1>8. ReadsAuthorised'
    BY <1>3, <1>5, AuthorityKept DEF Preflight, accounting
<1> QED
    BY <1>4, <1>6, <1>7, <1>8
    DEF IInv, Preflight, accounting, DispatchesWithinBudget, OneCrossingChunk

LEMMA RefuseStep ==
    ASSUME IInv, NEW c \in Collectors, NEW body \in RequestBodies, RefuseDispatch(c, body)
    PROVE  IInv'
<1>1. /\ collector' = [collector EXCEPT ![c] = collector'[c]]
      /\ collector'[c] \in Collector /\ collector'[c].phase = "idle"
    BY IdleTyped DEF RefuseDispatch, IInv, TypeOK, IdleCollector
<1>2. TypeOK'
    BY <1>1 DEF RefuseDispatch, accounting, IInv, TypeOK
<1>3. \A d \in Collectors \ {c} : collector'[d] = collector[d]
    BY <1>1 DEF IInv, TypeOK
<1>4. GateHeld'
    BY <1>1, <1>3, GateKept DEF RefuseDispatch
<1>5. Sequenced' /\ DispatchesAreAudited'
    BY <1>1, <1>3, LeasesKept DEF RefuseDispatch, accounting, HasLease
<1>6. ReadsAuthorised'
    BY <1>1, <1>3, AuthorityKept DEF RefuseDispatch, accounting
<1> QED
    BY <1>2, <1>4, <1>5, <1>6
    DEF IInv, RefuseDispatch, accounting, DispatchesWithinBudget, OneCrossingChunk

LEMMA TryBeginStep ==
    ASSUME IInv, NEW c \in Collectors, NEW stage \in Stages, NEW body \in RequestBodies,
           TryBegin(c, stage, body)
    PROVE  IInv'
<1> body \in Nat
    BY PeerAssumption
<1>0. /\ CheckRequestLimits(stage, body)
      /\ UNCHANGED <<dispatch_receipts, omitted_dispatch_receipts>>
    BY DEF TryBegin, Admitted
<1>1. /\ snapshot' \in RequestAccountingSnapshot
      /\ snapshot'.total_requests = snapshot.total_requests + 1
      /\ snapshot'.response_bytes = snapshot.response_bytes
      /\ snapshot'.request_body_bytes = snapshot.request_body_bytes + body
      /\ snapshot'.active_verifications =
             IF stage = "Active" THEN snapshot.active_verifications + 1
                                 ELSE snapshot.active_verifications
    <2> DEFINE total == snapshot.total_requests + 1
               bytes == snapshot.request_body_bytes + body
               passive == snapshot.passive_requests + 1
               active == snapshot.active_verifications + 1
    <2>1. /\ snapshot \in RequestAccountingSnapshot
          /\ total \in Nat /\ bytes \in Nat /\ passive \in Nat /\ active \in Nat
        BY DEF IInv, TypeOK, RequestAccountingSnapshot
    <2>2. snapshot' =
              IF stage = "Passive"
              THEN [snapshot EXCEPT !.total_requests = total, !.request_body_bytes = bytes,
                                    !.passive_requests = passive]
              ELSE [snapshot EXCEPT !.total_requests = total, !.request_body_bytes = bytes,
                                    !.active_verifications = active]
        BY DEF TryBegin, RecordDispatch
    <2> HIDE DEF total, bytes, passive, active
    <2>3. /\ snapshot' \in RequestAccountingSnapshot
          /\ snapshot'.total_requests = total
          /\ snapshot'.response_bytes = snapshot.response_bytes
          /\ snapshot'.request_body_bytes = bytes
          /\ snapshot'.active_verifications =
                 IF stage = "Active" THEN active ELSE snapshot.active_verifications
        <3>1. CASE stage = "Passive"
            BY <2>1, <2>2, <3>1 DEF RequestAccountingSnapshot
        <3>2. CASE stage = "Active"
            BY <2>1, <2>2, <3>2 DEF RequestAccountingSnapshot
        <3> QED
            BY <3>1, <3>2 DEF Stages
    <2> QED
        BY <2>3 DEF total, bytes, active
<1>2. next_dispatch_sequence' = next_dispatch_sequence + 1
    BY DEF TryBegin, NextSequence
<1>3. /\ collector' = [collector EXCEPT ![c] = collector'[c]]
      /\ collector'[c] \in Collector /\ collector'[c].phase = "requesting"
      /\ collector'[c].sequence = next_dispatch_sequence
    <2>1. (IF collector[c].phase = "prepared" THEN collector[c].body_limit
                                             ELSE max_body_bytes) \in Nat
        BY BudgetAssumption DEF IInv, TypeOK, Collector
    <2> QED
        BY <2>1, IdleTyped DEF TryBegin, IInv, TypeOK, Collector, IdleCollector, Phases
<1>4. TypeOK'
    BY <1>1, <1>2, <1>3 DEF TryBegin, IInv, TypeOK
<1>5. \A d \in Collectors \ {c} : collector'[d] = collector[d]
    BY <1>3 DEF IInv, TypeOK
<1>6. GateHeld'
    BY <1>3, <1>5, GateKept DEF TryBegin
<1>7. DispatchesWithinBudget'
    <2>1. /\ snapshot.total_requests \in Nat /\ snapshot.request_body_bytes \in Nat
          /\ snapshot.active_verifications \in Nat
        BY DEF IInv, TypeOK, RequestAccountingSnapshot
    <2> QED
        BY <1>0, <1>1, <2>1, BudgetAssumption
        DEF CheckRequestLimits, IInv, DispatchesWithinBudget
<1>8. OneCrossingChunk'
    BY <1>1 DEF IInv, OneCrossingChunk
<1>9. c \notin Leased /\ Leased' = Leased \cup {c}
    BY <1>3, <1>5 DEF TryBegin, Leased
<1>10. Cardinality(Leased') = Cardinality(Leased) + 1
    BY <1>9, LeasedFinite, FS_AddElement
<1>11. Sequenced'
    <2>1. /\ next_dispatch_sequence \in Nat
          /\ \A d \in Leased : collector[d].sequence \in Nat /\ d # c
        BY <1>9 DEF IInv, TypeOK, Leased, Collector
    <2>2. \A i \in DOMAIN dispatch_receipts : dispatch_receipts[i].sequence \in Nat
        <3>1. dispatch_receipts \in Seq(TransportDispatchReceipt)
            BY DEF IInv, TypeOK
        <3>2. \A i \in DOMAIN dispatch_receipts : dispatch_receipts[i] \in TransportDispatchReceipt
            BY <3>1
        <3> QED
            BY <3>2 DEF TransportDispatchReceipt
    <2>3. \A d \in Leased : collector'[d].sequence < next_dispatch_sequence'
        BY <1>2, <1>5, <2>1 DEF IInv, Sequenced, Leased
    <2>4. \A d \in Leased' : collector'[d].sequence < next_dispatch_sequence'
        BY <1>2, <1>3, <1>9, <2>1, <2>3
    <2>5. \A i \in DOMAIN dispatch_receipts :
              dispatch_receipts[i].sequence < next_dispatch_sequence'
        BY <1>2, <2>1, <2>2 DEF IInv, Sequenced
    <2> QED
        BY <1>0, <1>1, <1>2, <2>4, <2>5 DEF IInv, Sequenced
<1>12. DispatchesAreAudited'
    <2>1. Len(dispatch_receipts)' + omitted_dispatch_receipts' + Cardinality(Leased')
              = snapshot'.total_requests
        <3>1. Len(dispatch_receipts) \in Nat /\ omitted_dispatch_receipts \in Nat
            BY DEF IInv, TypeOK
        <3> QED
            BY <1>0, <1>1, <1>10, <3>1, LeasedFinite DEF IInv, DispatchesAreAudited
    <2>2. \A d \in Leased : collector'[d] = collector[d] /\ collector[d].sequence # next_dispatch_sequence
        <3> SUFFICES ASSUME NEW d \in Leased
                     PROVE  collector'[d] = collector[d]
                            /\ collector[d].sequence # next_dispatch_sequence
            OBVIOUS
        <3>1. collector'[d] = collector[d]
            BY <1>5, <1>9 DEF Leased
        <3>2. collector[d].sequence \in Nat /\ next_dispatch_sequence \in Nat
            BY DEF IInv, TypeOK, Leased, Collector
        <3>3. collector[d].sequence < next_dispatch_sequence
            BY DEF IInv, Sequenced
        <3> QED
            BY <3>1, <3>2, <3>3
    <2>3. \A i \in DOMAIN dispatch_receipts :
              dispatch_receipts[i].sequence # next_dispatch_sequence
        <3> SUFFICES ASSUME NEW i \in DOMAIN dispatch_receipts
                     PROVE  dispatch_receipts[i].sequence # next_dispatch_sequence
            OBVIOUS
        <3>1. dispatch_receipts[i] \in TransportDispatchReceipt
            BY DEF IInv, TypeOK
        <3>2. dispatch_receipts[i].sequence \in Nat /\ next_dispatch_sequence \in Nat
            BY <3>1 DEF IInv, TypeOK, TransportDispatchReceipt
        <3>3. dispatch_receipts[i].sequence < next_dispatch_sequence
            BY DEF IInv, Sequenced
        <3> QED
            BY <3>2, <3>3
    <2> QED
        BY <1>0, <1>3, <1>9, <2>1, <2>2, <2>3 DEF IInv, DispatchesAreAudited
<1>13. ReadsAuthorised'
    BY <1>1, <1>3, <1>5, AuthorityKept
<1> QED
    BY <1>4, <1>6, <1>7, <1>8, <1>11, <1>12, <1>13 DEF IInv

(***************************************************************************)
(* Collection                                                              *)
(***************************************************************************)
\* A step of a collector that keeps its lease, charges nothing and is not in
\* a read afterwards.
LEMMA CollectStep ==
    ASSUME IInv, NEW c \in Collectors,
           collector' = [collector EXCEPT ![c] = collector'[c]],
           collector'[c] \in Collector,
           HasLease(collector[c]), HasLease(collector'[c]),
           collector'[c].phase # "gated",
           collector'[c].sequence = collector[c].sequence,
           response_read_gate' = GateReleasedBy(c),
           UNCHANGED accounting
    PROVE  IInv'
<1>1. \A d \in Collectors \ {c} : collector'[d] = collector[d]
    BY DEF IInv, TypeOK
<1>2. GateHeld' /\ response_read_gate' \in Collectors \cup {None}
    BY <1>1, GateReleased
<1>3. TypeOK'
    BY <1>2 DEF accounting, IInv, TypeOK
<1>4. Sequenced' /\ DispatchesAreAudited'
    BY <1>1, LeasesKept DEF accounting
<1>5. ReadsAuthorised'
    BY <1>1, AuthorityKept DEF accounting
<1> QED
    BY <1>2, <1>3, <1>4, <1>5 DEF IInv, accounting, DispatchesWithinBudget, OneCrossingChunk

LEMMA ReceiveHeadStep ==
    ASSUME IInv, NEW c \in Collectors, NEW expected \in ContentLengths \cup {None},
           ReceiveHead(c, expected)
    PROVE  IInv'
<1>1. collector[c] \in Collector /\ collector \in [Collectors -> Collector]
    BY DEF IInv, TypeOK
<1>2. /\ collector' = [collector EXCEPT ![c] = collector'[c]]
      /\ collector'[c] \in Collector
      /\ collector'[c].phase = "reading" /\ collector'[c].sequence = collector[c].sequence
    BY <1>1 DEF ReceiveHead, Collector, Phases
<1>3. response_read_gate' = GateReleasedBy(c)
    BY DEF ReceiveHead, IInv, GateHeld, GateReleasedBy
<1> QED
    BY <1>2, <1>3, CollectStep DEF ReceiveHead, HasLease

LEMMA OutcomeTyped ==
    \A reached \in BOOLEAN : CollectedOutcome(reached) \in TransportDispatchOutcome
BY DEF CollectedOutcome, TransportDispatchOutcome

LEMMA StopReadingStep ==
    ASSUME IInv, NEW c \in Collectors, StopReading(c)
    PROVE  IInv'
<1>1. collector[c] \in Collector /\ collector \in [Collectors -> Collector]
    BY DEF IInv, TypeOK
<1> DEFINE cut == StoppedShort(collector[c])
           outcome == CollectedOutcome(collector[c].response_budget_reached)
<1>2. cut \in BOOLEAN /\ outcome \in TransportDispatchOutcome
    <2>1. cut \in BOOLEAN
        <3>1. CASE collector[c].expected = None
            BY <3>1 DEF StoppedShort
        <3>2. CASE collector[c].expected # None
            <4>1. cut = (collector[c].retained < collector[c].expected)
                BY <3>2 DEF StoppedShort
            <4> QED
                BY <4>1
        <3> QED
            BY <3>1, <3>2
    <2>2. outcome \in TransportDispatchOutcome
        BY <1>1, OutcomeTyped DEF Collector
    <2> QED
        BY <2>1, <2>2
<1>3. collector' = [collector EXCEPT ![c].phase = "closing", ![c].truncated = cut,
                                     ![c].outcome = outcome]
    BY DEF StopReading
<1> HIDE DEF cut, outcome
<1>4. /\ collector' = [collector EXCEPT ![c] = collector'[c]]
      /\ collector'[c] \in Collector
      /\ collector'[c].phase = "closing" /\ collector'[c].sequence = collector[c].sequence
    BY <1>1, <1>2, <1>3 DEF Collector, Phases
<1>5. response_read_gate' = GateReleasedBy(c)
    BY DEF StopReading, IInv, GateHeld, GateReleasedBy
<1> QED
    BY <1>4, <1>5, CollectStep DEF StopReading, HasLease

LEMMA ReadEndStep ==
    ASSUME IInv, NEW c \in Collectors, ReadEnd(c)
    PROVE  IInv'
<1>1. collector[c] \in Collector /\ collector \in [Collectors -> Collector]
    BY DEF IInv, TypeOK
<1> DEFINE outcome == CollectedOutcome(collector[c].response_budget_reached)
<1>2. outcome \in TransportDispatchOutcome
    BY <1>1, OutcomeTyped DEF Collector
<1>3. collector' = [collector EXCEPT ![c].phase = "closing", ![c].body_complete = TRUE,
                                     ![c].outcome = outcome]
    BY DEF ReadEnd
<1> HIDE DEF outcome
<1>4. /\ collector' = [collector EXCEPT ![c] = collector'[c]]
      /\ collector'[c] \in Collector
      /\ collector'[c].phase = "closing" /\ collector'[c].sequence = collector[c].sequence
    BY <1>1, <1>2, <1>3 DEF Collector, Phases
<1> QED
    BY <1>4, CollectStep DEF ReadEnd, HasLease

LEMMA AbandonStep ==
    ASSUME IInv, NEW c \in Collectors, NEW outcome \in TransportDispatchOutcome \cup {None},
           collector[c].phase \in InFlight, Abandon(c, outcome)
    PROVE  IInv'
<1>1. collector[c] \in Collector /\ collector \in [Collectors -> Collector]
    BY DEF IInv, TypeOK
<1>2. /\ collector' = [collector EXCEPT ![c] = collector'[c]]
      /\ collector'[c] \in Collector
      /\ collector'[c].phase = "closing" /\ collector'[c].sequence = collector[c].sequence
    BY <1>1 DEF Abandon, Collector, Phases
<1> QED
    BY <1>2, CollectStep DEF Abandon, HasLease

LEMMA AcquireStep ==
    ASSUME IInv, NEW c \in Collectors, AcquireResponseRead(c)
    PROVE  IInv'
<1>1. collector[c] \in Collector /\ collector \in [Collectors -> Collector]
    BY DEF IInv, TypeOK
<1>2. /\ collector' = [collector EXCEPT ![c] = collector'[c]]
      /\ collector'[c] \in Collector
      /\ collector'[c].phase = "gated" /\ collector'[c].sequence = collector[c].sequence
    BY <1>1 DEF AcquireResponseRead, Collector, Phases
<1>3. \A d \in Collectors \ {c} : collector'[d] = collector[d]
    BY <1>2 DEF IInv, TypeOK
<1>4. GateHeld'
    <2>1. \A d \in Collectors : collector[d].phase # "gated"
        BY CollectorsAssumption DEF AcquireResponseRead, GateFree, IInv, GateHeld
    <2> QED
        BY <1>2, <1>3, <2>1 DEF AcquireResponseRead, GateHeld
<1>5. TypeOK'
    BY <1>2 DEF AcquireResponseRead, accounting, IInv, TypeOK
<1>6. Sequenced' /\ DispatchesAreAudited'
    BY <1>2, <1>3, LeasesKept DEF AcquireResponseRead, accounting, HasLease
<1>7. ReadsAuthorised'
    <2>1. snapshot.response_bytes \in Nat /\ max_response_bytes \in Nat
        BY BudgetAssumption DEF IInv, TypeOK, RequestAccountingSnapshot
    <2>2. snapshot.response_bytes < max_response_bytes
        BY <2>1, Subtraction DEF AcquireResponseRead, MayRead, RemainingResponseBytes
    <2> QED
        BY <2>2 DEF AcquireResponseRead, accounting, ReadsAuthorised
<1> QED
    BY <1>4, <1>5, <1>6, <1>7
    DEF IInv, AcquireResponseRead, accounting, DispatchesWithinBudget, OneCrossingChunk

\* A read is only entered while the session has bytes left, which the gate keeps
\* true until its chunk arrives; no chunk is larger than MaxChunk, and that is the
\* whole of the overshoot.
LEMMA ReadChunkStep ==
    ASSUME IInv, NEW c \in Collectors, NEW bytes \in 0..MaxChunk, ReadChunk(c, bytes)
    PROVE  IInv'
<1> DEFINE session == RemainingResponseBytes
           reached == \/ collector[c].response_budget_reached
                      \/ ReachesBudget(bytes, session)
           cut == CutsShort(c, bytes)
           kept == collector[c].retained + RetainedOf(c, bytes)
           charged == collector[c].response_bytes + bytes
           outcome == IF cut THEN CollectedOutcome(reached) ELSE None
           phase == IF cut THEN "closing" ELSE "reading"
<1>1. collector[c] \in Collector /\ collector \in [Collectors -> Collector]
    BY DEF IInv, TypeOK
<1>2. /\ snapshot.response_bytes \in Nat /\ bytes \in Nat /\ bytes <= MaxChunk
      /\ MaxChunk \in Nat /\ max_response_bytes \in Nat
    BY BudgetAssumption, PeerAssumption DEF IInv, TypeOK, RequestAccountingSnapshot
<1>3. session \in Nat /\ PerRequestRemaining(c) \in Nat
    BY <1>1, <1>2, Subtraction
    DEF RemainingResponseBytes, PerRequestRemaining, Collector
<1>4. RetainedOf(c, bytes) \in Nat
    BY <1>2, <1>3, Subtraction DEF RetainedOf
<1>5. /\ kept \in Nat /\ charged \in Nat /\ reached \in BOOLEAN /\ cut \in BOOLEAN
      /\ outcome \in TransportDispatchOutcome \cup {None}
      /\ phase \in {"closing", "reading"}
    <2>1. kept \in Nat /\ charged \in Nat /\ phase \in {"closing", "reading"}
        BY <1>1, <1>2, <1>4 DEF Collector
    <2>2. reached \in BOOLEAN
        BY Zenon
    <2>3. cut \in BOOLEAN
        BY DEF CutsShort
    <2>4. CollectedOutcome(reached) \in TransportDispatchOutcome
        BY <2>2, OutcomeTyped
    <2> QED
        BY <2>1, <2>2, <2>3, <2>4
<1>6. /\ collector' = [collector EXCEPT
              ![c].response_bytes = charged, ![c].response_budget_reached = reached,
              ![c].retained = kept, ![c].truncated = cut, ![c].phase = phase,
              ![c].outcome = outcome]
      /\ snapshot' = [snapshot EXCEPT !.response_bytes = snapshot.response_bytes + bytes]
    BY DEF ReadChunk
<1> HIDE DEF kept, charged, reached, cut, outcome, phase
<1>7. /\ collector' = [collector EXCEPT ![c] = collector'[c]]
      /\ collector'[c] \in Collector
      /\ collector'[c].phase \in {"closing", "reading"}
      /\ collector'[c].sequence = collector[c].sequence
    <2> DEFINE r == [collector[c] EXCEPT
                        !.response_bytes = charged, !.response_budget_reached = reached,
                        !.retained = kept, !.truncated = cut, !.phase = phase,
                        !.outcome = outcome]
    <2>1. collector' = [collector EXCEPT ![c] = r]
        BY <1>1, <1>6
    <2>2. r \in Collector /\ r.phase = phase /\ r.sequence = collector[c].sequence
        BY <1>1, <1>5, ZenonT(60) DEF Collector, Phases
    <2> QED
        BY <1>1, <1>5, <2>1, <2>2
<1>8. \A d \in Collectors \ {c} : collector'[d] = collector[d]
    BY <1>7 DEF IInv, TypeOK
<1>9. GateHeld' /\ response_read_gate' \in Collectors \cup {None}
    BY <1>7, <1>8, GateReleased DEF ReadChunk
<1>10. /\ snapshot' \in RequestAccountingSnapshot
       /\ snapshot'.total_requests = snapshot.total_requests
       /\ snapshot'.request_body_bytes = snapshot.request_body_bytes
       /\ snapshot'.active_verifications = snapshot.active_verifications
       /\ snapshot'.response_bytes = snapshot.response_bytes + bytes
    <2>1. snapshot \in RequestAccountingSnapshot /\ snapshot.response_bytes + bytes \in Nat
        BY <1>2 DEF IInv, TypeOK
    <2> QED
        BY <1>6, <2>1 DEF RequestAccountingSnapshot
<1>11. TypeOK'
    BY <1>7, <1>9, <1>10 DEF ReadChunk, IInv, TypeOK
<1>12. OneCrossingChunk'
    <2>1. snapshot.response_bytes < max_response_bytes
        BY DEF ReadChunk, IInv, ReadsAuthorised
    <2> QED
        BY <1>2, <1>10, <2>1 DEF OneCrossingChunk
<1>13. Sequenced' /\ DispatchesAreAudited'
    <2>1. UNCHANGED <<next_dispatch_sequence, dispatch_receipts, omitted_dispatch_receipts>>
          /\ HasLease(collector[c])
        BY DEF ReadChunk, HasLease
    <2>2. HasLease(collector'[c])
        BY <1>7 DEF HasLease
    <2> QED
        BY <1>7, <1>8, <1>10, <2>1, <2>2, LeasesKept, ZenonT(60)
<1>14. ReadsAuthorised'
    <2>1. \A d \in Collectors \ {c} : collector[d].phase # "gated"
        BY DEF ReadChunk, IInv, GateHeld
    <2>2. \A d \in Collectors : collector'[d].phase # "gated"
        BY <1>7, <1>8, <2>1
    <2> QED
        BY <2>2 DEF ReadsAuthorised
<1> QED
    BY <1>9, <1>10, <1>11, <1>12, <1>13, <1>14 DEF IInv, DispatchesWithinBudget

LEMMA ReceiptTyped ==
    ASSUME NEW l \in Collector
    PROVE  Receipt(l) \in TransportDispatchReceipt /\ Receipt(l).sequence = l.sequence
<1>1. (IF l.outcome = None THEN "Cancelled" ELSE l.outcome) \in TransportDispatchOutcome
    BY DEF Collector, TransportDispatchOutcome
<1> QED
    BY <1>1 DEF Receipt, Collector, TransportDispatchReceipt

\* A dropped lease moves from the leases to the receipts or to the omitted ones.
LEMMA DropLeaseStep ==
    ASSUME IInv, NEW c \in Collectors, DropLease(c)
    PROVE  IInv'
<1>1. /\ collector[c] \in Collector /\ collector \in [Collectors -> Collector]
      /\ dispatch_receipts \in Seq(TransportDispatchReceipt)
      /\ Len(dispatch_receipts) \in Nat /\ omitted_dispatch_receipts \in Nat
    BY DEF IInv, TypeOK
<1>2. /\ collector' = [collector EXCEPT ![c] = collector'[c]]
      /\ collector'[c] \in Collector /\ collector'[c].phase = "idle"
    BY <1>1, IdleTyped DEF DropLease, IdleCollector
<1>3. \A d \in Collectors \ {c} : collector'[d] = collector[d]
    BY <1>2 DEF IInv, TypeOK
<1>4. UNCHANGED <<snapshot, next_dispatch_sequence, response_read_gate>>
    BY DEF DropLease
<1>5. GateHeld'
    BY <1>2, <1>3, GateKept DEF DropLease
<1>5a. ReadsAuthorised'
    BY <1>2, <1>3, <1>4, AuthorityKept
<1>6. c \in Leased /\ Leased' = Leased \ {c}
    BY <1>2, <1>3 DEF DropLease, Leased
<1>7. Cardinality(Leased') = Cardinality(Leased) - 1
    BY <1>6, LeasedFinite, FS_RemoveElement
<1>8. \A d \in Leased' : d \in Leased /\ d # c /\ collector'[d].sequence = collector[d].sequence
    BY <1>3, <1>6 DEF Leased
<1>9. CASE dispatch_receipts' = Append(dispatch_receipts, Receipt(collector[c]))
           /\ UNCHANGED omitted_dispatch_receipts
    <2> DEFINE n == Len(dispatch_receipts)
    <2>1. /\ dispatch_receipts' \in Seq(TransportDispatchReceipt)
          /\ Len(dispatch_receipts') = n + 1
          /\ DOMAIN dispatch_receipts = 1..n /\ DOMAIN dispatch_receipts' = 1..(n + 1)
          /\ \A i \in 1..n : dispatch_receipts'[i] = dispatch_receipts[i]
          /\ dispatch_receipts'[n + 1] = Receipt(collector[c])
        BY <1>1, <1>9, ReceiptTyped
    <2>2. dispatch_receipts'[n + 1].sequence = collector[c].sequence
        BY <1>1, <2>1, ReceiptTyped
    <2>3. \A i \in 1..(n + 1) : i \in 1..n \/ i = n + 1
        BY <1>1
    <2>4. TypeOK'
        BY <1>1, <1>2, <1>4, <1>9, <2>1 DEF IInv, TypeOK
    <2>5. Sequenced'
        BY <1>4, <1>6, <1>8, <2>1, <2>2, <2>3 DEF IInv, Sequenced
    <2>6. Len(dispatch_receipts') + omitted_dispatch_receipts' + Cardinality(Leased')
              = snapshot'.total_requests
        BY <1>1, <1>4, <1>7, <1>9, <2>1, LeasedFinite DEF IInv, DispatchesAreAudited
    <2>7. DispatchesAreAudited'
        BY <1>6, <1>8, <2>1, <2>2, <2>3, <2>6 DEF IInv, DispatchesAreAudited
    <2> QED
        BY <1>4, <1>5, <1>5a, <2>4, <2>5, <2>7
        DEF IInv, DispatchesWithinBudget, OneCrossingChunk
<1>10. CASE omitted_dispatch_receipts' = omitted_dispatch_receipts + 1
            /\ UNCHANGED dispatch_receipts
    <2>1. TypeOK'
        BY <1>1, <1>2, <1>4, <1>10 DEF IInv, TypeOK
    <2>2. Sequenced'
        BY <1>4, <1>8, <1>10 DEF IInv, Sequenced
    <2>3. Len(dispatch_receipts') + omitted_dispatch_receipts' + Cardinality(Leased')
              = snapshot'.total_requests
        BY <1>1, <1>4, <1>7, <1>10, LeasedFinite DEF IInv, DispatchesAreAudited
    <2>4. DispatchesAreAudited'
        BY <1>8, <1>10, <2>3 DEF IInv, DispatchesAreAudited
    <2> QED
        BY <1>4, <1>5, <1>5a, <2>1, <2>2, <2>4
        DEF IInv, DispatchesWithinBudget, OneCrossingChunk
<1> QED
    BY <1>9, <1>10 DEF DropLease

LEMMA NextIInv == IInv /\ [Next]_vars => IInv'
<1> SUFFICES ASSUME IInv, [Next]_vars PROVE IInv'
    OBVIOUS
<1>1. CASE UNCHANGED vars
    BY <1>1
    DEF vars, IInv, TypeOK, GateHeld, DispatchesWithinBudget, OneCrossingChunk, Sequenced,
        DispatchesAreAudited, Leased, ReadsAuthorised
<1>2. CASE Next
    <2> PICK c \in Collectors :
          \/ \E stage \in Stages : Preflight(c, stage)
          \/ \E stage \in Stages, body \in RequestBodies : TryBegin(c, stage, body)
          \/ \E body \in RequestBodies : RefuseDispatch(c, body)
          \/ \E expected \in ContentLengths \cup {None} : ReceiveHead(c, expected)
          \/ AcquireResponseRead(c)
          \/ StopReading(c)
          \/ \E bytes \in 0..MaxChunk : ReadChunk(c, bytes)
          \/ ReadEnd(c)
          \/ TransportFailure(c)
          \/ RequestTimeout(c)
          \/ Cancel(c)
          \/ DropLease(c)
        BY <1>2 DEF Next
    <2>1. CASE \E stage \in Stages : Preflight(c, stage)
        BY <2>1, PreflightStep
    <2>2. CASE \E stage \in Stages, body \in RequestBodies : TryBegin(c, stage, body)
        BY <2>2, TryBeginStep
    <2>3. CASE \E body \in RequestBodies : RefuseDispatch(c, body)
        BY <2>3, RefuseStep
    <2>4. CASE \E expected \in ContentLengths \cup {None} : ReceiveHead(c, expected)
        BY <2>4, ReceiveHeadStep
    <2>5. CASE AcquireResponseRead(c)
        BY <2>5, AcquireStep
    <2>6. CASE StopReading(c)
        BY <2>6, StopReadingStep
    <2>7. CASE \E bytes \in 0..MaxChunk : ReadChunk(c, bytes)
        BY <2>7, ReadChunkStep
    <2>8. CASE ReadEnd(c)
        BY <2>8, ReadEndStep
    <2>9. CASE TransportFailure(c) \/ RequestTimeout(c) \/ Cancel(c)
        BY <2>9, AbandonStep
        DEF TransportFailure, RequestTimeout, TimeoutCovers, Cancel, TransportDispatchOutcome
    <2>10. CASE DropLease(c)
        BY <2>10, DropLeaseStep
    <2> QED
        BY <2>1, <2>2, <2>3, <2>4, <2>5, <2>6, <2>7, <2>8, <2>9, <2>10
<1> QED
    BY <1>1, <1>2

\* The inductive invariant holds of every behaviour of the broker and its collectors.
THEOREM Invariance == Spec => []IInv
BY InitIInv, NextIInv, PTL DEF Spec

\* Every counter, receipt and lease stays in its type: an unclassified lease still
\* leaves a receipt with an outcome (Drop for RequestAccountingLease).
THEOREM TypeCorrect == Spec => []TypeOK
<1>1. IInv => TypeOK
    BY DEF IInv
<1> QED
    BY <1>1, Invariance, PTL

\* However many tasks share the authority, try_begin never dispatches more requests,
\* request-body bytes or active verifications than the budget has.
THEOREM BudgetHolds == Spec => []DispatchesWithinBudget
<1>1. IInv => DispatchesWithinBudget
    BY DEF IInv
<1> QED
    BY <1>1, Invariance, PTL

\* The response threshold is overshot by less than one chunk, however many
\* responses are in flight (the gate around observe_response_bytes).
THEOREM OvershootBounded == Spec => []OneCrossingChunk
<1>1. IInv => OneCrossingChunk
    BY DEF IInv
<1> QED
    BY <1>1, Invariance, PTL

\* Every dispatch is in flight, receipted or counted as omitted, once, under its own
\* sequence number (try_begin and the drop of a lease).
THEOREM AuditComplete == Spec => []DispatchesAreAudited
<1>1. IInv => DispatchesAreAudited
    BY DEF IInv
<1> QED
    BY <1>1, Invariance, PTL

\* From the step on that reaches the threshold, no counter of the session moves:
\* no body read delivers and no dispatch is admitted.
THEOREM ReadsStopAtThreshold == Spec => NothingAfterCrossing
<1>1. ASSUME IInv, [Next]_vars, snapshot.response_bytes >= max_response_bytes
      PROVE  snapshot' = snapshot
    <2>1. snapshot.response_bytes \in Nat /\ max_response_bytes \in Nat
        BY <1>1, BudgetAssumption DEF IInv, TypeOK, RequestAccountingSnapshot
    <2>2. ~(snapshot.response_bytes < max_response_bytes)
        BY <1>1, <2>1
    <2>3. \A stage, body : ~CheckRequestLimits(stage, body)
        BY <2>2 DEF CheckRequestLimits
    <2>4. \A c \in Collectors : collector[c].phase # "gated"
        BY <1>1, <2>2 DEF IInv, ReadsAuthorised
    <2>5. CASE UNCHANGED vars
        BY <2>5 DEF vars
    <2>6. CASE Next
        <3> PICK c \in Collectors :
              \/ \E stage \in Stages : Preflight(c, stage)
              \/ \E stage \in Stages, body \in RequestBodies : TryBegin(c, stage, body)
              \/ \E body \in RequestBodies : RefuseDispatch(c, body)
              \/ \E expected \in ContentLengths \cup {None} : ReceiveHead(c, expected)
              \/ AcquireResponseRead(c) \/ StopReading(c)
              \/ \E bytes \in 0..MaxChunk : ReadChunk(c, bytes)
              \/ ReadEnd(c) \/ TransportFailure(c) \/ RequestTimeout(c)
              \/ Cancel(c) \/ DropLease(c)
            BY <2>6 DEF Next
        <3>1. \A stage, body, bytes : ~TryBegin(c, stage, body) /\ ~ReadChunk(c, bytes)
            <4>1. \A stage, body : ~TryBegin(c, stage, body)
                BY <2>3, Zenon DEF TryBegin, Admitted
            <4>2. \A bytes : ~ReadChunk(c, bytes)
                BY <2>4, Zenon DEF ReadChunk
            <4> QED
                BY <4>1, <4>2, Zenon
        <3>2. /\ \A stage : Preflight(c, stage) => UNCHANGED snapshot
              /\ \A body : RefuseDispatch(c, body) => UNCHANGED snapshot
              /\ \A expected : ReceiveHead(c, expected) => UNCHANGED snapshot
            BY Zenon DEF Preflight, RefuseDispatch, ReceiveHead, accounting
        <3>3. /\ AcquireResponseRead(c) => UNCHANGED snapshot
              /\ StopReading(c) => UNCHANGED snapshot
              /\ ReadEnd(c) => UNCHANGED snapshot
            BY Zenon DEF AcquireResponseRead, StopReading, ReadEnd, accounting
        <3>4. /\ TransportFailure(c) => UNCHANGED snapshot
              /\ RequestTimeout(c) => UNCHANGED snapshot
              /\ Cancel(c) => UNCHANGED snapshot
              /\ DropLease(c) => UNCHANGED snapshot
            BY Zenon
            DEF TransportFailure, RequestTimeout, Cancel, Abandon, DropLease, accounting
        <3> QED
            BY <3>1, <3>2, <3>3, <3>4
    <2> QED
        BY <1>1, <2>5, <2>6
<1>2. IInv /\ [Next]_vars => [snapshot.response_bytes >= max_response_bytes => snapshot' = snapshot]_vars
    BY <1>1
<1> QED
    BY <1>2, Invariance, PTL DEF Spec, NothingAfterCrossing

(***************************************************************************)
(* What is said of each response                                           *)
(***************************************************************************)
\* Before a dispatch nothing is charged, kept or concluded.
Unspent(l) ==
    /\ l.response_bytes = 0 /\ l.request_body_bytes = 0 /\ l.retained = 0
    /\ ~l.response_budget_reached /\ l.outcome = None

\* While a response is in flight all of it is kept: a chunk that was not kept whole
\* would have ended it.
InTransit(l) ==
    /\ l.outcome = None /\ ~l.truncated
    /\ l.retained = l.response_bytes
    /\ l.expected # None => l.response_bytes <= l.expected
    /\ l.phase = "requesting" => l.response_bytes = 0 /\ ~l.response_budget_reached

\* The lease whose chunk reached the threshold is not closed as completed.
ClosedTruly(l) ==
    /\ l.outcome = "ResponseBudgetReached" => l.response_budget_reached
    /\ l.response_budget_reached => l.outcome # "Completed"

\* What UntruncatedIsWhole says of one response.
WholeOrTruncated(l) ==
    (l.outcome \in {"Completed", "ResponseBudgetReached"} /\ ~l.truncated) =>
        /\ l.retained = l.response_bytes
        /\ l.body_complete \/ l.expected = l.response_bytes

LeaseIsSound(l) ==
    /\ l.retained <= l.body_limit
    /\ ~HasLease(l) => Unspent(l)
    /\ l.phase \in InFlight => InTransit(l)
    /\ l.phase = "closing" => ClosedTruly(l)
    /\ WholeOrTruncated(l)

LeasesAreSound == \A c \in Collectors : LeaseIsSound(collector[c])

\* The entries of the sums in BytesAreAudited and RetainedWithinAllowances.
ReceiptBytes  == [i \in DOMAIN dispatch_receipts |-> dispatch_receipts[i].response_bytes]
ReceiptBodies == [i \in DOMAIN dispatch_receipts |-> dispatch_receipts[i].request_body_bytes]
LeasedBytes   == [c \in Leased |-> collector[c].response_bytes]
LeasedBodies  == [c \in Leased |-> collector[c].request_body_bytes]
Kept          == [c \in Collectors |-> collector[c].retained]

\* What is kept was charged, and the part of the crossing chunk beyond the threshold
\* is not kept.
KeptIsCharged ==
    /\ SumFunction(Kept) <= snapshot.response_bytes
    /\ SumFunction(Kept) <= max_response_bytes

\* The leases and the receipts that say the threshold was reached.
Crossers == {c \in Leased : collector[c].response_budget_reached}
CrossingReceipts ==
    {i \in DOMAIN dispatch_receipts : dispatch_receipts[i].outcome = "ResponseBudgetReached"}

\* The inductive invariant of the responses.  A threshold is reached from below, where
\* no lease and no receipt says so yet, by the one reader that holds the gate; that its
\* receipt repeats it needs ClosedTruly, and that what is kept adds up needs the kept
\* bytes to be bounded by the charged ones, not by the threshold alone.
AInv ==
    /\ IInv
    /\ LeasesAreSound
    /\ KeptIsCharged
    /\ BytesAreAudited
    /\ CrossingIsAttributedOnce
    /\ CrossingIsNoticed

\* The invariant says what the property says.
LEMMA AInvAccounts == AInv => ResponsesAreAccounted
<1> SUFFICES ASSUME AInv PROVE ResponsesAreAccounted
    OBVIOUS
<1>1. UntruncatedIsWhole
    BY DEF AInv, LeasesAreSound, LeaseIsSound, WholeOrTruncated, UntruncatedIsWhole
<1>2. RetainedWithinAllowances
    BY DEF AInv, LeasesAreSound, LeaseIsSound, KeptIsCharged, Kept, RetainedWithinAllowances
<1> QED
    BY <1>1, <1>2 DEF AInv, IInv, ResponsesAreAccounted

\* The sums are of finitely many numbers.
SumsAreTyped ==
    /\ IsFiniteSet(DOMAIN dispatch_receipts) /\ IsFiniteSet(Leased) /\ IsFiniteSet(Collectors)
    /\ ReceiptBytes \in [DOMAIN dispatch_receipts -> Nat]
    /\ ReceiptBodies \in [DOMAIN dispatch_receipts -> Nat]
    /\ LeasedBytes \in [Leased -> Nat]
    /\ LeasedBodies \in [Leased -> Nat]
    /\ Kept \in [Collectors -> Nat]

LEMMA SumsTyped == TypeOK => SumsAreTyped
<1> SUFFICES ASSUME TypeOK PROVE SumsAreTyped
    OBVIOUS
<1>1. IsFiniteSet(DOMAIN dispatch_receipts)
  <2>1. Len(dispatch_receipts) \in Nat /\ DOMAIN dispatch_receipts = 1..Len(dispatch_receipts)
    BY DEF TypeOK
  <2> QED
    BY <2>1, FS_Interval
<1>2. \A i \in DOMAIN dispatch_receipts : dispatch_receipts[i] \in TransportDispatchReceipt
    BY DEF TypeOK
<1>3. ReceiptBytes \in [DOMAIN dispatch_receipts -> Nat]
    BY <1>2 DEF ReceiptBytes, TransportDispatchReceipt
<1>4. ReceiptBodies \in [DOMAIN dispatch_receipts -> Nat]
    BY <1>2 DEF ReceiptBodies, TransportDispatchReceipt
<1>5. \A c \in Collectors : collector[c] \in Collector
    BY DEF TypeOK
<1>6. LeasedBytes \in [Leased -> Nat] /\ LeasedBodies \in [Leased -> Nat]
    BY <1>5 DEF LeasedBytes, LeasedBodies, Leased, Collector
<1>7. Kept \in [Collectors -> Nat]
    BY <1>5 DEF Kept, Collector
<1> QED
    BY <1>1, <1>3, <1>4, <1>6, <1>7, LeasedFinite, CollectorsAssumption DEF SumsAreTyped

LEMMA SumsTypedNext == TypeOK' => SumsAreTyped'
BY SumsTyped, PTL

\* The audit of bytes, in terms of these sums.
LEMMA AuditedAs ==
    BytesAreAudited <=>
        (omitted_dispatch_receipts = 0 =>
            /\ snapshot.response_bytes = SumFunction(ReceiptBytes) + SumFunction(LeasedBytes)
            /\ snapshot.request_body_bytes = SumFunction(ReceiptBodies) + SumFunction(LeasedBodies))
BY DEF BytesAreAudited, ReceiptBytes, ReceiptBodies, LeasedBytes, LeasedBodies

LEMMA AuditedAsNext ==
    BytesAreAudited' <=>
        (omitted_dispatch_receipts' = 0 =>
            /\ snapshot'.response_bytes = SumFunction(ReceiptBytes') + SumFunction(LeasedBytes')
            /\ snapshot'.request_body_bytes
                   = SumFunction(ReceiptBodies') + SumFunction(LeasedBodies'))
BY DEF BytesAreAudited, ReceiptBytes, ReceiptBodies, LeasedBytes, LeasedBodies

LEMMA AttributedAs ==
    CrossingIsAttributedOnce <=>
        /\ Cardinality(Crossers) + Cardinality(CrossingReceipts) <= 1
        /\ Crossers # {} \/ CrossingReceipts # {} => snapshot.response_bytes >= max_response_bytes
BY DEF CrossingIsAttributedOnce, Crossers, CrossingReceipts

LEMMA AttributedAsNext ==
    CrossingIsAttributedOnce' <=>
        /\ Cardinality(Crossers') + Cardinality(CrossingReceipts') <= 1
        /\ Crossers' # {} \/ CrossingReceipts' # {} =>
               snapshot'.response_bytes >= max_response_bytes
BY DEF CrossingIsAttributedOnce, Crossers, CrossingReceipts

LEMMA IdleSound == LeaseIsSound(IdleCollector)
BY OutcomeAssumption
DEF LeaseIsSound, Unspent, InTransit, ClosedTruly, WholeOrTruncated, HasLease, IdleCollector,
    TransportDispatchOutcome

LEMMA InitAInv == Init => AInv
<1> SUFFICES ASSUME Init PROVE AInv
    OBVIOUS
<1>1. IInv /\ TypeOK
    BY InitIInv DEF IInv
<1>2. \A c \in Collectors : collector[c] = IdleCollector
    BY DEF Init
<1>3. LeasesAreSound
  <2>1. LeaseIsSound(IdleCollector)
    BY IdleSound
  <2> QED
    BY <1>2, <2>1 DEF LeasesAreSound
<1>4. Leased = {} /\ DOMAIN dispatch_receipts = {} /\ snapshot.response_bytes = 0
      /\ snapshot.request_body_bytes = 0
    BY <1>2 DEF Leased, IdleCollector, Init
<1>5. BytesAreAudited
  <2>1. /\ SumFunction(ReceiptBytes) = 0 /\ SumFunction(ReceiptBodies) = 0
        /\ SumFunction(LeasedBytes) = 0 /\ SumFunction(LeasedBodies) = 0
    BY <1>1, <1>4, SumsTyped, TotalType DEF SumsAreTyped
  <2> QED
    BY <1>4, <2>1, AuditedAs
<1>6. Crossers = {} /\ CrossingReceipts = {}
    BY <1>4 DEF Crossers, CrossingReceipts
<1>7. CrossingIsAttributedOnce
  <2>1. Cardinality({}) = 0
    BY FS_EmptySet
  <2> QED
    BY <1>6, <2>1, AttributedAs
<1>8. CrossingIsNoticed
    BY <1>4 DEF CrossingIsNoticed
<1>9. KeptIsCharged
  <2>1. \A c \in Collectors : Kept[c] = 0
    BY <1>2 DEF Kept, IdleCollector
  <2>2. SumFunction(Kept) = 0
    BY <1>1, <2>1, SumsTyped, TotalOfZeros DEF SumsAreTyped
  <2> QED
    BY <1>4, <2>2, BudgetAssumption DEF KeptIsCharged
<1> QED
    BY <1>1, <1>3, <1>5, <1>7, <1>8, <1>9 DEF AInv

(***************************************************************************)
(* The steps, by what they do to the leases and to what is charged         *)
(***************************************************************************)
\* The record of a collector moves on, with the same lease and the same charges.
Steady(l, m) ==
    /\ HasLease(l) <=> HasLease(m)
    /\ m.response_bytes = l.response_bytes
    /\ m.request_body_bytes = l.request_body_bytes
    /\ m.response_budget_reached <=> l.response_budget_reached
    /\ m.retained <= l.retained

\* One collector steps.
OnlyMoves(c) == \A d \in Collectors \ {c} : collector'[d] = collector[d]

\* The others' records are as sound as they were.
LEMMA SoundKept ==
    ASSUME LeasesAreSound, NEW c \in Collectors, OnlyMoves(c), LeaseIsSound(collector'[c])
    PROVE  LeasesAreSound'
BY DEF LeasesAreSound, OnlyMoves

\* Less is kept: what is kept stays within what is charged.
LEMMA KeptShrinks ==
    ASSUME AInv, TypeOK', NEW c \in Collectors, OnlyMoves(c),
           collector'[c].retained <= collector[c].retained,
           snapshot'.response_bytes = snapshot.response_bytes
    PROVE  KeptIsCharged'
<1>1. /\ SumsAreTyped /\ SumsAreTyped'
      /\ snapshot.response_bytes \in Nat /\ max_response_bytes \in Nat
    BY SumsTyped, SumsTypedNext, BudgetAssumption
    DEF AInv, IInv, TypeOK, RequestAccountingSnapshot
<1>2. /\ Kept \in [Collectors -> Nat] /\ Kept' \in [Collectors -> Nat]
      /\ IsFiniteSet(Collectors)
    BY <1>1 DEF SumsAreTyped
<1>3. \A d \in Collectors \ {c} : Kept'[d] = Kept[d]
    BY DEF OnlyMoves, Kept
<1>4. Kept[c] \in Nat /\ Kept'[c] \in Nat /\ Kept'[c] <= Kept[c]
    BY <1>2 DEF Kept
<1>5. SumFunction(Kept') + Kept[c] = SumFunction(Kept) + Kept'[c]
    BY <1>2, <1>3, TotalChange
<1>6. SumFunction(Kept) \in Nat /\ SumFunction(Kept') \in Nat
    BY <1>2, TotalType
<1>7. SumFunction(Kept) <= snapshot.response_bytes /\ SumFunction(Kept) <= max_response_bytes
    BY DEF AInv, KeptIsCharged
<1> DEFINE before == SumFunction(Kept)
           after == SumFunction(Kept')
           own == Kept[c]
           left == Kept'[c]
<1>8. after <= before
  <2>1. /\ before \in Nat /\ after \in Nat /\ own \in Nat /\ left \in Nat /\ left <= own
        /\ after + own = before + left
    BY <1>4, <1>5, <1>6
  <2> HIDE DEF before, after, own, left
  <2> QED
    BY <2>1
<1> HIDE DEF before, after
<1>9. before \in Nat /\ after \in Nat /\ before <= snapshot.response_bytes /\ before <= max_response_bytes
    BY <1>6, <1>7 DEF before, after
<1>10. after <= snapshot.response_bytes /\ after <= max_response_bytes
    BY <1>1, <1>8, <1>9
<1> QED
    BY <1>10 DEF after, KeptIsCharged

\* A step that keeps lease and charges leaves the accounts as they are.
LEMMA SteadyStep ==
    ASSUME AInv, IInv', NEW c \in Collectors, OnlyMoves(c),
           Steady(collector[c], collector'[c]), LeaseIsSound(collector'[c]),
           UNCHANGED accounting
    PROVE  AInv'
<1>1. TypeOK /\ TypeOK' /\ UNCHANGED <<snapshot, dispatch_receipts, omitted_dispatch_receipts>>
    BY DEF AInv, IInv, accounting
<1>2. LeasesAreSound'
    BY SoundKept DEF AInv
<1>3. KeptIsCharged'
    BY <1>1, KeptShrinks DEF Steady
<1>4. Leased' = Leased
    BY DEF Leased, Steady, HasLease, OnlyMoves
<1>5. /\ \A d \in Collectors : collector'[d].response_bytes = collector[d].response_bytes
      /\ \A d \in Collectors : collector'[d].request_body_bytes = collector[d].request_body_bytes
      /\ \A d \in Collectors :
             collector'[d].response_budget_reached <=> collector[d].response_budget_reached
    BY DEF Steady, OnlyMoves
<1>6. LeasedBytes' = LeasedBytes /\ LeasedBodies' = LeasedBodies
    BY <1>4, <1>5 DEF LeasedBytes, LeasedBodies, Leased
<1>7. ReceiptBytes' = ReceiptBytes /\ ReceiptBodies' = ReceiptBodies
    BY <1>1 DEF ReceiptBytes, ReceiptBodies
<1>8. BytesAreAudited'
  <2>1. BytesAreAudited /\ (BytesAreAudited' <=>
          (omitted_dispatch_receipts' = 0 =>
            /\ snapshot'.response_bytes = SumFunction(ReceiptBytes') + SumFunction(LeasedBytes')
            /\ snapshot'.request_body_bytes = SumFunction(ReceiptBodies') + SumFunction(LeasedBodies')))
    BY AuditedAsNext DEF AInv
  <2> QED
    BY <1>1, <1>6, <1>7, <2>1, AuditedAs
<1>9. Crossers' = Crossers /\ CrossingReceipts' = CrossingReceipts
    BY <1>1, <1>4, <1>5 DEF Crossers, CrossingReceipts, Leased
<1>10. CrossingIsAttributedOnce'
    BY <1>1, <1>9, AttributedAs, AttributedAsNext DEF AInv
<1>11. CrossingIsNoticed'
  <2>1. CrossingIsNoticed /\ \A d \in Leased : d \in Collectors
    BY DEF AInv, Leased
  <2> QED
    BY <1>1, <1>4, <1>5, <2>1 DEF CrossingIsNoticed
<1> QED
    BY <1>2, <1>3, <1>8, <1>10, <1>11 DEF AInv

\* A dispatch adds a lease with its request body and no response yet.
LEMMA BeginsAccount ==
    ASSUME AInv, IInv', NEW c \in Collectors, NEW stage \in Stages, NEW body \in RequestBodies,
           TryBegin(c, stage, body)
    PROVE  AInv'
<1>1. /\ TypeOK /\ TypeOK' /\ body \in Nat /\ collector \in [Collectors -> Collector]
      /\ UNCHANGED <<dispatch_receipts, omitted_dispatch_receipts>>
    BY PeerAssumption DEF AInv, IInv, TypeOK, TryBegin
<1>2. /\ snapshot'.response_bytes = snapshot.response_bytes
      /\ snapshot'.request_body_bytes = snapshot.request_body_bytes + body
  <2>1. snapshot \in RequestAccountingSnapshot
    BY <1>1 DEF TypeOK
  <2>2. CASE stage = "Passive"
    BY <2>1, <2>2 DEF TryBegin, RecordDispatch, RequestAccountingSnapshot
  <2>3. CASE stage # "Passive"
    BY <2>1, <2>3 DEF TryBegin, RecordDispatch, RequestAccountingSnapshot
  <2> QED
    BY <2>2, <2>3
<1>3. /\ OnlyMoves(c)
      /\ collector'[c].phase = "requesting" /\ collector'[c].request_body_bytes = body
      /\ collector'[c].response_bytes = 0 /\ collector'[c].retained = 0
      /\ ~collector'[c].response_budget_reached /\ ~collector'[c].truncated
      /\ collector'[c].outcome = None /\ collector'[c].expected = None
      /\ collector'[c].body_limit \in Nat
  <2>1. collector'[c] \in Collector
    BY <1>1 DEF TypeOK
  <2> QED
    BY <1>1, <2>1 DEF TryBegin, OnlyMoves, IdleCollector, Collector
<1>4. LeaseIsSound(collector'[c])
    BY <1>3, OutcomeAssumption
    DEF LeaseIsSound, HasLease, InTransit, WholeOrTruncated, TransportDispatchOutcome
<1>5. LeasesAreSound'
    BY <1>3, <1>4, SoundKept DEF AInv
<1>6. Unspent(collector[c]) /\ ~HasLease(collector[c])
    BY DEF AInv, LeasesAreSound, LeaseIsSound, TryBegin, HasLease
<1>7. KeptIsCharged'
    BY <1>1, <1>2, <1>3, <1>6, KeptShrinks DEF Unspent
<1>8. c \notin Leased /\ Leased' = Leased \cup {c} /\ \A d \in Leased : d \in Collectors \ {c}
    BY <1>3, <1>6 DEF Leased, HasLease, OnlyMoves
<1>9. SumsAreTyped /\ SumsAreTyped'
    BY <1>1, SumsTyped, SumsTypedNext
<1>10. ReceiptBytes' = ReceiptBytes /\ ReceiptBodies' = ReceiptBodies
    BY <1>1 DEF ReceiptBytes, ReceiptBodies
<1>11. SumFunction(LeasedBytes') = SumFunction(LeasedBytes) + 0
  <2>1. (\A d \in Leased : LeasedBytes'[d] = LeasedBytes[d]) /\ LeasedBytes'[c] = 0
    BY <1>3, <1>8 DEF LeasedBytes, OnlyMoves
  <2>2. /\ IsFiniteSet(Leased) /\ LeasedBytes \in [Leased -> Nat] /\ LeasedBytes' \in [Leased' -> Nat]
        /\ c \notin Leased /\ Leased' = Leased \cup {c}
    BY <1>8, <1>9 DEF SumsAreTyped
  <2>3. SumFunction(LeasedBytes') = SumFunction(LeasedBytes) + LeasedBytes'[c]
    BY <2>1, <2>2, TotalInsert
  <2> QED
    BY <2>1, <2>3
<1>12. SumFunction(LeasedBodies') = SumFunction(LeasedBodies) + body
  <2>1. (\A d \in Leased : LeasedBodies'[d] = LeasedBodies[d]) /\ LeasedBodies'[c] = body
    BY <1>3, <1>8 DEF LeasedBodies, OnlyMoves
  <2>2. /\ IsFiniteSet(Leased) /\ LeasedBodies \in [Leased -> Nat] /\ LeasedBodies' \in [Leased' -> Nat]
        /\ c \notin Leased /\ Leased' = Leased \cup {c}
    BY <1>8, <1>9 DEF SumsAreTyped
  <2>3. SumFunction(LeasedBodies') = SumFunction(LeasedBodies) + LeasedBodies'[c]
    BY <2>1, <2>2, TotalInsert
  <2> QED
    BY <2>1, <2>3
<1>13. BytesAreAudited'
  <2>1. /\ SumFunction(LeasedBytes) \in Nat /\ SumFunction(LeasedBodies) \in Nat
        /\ SumFunction(ReceiptBytes) \in Nat /\ SumFunction(ReceiptBodies) \in Nat
    BY <1>9, TotalType DEF SumsAreTyped
  <2>2. BytesAreAudited
    BY DEF AInv
  <2> QED
    BY <1>1, <1>2, <1>10, <1>11, <1>12, <2>1, <2>2, AuditedAs, AuditedAsNext
<1>14. Crossers' = Crossers /\ CrossingReceipts' = CrossingReceipts
    BY <1>1, <1>3, <1>8 DEF Crossers, CrossingReceipts, OnlyMoves
<1>15. CrossingIsAttributedOnce'
    BY <1>2, <1>14, AttributedAs, AttributedAsNext DEF AInv
<1>16. CrossingIsNoticed'
  <2>1. CrossingIsNoticed /\ \A d \in Leased : d \in Leased' /\ collector'[d] = collector[d]
    BY <1>3, <1>8 DEF AInv, OnlyMoves
  <2> QED
    BY <1>1, <1>2, <2>1 DEF CrossingIsNoticed
<1> QED
    BY <1>5, <1>7, <1>13, <1>15, <1>16 DEF AInv

\* What a chunk adds to what is kept, as numbers: within the session's remainder, the
\* response's own limit and the chunk.
LEMMA ChunkArithmetic ==
    ASSUME NEW bytes \in Nat, NEW charged \in Nat, NEW limit \in Nat, NEW own \in Nat,
           NEW body \in Nat, charged < limit, own <= body,
           NEW kept, kept = Lesser(Lesser(bytes, SaturatingSub(limit, charged)),
                                   SaturatingSub(body, own))
    PROVE  /\ kept \in Nat /\ kept <= bytes /\ own + kept <= body
           /\ charged + kept <= limit
           /\ ~(kept < bytes) => kept = bytes
           /\ ReachesBudget(bytes, SaturatingSub(limit, charged)) <=> charged + bytes >= limit
<1>1. SaturatingSub(limit, charged) = limit - charged /\ SaturatingSub(body, own) = body - own
    BY DEF SaturatingSub
<1> QED
    BY <1>1 DEF Lesser, ReachesBudget

\* The fields a chunk changes.
LEMMA ChunkFields ==
    ASSUME TypeOK, NEW c \in Collectors, NEW bytes \in 0..MaxChunk, ReadChunk(c, bytes)
    PROVE  /\ OnlyMoves(c)
           /\ collector'[c].response_bytes = collector[c].response_bytes + bytes
           /\ collector'[c].response_budget_reached =
                  (\/ collector[c].response_budget_reached
                   \/ ReachesBudget(bytes, RemainingResponseBytes))
           /\ collector'[c].retained = collector[c].retained + RetainedOf(c, bytes)
           /\ collector'[c].truncated = CutsShort(c, bytes)
           /\ collector'[c].phase = (IF CutsShort(c, bytes) THEN "closing" ELSE "reading")
           /\ collector'[c].outcome =
                  (IF CutsShort(c, bytes)
                   THEN CollectedOutcome(collector'[c].response_budget_reached) ELSE None)
           /\ collector'[c].expected = collector[c].expected
           /\ collector'[c].body_limit = collector[c].body_limit
           /\ collector'[c].request_body_bytes = collector[c].request_body_bytes
           /\ collector'[c].body_complete = collector[c].body_complete
           /\ snapshot'.response_bytes = snapshot.response_bytes + bytes
           /\ snapshot'.request_body_bytes = snapshot.request_body_bytes
           /\ UNCHANGED <<dispatch_receipts, omitted_dispatch_receipts>>
<1> DEFINE reached == \/ collector[c].response_budget_reached
                      \/ ReachesBudget(bytes, RemainingResponseBytes)
           cut == CutsShort(c, bytes)
           kept == collector[c].retained + RetainedOf(c, bytes)
           charged == collector[c].response_bytes + bytes
           outcome == IF cut THEN CollectedOutcome(reached) ELSE None
           phase == IF cut THEN "closing" ELSE "reading"
           total == snapshot.response_bytes + bytes
<1>1. /\ collector' = [collector EXCEPT
              ![c].response_bytes = charged, ![c].response_budget_reached = reached,
              ![c].retained = kept, ![c].truncated = cut, ![c].phase = phase,
              ![c].outcome = outcome]
      /\ snapshot' = [snapshot EXCEPT !.response_bytes = total]
      /\ UNCHANGED <<dispatch_receipts, omitted_dispatch_receipts>>
    BY DEF ReadChunk
<1>2. /\ collector[c] \in Collector /\ collector \in [Collectors -> Collector]
      /\ snapshot \in RequestAccountingSnapshot
    BY DEF TypeOK
<1> HIDE DEF kept, charged, reached, cut, outcome, phase, total
<1>3. /\ OnlyMoves(c)
      /\ collector'[c].response_bytes = charged /\ collector'[c].response_budget_reached = reached
      /\ collector'[c].retained = kept /\ collector'[c].truncated = cut
      /\ collector'[c].phase = phase /\ collector'[c].outcome = outcome
      /\ collector'[c].expected = collector[c].expected
      /\ collector'[c].body_limit = collector[c].body_limit
      /\ collector'[c].request_body_bytes = collector[c].request_body_bytes
      /\ collector'[c].body_complete = collector[c].body_complete
    BY <1>1, <1>2 DEF OnlyMoves, Collector
<1>4. snapshot'.response_bytes = total /\ snapshot'.request_body_bytes = snapshot.request_body_bytes
    BY <1>1, <1>2 DEF RequestAccountingSnapshot
<1> QED
    BY <1>1, <1>3, <1>4, Zenon DEF kept, charged, reached, cut, outcome, phase, total

\* A chunk is charged to its lease and to the session alike, what is kept of it stays
\* within both remainders, and the chunk that reaches the threshold marks its lease, the
\* first one to be marked.
LEMMA ChunkAccounts ==
    ASSUME AInv, IInv', NEW c \in Collectors, NEW bytes \in 0..MaxChunk, ReadChunk(c, bytes)
    PROVE  AInv'
<1> DEFINE r == RetainedOf(c, bytes)
           kept == collector[c].retained
           charged == collector[c].response_bytes
           total == snapshot.response_bytes
           limit == collector[c].body_limit
<1>0. TypeOK /\ TypeOK'
    BY DEF AInv, IInv
<1>1. /\ bytes \in Nat /\ kept \in Nat /\ charged \in Nat /\ total \in Nat /\ limit \in Nat
      /\ max_response_bytes \in Nat
  <2>1. snapshot \in RequestAccountingSnapshot /\ collector[c] \in Collector
    BY <1>0 DEF TypeOK
  <2>2. total \in Nat /\ kept \in Nat /\ charged \in Nat /\ limit \in Nat
    BY <2>1 DEF RequestAccountingSnapshot, Collector
  <2> QED
    BY <2>2, BudgetAssumption, PeerAssumption
<1>2. /\ total < max_response_bytes /\ collector[c].phase = "gated"
      /\ LeaseIsSound(collector[c]) /\ InTransit(collector[c])
    BY DEF AInv, IInv, ReadsAuthorised, ReadChunk, LeasesAreSound, LeaseIsSound
<1>3. /\ OnlyMoves(c)
      /\ collector'[c].response_bytes = charged + bytes
      /\ collector'[c].retained = kept + r
      /\ collector'[c].phase = (IF CutsShort(c, bytes) THEN "closing" ELSE "reading")
      /\ collector'[c].request_body_bytes = collector[c].request_body_bytes
      /\ snapshot'.response_bytes = total + bytes
      /\ snapshot'.request_body_bytes = snapshot.request_body_bytes
      /\ UNCHANGED <<dispatch_receipts, omitted_dispatch_receipts>>
    BY <1>0, ChunkFields
<1>4. kept <= limit /\ kept = charged
    BY <1>2 DEF LeaseIsSound, InTransit
<1>5. r = Lesser(Lesser(bytes, SaturatingSub(max_response_bytes, total)),
                 SaturatingSub(limit, kept))
    BY DEF RetainedOf, RemainingResponseBytes, PerRequestRemaining
<1> HIDE DEF r, kept, charged, total, limit
<1>6. /\ r \in Nat /\ r <= bytes /\ kept + r <= limit /\ total + r <= max_response_bytes
      /\ ~(r < bytes) => r = bytes
      /\ ReachesBudget(bytes, SaturatingSub(max_response_bytes, total))
            <=> total + bytes >= max_response_bytes
    BY <1>1, <1>2, <1>4, <1>5, ChunkArithmetic
<1>7. Leased' = Leased /\ c \in Leased
  <2>1. HasLease(collector[c]) /\ HasLease(collector'[c])
    BY <1>2, <1>3 DEF HasLease
  <2> QED
    BY <1>3, <2>1 DEF Leased, HasLease, OnlyMoves
<1>8. SumsAreTyped /\ SumsAreTyped'
    BY <1>0, SumsTyped, SumsTypedNext
<1>9. KeptIsCharged'
  <2>1. /\ IsFiniteSet(Collectors) /\ Kept \in [Collectors -> Nat] /\ Kept' \in [Collectors -> Nat]
        /\ \A d \in Collectors \ {c} : Kept'[d] = Kept[d]
        /\ Kept[c] = kept /\ Kept'[c] = kept + r
    BY <1>3, <1>8 DEF SumsAreTyped, Kept, OnlyMoves, kept
  <2>2. SumFunction(Kept') + kept = SumFunction(Kept) + (kept + r)
    BY <2>1, TotalChange
  <2>3. SumFunction(Kept) \in Nat /\ SumFunction(Kept') \in Nat
    BY <2>1, TotalType
  <2>4. SumFunction(Kept) <= total
    BY DEF AInv, KeptIsCharged, total
  <2> DEFINE before == SumFunction(Kept)
             after == SumFunction(Kept')
  <2>5. /\ before \in Nat /\ after \in Nat /\ before <= total
        /\ after + kept = before + (kept + r)
    BY <2>2, <2>3, <2>4
  <2> HIDE DEF before, after
  <2>6. after <= total + bytes /\ after <= max_response_bytes
    BY <1>1, <1>6, <2>5
  <2>7. SumFunction(Kept') <= snapshot'.response_bytes /\ SumFunction(Kept') <= max_response_bytes
    BY <1>3, <2>6 DEF after
  <2> QED
    BY <2>7 DEF KeptIsCharged
<1>10. BytesAreAudited'
  <2>1. ReceiptBytes' = ReceiptBytes /\ ReceiptBodies' = ReceiptBodies
    BY <1>3 DEF ReceiptBytes, ReceiptBodies
  <2>2. LeasedBodies' = LeasedBodies
  <3>1. \A d \in Leased : collector'[d].request_body_bytes = collector[d].request_body_bytes
    BY <1>3 DEF Leased, OnlyMoves
  <3> QED
    BY <1>7, <3>1 DEF LeasedBodies
  <2>3. /\ IsFiniteSet(Leased) /\ LeasedBytes \in [Leased -> Nat] /\ LeasedBytes' \in [Leased -> Nat]
        /\ \A d \in Leased \ {c} : LeasedBytes'[d] = LeasedBytes[d]
        /\ LeasedBytes[c] = charged /\ LeasedBytes'[c] = charged + bytes
    <3>1. \A d \in Leased \ {c} : collector'[d] = collector[d]
      BY <1>3 DEF Leased, OnlyMoves
    <3> QED
      BY <1>3, <1>7, <1>8, <3>1 DEF SumsAreTyped, LeasedBytes, charged
  <2>4. SumFunction(LeasedBytes') + charged = SumFunction(LeasedBytes) + (charged + bytes)
    BY <1>7, <2>3, TotalChange
  <2>5. /\ SumFunction(LeasedBytes) \in Nat /\ SumFunction(LeasedBytes') \in Nat
        /\ SumFunction(ReceiptBytes) \in Nat
    BY <1>8, <2>3, TotalType DEF SumsAreTyped
  <2> DEFINE before == SumFunction(LeasedBytes)
             after == SumFunction(LeasedBytes')
             receipted == SumFunction(ReceiptBytes)
  <2>6. /\ before \in Nat /\ after \in Nat /\ receipted \in Nat
        /\ after + charged = before + (charged + bytes)
    BY <2>4, <2>5
  <2>7. BytesAreAudited
    BY DEF AInv
  <2>8. omitted_dispatch_receipts = 0 =>
            total = receipted + before
            /\ snapshot.request_body_bytes = SumFunction(ReceiptBodies) + SumFunction(LeasedBodies)
    BY <2>7, AuditedAs DEF total
  <2> HIDE DEF before, after, receipted
  <2>9. total = receipted + before => total + bytes = receipted + after
    BY <1>1, <2>6
  <2>10. omitted_dispatch_receipts' = 0 =>
            snapshot'.response_bytes = receipted + after
            /\ snapshot'.request_body_bytes = SumFunction(ReceiptBodies') + SumFunction(LeasedBodies')
    BY <1>3, <2>1, <2>2, <2>8, <2>9
  <2>11. receipted = SumFunction(ReceiptBytes') /\ after = SumFunction(LeasedBytes')
    BY <2>1 DEF receipted, after
  <2> QED
    BY <2>10, <2>11, AuditedAsNext
<1>11. ~collector[c].response_budget_reached /\ Crossers = {} /\ CrossingReceipts = {}
  <2>1. ~(total >= max_response_bytes)
    BY <1>1, <1>2
  <2>2. Crossers = {} /\ CrossingReceipts = {}
    BY <2>1, AttributedAs DEF AInv, total
  <2> QED
    BY <1>7, <2>2 DEF Crossers
<1>12. collector'[c].response_budget_reached <=> total + bytes >= max_response_bytes
  <2>1. collector'[c].response_budget_reached =
            (\/ collector[c].response_budget_reached
             \/ ReachesBudget(bytes, SaturatingSub(max_response_bytes, total)))
    BY <1>0, ChunkFields DEF RemainingResponseBytes, total
  <2> QED
    BY <1>6, <1>11, <2>1
<1>13. CrossingReceipts' = {} /\ Crossers' \subseteq {c}
       /\ (Crossers' # {} => total + bytes >= max_response_bytes)
       /\ (total + bytes >= max_response_bytes => c \in Crossers')
  <2>1. CrossingReceipts' = {}
    BY <1>3, <1>11 DEF CrossingReceipts
  <2>2. \A d \in Leased \ {c} : ~collector'[d].response_budget_reached
    BY <1>3, <1>11 DEF Crossers, Leased, OnlyMoves
  <2> QED
    BY <1>7, <1>12, <2>1, <2>2 DEF Crossers
<1>14. CrossingIsAttributedOnce'
  <2>1. Cardinality({}) = 0 /\ Cardinality({c}) = 1
    BY FS_EmptySet, FS_Singleton
  <2>2. Crossers' = {} \/ Crossers' = {c}
    BY <1>13
  <2>3. Cardinality(Crossers') + Cardinality(CrossingReceipts') <= 1
    BY <1>13, <2>1, <2>2
  <2> QED
    BY <1>3, <1>13, <2>3, AttributedAsNext
<1>15. CrossingIsNoticed'
    BY <1>3, <1>13 DEF CrossingIsNoticed, Crossers
<1>16. LeaseIsSound(collector'[c])
  <2>1. collector'[c].retained <= collector'[c].body_limit
    BY <1>0, <1>3, <1>6, ChunkFields DEF limit
  <2>2. CASE r < bytes
    <3>1. /\ collector'[c].phase = "closing" /\ collector'[c].truncated
          /\ collector'[c].outcome = CollectedOutcome(collector'[c].response_budget_reached)
      BY <1>0, <2>2, ChunkFields DEF CutsShort, r
    <3> QED
      BY <2>1, <3>1
      DEF LeaseIsSound, HasLease, ClosedTruly, WholeOrTruncated, CollectedOutcome
  <2>3. CASE ~(r < bytes)
    <3>1. /\ collector'[c].phase = "reading" /\ ~collector'[c].truncated
          /\ collector'[c].outcome = None /\ collector'[c].expected = collector[c].expected
      BY <1>0, <2>3, ChunkFields DEF CutsShort, r
    <3>2. collector'[c].retained = collector'[c].response_bytes
      BY <1>3, <1>4, <1>6, <2>3
    <3>3. collector'[c].expected # None => collector'[c].response_bytes <= collector'[c].expected
      BY <1>3, <3>1 DEF ReadChunk, Deliverable, charged
    <3> QED
      BY <2>1, <3>1, <3>2, <3>3, OutcomeAssumption
      DEF LeaseIsSound, HasLease, InTransit, WholeOrTruncated, TransportDispatchOutcome
  <2> QED
    BY <2>2, <2>3
<1>17. LeasesAreSound'
    BY <1>3, <1>16, SoundKept DEF AInv
<1> QED
    BY <1>9, <1>10, <1>14, <1>15, <1>17 DEF AInv

\* A dropped lease hands its bytes, and the mark of the crossing, to its receipt; one
\* that finds no room is counted, and the audit of bytes ends there.
LEMMA DropAccounts ==
    ASSUME AInv, IInv', NEW c \in Collectors, DropLease(c)
    PROVE  AInv'
<1> DEFINE l == collector[c]
           n == Len(dispatch_receipts)
<1>1. /\ TypeOK /\ TypeOK' /\ UNCHANGED snapshot /\ l.phase = "closing"
      /\ l \in Collector /\ collector \in [Collectors -> Collector]
      /\ dispatch_receipts \in Seq(TransportDispatchReceipt) /\ n \in Nat
      /\ omitted_dispatch_receipts \in Nat
    BY DEF AInv, IInv, TypeOK, DropLease
<1>2. OnlyMoves(c) /\ collector'[c] = IdleCollector
    BY <1>1 DEF DropLease, OnlyMoves
<1>3. LeasesAreSound'
    BY <1>2, IdleSound, SoundKept DEF AInv
<1>4. KeptIsCharged'
  <2>1. collector'[c].retained <= collector[c].retained
    BY <1>1, <1>2 DEF IdleCollector, Collector
  <2> QED
    BY <1>1, <1>2, <2>1, KeptShrinks
<1>5. c \in Leased /\ Leased' = Leased \ {c} /\ (\A d \in Leased' : collector'[d] = collector[d])
  <2>1. c \in Leased /\ Leased' = Leased \ {c}
    BY <1>1, <1>2 DEF Leased, OnlyMoves, IdleCollector
  <2> QED
    BY <1>2, <2>1 DEF Leased, OnlyMoves
<1>6. SumsAreTyped /\ SumsAreTyped'
    BY <1>1, SumsTyped, SumsTypedNext
<1>7. /\ SumFunction(LeasedBytes) = SumFunction(LeasedBytes') + l.response_bytes
      /\ SumFunction(LeasedBodies) = SumFunction(LeasedBodies') + l.request_body_bytes
  <2>1. /\ \A d \in Leased' : LeasedBytes[d] = LeasedBytes'[d]
        /\ \A d \in Leased' : LeasedBodies[d] = LeasedBodies'[d]
        /\ LeasedBytes[c] = l.response_bytes /\ LeasedBodies[c] = l.request_body_bytes
    BY <1>5 DEF LeasedBytes, LeasedBodies
  <2>2. c \notin Leased' /\ Leased = Leased' \cup {c}
    BY <1>5
  <2>3. /\ IsFiniteSet(Leased') /\ LeasedBytes' \in [Leased' -> Nat] /\ LeasedBytes \in [Leased -> Nat]
        /\ LeasedBodies' \in [Leased' -> Nat] /\ LeasedBodies \in [Leased -> Nat]
    BY <1>6 DEF SumsAreTyped
  <2>4. SumFunction(LeasedBytes) = SumFunction(LeasedBytes') + LeasedBytes[c]
    BY <2>1, <2>2, <2>3, TotalInsert
  <2>5. SumFunction(LeasedBodies) = SumFunction(LeasedBodies') + LeasedBodies[c]
    BY <2>1, <2>2, <2>3, TotalInsert
  <2> QED
    BY <2>1, <2>4, <2>5
<1>8. Crossers' = Crossers \ {c} /\ IsFiniteSet(Crossers)
  <2>1. Crossers' = Crossers \ {c}
    BY <1>5 DEF Crossers
  <2>2. Crossers \subseteq Leased
    BY DEF Crossers
  <2> QED
    BY <2>1, <2>2, LeasedFinite, FS_Subset
<1>9. IsFiniteSet(CrossingReceipts)
  <2>1. CrossingReceipts \subseteq DOMAIN dispatch_receipts
    BY DEF CrossingReceipts
  <2> QED
    BY <1>6, <2>1, FS_Subset DEF SumsAreTyped
<1>10. /\ Cardinality(Crossers) \in Nat /\ Cardinality(CrossingReceipts) \in Nat
       /\ Cardinality(Crossers) + Cardinality(CrossingReceipts) <= 1
       /\ Crossers # {} \/ CrossingReceipts # {} => snapshot.response_bytes >= max_response_bytes
    BY <1>8, <1>9, FS_CardinalityType, AttributedAs DEF AInv
<1>11. /\ c \in Crossers <=> l.response_budget_reached
       /\ l.outcome = "ResponseBudgetReached" => c \in Crossers
       /\ l.response_budget_reached => l.outcome # "Completed"
  <2>1. ClosedTruly(l)
    BY <1>1 DEF AInv, LeasesAreSound, LeaseIsSound
  <2> QED
    BY <1>5, <2>1 DEF Crossers, ClosedTruly
<1>12. c \in Crossers => Cardinality(Crossers') = Cardinality(Crossers) - 1
    BY <1>8, FS_RemoveElement
<1>13. Cardinality(Crossers') \in Nat /\ Cardinality(Crossers') <= Cardinality(Crossers)
  <2>1. CASE c \in Crossers
    <3>1. IsFiniteSet(Crossers')
      BY <1>8, FS_Subset
    <3> QED
      BY <1>10, <1>12, <2>1, <3>1, FS_CardinalityType
  <2>2. CASE c \notin Crossers
    <3>1. Crossers' = Crossers
      BY <1>8, <2>2
    <3> QED
      BY <1>10, <3>1
  <2> QED
    BY <2>1, <2>2
<1>14. CrossingIsNoticed
    BY DEF AInv
<1>15. CASE dispatch_receipts' = Append(dispatch_receipts, Receipt(l))
            /\ UNCHANGED omitted_dispatch_receipts
  <2>1. /\ DOMAIN dispatch_receipts = 1..n /\ DOMAIN dispatch_receipts' = 1..(n + 1)
        /\ \A i \in 1..n : dispatch_receipts'[i] = dispatch_receipts[i]
        /\ dispatch_receipts'[n + 1] = Receipt(l)
    BY <1>1, <1>15, ReceiptTyped
  <2>2. 1..(n + 1) = 1..n \cup {n + 1} /\ n + 1 \notin 1..n
    BY <1>1
  <2>3. /\ Receipt(l).response_bytes = l.response_bytes
        /\ Receipt(l).request_body_bytes = l.request_body_bytes
        /\ Receipt(l).outcome = (IF l.outcome = None THEN "Cancelled" ELSE l.outcome)
    BY DEF Receipt
  <2> HIDE DEF l, n
  <2>4. /\ SumFunction(ReceiptBytes') = SumFunction(ReceiptBytes) + l.response_bytes
        /\ SumFunction(ReceiptBodies') = SumFunction(ReceiptBodies) + l.request_body_bytes
    <3>1. /\ \A i \in 1..n : ReceiptBytes'[i] = ReceiptBytes[i]
          /\ \A i \in 1..n : ReceiptBodies'[i] = ReceiptBodies[i]
          /\ ReceiptBytes'[n + 1] = l.response_bytes
          /\ ReceiptBodies'[n + 1] = l.request_body_bytes
      BY <2>1, <2>2, <2>3 DEF ReceiptBytes, ReceiptBodies
    <3>2. /\ IsFiniteSet(1..n)
          /\ ReceiptBytes \in [1..n -> Nat] /\ ReceiptBytes' \in [1..(n + 1) -> Nat]
          /\ ReceiptBodies \in [1..n -> Nat] /\ ReceiptBodies' \in [1..(n + 1) -> Nat]
      BY <1>6, <2>1 DEF SumsAreTyped
    <3> DEFINE D == 1..n
               E == 1..(n + 1)
               x == n + 1
    <3>3. x \notin D /\ E = D \cup {x}
      BY <2>2
    <3>4. /\ IsFiniteSet(D)
          /\ ReceiptBytes \in [D -> Nat] /\ ReceiptBytes' \in [E -> Nat]
          /\ ReceiptBodies \in [D -> Nat] /\ ReceiptBodies' \in [E -> Nat]
          /\ \A i \in D : ReceiptBytes'[i] = ReceiptBytes[i]
          /\ \A i \in D : ReceiptBodies'[i] = ReceiptBodies[i]
          /\ ReceiptBytes'[x] = l.response_bytes /\ ReceiptBodies'[x] = l.request_body_bytes
      BY <3>1, <3>2
    <3> HIDE DEF D, E, x
    <3>5. SumFunction(ReceiptBytes') = SumFunction(ReceiptBytes) + ReceiptBytes'[x]
      BY <3>3, <3>4, TotalInsert
    <3>6. SumFunction(ReceiptBodies') = SumFunction(ReceiptBodies) + ReceiptBodies'[x]
      BY <3>3, <3>4, TotalInsert
    <3> QED
      BY <3>4, <3>5, <3>6
  <2>5. BytesAreAudited'
    <3>1. /\ SumFunction(LeasedBytes') \in Nat /\ SumFunction(LeasedBodies') \in Nat
          /\ SumFunction(ReceiptBytes) \in Nat /\ SumFunction(ReceiptBodies) \in Nat
      BY <1>6, TotalType DEF SumsAreTyped
    <3>2. l.response_bytes \in Nat /\ l.request_body_bytes \in Nat
      BY <1>1 DEF Collector
    <3>3. omitted_dispatch_receipts = 0 =>
            /\ snapshot.response_bytes = SumFunction(ReceiptBytes) + SumFunction(LeasedBytes)
            /\ snapshot.request_body_bytes = SumFunction(ReceiptBodies) + SumFunction(LeasedBodies)
      BY AuditedAs DEF AInv
    <3>4. omitted_dispatch_receipts = 0 =>
            /\ snapshot.response_bytes = SumFunction(ReceiptBytes') + SumFunction(LeasedBytes')
            /\ snapshot.request_body_bytes = SumFunction(ReceiptBodies') + SumFunction(LeasedBodies')
      BY <1>7, <2>4, <3>1, <3>2, <3>3
    <3> QED
      BY <1>1, <1>15, <3>4, AuditedAsNext
  <2>6. ASSUME l.outcome = "ResponseBudgetReached" PROVE CrossingIsAttributedOnce'
    <3>1. CrossingReceipts' = CrossingReceipts \cup {n + 1} /\ n + 1 \notin CrossingReceipts
      BY <2>1, <2>2, <2>3, <2>6, OutcomeAssumption
      DEF CrossingReceipts, TransportDispatchOutcome
    <3>2. Cardinality(CrossingReceipts') = Cardinality(CrossingReceipts) + 1
      BY <1>9, <3>1, FS_AddElement
    <3>3. Cardinality(Crossers') + Cardinality(CrossingReceipts') <= 1
      BY <1>10, <1>11, <1>12, <2>6, <3>2
    <3>4. snapshot'.response_bytes >= max_response_bytes
      BY <1>1, <1>10, <1>11, <2>6
    <3> QED
      BY <3>3, <3>4, AttributedAsNext
  <2>7. ASSUME l.outcome # "ResponseBudgetReached" PROVE CrossingIsAttributedOnce'
    <3>1. CrossingReceipts' = CrossingReceipts
      BY <2>1, <2>2, <2>3, <2>7 DEF CrossingReceipts
    <3> QED
      BY <1>1, <1>8, <1>10, <1>13, <3>1, AttributedAsNext
  <2>8. CrossingIsAttributedOnce'
    BY <2>6, <2>7
  <2>9. CrossingIsNoticed'
    <3> SUFFICES ASSUME snapshot.response_bytes >= max_response_bytes,
                        snapshot.response_bytes > 0, omitted_dispatch_receipts = 0
                 PROVE  \/ \E d \in Leased' : collector'[d].response_budget_reached
                        \/ \E i \in DOMAIN dispatch_receipts' :
                              dispatch_receipts'[i].outcome \in
                                  {"ResponseBudgetReached", "RequestTimeout",
                                   "TransportFailure", "Cancelled"}
      BY <1>1, <1>15 DEF CrossingIsNoticed
    <3>1. CASE \E d \in Leased \ {c} : collector[d].response_budget_reached
      BY <1>5, <3>1
    <3>2. CASE l.response_budget_reached
      <4>1. Receipt(l).outcome \in {"ResponseBudgetReached", "RequestTimeout",
                                   "TransportFailure", "Cancelled"}
        BY <1>1, <1>11, <2>3, <3>2 DEF Collector, TransportDispatchOutcome
      <4> QED
        BY <2>1, <2>2, <4>1
    <3>3. CASE \E i \in DOMAIN dispatch_receipts :
                  dispatch_receipts[i].outcome \in
                      {"ResponseBudgetReached", "RequestTimeout", "TransportFailure", "Cancelled"}
      BY <2>1, <2>2, <3>3
    <3> QED
      BY <1>1, <1>14, <3>1, <3>2, <3>3 DEF CrossingIsNoticed, l
  <2> QED
    BY <1>3, <1>4, <2>5, <2>8, <2>9 DEF AInv
<1>16. CASE omitted_dispatch_receipts' = omitted_dispatch_receipts + 1
            /\ UNCHANGED dispatch_receipts
  <2>1. omitted_dispatch_receipts' # 0 /\ omitted_dispatch_receipts' > 0
    BY <1>1, <1>16
  <2>2. BytesAreAudited' /\ CrossingIsNoticed'
    BY <2>1 DEF BytesAreAudited, CrossingIsNoticed
  <2>3. CrossingReceipts' = CrossingReceipts
    BY <1>16 DEF CrossingReceipts
  <2>4. CrossingIsAttributedOnce'
    BY <1>1, <1>8, <1>10, <1>13, <2>3, AttributedAsNext
  <2> QED
    BY <1>3, <1>4, <2>2, <2>4 DEF AInv
<1> QED
    BY <1>15, <1>16 DEF DropLease

(***************************************************************************)
(* The steps that charge nothing                                           *)
(***************************************************************************)
\* Before a dispatch, and after a refused one, a collector holds nothing.
LEMMA PreflightAccounts ==
    ASSUME AInv, IInv', NEW c \in Collectors, NEW stage \in Stages, Preflight(c, stage)
    PROVE  AInv'
<1>1. /\ collector \in [Collectors -> Collector] /\ collector'[c] \in Collector
      /\ LeaseIsSound(collector[c])
    BY DEF AInv, IInv, TypeOK, LeasesAreSound
<1>2. Unspent(collector[c]) /\ ~HasLease(collector[c])
    BY <1>1 DEF LeaseIsSound, Preflight, HasLease
<1>3. /\ OnlyMoves(c) /\ Unspent(collector'[c]) /\ collector'[c].phase = "prepared"
      /\ collector'[c].body_limit \in Nat
    BY <1>1 DEF Preflight, OnlyMoves, Unspent, IdleCollector, Collector
<1>4. Steady(collector[c], collector'[c])
    BY <1>2, <1>3 DEF Steady, Unspent, HasLease
<1>5. LeaseIsSound(collector'[c])
    BY <1>3, OutcomeAssumption
    DEF LeaseIsSound, HasLease, WholeOrTruncated, Unspent, TransportDispatchOutcome
<1> QED
    BY <1>3, <1>4, <1>5, SteadyStep DEF Preflight

LEMMA RefuseAccounts ==
    ASSUME AInv, IInv', NEW c \in Collectors, NEW body \in RequestBodies, RefuseDispatch(c, body)
    PROVE  AInv'
<1>1. collector \in [Collectors -> Collector] /\ LeaseIsSound(collector[c])
    BY DEF AInv, IInv, TypeOK, LeasesAreSound
<1>2. Unspent(collector[c]) /\ ~HasLease(collector[c])
    BY <1>1 DEF LeaseIsSound, RefuseDispatch, HasLease
<1>3. OnlyMoves(c) /\ collector'[c] = IdleCollector
    BY <1>1 DEF RefuseDispatch, OnlyMoves
<1>4. Unspent(IdleCollector) /\ ~HasLease(IdleCollector)
    BY DEF Unspent, HasLease, IdleCollector
<1>5. Steady(collector[c], collector'[c])
    BY <1>2, <1>3, <1>4 DEF Steady, Unspent
<1> QED
    BY <1>3, <1>5, IdleSound, SteadyStep DEF RefuseDispatch

\* A response moves along or ends, and what was charged to it stays.
LEMMA HeadAccounts ==
    ASSUME AInv, IInv', NEW c \in Collectors, NEW expected \in ContentLengths \cup {None},
           ReceiveHead(c, expected)
    PROVE  AInv'
<1>1. collector \in [Collectors -> Collector] /\ collector[c] \in Collector
    BY DEF AInv, IInv, TypeOK
<1>2. LeaseIsSound(collector[c]) /\ InTransit(collector[c]) /\ collector[c].phase = "requesting"
    BY DEF AInv, LeasesAreSound, LeaseIsSound, ReceiveHead
<1>3. OnlyMoves(c) /\ collector'[c] = [collector[c] EXCEPT !.phase = "reading", !.expected = expected]
    BY <1>1 DEF ReceiveHead, OnlyMoves
<1> DEFINE l == collector[c]
           m == collector'[c]
<1>4. /\ m.phase = "reading" /\ m.expected = expected
      /\ m.response_bytes = l.response_bytes /\ m.request_body_bytes = l.request_body_bytes
      /\ m.response_budget_reached = l.response_budget_reached /\ m.retained = l.retained
      /\ m.truncated = l.truncated /\ m.outcome = l.outcome /\ m.body_limit = l.body_limit
      /\ l.retained \in Nat
    BY <1>1, <1>3 DEF Collector
<1> HIDE DEF l, m
<1>5. Steady(l, m)
    BY <1>2, <1>4 DEF Steady, HasLease, l
<1>6. expected # None => m.response_bytes <= expected
  <2>1. expected # None => expected \in Nat
    BY PeerAssumption
  <2>2. m.response_bytes = 0
    BY <1>2, <1>4 DEF InTransit, l
  <2> QED
    BY <2>1, <2>2
<1>7. InTransit(m)
    BY <1>2, <1>4, <1>6 DEF InTransit, l
<1>8. LeaseIsSound(m)
    BY <1>2, <1>4, <1>7, OutcomeAssumption
    DEF LeaseIsSound, HasLease, InTransit, WholeOrTruncated, TransportDispatchOutcome, l
<1> QED
    BY <1>3, <1>5, <1>8, SteadyStep DEF ReceiveHead, l, m

LEMMA AcquireAccounts ==
    ASSUME AInv, IInv', NEW c \in Collectors, AcquireResponseRead(c)
    PROVE  AInv'
<1>1. collector \in [Collectors -> Collector] /\ collector[c] \in Collector
    BY DEF AInv, IInv, TypeOK
<1>2. LeaseIsSound(collector[c]) /\ InTransit(collector[c]) /\ collector[c].phase = "reading"
    BY DEF AInv, LeasesAreSound, LeaseIsSound, AcquireResponseRead
<1>3. OnlyMoves(c) /\ collector'[c] = [collector[c] EXCEPT !.phase = "gated"]
    BY <1>1 DEF AcquireResponseRead, OnlyMoves
<1> DEFINE l == collector[c]
           m == collector'[c]
<1>4. /\ m.phase = "gated" /\ m.expected = l.expected
      /\ m.response_bytes = l.response_bytes /\ m.request_body_bytes = l.request_body_bytes
      /\ m.response_budget_reached = l.response_budget_reached /\ m.retained = l.retained
      /\ m.truncated = l.truncated /\ m.outcome = l.outcome /\ m.body_limit = l.body_limit
      /\ l.retained \in Nat
    BY <1>1, <1>3 DEF Collector
<1> HIDE DEF l, m
<1>5. Steady(l, m)
    BY <1>2, <1>4 DEF Steady, HasLease, l
<1>6. InTransit(m)
    BY <1>2, <1>4 DEF InTransit, l
<1>7. LeaseIsSound(m)
    BY <1>2, <1>4, <1>6, OutcomeAssumption
    DEF LeaseIsSound, HasLease, InTransit, WholeOrTruncated, TransportDispatchOutcome, l
<1> QED
    BY <1>3, <1>5, <1>7, SteadyStep DEF AcquireResponseRead, l, m

\* A response that ends collected was cut short, seen to its end or met its length.
LEMMA CollectedIsSound ==
    ASSUME NEW l, NEW m, LeaseIsSound(l), InTransit(l), l.phase \in {"reading", "gated"},
           m.phase = "closing", m.response_bytes = l.response_bytes,
           m.request_body_bytes = l.request_body_bytes,
           m.response_budget_reached = l.response_budget_reached, m.retained = l.retained,
           m.body_limit = l.body_limit, l.retained \in Nat,
           m.outcome = CollectedOutcome(l.response_budget_reached),
           ~m.truncated => m.body_complete \/ m.expected = m.response_bytes
    PROVE  Steady(l, m) /\ LeaseIsSound(m)
<1>1. Steady(l, m)
    BY DEF Steady, HasLease
<1>2. ClosedTruly(m)
    BY DEF ClosedTruly, CollectedOutcome
<1>3. WholeOrTruncated(m)
    BY DEF WholeOrTruncated, InTransit
<1> QED
    BY <1>1, <1>2, <1>3 DEF LeaseIsSound, HasLease

LEMMA StopAccounts ==
    ASSUME AInv, IInv', NEW c \in Collectors, StopReading(c)
    PROVE  AInv'
<1> DEFINE l == collector[c]
           m == collector'[c]
           cut == StoppedShort(l)
           outcome == CollectedOutcome(l.response_budget_reached)
<1>1. collector \in [Collectors -> Collector] /\ l \in Collector
    BY DEF AInv, IInv, TypeOK
<1>2. LeaseIsSound(l) /\ InTransit(l) /\ l.phase = "reading"
    BY DEF AInv, LeasesAreSound, LeaseIsSound, StopReading
<1>3. collector' = [collector EXCEPT ![c].phase = "closing", ![c].truncated = cut,
                                     ![c].outcome = outcome]
    BY DEF StopReading
<1> HIDE DEF cut, outcome
<1>4. /\ OnlyMoves(c)
      /\ m.phase = "closing" /\ m.truncated = cut /\ m.outcome = outcome
      /\ m.expected = l.expected
      /\ m.response_bytes = l.response_bytes /\ m.request_body_bytes = l.request_body_bytes
      /\ m.response_budget_reached = l.response_budget_reached /\ m.retained = l.retained
      /\ m.body_limit = l.body_limit
      /\ l.retained \in Nat
    BY <1>1, <1>3 DEF OnlyMoves, Collector
<1>5. ~cut => l.expected = l.response_bytes
  <2> SUFFICES ASSUME ~cut PROVE l.expected = l.response_bytes
    OBVIOUS
  <2>1. l.expected # None /\ ~(l.retained < l.expected)
    <3>1. l.expected # None
      BY DEF cut, StoppedShort
    <3> QED
      BY <3>1 DEF cut, StoppedShort
  <2>2. l.expected \in Nat /\ l.response_bytes \in Nat
    BY <1>1, <2>1, PeerAssumption DEF Collector
  <2>3. l.retained = l.response_bytes /\ l.response_bytes <= l.expected
    BY <1>2, <2>1 DEF InTransit
  <2> HIDE DEF l
  <2> QED
    BY <2>1, <2>2, <2>3
<1> HIDE DEF l, m
<1>6. Steady(l, m) /\ LeaseIsSound(m)
    BY <1>2, <1>4, <1>5, CollectedIsSound DEF outcome
<1> QED
    BY <1>4, <1>6, SteadyStep DEF StopReading, l, m

LEMMA EndAccounts ==
    ASSUME AInv, IInv', NEW c \in Collectors, ReadEnd(c)
    PROVE  AInv'
<1> DEFINE l == collector[c]
           m == collector'[c]
           outcome == CollectedOutcome(l.response_budget_reached)
<1>1. collector \in [Collectors -> Collector] /\ l \in Collector
    BY DEF AInv, IInv, TypeOK
<1>2. LeaseIsSound(l) /\ InTransit(l) /\ l.phase = "gated"
    BY DEF AInv, LeasesAreSound, LeaseIsSound, ReadEnd
<1>3. collector' = [collector EXCEPT ![c].phase = "closing", ![c].body_complete = TRUE,
                                     ![c].outcome = outcome]
    BY DEF ReadEnd
<1> HIDE DEF outcome
<1>4. /\ OnlyMoves(c)
      /\ m.phase = "closing" /\ m.body_complete /\ m.outcome = outcome
      /\ m.response_bytes = l.response_bytes /\ m.request_body_bytes = l.request_body_bytes
      /\ m.response_budget_reached = l.response_budget_reached /\ m.retained = l.retained
      /\ m.body_limit = l.body_limit
      /\ l.retained \in Nat
    BY <1>1, <1>3 DEF OnlyMoves, Collector
<1> HIDE DEF l, m
<1>5. Steady(l, m) /\ LeaseIsSound(m)
    BY <1>2, <1>4, CollectedIsSound DEF outcome
<1> QED
    BY <1>4, <1>5, SteadyStep DEF ReadEnd, l, m

\* A response given up is dropped, and its charges stay.
LEMMA AbandonAccounts ==
    ASSUME AInv, IInv', NEW c \in Collectors,
           NEW outcome \in {"TransportFailure", "RequestTimeout", None},
           collector[c].phase \in InFlight, Abandon(c, outcome)
    PROVE  AInv'
<1> DEFINE l == collector[c]
           m == collector'[c]
<1>1. collector \in [Collectors -> Collector] /\ l \in Collector
    BY DEF AInv, IInv, TypeOK
<1>2. /\ OnlyMoves(c)
      /\ m.phase = "closing" /\ m.retained = 0 /\ m.outcome = outcome
      /\ m.response_bytes = l.response_bytes /\ m.request_body_bytes = l.request_body_bytes
      /\ m.response_budget_reached = l.response_budget_reached
      /\ m.body_limit = l.body_limit
      /\ l.retained \in Nat /\ l.body_limit \in Nat
    BY <1>1 DEF Abandon, OnlyMoves, Collector
<1>3. HasLease(l) /\ HasLease(m)
    BY <1>2 DEF HasLease
<1> HIDE DEF l, m
<1>4. Steady(l, m)
    BY <1>2, <1>3 DEF Steady
<1>5. outcome \notin {"Completed", "ResponseBudgetReached"}
    BY OutcomeAssumption DEF TransportDispatchOutcome
<1>6. LeaseIsSound(m)
    BY <1>2, <1>3, <1>5 DEF LeaseIsSound, ClosedTruly, WholeOrTruncated
<1> QED
    BY <1>2, <1>4, <1>6, SteadyStep DEF Abandon, l, m

LEMMA NextAInv == AInv /\ [Next]_vars => AInv'
<1> SUFFICES ASSUME AInv, [Next]_vars PROVE AInv'
    OBVIOUS
<1>0. IInv'
    BY NextIInv DEF AInv
<1>1. CASE UNCHANGED vars
    BY <1>0, <1>1
    DEF vars, AInv, LeasesAreSound, KeptIsCharged, Kept, BytesAreAudited,
        CrossingIsAttributedOnce, CrossingIsNoticed, Leased
<1>2. CASE Next
  <2> PICK c \in Collectors :
        \/ \E stage \in Stages : Preflight(c, stage)
        \/ \E stage \in Stages, body \in RequestBodies : TryBegin(c, stage, body)
        \/ \E body \in RequestBodies : RefuseDispatch(c, body)
        \/ \E expected \in ContentLengths \cup {None} : ReceiveHead(c, expected)
        \/ AcquireResponseRead(c)
        \/ StopReading(c)
        \/ \E bytes \in 0..MaxChunk : ReadChunk(c, bytes)
        \/ ReadEnd(c)
        \/ TransportFailure(c)
        \/ RequestTimeout(c)
        \/ Cancel(c)
        \/ DropLease(c)
    BY <1>2 DEF Next
  <2>1. CASE \E stage \in Stages : Preflight(c, stage)
    BY <1>0, <2>1, PreflightAccounts
  <2>2. CASE \E stage \in Stages, body \in RequestBodies : TryBegin(c, stage, body)
    BY <1>0, <2>2, BeginsAccount
  <2>3. CASE \E body \in RequestBodies : RefuseDispatch(c, body)
    BY <1>0, <2>3, RefuseAccounts
  <2>4. CASE \E expected \in ContentLengths \cup {None} : ReceiveHead(c, expected)
    BY <1>0, <2>4, HeadAccounts
  <2>5. CASE AcquireResponseRead(c)
    BY <1>0, <2>5, AcquireAccounts
  <2>6. CASE StopReading(c)
    BY <1>0, <2>6, StopAccounts
  <2>7. CASE \E bytes \in 0..MaxChunk : ReadChunk(c, bytes)
    BY <1>0, <2>7, ChunkAccounts
  <2>8. CASE ReadEnd(c)
    BY <1>0, <2>8, EndAccounts
  <2>9. CASE TransportFailure(c) \/ RequestTimeout(c) \/ Cancel(c)
    BY <1>0, <2>9, AbandonAccounts DEF TransportFailure, RequestTimeout, TimeoutCovers, Cancel
  <2>10. CASE DropLease(c)
    BY <1>0, <2>10, DropAccounts
  <2> QED
    BY <2>1, <2>2, <2>3, <2>4, <2>5, <2>6, <2>7, <2>8, <2>9, <2>10
<1> QED
    BY <1>1, <1>2

\* The accounts of the responses hold of every behaviour.
THEOREM ResponseInvariance == Spec => []AInv
BY InitAInv, NextAInv, PTL DEF Spec

\* However collectors interleave, and however their responses end, receipts and leases add
\* up to what the session was charged, the crossing of the threshold is marked once and
\* never lost, what is kept fits both allowances, and a response handed back as not
\* truncated is whole (collect_built_request and the lease it charges).
THEOREM ResponsesAccounted == Spec => []ResponsesAreAccounted
BY AInvAccounts, ResponseInvariance, PTL
=============================================================================
