-------------------------- MODULE ResultAggregator --------------------------
(***************************************************************************)
(* The result store of the `distributed` feature                           *)
(* (src/crates/termivar-scanner/src/distributed/results.rs) beside the     *)
(* coordinator whose completion receipts it consumes.                      *)
(*                                                                         *)
(* The store has a mutex and a revision of its own.  Whoever was told of a *)
(* completion may store a result for it, more than one of them, with the   *)
(* same bytes or others; each reads the revision, presents receipt and     *)
(* bytes, and may lose the answer and try again.                           *)
(*                                                                         *)
(* As in Coordinator, the revision is only compared for equality: `fresh`  *)
(* is the set of storers that hold the current one, and a store presented  *)
(* with another is refused and changes nothing.  One coordinator epoch is  *)
(* modelled; keeping epochs apart is left to the caller by the code.       *)
(***************************************************************************)
EXTENDS Coordinator, Sequences, Functions

CONSTANTS
    Storers,     \* hosts and threads that hold a clone of the aggregator
    Bytes,       \* results: records with a `size` and what else tells them apart
    \* ResultLimits
    max_results, max_result_bytes, max_total_bytes,
    max_aggregate_items, max_aggregate_bytes

(***************************************************************************)
(* validate_result_limits.                                                 *)
(***************************************************************************)
ASSUME ResultLimitsAssumption ==
    /\ {max_results, max_result_bytes, max_total_bytes,
        max_aggregate_items, max_aggregate_bytes} \subseteq Nat \ {0}
    /\ max_result_bytes <= max_total_bytes

ASSUME BytesAssumption == \A b \in Bytes : b.size \in Nat

VARIABLES
    results,      \* task id -> StoredResult, for the stored ones
    total_bytes,
    fresh,        \* storers that hold the store's revision
    job,          \* the receipt and bytes a storer wants stored
    told          \* observation only: any one answer some storer received

storeVars == <<results, total_bytes>>
raVars == <<storeVars, fresh, job, told>>

raInit ==
    /\ Init
    /\ results = << >>
    /\ total_bytes = 0
    /\ fresh = Storers
    /\ job = [s \in Storers |-> None]
    /\ told = None

-----------------------------------------------------------------------------
(***************************************************************************)
(* A receipt is held by whoever completed the task, or repeated the        *)
(* completion with the same lease.                                         *)
(***************************************************************************)
Receipts == {tasks[a.token.task_id].completion : a \in {x \in acks : x.status = "Completed"}}

Obtain(s) ==
    /\ job[s] = None
    /\ \E r \in Receipts, b \in Bytes : job' = [job EXCEPT ![s] = [receipt |-> r, bytes |-> b]]
    /\ UNCHANGED <<storeVars, fresh, told>>

\* Bug: the revision is read once, before the result is there.
ReadRevisionOnce(s) ==
    /\ s \notin fresh
    /\ job[s] = None
    /\ fresh' = fresh \cup {s}
    /\ UNCHANGED <<storeVars, job, told>>

\* ResultAggregator::revision.
ReadRevision(s) ==
    /\ s \notin fresh
    /\ fresh' = fresh \cup {s}
    /\ UNCHANGED <<storeVars, job, told>>

\* Bug: a replay is recognised by its task alone.
ReplayedByTask(r, b) == TRUE

\* The stored result is this very one.
Replayed(r, b) == results[r.task_id] = [receipt |-> r, bytes |-> b]

Fits(b) ==
    /\ b.size <= max_result_bytes
    /\ Cardinality(DOMAIN results) < max_results
    /\ total_bytes + b.size <= max_total_bytes

(***************************************************************************)
(* store_result past the revision check: a task that has a result answers  *)
(* first, then the limits, then the new result is committed.               *)
(***************************************************************************)
OutcomeOf(r, b) ==
    IF r.task_id \in DOMAIN results
    THEN IF Replayed(r, b) THEN "AlreadyStored"
         ELSE IF results[r.task_id].receipt = r THEN "ConflictingResult"
         ELSE "MismatchedResultReceipt"
    ELSE IF Fits(b) THEN "Stored"
    ELSE "LimitReached"

(***************************************************************************)
(* The answer reaches the storer or is lost; a storer that is not told     *)
(* keeps its job, and does not know the revision its own store made.       *)
(***************************************************************************)
ToldAnswer(s, o) ==
    /\ told' \in {told, [receipt |-> job[s].receipt, bytes |-> job[s].bytes, outcome |-> o]}
    /\ job' = [job EXCEPT ![s] = None]

Answer(s, o) == ToldAnswer(s, o) \/ UNCHANGED <<told, job>>

Stores(o) == o = "Stored"

With(r, b) ==
    [t \in DOMAIN results \cup {r.task_id} |->
        IF t = r.task_id THEN [receipt |-> r, bytes |-> b] ELSE results[t]]

StoreResult(s) ==
    /\ job[s] # None
    /\ s \in fresh
    /\ LET r == job[s].receipt
           b == job[s].bytes
           o == OutcomeOf(r, b)
       IN  IF Stores(o)
           THEN /\ results' = With(r, b)
                /\ total_bytes' = total_bytes + b.size
                /\ \/ ToldAnswer(s, o) /\ fresh' = {s}
                   \/ UNCHANGED <<told, job>> /\ fresh' = {}
           ELSE /\ Answer(s, o)
                /\ UNCHANGED <<storeVars, fresh>>

Storing(s) == Obtain(s) \/ ReadRevision(s) \/ StoreResult(s)

raNext ==
    \/ Next /\ UNCHANGED raVars
    \/ (\E s \in Storers : Storing(s)) /\ UNCHANGED vars

raSpec == raInit /\ [][raNext]_<<vars, raVars>>

(***************************************************************************)
(* A storer reads the revision and stores again until it is told, and an   *)
(* answer it keeps asking for is not lost every time.                      *)
(***************************************************************************)
IsTold(s) == StoreResult(s) /\ job'[s] = None /\ UNCHANGED vars

raFairSpec ==
    /\ raSpec
    /\ \A s \in Storers : /\ WF_<<vars, raVars>>(ReadRevision(s) /\ UNCHANGED vars)
                          /\ WF_<<vars, raVars>>(IsTold(s))

-----------------------------------------------------------------------------
(***************************************************************************)
(* aggregate_results: the requested results in order, or the first error.  *)
(***************************************************************************)
SizeUpTo(ids, n) == SumFunction([i \in 1 .. n |-> results[ids[i]].bytes.size])

Fault(ids, n) ==
    IF \E i \in 1 .. (n - 1) : ids[i] = ids[n] THEN "DuplicateAggregateTask"
    ELSE IF ids[n] \notin DOMAIN results THEN "MissingResult"
    ELSE IF SizeUpTo(ids, n) > max_aggregate_bytes THEN "AggregateBytesExceeded"
    ELSE "none"

Aggregates(ids) ==
    Len(ids) <= max_aggregate_items /\ \A n \in 1 .. Len(ids) : Fault(ids, n) = "none"

Requested == UNION {[1 .. n -> Tasks] : n \in 1 .. Cardinality(Tasks)}

-----------------------------------------------------------------------------
StoredResult == [receipt : CompletionReceipt, bytes : Bytes]

Told == [receipt : CompletionReceipt, bytes : Bytes,
         outcome : {"Stored", "AlreadyStored", "ConflictingResult",
                    "MismatchedResultReceipt", "LimitReached"}]

(***************************************************************************)
(* The store holds results of receipts that can exist, within its byte limit. *)
(***************************************************************************)
raTypeOK ==
    /\ DOMAIN results \subseteq Tasks /\ results \in [DOMAIN results -> StoredResult]
    /\ total_bytes \in 0 .. max_total_bytes
    /\ fresh \subseteq Storers
    /\ job \in [Storers -> [receipt : CompletionReceipt, bytes : Bytes] \cup {None}]
    /\ told \in Told \cup {None}

(***************************************************************************)
(* "Store a result only with a completion receipt": what is stored for a   *)
(* task belongs to the attempt that completed it, whichever attempts were  *)
(* recovered, failed or retried before, and nothing is stored for a task   *)
(* that ended otherwise (store_result over complete_task's receipts).      *)
(***************************************************************************)
StoredIsOfCompletion ==
    \A t \in DOMAIN results :
        /\ t \in DOMAIN tasks /\ tasks[t].status = "Completed"
        /\ results[t].receipt = tasks[t].completion

(***************************************************************************)
(* "Exact same-byte replay is idempotent; a different receipt or bytes for *)
(* an occupied task ID fails": an answer stays true for ever.  Who was     *)
(* told that a result is stored finds exactly those bytes, and who was     *)
(* told of a conflict finds others (store_result).                         *)
(***************************************************************************)
AnswersStayTrue ==
    told # None =>
        LET mine == [receipt |-> told.receipt, bytes |-> told.bytes]
            t == told.receipt.task_id
        IN  /\ told.outcome \in {"Stored", "AlreadyStored"} =>
                  t \in DOMAIN results /\ results[t] = mine
            /\ told.outcome \in {"ConflictingResult", "MismatchedResultReceipt"} =>
                  t \in DOMAIN results /\ results[t] # mine

(***************************************************************************)
(* The running total is the sum of what is stored, so the limits bound     *)
(* what is really retained, through refusals, replays and lost answers.    *)
(***************************************************************************)
TotalIsExact ==
    total_bytes = SumFunction([t \in DOMAIN results |-> results[t].bytes.size])

(***************************************************************************)
(* A read never takes more than max_aggregate_bytes (aggregate_results).   *)
(***************************************************************************)
AggregatesFit ==
    \A ids \in Requested : Aggregates(ids) =>
        SizeUpTo(ids, Len(ids)) <= max_aggregate_bytes

(***************************************************************************)
(* The store never says what is not so: results belong to completions,     *)
(* answers stay true, and the total and every read are within what is      *)
(* really there, through conflicts, stale revisions, lost answers and      *)
(* attempts recovered meanwhile (store_result and aggregate_results).      *)
(***************************************************************************)
StoreIsTruthful ==
    raTypeOK /\ StoredIsOfCompletion /\ AnswersStayTrue /\ TotalIsExact /\ AggregatesFit

(***************************************************************************)
(* Whoever holds a receipt gets an answer, although other storers take the *)
(* revision away and answers are lost (revision, store_result).            *)
(***************************************************************************)
DeliveryEnds == \A s \in Storers : (job[s] # None) ~> (job[s] = None)
=============================================================================
