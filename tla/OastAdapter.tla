---------------------------- MODULE OastAdapter ----------------------------
(***************************************************************************)
(* The scanner's side of one provider session: NativeOastProviderAdapter   *)
(* and its permit (src/crates/termivar-scanner/src/native_oast_provider.rs)*)
(* with the correlation state it commits (oast.rs), speaking to            *)
(* OastProvider through NativeOastClient (termivar-oast/src/client.rs).    *)
(*                                                                         *)
(* The adapter is borrowed mutably for an operation, so it has one request *)
(* outstanding; that request can be lost, and one the adapter gave up on   *)
(* can still be served, or its answer arrive to nobody.  Nothing is        *)
(* retried.  An operation is two steps: the checks and the dispatch, then  *)
(* the answer (or the failure) and everything it commits.                  *)
(*                                                                         *)
(* All correlations are issued with the poll budget of the adapter and     *)
(* expire at the permit's deadline, which bounds them (allocate_callback   *)
(* takes the minimum), so one deadline `left` stands for both.             *)
(*                                                                         *)
(* Response and request byte limits and the parent's budget are one        *)
(* nondeterministic refusal of the dispatch (RequestAccounting models      *)
(* them).  Error kinds are kept as the runtimes tell them apart:           *)
(* cancelled, out of budget, or anything else.                             *)
(***************************************************************************)
EXTENDS OastProvider, Sequences

CONSTANTS
    NoConn,                 \* no connection
    max_provider_requests   \* NativeOastProviderLimits

ASSUME AdapterAssumption ==
    /\ NoConn \notin Conns
    /\ max_provider_requests \in Nat /\ max_provider_requests >= 2

VARIABLES
    ad,         \* the adapter's own fields
    call,       \* the operation it is executing, "none" between operations
    conn,       \* the connection its request arrived on
    result,     \* what the last operation returned
    left,       \* time left until the permit's deadline
    cancelled,  \* the scan's cancellation token
    receipts,   \* operation and admitted request count of each receipt
    settled     \* observation only: what was answered when the last accepted
                \* page was served

adVars == <<ad, call, conn, result, left, cancelled, receipts, settled>>

Lifecycles == {"Configured", "Registered", "CallbackAllocated", "Polling", "Closed"}
Operations == {"register", "allocate", "poll", "cleanup"}
Results == {"none", "ok", "cancelled", "budget", "other"}

AdInit ==
    /\ Init
    /\ ad = [lifecycle |-> "Configured", session |-> NoSession, cursor |-> 0,
             callbacks |-> {}, remaining |-> max_polls, seen |-> {},
             registration_attempted |-> FALSE, callback_attempts |-> 0,
             poll_attempts |-> 0, cleanup_attempted |-> FALSE,
             cleanup_verified |-> FALSE, requests |-> 0]
    /\ call = "none"
    /\ conn = NoConn
    /\ result = "none"
    /\ left = Lifetime
    /\ cancelled = FALSE
    /\ receipts = <<>>
    /\ settled = {}

-----------------------------------------------------------------------------
(***************************************************************************)
(* lifecycle_allows.                                                       *)
(***************************************************************************)
LifecycleAllows(op) ==
    CASE op = "register" -> ad.lifecycle = "Configured"
      [] op = "allocate" -> ad.lifecycle \in {"Registered", "CallbackAllocated"}
      [] op = "poll"     -> ad.lifecycle \in {"CallbackAllocated", "Polling"}
      [] op = "cleanup"  -> ad.lifecycle \in {"Registered", "CallbackAllocated", "Polling"}

(***************************************************************************)
(* The early returns of each operation, before any attempt is charged.     *)
(***************************************************************************)
Permitted(op) ==
    /\ LifecycleAllows(op)
    /\ op = "register" => ~ad.registration_attempted
    /\ op = "allocate" => ad.callback_attempts < max_callbacks
    /\ op = "poll" => ad.poll_attempts < max_polls
    /\ op = "cleanup" => ~ad.cleanup_attempted

(***************************************************************************)
(* The attempt is charged whatever becomes of it; cleanup leaves the       *)
(* lifecycle for good (Closing, then Closed, within the operation).        *)
(***************************************************************************)
Attempted(op) ==
    CASE op = "register" -> [ad EXCEPT !.registration_attempted = TRUE]
      [] op = "allocate" -> [ad EXCEPT !.callback_attempts = @ + 1]
      [] op = "poll"     -> [ad EXCEPT !.poll_attempts = @ + 1]
      [] op = "cleanup"  -> [ad EXCEPT !.cleanup_attempted = TRUE, !.lifecycle = "Closed"]

(***************************************************************************)
(* The registration carries the key and the limits the host configured,    *)
(* which the provider may not accept; later requests carry the session's   *)
(* own credential.                                                         *)
(***************************************************************************)
AsksOf(op) ==
    {Ask(op, ad.session, 0, IF op = "poll" THEN ad.cursor ELSE 0, valid) :
        valid \in IF op = "register" THEN BOOLEAN ELSE {TRUE}}

ReceiptOf(op, a) == [op |-> op, request_count |-> a.requests]

(***************************************************************************)
(* client_failure records a receipt of every attempt that failed; cleanup  *)
(* drops the session however it ends.                                      *)
(***************************************************************************)
Fail(a, op, kind) ==
    /\ ad' = [a EXCEPT !.session = IF op = "cleanup" THEN NoSession ELSE @]
    /\ receipts' = Append(receipts, ReceiptOf(op, a))
    /\ result' = kind
    /\ call' = "none"
    /\ conn' = NoConn
    /\ UNCHANGED <<left, cancelled, settled>>

(***************************************************************************)
(* An operation the adapter does not permit returns without a receipt; the *)
(* poll limit counts as budget for the runtimes.                           *)
(***************************************************************************)
Reject(op) ==
    /\ call = "none"
    /\ ~Permitted(op)
    /\ result' = IF op = "poll" /\ LifecycleAllows(op) THEN "budget" ELSE "other"
    /\ UNCHANGED <<ad, call, conn, left, cancelled, receipts, settled>>
    /\ UNCHANGED vars

(***************************************************************************)
(* dispatch_wire and begin_dispatch: cancellation, the deadline, the       *)
(* request limit and the budgets are looked at before the request is sent. *)
(***************************************************************************)
MayDispatch == ~cancelled /\ left > 0 /\ ad.requests < max_provider_requests

FailBeforeDispatch(op) ==
    /\ call = "none"
    /\ Permitted(op)
    /\ Fail(Attempted(op), op,
            IF cancelled THEN "cancelled" ELSE "budget")
    /\ UNCHANGED vars

Dispatch(op) ==
    /\ call = "none"
    /\ Permitted(op)
    /\ MayDispatch
    /\ ad' = [Attempted(op) EXCEPT !.requests = @ + 1]
    /\ call' = op
    /\ \/ /\ conn' = NoConn               \* the request is lost
          /\ UNCHANGED vars
       \/ \E k \in Conns, r \in AsksOf(op) : conn' = k /\ Arrive(k, r)
    /\ UNCHANGED <<result, left, cancelled, receipts, settled>>

-----------------------------------------------------------------------------
(***************************************************************************)
(* The wait ends without an answer: cancellation, the deadline, transport, *)
(* a response beyond the byte limits or one that is malformed.  The        *)
(* request itself goes on.  The failures that the state does not decide    *)
(* are nondeterministic.                                                   *)
(***************************************************************************)
Answered == call # "none" /\ conn # NoConn /\ stage[conn] = "answered"

FailureKinds == IF cancelled THEN {"cancelled"} ELSE {"budget", "other"}

\* Bug: the wait for an answer ignores the deadline.
GiveUpOnCancellation ==
    /\ call # "none" /\ cancelled
    /\ Fail(ad, call, "cancelled")
    /\ IF Answered THEN Forget(conn) ELSE UNCHANGED vars

GiveUp ==
    /\ call # "none"
    /\ \E kind \in FailureKinds : Fail(ad, call, kind)
    /\ IF Answered THEN Forget(conn) ELSE UNCHANGED vars

(***************************************************************************)
(* validate_response_head: any status but the expected one.                *)
(***************************************************************************)
TakeFailure ==
    /\ Answered
    /\ ans[conn].status = "failed"
    /\ Fail(ad, call, "other")
    /\ Forget(conn)

(***************************************************************************)
(* ensure_operation_live: a whole answer that arrives after cancellation   *)
(* or the deadline is an error (GiveUp).                                   *)
(***************************************************************************)
Succeeded(op) ==
    /\ Answered /\ call = op
    /\ ans[conn].status = "ok"
    /\ ~cancelled /\ left > 0

Commit(a) ==
    /\ ad' = a
    /\ receipts' = Append(receipts, ReceiptOf(call, a))
    /\ result' = "ok"
    /\ call' = "none"
    /\ conn' = NoConn
    /\ Forget(conn)
    /\ UNCHANGED <<left, cancelled>>

Registered ==
    /\ Succeeded("register")
    /\ Commit([ad EXCEPT !.session = ans[conn].session, !.lifecycle = "Registered"])
    /\ UNCHANGED settled

Allocated ==
    /\ Succeeded("allocate")
    /\ Commit([ad EXCEPT !.callbacks = @ \cup {ans[conn].callback},
                         !.lifecycle = "CallbackAllocated"])
    /\ UNCHANGED settled

\* Bug: an incomplete page is accepted.
PageAcceptedPartial(p) ==
    /\ ~p.expired
    /\ p.next_cursor >= ad.cursor
    /\ p.events \subseteq ad.callbacks
    /\ ad.callbacks # {} => ad.remaining > 0

(***************************************************************************)
(* validate_provider_poll_page, past the checks of schema and session that *)
(* one honest provider meets, and correlations_ready.                      *)
(***************************************************************************)
PageAccepted(p) ==
    /\ p.complete
    /\ ~p.expired
    /\ p.next_cursor >= ad.cursor
    /\ p.events \subseteq ad.callbacks
    /\ ad.callbacks # {} => ad.remaining > 0

(***************************************************************************)
(* reduce_page_atomically works on snapshots of every correlation and      *)
(* installs them together; then the cursor moves.                          *)
(***************************************************************************)
Reduced(p) ==
    [ad EXCEPT !.seen = @ \cup p.events, !.remaining = @ - 1,
               !.cursor = p.next_cursor, !.lifecycle = "Polling"]

Polled ==
    /\ Succeeded("poll")
    /\ \/ /\ PageAccepted(ans[conn])
          /\ Commit(Reduced(ans[conn]))
          /\ settled' = ans[conn].owed
       \/ /\ ~PageAccepted(ans[conn])
          /\ Fail(ad, "poll", "other")
          /\ Forget(conn)

\* Bug: a cleanup counts as verified whatever the status.
CleanedUnasked ==
    /\ Answered /\ call = "cleanup"
    /\ ~cancelled /\ left > 0
    /\ Commit([ad EXCEPT !.cleanup_verified = TRUE, !.session = NoSession])
    /\ UNCHANGED settled

Cleaned ==
    /\ Succeeded("cleanup")
    /\ Commit([ad EXCEPT !.cleanup_verified = TRUE, !.session = NoSession])
    /\ UNCHANGED settled

Adapter == GiveUp \/ TakeFailure \/ Registered \/ Allocated \/ Polled \/ Cleaned

Call(op) == Reject(op) \/ FailBeforeDispatch(op) \/ Dispatch(op)

-----------------------------------------------------------------------------
(***************************************************************************)
(* Around the adapter: the host cancels, time passes, somebody fetches a   *)
(* callback target that was handed out, and answers nobody waits for       *)
(* evaporate.                                                              *)
(***************************************************************************)
Cancel ==
    /\ ~cancelled
    /\ cancelled' = TRUE
    /\ UNCHANGED <<ad, call, conn, result, left, receipts, settled>>
    /\ UNCHANGED vars

Clock ==
    /\ left > 0 \/ \E s \in Sessions : sessions[s].keep > 0
    /\ left' = Down(left)
    /\ sessions' = Age
    /\ UNCHANGED <<stage, req, ans, answered>>
    /\ UNCHANGED <<ad, call, conn, result, cancelled, receipts, settled>>

Hit(c) ==
    /\ \E k \in Conns : \E s \in Present :
          c \in sessions[s].callbacks /\ Arrive(k, Ask("callback", s, c, 0, TRUE))
    /\ UNCHANGED adVars

Background ==
    \/ Server /\ UNCHANGED adVars
    \/ \E k \in Conns \ {conn} : Forget(k) /\ UNCHANGED adVars

AdNext ==
    \/ \E op \in Operations : Call(op)
    \/ Adapter
    \/ Background
    \/ \E c \in Callbacks : Hit(c)
    \/ Cancel
    \/ Clock

allVars == <<vars, adVars>>

AdSpec == AdInit /\ [][AdNext]_allVars

-----------------------------------------------------------------------------
(***************************************************************************)
(* The adapter's fields are of their types, its attempts and requests within *)
(* their limits.                                                           *)
(***************************************************************************)
AdTypeOK ==
    /\ TypeOK
    /\ ad \in [lifecycle : Lifecycles, session : Sessions \cup {NoSession},
               cursor : Nat, callbacks : SUBSET Callbacks,
               remaining : 0 .. max_polls, seen : SUBSET Callbacks,
               registration_attempted : BOOLEAN,
               callback_attempts : 0 .. max_callbacks,
               poll_attempts : 0 .. max_polls, cleanup_attempted : BOOLEAN,
               cleanup_verified : BOOLEAN, requests : 0 .. max_provider_requests]
    /\ call \in Operations \cup {"none"}
    /\ conn \in Conns \cup {NoConn}
    /\ result \in Results
    /\ left \in 0 .. Lifetime
    /\ cancelled \in BOOLEAN
    /\ receipts \in Seq([op : Operations, request_count : 0 .. max_provider_requests])
    /\ settled \subseteq Callbacks

(***************************************************************************)
(* The cursor and the correlations move together: while the session is     *)
(* there, the adapter has accepted exactly the events up to its cursor,    *)
(* through lost answers, rejected pages and callbacks that arrive between  *)
(* two polls (poll_inner, reduce_page_atomically).                         *)
(***************************************************************************)
CursorMatchesSeen ==
    ad.session \in Present =>
        ad.seen = {c \in Callbacks : HasEvent(sessions[ad.session], c)
                                     /\ sessions[ad.session].cursor[c] <= ad.cursor}

(***************************************************************************)
(* After an accepted page the adapter has seen every callback that was     *)
(* answered before the provider served that page, and has seen none that   *)
(* was not answered (poll_inner accepts complete pages only).              *)
(***************************************************************************)
SeenIsWholeAndTrue ==
    /\ settled \subseteq ad.seen
    /\ ad.seen \subseteq UNION {answered[s] : s \in Sessions}

(***************************************************************************)
(* What the adapter reports as observed is exactly what happened: its      *)
(* correlations and its cursor agree with the provider's events, and an    *)
(* accepted page leaves nothing out, though answers are lost and requests  *)
(* it gave up on are served later (poll_inner).                            *)
(***************************************************************************)
ObservationsAreExact == CursorMatchesSeen /\ SeenIsWholeAndTrue

(***************************************************************************)
(* The provider never refuses the adapter's poll for its poll budget: the  *)
(* adapter charges an attempt before the provider can (poll_attempts is    *)
(* bumped before the dispatch, and the session was granted the same        *)
(* number).                                                                *)
(***************************************************************************)
PollBudgetsAgree ==
    \A k \in Conns :
        Handles(k, "poll") /\ req[k].session \in Present => MayPoll(req[k].session)

(***************************************************************************)
(* The session accepts callbacks and answers polls at least until the      *)
(* permit's deadline: until then it is only gone if its cleanup was served *)
(* (register_inner asks for the permit's whole wall time).                 *)
(***************************************************************************)
SessionOutlivesPermit ==
    ad.session # NoSession =>
        \/ sessions[ad.session].phase = "present" /\ sessions[ad.session].life >= left
        \/ ad.cleanup_attempted
        \/ left = 0

(***************************************************************************)
(* A verified cleanup is true: nothing of the session is left with the     *)
(* provider, and nothing the adapter sent earlier can bring it back        *)
(* (cleanup_inner; requests that were given up on may still be served).    *)
(***************************************************************************)
VerifiedCleanupIsFinal ==
    ad.cleanup_verified => \A s \in Sessions : sessions[s].phase # "present"

(***************************************************************************)
(* A registered session is never left behind for want of a request: every  *)
(* operation up to the limits of callbacks and polls leaves one for the    *)
(* cleanup, when the host grants two more than those.                      *)
(***************************************************************************)
CleanupIsAffordable ==
    Permitted("cleanup") => ad.requests < max_provider_requests

(***************************************************************************)
(* From registration to cleanup the two sides agree about the session: it  *)
(* lives as long as the permit, polls are never refused for the budget, a  *)
(* cleanup can always be paid for, and one that was verified is final      *)
(* (register_inner, poll_inner, cleanup_inner against ProviderState).      *)
(***************************************************************************)
SessionIsAgreed ==
    PollBudgetsAgree /\ SessionOutlivesPermit /\ VerifiedCleanupIsFinal /\ CleanupIsAffordable
=============================================================================
