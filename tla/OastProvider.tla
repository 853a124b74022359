---------------------------- MODULE OastProvider ----------------------------
(***************************************************************************)
(* The self-hosted callback provider: ProviderState                        *)
(* (src/crates/termivar-oast/src/state.rs) behind its HTTP listener        *)
(* (server.rs).                                                            *)
(*                                                                         *)
(* A request is admitted against a semaphore that never queues, then waits *)
(* for the one lock of the provider state; whatever it does to the state   *)
(* it does in one critical section.  A callback that is refused admission  *)
(* waits for the same lock only to mark its session incomplete.  A step is *)
(* the arrival of a request, one critical section, the request timeout (or *)
(* the disconnect) that drops a request waiting for the lock, or the       *)
(* passing of a unit of time.                                              *)
(*                                                                         *)
(* Time appears only as the distance to a deadline: `life` is what is left *)
(* until expires_at_millis and `keep` until retain_until_millis, so that   *)
(* `now >= expires_at` reads `life = 0`.                                   *)
(*                                                                         *)
(* An event belongs to one callback, a callback has at most one event, and *)
(* events are only pushed, with increasing cursors; the vector of events   *)
(* is therefore kept as the cursor of each callback's event, 0 for none.   *)
(* Tokens are abstracted to whether the request carries the right one.     *)
(***************************************************************************)
EXTENDS Integers, FiniteSets

CONSTANTS
    Sessions,                 \* session ids the CSPRNG hands out
    NoSession,                \* no session id
    Conns,                    \* connections requests arrive on
    Callbacks,                \* callback ids: 1 .. n in order of allocation
    max_concurrent_requests,  \* ProviderLimits
    max_active_sessions,
    max_poll_events_per_response,
    \* the SessionRequest of every session
    max_callbacks, max_events, max_polls,
    Lifetime,                 \* lifetime_ms, in units of time
    Retention,                \* RESULT_RETENTION_MILLIS
    MAX_DUPLICATE_HITS

(***************************************************************************)
(* validate_session_request and ProviderLimits admit no zero limit.        *)
(***************************************************************************)
ASSUME SessionsAssumption == NoSession \notin Sessions /\ IsFiniteSet(Sessions)
ASSUME LimitsAssumption ==
    /\ max_concurrent_requests \in Nat \ {0}
    /\ max_active_sessions \in Nat \ {0}
    /\ max_poll_events_per_response \in Nat \ {0}
    /\ max_callbacks \in Nat \ {0}
    /\ max_events \in Nat \ {0}
    /\ max_polls \in Nat \ {0}
    /\ Lifetime \in Nat \ {0}
    /\ Retention \in Nat \ {0}
    /\ MAX_DUPLICATE_HITS \in Nat
ASSUME CallbacksAssumption == Callbacks = 1 .. max_callbacks

VARIABLES
    sessions,  \* ProviderState::sessions, by id
    stage,     \* where the request of a connection is
    req,       \* the request itself
    ans,       \* its answer
    answered   \* observation only: the callbacks of a session that were
               \* answered 204 while the session accepted them

vars == <<sessions, stage, req, ans, answered>>

(***************************************************************************)
(* A session id is drawn once; after removal nothing of it is left.        *)
(***************************************************************************)
Blank(phase) ==
    [phase |-> phase, life |-> 0, keep |-> 0, polls |-> 0, next_cursor |-> 0,
     callbacks |-> {}, cursor |-> [c \in Callbacks |-> 0],
     duplicates |-> [c \in Callbacks |-> 0], incomplete |-> FALSE]

Fresh == [Blank("present") EXCEPT !.life = Lifetime, !.keep = Lifetime + Retention]

Present == {s \in Sessions : sessions[s].phase = "present"}

SessionState ==
    [phase : {"unborn", "present", "removed"}, life : 0 .. Lifetime,
     keep : 0 .. (Lifetime + Retention), polls : 0 .. max_polls,
     next_cursor : 0 .. max_events, callbacks : SUBSET Callbacks,
     cursor : [Callbacks -> 0 .. max_events],
     duplicates : [Callbacks -> 0 .. MAX_DUPLICATE_HITS], incomplete : BOOLEAN]

(***************************************************************************)
(* `valid` is whether the credential matches and, for a registration,      *)
(* whether the request passes validate_session_request.                    *)
(***************************************************************************)
Request ==
    [op : {"register", "allocate", "poll", "cleanup", "callback"},
     session : Sessions \cup {NoSession}, callback : Callbacks \cup {0},
     after : Nat, valid : BOOLEAN]

Ask(op, s, c, after, valid) ==
    [op |-> op, session |-> s, callback |-> c, after |-> after, valid |-> valid]

NoRequest == Ask("callback", NoSession, 0, 0, FALSE)

(***************************************************************************)
(* An answer carries a status and, for an operation that succeeded, what   *)
(* it returns; `owed` is observation only (see Page).                      *)
(***************************************************************************)
Reply(status, s, c) ==
    [status |-> status, session |-> s, callback |-> c, next_cursor |-> 0,
     complete |-> FALSE, expired |-> FALSE, events |-> {}, owed |-> {}]

NoAnswer == Reply("none", NoSession, 0)
Failed == Reply("failed", NoSession, 0)  \* any HttpFailure

Answer ==
    [status : {"none", "ok", "failed"}, session : Sessions \cup {NoSession},
     callback : Callbacks \cup {0}, next_cursor : Nat, complete : BOOLEAN,
     expired : BOOLEAN, events : SUBSET Callbacks, owed : SUBSET Callbacks]

Init ==
    /\ sessions = [s \in Sessions |-> Blank("unborn")]
    /\ stage = [k \in Conns |-> "idle"]
    /\ req = [k \in Conns |-> NoRequest]
    /\ ans = [k \in Conns |-> NoAnswer]
    /\ answered = [s \in Sessions |-> {}]

-----------------------------------------------------------------------------
(***************************************************************************)
(* bound_request: admission precedes the handler and fails at once.        *)
(***************************************************************************)
Admitted == {k \in Conns : stage[k] = "admitted"}
MayAdmit == Cardinality(Admitted) < max_concurrent_requests

(***************************************************************************)
(* A refused management request is answered 503 on the spot.               *)
(***************************************************************************)
AdmissionOf(r) ==
    IF MayAdmit THEN "admitted" ELSE IF r.op = "callback" THEN "refused" ELSE "answered"

Arrive(k, r) ==
    /\ stage[k] = "idle"
    /\ stage' = [stage EXCEPT ![k] = AdmissionOf(r)]
    /\ req' = [req EXCEPT ![k] = r]
    /\ ans' = [ans EXCEPT ![k] = IF AdmissionOf(r) = "answered" THEN Failed ELSE NoAnswer]
    /\ UNCHANGED <<sessions, answered>>

(***************************************************************************)
(* The end of a request: the permit is dropped with the handler's future.  *)
(* Nobody waits for the answer of a callback; that of a management request *)
(* stands until the client takes it or it is lost.                         *)
(***************************************************************************)
Release(k) ==
    /\ stage' = [stage EXCEPT ![k] = "idle"]
    /\ req' = [req EXCEPT ![k] = NoRequest]
    /\ ans' = [ans EXCEPT ![k] = NoAnswer]

Finish(k, a) ==
    /\ stage' = [stage EXCEPT ![k] = "answered"]
    /\ ans' = [ans EXCEPT ![k] = a]
    /\ UNCHANGED req

(***************************************************************************)
(* REQUEST_TIMEOUT, or a disconnect, while the request waits for the lock. *)
(***************************************************************************)
Timeout(k) ==
    /\ stage[k] \in {"admitted", "refused"}
    /\ IF req[k].op = "callback" THEN Release(k) ELSE Finish(k, Failed)
    /\ UNCHANGED <<sessions, answered>>

Forget(k) ==
    /\ stage[k] = "answered"
    /\ Release(k)
    /\ UNCHANGED <<sessions, answered>>

Handles(k, op) == stage[k] = "admitted" /\ req[k].op = op

-----------------------------------------------------------------------------

(***************************************************************************)
(* reclaim_sessions_at: every session at or past its retention deadline is *)
(* dropped, by every authenticated management operation.                   *)
(***************************************************************************)
Reclaimable(s) == sessions[s].phase = "present" /\ sessions[s].keep = 0

Reclaimed == [s \in Sessions |-> IF Reclaimable(s) THEN Blank("removed") ELSE sessions[s]]

(***************************************************************************)
(* authenticated_session_mut: the lookup and the credential come before    *)
(* the sweep, and the sweep may take the session itself.                   *)
(***************************************************************************)
Authenticated(r) == r.session \in Present /\ r.valid
Survives(s) == s \in Present /\ ~Reclaimable(s)

Refuse(k) == Finish(k, Failed) /\ UNCHANGED answered

Refused(r) == IF Authenticated(r) THEN Reclaimed ELSE sessions

HasCapacity == Cardinality({s \in Present : ~Reclaimable(s)}) < max_active_sessions

Register(k) ==
    /\ Handles(k, "register")
    /\ \/ /\ ~req[k].valid
          /\ Refuse(k)
          /\ UNCHANGED sessions
       \/ /\ req[k].valid                 \* capacity or entropy exhausted
          /\ Refuse(k)
          /\ sessions' = Reclaimed
       \/ /\ req[k].valid
          /\ HasCapacity
          /\ \E s \in Sessions :
                /\ sessions[s].phase = "unborn"
                /\ sessions' = [Reclaimed EXCEPT ![s] = Fresh]
                /\ Finish(k, Reply("ok", s, 0))
          /\ UNCHANGED answered

(***************************************************************************)
(* Allocation stops at the expiry; the id is the next one of the session.  *)
(***************************************************************************)
MayAllocate(s) ==
    /\ sessions[s].life > 0
    /\ Cardinality(sessions[s].callbacks) < max_callbacks

Allocate(k) ==
    LET s == req[k].session
        c == Cardinality(sessions[s].callbacks) + 1
    IN  /\ Handles(k, "allocate")
        /\ \/ /\ Refuse(k)                \* refused, or entropy unavailable
              /\ sessions' = Refused(req[k])
           \/ /\ Authenticated(req[k]) /\ Survives(s) /\ MayAllocate(s)
              /\ sessions' = [Reclaimed EXCEPT ![s].callbacks = @ \cup {c}]
              /\ Finish(k, Reply("ok", s, c))
              /\ UNCHANGED answered

-----------------------------------------------------------------------------
(***************************************************************************)
(* observe_callback_at.  `Accepts` is the code past its early returns; a   *)
(* callback that is unknown or late changes nothing.                       *)
(***************************************************************************)
Accepts(s, c) == s \in Present /\ sessions[s].life > 0 /\ c \in sessions[s].callbacks

Events(x) == {c \in Callbacks : x.cursor[c] > 0}

(***************************************************************************)
(* A callback with an event is a duplicate: counted up to the limit, and   *)
(* beyond it the count is no longer true, which makes the session          *)
(* incomplete.                                                             *)
(***************************************************************************)
Duplicate(x, c) ==
    IF x.duplicates[c] < MAX_DUPLICATE_HITS
    THEN [x EXCEPT !.duplicates[c] = @ + 1]
    ELSE [x EXCEPT !.incomplete = TRUE]

(***************************************************************************)
(* retain_new_event, or the mark when there is no room for the event.      *)
(***************************************************************************)
AtEventLimit(x) == [x EXCEPT !.incomplete = TRUE]

NewEvent(x, c) ==
    IF Cardinality(Events(x)) >= max_events
    THEN AtEventLimit(x)
    ELSE [x EXCEPT !.next_cursor = @ + 1, !.cursor[c] = x.next_cursor + 1]

(***************************************************************************)
(* The lookup of event_index that tells a duplicate from a first hit.      *)
(***************************************************************************)
HasEvent(x, c) == x.cursor[c] > 0

Observed(x, c) == IF HasEvent(x, c) THEN Duplicate(x, c) ELSE NewEvent(x, c)

\* Bug: an observation that is given up leaves no trace.
MarkedNot(x) == x

Marked(x) == [x EXCEPT !.incomplete = TRUE]

(***************************************************************************)
(* Drawing the event id can fail for a first hit; the mark remains.        *)
(***************************************************************************)
EntropyFailed(x, c) == IF HasEvent(x, c) THEN Duplicate(x, c) ELSE Marked(x)

ObserveCallback(k) ==
    LET s == req[k].session
        c == req[k].callback
    IN  /\ Handles(k, "callback")
        /\ \/ /\ ~Accepts(s, c)
              /\ UNCHANGED <<sessions, answered>>
           \/ /\ Accepts(s, c)
              /\ \/ sessions' = [sessions EXCEPT ![s] = Observed(@, c)]
                 \/ sessions' = [sessions EXCEPT ![s] = EntropyFailed(@, c)]
              /\ answered' = [answered EXCEPT ![s] = @ \cup {c}]
        /\ Release(k)

(***************************************************************************)
(* A callback refused at saturation: mark_callback_observation_incomplete  *)
(* looks at the session and the callback, not at the expiry.               *)
(***************************************************************************)
MarkIncomplete(k) ==
    LET s == req[k].session
        c == req[k].callback
    IN  /\ stage[k] = "refused"
        /\ sessions' = IF s \in Present /\ c \in sessions[s].callbacks
                       THEN [sessions EXCEPT ![s] = Marked(@)]
                       ELSE sessions
        /\ answered' = IF Accepts(s, c)
                       THEN [answered EXCEPT ![s] = @ \cup {c}]
                       ELSE answered
        /\ Release(k)

-----------------------------------------------------------------------------
(***************************************************************************)
(* poll_bearer_at: the oldest events after the cursor, one page of them.   *)
(***************************************************************************)
Matching(x, after) == {c \in Callbacks : x.cursor[c] > after}

PageEvents(x, after) ==
    {c \in Matching(x, after) :
        Cardinality({d \in Matching(x, after) : x.cursor[d] < x.cursor[c]})
            < max_poll_events_per_response}

LastCursor(x, E) == CHOOSE n \in {x.cursor[c] : c \in E} : \A c \in E : x.cursor[c] <= n

NextCursor(x, after) ==
    IF PageEvents(x, after) = {} THEN after ELSE LastCursor(x, PageEvents(x, after))

(***************************************************************************)
(* `!has_more && !event_retention_incomplete`.                             *)
(***************************************************************************)
IsComplete(x, after) == PageEvents(x, after) = Matching(x, after) /\ ~x.incomplete

Page(s, x, after) ==
    [Reply("ok", s, 0) EXCEPT
        !.next_cursor = NextCursor(x, after), !.complete = IsComplete(x, after),
        !.expired = (x.life = 0), !.events = PageEvents(x, after),
        !.owed = answered[s]]

(***************************************************************************)
(* The poll is charged before its cursor is looked at.                     *)
(***************************************************************************)
MayPoll(s) == sessions[s].polls < max_polls

Poll(k) ==
    LET s == req[k].session
        a == req[k].after
        x == sessions[s]
    IN  /\ Handles(k, "poll")
        /\ IF Authenticated(req[k]) /\ Survives(s) /\ MayPoll(s)
           THEN /\ sessions' = [Reclaimed EXCEPT ![s].polls = @ + 1]
                /\ Finish(k, IF a <= x.next_cursor THEN Page(s, x, a) ELSE Failed)
           ELSE /\ sessions' = Refused(req[k])
                /\ Finish(k, Failed)
        /\ UNCHANGED answered

Cleanup(k) ==
    LET s == req[k].session
    IN  /\ Handles(k, "cleanup")
        /\ IF Authenticated(req[k]) /\ Survives(s)
           THEN /\ sessions' = [Reclaimed EXCEPT ![s] = Blank("removed")]
                /\ Finish(k, Reply("ok", s, 0))
           ELSE /\ sessions' = Refused(req[k])
                /\ Finish(k, Failed)
        /\ UNCHANGED answered

Handle(k) ==
    \/ Register(k) \/ Allocate(k) \/ Poll(k) \/ Cleanup(k)
    \/ ObserveCallback(k) \/ MarkIncomplete(k)

-----------------------------------------------------------------------------
(***************************************************************************)
(* A unit of time passes for every session.                                *)
(***************************************************************************)
Down(n) == IF n > 0 THEN n - 1 ELSE 0

Age == [s \in Sessions |-> [sessions[s] EXCEPT !.life = Down(@), !.keep = Down(@)]]

Tick ==
    /\ \E s \in Sessions : sessions[s].keep > 0
    /\ sessions' = Age
    /\ UNCHANGED <<stage, req, ans, answered>>

(***************************************************************************)
(* What clients may send: any operation on any session they know of, with  *)
(* a stale or invented cursor, or with a wrong credential.                 *)
(***************************************************************************)
Requests ==
    {Ask("register", NoSession, 0, 0, v) : v \in BOOLEAN}
        \cup {Ask(op, s, 0, 0, v) : op \in {"allocate", "cleanup"}, s \in Sessions, v \in BOOLEAN}
        \cup {Ask("poll", s, 0, a, v) : s \in Sessions, a \in 0 .. (max_events + 1), v \in BOOLEAN}
        \cup {Ask("callback", s, c, 0, TRUE) : s \in Sessions, c \in Callbacks}

Server == \E k \in Conns : Handle(k) \/ Timeout(k)

Next ==
    \/ \E k \in Conns : (\E r \in Requests : Arrive(k, r)) \/ Forget(k)
    \/ Server
    \/ Tick

Spec == Init /\ [][Next]_vars

-----------------------------------------------------------------------------
(***************************************************************************)
(* The provider's sessions and the requests in flight are of their types;  *)
(* in particular no counter exceeds the limit its operation checks.        *)
(***************************************************************************)
TypeOK ==
    /\ sessions \in [Sessions -> SessionState]
    /\ stage \in [Conns -> {"idle", "admitted", "refused", "answered"}]
    /\ req \in [Conns -> Request]
    /\ ans \in [Conns -> Answer]
    /\ answered \in [Sessions -> SUBSET Callbacks]

(***************************************************************************)
(* "A bounded response is never marked complete after silent truncation":  *)
(* a page the provider calls complete, asked for at any cursor it handed   *)
(* out, together with what lies before that cursor, has an event for every *)
(* callback that was answered while the session accepted it.  Callbacks    *)
(* dropped at the event limit, for want of entropy or at saturation would  *)
(* break it without the sticky mark (poll_bearer_at, observe_callback_at,  *)
(* bound_request).                                                         *)
(***************************************************************************)
CompletePageIsWhole ==
    \A s \in Present : \A a \in 0 .. sessions[s].next_cursor :
        IsComplete(sessions[s], a) =>
            \A c \in answered[s] :
                /\ HasEvent(sessions[s], c)
                /\ sessions[s].cursor[c] <= a \/ c \in PageEvents(sessions[s], a)

(***************************************************************************)
(* The cursors of a session's events are exactly 1 .. next_cursor, one per *)
(* event, and every event is of an allocated callback (retain_new_event),  *)
(* so that `after` means "everything up to here".                          *)
(***************************************************************************)
CursorsAreDense ==
    \A s \in Sessions : LET x == sessions[s] IN
        /\ {x.cursor[c] : c \in Events(x)} = 1 .. x.next_cursor
        /\ \A c, d \in Events(x) : x.cursor[c] = x.cursor[d] => c = d
        /\ Events(x) \subseteq x.callbacks

(***************************************************************************)
(* A client that follows the cursor of its last page loses nothing: an     *)
(* event that was after the old cursor is in the page or after the new one *)
(* (poll_bearer_at's next_cursor).                                         *)
(***************************************************************************)
PagesSkipNothing ==
    \A s \in Present : \A a \in 0 .. sessions[s].next_cursor :
        LET x == sessions[s]
        IN  /\ NextCursor(x, a) \in a .. x.next_cursor
            /\ Matching(x, a) \ PageEvents(x, a) = Matching(x, NextCursor(x, a))

(***************************************************************************)
(* What a client learns by following the cursor is whole: pages called     *)
(* complete are, no event is skipped between two pages, and the cursors    *)
(* they go by leave no gap, also when a callback was refused admission or  *)
(* could not be stored (poll_bearer_at over observe_callback_at).          *)
(***************************************************************************)
PagesAreWhole == CompletePageIsWhole /\ CursorsAreDense /\ PagesSkipNothing

=============================================================================
